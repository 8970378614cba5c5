------------------------------ MODULE Billing ------------------------------
(***************************************************************************)
(* The plan of a user and of the user's organization as Stripe's webhooks  *)
(* leave it (billing/billing.service.ts), and what the plan lets the        *)
(* organization do (billing/plan.ts).  Stripe sends an event for every     *)
(* change of a subscription, each at least once, in no particular order;   *)
(* a handler writes the user and then the organization, two queries with    *)
(* nothing between handlers to keep them apart.                            *)
(*                                                                         *)
(* Stripe is external: a subscription starts with a checkout, changes and  *)
(* is deleted, and the user may subscribe again.  Checkout itself is closed *)
(* (PAYMENTS_ENABLED is false), the webhook is not.  applied and torn are   *)
(* history variables: the event whose handler wrote last, and whether two   *)
(* handlers' writes mixed or one failed halfway since a handler last wrote  *)
(* both rows alone.                                                        *)
(***************************************************************************)
EXTENDS Naturals, FiniteSets

CONSTANTS
  Webhook,         \* handlers that can run at once
  NoExpiry,
  MaxEvents,
  MaxDay

ASSUME NoExpiryAssumption == NoExpiry \notin Nat
ASSUME BillingBounds == MaxEvents \in Nat /\ MaxDay \in Nat

VARIABLES
  stripe,    \* the user's subscription at Stripe
  events,    \* the events sent, by number: kept, as each may come again
  account,   \* what the user row says
  plan,      \* what the organization row says
  handling,  \* the running handlers
  day,
  applied,
  torn

billingVars == <<stripe, events, account, plan, handling, day, applied, torn>>

LaterStatus == {"active", "past_due", "unpaid", "paused"}
Day == 0..MaxDay
Expiry == Day \cup {NoExpiry}

NoSubscription == [id |-> 0, status |-> "canceled", ends |-> NoExpiry, canceling |-> FALSE]
NoEvent == [number |-> 0, input |-> 0]
newest == Cardinality(events)

BillingInit ==
  /\ stripe = NoSubscription
  /\ events = {}
  /\ account = [plan |-> "free", status |-> "free", subscription |-> 0, canceling |-> FALSE]
  /\ plan = [plan |-> "FREE", status |-> "active", expires |-> NoExpiry]
  /\ handling = [w \in Webhook |-> NoEvent]
  /\ day = 0
  /\ applied = 0
  /\ torn = FALSE

-----------------------------------------------------------------------------
(* Stripe. *)

Emits(type, subscription) ==
  /\ newest < MaxEvents
  /\ stripe' = subscription
  /\ events' = events \cup {[number |-> newest + 1, type |-> type,
        subscription |-> IF type = "deleted" THEN [stripe EXCEPT !.status = "canceled"]
                         ELSE subscription]}
  /\ UNCHANGED <<account, plan, handling, day, applied, torn>>

\* A checkout is completed when the first period is paid or on trial.
StripeCheckout ==
  /\ stripe.status = "canceled"
  /\ \E status \in {"active", "trialing"} : \E ends \in Day :
       /\ ends > day
       /\ Emits("completed", [id |-> stripe.id + 1, status |-> status, ends |-> ends,
                              canceling |-> FALSE])

StripeUpdate ==
  /\ stripe.status # "canceled"
  /\ \E status \in LaterStatus : \E ends \in Day : \E canceling \in BOOLEAN :
       Emits("updated", [stripe EXCEPT !.status = status, !.ends = ends, !.canceling = canceling])

StripeDelete ==
  /\ stripe.status # "canceled"
  /\ Emits("deleted", [NoSubscription EXCEPT !.id = stripe.id])

DayPasses ==
  /\ day < MaxDay
  /\ day' = day + 1
  /\ UNCHANGED <<stripe, events, account, plan, handling, applied, torn>>

-----------------------------------------------------------------------------
(* The webhook's handlers: what they make of an event. *)

isEntitledStatus(status) == status \in {"active", "trialing", "past_due"}

mapStripeStatus(status) ==
  CASE status \in {"trialing", "past_due", "canceled"} -> status
    [] status \in {"unpaid", "incomplete_expired"} -> "expired"
    [] OTHER -> "active"

mapLifecycleStatus(status, stillCovered) ==
  IF status = "canceled" /\ ~stillCovered THEN "expired" ELSE mapStripeStatus(status)

\* The subscription is asked for again: it may have changed since the event, may change
\* once more before the answer is used, or may not be readable.
onCheckoutCompleted(e) ==
  LET later == {f \in events : f.number >= e.number /\ f.subscription.id = e.subscription.id}
      unread == [e.subscription EXCEPT !.status = "active", !.ends = NoExpiry]
  IN  {[plan |-> "pro", status |-> mapStripeStatus(s.status), subscription |-> s.id,
        expires |-> s.ends, canceling |-> FALSE] :
          s \in {unread} \cup {f.subscription : f \in later}}

\* MUTANT: only an active subscription is entitled.
SubscriptionUpdatedStrict(e) ==
  LET s == e.subscription
      stillCovered == s.ends # NoExpiry /\ s.ends > day
  IN  {[plan |-> IF s.status = "active" THEN "pro" ELSE "free",
        status |-> mapLifecycleStatus(s.status, stillCovered),
        subscription |-> s.id, expires |-> s.ends, canceling |-> s.canceling]}

onSubscriptionUpdated(e) ==
  LET s == e.subscription
      stillCovered == s.ends # NoExpiry /\ s.ends > day
  IN  {[plan |-> IF isEntitledStatus(s.status) \/ (s.status = "canceled" /\ stillCovered)
                   THEN "pro" ELSE "free",
        status |-> mapLifecycleStatus(s.status, stillCovered),
        subscription |-> s.id, expires |-> s.ends, canceling |-> s.canceling]}

\* Whichever subscription was deleted.
onSubscriptionDeleted(e) ==
  {[plan |-> "free", status |-> "inactive", subscription |-> 0, expires |-> NoExpiry,
    canceling |-> FALSE]}

Inputs(e) ==
  CASE e.type = "completed" -> onCheckoutCompleted(e)
    [] e.type = "updated" -> onSubscriptionUpdated(e)
    [] OTHER -> onSubscriptionDeleted(e)

orgStatus(status, pro) ==
  IF status \in {"trialing", "past_due", "canceled"} THEN status
  ELSE IF pro THEN "active" ELSE "inactive"

Busy == {w \in Webhook : handling[w] # NoEvent}

\* handleWebhook, up to the update of the user.
WebhookUser(w, e) ==
  /\ handling[w] = NoEvent
  /\ \E input \in Inputs(e) :
       /\ account' = [plan |-> input.plan, status |-> input.status,
                      subscription |-> input.subscription, canceling |-> input.canceling]
       /\ handling' = [handling EXCEPT ![w] = [number |-> e.number, input |-> input]]
  /\ torn' = (Busy # {})
  /\ applied' = e.number
  /\ UNCHANGED <<stripe, events, plan, day>>

OrganizationOf(input) ==
  [plan |-> IF input.plan = "pro" THEN "PRO" ELSE "FREE",
   status |-> orgStatus(input.status, input.plan = "pro"), expires |-> input.expires]

\* MUTANT: a plan that goes back to free leaves the organization alone.
WebhookUpgradesOrganization(w) ==
  /\ handling[w] # NoEvent
  /\ plan' = IF handling[w].input.plan = "pro" THEN OrganizationOf(handling[w].input) ELSE plan
  /\ handling' = [handling EXCEPT ![w] = NoEvent]
  /\ UNCHANGED <<stripe, events, account, day, applied, torn>>

WebhookOrganization(w) ==
  /\ handling[w] # NoEvent
  /\ plan' = OrganizationOf(handling[w].input)
  /\ handling' = [handling EXCEPT ![w] = NoEvent]
  /\ UNCHANGED <<stripe, events, account, day, applied, torn>>

\* A query fails, or the process stops: Stripe sends the event again, sometime.
WebhookFails(w) ==
  /\ handling[w] # NoEvent
  /\ handling' = [handling EXCEPT ![w] = NoEvent]
  /\ torn' = TRUE
  /\ UNCHANGED <<stripe, events, account, plan, day, applied>>

BillingNext ==
  \/ StripeCheckout \/ StripeUpdate \/ StripeDelete \/ DayPasses
  \/ \E w \in Webhook :
       \/ \E e \in events : WebhookUser(w, e)
       \/ WebhookOrganization(w) \/ WebhookFails(w)

-----------------------------------------------------------------------------
(* What the organization may do. *)

isProPlan ==
  /\ plan.plan = "PRO"
  /\ plan.expires = NoExpiry \/ plan.expires >= day
  /\ plan.status = "canceled" => plan.expires # NoExpiry
  /\ plan.status # "inactive"

displayStatus ==
  IF isProPlan THEN account.status
  ELSE IF plan.expires # NoExpiry /\ plan.expires < day
            /\ account.status \in {"trialing", "canceled"} THEN "expired"
  ELSE account.status

\* What the user is told.  Limits and features are the same for all (PUBLIC_LAUNCH).
getSubscription ==
  [plan |-> IF isProPlan THEN "pro" ELSE account.plan, status |-> displayStatus,
   isPro |-> isProPlan, canceling |-> account.canceling]

\* However late, twice or out of order events came, the two rows tell one story once a
\* handler has run and none is at work, unless one failed between them or two ran at once
\* and none has run alone since: a paying user's organization is PRO, in the same status.
PlansAgree ==
  Busy = {} /\ ~torn /\ applied > 0 =>
    /\ account.plan = "pro" <=> plan.plan = "PRO"
    /\ plan.status = orgStatus(account.status, account.plan = "pro")

\* When the handler that wrote last, with none beside it, was the newest event's, the
\* organization has what the user has at Stripe: Pro while the subscription is entitled
\* and its period lasts, shown with the status it has there, and nothing more.  (A
\* checkout whose subscription could not be asked for leaves a plan without an end.)
FollowsStripe ==
  Busy = {} /\ ~torn /\ applied = newest /\ plan.expires = stripe.ends =>
    /\ getSubscription.isPro <=> isEntitledStatus(stripe.status) /\ stripe.ends >= day
    /\ getSubscription.isPro => /\ getSubscription.status = mapStripeStatus(stripe.status)
                               /\ getSubscription.canceling = stripe.canceling
=============================================================================
