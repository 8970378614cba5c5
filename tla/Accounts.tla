------------------------------ MODULE Accounts ------------------------------
(***************************************************************************)
(* A user's account from registration to the first session                 *)
(* (auth/auth.service.ts): verification tokens are issued, mailed, used    *)
(* and closed.  Handlers are split at their awaits and any two interleave; *)
(* a mail is accepted, refused, or accepted without the answer arriving;   *)
(* a handler can stop between two steps.  The user holds the links of the  *)
(* mails that arrived.                                                     *)
(*                                                                         *)
(* One user: no query of these handlers meets two.  Time is in resend      *)
(* intervals.  issuesMet and botched are history variables: whether two     *)
(* issues ran at once, and the tokens whose handler stopped, or failed to  *)
(* close them, after they were created.                                    *)
(***************************************************************************)
EXTENDS Naturals, FiniteSets

CONSTANTS
  Issuer,          \* handlers that can run at once
  MailEnvironment, \* the settings a server runs with, see MailSettings
  INTERVAL, TTL,   \* VERIFICATION_RESEND_INTERVAL_MS, VERIFICATION_TTL_MS
  MaxLinks,        \* bound on the tokens
  MaxClock

ASSUME IssuerAssumption == IsFiniteSet(Issuer)

VARIABLES
  mail,       \* the settings
  user,       \* absent, unverified, verified
  link,       \* the tokens, by number
  delivered,  \* those whose mail arrived
  issuing,    \* the running handlers
  session,    \* whether the user was given a session token
  clock,
  issuesMet,
  botched

accountVars == <<mail, user, link, delivered, issuing, session, clock, issuesMet, botched>>

Resting == [at |-> "free", link |-> 0]
Links == DOMAIN link

(* Whether mail can be sent: SMTP is configured, and links have an origin to lead to. *)

Origin == {"unset", "not a URL", "more than an origin", "other scheme",
           "internal http", "internal https", "public http", "public https"}
MailSettings == [smtp : BOOLEAN, production : BOOLEAN, origin : Origin]

ASSUME MailAssumption == MailEnvironment \subseteq MailSettings

isInternalHost(origin) == origin \in {"internal http", "internal https"}

\* None when it is refused.
frontendOrigin(env) ==
  CASE env.origin = "unset" -> IF env.production THEN {} ELSE {"internal http"}
    [] env.origin \in {"not a URL", "more than an origin", "other scheme"} -> {}
    [] OTHER -> IF env.production /\ (isInternalHost(env.origin) \/ env.origin = "public http")
                  THEN {} ELSE {env.origin}

configured == mail.smtp
originReady == frontendOrigin(mail) # {}
available == configured /\ originReady

AccountsInit ==
  /\ mail \in MailEnvironment
  /\ user = "absent"
  /\ link = <<>>
  /\ delivered = {}
  /\ issuing = [r \in Issuer |-> Resting]
  /\ session = FALSE
  /\ clock = 0
  /\ issuesMet = FALSE
  /\ botched = {}

Proceeds(r, from, to) ==
  /\ issuing[r].at = from
  /\ issuing' = [issuing EXCEPT ![r].at = to]

Used(t) == link' = [link EXCEPT ![t].used = TRUE]
Unused == {t \in Links : ~link[t].used}
Recent(t) == link[t].created + INTERVAL >= clock

-----------------------------------------------------------------------------
\* register, after it found neither the address nor the name taken.
Register(r) ==
  /\ user = "absent" /\ Proceeds(r, "free", "insert")
  /\ UNCHANGED <<mail, user, link, delivered, session, clock, issuesMet, botched>>

\* The address is unique: of two registrations one is refused here.  The organization is
\* created, then a token is issued.
RegisterInsert(r) ==
  /\ IF user = "absent" THEN Proceeds(r, "insert", "check") ELSE Proceeds(r, "insert", "free")
  /\ user' = IF user = "absent" THEN "unverified" ELSE user
  /\ UNCHANGED <<mail, link, delivered, session, clock, issuesMet, botched>>

Resend(r) ==
  /\ user = "unverified" /\ available /\ Proceeds(r, "free", "check")
  /\ UNCHANGED <<mail, user, link, delivered, session, clock, issuesMet, botched>>

(* issueVerification. *)

Limited == \E t \in Unused : Recent(t)

IssueAtWork == {r \in Issuer : issuing[r].at \in {"close", "create", "send", "consume"}}

IssueCheck(r) ==
  /\ Proceeds(r, "check", IF ~available \/ Limited THEN "free" ELSE "close")
  /\ issuesMet' = (issuesMet \/ (available /\ ~Limited /\ IssueAtWork # {}))
  /\ UNCHANGED <<mail, user, link, delivered, session, clock, botched>>

\* MUTANT: only expired tokens are closed.
IssueCloseExpired(r) ==
  /\ Proceeds(r, "close", "create")
  /\ link' = [t \in Links |-> [link[t] EXCEPT !.used = link[t].used \/ link[t].created + TTL < clock]]
  /\ UNCHANGED <<mail, user, delivered, session, clock, issuesMet, botched>>

IssueClose(r) ==
  /\ Proceeds(r, "close", "create")
  /\ link' = [t \in Links |-> [link[t] EXCEPT !.used = TRUE]]
  /\ UNCHANGED <<mail, user, delivered, session, clock, issuesMet, botched>>

IssueCreate(r) ==
  /\ issuing[r].at = "create"
  /\ LET t == Cardinality(Links) + 1
     IN  /\ t <= MaxLinks
         /\ link' = [n \in 1..t |-> IF n = t THEN [used |-> FALSE, created |-> clock] ELSE link[n]]
         /\ issuing' = [issuing EXCEPT ![r] = [at |-> "send", link |-> t]]
  /\ UNCHANGED <<mail, user, delivered, session, clock, issuesMet, botched>>

\* What comes of a mail; one whose answer did not come in time may arrive nevertheless.
send ==
  IF ~configured THEN {[status |-> "skipped", arrives |-> FALSE]}
  ELSE {[status |-> "accepted", arrives |-> TRUE]} \cup [status : {"failed"}, arrives : BOOLEAN]

MailAccepted(r) ==
  /\ Proceeds(r, "send", "free")
  /\ \E s \in send : s.status = "accepted"
  /\ delivered' = delivered \cup {issuing[r].link}
  /\ UNCHANGED <<mail, user, link, session, clock, issuesMet, botched>>

\* MUTANT: the token of a mail that was not sent stays open.
MailFailedOnly(r) ==
  /\ Proceeds(r, "send", "free")
  /\ UNCHANGED <<mail, user, link, delivered, session, clock, issuesMet, botched>>

MailFailed(r) ==
  /\ Proceeds(r, "send", "consume")
  /\ \E s \in send : /\ s.status # "accepted"
                     /\ delivered' = delivered \cup (IF s.arrives THEN {issuing[r].link} ELSE {})
  /\ UNCHANGED <<mail, user, link, session, clock, issuesMet, botched>>

ConsumeToken(r) ==
  /\ Proceeds(r, "consume", "free")
  /\ Used(issuing[r].link)
  /\ UNCHANGED <<mail, user, delivered, session, clock, issuesMet, botched>>

\* consumeToken fails and is only logged, or the handler stops.
IssuerStops(r) ==
  /\ issuing[r].at # "free"
  /\ issuing' = [issuing EXCEPT ![r] = Resting]
  /\ botched' = IF issuing[r].at \in {"send", "consume"} THEN botched \cup {issuing[r].link}
                ELSE botched
  /\ UNCHANGED <<mail, user, link, delivered, session, clock, issuesMet>>

-----------------------------------------------------------------------------
\* verifyEmail looks the token up, and does not ask again before it marks it used.
VerifyFind(r, t) ==
  /\ issuing[r].at = "free"
  /\ ~link[t].used /\ link[t].created + TTL >= clock
  /\ issuing' = [issuing EXCEPT ![r] = [at |-> "verify", link |-> t]]
  /\ UNCHANGED <<mail, user, link, delivered, session, clock, issuesMet, botched>>

Verify(r) ==
  /\ Proceeds(r, "verify", "free")
  /\ Used(issuing[r].link)
  /\ user' = "verified"
  /\ session' = TRUE
  /\ UNCHANGED <<mail, delivered, clock, issuesMet, botched>>

Login ==
  /\ user = "verified" /\ session' = TRUE
  /\ UNCHANGED <<mail, user, link, delivered, issuing, clock, issuesMet, botched>>

ClockTick ==
  /\ clock < MaxClock /\ clock' = clock + 1
  /\ UNCHANGED <<mail, user, link, delivered, issuing, session, issuesMet, botched>>

AccountsNext ==
  \/ ClockTick \/ Login
  \/ \E r \in Issuer :
       \/ Register(r) \/ RegisterInsert(r) \/ Resend(r)
       \/ IssueCheck(r) \/ IssueClose(r) \/ IssueCreate(r)
       \/ MailAccepted(r) \/ MailFailed(r) \/ ConsumeToken(r) \/ IssuerStops(r)
       \/ Verify(r) \/ \E t \in delivered : VerifyFind(r, t)

-----------------------------------------------------------------------------
Usable(t) == ~link[t].used /\ link[t].created + TTL >= clock

\* A user has one link that works, the newest, unless two issues ran at once; and then no
\* more than handlers can run at once: issuing a token closes those before it.  A link in
\* production leads to a public page.
OneLink ==
  LET usable == {t \in Links : Usable(t)}
  IN  /\ IF issuesMet THEN Cardinality(usable) <= Cardinality(Issuer)
         ELSE usable \subseteq {Cardinality(Links)}
      /\ delivered # {} /\ mail.production => frontendOrigin(mail) = {"public https"}

\* When "Resend verification" is refused for having been used too recently, a link that
\* works is in the user's mail or on its way: a mail that failed, or that came after its
\* predecessor was closed, never leaves the user waiting; only a handler that stopped in
\* the middle does, for one interval.
LimitedHasMail ==
  user = "unverified" /\ Limited =>
    \E t \in Unused : \/ t \in delivered \/ t \in botched
                      \/ \E r \in Issuer : issuing[r].at \in {"send", "consume"} /\ issuing[r].link = t
=============================================================================
