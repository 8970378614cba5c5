-------------------------- MODULE IntelligencePage --------------------------
(***************************************************************************)
(* The Intelligence page of an application in a browser (app/ai/page.tsx),  *)
(* with the hooks that guard it and load the workspace (use-auth-guard.ts,  *)
(* use-workspace.ts), the session's token (lib/auth.ts) and the one way to  *)
(* the server (services/api.ts).                                           *)
(*                                                                         *)
(* The page asks for three things of the selected application at once.      *)
(* Each effect marks the requests of the render before as cancelled and     *)
(* does not abort them: they are answered later, in any order.              *)
(***************************************************************************)
EXTENDS Naturals, FiniteSets

CONSTANTS
  App,       \* the applications of the workspace
  NoApp,
  MaxActs    \* bound on the user's choices and retries, and on changes of the session

VARIABLES
  token,       \* in localStorage: none, or valid, rejected by the server, or expired
  ready,       \* the guard's: unknown, ready, or away at the login page
  listed,      \* the applications of the snapshot, none before it arrives
  requested,   \* the application in the page's address
  selected,
  requests,    \* on their way: what, of which application, with which token, not cancelled
  answers,     \* of which application the answer shown is
  errors,      \* what could not be loaded
  loading,
  acts

pageVars == <<token, ready, listed, requested, selected, requests, answers, errors, loading, acts>>

Part == {"result", "deployments", "events"}
StoredToken == {"valid", "rejected", "expired"}

PageInit ==
  /\ token \in {"none"} \cup StoredToken
  /\ ready = "unknown" /\ listed = {} /\ selected = NoApp
  /\ requested \in App \cup {NoApp}
  /\ requests = {}
  /\ answers = [k \in Part |-> NoApp] /\ errors = {} /\ loading = FALSE
  /\ acts = 0

\* A token that is not usable is removed when it is read.
getToken == IF token = "expired" THEN "none" ELSE token

Request(kind, a) == [kind |-> kind, app |-> a, token |-> getToken, live |-> TRUE]
Cancelled(Q) == {IF r.kind \in Part THEN [r EXCEPT !.live = FALSE] ELSE r : r \in Q}
Loads(Q, a) == Cancelled(Q) \cup {Request(k, a) : k \in Part}

-----------------------------------------------------------------------------
\* The guard and the load of the workspace, after the first render.
AuthGuard ==
  /\ ready = "unknown"
  /\ token' = getToken
  /\ IF getToken = "none" THEN ready' = "away" /\ UNCHANGED requests
     ELSE ready' = "ready" /\ requests' = {Request("workspace", NoApp)}
  /\ UNCHANGED <<listed, requested, selected, answers, errors, loading, acts>>

\* The three effects, for the selection that a render commits.
Effects(Q, a) ==
  /\ requests' = Loads(Q, a) /\ token' = getToken
  /\ errors' = {} /\ loading' = TRUE
  /\ UNCHANGED answers

\* The snapshot arrives: the application of the address, or else the first, is selected.
WorkspaceArrives(r, apps) ==
  /\ r.kind = "workspace" /\ r.token = "valid"
  /\ listed' = apps
  /\ selected' = IF requested \in apps THEN requested
                 ELSE IF apps = {} THEN NoApp ELSE CHOOSE a \in apps : TRUE
  /\ IF apps = {} THEN requests' = requests \ {r} /\ UNCHANGED <<token, answers, errors, loading>>
     ELSE Effects(requests \ {r}, selected')
  /\ UNCHANGED <<ready, requested, acts>>

Acts == ready = "ready" /\ acts < MaxActs /\ acts' = acts + 1

\* The list is a new array in every render, so the effect on it runs again and takes the
\* application of the address back: the choice is asked for, then that one.
Choose(a) ==
  /\ Acts
  /\ a \in listed \ {selected}
  /\ selected' = IF requested \in listed THEN requested ELSE a
  /\ Effects(IF selected' = a THEN requests ELSE Loads(requests, a), selected')
  /\ UNCHANGED <<ready, listed, requested>>

Retry ==
  /\ Acts /\ errors # {}
  /\ Effects(requests, selected)
  /\ UNCHANGED <<ready, listed, requested, selected>>

-----------------------------------------------------------------------------
(* Answers, through apiFetch: a 401 clears the token, whichever request it answers. *)

\* MUTANT: the answer is shown whether or not the request was cancelled.
ThenAlways(r) ==
  /\ answers' = [answers EXCEPT ![r.kind] = r.app]
  /\ loading' = (loading /\ ~(r.live /\ r.kind = "result"))
  /\ UNCHANGED errors

Then(r) ==
  /\ answers' = IF r.live THEN [answers EXCEPT ![r.kind] = r.app] ELSE answers
  /\ loading' = (loading /\ ~(r.live /\ r.kind = "result"))
  /\ UNCHANGED errors

Catch(r) ==
  /\ answers' = IF r.live THEN [answers EXCEPT ![r.kind] = NoApp] ELSE answers
  /\ errors' = IF r.live THEN errors \cup {r.kind} ELSE errors
  /\ loading' = (loading /\ ~(r.live /\ r.kind = "result"))

Answered(r) ==
  /\ requests' = requests \ {r}
  /\ UNCHANGED <<ready, listed, requested, selected, acts>>

Arrives(r) ==
  /\ r.kind \in Part /\ r.token = "valid"
  /\ Then(r) /\ Answered(r)
  /\ UNCHANGED token

Fails(r) ==
  /\ r.kind \in Part
  /\ Catch(r) /\ Answered(r)
  /\ token' \in {token} \cup (IF r.token = "valid" THEN {} ELSE {"none"})

WorkspaceFails(r) ==
  /\ r.kind = "workspace"
  /\ Answered(r)
  /\ token' \in {token} \cup (IF r.token = "valid" THEN {} ELSE {"none"})
  /\ UNCHANGED <<answers, errors, loading>>

\* Another tab of the browser signs in or out, or the token's time is over.
SessionChanges ==
  /\ Acts
  /\ token' \in ({"none", "valid"} \cup {IF token = "none" THEN "none" ELSE "expired"}) \ {token}
  /\ UNCHANGED <<ready, listed, requested, selected, requests, answers, errors, loading>>

PageNext ==
  \/ AuthGuard
  \/ \E r \in requests :
       Arrives(r) \/ Fails(r) \/ WorkspaceFails(r) \/ \E apps \in {{}, App} : WorkspaceArrives(r, apps)
  \/ \E a \in App : Choose(a)
  \/ Retry
  \/ SessionChanges

-----------------------------------------------------------------------------
Pending(kind) == \E r \in requests : r.kind = kind /\ r.live

\* Whichever of its answers come late, fail, or belong to an application that is selected
\* no more: when the page waits for a part no longer, it shows the selected application's,
\* or says that it could not be loaded; and a diagnosis is never another application's.
AnswersForSelected ==
  /\ \A k \in Part : Pending(k) \/ answers[k] = IF k \in errors THEN NoApp ELSE selected
  /\ ~loading => answers["result"] \in {NoApp, selected}
=============================================================================
