--------------------------- MODULE ConnectorPanel ---------------------------
(***************************************************************************)
(* The panel of private clusters in a browser                              *)
(* (components/integrations/private-cluster-panel.tsx) beside the server    *)
(* and the agent: it lists the connectors when it appears, after each of    *)
(* its operations and on two timers, and shows whatever list arrived last.   *)
(* Lists are read by the server one after the other and arrive in any       *)
(* order, or not at all.                                                   *)
(*                                                                         *)
(* One connector: its status stands for the list.  The server's side of the *)
(* operations is the module Connector's; here an agent or a clock changes a *)
(* status as ConnectorView lets it.                                         *)
(***************************************************************************)
EXTENDS Naturals, FiniteSets

CONSTANTS
  Poll,         \* requests for the list that can be on their way at once
  MaxChanges    \* bound on the changes at the server, the user's operations and lost lists

VARIABLES
  served,    \* the status at the server
  shown,     \* the status in the list that is shown
  loadError,
  polls,     \* the requests for the list
  asked,     \* the operation whose answer is awaited
  window,    \* closed, or open with the form, or with an install command
  changes

panelVars == <<served, shown, loadError, polls, asked, window, changes>>

ConnectorStatus == {"pending", "connected", "disconnected", "error", "revoked"}
Idle == [at |-> "idle", status |-> "none"]

\* The effect of the first render has asked for the list.
PanelInit ==
  /\ served \in {"none"} \cup ConnectorStatus
  /\ shown = "none" /\ loadError = FALSE
  /\ \E first \in Poll :
       polls = [q \in Poll |-> IF q = first THEN [at |-> "sent", status |-> "none"] ELSE Idle]
  /\ asked = "none" /\ window = "closed"
  /\ changes = 0

Changes == changes < MaxChanges /\ changes' = changes + 1

-----------------------------------------------------------------------------
(* The list: refresh, and the effect that loads it first. *)

Sends == {[polls EXCEPT ![q] = [at |-> "sent", status |-> "none"]] : q \in {p \in Poll : polls[p].at = "idle"}}

\* With every request on its way already, one of them stands for the new one.
Refresh == polls' \in IF Sends = {} THEN {polls} ELSE Sends

ServerLists(q) ==
  /\ polls[q].at = "sent"
  /\ polls' = [polls EXCEPT ![q] = [at |-> "read", status |-> served]]
  /\ UNCHANGED <<served, shown, loadError, asked, window, changes>>

ListArrives(q) ==
  /\ polls[q].at = "read"
  /\ shown' = polls[q].status /\ loadError' = FALSE
  /\ polls' = [polls EXCEPT ![q] = Idle]
  /\ UNCHANGED <<served, asked, window, changes>>

ListFails(q) ==
  /\ Changes
  /\ polls[q].at # "idle"
  /\ loadError' = TRUE
  /\ polls' = [polls EXCEPT ![q] = Idle]
  /\ UNCHANGED <<served, shown, asked, window>>

waiting == shown \in {"pending", "disconnected"}

\* MUTANT: a connector that is disconnected is not waited for.
PollPending ==
  /\ window = "command" \/ (window = "closed" /\ shown = "pending")
  /\ Sends # {} /\ polls' \in Sends
  /\ UNCHANGED <<served, shown, loadError, asked, window, changes>>

\* The timers: one while the window shows a command, one while it is closed and waiting.
TimerRefreshes ==
  /\ window = "command" \/ (window = "closed" /\ waiting)
  /\ Sends # {} /\ polls' \in Sends
  /\ UNCHANGED <<served, shown, loadError, asked, window, changes>>

-----------------------------------------------------------------------------
(* The user's operations: create in the window's form, rotate and revoke in the list. *)

OpenForm ==
  /\ Changes /\ window = "closed" /\ window' = "form"
  /\ UNCHANGED <<served, shown, loadError, polls, asked>>

CloseWindow ==
  /\ window # "closed" /\ window' = "closed"
  /\ UNCHANGED <<served, shown, loadError, polls, asked, changes>>

Asks(operation) ==
  /\ Changes
  /\ asked = "none" /\ asked' = operation
  /\ UNCHANGED <<served, shown, loadError, polls, window>>

Generate == window = "form" /\ Asks("create")
Rotate == shown \notin {"none", "revoked"} /\ Asks("rotate")
Revoke == shown \notin {"none", "revoked"} /\ Asks("revoke")

ServerDoes ==
  /\ asked \in {"create", "rotate", "revoke"}
  /\ served' = IF asked = "create" THEN "pending"
               ELSE IF served \in {"none", "revoked"} THEN served
               ELSE IF asked = "rotate" THEN "pending"
               ELSE "revoked"
  /\ asked' = IF asked = "revoke" THEN "revoked"
              ELSE IF served' # "pending" THEN "refused"
              ELSE IF asked = "create" THEN "created" ELSE "rotated"
  /\ UNCHANGED <<shown, loadError, polls, window, changes>>

\* A new command is shown in the window, which a rotation opens and a creation does not if
\* it was closed meanwhile; then the list is asked for.
OperationAnswers ==
  /\ asked \in {"created", "rotated", "revoked"}
  /\ asked' = "none"
  /\ window' = IF asked = "rotated" \/ (asked = "created" /\ window # "closed") THEN "command"
               ELSE window
  /\ Refresh
  /\ UNCHANGED <<served, shown, loadError, changes>>

\* The operation was refused, or its answer is lost: a message, and nothing else.
OperationFails ==
  /\ asked # "none" /\ asked' = "none"
  /\ UNCHANGED <<served, shown, loadError, polls, window, changes>>

RefreshButton ==
  /\ Changes /\ Sends # {} /\ polls' \in Sends
  /\ UNCHANGED <<served, shown, loadError, asked, window>>

\* The agent enrolls, reports, or falls silent.
AgentChanges ==
  /\ Changes
  /\ served \in ConnectorStatus \ {"revoked"}
  /\ served' \in {"connected", "error", "disconnected"}
  /\ UNCHANGED <<shown, loadError, polls, asked, window>>

PanelNext ==
  \/ \E q \in Poll : ServerLists(q) \/ ListArrives(q) \/ ListFails(q)
  \/ TimerRefreshes \/ RefreshButton
  \/ OpenForm \/ CloseWindow \/ Generate \/ Rotate \/ Revoke
  \/ ServerDoes \/ OperationAnswers \/ OperationFails
  \/ AgentChanges

\* Timers go on, requests are handled, and answers cease to be lost.
PanelFairness ==
  /\ WF_panelVars(TimerRefreshes)
  /\ \A q \in Poll : WF_panelVars(ServerLists(q) \/ ListArrives(q))

-----------------------------------------------------------------------------
\* The panel catches up: when the server changes no more, what it shows while a command is
\* on the screen, or shows as pending or disconnected, comes to be what the server has,
\* though lists overtake each other, fail, and cross the answers to operations.  (A list
\* overtaken by an older one that shows anything else stays, until the user asks again.)
CatchesUp == <>[](window = "command" \/ (window = "closed" /\ waiting) => shown = served)
=============================================================================
