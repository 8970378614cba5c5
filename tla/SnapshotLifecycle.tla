------------------------- MODULE SnapshotLifecycle -------------------------
(***************************************************************************)
(* What the header of deployment-history.ts promises of a deployment row:  *)
(* it may be stored without a snapshot, its health and sync are recorded   *)
(* once, a recorded Progressing health is replaced once by a terminal one, *)
(* and then the snapshot is frozen.  With the first record the result of   *)
(* the operation may be stored too, in the place of one that an older row  *)
(* had; after it, a result does not change, and a result is never blanked. *)
(* The header's last sentence promises more, that an older "Succeeded" is  *)
(* preserved: the code does not keep it (SucceededKept of HistorySync), and *)
(* Record does not ask it.  HistorySync with one sync at a time implements *)
(* this; rows an operator edits over the API are released.                 *)
(***************************************************************************)
EXTENDS Integers

CONSTANTS TerminalHealth, Blank

VARIABLE snaps   \* the rows under the promise, by id

Unrecorded(row) == ~row.stateRecorded
Progressing(row) == row.stateRecorded /\ row.health = "Progressing"

\* The first time the revision's state is known: the operation's result, if it has one,
\* else the result the row had (deployment-history.ts 137).
Record(old, new) ==
  /\ Unrecorded(old)
  /\ new = [old EXCEPT !.status = new.status, !.health = new.health,
                       !.sync = new.sync, !.stateRecorded = TRUE]
  /\ old.status # Blank => new.status # Blank

\* The rollout ended: only the health changes, and to a terminal one.
Settle(old, new) ==
  /\ Progressing(old)
  /\ new = [old EXCEPT !.health = new.health]
  /\ new.health \in TerminalHealth

Init == \A id \in DOMAIN snaps : snaps[id].stateRecorded \in BOOLEAN

Lifecycle(old, new) ==
  \/ new = old
  \/ Record(old, new)
  \/ Settle(old, new)

\* A sync: rows are added, and each stored row advances along its lifecycle.
Advance ==
  /\ DOMAIN snaps \subseteq DOMAIN snaps'
  /\ \A id \in DOMAIN snaps : Lifecycle(snaps[id], snaps'[id])

\* An operator edits a row.
Release ==
  \E id \in DOMAIN snaps :
    snaps' = [other \in DOMAIN snaps \ {id} |-> snaps[other]]

Next == Advance \/ Release

Spec == Init /\ [][Next]_snaps
=============================================================================
