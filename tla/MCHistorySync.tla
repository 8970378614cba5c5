--------------------------- MODULE MCHistorySync ---------------------------
(* Instances of HistorySync: one sync at a time, and two that overlap. *)
EXTENDS HistorySync

CONSTANTS r1, r2

MCRevision == {r1, r2}
MCLiveHealth == {"Progressing", "Healthy", "Degraded"}

\* A row of the former reconstruction: a result and a health, and no snapshot.
MCLegacyRows ==
  {[revision |-> r1, deployedAt |-> 0, status |-> "Succeeded",
    sync |-> NoHealth, health |-> "Healthy", stateRecorded |-> FALSE]}
=============================================================================
