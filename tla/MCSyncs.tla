------------------------------ MODULE MCSyncs ------------------------------
(* Two jobs that overlap, seen in the deployments of one application or in the *)
(* applications of an organization: every behaviour is of the view that focus   *)
(* names, and the other stays as it started.                                    *)
EXTENDS HistorySync, TLC

CONSTANTS
  \* Of ArgoSync, whose events of Argo CD MaxListed bounds; Worker is of both.
  Source, Cluster, Env, NoSource, Uid, NoUid, Key, LegacyKey, NoId, MaxId, MaxListed,
  MaxChoices, MaxImports, MaxFailures,
  r1, r2, s1, s2, u1, u2, k1, k2

MCRevision == {r1, r2}
MCLiveHealth == {"Progressing", "Healthy", "Degraded"}

\* A row of the former reconstruction: a result and a health, and no snapshot.
MCLegacyRows ==
  {[revision |-> r1, deployedAt |-> 0, status |-> "Succeeded",
    sync |-> NoHealth, health |-> "Healthy", stateRecorded |-> FALSE]}

VARIABLES focus, argo, known, posted, apps, integration, job, chosen, crossed, spent

Applications == INSTANCE ArgoSync WITH MaxArgo <- MaxListed

applicationVars == <<argo, known, posted, apps, integration, job, chosen, crossed, spent>>
syncVars == <<focus, live, now, rows, sync, txns, argoEvents, edits, edited, shown, outcomes,
              unnamed, applicationVars>>

InitBoth ==
  /\ focus \in {"deployments", "applications"}
  /\ Init
  /\ Applications!Init

NextBoth ==
  \/ focus = "deployments" /\ Next /\ UNCHANGED <<focus, applicationVars>>
  \/ /\ focus = "applications" /\ Applications!Next
     /\ UNCHANGED <<focus, live, now, rows, sync, txns, argoEvents, edits, edited, shown,
                    outcomes, unnamed>>

SpecBoth == InitBoth /\ [][NextBoth]_syncVars

\* A sync that no other job overlapped mirrors Argo CD, whatever overlapping jobs left.
MirrorsArgo == Applications!MirrorsArgo

\* Workers, uids and keys are only compared.
Symmetry == Permutations(Worker) \cup Permutations({u1, u2}) \cup Permutations({k1, k2})
=============================================================================
