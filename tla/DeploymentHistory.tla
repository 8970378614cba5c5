------------------------- MODULE DeploymentHistory -------------------------
(***************************************************************************)
(* The merge that turns what Argo CD reports of one application into the   *)
(* rows of the Deployment table (backend/src/argocd/deployment-history.ts).*)
(* Operators only: HistorySync runs them from concurrent syncs.            *)
(*                                                                         *)
(* A history fact is [revision, deployedAt].  Argo prints its timestamps   *)
(* with second precision, so two facts of one revision differ by a second  *)
(* or more and a SET of facts stands for the list: the code sorts the list *)
(* newest first, and every use of the order is a comparison of deployedAt. *)
(* startedAt, environment and commitSha are copied and never read back.    *)
(***************************************************************************)
EXTENDS Integers, FiniteSets

CONSTANTS
  Revision,     \* git revisions
  NoRevision,   \* the empty or absent revision
  NoTime,       \* an absent date
  NoRow,        \* what Array.find returns when no row matches
  MatchWindow   \* MATCH_WINDOW_MS, in the clock's units

ASSUME RevisionAssumption == NoRevision \notin Revision
ASSUME TimeAssumption == NoTime \notin Nat
ASSUME WindowAssumption == MatchWindow \in Nat \ {0}

ASSUME RowAssumption == NoRow \notin Nat \X [revision : Revision, deployedAt : Nat]

TERMINAL_HEALTH == {"Healthy", "Degraded", "Missing", "Suspended", "Unknown"}
NoHealth == "null"
Health == TERMINAL_HEALTH \cup {"Progressing"}
SyncState == {"Synced", "OutOfSync", "Unknown"}
Phase == {"none", "Running", "Succeeded", "Failed", "Error"}
NoResult == ""
Result == {NoResult, "Succeeded", "Failed"}

Fact == [revision : Revision, deployedAt : Nat]

Row == [revision : Revision, deployedAt : Nat, status : Result,
        sync : SyncState \cup {NoHealth}, health : Health \cup {NoHealth},
        stateRecorded : BOOLEAN]

\* What a sync reads of the application: LiveObservation and its history.
Observation ==
  [revision : Revision \cup {NoRevision}, health : Health, sync : SyncState,
   phase : Phase, opRevision : Revision \cup {NoRevision},
   finishedAt : Nat \cup {NoTime}, history : SUBSET Fact]

Distance(s, t) == IF s < t THEN t - s ELSE s - t

-----------------------------------------------------------------------------
PhaseResult(phase) ==
  CASE phase = "Succeeded"         -> "Succeeded"
    [] phase \in {"Failed", "Error"} -> "Failed"
    [] OTHER                       -> NoResult

\* MUTANT: the result is taken without asking which revision it applied.
operationResultForAnyRevision(r, live) ==
  IF r # live.revision THEN NoResult ELSE PhaseResult(live.phase)

operationResultFor(r, live) ==
  IF r # live.revision \/ live.opRevision \notin {NoRevision, r}
    THEN NoResult
    ELSE PhaseResult(live.phase)

\* The newest fact of the live revision; the others get no snapshot.
\* MUTANT: any fact of the live revision counts.
isAnyForLiveRevision(entries, e, live) == e.revision = live.revision

isLatestForLiveRevision(entries, e, live) ==
  /\ e.revision = live.revision
  /\ \A f \in entries : f.revision = e.revision => f.deployedAt <= e.deployedAt

-----------------------------------------------------------------------------
NewestTime(rows, r) ==
  LET times == {rows[id].deployedAt : id \in {i \in DOMAIN rows : rows[i].revision = r}}
  IN  CHOOSE t \in times : \A u \in times : u <= t

\* With an empty history the live revision stands in, at the time of its newest
\* row, else of the last operation, else at the current time.
\* MUTANT: the prior row is not consulted.
fallbackAlwaysNow(rows, live, now) ==
  IF live.revision = NoRevision THEN {}
  ELSE {[revision |-> live.revision, deployedAt |-> now]}

\* MUTANT: an application without a revision gets a stand-in too.
fallbackWithoutRevision(rows, live, now) ==
  {[revision |-> live.revision, deployedAt |-> now]}

fallbackFact(rows, live, now) ==
  IF live.revision = NoRevision THEN {}
  ELSE {[revision   |-> live.revision,
         deployedAt |->
           IF \E id \in DOMAIN rows : rows[id].revision = live.revision
             THEN NewestTime(rows, live.revision)
             ELSE IF live.finishedAt # NoTime THEN live.finishedAt ELSE now]}

Entries(rows, live, now) ==
  IF live.history # {} THEN live.history ELSE fallbackFact(rows, live, now)

-----------------------------------------------------------------------------
\* MUTANT: rows are compared by revision and not by time.
MatchesAnyTime(row, e) == row.revision = e.revision

Matches(row, e) ==
  /\ row.revision = e.revision
  /\ Distance(row.deployedAt, e.deployedAt) < MatchWindow

(***************************************************************************)
(* The loop gives each entry, newest first, the first unused row that      *)
(* matches.  findMany asks for no order, so `first' is whichever row the   *)
(* database lists first: the assignments the loop can end with are the     *)
(* injective ones in which an entry goes without a row only when newer     *)
(* entries used every row that matches it.                                 *)
(***************************************************************************)
Assignments(rows, entries) ==
  {m \in [entries -> DOMAIN rows \cup {NoRow}] :
     /\ \A e \in entries : m[e] # NoRow => Matches(rows[m[e]], e)
     /\ \A e, f \in entries : e # f /\ m[e] # NoRow => m[e] # m[f]
     /\ \A e \in entries : m[e] = NoRow =>
          \A id \in DOMAIN rows : Matches(rows[id], e) =>
            \E f \in entries : f.deployedAt > e.deployedAt /\ m[f] = id}

\* What the loop pushes for an entry and its row.
\* MUTANT: Progressing is not asked of the stored row.
WriteForAnyRecorded(row, entries, e, live) ==
  IF ~isLatestForLiveRevision(entries, e, live) THEN "keep"
  ELSE IF ~row.stateRecorded THEN "fill"
  ELSE IF live.health \in TERMINAL_HEALTH THEN "settle"
  ELSE "keep"

\* MUTANT: a recorded row is always kept.
WriteNeverSettles(row, entries, e, live) ==
  IF ~isLatestForLiveRevision(entries, e, live) THEN "keep"
  ELSE IF ~row.stateRecorded THEN "fill"
  ELSE "keep"

WriteFor(row, entries, e, live) ==
  IF ~isLatestForLiveRevision(entries, e, live) THEN "keep"
  ELSE IF ~row.stateRecorded THEN "fill"
  ELSE IF row.health = "Progressing" /\ live.health \in TERMINAL_HEALTH THEN "settle"
  ELSE "keep"

unrecordedInsert(e) ==
  [revision |-> e.revision, deployedAt |-> e.deployedAt, status |-> NoResult,
   sync |-> NoHealth, health |-> NoHealth, stateRecorded |-> FALSE]

liveInsert(e, live) ==
  [revision |-> e.revision, deployedAt |-> e.deployedAt,
   status |-> operationResultFor(e.revision, live),
   sync |-> live.sync, health |-> live.health, stateRecorded |-> TRUE]

Inserted(entries, e, live) ==
  IF isLatestForLiveRevision(entries, e, live)
    THEN liveInsert(e, live)
    ELSE unrecordedInsert(e)

\* The columns each write sets on the stored row; `seen` is the row as it was read.
Filled(row, seen, live) ==
  LET result == operationResultFor(seen.revision, live)
  IN  [row EXCEPT !.status = IF result # NoResult THEN result ELSE seen.status,
                  !.health = live.health, !.sync = live.sync, !.stateRecorded = TRUE]

Settled(row, live) == [row EXCEPT !.health = live.health]

\* How a row is shown: health and sync only when they were recorded.
presentDeploymentSnapshot(row) ==
  IF row.stateRecorded THEN row
  ELSE [row EXCEPT !.health = NoHealth, !.sync = NoHealth]
=============================================================================
