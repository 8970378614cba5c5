---------------------------- MODULE HistorySync ----------------------------
(***************************************************************************)
(* The deployment rows of one application, and the syncs that maintain     *)
(* them (argocd-sync.service.ts replaceHistory, reached from the cron job, *)
(* the startup timer, POST /applications/sync, the lazy sync of the        *)
(* workspace snapshot and the connector import).  A sync reads the         *)
(* application from Argo CD, later reads the rows, merges, and later still *)
(* writes the merge in one transaction: three steps with awaits between    *)
(* them and no lock, so syncs of one application can overlap.              *)
(*                                                                         *)
(* live is Argo's application (external).  rows maps row ids to rows; an id *)
(* is <<transaction number, fact>>, which names an insert without saying   *)
(* what the autoincrement drew.  edited, shown, outcomes and unnamed are   *)
(* history variables: the rows an operator wrote over the API; <<revision,  *)
(* time, health>> for each health Argo reported of a live revision and the *)
(* time of its newest deployment; <<revision, result>> of each operation,  *)
(* with the revision it applied, whether Argo names it or not; and         *)
(* <<revision, result>> of a live revision beside which Argo reported an   *)
(* operation without naming what it applied.                               *)
(***************************************************************************)
EXTENDS DeploymentHistory

CONSTANTS
  Worker,       \* concurrent syncs
  LegacyRows,   \* rows written before snapshots existed: a set of Row
  LiveHealth,   \* the health values Argo may report in this model
  EditHealth,   \* the health values operators write, NoHealth for none
  EditSync,     \* the sync states they write
  EditResult,   \* the results they write
  EditFields,   \* which fields a PATCH may bring
  MaxTime,      \* bound on the clock
  MaxArgo,      \* bound on the events of Argo CD
  MaxEdits      \* bound on the API writes of operators

ASSUME LegacyAssumption ==
  /\ LegacyRows \subseteq Row
  /\ \A r \in LegacyRows : ~r.stateRecorded /\ r.deployedAt <= MaxTime
ASSUME HealthAssumption == LiveHealth \subseteq Health /\ EditHealth \subseteq Health \cup {NoHealth}
ASSUME EditAssumption ==
  /\ EditSync \subseteq SyncState \cup {NoHealth}
  /\ EditResult \subseteq Result
  /\ EditFields \subseteq SUBSET {"status", "sync", "health"}
ASSUME BoundAssumption == MaxTime \in Nat /\ MaxArgo \in Nat /\ MaxEdits \in Nat

VARIABLES live, now, rows, sync, txns, argoEvents, edits, edited, shown, outcomes, unnamed

vars == <<live, now, rows, sync, txns, argoEvents, edits, edited, shown, outcomes, unnamed>>
argoVars == <<live, argoEvents, outcomes, unnamed>>
historyVars == <<edits, edited>>

RowId == Nat \X Fact

IsTable(t) ==
  /\ t = [id \in DOMAIN t |-> t[id]]
  /\ DOMAIN t \subseteq RowId
  /\ \A id \in DOMAIN t : t[id] \in Row

\* A sync before it starts, with what it fetched from Argo, and with the rows it
\* read (`entries' is fixed when the merge runs, right after the read).
Idle == [phase |-> "idle"]
FetchedWith(obs) == [phase |-> "fetched", obs |-> obs]
MergingWith(obs, seen, entries) ==
  [phase |-> "merging", obs |-> obs, seen |-> seen, entries |-> entries]

IsSync(s) ==
  \/ s = Idle
  \/ s = FetchedWith(s.obs) /\ s.obs \in Observation
  \/ /\ s = MergingWith(s.obs, s.seen, s.entries)
     /\ s.obs \in Observation /\ IsTable(s.seen) /\ s.entries \subseteq Fact

NewApplication ==
  [revision |-> NoRevision, health |-> "Unknown", sync |-> "Unknown", phase |-> "none",
   opRevision |-> NoRevision, finishedAt |-> NoTime, history |-> {}]

IdOf(txn, e) == <<txn, e>>
FactOf(row) == [revision |-> row.revision, deployedAt |-> row.deployedAt]

Init ==
  /\ live = NewApplication
  /\ now = 0
  /\ rows = [id \in {IdOf(0, FactOf(r)) : r \in LegacyRows} |->
               CHOOSE r \in LegacyRows : FactOf(r) = id[2]]
  /\ sync = [w \in Worker |-> Idle]
  /\ txns = 1
  /\ argoEvents = 0
  /\ edits = 0
  /\ edited = {}
  /\ shown = {}
  /\ outcomes = {}
  /\ unnamed = {}

-----------------------------------------------------------------------------
(* Argo CD.  Its timestamps have second precision; MatchWindow is a second. *)

Second(t) == t - (t % MatchWindow)

\* When Argo last deployed its revision, as far as its history tells.
NewestFactTime(app) ==
  LET times == {e.deployedAt : e \in {f \in app.history : f.revision = app.revision}}
  IN  IF times = {} THEN NoTime ELSE CHOOSE t \in times : \A u \in times : u <= t

Observes(app) ==
  /\ argoEvents < MaxArgo
  /\ argoEvents' = argoEvents + 1
  /\ live' = app
  /\ shown' = shown \cup {<<app.revision, NewestFactTime(app), app.health>>}
  /\ unnamed' = unnamed \cup
       {<<app.revision, result>> : result \in
          IF app.opRevision = NoRevision THEN {PhaseResult(app.phase)} \ {NoResult} ELSE {}}
  /\ UNCHANGED <<now, rows, sync, txns, edits, edited>>

\* A sync operation succeeds: the revision enters the history and rolls out.
ArgoDeploys(r) ==
  LET fact == [revision |-> r, deployedAt |-> Second(now)]
  IN  /\ \A f \in live.history : f.deployedAt < fact.deployedAt
      /\ \E h \in LiveHealth :
           Observes([live EXCEPT !.revision = r, !.health = h, !.sync = "Synced",
                                 !.phase = "Succeeded", !.opRevision = r,
                                 !.finishedAt = Second(now), !.history = @ \cup {fact}])
      /\ outcomes' = outcomes \cup {<<r, "Succeeded">>}

\* A sync operation on r fails; Argo may not name the revision it tried.
ArgoFails(r) ==
  /\ \E named \in {r, NoRevision} :
       Observes([live EXCEPT !.phase = "Failed", !.finishedAt = Second(now),
                             !.opRevision = named])
  /\ outcomes' = outcomes \cup {<<r, "Failed">>}

\* Git moves: the compared revision changes before anything is deployed.
ArgoCompares(r) ==
  /\ r # live.revision
  /\ Observes([live EXCEPT !.revision = r, !.sync = "OutOfSync"])
  /\ UNCHANGED outcomes

ArgoHealth(h) ==
  /\ h # live.health
  /\ live.revision # NoRevision
  /\ Observes([live EXCEPT !.health = h])
  /\ UNCHANGED outcomes

\* Argo keeps a limited history and drops the oldest entry.
ArgoTrims(e) ==
  /\ e \in live.history
  /\ \E f \in live.history : f.deployedAt > e.deployedAt
  /\ \A f \in live.history : f # e => f.deployedAt >= e.deployedAt
  /\ Observes([live EXCEPT !.history = @ \ {e}])
  /\ UNCHANGED outcomes

Tick ==
  /\ now < MaxTime
  /\ now' = now + 1
  /\ UNCHANGED <<live, rows, sync, txns, argoEvents, edits, edited, shown, outcomes, unnamed>>

-----------------------------------------------------------------------------
(* A sync of the application. *)

Fetch(w) ==
  /\ sync[w].phase = "idle"
  /\ sync' = [sync EXCEPT ![w] = FetchedWith(live)]
  /\ UNCHANGED <<argoVars, historyVars, now, rows, txns, shown>>

\* findMany, then mergeDeploymentSnapshots on what it returned.
ReadRows(w) ==
  /\ sync[w].phase = "fetched"
  /\ sync' = [sync EXCEPT ![w] =
       MergingWith(sync[w].obs, rows, Entries(rows, sync[w].obs, now))]
  /\ UNCHANGED <<argoVars, historyVars, now, rows, txns, shown>>

\* The row `id' after the writes of a merge that gave it the entry `e'.
Rewritten(row, seen, entries, e, obs) ==
  CASE WriteFor(seen, entries, e, obs) = "fill"   -> Filled(row, seen, obs)
    [] WriteFor(seen, entries, e, obs) = "settle" -> Settled(row, obs)
    [] OTHER                                      -> row

\* The table after the transaction of merge s under the assignment m.
Applied(table, s, m, txn) ==
  LET fresh == {IdOf(txn, e) : e \in {f \in s.entries : m[f] = NoRow}}
  IN  [id \in DOMAIN table \cup fresh |->
         IF id \notin DOMAIN table THEN Inserted(s.entries, id[2], s.obs)
         ELSE IF \E e \in s.entries : m[e] = id
           THEN LET e == CHOOSE f \in s.entries : m[f] = id
                IN  Rewritten(table[id], s.seen[id], s.entries, e, s.obs)
         ELSE table[id]]

\* $transaction(operations): all writes or none.
Commit(w) ==
  /\ sync[w].phase = "merging"
  /\ \E m \in Assignments(sync[w].seen, sync[w].entries) :
       /\ rows' = Applied(rows, sync[w], m, txns)
       /\ txns' = IF DOMAIN rows' = DOMAIN rows THEN txns ELSE txns + 1
  /\ sync' = [sync EXCEPT ![w] = Idle]
  /\ UNCHANGED <<argoVars, historyVars, now, shown>>

\* A request or a query fails, or the process restarts: the next sync starts over.
Abandon(w) ==
  /\ sync[w].phase # "idle"
  /\ sync' = [sync EXCEPT ![w] = Idle]
  /\ UNCHANGED <<argoVars, historyVars, now, rows, txns, shown>>

-----------------------------------------------------------------------------
(* Operators: POST and PATCH /deployments. *)

CreateDeployment(r, h) ==
  /\ edits < MaxEdits
  /\ LET id == IdOf(txns, [revision |-> r, deployedAt |-> now])
     IN  /\ rows' = [i \in DOMAIN rows \cup {id} |->
                       IF i = id
                         THEN [revision |-> r, deployedAt |-> now, status |-> "Succeeded",
                               sync |-> NoHealth, health |-> h,
                               stateRecorded |-> h # NoHealth]
                         ELSE rows[i]]
         /\ edited' = edited \cup {id}
  /\ edits' = edits + 1
  /\ txns' = txns + 1
  /\ UNCHANGED <<argoVars, now, sync, shown>>

\* The fields a request leaves out keep their value; a health or a sync state that it
\* brings makes the row recorded.
Patched(row, fields, status, s, h) ==
  [row EXCEPT !.status = IF "status" \in fields THEN status ELSE @,
              !.sync   = IF "sync" \in fields THEN s ELSE @,
              !.health = IF "health" \in fields THEN h ELSE @,
              !.stateRecorded = \/ @
                                \/ "sync" \in fields /\ s # NoHealth
                                \/ "health" \in fields /\ h # NoHealth]

UpdateStatus(id, fields, status, s, h) ==
  /\ edits < MaxEdits
  /\ rows' = [rows EXCEPT ![id] = Patched(@, fields, status, s, h)]
  /\ edited' = edited \cup {id}
  /\ edits' = edits + 1
  /\ UNCHANGED <<argoVars, now, sync, txns, shown>>

-----------------------------------------------------------------------------
Argo ==
  \/ \E r \in Revision : ArgoDeploys(r) \/ ArgoFails(r) \/ ArgoCompares(r)
  \/ \E h \in LiveHealth : ArgoHealth(h)
  \/ \E e \in live.history : ArgoTrims(e)

Sync(w) == Fetch(w) \/ ReadRows(w) \/ Commit(w) \/ Abandon(w)

Operator ==
  \/ \E r \in Revision, h \in EditHealth : CreateDeployment(r, h)
  \/ \E id \in DOMAIN rows, fields \in EditFields, status \in EditResult, s \in EditSync,
       h \in EditHealth : UpdateStatus(id, fields, status, s, h)

Next == Argo \/ Tick \/ (\E w \in Worker : Sync(w)) \/ Operator

Spec == Init /\ [][Next]_vars

\* The cron job starts a sync every five minutes for ever, and the failures of a
\* sync are transient: a step that is tried again and again finally gets through.
Fairness ==
  \A w \in Worker : WF_vars(Fetch(w)) /\ SF_vars(ReadRows(w)) /\ SF_vars(Commit(w))

FairSpec == Spec /\ Fairness
-----------------------------------------------------------------------------
TypeOK ==
  /\ live \in Observation
  /\ now \in Nat
  /\ IsTable(rows)
  /\ sync = [w \in Worker |-> sync[w]]
  /\ \A w \in Worker : IsSync(sync[w])
  /\ txns \in Nat
  /\ argoEvents \in Nat
  /\ edits \in Nat
  /\ edited \subseteq RowId
  /\ shown \subseteq ((Revision \cup {NoRevision}) \X (Nat \cup {NoTime}) \X Health)
  /\ outcomes \subseteq (Revision \X Result)
  /\ unnamed \subseteq ((Revision \cup {NoRevision}) \X Result)

\* The rows that only the syncs have written.
SyncRows == DOMAIN rows \ edited

\* The row promise of deployment-history.ts, for the rows the syncs own.
Promise == INSTANCE SnapshotLifecycle WITH
  TerminalHealth <- TERMINAL_HEALTH, Blank <- NoResult,
  snaps <- [id \in SyncRows |-> rows[id]]

\* A row is snapshotted once, settled from Progressing once, and then frozen, and no
\* sync loses a row, blanks a result, or changes the result of a recorded row
\* (deployment-history.ts 7-20).  That an older "Succeeded" is preserved (21-23) is not
\* part of it: SucceededKept is false.
KeepsPromise == Promise!Spec

\* Once a snapshot is terminal no sync changes the row: "After that write, the snapshot
\* is frozen" (deployment-history.ts 13).
FrozenAfterTerminal ==
  [][\A id \in DOMAIN rows \ edited' :
       rows[id].stateRecorded /\ rows[id].health \in TERMINAL_HEALTH
         => rows'[id] = rows[id]]_vars

\* The health shown for a row was at some time the live health of that revision while
\* this deployment was its newest: never another revision's, and never that of a later
\* deployment of the same revision.
SnapshotWasLive ==
  \A id \in SyncRows :
    LET row == presentDeploymentSnapshot(rows[id])
    IN  row.health # NoHealth =>
          \E s \in shown :
            /\ s[1] = row.revision
            /\ s[2] # NoTime => Distance(s[2], row.deployedAt) < MatchWindow
            /\ s[3] = row.health

\* A stored result is that of an operation which applied this revision, or of one that
\* Argo reported beside this live revision without naming what it applied
\* (deployment-history.ts 93-98 takes it for this one), or it came with a legacy row.  In
\* no other case is it the result of an operation on another revision.
ResultWasObserved ==
  \A id \in SyncRows :
    LET result == <<rows[id].revision, rows[id].status>>
    IN  \/ rows[id].status = NoResult
        \/ result \in outcomes
        \/ result \in unnamed
        \/ \E r \in LegacyRows : id[1] = 0 /\ FactOf(r) = id[2] /\ r.status = rows[id].status

\* The result of an older row survives: "That string is preserved.  It remains the result"
\* (deployment-history.ts 21-23), or, if anything replaces it, the result of an operation
\* "for this same revision" (18-19).
SucceededKept ==
  [][\A id \in DOMAIN rows \ edited' :
       rows[id].status = "Succeeded" /\ rows'[id].status # "Succeeded"
         => <<rows[id].revision, rows'[id].status>> \in outcomes]_vars

\* Syncs never store one deployment twice.
OneRowPerDeployment ==
  \A i, j \in SyncRows : FactOf(rows[i]) = FactOf(rows[j]) => i = j

\* A revision Argo never deployed has one stand-in row, however often it is synced
\* with an empty history.
OneStandInRow ==
  \A i, j \in SyncRows :
    /\ rows[i].revision = rows[j].revision
    /\ <<rows[i].revision, "Succeeded">> \notin outcomes
    /\ i[1] > 0 /\ j[1] > 0
    => i = j

\* Every deployment in Argo's history has a row, and the row of the live revision's
\* newest deployment is recorded and is not left Progressing once the rollout ended.
CaughtUp ==
  \A e \in live.history :
    \E id \in DOMAIN rows :
      /\ Matches(rows[id], e)
      /\ isLatestForLiveRevision(live.history, e, live) =>
           /\ rows[id].stateRecorded
           /\ live.health \in TERMINAL_HEALTH => rows[id].health # "Progressing"

\* When Argo stops changing, the syncs catch up with it and stay caught up.
EventuallyCaughtUp == <>[]CaughtUp
=============================================================================
