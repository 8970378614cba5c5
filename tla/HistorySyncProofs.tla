------------------------- MODULE HistorySyncProofs -------------------------
(***************************************************************************)
(* Proofs about HistorySync for every number of overlapping syncs: the      *)
(* types, and that the health and the result of a row are always what Argo *)
(* reported of that row's own deployment.  Inv is the inductive invariant. *)
(* With one sync at a time: that rows follow SnapshotLifecycle (CopyOK, of *)
(* what a sync has read), and that no deployment and no stand-in is stored *)
(* twice (FactsOK, of what Argo lists and what a merge stands in with).    *)
(***************************************************************************)
EXTENDS HistorySync, WellFoundedInduction, TLAPS

Timely(t) == t <= MaxTime

\* What a sync read of the application was reported, and so was its operation: with the
\* revision it applied, or beside the live revision.
ReportedOK(app) ==
  /\ \A f \in app.history : Timely(f.deployedAt)
  /\ app.finishedAt # NoTime => Timely(app.finishedAt)
  /\ app.revision # NoRevision => <<app.revision, NewestFactTime(app), app.health>> \in shown
  /\ PhaseResult(app.phase) # NoResult =>
       IF app.opRevision = NoRevision
         THEN <<app.revision, PhaseResult(app.phase)>> \in unnamed
         ELSE <<app.opRevision, PhaseResult(app.phase)>> \in outcomes

\* The result of row `id' was observed, or the row came with it.
StatusOK(id, row) ==
  \/ row.status = NoResult
  \/ <<row.revision, row.status>> \in outcomes
  \/ <<row.revision, row.status>> \in unnamed
  \/ \E r \in LegacyRows : id[1] = 0 /\ FactOf(r) = id[2] /\ r.status = row.status

\* The health of a recorded row was live when its deployment was its revision's newest.
HealthOK(row) ==
  row.stateRecorded /\ row.health # NoHealth =>
    \E s \in shown :
      /\ s[1] = row.revision
      /\ s[2] # NoTime => Distance(s[2], row.deployedAt) < MatchWindow
      /\ s[3] = row.health

\* The rows a merge read are still there, with the deployment they had and, unless an
\* operator wrote them, a result that was observed.
MergeOK(s) ==
  /\ DOMAIN s.seen \subseteq DOMAIN rows
  /\ \A id \in DOMAIN s.seen : FactOf(s.seen[id]) = FactOf(rows[id])
  /\ \A id \in DOMAIN s.seen : id \notin edited => StatusOK(id, s.seen[id])
  /\ \A e \in s.entries : Timely(e.deployedAt)
  /\ s.obs.history # {} => s.entries = s.obs.history

SyncOK(s) ==
  /\ s.phase # "idle" => ReportedOK(s.obs)
  /\ s.phase = "merging" => MergeOK(s)

RowsOK ==
  /\ \A id \in DOMAIN rows : FactOf(rows[id]) = id[2] /\ Timely(rows[id].deployedAt)
  /\ \A id \in SyncRows : StatusOK(id, rows[id]) /\ HealthOK(rows[id])

Inv ==
  /\ TypeOK
  /\ Timely(now)
  /\ ReportedOK(live)
  /\ \A w \in Worker : SyncOK(sync[w])
  /\ RowsOK

-----------------------------------------------------------------------------
(* Arithmetic of times. *)

LEMMA HasLeast ==
  ASSUME NEW S, S \subseteq Nat, S # {}
  PROVE  \E m \in S : \A n \in S : m <= n
<1>1. PICK m \in S : \A n \in S : <<n, m>> \notin OpToRel(<, Nat)
  BY NatLessThanWellFounded, WFMin
<1>2. ASSUME NEW n \in S PROVE m <= n
  <2>1. m \in Nat /\ n \in Nat
    BY <1>2
  <2>2. n < m => <<n, m>> \in OpToRel(<, Nat)
    BY <2>1 DEF OpToRel
  <2>3. ~(n < m)
    BY <1>1, <1>2, <2>2, Zenon
  <2> QED
    BY <2>1, <2>3
<1> QED
  BY <1>2

\* A bounded set of times has a latest.
LEMMA HasGreatest ==
  ASSUME NEW S, NEW b \in Nat, S \subseteq 0..b, S # {}
  PROVE  \E m \in S : \A n \in S : n <= m
<1> DEFINE U == {k \in Nat : \A n \in S : n <= k}
<1>1. PICK k \in U : \A u \in U : k <= u
  <2>1. b \in U /\ U \subseteq Nat
    OBVIOUS
  <2> HIDE DEF U
  <2> QED
    BY <2>1, HasLeast
<1>2. CASE k \in S
  BY <1>1, <1>2
<1>3. CASE k \notin S
  <2>1. \A n \in S : n \in Nat /\ n <= k /\ n # k
    BY <1>1, <1>3
  <2>2. k \in Nat /\ k # 0
    <3>1. PICK n \in S : TRUE
      OBVIOUS
    <3> QED
      BY <2>1, <3>1
  <2>3. k - 1 \in Nat /\ \A n \in S : n <= k - 1
    BY <2>1, <2>2
  <2>4. k <= k - 1
    BY <1>1, <2>3
  <2> QED
    BY <2>2, <2>4
<1> QED
  BY <1>2, <1>3

LEMMA SecondIsTimely ==
  ASSUME NEW t \in Nat, t <= MaxTime
  PROVE  Second(t) \in Nat /\ Second(t) <= MaxTime
<1>1. t - (t % MatchWindow) \in Nat /\ t - (t % MatchWindow) <= t
  BY WindowAssumption
<1> QED
  BY <1>1, BoundAssumption DEF Second

-----------------------------------------------------------------------------
(* The merge of one observation. *)

\* The newest fact time of a revision is the time of its latest fact.
LEMMA NewestFactTimeIs ==
  ASSUME NEW app \in Observation, \A f \in app.history : Timely(f.deployedAt)
  PROVE  /\ NewestFactTime(app) \in Nat \cup {NoTime}
         /\ \A e \in app.history :
              isLatestForLiveRevision(app.history, e, app) => NewestFactTime(app) = e.deployedAt
         /\ app.history = {} => NewestFactTime(app) = NoTime
<1> DEFINE facts == {f \in app.history : f.revision = app.revision}
           times == {e.deployedAt : e \in facts}
<1>1. NewestFactTime(app) =
        IF times = {} THEN NoTime ELSE CHOOSE t \in times : \A u \in times : u <= t
  BY DEF NewestFactTime
<1>2. \A f \in app.history : f.deployedAt \in 0..MaxTime
  BY BoundAssumption DEF Observation, Fact, Timely
<1>3. times \subseteq 0..MaxTime
  BY <1>2
<1>4. ASSUME times # {}
      PROVE  NewestFactTime(app) \in times /\ \A u \in times : u <= NewestFactTime(app)
  <2> HIDE DEF times
  <2>1. \E t \in times : \A u \in times : u <= t
    BY <1>3, <1>4, HasGreatest, BoundAssumption
  <2> QED
    BY <1>1, <1>4, <2>1
<1>5. ASSUME NEW e \in app.history, isLatestForLiveRevision(app.history, e, app)
      PROVE  NewestFactTime(app) = e.deployedAt
  <2>1. e.deployedAt \in times /\ \A u \in times : u <= e.deployedAt
    BY <1>5 DEF isLatestForLiveRevision
  <2>2. NewestFactTime(app) \in times /\ e.deployedAt <= NewestFactTime(app)
    BY <1>4, <2>1
  <2> QED
    BY <1>3, <2>1, <2>2
<1>6. NewestFactTime(app) \in Nat \cup {NoTime}
  BY <1>1, <1>3, <1>4
<1>7. app.history = {} => NewestFactTime(app) = NoTime
  BY <1>1
<1> QED
  BY <1>5, <1>6, <1>7

\* The entries of a merge are facts, none of them from the future.
LEMMA EntriesAreFacts ==
  ASSUME NEW table, IsTable(table), \A id \in DOMAIN table : Timely(table[id].deployedAt),
         NEW app \in Observation, \A f \in app.history : Timely(f.deployedAt),
         app.finishedAt # NoTime => Timely(app.finishedAt),
         NEW t \in Nat, Timely(t)
  PROVE  /\ Entries(table, app, t) \subseteq Fact
         /\ \A e \in Entries(table, app, t) : Timely(e.deployedAt)
<1>1. CASE app.history # {}
  BY <1>1 DEF Entries, Observation
<1>2. CASE app.history = {} /\ app.revision = NoRevision
  BY <1>2 DEF Entries, fallbackFact
<1>3. CASE app.history = {} /\ app.revision # NoRevision
  <2> DEFINE known == {i \in DOMAIN table : table[i].revision = app.revision}
             times == {table[id].deployedAt : id \in known}
             at == IF known # {} THEN NewestTime(table, app.revision)
                   ELSE IF app.finishedAt # NoTime THEN app.finishedAt ELSE t
  <2>1. Entries(table, app, t) = {[revision |-> app.revision, deployedAt |-> at]}
    BY <1>3 DEF Entries, fallbackFact
  <2>2. times \subseteq 0..MaxTime
    BY BoundAssumption DEF IsTable, Row, Timely
  <2>3. ASSUME known # {} PROVE at \in Nat /\ Timely(at)
    <3>1. times # {}
      BY <2>3
    <3>2. at = CHOOSE n \in times : \A u \in times : u <= n
      BY <2>3 DEF NewestTime
    <3> HIDE DEF times, known, at
    <3>3. \E n \in times : \A u \in times : u <= n
      BY <2>2, <3>1, HasGreatest, BoundAssumption
    <3>4. at \in times
      BY <3>2, <3>3
    <3> QED
      BY <2>2, <3>4, BoundAssumption DEF Timely
  <2>4. known = {} => at \in Nat /\ Timely(at)
    BY DEF Observation
  <2>5. app.revision \in Revision
    BY <1>3 DEF Observation
  <2> HIDE DEF at
  <2> QED
    BY <2>1, <2>3, <2>4, <2>5 DEF Fact
<1> QED
  BY <1>1, <1>2, <1>3

\* The live health goes only to an entry whose deployment was shown with it.
LEMMA LatestWasShown ==
  ASSUME NEW app \in Observation, ReportedOK(app), NEW entries \in SUBSET Fact,
         app.history # {} => entries = app.history,
         NEW e \in entries, isLatestForLiveRevision(entries, e, app)
  PROVE  \E s \in shown : s[1] = e.revision /\ s[3] = app.health
                         /\ (s[2] # NoTime => s[2] = e.deployedAt)
<1>1. e.revision = app.revision /\ app.revision # NoRevision
  BY RevisionAssumption DEF isLatestForLiveRevision, Fact
<1>2. <<app.revision, NewestFactTime(app), app.health>> \in shown
  BY <1>1 DEF ReportedOK
<1>3. NewestFactTime(app) # NoTime => NewestFactTime(app) = e.deployedAt
  BY NewestFactTimeIs DEF ReportedOK
<1> QED
  BY <1>1, <1>2, <1>3

LEMMA ResultIsTyped ==
  ASSUME NEW r, NEW app
  PROVE  operationResultFor(r, app) \in Result
  BY DEF operationResultFor, PhaseResult, Result, NoResult

\* A result the merge derives is that of an operation on the revision, or of one that
\* named none while the revision was live.
LEMMA ResultWasRun ==
  ASSUME NEW r \in Revision, NEW app, ReportedOK(app), operationResultFor(r, app) # NoResult
  PROVE  \/ <<r, operationResultFor(r, app)>> \in outcomes
         \/ <<r, operationResultFor(r, app)>> \in unnamed
  BY DEF operationResultFor, ReportedOK

LEMMA InsertedOK ==
  ASSUME NEW app \in Observation, ReportedOK(app), NEW entries \in SUBSET Fact,
         app.history # {} => entries = app.history, NEW e \in entries, NEW id
  PROVE  LET row == Inserted(entries, e, app)
         IN  row \in Row /\ FactOf(row) = e /\ StatusOK(id, row) /\ HealthOK(row)
<1> DEFINE row == Inserted(entries, e, app)
<1>1. e.revision \in Revision /\ e.deployedAt \in Nat /\ e = [revision |-> e.revision, deployedAt |-> e.deployedAt]
  BY DEF Fact
<1>2. CASE isLatestForLiveRevision(entries, e, app)
  <2>1. row = liveInsert(e, app)
    BY <1>2 DEF Inserted
  <2>2. row \in Row /\ FactOf(row) = e
    BY <1>1, <2>1, ResultIsTyped DEF liveInsert, Row, FactOf, Observation
  <2>3. StatusOK(id, row)
    BY <1>1, <2>1, ResultWasRun DEF liveInsert, StatusOK
  <2>4. Distance(e.deployedAt, e.deployedAt) < MatchWindow
    BY <1>1, WindowAssumption DEF Distance
  <2>5. HealthOK(row)
    BY <1>2, <2>1, <2>4, LatestWasShown DEF liveInsert, HealthOK
  <2> QED
    BY <2>2, <2>3, <2>5
<1>3. CASE ~isLatestForLiveRevision(entries, e, app)
  BY <1>1, <1>3 DEF Inserted, unrecordedInsert, Row, FactOf, StatusOK, HealthOK, Result, NoResult
<1> QED
  BY <1>2, <1>3

\* A rewritten row is still the row of its deployment.
LEMMA RewrittenIsRow ==
  ASSUME NEW row \in Row, NEW seen \in Row, FactOf(seen) = FactOf(row),
         NEW app \in Observation, NEW entries, NEW e
  PROVE  LET new == Rewritten(row, seen, entries, e, app)
         IN  new \in Row /\ FactOf(new) = FactOf(row)
<1> DEFINE new == Rewritten(row, seen, entries, e, app)
<1>1. new \in {row, Filled(row, seen, app), Settled(row, app)}
  BY DEF Rewritten
<1>2. Settled(row, app) \in Row /\ FactOf(Settled(row, app)) = FactOf(row)
  BY DEF Settled, Row, FactOf, Observation
<1>3. Filled(row, seen, app) \in Row /\ FactOf(Filled(row, seen, app)) = FactOf(row)
  BY ResultIsTyped DEF Filled, Row, FactOf, Observation
<1> QED
  BY <1>1, <1>2, <1>3

LEMMA RewrittenOK ==
  ASSUME NEW row \in Row, NEW seen \in Row, FactOf(seen) = FactOf(row),
         NEW app \in Observation, ReportedOK(app), NEW entries \in SUBSET Fact,
         app.history # {} => entries = app.history, NEW e \in entries,
         Matches(seen, e), NEW id,
         StatusOK(id, seen), StatusOK(id, row), HealthOK(row)
  PROVE  LET new == Rewritten(row, seen, entries, e, app)
         IN  StatusOK(id, new) /\ HealthOK(new)
<1> DEFINE new == Rewritten(row, seen, entries, e, app)
           written == WriteFor(seen, entries, e, app)
<1>1. seen.revision = row.revision /\ seen.deployedAt = row.deployedAt
  BY DEF FactOf
<1>2. Distance(e.deployedAt, row.deployedAt) < MatchWindow /\ e.revision = row.revision
  BY <1>1 DEF Matches, Distance, Row, Fact
<1>3. CASE written = "fill"
  <2>1. isLatestForLiveRevision(entries, e, app)
    BY <1>3 DEF WriteFor
  <2>2. new = Filled(row, seen, app)
    BY <1>3 DEF Rewritten
  <2>3. /\ new.revision = row.revision /\ new.deployedAt = row.deployedAt
        /\ new.health = app.health
        /\ new.status = IF operationResultFor(seen.revision, app) # NoResult
                          THEN operationResultFor(seen.revision, app) ELSE seen.status
    BY <2>2 DEF Filled, Row
  <2>4. StatusOK(id, new)
    <3>1. CASE operationResultFor(seen.revision, app) # NoResult
      BY <1>1, <2>3, <3>1, ResultWasRun DEF StatusOK, Row
    <3>2. CASE operationResultFor(seen.revision, app) = NoResult
      BY <1>1, <2>3, <3>2 DEF StatusOK
    <3> QED
      BY <3>1, <3>2
  <2>5. HealthOK(new)
    BY <1>2, <2>1, <2>3, LatestWasShown DEF HealthOK
  <2> QED
    BY <2>4, <2>5
<1>4. CASE written = "settle"
  <2>1. isLatestForLiveRevision(entries, e, app)
    BY <1>4 DEF WriteFor
  <2>2. new = Settled(row, app)
    BY <1>4 DEF Rewritten
  <2>3. /\ new.revision = row.revision /\ new.deployedAt = row.deployedAt
        /\ new.health = app.health /\ new.status = row.status
    BY <2>2 DEF Settled, Row
  <2> QED
    BY <1>2, <2>1, <2>3, LatestWasShown DEF HealthOK, StatusOK
<1>5. CASE written \notin {"fill", "settle"}
  BY <1>5 DEF Rewritten
<1> QED
  BY <1>3, <1>4, <1>5

\* A row of the table after the transaction: inserted, rewritten, or as it was.
LEMMA AppliedRow ==
  ASSUME NEW table, NEW s, NEW m, NEW txn, NEW id \in DOMAIN Applied(table, s, m, txn)
  PROVE  LET new == Applied(table, s, m, txn)[id]
         IN  \/ /\ id \notin DOMAIN table
                /\ \E e \in s.entries : id = IdOf(txn, e) /\ new = Inserted(s.entries, e, s.obs)
             \/ /\ id \in DOMAIN table
                /\ \E e \in s.entries :
                     m[e] = id /\ new = Rewritten(table[id], s.seen[id], s.entries, e, s.obs)
             \/ id \in DOMAIN table /\ new = table[id]
<1> DEFINE fresh == {IdOf(txn, e) : e \in {f \in s.entries : m[f] = NoRow}}
           new == Applied(table, s, m, txn)[id]
<1>1. id \in DOMAIN table \cup fresh
  BY DEF Applied
<1>2. new = IF id \notin DOMAIN table THEN Inserted(s.entries, id[2], s.obs)
            ELSE IF \E e \in s.entries : m[e] = id
              THEN LET e == CHOOSE f \in s.entries : m[f] = id
                   IN  Rewritten(table[id], s.seen[id], s.entries, e, s.obs)
            ELSE table[id]
  BY <1>1 DEF Applied
<1>3. CASE id \notin DOMAIN table
  <2>1. PICK e \in s.entries : id = IdOf(txn, e)
    BY <1>1, <1>3
  <2>2. id[2] = e
    BY <2>1 DEF IdOf
  <2> QED
    BY <1>2, <1>3, <2>1, <2>2
<1>4. CASE id \in DOMAIN table /\ \E e \in s.entries : m[e] = id
  <2> DEFINE e == CHOOSE f \in s.entries : m[f] = id
  <2>1. e \in s.entries /\ m[e] = id
    BY <1>4
  <2>2. new = Rewritten(table[id], s.seen[id], s.entries, e, s.obs)
    BY <1>2, <1>4
  <2> HIDE DEF e
  <2> QED
    BY <1>4, <2>1, <2>2
<1>5. CASE id \in DOMAIN table /\ ~(\E e \in s.entries : m[e] = id)
  BY <1>2, <1>5
<1> QED
  BY <1>3, <1>4, <1>5

-----------------------------------------------------------------------------
(* The steps of a sync. *)

\* What a sync in its merging phase holds.
LEMMA MergingShape ==
  ASSUME Inv, NEW w \in Worker, sync[w].phase = "merging"
  PROVE  /\ sync[w].obs \in Observation /\ IsTable(sync[w].seen)
         /\ sync[w].entries \in SUBSET Fact
         /\ ReportedOK(sync[w].obs) /\ MergeOK(sync[w])
<1>1. IsSync(sync[w]) /\ SyncOK(sync[w])
  BY DEF Inv, TypeOK
<1> QED
  BY <1>1 DEF IsSync, Idle, FetchedWith, MergingWith, SyncOK

\* Rows keep their deployment, and a row only syncs wrote is what Argo reported.
LEMMA CommitRows ==
  ASSUME Inv, NEW w \in Worker, sync[w].phase = "merging",
         NEW m \in Assignments(sync[w].seen, sync[w].entries),
         rows' = Applied(rows, sync[w], m, txns),
         UNCHANGED <<edited, shown, outcomes, unnamed>>
  PROVE  /\ IsTable(rows') /\ RowsOK'
         /\ DOMAIN rows \subseteq DOMAIN rows'
         /\ \A id \in DOMAIN rows : FactOf(rows'[id]) = FactOf(rows[id])
<1> DEFINE s == sync[w]
<1>1. /\ s.obs \in Observation /\ IsTable(s.seen) /\ s.entries \in SUBSET Fact
      /\ ReportedOK(s.obs) /\ MergeOK(s)
  BY MergingShape
<1>2. IsTable(rows) /\ txns \in Nat /\ RowsOK
  BY DEF Inv, TypeOK
<1> HIDE DEF s
<1>3. /\ m \in [s.entries -> DOMAIN s.seen \cup {NoRow}]
      /\ \A e \in s.entries : m[e] # NoRow => Matches(s.seen[m[e]], e)
  BY DEF Assignments, s
<1>4. rows' = Applied(rows, s, m, txns)
  BY DEF s
<1>5. DOMAIN rows \subseteq DOMAIN rows' /\ rows' = [id \in DOMAIN rows' |-> rows'[id]]
  BY <1>4 DEF Applied
<1>6. DOMAIN rows' \subseteq RowId
  <2>1. \A e \in s.entries : IdOf(txns, e) \in RowId
    BY <1>1, <1>2 DEF IdOf, RowId
  <2>2. DOMAIN rows' = DOMAIN rows \cup {IdOf(txns, e) : e \in {f \in s.entries : m[f] = NoRow}}
    BY <1>4 DEF Applied
  <2> QED
    BY <1>2, <2>1, <2>2 DEF IsTable
<1>7. ASSUME NEW id \in DOMAIN rows'
      PROVE  /\ rows'[id] \in Row /\ FactOf(rows'[id]) = id[2]
             /\ Timely(rows'[id].deployedAt)
             /\ id \in DOMAIN rows => FactOf(rows'[id]) = FactOf(rows[id])
             /\ id \notin edited => StatusOK(id, rows'[id]) /\ HealthOK(rows'[id])
  <2>1. CASE id \in DOMAIN rows /\ rows'[id] = rows[id]
    BY <1>2, <2>1 DEF IsTable, RowsOK, SyncRows
  <2>2. ASSUME NEW e \in s.entries, id \notin DOMAIN rows, id = IdOf(txns, e),
               rows'[id] = Inserted(s.entries, e, s.obs)
        PROVE  /\ rows'[id] \in Row /\ FactOf(rows'[id]) = id[2]
               /\ Timely(rows'[id].deployedAt)
               /\ StatusOK(id, rows'[id]) /\ HealthOK(rows'[id])
    <3>1. /\ rows'[id] \in Row /\ FactOf(rows'[id]) = e
          /\ StatusOK(id, rows'[id]) /\ HealthOK(rows'[id])
      BY <1>1, <2>2, InsertedOK DEF MergeOK
    <3>2. rows'[id].deployedAt = e.deployedAt /\ id[2] = e
      BY <2>2, <3>1 DEF FactOf, IdOf
    <3> QED
      BY <1>1, <3>1, <3>2 DEF MergeOK
  <2>3. ASSUME NEW e \in s.entries, id \in DOMAIN rows, m[e] = id,
               rows'[id] = Rewritten(rows[id], s.seen[id], s.entries, e, s.obs)
        PROVE  /\ rows'[id] \in Row /\ Timely(rows'[id].deployedAt)
               /\ FactOf(rows'[id]) = FactOf(rows[id])
               /\ id \notin edited => StatusOK(id, rows'[id]) /\ HealthOK(rows'[id])
    <3>1. id # NoRow
      BY <1>2, <2>3, RowAssumption DEF IsTable, RowId, Fact
    <3>2. id \in DOMAIN s.seen /\ Matches(s.seen[id], e)
      BY <1>3, <2>3, <3>1
    <3>3. /\ s.seen[id] \in Row /\ rows[id] \in Row
          /\ FactOf(s.seen[id]) = FactOf(rows[id])
      BY <1>1, <1>2, <2>3, <3>2 DEF IsTable, MergeOK
    <3>4. rows'[id] \in Row /\ FactOf(rows'[id]) = FactOf(rows[id])
      BY <1>1, <2>3, <3>3, RewrittenIsRow
    <3>5. Timely(rows'[id].deployedAt)
      BY <1>2, <2>3, <3>4 DEF FactOf, RowsOK
    <3>6. ASSUME id \notin edited PROVE StatusOK(id, rows'[id]) /\ HealthOK(rows'[id])
      <4>1. StatusOK(id, s.seen[id]) /\ StatusOK(id, rows[id]) /\ HealthOK(rows[id])
        BY <1>1, <1>2, <2>3, <3>2, <3>6 DEF MergeOK, RowsOK, SyncRows
      <4>2. s.obs.history # {} => s.entries = s.obs.history
        BY <1>1 DEF MergeOK
      <4> QED
        BY <1>1, <2>3, <3>2, <3>3, <4>1, <4>2, RewrittenOK
    <3> QED
      BY <3>4, <3>5, <3>6
  <2>4. id \in DOMAIN rows => FactOf(rows[id]) = id[2]
    BY <1>2 DEF RowsOK
  <2> QED
    BY <1>4, <2>1, <2>2, <2>3, <2>4, AppliedRow
<1>8. RowsOK'
  BY <1>7 DEF RowsOK, SyncRows, StatusOK, HealthOK, Timely, FactOf
<1> QED
  BY <1>5, <1>6, <1>7, <1>8 DEF IsTable

\* When rows keep their deployment, what the syncs hold stays good.
LEMMA SyncOKPreserved ==
  ASSUME NEW s, IsSync(s), SyncOK(s),
         DOMAIN rows \subseteq DOMAIN rows',
         \A id \in DOMAIN rows : FactOf(rows'[id]) = FactOf(rows[id]),
         edited \subseteq edited', shown \subseteq shown', outcomes \subseteq outcomes',
         unnamed \subseteq unnamed'
  PROVE  SyncOK(s)'
<1>1. ReportedOK(s.obs) => ReportedOK(s.obs)'
  BY DEF ReportedOK
<1>2. MergeOK(s) => MergeOK(s)'
  BY DEF MergeOK, StatusOK
<1> QED
  BY <1>1, <1>2 DEF SyncOK

LEMMA CommitInv ==
  ASSUME Inv, NEW w \in Worker, Commit(w)
  PROVE  Inv'
<1>1. PICK m \in Assignments(sync[w].seen, sync[w].entries) :
        rows' = Applied(rows, sync[w], m, txns)
  BY DEF Commit
<1>2. /\ sync[w].phase = "merging" /\ sync' = [sync EXCEPT ![w] = Idle]
      /\ txns' \in {txns, txns + 1}
      /\ UNCHANGED <<live, argoEvents, outcomes, unnamed, edits, edited, now, shown>>
  BY DEF Commit, argoVars, historyVars
<1>3. /\ IsTable(rows') /\ RowsOK'
      /\ DOMAIN rows \subseteq DOMAIN rows'
      /\ \A id \in DOMAIN rows : FactOf(rows'[id]) = FactOf(rows[id])
  BY <1>1, <1>2, CommitRows
<1>4. sync' = [u \in Worker |-> sync'[u]] /\ \A u \in Worker : IsSync(sync'[u])
  BY <1>2 DEF Inv, TypeOK, IsSync
<1>5. TypeOK'
  BY <1>2, <1>3, <1>4 DEF Inv, TypeOK
<1>6. \A u \in Worker : SyncOK(sync[u])'
  <2>1. SyncOK(Idle)'
    BY DEF SyncOK, Idle
  <2>2. ASSUME NEW u \in Worker, u # w PROVE SyncOK(sync[u])'
    <3>1. SyncOK(sync[u]) /\ IsSync(sync[u]) /\ sync'[u] = sync[u]
      BY <1>2, <2>2 DEF Inv, TypeOK
    <3> QED
      BY <1>2, <1>3, <3>1, SyncOKPreserved
  <2>3. sync'[w] = Idle
    BY <1>2 DEF Inv, TypeOK
  <2> QED
    BY <2>1, <2>2, <2>3
<1>7. ReportedOK(live)' /\ Timely(now)'
  BY <1>2 DEF Inv, ReportedOK, Timely
<1> QED
  BY <1>3, <1>5, <1>6, <1>7 DEF Inv

\* Only the state of one sync changes.
LEMMA LocalInv ==
  ASSUME Inv, NEW w \in Worker, NEW s, IsSync(s), SyncOK(s),
         sync' = [sync EXCEPT ![w] = s],
         UNCHANGED <<live, argoEvents, outcomes, unnamed, edits, edited, now, rows, txns, shown>>
  PROVE  Inv'
<1>1. sync' = [u \in Worker |-> sync'[u]]
      /\ \A u \in Worker : IsSync(sync'[u]) /\ SyncOK(sync'[u])
  BY DEF Inv, TypeOK
<1>2. TypeOK'
  BY <1>1 DEF Inv, TypeOK
<1>3. RowsOK' /\ ReportedOK(live)' /\ Timely(now)'
  BY DEF Inv, RowsOK, SyncRows, StatusOK, HealthOK, ReportedOK, Timely
<1>4. ASSUME NEW u \in Worker PROVE SyncOK(sync[u])'
  BY <1>1 DEF SyncOK, ReportedOK, MergeOK, StatusOK
<1> QED
  BY <1>2, <1>3, <1>4 DEF Inv

LEMMA FetchInv ==
  ASSUME Inv, NEW w \in Worker, Fetch(w) \/ Abandon(w)
  PROVE  Inv'
<1>1. IsSync(FetchedWith(live)) /\ SyncOK(FetchedWith(live))
  BY DEF Inv, TypeOK, IsSync, FetchedWith, SyncOK
<1>2. IsSync(Idle) /\ SyncOK(Idle)
  BY DEF IsSync, SyncOK, Idle
<1> QED
  BY <1>1, <1>2, LocalInv DEF Fetch, Abandon, argoVars, historyVars

LEMMA ReadRowsInv ==
  ASSUME Inv, NEW w \in Worker, ReadRows(w)
  PROVE  Inv'
<1> DEFINE obs == sync[w].obs
           s == MergingWith(obs, rows, Entries(rows, obs, now))
<1>1. sync[w].phase = "fetched" /\ IsSync(sync[w]) /\ SyncOK(sync[w])
  BY DEF ReadRows, Inv, TypeOK
<1>2. obs \in Observation /\ ReportedOK(obs)
  BY <1>1 DEF IsSync, Idle, MergingWith, SyncOK
<1>3. /\ Entries(rows, obs, now) \subseteq Fact
      /\ \A e \in Entries(rows, obs, now) : Timely(e.deployedAt)
  BY <1>2, EntriesAreFacts DEF Inv, TypeOK, RowsOK, ReportedOK
<1>4. s.obs = obs /\ s.seen = rows /\ s.entries = Entries(rows, obs, now) /\ s.phase = "merging"
  BY DEF MergingWith
<1>5. IsSync(s)
  BY <1>2, <1>3, <1>4 DEF IsSync, Inv, TypeOK
<1>6. SyncOK(s)
  <2>1. \A id \in DOMAIN rows : id \notin edited => StatusOK(id, rows[id])
    BY DEF Inv, RowsOK, SyncRows
  <2>2. obs.history # {} => Entries(rows, obs, now) = obs.history
    BY DEF Entries
  <2> HIDE DEF s, obs
  <2> QED
    BY <1>2, <1>3, <1>4, <2>1, <2>2 DEF SyncOK, MergeOK
<1> HIDE DEF s
<1> QED
  BY <1>5, <1>6, LocalInv DEF ReadRows, argoVars, historyVars, s

-----------------------------------------------------------------------------
(* Operators, the clock and Argo CD. *)

\* An operator writes one row, which leaves the syncs' rows.
LEMMA EditInv ==
  ASSUME Inv, NEW id \in RowId, NEW row \in Row, Timely(row.deployedAt),
         FactOf(row) = id[2],
         rows' = [i \in DOMAIN rows \cup {id} |-> IF i = id THEN row ELSE rows[i]],
         edited' = edited \cup {id},
         edits' \in Nat, txns' \in Nat,
         UNCHANGED <<live, argoEvents, outcomes, unnamed, now, sync, shown>>
  PROVE  Inv'
<1>1. IsTable(rows')
  BY DEF Inv, TypeOK, IsTable
<1>2. TypeOK'
  BY <1>1 DEF Inv, TypeOK
<1>3. RowsOK'
  <2>1. \A i \in DOMAIN rows' : FactOf(rows'[i]) = i[2] /\ Timely(rows'[i].deployedAt)
    BY DEF Inv, RowsOK
  <2>2. \A i \in DOMAIN rows' : i \notin edited' =>
          i \in DOMAIN rows /\ i \notin edited /\ rows'[i] = rows[i]
    OBVIOUS
  <2>3. \A i \in SyncRows' : StatusOK(i, rows'[i]) /\ HealthOK(rows'[i])
    BY <2>2 DEF Inv, RowsOK, SyncRows
  <2>4. \A i \in SyncRows' : StatusOK(i, rows[i])' /\ HealthOK(rows[i])'
    BY <2>3 DEF StatusOK, HealthOK
  <2> QED
    BY <2>1, <2>4 DEF RowsOK, Timely, FactOf
<1>4. \A i \in DOMAIN rows : FactOf(rows'[i]) = FactOf(rows[i])
  BY DEF Inv, RowsOK
<1>5. \A w \in Worker : SyncOK(sync[w])'
  BY <1>4, SyncOKPreserved DEF Inv, TypeOK
<1>6. ReportedOK(live)' /\ Timely(now)'
  BY DEF Inv, ReportedOK, Timely
<1> QED
  BY <1>2, <1>3, <1>5, <1>6 DEF Inv

LEMMA CreateDeploymentInv ==
  ASSUME Inv, NEW r \in Revision, NEW h \in EditHealth, CreateDeployment(r, h)
  PROVE  Inv'
<1> DEFINE fact == [revision |-> r, deployedAt |-> now]
           row == [revision |-> r, deployedAt |-> now, status |-> "Succeeded",
                   sync |-> NoHealth, health |-> h, stateRecorded |-> h # NoHealth]
<1>1. now \in Nat /\ Timely(now) /\ txns \in Nat /\ edits \in Nat
  BY DEF Inv, TypeOK
<1>2. IdOf(txns, fact) \in RowId /\ IdOf(txns, fact)[2] = fact
  BY <1>1 DEF IdOf, RowId, Fact
<1>3. row \in Row /\ FactOf(row) = fact /\ row.deployedAt = now
  BY <1>1, HealthAssumption DEF Row, Result, FactOf
<1> QED
  BY <1>1, <1>2, <1>3, EditInv DEF CreateDeployment, argoVars

LEMMA UpdateStatusInv ==
  ASSUME Inv, NEW id \in DOMAIN rows, NEW fields \in EditFields, NEW status \in EditResult,
         NEW s \in EditSync, NEW h \in EditHealth, UpdateStatus(id, fields, status, s, h)
  PROVE  Inv'
<1> DEFINE row == Patched(rows[id], fields, status, s, h)
<1>1. IsTable(rows) /\ RowsOK /\ edits \in Nat /\ txns \in Nat
  BY DEF Inv, TypeOK
<1>2. id \in RowId /\ rows[id] \in Row
  BY <1>1 DEF IsTable
<1>3. row \in Row /\ FactOf(row) = FactOf(rows[id]) /\ row.deployedAt = rows[id].deployedAt
  BY <1>2, HealthAssumption, EditAssumption DEF Patched, Row, FactOf
<1>4. rows' = [i \in DOMAIN rows \cup {id} |-> IF i = id THEN row ELSE rows[i]]
  BY <1>1, <1>2 DEF UpdateStatus, IsTable
<1>5. FactOf(row) = id[2] /\ Timely(row.deployedAt)
  BY <1>1, <1>3 DEF RowsOK
<1>6. /\ edited' = edited \cup {id} /\ edits' \in Nat /\ txns' \in Nat
      /\ UNCHANGED <<live, argoEvents, outcomes, unnamed, now, sync, shown>>
  BY <1>1 DEF UpdateStatus, argoVars
<1> HIDE DEF row
<1> QED
  BY <1>2, <1>3, <1>4, <1>5, <1>6, EditInv

\* Argo CD moves to a new state, and says so.
LEMMA ObservesInv ==
  ASSUME Inv, NEW app \in Observation, Observes(app),
         \A f \in app.history : Timely(f.deployedAt),
         app.finishedAt # NoTime => Timely(app.finishedAt),
         outcomes \subseteq outcomes', outcomes' \subseteq Revision \X Result,
         app.opRevision # NoRevision /\ PhaseResult(app.phase) # NoResult
           => <<app.opRevision, PhaseResult(app.phase)>> \in outcomes'
  PROVE  Inv'
<1>1. /\ live' = app /\ shown' = shown \cup {<<app.revision, NewestFactTime(app), app.health>>}
      /\ argoEvents' = argoEvents + 1
      /\ unnamed' = unnamed \cup
           {<<app.revision, result>> : result \in
              IF app.opRevision = NoRevision THEN {PhaseResult(app.phase)} \ {NoResult} ELSE {}}
      /\ UNCHANGED <<now, rows, sync, txns, edits, edited>>
  BY DEF Observes
<1>2. shown' \subseteq ((Revision \cup {NoRevision}) \X (Nat \cup {NoTime}) \X Health)
  BY <1>1, NewestFactTimeIs DEF Inv, TypeOK, Observation
<1>3. TypeOK'
  <2>1. PhaseResult(app.phase) \in Result /\ app.revision \in Revision \cup {NoRevision}
    BY DEF PhaseResult, Result, NoResult, Observation
  <2>2. unnamed' \subseteq ((Revision \cup {NoRevision}) \X Result)
    BY <1>1, <2>1 DEF Inv, TypeOK
  <2> QED
    BY <1>1, <1>2, <2>2 DEF Inv, TypeOK
<1>4. ReportedOK(live)'
  <2>1. NewestFactTime(live)' = NewestFactTime(app) /\ PhaseResult(live.phase)' = PhaseResult(app.phase)
    BY <1>1
  <2> QED
    BY <1>1, <2>1 DEF ReportedOK, Timely
<1>5. \A w \in Worker : SyncOK(sync[w])'
  BY <1>1, SyncOKPreserved DEF Inv, TypeOK
<1>6. RowsOK' /\ Timely(now)'
  BY <1>1 DEF Inv, RowsOK, SyncRows, StatusOK, HealthOK, Timely
<1> QED
  BY <1>3, <1>4, <1>5, <1>6 DEF Inv

LEMMA ArgoDeploysInv ==
  ASSUME Inv, NEW r \in Revision, ArgoDeploys(r)
  PROVE  Inv'
<1> DEFINE fact == [revision |-> r, deployedAt |-> Second(now)]
<1>1. PICK h \in LiveHealth :
        Observes([live EXCEPT !.revision = r, !.health = h, !.sync = "Synced",
                              !.phase = "Succeeded", !.opRevision = r,
                              !.finishedAt = Second(now), !.history = @ \cup {fact}])
  BY DEF ArgoDeploys
<1> DEFINE app == [live EXCEPT !.revision = r, !.health = h, !.sync = "Synced",
                               !.phase = "Succeeded", !.opRevision = r,
                               !.finishedAt = Second(now), !.history = @ \cup {fact}]
<1>2. Second(now) \in Nat /\ Timely(Second(now))
  BY SecondIsTimely DEF Inv, TypeOK, Timely
<1>3. live \in Observation /\ \A f \in live.history : Timely(f.deployedAt)
  BY DEF Inv, TypeOK, ReportedOK
<1>4. /\ app \in Observation
      /\ app.phase = "Succeeded" /\ app.opRevision = r
      /\ app.finishedAt = Second(now) /\ app.history = live.history \cup {fact}
  <2>1. h \in Health /\ fact \in Fact
    BY <1>2, HealthAssumption DEF Fact
  <2>2. live.history \cup {fact} \in SUBSET Fact
    BY <1>3, <2>1 DEF Observation
  <2> HIDE DEF fact
  <2> QED
    BY <1>2, <1>3, <2>1, <2>2 DEF Observation, SyncState, Phase
<1>5. outcomes' = outcomes \cup {<<r, "Succeeded">>} /\ outcomes \subseteq Revision \X Result
  BY DEF ArgoDeploys, Inv, TypeOK
<1>6. outcomes' \subseteq Revision \X Result
  BY <1>5 DEF Result
<1>7. PhaseResult("Succeeded") = "Succeeded" /\ r # NoRevision
  BY RevisionAssumption DEF PhaseResult
<1>8. \A f \in app.history : Timely(f.deployedAt)
  BY <1>2, <1>3, <1>4
<1> HIDE DEF app
<1>9. <<app.opRevision, PhaseResult(app.phase)>> \in outcomes'
  BY <1>4, <1>5, <1>7
<1> QED
  BY <1>1, <1>2, <1>4, <1>5, <1>6, <1>8, <1>9, ObservesInv DEF app

LEMMA ArgoFailsInv ==
  ASSUME Inv, NEW r \in Revision, ArgoFails(r)
  PROVE  Inv'
<1>1. PICK named \in {r, NoRevision} :
        Observes([live EXCEPT !.phase = "Failed", !.finishedAt = Second(now),
                              !.opRevision = named])
  BY DEF ArgoFails
<1> DEFINE app == [live EXCEPT !.phase = "Failed", !.finishedAt = Second(now),
                               !.opRevision = named]
<1>2. Second(now) \in Nat /\ Timely(Second(now))
  BY SecondIsTimely DEF Inv, TypeOK, Timely
<1>3. live \in Observation /\ \A f \in live.history : Timely(f.deployedAt)
  BY DEF Inv, TypeOK, ReportedOK
<1>4. /\ app \in Observation /\ app.history = live.history
      /\ app.phase = "Failed" /\ app.opRevision = named
      /\ app.finishedAt = Second(now)
  BY <1>2, <1>3 DEF Observation, Phase
<1>5. outcomes \subseteq Revision \X Result
  BY DEF Inv, TypeOK
<1>6. /\ outcomes' = outcomes \cup {<<r, "Failed">>}
      /\ outcomes \subseteq outcomes' /\ outcomes' \subseteq Revision \X Result
  BY <1>5 DEF ArgoFails, Result
<1>7. PhaseResult("Failed") = "Failed" /\ NoRevision \notin Revision
  BY RevisionAssumption DEF PhaseResult
<1> HIDE DEF app
<1>8. app.opRevision # NoRevision => <<app.opRevision, PhaseResult(app.phase)>> \in outcomes'
  BY <1>1, <1>4, <1>6, <1>7
<1> QED
  BY <1>1, <1>2, <1>3, <1>4, <1>6, <1>8, ObservesInv DEF app

\* The rest of Argo CD's steps run no operation; a former one may now stand beside another
\* live revision.
LEMMA ArgoMovesInv ==
  ASSUME Inv, NEW app \in Observation, Observes(app), UNCHANGED outcomes,
         app.history \subseteq live.history, app.finishedAt = live.finishedAt,
         app.phase = live.phase, app.opRevision = live.opRevision
  PROVE  Inv'
  BY ObservesInv DEF Inv, TypeOK, ReportedOK

LEMMA ArgoInv ==
  ASSUME Inv, Argo
  PROVE  Inv'
<1>1. live \in Observation
  BY DEF Inv, TypeOK
<1>2. ASSUME NEW r \in Revision, ArgoCompares(r) PROVE Inv'
  BY <1>1, <1>2, ArgoMovesInv DEF ArgoCompares, Observation, SyncState
<1>3. ASSUME NEW h \in LiveHealth, ArgoHealth(h) PROVE Inv'
  BY <1>1, <1>3, ArgoMovesInv, HealthAssumption DEF ArgoHealth, Observation
<1>4. ASSUME NEW e \in live.history, ArgoTrims(e) PROVE Inv'
  BY <1>1, <1>4, ArgoMovesInv DEF ArgoTrims, Observation
<1> QED
  BY <1>2, <1>3, <1>4, ArgoDeploysInv, ArgoFailsInv DEF Argo

LEMMA TickInv == Inv /\ Tick => Inv'
<1> SUFFICES ASSUME Inv, Tick PROVE Inv'
  OBVIOUS
<1>1. TypeOK' /\ Timely(now)'
  BY BoundAssumption DEF Inv, TypeOK, Tick, Timely
<1> QED
  BY <1>1 DEF Inv, Tick, RowsOK, SyncRows, StatusOK, HealthOK, ReportedOK, SyncOK, MergeOK, Timely

LEMMA StutterInv == Inv /\ UNCHANGED vars => Inv'
<1> SUFFICES ASSUME Inv, UNCHANGED vars PROVE Inv'
  OBVIOUS
<1>1. TypeOK' /\ Timely(now)'
  BY DEF Inv, TypeOK, vars, Timely
<1> QED
  BY <1>1 DEF Inv, vars, RowsOK, SyncRows, StatusOK, HealthOK, ReportedOK, SyncOK, MergeOK, Timely

LEMMA NextInv == Inv /\ [Next]_vars => Inv'
<1> SUFFICES ASSUME Inv, [Next]_vars PROVE Inv'
  OBVIOUS
<1>1. ASSUME NEW w \in Worker, Sync(w) PROVE Inv'
  BY <1>1, FetchInv, ReadRowsInv, CommitInv DEF Sync
<1>2. CASE Operator
  BY <1>2, CreateDeploymentInv, UpdateStatusInv DEF Operator
<1> QED
  BY <1>1, <1>2, ArgoInv, TickInv, StutterInv DEF Next

LEMMA InitInv == Init => Inv
<1> SUFFICES ASSUME Init PROVE Inv
  OBVIOUS
<1> DEFINE ids == {IdOf(0, FactOf(r)) : r \in LegacyRows}
<1>1. ASSUME NEW id \in DOMAIN rows
      PROVE  /\ id \in RowId /\ id[1] = 0
             /\ rows[id] \in LegacyRows /\ FactOf(rows[id]) = id[2]
  <2>1. id \in ids /\ rows[id] = CHOOSE r \in LegacyRows : FactOf(r) = id[2]
    BY DEF Init
  <2>2. PICK r \in LegacyRows : id = IdOf(0, FactOf(r))
    BY <2>1
  <2>3. id[1] = 0 /\ id[2] = FactOf(r)
    BY <2>2 DEF IdOf
  <2>4. rows[id] \in LegacyRows /\ FactOf(rows[id]) = id[2]
    BY <2>1, <2>3
  <2>5. id \in RowId
    BY <2>2, LegacyAssumption DEF IdOf, FactOf, RowId, Fact, Row
  <2> QED
    BY <2>3, <2>4, <2>5
<1>2. rows = [id \in DOMAIN rows |-> rows[id]]
  BY DEF Init
<1>3. IsTable(rows)
  BY <1>1, <1>2, LegacyAssumption DEF IsTable
<1>4. NewApplication \in Observation
  BY DEF NewApplication, Observation, Health, TERMINAL_HEALTH, SyncState, Phase
<1>5. TypeOK
  BY <1>3, <1>4 DEF Init, TypeOK, IsSync
<1>6. RowsOK
  BY <1>1, LegacyAssumption DEF RowsOK, SyncRows, StatusOK, HealthOK, Timely
<1>7. ReportedOK(live)
  BY DEF Init, NewApplication, ReportedOK, PhaseResult, NoResult
<1>8. Timely(now) /\ \A w \in Worker : SyncOK(sync[w])
  BY BoundAssumption DEF Init, Timely, SyncOK, Idle
<1> QED
  BY <1>5, <1>6, <1>7, <1>8 DEF Inv

-----------------------------------------------------------------------------
\* However many syncs overlap, what each holds and what the rows say is what Argo CD
\* reported (replaceHistory).
THEOREM InvHolds == Spec => []Inv
<1> QED
  BY InitInv, NextInv, PTL DEF Spec

\* The types of the rows, the observations and the running syncs.
THEOREM TypesHold == Spec => []TypeOK
<1>1. Inv => TypeOK
  BY DEF Inv
<1> QED
  BY <1>1, InvHolds, PTL

\* However many syncs overlap and whatever rows they read before another's write, the
\* health shown for a row was the live health of its own deployment.
THEOREM SnapshotsWereLive == Spec => []SnapshotWasLive
<1>1. Inv => SnapshotWasLive
  <2> SUFFICES ASSUME Inv, NEW id \in SyncRows,
                      presentDeploymentSnapshot(rows[id]).health # NoHealth
               PROVE  \E s \in shown :
                        /\ s[1] = presentDeploymentSnapshot(rows[id]).revision
                        /\ s[2] # NoTime =>
                             Distance(s[2], presentDeploymentSnapshot(rows[id]).deployedAt) < MatchWindow
                        /\ s[3] = presentDeploymentSnapshot(rows[id]).health
    BY DEF SnapshotWasLive
  <2>1. HealthOK(rows[id]) /\ rows[id] \in Row
    BY DEF Inv, TypeOK, IsTable, RowsOK, SyncRows
  <2>2. rows[id].stateRecorded /\ presentDeploymentSnapshot(rows[id]) = rows[id]
    BY <2>1 DEF presentDeploymentSnapshot, Row
  <2> QED
    BY <2>1, <2>2 DEF HealthOK
<1> QED
  BY <1>1, InvHolds, PTL

\* However many syncs overlap, a stored result is that of an operation Argo CD ran for
\* that revision, or that of an operation which Argo CD reported beside that live revision
\* without naming what it applied, or the one a legacy row came with.
THEOREM ResultsWereObserved == Spec => []ResultWasObserved
<1>1. Inv => ResultWasObserved
  BY DEF Inv, RowsOK, SyncRows, StatusOK, ResultWasObserved
<1> QED
  BY <1>1, InvHolds, PTL

-----------------------------------------------------------------------------
(* One sync at a time implements SnapshotLifecycle. *)

Serial == \A v, w \in Worker : v = w

\* What a lone sync read is what the rows still say, but for the rows operators wrote.
CopyOK ==
  \A w \in Worker : sync[w].phase = "merging" =>
    \A id \in SyncRows : id \in DOMAIN sync[w].seen /\ sync[w].seen[id] = rows[id]

Snaps == [id \in SyncRows |-> rows[id]]

LEMMA CopyInit == Init => CopyOK
  BY DEF Init, CopyOK, Idle

LEMMA CopyNext ==
  ASSUME Serial, Inv, CopyOK, [Next]_vars
  PROVE  CopyOK'
<1>1. sync = [w \in Worker |-> sync[w]] /\ IsTable(rows)
  BY DEF Inv, TypeOK
<1>2. CASE UNCHANGED <<rows, sync, edited>>
  BY <1>2 DEF CopyOK, SyncRows
<1>3. ASSUME NEW w \in Worker, ReadRows(w) PROVE CopyOK'
  BY <1>1, <1>3 DEF ReadRows, MergingWith, CopyOK, SyncRows, Serial, historyVars
<1>4. ASSUME NEW w \in Worker, NEW s, s.phase # "merging", sync' = [sync EXCEPT ![w] = s]
      PROVE  CopyOK'
  BY <1>1, <1>4 DEF CopyOK, Serial
<1>5. ASSUME NEW w \in Worker, Fetch(w) \/ Commit(w) \/ Abandon(w) PROVE CopyOK'
  BY <1>4, <1>5 DEF Fetch, Commit, Abandon, FetchedWith, Idle
<1>6. ASSUME NEW id, edited' = edited \cup {id}, UNCHANGED sync,
             DOMAIN rows' \subseteq DOMAIN rows \cup {id},
             \A i \in DOMAIN rows : i # id => rows'[i] = rows[i]
      PROVE  CopyOK'
  BY <1>6 DEF CopyOK, SyncRows
<1>7. CASE Operator
  <2>1. ASSUME NEW r \in Revision, NEW h \in EditHealth, CreateDeployment(r, h) PROVE CopyOK'
    BY <1>6, <2>1 DEF CreateDeployment
  <2>2. ASSUME NEW id \in DOMAIN rows, NEW fields, NEW status, NEW s, NEW h,
             UpdateStatus(id, fields, status, s, h) PROVE CopyOK'
    BY <1>1, <1>6, <2>2 DEF UpdateStatus, IsTable
  <2> QED
    BY <1>7, <2>1, <2>2 DEF Operator
<1>8. CASE Argo \/ Tick
  BY <1>2, <1>8 DEF Argo, ArgoDeploys, ArgoFails, ArgoCompares, ArgoHealth, ArgoTrims, Observes, Tick
<1> QED
  BY <1>2, <1>3, <1>5, <1>7, <1>8 DEF Next, Sync, vars

\* The writes of a merge are steps of the lifecycle when the row is as it was read.
LEMMA RewrittenAdvances ==
  ASSUME NEW row \in Row, NEW app \in Observation, NEW entries, NEW e
  PROVE  Promise!Lifecycle(row, Rewritten(row, row, entries, e, app))
<1> DEFINE new == Rewritten(row, row, entries, e, app)
           written == WriteFor(row, entries, e, app)
<1>1. CASE written = "fill"
  <2>1. new = Filled(row, row, app) /\ ~row.stateRecorded
    BY <1>1 DEF Rewritten, WriteFor
  <2>2. new = [row EXCEPT !.status = new.status, !.health = new.health,
                          !.sync = new.sync, !.stateRecorded = TRUE]
    BY <2>1 DEF Filled, Row
  <2>3. row.status # NoResult => new.status # NoResult
    BY <2>1 DEF Filled, Row
  <2> QED
    BY <2>1, <2>2, <2>3 DEF Promise!Lifecycle, Promise!Record, Promise!Unrecorded
<1>2. CASE written = "settle"
  <2>1. /\ new = Settled(row, app) /\ row.stateRecorded
        /\ row.health = "Progressing" /\ app.health \in TERMINAL_HEALTH
    BY <1>2 DEF Rewritten, WriteFor
  <2>2. new = [row EXCEPT !.health = new.health] /\ new.health \in TERMINAL_HEALTH
    BY <2>1 DEF Settled, Row
  <2> QED
    BY <2>1, <2>2 DEF Promise!Lifecycle, Promise!Settle, Promise!Progressing
<1>3. CASE written \notin {"fill", "settle"}
  BY <1>3 DEF Rewritten, Promise!Lifecycle
<1> QED
  BY <1>1, <1>2, <1>3

LEMMA CommitAdvances ==
  ASSUME Inv, CopyOK, NEW w \in Worker, Commit(w)
  PROVE  Promise!Advance
<1> DEFINE s == sync[w]
<1>1. PICK m \in Assignments(s.seen, s.entries) : rows' = Applied(rows, s, m, txns)
  BY DEF Commit
<1>2. s.phase = "merging" /\ UNCHANGED edited
  BY DEF Commit, historyVars
<1>3. s.obs \in Observation
  BY <1>2, MergingShape
<1>4. DOMAIN rows \subseteq DOMAIN rows'
  BY <1>1 DEF Applied
<1>5. ASSUME NEW id \in SyncRows PROVE Promise!Lifecycle(rows[id], rows'[id])
  <2>1. id \in DOMAIN rows /\ rows[id] \in Row /\ s.seen[id] = rows[id]
    BY <1>2 DEF SyncRows, CopyOK, Inv, TypeOK, IsTable
  <2> HIDE DEF s
  <2>2. \/ \E e \in s.entries : rows'[id] = Rewritten(rows[id], s.seen[id], s.entries, e, s.obs)
        \/ rows'[id] = rows[id]
    BY <1>1, <1>4, <2>1, AppliedRow
  <2> QED
    BY <1>3, <2>1, <2>2, RewrittenAdvances DEF Promise!Lifecycle
<1>6. SyncRows \subseteq SyncRows'
  BY <1>2, <1>4 DEF SyncRows
<1> QED
  BY <1>5, <1>6 DEF Promise!Advance

LEMMA EditReleases ==
  ASSUME NEW id, edited' = edited \cup {id},
         DOMAIN rows' = DOMAIN rows \cup {id},
         \A i \in DOMAIN rows : i # id => rows'[i] = rows[i]
  PROVE  [Promise!Next]_Snaps
<1>1. SyncRows' = SyncRows \ {id}
  BY DEF SyncRows
<1>2. \A i \in SyncRows' : rows'[i] = rows[i]
  BY <1>1 DEF SyncRows
<1>3. CASE id \in SyncRows
  BY <1>1, <1>2, <1>3 DEF Promise!Next, Promise!Release
<1>4. CASE id \notin SyncRows
  BY <1>1, <1>2, <1>4 DEF Snaps
<1> QED
  BY <1>3, <1>4

LEMMA StepKeepsPromise ==
  ASSUME Inv, CopyOK, [Next]_vars
  PROVE  [Promise!Next]_Snaps
<1>1. IsTable(rows)
  BY DEF Inv, TypeOK
<1>2. CASE UNCHANGED <<rows, edited>>
  BY <1>2 DEF Snaps, SyncRows
<1>3. ASSUME NEW w \in Worker, Commit(w) PROVE [Promise!Next]_Snaps
  BY <1>3, CommitAdvances DEF Promise!Next
<1>4. ASSUME NEW r \in Revision, NEW h \in EditHealth, CreateDeployment(r, h)
      PROVE  [Promise!Next]_Snaps
  BY <1>4, EditReleases DEF CreateDeployment
<1>5. ASSUME NEW id \in DOMAIN rows, NEW fields, NEW status, NEW s, NEW h,
             UpdateStatus(id, fields, status, s, h)
      PROVE  [Promise!Next]_Snaps
  BY <1>1, <1>5, EditReleases DEF UpdateStatus, IsTable
<1>6. CASE Argo \/ Tick \/ \E w \in Worker : Fetch(w) \/ ReadRows(w) \/ Abandon(w)
  BY <1>2, <1>6 DEF Argo, ArgoDeploys, ArgoFails, ArgoCompares, ArgoHealth, ArgoTrims, Observes,
     Tick, Fetch, ReadRows, Abandon, historyVars
<1> QED
  BY <1>2, <1>3, <1>4, <1>5, <1>6 DEF Next, Sync, Operator, vars

\* One sync at a time, the rows the syncs own follow SnapshotLifecycle: each is recorded
\* once, settles once from Progressing, is then frozen, and is never lost.
THEOREM SerialKeepsPromise == Serial => (Spec => KeepsPromise)
<1> SUFFICES ASSUME Serial PROVE Spec => KeepsPromise
  OBVIOUS
<1>1. Init => Promise!Init
  <2> SUFFICES ASSUME Init PROVE Promise!Init
    OBVIOUS
  <2>1. IsTable(rows)
    BY InitInv DEF Inv, TypeOK
  <2> QED
    BY <2>1 DEF Promise!Init, SyncRows, IsTable, Row
<1>2. Init => CopyOK
  BY CopyInit
<1>3. Inv /\ CopyOK /\ [Next]_vars => CopyOK'
  BY CopyNext
<1>4. Inv /\ CopyOK /\ [Next]_vars => [Promise!Next]_Snaps
  BY StepKeepsPromise
<1> QED
  BY <1>1, <1>2, <1>3, <1>4, InvHolds, PTL DEF Spec, KeepsPromise, Promise!Spec, Snaps

\* A row that is terminal as it was read is left alone.
LEMMA TerminalStays ==
  ASSUME NEW row, row.stateRecorded, row.health \in TERMINAL_HEALTH, NEW app, NEW entries, NEW e
  PROVE  Rewritten(row, row, entries, e, app) = row
<1>1. row.health # "Progressing"
  BY DEF TERMINAL_HEALTH
<1>2. WriteFor(row, entries, e, app) \notin {"fill", "settle"}
  BY <1>1 DEF WriteFor
<1> QED
  BY <1>2 DEF Rewritten

LEMMA StepFreezes ==
  ASSUME Inv, CopyOK, [Next]_vars, NEW id \in DOMAIN rows \ edited',
         rows[id].stateRecorded, rows[id].health \in TERMINAL_HEALTH
  PROVE  rows'[id] = rows[id]
<1>1. IsTable(rows)
  BY DEF Inv, TypeOK
<1>2. ASSUME NEW w \in Worker, Commit(w) PROVE rows'[id] = rows[id]
  <2> DEFINE s == sync[w]
  <2>1. PICK m \in Assignments(s.seen, s.entries) : rows' = Applied(rows, s, m, txns)
    BY <1>2 DEF Commit
  <2>2. s.phase = "merging" /\ UNCHANGED edited
    BY <1>2 DEF Commit, historyVars
  <2>3. s.seen[id] = rows[id]
    BY <2>2 DEF CopyOK, SyncRows
  <2>4. id \in DOMAIN Applied(rows, s, m, txns)
    BY DEF Applied
  <2> HIDE DEF s
  <2>5. \/ \E e \in s.entries : rows'[id] = Rewritten(rows[id], s.seen[id], s.entries, e, s.obs)
        \/ rows'[id] = rows[id]
    BY <2>1, <2>4, AppliedRow
  <2> QED
    BY <2>3, <2>5, TerminalStays
<1>3. ASSUME NEW r \in Revision, NEW h \in EditHealth, CreateDeployment(r, h) PROVE rows'[id] = rows[id]
  BY <1>3 DEF CreateDeployment
<1>4. ASSUME NEW i \in DOMAIN rows, NEW fields, NEW status, NEW s, NEW h,
             UpdateStatus(i, fields, status, s, h) PROVE rows'[id] = rows[id]
  BY <1>1, <1>4 DEF UpdateStatus, IsTable
<1>5. CASE Argo \/ Tick \/ UNCHANGED vars \/ \E w \in Worker : Fetch(w) \/ ReadRows(w) \/ Abandon(w)
  BY <1>5 DEF Argo, ArgoDeploys, ArgoFails, ArgoCompares, ArgoHealth, ArgoTrims, Observes,
     Tick, Fetch, ReadRows, Abandon, vars
<1> QED
  BY <1>2, <1>3, <1>4, <1>5 DEF Next, Sync, Operator

\* One sync at a time, a terminal snapshot is frozen, as the comment of
\* deployment-history.ts says; syncs that overlap thaw it.
THEOREM SerialFreezes == Serial => (Spec => FrozenAfterTerminal)
<1> SUFFICES ASSUME Serial PROVE Spec => FrozenAfterTerminal
  OBVIOUS
<1>1. Inv /\ CopyOK /\ [Next]_vars => CopyOK'
  BY CopyNext
<1>2. Inv /\ CopyOK /\ [Next]_vars =>
        [\A id \in DOMAIN rows \ edited' :
           rows[id].stateRecorded /\ rows[id].health \in TERMINAL_HEALTH => rows'[id] = rows[id]]_vars
  BY StepFreezes
<1> QED
  BY <1>1, <1>2, CopyInit, InvHolds, PTL DEF Spec, FrozenAfterTerminal

-----------------------------------------------------------------------------
(* One sync at a time stores no deployment twice.  An insert goes without a row only when *)
(* newer entries used the rows that match, and the entries of a history are too far apart *)
(* for that; and the one stand-in of an empty history finds the row of the last.          *)

OnSecond(t) == \E k \in Nat : t = MatchWindow * k

\* What Argo lists as deployed it deployed, on a whole second.
HistoryOK(app) ==
  \A f \in app.history : OnSecond(f.deployedAt) /\ <<f.revision, "Succeeded">> \in outcomes

\* The stand-in has the time of a row of its revision that was read, if there was any.
StandInOK(s) ==
  s.obs.history = {} =>
    /\ \A e, f \in s.entries : e = f
    /\ \A e \in s.entries : \A id \in DOMAIN s.seen :
         s.seen[id].revision = e.revision => \E j \in DOMAIN s.seen : FactOf(s.seen[j]) = e

FactsOK ==
  /\ HistoryOK(live)
  /\ \A w \in Worker : sync[w].phase # "idle" => HistoryOK(sync[w].obs)
  /\ \A w \in Worker : sync[w].phase = "merging" => StandInOK(sync[w])

OnceOK == OneRowPerDeployment /\ OneStandInRow

LEMMA SecondIsOn ==
  ASSUME NEW t \in Nat
  PROVE  OnSecond(Second(t))
<1>1. t - (t % MatchWindow) = MatchWindow * (t \div MatchWindow) /\ t \div MatchWindow \in Nat
  BY WindowAssumption
<1> QED
  BY <1>1 DEF OnSecond, Second

\* Two times on whole seconds are one, or a second apart.
LEMMA SecondsApart ==
  ASSUME NEW s \in Nat, NEW t \in Nat, OnSecond(s), OnSecond(t), s < t
  PROVE  ~(t - s < MatchWindow)
<1>1. PICK p \in Nat : s = MatchWindow * p
  BY DEF OnSecond
<1>2. PICK q \in Nat : t = MatchWindow * q
  BY DEF OnSecond
<1>3. q > p
  BY <1>1, <1>2, WindowAssumption
<1>4. MatchWindow * (q - p) >= MatchWindow * 1
  BY <1>3, WindowAssumption
<1> QED
  BY <1>1, <1>2, <1>4, WindowAssumption

LEMMA StandInRead ==
  ASSUME Inv, NEW app \in Observation, app.history = {}
  PROVE  StandInOK(MergingWith(app, rows, Entries(rows, app, now)))
<1> DEFINE entries == Entries(rows, app, now)
<1>1. entries = fallbackFact(rows, app, now)
  BY DEF Entries
<1>2. CASE app.revision = NoRevision
  BY <1>1, <1>2 DEF fallbackFact, StandInOK, MergingWith
<1>3. CASE app.revision # NoRevision
  <2> DEFINE known == {i \in DOMAIN rows : rows[i].revision = app.revision}
             times == {rows[id].deployedAt : id \in known}
             at == IF known # {} THEN NewestTime(rows, app.revision)
                   ELSE IF app.finishedAt # NoTime THEN app.finishedAt ELSE now
  <2>1. entries = {[revision |-> app.revision, deployedAt |-> at]}
    BY <1>1, <1>3 DEF fallbackFact
  <2>2. times \subseteq 0..MaxTime
    BY BoundAssumption DEF Inv, TypeOK, IsTable, Row, RowsOK, Timely
  <2>3. ASSUME known # {}
        PROVE  \E j \in DOMAIN rows : FactOf(rows[j]) = [revision |-> app.revision, deployedAt |-> at]
    <3>1. times # {}
      BY <2>3
    <3>2. at = CHOOSE n \in times : \A u \in times : u <= n
      BY <2>3 DEF NewestTime
    <3>3. at \in times
      <4> HIDE DEF times, known, at
      <4>1. \E n \in times : \A u \in times : u <= n
        BY <2>2, <3>1, HasGreatest, BoundAssumption
      <4> QED
        BY <3>2, <4>1
    <3>4. PICK j \in known : rows[j].deployedAt = at
      <4> HIDE DEF at
      <4> QED
        BY <3>3
    <3> HIDE DEF at
    <3> QED
      BY <3>4 DEF FactOf
  <2> HIDE DEF at, entries
  <2>4. \A e, f \in entries : e = f
    BY <2>1
  <2>5. ASSUME NEW e \in entries, NEW id \in DOMAIN rows, rows[id].revision = e.revision
        PROVE  \E j \in DOMAIN rows : FactOf(rows[j]) = e
    <3>1. e = [revision |-> app.revision, deployedAt |-> at] /\ e.revision = app.revision
      BY <2>1
    <3> QED
      BY <2>3, <2>5, <3>1
  <2> QED
    BY <2>4, <2>5 DEF StandInOK, MergingWith, entries
<1> QED
  BY <1>2, <1>3

LEMMA FactsInit == Init => FactsOK
  BY DEF Init, FactsOK, NewApplication, HistoryOK, Idle

LEMMA FactsNext ==
  ASSUME Inv, FactsOK, [Next]_vars
  PROVE  FactsOK'
<1>1. sync = [w \in Worker |-> sync[w]] /\ live \in Observation /\ now \in Nat
  BY DEF Inv, TypeOK
<1>2. ASSUME NEW w \in Worker, NEW s, sync' = [sync EXCEPT ![w] = s],
             UNCHANGED <<live, outcomes>>,
             s.phase # "idle" => HistoryOK(s.obs), s.phase = "merging" => StandInOK(s)
      PROVE  FactsOK'
  <2>1. \A app : HistoryOK(app)' <=> HistoryOK(app')
    BY <1>2 DEF HistoryOK
  <2>2. \A u \in Worker : sync'[u] = IF u = w THEN s ELSE sync[u]
    BY <1>1, <1>2
  <2> QED
    BY <1>2, <2>1, <2>2 DEF FactsOK, HistoryOK, StandInOK
<1>3. ASSUME NEW w \in Worker, Fetch(w) PROVE FactsOK'
  BY <1>2, <1>3 DEF Fetch, FetchedWith, FactsOK, argoVars
<1>4. ASSUME NEW w \in Worker, Commit(w) \/ Abandon(w) PROVE FactsOK'
  BY <1>2, <1>4 DEF Commit, Abandon, Idle, argoVars
<1>5. ASSUME NEW w \in Worker, ReadRows(w) PROVE FactsOK'
  <2>1. sync[w].phase = "fetched" /\ IsSync(sync[w]) /\ HistoryOK(sync[w].obs)
    BY <1>5 DEF ReadRows, Inv, TypeOK, FactsOK
  <2>2. sync[w].obs \in Observation
    BY <2>1 DEF IsSync, Idle, MergingWith
  <2> DEFINE s == MergingWith(sync[w].obs, rows, Entries(rows, sync[w].obs, now))
  <2>3. s.obs = sync[w].obs /\ s.phase = "merging"
    BY DEF MergingWith
  <2>4. StandInOK(s)
    <3>1. CASE sync[w].obs.history = {}
      BY <2>2, <3>1, StandInRead
    <3>2. CASE sync[w].obs.history # {}
      BY <2>3, <3>2 DEF StandInOK
    <3> QED
      BY <3>1, <3>2
  <2>5. sync' = [sync EXCEPT ![w] = s] /\ UNCHANGED <<live, outcomes>>
    BY <1>5 DEF ReadRows, argoVars
  <2> HIDE DEF s
  <2> QED
    BY <1>2, <2>1, <2>3, <2>4, <2>5
<1>6. ASSUME outcomes \subseteq outcomes', UNCHANGED sync,
             \A f \in live'.history :
               \/ f \in live.history
               \/ OnSecond(f.deployedAt) /\ <<f.revision, "Succeeded">> \in outcomes'
      PROVE  FactsOK'
  BY <1>6 DEF FactsOK, HistoryOK, StandInOK, OnSecond
<1>7. ASSUME NEW r \in Revision, ArgoDeploys(r) PROVE FactsOK'
  <2> DEFINE fact == [revision |-> r, deployedAt |-> Second(now)]
  <2>1. /\ live'.history = live.history \cup {fact} /\ UNCHANGED sync
        /\ outcomes' = outcomes \cup {<<r, "Succeeded">>}
    BY <1>1, <1>7 DEF ArgoDeploys, Observes, Observation
  <2>2. OnSecond(fact.deployedAt) /\ <<fact.revision, "Succeeded">> \in outcomes'
    BY <1>1, <2>1, SecondIsOn
  <2> HIDE DEF fact
  <2> QED
    BY <1>6, <2>1, <2>2
<1>8. ASSUME NEW r \in Revision, ArgoFails(r) PROVE FactsOK'
  <2>1. outcomes \subseteq outcomes' /\ UNCHANGED sync /\ live'.history = live.history
    BY <1>1, <1>8 DEF ArgoFails, Observes, Observation
  <2> QED
    BY <1>6, <2>1
<1>9. ASSUME NEW r \in Revision, ArgoCompares(r) PROVE FactsOK'
  BY <1>1, <1>6, <1>9 DEF ArgoCompares, Observes, Observation
<1>10. ASSUME NEW h \in LiveHealth, ArgoHealth(h) PROVE FactsOK'
  BY <1>1, <1>6, <1>10 DEF ArgoHealth, Observes, Observation
<1>11. ASSUME NEW e \in live.history, ArgoTrims(e) PROVE FactsOK'
  BY <1>1, <1>6, <1>11 DEF ArgoTrims, Observes, Observation
<1>12. CASE Operator \/ Tick \/ UNCHANGED vars
  BY <1>6, <1>12 DEF Operator, CreateDeployment, UpdateStatus, Tick, argoVars, vars
<1> QED
  BY <1>3, <1>4, <1>5, <1>7, <1>8, <1>9, <1>10, <1>11, <1>12 DEF Next, Argo, Sync

\* An entry goes without a row only when no sync stored its deployment, nor, unless its
\* revision was deployed, any other of its revision.
LEMMA FreshIsNew ==
  ASSUME Inv, CopyOK, FactsOK, NEW w \in Worker, sync[w].phase = "merging",
         NEW m \in Assignments(sync[w].seen, sync[w].entries),
         NEW e \in sync[w].entries, m[e] = NoRow
  PROVE  /\ \A i \in SyncRows : FactOf(rows[i]) # e
         /\ <<e.revision, "Succeeded">> \notin outcomes =>
              \A i \in SyncRows : rows[i].revision # e.revision
<1> DEFINE s == sync[w]
<1>1. /\ s.obs \in Observation /\ IsTable(s.seen) /\ s.entries \in SUBSET Fact
      /\ s.obs.history # {} => s.entries = s.obs.history
  BY MergingShape DEF MergeOK
<1>2. HistoryOK(s.obs) /\ StandInOK(s)
  BY DEF FactsOK
<1>3. \A i \in SyncRows : i \in DOMAIN s.seen /\ s.seen[i] = rows[i]
  BY DEF CopyOK
<1>4. \A id \in DOMAIN s.seen : Matches(s.seen[id], e) =>
        \E f \in s.entries : f.deployedAt > e.deployedAt /\ m[f] = id
  BY DEF Assignments
<1>5. \A f \in s.entries : m[f] # NoRow => Matches(s.seen[m[f]], f)
  BY DEF Assignments
<1> HIDE DEF s
<1>6. ASSUME NEW id \in DOMAIN s.seen, FactOf(s.seen[id]) = e
      PROVE  FALSE
  <2>1. s.seen[id].revision = e.revision /\ s.seen[id].deployedAt = e.deployedAt
    BY <1>6 DEF FactOf
  <2>2. e \in Fact /\ e.deployedAt \in Nat
    BY <1>1 DEF Fact, s
  <2>3. Matches(s.seen[id], e)
    BY <2>1, <2>2, WindowAssumption DEF Matches, Distance
  <2>4. PICK f \in s.entries : f.deployedAt > e.deployedAt /\ m[f] = id
    BY <1>4, <2>3
  <2>5. id # NoRow
    BY <1>1, RowAssumption DEF IsTable, RowId, Fact
  <2>6. f.deployedAt \in Nat /\ Distance(e.deployedAt, f.deployedAt) < MatchWindow
    BY <1>1, <1>5, <2>1, <2>4, <2>5 DEF Matches, Fact
  <2>7. f.deployedAt - e.deployedAt < MatchWindow
    BY <2>2, <2>4, <2>6 DEF Distance
  <2>8. s.obs.history # {}
    BY <1>2, <2>2, <2>4 DEF StandInOK, s
  <2>9. OnSecond(e.deployedAt) /\ OnSecond(f.deployedAt)
    BY <1>1, <1>2, <2>8 DEF HistoryOK, s
  <2> QED
    BY <2>2, <2>4, <2>6, <2>7, <2>9, SecondsApart
<1>7. \A i \in SyncRows : FactOf(rows[i]) # e
  BY <1>3, <1>6
<1>8. ASSUME <<e.revision, "Succeeded">> \notin outcomes, NEW i \in SyncRows,
             rows[i].revision = e.revision
      PROVE  FALSE
  <2>1. s.obs.history = {}
    BY <1>1, <1>2, <1>8 DEF HistoryOK, s
  <2>2. \E j \in DOMAIN s.seen : FactOf(s.seen[j]) = e
    BY <1>2, <1>3, <1>8, <2>1 DEF StandInOK, s
  <2> QED
    BY <1>6, <2>2
<1> QED
  BY <1>7, <1>8

\* A row that a merge adds is the row of an entry that found none.
LEMMA FreshRow ==
  ASSUME NEW table, NEW s, NEW m, NEW txn, NEW id \in DOMAIN Applied(table, s, m, txn),
         id \notin DOMAIN table
  PROVE  \E e \in s.entries : m[e] = NoRow /\ id = IdOf(txn, e)
BY DEF Applied

\* What the rows say of the syncs' deployments stays, or rows leave.
LEMMA OnceKept ==
  ASSUME OnceOK, SyncRows' \subseteq SyncRows, outcomes \subseteq outcomes',
         \A i \in SyncRows' : FactOf(rows'[i]) = FactOf(rows[i])
  PROVE  OnceOK'
<1>1. \A i \in SyncRows' : rows'[i].revision = rows[i].revision
  BY DEF FactOf
<1>2. \A i \in SyncRows' : FactOf(rows[i])' = FactOf(rows[i])
  BY DEF FactOf
<1>3. OneRowPerDeployment'
  BY <1>2 DEF OnceOK, OneRowPerDeployment
<1>4. OneStandInRow'
  BY <1>1 DEF OnceOK, OneStandInRow
<1> QED
  BY <1>3, <1>4 DEF OnceOK

LEMMA CommitOnce ==
  ASSUME Inv, CopyOK, FactsOK, OnceOK, NEW w \in Worker, Commit(w)
  PROVE  OnceOK'
<1> DEFINE s == sync[w]
<1>1. PICK m \in Assignments(s.seen, s.entries) : rows' = Applied(rows, s, m, txns)
  BY DEF Commit
<1>2. s.phase = "merging" /\ UNCHANGED <<edited, outcomes, unnamed, shown>>
  BY DEF Commit, historyVars, argoVars
<1>3. /\ RowsOK' /\ DOMAIN rows \subseteq DOMAIN rows'
      /\ \A id \in DOMAIN rows : FactOf(rows'[id]) = FactOf(rows[id])
  BY <1>1, <1>2, CommitRows
<1>4. ASSUME NEW i \in SyncRows'
      PROVE  \/ i \in SyncRows /\ FactOf(rows'[i]) = FactOf(rows[i])
             \/ \E e \in s.entries : m[e] = NoRow /\ i = IdOf(txns, e) /\ FactOf(rows'[i]) = e
  <2>1. CASE i \in DOMAIN rows
    BY <1>2, <1>3, <2>1 DEF SyncRows
  <2>2. CASE i \notin DOMAIN rows
    <3>1. i \in DOMAIN rows'
      BY DEF SyncRows
    <3> HIDE DEF s
    <3>2. PICK e \in s.entries : m[e] = NoRow /\ i = IdOf(txns, e)
      BY <1>1, <2>2, <3>1, FreshRow
    <3>3. FactOf(rows'[i]) = i[2] /\ i[2] = e
      BY <1>3, <3>1, <3>2 DEF RowsOK, IdOf, FactOf
    <3> QED
      BY <3>2, <3>3
  <2> QED
    BY <2>1, <2>2
<1>5. \A i \in SyncRows' : rows'[i].revision = FactOf(rows'[i]).revision
  BY DEF FactOf
<1>6. \A i \in SyncRows : rows[i].revision = FactOf(rows[i]).revision
  BY DEF FactOf
<1>7. ASSUME NEW e \in s.entries, m[e] = NoRow
      PROVE  /\ \A i \in SyncRows : FactOf(rows[i]) # e
             /\ <<e.revision, "Succeeded">> \notin outcomes =>
                  \A i \in SyncRows : rows[i].revision # e.revision
  BY <1>1, <1>2, <1>7, FreshIsNew
<1>8. ASSUME NEW e \in s.entries, <<e.revision, "Succeeded">> \notin outcomes
      PROVE  \A f \in s.entries : e = f
  <2>1. HistoryOK(s.obs) /\ StandInOK(s)
    BY <1>2 DEF FactsOK
  <2>2. s.obs.history # {} => s.entries = s.obs.history
    BY <1>2, MergingShape DEF MergeOK
  <2> QED
    BY <1>8, <2>1, <2>2 DEF HistoryOK, StandInOK
<1> HIDE DEF s
<1>9. ASSUME NEW i \in SyncRows', NEW j \in SyncRows', FactOf(rows'[i]) = FactOf(rows'[j])
      PROVE  i = j
  <2>1. CASE i \in SyncRows /\ j \in SyncRows /\ FactOf(rows'[i]) = FactOf(rows[i])
             /\ FactOf(rows'[j]) = FactOf(rows[j])
    BY <1>9, <2>1 DEF OnceOK, OneRowPerDeployment
  <2> QED
    BY <1>4, <1>7, <1>9, <2>1
<1>10. ASSUME NEW i \in SyncRows', NEW j \in SyncRows', rows'[i].revision = rows'[j].revision,
              <<rows'[i].revision, "Succeeded">> \notin outcomes, i[1] > 0, j[1] > 0
       PROVE  i = j
  <2>1. CASE i \in SyncRows /\ j \in SyncRows /\ FactOf(rows'[i]) = FactOf(rows[i])
             /\ FactOf(rows'[j]) = FactOf(rows[j])
    BY <1>5, <1>6, <1>10, <2>1 DEF OnceOK, OneStandInRow
  <2>2. ASSUME NEW e \in s.entries, m[e] = NoRow, FactOf(rows'[i]) = e, i = IdOf(txns, e)
        PROVE  i = j
    <3>1. e.revision = rows'[i].revision
      BY <1>5, <2>2
    <3> QED
      BY <1>4, <1>5, <1>6, <1>7, <1>8, <1>10, <2>2, <3>1
  <2>3. ASSUME NEW e \in s.entries, m[e] = NoRow, FactOf(rows'[j]) = e, j = IdOf(txns, e)
        PROVE  i = j
    <3>1. e.revision = rows'[j].revision
      BY <1>5, <2>3
    <3> QED
      BY <1>4, <1>5, <1>6, <1>7, <1>8, <1>10, <2>3, <3>1
  <2> QED
    BY <1>4, <2>1, <2>2, <2>3
<1>11. OneRowPerDeployment'
  <2>1. \A i \in SyncRows' : FactOf(rows[i])' = FactOf(rows'[i])
    BY DEF FactOf
  <2> QED
    BY <1>9, <2>1 DEF OneRowPerDeployment
<1>12. OneStandInRow'
  BY <1>2, <1>10 DEF OneStandInRow
<1> QED
  BY <1>11, <1>12 DEF OnceOK

LEMMA OnceNext ==
  ASSUME Inv, CopyOK, FactsOK, OnceOK, [Next]_vars
  PROVE  OnceOK'
<1>1. CASE UNCHANGED <<rows, edited>> /\ outcomes \subseteq outcomes'
  BY <1>1, OnceKept DEF SyncRows
<1>2. ASSUME NEW w \in Worker, Commit(w) PROVE OnceOK'
  BY <1>2, CommitOnce
<1>3. ASSUME NEW id, edited' = edited \cup {id}, DOMAIN rows' = DOMAIN rows \cup {id},
             \A i \in DOMAIN rows : i # id => rows'[i] = rows[i], UNCHANGED outcomes
      PROVE  OnceOK'
  BY <1>3, OnceKept DEF SyncRows
<1>4. ASSUME NEW r \in Revision, NEW h \in EditHealth, CreateDeployment(r, h)
      PROVE  OnceOK'
  BY <1>3, <1>4 DEF CreateDeployment, argoVars
<1>5. ASSUME NEW id \in DOMAIN rows, NEW fields, NEW status, NEW s, NEW h,
             UpdateStatus(id, fields, status, s, h)
      PROVE  OnceOK'
  BY <1>3, <1>5 DEF UpdateStatus, argoVars, Inv, TypeOK, IsTable
<1>6. CASE Argo \/ Tick \/ \E w \in Worker : Fetch(w) \/ ReadRows(w) \/ Abandon(w)
  BY <1>1, <1>6 DEF Argo, ArgoDeploys, ArgoFails, ArgoCompares, ArgoHealth, ArgoTrims, Observes,
     Tick, Fetch, ReadRows, Abandon, historyVars, argoVars
<1> QED
  BY <1>1, <1>2, <1>4, <1>5, <1>6 DEF Next, Sync, Operator, vars

LEMMA OnceInit == Init => OnceOK
<1> SUFFICES ASSUME Init PROVE OnceOK
  OBVIOUS
<1>1. \A i \in DOMAIN rows : i \in RowId /\ i[1] = 0 /\ FactOf(rows[i]) = i[2]
  BY InitInv DEF Init, Inv, TypeOK, IsTable, RowsOK, IdOf
<1>2. \A i, j \in DOMAIN rows : i[1] = j[1] /\ i[2] = j[2] => i = j
  BY <1>1 DEF RowId
<1> QED
  BY <1>1, <1>2 DEF OnceOK, OneRowPerDeployment, OneStandInRow, SyncRows

\* One sync at a time stores no deployment twice, whatever Argo reports and whenever it
\* drops entries of its history.
THEOREM SerialStoresOnce == Serial => (Spec => []OneRowPerDeployment)
<1> SUFFICES ASSUME Serial PROVE Spec => []OneRowPerDeployment
  OBVIOUS
<1>1. Init => CopyOK /\ FactsOK /\ OnceOK
  BY CopyInit, FactsInit, OnceInit
<1>2. Inv /\ CopyOK /\ FactsOK /\ OnceOK /\ [Next]_vars => (CopyOK /\ FactsOK /\ OnceOK)'
  BY CopyNext, FactsNext, OnceNext
<1>3. OnceOK => OneRowPerDeployment
  BY DEF OnceOK
<1> QED
  BY <1>1, <1>2, <1>3, InvHolds, PTL DEF Spec

\* One sync at a time stores one stand-in for a revision that was never deployed, however
\* often it is synced with an empty history.
THEOREM SerialStandsInOnce == Serial => (Spec => []OneStandInRow)
<1> SUFFICES ASSUME Serial PROVE Spec => []OneStandInRow
  OBVIOUS
<1>1. Init => CopyOK /\ FactsOK /\ OnceOK
  BY CopyInit, FactsInit, OnceInit
<1>2. Inv /\ CopyOK /\ FactsOK /\ OnceOK /\ [Next]_vars => (CopyOK /\ FactsOK /\ OnceOK)'
  BY CopyNext, FactsNext, OnceNext
<1>3. OnceOK => OneStandInRow
  BY DEF OnceOK
<1> QED
  BY <1>1, <1>2, <1>3, InvHolds, PTL DEF Spec
=============================================================================
