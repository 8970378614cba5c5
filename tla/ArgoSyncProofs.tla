--------------------------- MODULE ArgoSyncProofs ---------------------------
(***************************************************************************)
(* Proofs about ArgoSync for any servers, jobs, uids, keys and bounds: its *)
(* types, the stored connection, the rows without a uid, and what a sync    *)
(* that runs alone leaves in the table.                                    *)
(*                                                                         *)
(* The stored url stays the chosen one because every sync that was started *)
(* since uses it (ConnInv); rows without a uid stay because a removal has   *)
(* only rows with one on its list, and a row never loses its uid (StaleOK).*)
(* The table ends as Argo CD's list because an item that the loop is        *)
(* through with either failed or is a row it has seen (MirrorInv).         *)
(***************************************************************************)
EXTENDS ArgoSync, FiniteSetTheorems, TLAPS

\* A server is listed, and a connection recorded, by syncs; only they remove.
PhaseOK ==
  \A w \in Worker :
    /\ job[w].phase \in RemovalPhase \cup {"list", "record"} => job[w].op = "sync"
    /\ job[w].op = "sync" => job[w].conn.url \in Source

\* A row on a removal's list, if it is there still, has a uid.
StaleOK ==
  \A w \in Worker : \A id \in job[w].stale \cap DOMAIN apps : apps[id].uid # NoUid

\* Unless a sync was running when the connection was chosen, every sync uses its url.
ConnInv ==
  /\ TokenAsChosen
  /\ ConnectionAsChosen
  /\ ~crossed => \A w \in Worker : job[w].op = "sync" => job[w].conn.url = Target

Inv == TypeOK /\ PhaseOK /\ StaleOK /\ ConnInv

-----------------------------------------------------------------------------
LEMMA LegacyCount == Cardinality(LegacyKey) \in Nat
  BY KeyAssumption, FS_CardinalityType

LEMMA NextIdIsNat == ASSUME TypeOK PROVE NextId \in Nat /\ NextId >= 1
  BY LegacyCount DEF TypeOK, NextId, Bound

LEMMA InitInv == Init => Inv
<1> SUFFICES ASSUME Init PROVE Inv
  OBVIOUS
<1> USE DEF Init
<1>0. NextId = Cardinality(LegacyKey) + 1 /\ Cardinality(LegacyKey) \in Nat
  BY LegacyCount DEF NextId, Bound
<1>1. TableOK(apps, NextId)
  <2>1. PICK number \in [1..Cardinality(LegacyKey) -> LegacyKey] :
          /\ \A i, j \in DOMAIN number : number[i] = number[j] => i = j
          /\ apps = [i \in DOMAIN number |->
                       [uid |-> NoUid, key |-> number[i], children |-> {"deployments"}]]
    OBVIOUS
  <2>2. DOMAIN apps = 1..Cardinality(LegacyKey)
    BY <2>1
  <2>3. \A id \in DOMAIN apps : apps[id].key = number[id] /\ apps[id] \in App
    BY <2>1, KeyAssumption DEF App, Child
  <2> QED
    BY <2>1, <2>2, <2>3, <1>0 DEF TableOK
<1>2. Idle \in Job /\ JobOK(Idle, NextId)
  BY DEF Idle, Job, JobOK, NoIntegration, Integration, NoItem, Phase, ItemPhase
<1>3. TypeOK
  <2>1. spent \in [DOMAIN Bound -> Nat] /\ \A kind \in DOMAIN Bound : spent[kind] <= Bound[kind]
    BY SyncBounds DEF Bound
  <2> QED
    BY <1>1, <1>2, <2>1 DEF TypeOK, NoIntegration, Integration
<1>4. PhaseOK /\ StaleOK /\ ConnInv
  BY DEF PhaseOK, StaleOK, ConnInv, Idle, TokenAsChosen, ConnectionAsChosen, NoIntegration,
     RemovalPhase
<1> QED
  BY <1>3, <1>4 DEF Inv
-----------------------------------------------------------------------------
(* Bounds and ids. *)

SpentOK ==
  /\ spent \in [DOMAIN Bound -> Nat]
  /\ \A kind \in DOMAIN Bound : spent[kind] <= Bound[kind]

LEMMA SpendKeeps ==
  ASSUME SpentOK, NEW kind \in DOMAIN Bound, Spend(kind)
  PROVE  /\ SpentOK'
         /\ NextId' \in Nat /\ NextId' >= NextId
         /\ kind = "ids" => NextId' = NextId + 1
         /\ kind # "ids" => NextId' = NextId
<1>1. Bound[kind] \in Nat /\ "ids" \in DOMAIN Bound
  BY SyncBounds DEF Bound
<1>2. spent' \in [DOMAIN Bound -> Nat] /\ spent'[kind] = spent[kind] + 1
      /\ \A other \in DOMAIN Bound : other # kind => spent'[other] = spent[other]
  BY DEF Spend, SpentOK
<1>3. SpentOK'
  BY <1>1, <1>2 DEF Spend, SpentOK, Bound
<1> QED
  BY <1>1, <1>2, <1>3, LegacyCount DEF NextId, SpentOK

LEMMA NoneSpent ==
  ASSUME SpentOK, UNCHANGED spent
  PROVE  SpentOK' /\ NextId' = NextId /\ NextId \in Nat
  BY LegacyCount DEF SpentOK, NextId, Bound

LEMMA LargerJobOK ==
  ASSUME NEW j, NEW m \in Nat, NEW n \in Nat, m <= n, JobOK(j, m)
  PROVE  JobOK(j, n)
  BY DEF JobOK

LEMMA LargerTableOK ==
  ASSUME NEW t, NEW m \in Nat, NEW n \in Nat, m <= n, TableOK(t, m)
  PROVE  TableOK(t, n)
  BY DEF TableOK

-----------------------------------------------------------------------------
(* The steps of a job. *)

\* What a step of job w must see to: the rest of the invariant follows.
LEMMA JobStepInv ==
  ASSUME Inv, NEW w \in Worker,
         UNCHANGED <<argoVars, posted, integration, choiceVars>>,
         job' \in [Worker -> Job],
         \A v \in Worker : v # w => job'[v] = job[v],
         JobOK(job'[w], NextId'),
         job'[w].phase \in RemovalPhase \cup {"list", "record"} => job'[w].op = "sync",
         job'[w].op = "sync" => job[w].op = "sync" /\ job'[w].conn = job[w].conn,
         \A id \in job'[w].stale \cap DOMAIN apps' : apps'[id].uid # NoUid,
         TableOK(apps', NextId'),
         \A id \in DOMAIN apps' : apps'[id].uid = NoUid =>
           id \in DOMAIN apps /\ apps[id].uid = NoUid,
         SpentOK', NextId' \in Nat, NextId' >= NextId
  PROVE  Inv'
<1>1. TypeOK'
  <2>1. \A v \in Worker : JobOK(job'[v], NextId')
    <3> TAKE v \in Worker
    <3>1. CASE v = w
      BY <3>1
    <3>2. CASE v # w
      <4>1. JobOK(job[v], NextId) /\ NextId \in Nat
        BY NextIdIsNat DEF Inv, TypeOK
      <4> QED
        BY <4>1, <3>2, LargerJobOK
    <3> QED
      BY <3>1, <3>2
  <2> QED
    BY <2>1 DEF Inv, TypeOK, argoVars, choiceVars, SpentOK
<1>2. PhaseOK'
  BY DEF Inv, PhaseOK
<1>3. StaleOK'
  BY DEF Inv, StaleOK
<1>4. ConnInv'
  <2>1. TokenAsChosen' /\ ConnectionAsChosen' /\ Target' = Target
    BY DEF Inv, ConnInv, TokenAsChosen, ConnectionAsChosen, choiceVars, Target
  <2>2. ASSUME ~crossed', NEW v \in Worker, job'[v].op = "sync"
        PROVE  job'[v].conn.url = Target'
    BY <2>1, <2>2 DEF Inv, ConnInv, choiceVars
  <2> QED
    BY <2>1, <2>2 DEF ConnInv
<1> QED
  BY <1>1, <1>2, <1>3, <1>4 DEF Inv

\* The job alone changes.
LEMMA JobOnlyInv ==
  ASSUME Inv, NEW w \in Worker,
         UNCHANGED <<argoVars, posted, integration, choiceVars, apps>>,
         job' \in [Worker -> Job],
         \A v \in Worker : v # w => job'[v] = job[v],
         JobOK(job'[w], NextId),
         job'[w].phase \in RemovalPhase \cup {"list", "record"} => job'[w].op = "sync",
         job'[w].op = "sync" => job[w].op = "sync" /\ job'[w].conn = job[w].conn,
         \A id \in job'[w].stale \cap DOMAIN apps : apps[id].uid # NoUid,
         UNCHANGED spent \/ \E kind \in DOMAIN Bound : Spend(kind)
  PROVE  Inv'
<1>1. SpentOK /\ NextId \in Nat
  BY NextIdIsNat DEF Inv, TypeOK, SpentOK
<1>2. SpentOK' /\ NextId' \in Nat /\ NextId' >= NextId
  BY <1>1, SpendKeeps, NoneSpent
<1>3. TableOK(apps', NextId')
  BY <1>1, <1>2, LargerTableOK DEF Inv, TypeOK
<1>4. JobOK(job'[w], NextId')
  BY <1>1, <1>2, LargerJobOK
<1> QED
  BY <1>2, <1>3, <1>4, JobStepInv

\* Job w is what Step says.
LEMMA StepIs ==
  ASSUME Inv, NEW w \in Worker, NEW next \in Job, Step(w, next)
  PROVE  /\ job' \in [Worker -> Job] /\ job'[w] = next
         /\ \A v \in Worker : v # w => job'[v] = job[v]
         /\ UNCHANGED <<argoVars, posted, integration, choiceVars>>
  BY DEF Inv, TypeOK, Step
\* What is known of the job that steps.
LEMMA JobIs ==
  ASSUME Inv, NEW w \in Worker
  PROVE  /\ job[w] \in Job /\ JobOK(job[w], NextId)
         /\ job[w].phase \in RemovalPhase \cup {"list", "record"} => job[w].op = "sync"
         /\ job[w].op = "sync" => job[w].conn.url \in Source
         /\ \A id \in job[w].stale \cap DOMAIN apps : apps[id].uid # NoUid
  BY DEF Inv, TypeOK, PhaseOK, StaleOK

LEMMA IdleIsJob == Idle \in Job /\ \A n : JobOK(Idle, n)
  BY DEF Idle, Job, JobOK, NoIntegration, Integration, NoItem, Phase, ItemPhase

LEMMA GoIdleInv ==
  ASSUME Inv, NEW w \in Worker, Step(w, Idle), UNCHANGED apps,
         UNCHANGED spent \/ \E kind \in DOMAIN Bound : Spend(kind)
  PROVE  Inv'
<1>1. /\ job' \in [Worker -> Job] /\ job'[w] = Idle
      /\ \A v \in Worker : v # w => job'[v] = job[v]
      /\ UNCHANGED <<argoVars, posted, integration, choiceVars>>
  BY IdleIsJob, StepIs
<1>2. Idle.op = "none" /\ Idle.phase = "idle" /\ Idle.stale = {}
  BY DEF Idle
<1> QED
  BY <1>1, <1>2, IdleIsJob, JobOnlyInv DEF RemovalPhase

LEMMA SkipItemInv ==
  ASSUME Inv, NEW w \in Worker, job[w].phase \in ItemPhase, Step(w, SkipItem(job[w])),
         UNCHANGED apps, UNCHANGED spent \/ \E kind \in DOMAIN Bound : Spend(kind)
  PROVE  Inv'
<1> DEFINE next == SkipItem(job[w])
<1>1. job[w] \in Job /\ JobOK(job[w], NextId) /\ job[w].item.uid \in Uid
  <2>1. job[w].item \in Item
    BY JobIs DEF JobOK, Job
  <2> QED
    BY <2>1, JobIs DEF Item
<1>2. next \in Job /\ JobOK(next, NextId)
  BY <1>1 DEF SkipItem, Job, JobOK, Phase, ItemPhase, NoItem, Idle
<1>3. /\ next.phase = "items" /\ next.op = job[w].op /\ next.conn = job[w].conn
      /\ next.stale = job[w].stale
  BY <1>1 DEF SkipItem, Job
<1>4. /\ job' \in [Worker -> Job] /\ job'[w] = next
      /\ \A v \in Worker : v # w => job'[v] = job[v]
      /\ UNCHANGED <<argoVars, posted, integration, choiceVars>>
  BY <1>2, StepIs
<1> HIDE DEF next
<1> QED
  BY <1>2, <1>3, <1>4, JobIs, JobOnlyInv DEF RemovalPhase

LEMMA ListInv == ASSUME Inv, NEW w \in Worker, List(w) PROVE Inv'
<1>1. CASE job[w].conn.url # job[w].conn.token
  BY <1>1, GoIdleInv DEF List
<1>2. CASE job[w].conn.url = job[w].conn.token
  <2> DEFINE next == [job[w] EXCEPT !.phase = "items", !.fetched = argo[job[w].conn.url],
                                    !.todo = argo[job[w].conn.url]]
  <2>1. Step(w, next)
    BY <1>2 DEF List
  <2>2. next \in Job /\ JobOK(next, NextId) /\ next.phase = "items"
        /\ next.op = job[w].op /\ next.conn = job[w].conn /\ next.stale = job[w].stale
    <3>1. argo[job[w].conn.url] \subseteq Item
      BY JobIs DEF List, Inv, TypeOK
    <3>2. job[w].phase = "list" /\ job[w] \in Job /\ JobOK(job[w], NextId)
      BY JobIs DEF List
    <3> QED
      BY <3>1, <3>2 DEF Job, JobOK, Phase, ItemPhase, Idle
  <2>3. /\ job' \in [Worker -> Job] /\ job'[w] = next
        /\ \A v \in Worker : v # w => job'[v] = job[v]
        /\ UNCHANGED <<argoVars, posted, integration, choiceVars>>
    BY <2>1, <2>2, StepIs
  <2> HIDE DEF next
  <2> QED
    BY <2>2, <2>3, JobIs, JobOnlyInv DEF List, RemovalPhase
<1> QED
  BY <1>1, <1>2

LEMMA FindByUidInv ==
  ASSUME Inv, NEW w \in Worker, NEW i \in job[w].todo, FindByUid(w, i)
  PROVE  Inv'
<1>1. PICK row \in IF UidHolder(i.uid) = {} THEN {NoId} ELSE UidHolder(i.uid) :
        Step(w, [job[w] EXCEPT !.phase = "write", !.todo = @ \ {i}, !.item = i, !.row = row])
  BY DEF FindByUid
<1> DEFINE next == [job[w] EXCEPT !.phase = "write", !.todo = @ \ {i}, !.item = i, !.row = row]
<1>2. row \in 1..NextId - 1 \cup {NoId}
  BY DEF UidHolder, Inv, TypeOK, TableOK
<1>3. next \in Job /\ JobOK(next, NextId) /\ next.phase = "write"
      /\ next.op = job[w].op /\ next.conn = job[w].conn /\ next.stale = job[w].stale
  <2>1. job[w] \in Job /\ JobOK(job[w], NextId) /\ job[w].phase = "items" /\ NextId \in Nat
    BY JobIs, NextIdIsNat DEF FindByUid, Inv
  <2>2. i \in Item /\ i \in job[w].fetched /\ job[w].todo \subseteq job[w].fetched
    BY <2>1 DEF Job, JobOK
  <2>3. row \in Nat \cup {NoId}
    BY <1>2, <2>1
  <2>4. next \in Job
    BY <2>1, <2>2, <2>3 DEF Job, Phase, ItemPhase
  <2>5. /\ next.phase = "write" /\ next.todo = job[w].todo \ {i} /\ next.item = i
        /\ next.row = row /\ next.op = job[w].op /\ next.conn = job[w].conn
        /\ next.stale = job[w].stale /\ next.seen = job[w].seen
        /\ next.fetched = job[w].fetched
    BY <2>1 DEF Job
  <2> HIDE DEF next
  <2>6. next # Idle
    BY <2>5 DEF Idle
  <2>7. JobOK(next, NextId)
    BY <1>2, <2>1, <2>2, <2>5, <2>6 DEF JobOK
  <2> QED
    BY <2>4, <2>5, <2>7
<1>4. /\ job' \in [Worker -> Job] /\ job'[w] = next
      /\ \A v \in Worker : v # w => job'[v] = job[v]
      /\ UNCHANGED <<argoVars, posted, integration, choiceVars>>
  BY <1>1, <1>3, StepIs
<1> HIDE DEF next
<1> QED
  BY <1>3, <1>4, JobIs, JobOnlyInv DEF FindByUid, RemovalPhase

LEMMA FindStaleInv == ASSUME Inv, NEW w \in Worker, FindStale(w) PROVE Inv'
<1> DEFINE next == [job[w] EXCEPT !.stale = Stale(job[w]),
                      !.phase = IF Stale(job[w]) = {} THEN "record" ELSE "deployments"]
<1>1. next \in Job /\ JobOK(next, NextId)
      /\ next.op = "sync" /\ next.conn = job[w].conn /\ next.stale = Stale(job[w])
  <2>1. job[w] \in Job /\ JobOK(job[w], NextId) /\ job[w].phase = "items" /\ job[w].op = "sync"
        /\ NextId \in Nat
    BY JobIs, NextIdIsNat DEF FindStale, ItemsDone, Inv
  <2>2. Stale(job[w]) \subseteq 1..NextId - 1 /\ Stale(job[w]) \cap job[w].seen = {}
    BY DEF Stale, Inv, TypeOK, TableOK
  <2>3. next \in Job
    <3>1. Stale(job[w]) \in SUBSET Nat
      BY <2>1, <2>2
    <3>2. (IF Stale(job[w]) = {} THEN "record" ELSE "deployments") \in Phase
      BY DEF Phase, RemovalPhase
    <3> HIDE DEF Stale
    <3> QED
      BY <2>1, <3>1, <3>2 DEF Job
  <2>4. /\ next.phase \in {"record", "deployments"} /\ next.stale = Stale(job[w])
        /\ next.op = "sync" /\ next.conn = job[w].conn /\ next.seen = job[w].seen
        /\ next.fetched = job[w].fetched /\ next.todo = job[w].todo
        /\ next.item = job[w].item /\ next.row = job[w].row
    BY <2>1 DEF Job
  <2> HIDE DEF next
  <2>5. next # Idle
    BY <2>4 DEF Idle
  <2>6. JobOK(next, NextId)
    BY <2>1, <2>2, <2>4, <2>5 DEF JobOK, ItemPhase
  <2> QED
    BY <2>3, <2>4, <2>6
<1>2. \A id \in next.stale \cap DOMAIN apps : apps[id].uid # NoUid
  BY <1>1 DEF Stale
<1>3. /\ job' \in [Worker -> Job] /\ job'[w] = next
      /\ \A v \in Worker : v # w => job'[v] = job[v]
      /\ UNCHANGED <<argoVars, posted, integration, choiceVars>>
  BY <1>1, StepIs DEF FindStale
<1> HIDE DEF next
<1> QED
  BY <1>1, <1>2, <1>3, JobIs, JobOnlyInv DEF FindStale

-----------------------------------------------------------------------------
(* The steps that write the table of applications. *)

\* The job's own part of a step of the item loop or of a removal.
LEMMA SaveStepInv ==
  ASSUME Inv, NEW w \in Worker, NEW next \in Job, Step(w, next), JobOK(next, NextId'),
         next.phase \in RemovalPhase \cup {"list", "record"} => next.op = "sync",
         next.op = job[w].op, next.conn = job[w].conn, next.stale = job[w].stale,
         TableOK(apps', NextId'),
         \A id \in DOMAIN apps' : apps'[id].uid = NoUid =>
           id \in DOMAIN apps /\ apps[id].uid = NoUid,
         SpentOK', NextId' \in Nat, NextId' >= NextId
  PROVE  Inv'
<1>1. /\ job' \in [Worker -> Job] /\ job'[w] = next
      /\ \A v \in Worker : v # w => job'[v] = job[v]
      /\ UNCHANGED <<argoVars, posted, integration, choiceVars>>
  BY StepIs
<1>2. \A id \in job'[w].stale \cap DOMAIN apps' : apps'[id].uid # NoUid
  BY <1>1, JobIs
<1> QED
  BY <1>1, <1>2, JobStepInv

LEMMA NamedOK ==
  ASSUME Inv, NEW id \in DOMAIN apps, NEW i \in Item, KeyHolder(i.key) \subseteq {id}
  PROVE  /\ TableOK(Named(apps, id, i), NextId)
         /\ \A other \in DOMAIN apps : Named(apps, id, i)[other].uid = NoUid =>
              apps[other].uid = NoUid
         /\ DOMAIN Named(apps, id, i) = DOMAIN apps
<1> DEFINE table == Named(apps, id, i)
<1>1. /\ apps = [other \in DOMAIN apps |-> apps[other]] /\ TableOK(apps, NextId)
      /\ \A other \in DOMAIN apps : apps[other] \in App
  BY DEF Inv, TypeOK, TableOK
<1>2. /\ DOMAIN table = DOMAIN apps
      /\ table = [other \in DOMAIN table |-> table[other]]
      /\ table[id] \in App /\ table[id].uid = i.uid /\ table[id].key = i.key
      /\ \A other \in DOMAIN apps : other # id => table[other] = apps[other]
  BY <1>1 DEF Named, App, Item
<1>3. i.uid # NoUid
  BY UidAssumption DEF Item
<1>4. \A other \in DOMAIN apps : other # id => apps[other].key # i.key
  BY DEF KeyHolder
<1> HIDE DEF table
<1>5. TableOK(table, NextId)
  BY <1>1, <1>2, <1>4 DEF TableOK
<1> QED
  BY <1>2, <1>3, <1>5 DEF table

LEMMA UpdateByIdInv == ASSUME Inv, NEW w \in Worker, UpdateById(w) PROVE Inv'
<1> DEFINE id == job[w].row
           i == job[w].item
           next == [job[w] EXCEPT !.phase = "history", !.row = id]
<1>1. job[w] \in Job /\ JobOK(job[w], NextId) /\ job[w].phase = "write" /\ i \in Item
  BY JobIs DEF UpdateById, JobOK, Job, ItemPhase
<1>2. id \in DOMAIN apps /\ KeyHolder(i.key) \subseteq {id}
  BY DEF UpdateById, Updatable
<1>3. apps' = Named(apps, id, i) /\ Step(w, next)
  BY DEF UpdateById, SaveItem
<1>4. SpentOK' /\ NextId' = NextId /\ NextId \in Nat
  BY NoneSpent DEF UpdateById, Inv, TypeOK, SpentOK
<1>5. next \in Job /\ JobOK(next, NextId) /\ next.phase = "history"
      /\ next.op = job[w].op /\ next.conn = job[w].conn /\ next.stale = job[w].stale
  BY <1>1 DEF Job, JobOK, Phase, ItemPhase, Idle
<1>6. /\ TableOK(apps', NextId') /\ DOMAIN apps' = DOMAIN apps
      /\ \A other \in DOMAIN apps' : apps'[other].uid = NoUid => apps[other].uid = NoUid
  BY <1>1, <1>2, <1>3, <1>4, NamedOK
<1> HIDE DEF next, i, id
<1> QED
  BY <1>3, <1>4, <1>5, <1>6, SaveStepInv DEF RemovalPhase

LEMMA UpsertByKeyInv == ASSUME Inv, NEW w \in Worker, UpsertByKey(w) PROVE Inv'
<1> DEFINE i == job[w].item
           At(id) == [job[w] EXCEPT !.phase = "history", !.row = id]
<1>1. job[w] \in Job /\ JobOK(job[w], NextId) /\ job[w].phase = "write" /\ i \in Item
      /\ NextId \in Nat /\ NextId >= 1
  BY JobIs, NextIdIsNat DEF UpsertByKey, JobOK, Job, ItemPhase, Inv
<1>2. ASSUME NEW n \in Nat, n >= NextId, NEW id \in 1..n - 1
      PROVE  /\ At(id) \in Job /\ JobOK(At(id), n) /\ At(id).phase = "history"
             /\ At(id).op = job[w].op /\ At(id).conn = job[w].conn
             /\ At(id).stale = job[w].stale
  <2>1. JobOK(job[w], n)
    BY <1>1, <1>2, LargerJobOK
  <2>2. At(id) \in Job
    <3>1. id \in Nat /\ "history" \in Phase
      BY <1>2 DEF Phase, ItemPhase
    <3> QED
      BY <1>1, <3>1 DEF Job
  <2>3. /\ At(id).phase = "history" /\ At(id).row = id
        /\ At(id).op = job[w].op /\ At(id).conn = job[w].conn
        /\ At(id).stale = job[w].stale /\ At(id).seen = job[w].seen
        /\ At(id).fetched = job[w].fetched /\ At(id).todo = job[w].todo
        /\ At(id).item = job[w].item
    BY <1>1 DEF Job
  <2> HIDE DEF At
  <2>4. At(id) # Idle
    BY <2>3 DEF Idle
  <2>5. JobOK(At(id), n)
    BY <1>1, <1>2, <2>1, <2>3, <2>4 DEF JobOK, ItemPhase
  <2> QED
    BY <2>2, <2>3, <2>5
<1>3. CASE KeyHolder(i.key) # {}
  <2>1. PICK id \in KeyHolder(i.key) : SaveItem(w, Named(apps, id, i), id)
    BY <1>3 DEF UpsertByKey
  <2>2. apps' = Named(apps, id, i) /\ Step(w, At(id))
    BY <2>1 DEF SaveItem
  <2>3. SpentOK' /\ NextId' = NextId
    BY <1>3, NoneSpent DEF UpsertByKey, Inv, TypeOK, SpentOK
  <2>4. id \in DOMAIN apps /\ KeyHolder(i.key) \subseteq {id} /\ id \in 1..NextId - 1
    BY DEF KeyHolder, Inv, TypeOK, TableOK
  <2>5. /\ TableOK(apps', NextId') /\ DOMAIN apps' = DOMAIN apps
        /\ \A other \in DOMAIN apps' : apps'[other].uid = NoUid => apps[other].uid = NoUid
    BY <1>1, <2>2, <2>3, <2>4, NamedOK
  <2>6. /\ At(id) \in Job /\ JobOK(At(id), NextId') /\ At(id).phase = "history"
        /\ At(id).op = job[w].op /\ At(id).conn = job[w].conn
        /\ At(id).stale = job[w].stale
    <3>1. NextId \in Nat /\ NextId >= NextId /\ id \in 1..NextId - 1
      BY <1>1, <2>4
    <3> HIDE DEF At
    <3> QED
      BY <1>2, <2>3, <3>1
  <2> HIDE DEF At, i
  <2> QED
    BY <1>1, <2>2, <2>3, <2>5, <2>6, SaveStepInv DEF RemovalPhase
<1>4. CASE KeyHolder(i.key) = {}
  <2> DEFINE row == [uid |-> i.uid, key |-> i.key, children |-> {}]
             table == [id \in DOMAIN apps \cup {NextId} |->
                         IF id = NextId THEN row ELSE apps[id]]
  <2>1. apps' = table /\ Step(w, At(NextId)) /\ Spend("ids")
    BY <1>4 DEF UpsertByKey, SaveItem
  <2>2. SpentOK' /\ NextId' \in Nat /\ NextId' = NextId + 1
    <3>1. SpentOK /\ "ids" \in DOMAIN Bound
      BY DEF Inv, TypeOK, SpentOK, Bound
    <3> QED
      BY <2>1, <3>1, SpendKeeps
  <2>3. row \in App /\ row.uid # NoUid /\ row.key = i.key
    BY <1>1, UidAssumption DEF App, Item, Child
  <2>4. TableOK(apps, NextId) /\ NextId \notin DOMAIN apps
    BY <1>1 DEF Inv, TypeOK, TableOK
  <2>5. \A id \in DOMAIN apps : apps[id].key # i.key
    BY <1>4 DEF KeyHolder
  <2> HIDE DEF row, i
  <2>6. /\ DOMAIN table = DOMAIN apps \cup {NextId} /\ table[NextId] = row
        /\ \A id \in DOMAIN apps : table[id] = apps[id]
        /\ table = [id \in DOMAIN table |-> table[id]]
    BY <2>4
  <2> HIDE DEF table
  <2>7. TableOK(table, NextId')
    <3>1. DOMAIN table \subseteq 1..NextId' - 1
      BY <1>1, <2>2, <2>4, <2>6 DEF TableOK
    <3>2. \A id \in DOMAIN table : table[id] \in App
      BY <2>3, <2>4, <2>6 DEF TableOK
    <3>3. \A id, other \in DOMAIN table : table[id].key = table[other].key => id = other
      BY <2>3, <2>4, <2>5, <2>6 DEF TableOK
    <3> QED
      BY <2>6, <3>1, <3>2, <3>3 DEF TableOK
  <2>8. \A id \in DOMAIN apps' : apps'[id].uid = NoUid =>
          id \in DOMAIN apps /\ apps[id].uid = NoUid
    BY <2>1, <2>3, <2>6
  <2>9. /\ At(NextId) \in Job /\ JobOK(At(NextId), NextId')
        /\ At(NextId).phase = "history"
        /\ At(NextId).op = job[w].op /\ At(NextId).conn = job[w].conn
        /\ At(NextId).stale = job[w].stale
    <3>1. NextId \in 1..NextId' - 1 /\ NextId' >= NextId
      BY <1>1, <2>2
    <3> QED
      BY <1>2, <2>2, <3>1
  <2> HIDE DEF At
  <2> QED
    BY <1>1, <2>1, <2>2, <2>7, <2>8, <2>9, SaveStepInv DEF RemovalPhase
<1> QED
  BY <1>3, <1>4

\* A step that changes no uid, in a table of rows that are as wide as before.
LEMMA ChildrenInv ==
  ASSUME Inv, NEW w \in Worker, NEW next \in Job, Step(w, next), JobOK(next, NextId),
         next.phase \in RemovalPhase \cup {"list", "record"} => next.op = "sync",
         next.op = job[w].op, next.conn = job[w].conn, next.stale = job[w].stale,
         DOMAIN apps' \subseteq DOMAIN apps,
         apps' = [id \in DOMAIN apps' |-> apps'[id]],
         \A id \in DOMAIN apps' :
           /\ apps'[id] \in App
           /\ apps'[id].uid = apps[id].uid /\ apps'[id].key = apps[id].key,
         UNCHANGED spent
  PROVE  Inv'
<1>1. SpentOK' /\ NextId' = NextId /\ NextId \in Nat
  BY NoneSpent DEF Inv, TypeOK, SpentOK
<1>2. TableOK(apps', NextId')
  BY <1>1 DEF Inv, TypeOK, TableOK
<1> QED
  BY <1>1, <1>2, SaveStepInv

\* A step of an item that writes one kind of children.
LEMMA WriteChildInv ==
  ASSUME Inv, NEW w \in Worker, NEW phase \in ItemPhase, NEW child \in Child, NEW next,
         WriteChild(w, phase, child, next),
         job[w].row \in DOMAIN apps => next \in Job /\ JobOK(next, NextId),
         next.phase \in ItemPhase \cup {"items"},
         next.op = job[w].op, next.conn = job[w].conn, next.stale = job[w].stale
  PROVE  Inv'
<1>1. CASE job[w].row \notin DOMAIN apps
  <2>1. job[w].phase \in ItemPhase /\ Step(w, SkipItem(job[w])) /\ UNCHANGED <<apps, spent>>
    BY <1>1 DEF WriteChild, RowExists
  <2> QED
    BY <2>1, SkipItemInv
<1>2. CASE job[w].row \in DOMAIN apps
  <2> DEFINE row == job[w].row
  <2>1. /\ apps' = [apps EXCEPT ![row].children = @ \cup {child}]
        /\ Step(w, next) /\ UNCHANGED spent
    BY <1>2 DEF WriteChild, RowExists
  <2>2. apps = [id \in DOMAIN apps |-> apps[id]] /\ \A id \in DOMAIN apps : apps[id] \in App
    BY DEF Inv, TypeOK, TableOK
  <2>3. /\ DOMAIN apps' = DOMAIN apps /\ apps' = [id \in DOMAIN apps' |-> apps'[id]]
        /\ \A id \in DOMAIN apps :
             apps'[id] = IF id = row
                         THEN [apps[id] EXCEPT !.children = @ \cup {child}] ELSE apps[id]
    BY <2>1, <2>2
  <2>4. \A id \in DOMAIN apps :
          /\ apps'[id] \in App
          /\ apps'[id].uid = apps[id].uid /\ apps'[id].key = apps[id].key
    BY <2>2, <2>3 DEF App
  <2>5. next.phase \notin RemovalPhase \cup {"list", "record"}
    BY DEF ItemPhase, RemovalPhase
  <2> QED
    BY <1>2, <2>1, <2>3, <2>4, <2>5, ChildrenInv
<1> QED
  BY <1>1, <1>2

\* A step that moves an item on to another await, and may forget what it read.
LEMMA PhaseStepOK ==
  ASSUME Inv, NEW w \in Worker, job[w].phase \in ItemPhase,
         NEW phase \in ItemPhase, NEW had \in BOOLEAN
  PROVE  LET next == [job[w] EXCEPT !.phase = phase, !.had = had]
         IN  /\ next \in Job /\ JobOK(next, NextId) /\ next.phase = phase
             /\ next.op = job[w].op /\ next.conn = job[w].conn
             /\ next.stale = job[w].stale
<1> DEFINE next == [job[w] EXCEPT !.phase = phase, !.had = had]
<1>1. job[w] \in Job /\ JobOK(job[w], NextId)
  BY JobIs
<1>2. next \in Job
  BY <1>1 DEF Job, Phase
<1>3. /\ next.phase = phase /\ next.op = job[w].op /\ next.conn = job[w].conn
      /\ next.stale = job[w].stale /\ next.seen = job[w].seen /\ next.row = job[w].row
      /\ next.fetched = job[w].fetched /\ next.todo = job[w].todo /\ next.item = job[w].item
  BY <1>1 DEF Job
<1> HIDE DEF next
<1>4. phase # "idle"
  BY DEF ItemPhase
<1>5. JobOK(next, NextId)
  BY <1>1, <1>3, <1>4 DEF JobOK, Idle
<1> QED
  BY <1>2, <1>3, <1>5 DEF next

\* Such a step that leaves the table alone.
LEMMA PhaseStepInv ==
  ASSUME Inv, NEW w \in Worker, job[w].phase \in ItemPhase,
         NEW phase \in ItemPhase, NEW had \in BOOLEAN,
         Step(w, [job[w] EXCEPT !.phase = phase, !.had = had]), UNCHANGED <<apps, spent>>
  PROVE  Inv'
<1> DEFINE next == [job[w] EXCEPT !.phase = phase, !.had = had]
<1>1. /\ next \in Job /\ JobOK(next, NextId) /\ next.phase = phase
      /\ next.op = job[w].op /\ next.conn = job[w].conn
      /\ next.stale = job[w].stale
  BY PhaseStepOK
<1>2. Step(w, next)
  OBVIOUS
<1> HIDE DEF next
<1>3. /\ job' \in [Worker -> Job] /\ job'[w] = next
      /\ \A v \in Worker : v # w => job'[v] = job[v]
      /\ UNCHANGED <<argoVars, posted, integration, choiceVars>>
  BY <1>1, <1>2, StepIs
<1>4. phase \notin RemovalPhase \cup {"list", "record"}
  BY DEF ItemPhase, RemovalPhase
<1> QED
  BY <1>1, <1>3, <1>4, JobIs, JobOnlyInv

\* What a step on the history of an item is.
LEMMA HistorySteps ==
  ASSUME NEW w \in Worker, replaceHistory(w)
  PROVE  ReadHistory(w) \/ WriteHistory(w) \/ KeepHistory(w) \/ UpdateHistoryFails(w)
BY DEF replaceHistory, MergeHistory

LEMMA replaceHistoryInv == ASSUME Inv, NEW w \in Worker, replaceHistory(w) PROVE Inv'
<1>1. {"history", "merge", "clear"} \subseteq ItemPhase /\ "deployments" \in Child
  BY DEF ItemPhase, Child
<1>2. CASE ReadHistory(w)
  <2> DEFINE had == RowExists(w) /\ "deployments" \in apps[job[w].row].children
  <2>1. /\ job[w].phase = "history" /\ UNCHANGED <<apps, spent>>
        /\ Step(w, [job[w] EXCEPT !.phase = "merge", !.had = had])
    BY <1>2 DEF ReadHistory
  <2>2. had \in BOOLEAN
    OBVIOUS
  <2> HIDE DEF had
  <2> QED
    BY <1>1, <2>1, <2>2, PhaseStepInv
<1>3. CASE KeepHistory(w)
  BY <1>1, <1>3, PhaseStepInv DEF KeepHistory, HistoryDone
<1>4. CASE WriteHistory(w)
  <2> DEFINE next == HistoryDone(job[w])
  <2>1. WriteChild(w, "merge", "deployments", next) /\ job[w].phase = "merge"
    BY <1>4 DEF WriteHistory, WriteChild
  <2>2. /\ next \in Job /\ JobOK(next, NextId) /\ next.phase = "clear"
        /\ next.op = job[w].op /\ next.conn = job[w].conn /\ next.stale = job[w].stale
    BY <1>1, <2>1, PhaseStepOK DEF HistoryDone
  <2> HIDE DEF next
  <2> QED
    BY <1>1, <2>1, <2>2, WriteChildInv
<1>5. CASE UpdateHistoryFails(w)
  BY <1>1, <1>5, SkipItemInv DEF UpdateHistoryFails
<1> QED
  BY <1>2, <1>3, <1>4, <1>5, HistorySteps

LEMMA replaceObservedEventsInv ==
  ASSUME Inv, NEW w \in Worker, replaceObservedEvents(w) PROVE Inv'
<1>1. {"clear", "signals", "environment"} \subseteq ItemPhase /\ "events" \in Child
  BY DEF ItemPhase, Child
<1>2. job[w] \in Job
  BY JobIs
<1>3. ASSUME NEW phase \in Phase
      PROVE  [job[w] EXCEPT !.phase = phase] = [job[w] EXCEPT !.phase = phase, !.had = job[w].had]
  BY <1>2 DEF Job
<1>4. {"signals", "environment"} \subseteq Phase /\ job[w].had \in BOOLEAN
  BY <1>1, <1>2 DEF Phase, Job
<1>5. CASE ClearEvents(w)
  <2> DEFINE next == [job[w] EXCEPT !.phase = "signals"]
  <2>0. next = [job[w] EXCEPT !.phase = "signals", !.had = job[w].had]
    BY <1>3, <1>4
  <2>1. Step(w, next) /\ UNCHANGED spent /\ job[w].phase = "clear"
    BY <1>5 DEF ClearEvents
  <2>2. /\ next \in Job /\ JobOK(next, NextId) /\ next.phase = "signals"
        /\ next.op = job[w].op /\ next.conn = job[w].conn /\ next.stale = job[w].stale
    <3> DEFINE had == job[w].had
               same == [job[w] EXCEPT !.phase = "signals", !.had = had]
    <3>1. had \in BOOLEAN /\ job[w].phase \in ItemPhase /\ "signals" \in ItemPhase
      BY <1>1, <1>4, <2>1
    <3> HIDE DEF had
    <3>2. /\ same \in Job /\ JobOK(same, NextId) /\ same.phase = "signals"
          /\ same.op = job[w].op /\ same.conn = job[w].conn /\ same.stale = job[w].stale
      BY <3>1, PhaseStepOK
    <3> HIDE DEF same, next
    <3> QED
      BY <2>0, <3>2 DEF had, same
  <2> HIDE DEF next
  <2>3. /\ apps' = [id \in DOMAIN apps |-> IF id = job[w].row
             THEN [apps[id] EXCEPT !.children = @ \ {"events"}] ELSE apps[id]]
        /\ \A id \in DOMAIN apps : apps[id] \in App
    BY <1>5 DEF ClearEvents, Inv, TypeOK, TableOK
  <2>4. /\ DOMAIN apps' = DOMAIN apps /\ apps' = [id \in DOMAIN apps' |-> apps'[id]]
        /\ \A id \in DOMAIN apps' :
             /\ apps'[id] \in App
             /\ apps'[id].uid = apps[id].uid /\ apps'[id].key = apps[id].key
    BY <2>3 DEF App
  <2>5. next.phase \notin RemovalPhase \cup {"list", "record"}
    BY <2>2 DEF RemovalPhase
  <2> QED
    BY <2>1, <2>2, <2>4, <2>5, ChildrenInv
<1>6. CASE CreateEvents(w)
  <2> DEFINE next == [job[w] EXCEPT !.phase = "environment"]
  <2>0. next = [job[w] EXCEPT !.phase = "environment", !.had = job[w].had]
    BY <1>3, <1>4
  <2>1. WriteChild(w, "signals", "events", next) /\ job[w].phase = "signals"
    BY <1>6 DEF CreateEvents, WriteChild
  <2>2. /\ next \in Job /\ JobOK(next, NextId) /\ next.phase = "environment"
        /\ next.op = job[w].op /\ next.conn = job[w].conn /\ next.stale = job[w].stale
    <3> DEFINE had == job[w].had
               same == [job[w] EXCEPT !.phase = "environment", !.had = had]
    <3>1. had \in BOOLEAN /\ job[w].phase \in ItemPhase /\ "environment" \in ItemPhase
      BY <1>1, <1>4, <2>1
    <3> HIDE DEF had
    <3>2. /\ same \in Job /\ JobOK(same, NextId) /\ same.phase = "environment"
          /\ same.op = job[w].op /\ same.conn = job[w].conn /\ same.stale = job[w].stale
      BY <3>1, PhaseStepOK
    <3> HIDE DEF same, next
    <3> QED
      BY <2>0, <3>2 DEF had, same
  <2> HIDE DEF next
  <2> QED
    BY <1>1, <2>1, <2>2, WriteChildInv
<1> QED
  BY <1>5, <1>6 DEF replaceObservedEvents

LEMMA ensureEnvironmentInv == ASSUME Inv, NEW w \in Worker, ensureEnvironment(w) PROVE Inv'
<1> DEFINE next == [job[w] EXCEPT !.phase = "items", !.seen = @ \cup {job[w].row},
                                  !.item = NoItem, !.row = NoId]
<1>1. job[w] \in Job /\ JobOK(job[w], NextId) /\ job[w].phase = "environment"
  BY JobIs DEF ensureEnvironment, WriteChild
<1>2. /\ next.phase = "items" /\ next.op = job[w].op /\ next.conn = job[w].conn
      /\ next.stale = job[w].stale /\ next.seen = job[w].seen \cup {job[w].row}
      /\ next.row = NoId /\ next.fetched = job[w].fetched /\ next.todo = job[w].todo
  BY <1>1 DEF Job
<1>3. WriteChild(w, "environment", "environments", next)
  BY DEF ensureEnvironment
<1>4. job[w].row \in DOMAIN apps => next \in Job
  <2> HAVE job[w].row \in DOMAIN apps
  <2>1. job[w].row \in Nat
    BY NextIdIsNat DEF Inv, TypeOK, TableOK
  <2> QED
    BY <1>1, <2>1 DEF Job, Phase
<1> HIDE DEF next
<1>5. job[w].row \in DOMAIN apps => JobOK(next, NextId)
  <2> HAVE job[w].row \in DOMAIN apps
  <2>1. next # Idle
    BY <1>2 DEF Idle
  <2>2. job[w].row \in 1..NextId - 1
    BY DEF Inv, TypeOK, TableOK
  <2> QED
    BY <1>1, <1>2, <2>1, <2>2 DEF JobOK, ItemPhase, Idle
<1>6. job[w].row \in DOMAIN apps => next \in Job /\ JobOK(next, NextId)
  BY <1>4, <1>5
<1>7. "environment" \in ItemPhase /\ "environments" \in Child
  BY DEF ItemPhase, Child
<1> QED
  BY <1>2, <1>3, <1>6, <1>7, WriteChildInv

LEMMA DeleteChildrenInv ==
  ASSUME Inv, NEW w \in Worker, NEW child \in RemovalPhase, NEW phase \in RemovalPhase,
         DeleteChildren(w, child, phase)
  PROVE  Inv'
<1> DEFINE next == [job[w] EXCEPT !.phase = phase]
<1>1. job[w] \in Job /\ JobOK(job[w], NextId) /\ job[w].phase = child /\ job[w].op = "sync"
  BY JobIs DEF DeleteChildren
<1>2. next \in Job
  BY <1>1 DEF Job, Phase
<1>3. /\ next.phase = phase /\ next.op = job[w].op /\ next.conn = job[w].conn
      /\ next.stale = job[w].stale /\ next.seen = job[w].seen /\ next.row = job[w].row
      /\ next.fetched = job[w].fetched /\ next.todo = job[w].todo
  BY <1>1 DEF Job
<1>4. Step(w, next) /\ UNCHANGED spent
  BY DEF DeleteChildren
<1> HIDE DEF next
<1>5. JobOK(next, NextId)
  BY <1>1, <1>3 DEF JobOK, ItemPhase, RemovalPhase, Idle
<1>6. /\ apps' = [id \in DOMAIN apps |->
           IF id \in job[w].stale THEN [apps[id] EXCEPT !.children = @ \ {child}] ELSE apps[id]]
      /\ \A id \in DOMAIN apps : apps[id] \in App
  BY DEF DeleteChildren, Inv, TypeOK, TableOK
<1>7. /\ DOMAIN apps' = DOMAIN apps /\ apps' = [id \in DOMAIN apps' |-> apps'[id]]
      /\ \A id \in DOMAIN apps' :
           /\ apps'[id] \in App
           /\ apps'[id].uid = apps[id].uid /\ apps'[id].key = apps[id].key
  BY <1>6 DEF App
<1> QED
  BY <1>1, <1>2, <1>3, <1>4, <1>5, <1>7, ChildrenInv

LEMMA DeleteApplicationsInv ==
  ASSUME Inv, NEW w \in Worker, DeleteApplications(w)
  PROVE  Inv'
<1> DEFINE next == [job[w] EXCEPT !.phase = "record"]
           empty == \A id \in job[w].stale \cap DOMAIN apps : apps[id].children \subseteq {"events"}
<1>1. CASE ~empty
  BY <1>1, GoIdleInv DEF DeleteApplications
<1>2. CASE empty
  <2>1. job[w] \in Job /\ JobOK(job[w], NextId) /\ job[w].phase = "applications"
        /\ job[w].op = "sync"
    BY JobIs DEF DeleteApplications, RemovalPhase
  <2>2. next \in Job
    BY <2>1 DEF Job, Phase
  <2>3. /\ next.phase = "record" /\ next.op = job[w].op /\ next.conn = job[w].conn
        /\ next.stale = job[w].stale /\ next.seen = job[w].seen /\ next.row = job[w].row
        /\ next.fetched = job[w].fetched /\ next.todo = job[w].todo
    BY <2>1 DEF Job
  <2>4. /\ Step(w, next) /\ UNCHANGED spent
        /\ apps' = [id \in DOMAIN apps \ job[w].stale |-> apps[id]]
    BY <1>2 DEF DeleteApplications
  <2> HIDE DEF next
  <2>5. JobOK(next, NextId)
    BY <2>1, <2>3 DEF JobOK, ItemPhase, Idle
  <2>6. /\ DOMAIN apps' \subseteq DOMAIN apps /\ apps' = [id \in DOMAIN apps' |-> apps'[id]]
        /\ \A id \in DOMAIN apps' : apps'[id] = apps[id] /\ apps'[id] \in App
    BY <2>4 DEF Inv, TypeOK, TableOK
  <2> QED
    BY <2>1, <2>2, <2>3, <2>4, <2>5, <2>6, ChildrenInv
<1> QED
  BY <1>1, <1>2

-----------------------------------------------------------------------------
(* The steps that write the connection, or that start a job. *)

\* The url is the chosen one already, unless a sync ran when it was chosen.
LEMMA RecordInv == ASSUME Inv, NEW w \in Worker, Record(w) PROVE Inv'
<1>1. /\ job[w].op = "sync" /\ job[w].conn.url \in Source /\ integration \in Integration
      /\ integration' = [integration EXCEPT !.url = job[w].conn.url]
      /\ job' = [job EXCEPT ![w] = Idle] /\ job \in [Worker -> Job]
      /\ UNCHANGED <<argo, known, posted, apps, chosen, crossed, spent>>
  BY JobIs DEF Record, Inv, TypeOK, RemovalPhase, argoVars, choiceVars
<1>2. integration' \in Integration /\ integration'.token = integration.token
      /\ integration'.url = job[w].conn.url
  BY <1>1 DEF Integration
<1>3. job' \in [Worker -> Job] /\ job'[w] = Idle /\ \A v \in Worker : v # w => job'[v] = job[v]
  BY <1>1, IdleIsJob
<1>4. NextId' = NextId
  BY <1>1 DEF NextId
<1>5. TypeOK'
  <2>1. \A v \in Worker : JobOK(job'[v], NextId')
    <3> TAKE v \in Worker
    <3> QED
      BY <1>3, <1>4, IdleIsJob, JobIs
  <2> QED
    BY <1>1, <1>2, <1>3, <1>4, <2>1 DEF Inv, TypeOK
<1>6. Idle.op = "none" /\ Idle.phase = "idle" /\ Idle.stale = {}
  BY DEF Idle
<1>7. PhaseOK'
  BY <1>3, <1>6 DEF Inv, PhaseOK, RemovalPhase
<1>8. StaleOK'
  BY <1>1, <1>3, <1>6 DEF Inv, StaleOK
<1>9. ConnInv'
  <2>1. Target' = Target /\ TokenAsChosen'
    BY <1>1, <1>2 DEF Target, Inv, ConnInv, TokenAsChosen
  <2>2. ASSUME ~crossed', NEW v \in Worker, job'[v].op = "sync"
        PROVE  job'[v].conn.url = Target'
    BY <1>1, <1>3, <1>6, <2>1, <2>2 DEF Inv, ConnInv
  <2>3. ConnectionAsChosen'
    BY <1>1, <1>2 DEF Inv, ConnInv, ConnectionAsChosen, Target
  <2> QED
    BY <2>1, <2>2, <2>3 DEF ConnInv
<1> QED
  BY <1>5, <1>7, <1>8, <1>9 DEF Inv

LEMMA FinishImportInv == ASSUME Inv, NEW w \in Worker, FinishImport(w) PROVE Inv'
  BY GoIdleInv DEF FinishImport

LEMMA AbandonInv == ASSUME Inv, NEW w \in Worker, Abandon(w) PROVE Inv'
<1>1. "failures" \in DOMAIN Bound
  BY DEF Bound
<1> QED
  BY <1>1, GoIdleInv DEF Abandon

LEMMA ItemFailsInv == ASSUME Inv, NEW w \in Worker, ItemFails(w) PROVE Inv'
<1>1. "failures" \in DOMAIN Bound
  BY DEF Bound
<1> QED
  BY <1>1, SkipItemInv DEF ItemFails

LEMMA UpdateFailsInv == ASSUME Inv, NEW w \in Worker, UpdateFails(w) PROVE Inv'
  BY SkipItemInv DEF UpdateFails, ItemPhase

\* A job that starts: those that run are no longer alone.
LEMMA StartInv ==
  ASSUME Inv, NEW w \in Worker, NEW next \in Job, Start(w, next), JobOK(next, NextId),
         next.phase \in {"list", "items"}, next.phase = "list" => next.op = "sync",
         next.op = "sync" => next.conn.url = connectionForOrganization.url
                             /\ connectionForOrganization # NoIntegration,
         next.stale = {}, posted' \subseteq posted, UNCHANGED spent
  PROVE  Inv'
<1> DEFINE alone == \A other \in Worker : ~Running(other)
<1>1. /\ job \in [Worker -> Job] /\ job[w].op = "none"
      /\ job' = [v \in Worker |->
           IF v = w THEN [next EXCEPT !.alone = alone]
           ELSE IF Running(v) THEN [job[v] EXCEPT !.alone = FALSE]
           ELSE job[v]]
      /\ UNCHANGED <<argo, known, apps, integration, chosen, crossed>>
  BY DEF Start, Running, Inv, TypeOK, argoVars, choiceVars
<1>2. SpentOK' /\ NextId' = NextId /\ NextId \in Nat
  BY NoneSpent DEF Inv, TypeOK, SpentOK
<1>3. ASSUME NEW j \in Job, NEW b \in BOOLEAN, JobOK(j, NextId), j.phase # "idle"
      PROVE  /\ [j EXCEPT !.alone = b] \in Job /\ JobOK([j EXCEPT !.alone = b], NextId')
             /\ [j EXCEPT !.alone = b].phase = j.phase /\ [j EXCEPT !.alone = b].op = j.op
             /\ [j EXCEPT !.alone = b].conn = j.conn /\ [j EXCEPT !.alone = b].stale = j.stale
  <2> DEFINE k == [j EXCEPT !.alone = b]
  <2>1. k \in Job
    BY DEF Job
  <2>2. /\ k.phase = j.phase /\ k.op = j.op /\ k.conn = j.conn /\ k.stale = j.stale
        /\ k.todo = j.todo /\ k.fetched = j.fetched /\ k.item = j.item /\ k.row = j.row
        /\ k.seen = j.seen
    BY DEF Job
  <2> HIDE DEF k
  <2>3. k # Idle
    BY <1>3, <2>2 DEF Idle
  <2>4. JobOK(k, NextId)
    BY <1>3, <2>2, <2>3 DEF JobOK
  <2>5. JobOK(k, NextId')
    BY <1>2, <2>4
  <2> QED
    BY <2>1, <2>2, <2>5 DEF k
<1>4. alone \in BOOLEAN
  BY DEF Running
<1>5. \A v \in Worker :
        /\ job'[v] \in Job /\ JobOK(job'[v], NextId')
        /\ v = w => /\ job'[v].phase = next.phase /\ job'[v].op = next.op
                    /\ job'[v].conn = next.conn /\ job'[v].stale = next.stale
        /\ v # w => /\ job'[v].phase = job[v].phase /\ job'[v].op = job[v].op
                    /\ job'[v].conn = job[v].conn /\ job'[v].stale = job[v].stale
  <2> TAKE v \in Worker
  <2> HIDE DEF alone
  <2>1. CASE v = w
    <3>1. job'[v] = [next EXCEPT !.alone = alone]
      BY <1>1, <2>1
    <3> QED
      BY <1>3, <1>4, <2>1, <3>1
  <2>2. CASE v # w /\ Running(v)
    <3>1. job'[v] = [job[v] EXCEPT !.alone = FALSE]
      BY <1>1, <2>2
    <3>2. job[v] \in Job /\ JobOK(job[v], NextId) /\ job[v].phase # "idle"
      BY <2>2, JobIs DEF Running, JobOK, Idle
    <3> QED
      BY <1>3, <2>2, <3>1, <3>2
  <2>3. CASE v # w /\ ~Running(v)
    <3>1. job'[v] = job[v] /\ job[v] \in Job /\ JobOK(job[v], NextId)
      BY <1>1, <2>3, JobIs
    <3>2. JobOK(job[v], NextId')
      BY <1>2, <3>1
    <3> QED
      BY <2>3, <3>1, <3>2
  <2> QED
    BY <2>1, <2>2, <2>3
<1>6. TypeOK'
  <2>1. job' \in [Worker -> Job]
    BY <1>1, <1>5
  <2>2. TableOK(apps', NextId')
    BY <1>1, <1>2 DEF Inv, TypeOK
  <2> QED
    BY <1>1, <1>2, <1>5, <2>1, <2>2 DEF Inv, TypeOK, SpentOK
<1>7. connectionForOrganization # NoIntegration =>
        /\ connectionForOrganization.url \in Source
        /\ ~crossed => connectionForOrganization.url = Target
  BY SourceAssumption DEF connectionForOrganization, NoIntegration, Inv, TypeOK, Integration,
     ConnInv, TokenAsChosen, ConnectionAsChosen, Target
<1>8. PhaseOK'
  BY <1>5, <1>7 DEF Inv, PhaseOK, RemovalPhase
<1>9. StaleOK'
  BY <1>1, <1>5 DEF Inv, StaleOK
<1>10. ConnInv'
  BY <1>1, <1>5, <1>7 DEF Inv, ConnInv, TokenAsChosen, ConnectionAsChosen, Target
<1> QED
  BY <1>6, <1>8, <1>9, <1>10 DEF Inv

LEMMA StartSyncInv == ASSUME Inv, NEW w \in Worker, StartSync(w) PROVE Inv'
<1> DEFINE conn == connectionForOrganization
           next == [Idle EXCEPT !.op = "sync", !.phase = "list", !.conn = conn]
<1>1. Start(w, next) /\ UNCHANGED <<posted, spent>> /\ conn # NoIntegration
  BY DEF StartSync
<1>2. conn \in Integration
  BY SourceAssumption DEF connectionForOrganization, Inv, TypeOK, Integration
<1> HIDE DEF conn
<1>3. next \in Job /\ next.phase = "list" /\ next.op = "sync" /\ next.conn = conn
      /\ next.stale = {} /\ JobOK(next, NextId)
  BY <1>2 DEF Idle, Job, JobOK, NoItem, Phase, ItemPhase
<1> HIDE DEF next
<1> QED
  BY <1>1, <1>3, StartInv DEF conn

LEMMA ImportInv ==
  ASSUME Inv, NEW w \in Worker, NEW items \in posted, importDiscovered(w, items)
  PROVE  Inv'
<1> DEFINE next == [Idle EXCEPT !.op = "import", !.phase = "items",
                                !.fetched = items, !.todo = items]
<1>1. Start(w, next) /\ UNCHANGED spent /\ posted' \subseteq posted
  BY DEF importDiscovered
<1>2. items \subseteq Item
  BY DEF Inv, TypeOK
<1>3. next \in Job /\ next.phase = "items" /\ next.op = "import" /\ next.stale = {}
      /\ JobOK(next, NextId)
  BY <1>2 DEF Idle, Job, JobOK, NoItem, Phase, ItemPhase, NoIntegration, Integration
<1> HIDE DEF next
<1> QED
  BY <1>1, <1>3, StartInv

-----------------------------------------------------------------------------
(* Argo CD and the choice of the connection. *)

\* What Argo CD lists changes, and no job.
LEMMA ListsInv ==
  ASSUME Inv, NEW s \in Source, NEW items \in SUBSET Item, Lists(s, items),
         known' \subseteq Uid
  PROVE  Inv'
<1>1. "argo" \in DOMAIN Bound /\ SpentOK
  BY DEF Bound, Inv, TypeOK, SpentOK
<1>2. SpentOK' /\ NextId' = NextId
  BY <1>1, SpendKeeps DEF Lists
<1>3. argo' \in [Source -> SUBSET Item] /\ UNCHANGED <<posted, apps, integration, job, chosen, crossed>>
  BY DEF Lists, choiceVars, Inv, TypeOK
<1>4. TypeOK'
  BY <1>2, <1>3 DEF Inv, TypeOK, SpentOK
<1>5. PhaseOK' /\ StaleOK' /\ ConnInv'
  BY <1>3 DEF Inv, PhaseOK, StaleOK, ConnInv, TokenAsChosen, ConnectionAsChosen, Target
<1> QED
  BY <1>4, <1>5 DEF Inv

LEMMA ArgoInv == ASSUME Inv, NEW s \in Source, Argo(s) PROVE Inv'
<1>1. argo[s] \in SUBSET Item /\ known \subseteq Uid
  BY DEF Inv, TypeOK
<1>2. ASSUME NEW u \in Uid, NEW k \in Key, ArgoCreates(s, u, k) PROVE Inv'
  <2>1. [uid |-> u, key |-> k] \in Item
    BY DEF Item
  <2> QED
    BY <1>1, <1>2, <2>1, ListsInv DEF ArgoCreates
<1>3. ASSUME NEW i \in argo[s], ArgoDeletes(s, i) PROVE Inv'
  BY <1>1, <1>3, ListsInv DEF ArgoDeletes
<1>4. ASSUME NEW i \in argo[s], NEW k \in Key, ArgoMoves(s, i, k) PROVE Inv'
  <2>1. [i EXCEPT !.key = k] \in Item
    BY <1>1 DEF Item
  <2> QED
    BY <1>1, <1>4, <2>1, ListsInv DEF ArgoMoves
<1> QED
  BY <1>2, <1>3, <1>4 DEF Argo

LEMMA AgentReadsInv == ASSUME Inv, NEW s \in Cluster, AgentReads(s) PROVE Inv'
<1>1. "imports" \in DOMAIN Bound /\ SpentOK
  BY DEF Bound, Inv, TypeOK, SpentOK
<1>2. SpentOK' /\ NextId' = NextId
  BY <1>1, SpendKeeps DEF AgentReads
<1>3. /\ posted' = posted \cup {argo[s]}
      /\ UNCHANGED <<argo, known, apps, integration, job, chosen, crossed>>
  BY DEF AgentReads, argoVars, choiceVars
<1>4. posted' \subseteq SUBSET Item
  BY <1>3, SourceAssumption DEF Inv, TypeOK
<1>5. TypeOK'
  BY <1>2, <1>3, <1>4 DEF Inv, TypeOK, SpentOK
<1>6. PhaseOK' /\ StaleOK' /\ ConnInv'
  BY <1>3 DEF Inv, PhaseOK, StaleOK, ConnInv, TokenAsChosen, ConnectionAsChosen, Target
<1> QED
  BY <1>5, <1>6 DEF Inv

\* A connection that no sync was running at the choice of is used by every sync.
LEMMA ChooseInv ==
  ASSUME Inv, NEW s \in Source \cup {NoSource}, Choose(s, [url |-> s, token |-> s])
  PROVE  Inv'
<1>1. "choices" \in DOMAIN Bound /\ SpentOK
  BY DEF Bound, Inv, TypeOK, SpentOK
<1>2. SpentOK' /\ NextId' = NextId
  BY <1>1, SpendKeeps DEF Choose
<1>3. /\ integration' = [url |-> s, token |-> s] /\ chosen' = s /\ crossed' = Syncing
      /\ UNCHANGED <<argo, known, posted, apps, job>>
  BY DEF Choose, argoVars
<1>4. integration' \in Integration /\ crossed' \in BOOLEAN
  BY <1>3 DEF Integration, Syncing
<1>5. TypeOK'
  BY <1>2, <1>3, <1>4 DEF Inv, TypeOK, SpentOK
<1>6. PhaseOK' /\ StaleOK'
  BY <1>3 DEF Inv, PhaseOK, StaleOK
<1>7. ConnInv'
  <2>1. TokenAsChosen' /\ ConnectionAsChosen'
    BY <1>3 DEF TokenAsChosen, ConnectionAsChosen
  <2>2. ~crossed' => \A w \in Worker : job'[w].op # "sync"
    BY <1>3 DEF Syncing
  <2> QED
    BY <2>1, <2>2 DEF ConnInv
<1> QED
  BY <1>5, <1>6, <1>7 DEF Inv

-----------------------------------------------------------------------------
LEMMA ProgressInv == ASSUME Inv, NEW w \in Worker, Progress(w) PROVE Inv'
<1>1. CASE List(w)
  BY <1>1, ListInv
<1>2. CASE Save(w)
  BY <1>2, FindByUidInv, UpdateByIdInv, UpdateFailsInv, UpsertByKeyInv, replaceHistoryInv,
     replaceObservedEventsInv, ensureEnvironmentInv DEF Save
<1>3. CASE Remove(w)
  <2>1. {"deployments", "environments", "events", "applications"} \subseteq RemovalPhase
    BY DEF RemovalPhase
  <2>2. CASE DeleteDeployments(w) \/ DeleteEnvironments(w) \/ DeleteEvents(w)
    BY <2>1, <2>2, DeleteChildrenInv DEF DeleteDeployments, DeleteEnvironments, DeleteEvents
  <2> QED
    BY <1>3, <2>2, FindStaleInv, DeleteApplicationsInv DEF Remove
<1>4. CASE Record(w) \/ FinishImport(w)
  BY <1>4, RecordInv, FinishImportInv
<1> QED
  BY <1>1, <1>2, <1>3, <1>4 DEF Progress

LEMMA NextInv == Inv /\ [Next]_vars => Inv'
<1> SUFFICES ASSUME Inv, [Next]_vars PROVE Inv'
  OBVIOUS
<1>1. ASSUME NEW s \in Source, Argo(s) PROVE Inv'
  BY <1>1, ArgoInv
<1>2. ASSUME NEW s \in Source, connect(s) PROVE Inv'
  BY <1>2, ChooseInv DEF connect
<1>3. CASE disconnect
  BY <1>3, ChooseInv DEF disconnect, NoIntegration
<1>4. ASSUME NEW w \in Worker,
             StartSync(w) \/ Progress(w) \/ ItemFails(w) \/ Abandon(w)
             \/ \E items \in posted : importDiscovered(w, items)
      PROVE  Inv'
  BY <1>4, StartSyncInv, ProgressInv, ItemFailsInv, AbandonInv, ImportInv
<1>5. CASE UNCHANGED vars
  <2>1. NextId' = NextId
    BY <1>5 DEF vars, NextId
  <2>2. TypeOK'
    BY <1>5, <2>1 DEF vars, Inv, TypeOK
  <2> QED
    BY <1>5, <2>2 DEF vars, Inv, PhaseOK, StaleOK, ConnInv, TokenAsChosen, ConnectionAsChosen,
       Target
<1>6. ASSUME NEW s \in Cluster, AgentReads(s) PROVE Inv'
  BY <1>6, AgentReadsInv
<1> QED
  BY <1>1, <1>2, <1>3, <1>4, <1>5, <1>6 DEF Next

\* In every reachable state of any number of overlapping jobs, Inv holds.
THEOREM InvHolds == Spec => []Inv
  BY InitInv, NextInv, PTL DEF Spec

\* Every variable keeps its type, no two applications have a key in common, and every id a
\* job holds was given out before.
THEOREM TypesHold == Spec => []TypeOK
<1>1. Inv => TypeOK
  BY DEF Inv
<1> QED
  BY <1>1, InvHolds, PTL

\* The stored token is always the one last connected, whatever syncs run meanwhile
\* (connect, disconnect and the end of syncOrganization).
THEOREM TokensAsChosen == Spec => []TokenAsChosen
<1>1. Inv => TokenAsChosen
  BY DEF Inv, ConnInv
<1> QED
  BY <1>1, InvHolds, PTL

\* Unless a sync was running when the connection was chosen, the stored url is the chosen
\* one, for any number of overlapping syncs that start afterwards.
THEOREM ConnectionsAsChosen == Spec => []ConnectionAsChosen
<1>1. Inv => ConnectionAsChosen
  BY DEF Inv, ConnInv
<1> QED
  BY <1>1, InvHolds, PTL

\* A choice that no running sync crossed is what is saved, whatever syncs follow it and
\* whatever other jobs do, also while they run; but where nothing is connected, a sync
\* over the environment's connection records its url.  The counterexample to SavedAsChosen
\* is of the other kind (syncOrganization 312-332).
THEOREM UncrossedSaved ==
  Spec => [](~crossed /\ (chosen # NoSource \/ Env = NoSource) => SavedAsChosen)
<1>1. Inv /\ ~crossed /\ (chosen # NoSource \/ Env = NoSource) => SavedAsChosen
  <2> SUFFICES ASSUME Inv, ~crossed, chosen # NoSource \/ Env = NoSource
               PROVE  integration = [url |-> chosen, token |-> chosen]
    BY DEF SavedAsChosen
  <2>1. integration \in Integration
    BY DEF Inv, TypeOK
  <2>2. integration.url = chosen /\ integration.token = chosen
    BY DEF Inv, ConnInv, TokenAsChosen, ConnectionAsChosen
  <2> QED
    BY <2>1, <2>2 DEF Integration
<1> QED
  BY <1>1, InvHolds, PTL

-----------------------------------------------------------------------------
(* Rows without a uid. *)

\* What LegacyRowsStay says of a step.
LegacyStep ==
  \A id \in DOMAIN apps :
    /\ apps[id].uid = NoUid => id \in DOMAIN apps'
    /\ id \in DOMAIN apps' /\ apps[id].uid # NoUid => apps'[id].uid # NoUid

\* A row that is saved gets the uid of an item.
LEMMA NamedStep ==
  ASSUME Inv, NEW id \in DOMAIN apps, NEW i \in Item, apps' = Named(apps, id, i)
  PROVE  LegacyStep
<1>1. /\ DOMAIN apps' = DOMAIN apps
      /\ \A other \in DOMAIN apps : other # id => apps'[other] = apps[other]
  BY DEF Named
<1>2. apps'[id].uid # NoUid
  <2>1. apps[id] \in App
    BY DEF Inv, TypeOK, TableOK
  <2> QED
    BY <2>1, UidAssumption DEF Named, App, Item
<1> QED
  BY <1>1, <1>2 DEF LegacyStep

LEMMA SaveStep == ASSUME Inv, NEW w \in Worker, Save(w) PROVE LegacyStep
<1>1. job[w].phase \in ItemPhase => job[w].item \in Item
  BY JobIs DEF JobOK, Job
<1>2. CASE UpdateById(w)
  BY <1>1, <1>2, NamedStep DEF UpdateById, Updatable, SaveItem, ItemPhase
<1>3. CASE UpsertByKey(w)
  <2>1. CASE KeyHolder(job[w].item.key) # {}
    <3>1. PICK id \in KeyHolder(job[w].item.key) : apps' = Named(apps, id, job[w].item)
      BY <1>3, <2>1 DEF UpsertByKey, SaveItem
    <3>2. id \in DOMAIN apps /\ job[w].item \in Item
      BY <1>1, <1>3 DEF KeyHolder, UpsertByKey, ItemPhase
    <3> QED
      BY <3>1, <3>2, NamedStep
  <2>2. CASE KeyHolder(job[w].item.key) = {}
    <3>1. NextId \notin DOMAIN apps
      BY NextIdIsNat DEF Inv, TypeOK, TableOK
    <3>2. DOMAIN apps \subseteq DOMAIN apps' /\ \A id \in DOMAIN apps : apps'[id] = apps[id]
      BY <1>3, <2>2, <3>1 DEF UpsertByKey, SaveItem
    <3> QED
      BY <3>2 DEF LegacyStep
  <2> QED
    BY <2>1, <2>2
<1>4. CASE WriteHistory(w) \/ CreateEvents(w) \/ ensureEnvironment(w)
  <2>1. \/ UNCHANGED apps
        \/ \E row \in DOMAIN apps, child \in Child :
             apps' = [apps EXCEPT ![row].children = @ \cup {child}]
    BY <1>4 DEF WriteHistory, CreateEvents, ensureEnvironment, WriteChild, RowExists, Child
  <2>2. DOMAIN apps' = DOMAIN apps /\ \A id \in DOMAIN apps : apps'[id].uid = apps[id].uid
    <3>1. \A id \in DOMAIN apps : apps[id] \in App
      BY DEF Inv, TypeOK, TableOK
    <3> QED
      BY <2>1, <3>1 DEF App
  <2> QED
    BY <2>2 DEF LegacyStep
<1>5. CASE ClearEvents(w)
  <2>1. \A id \in DOMAIN apps : apps[id] \in App
    BY DEF Inv, TypeOK, TableOK
  <2>2. DOMAIN apps' = DOMAIN apps /\ \A id \in DOMAIN apps : apps'[id].uid = apps[id].uid
    BY <1>5, <2>1 DEF ClearEvents, App
  <2> QED
    BY <2>2 DEF LegacyStep
<1>6. CASE UNCHANGED apps
  BY <1>6 DEF LegacyStep
<1> QED
  BY <1>2, <1>3, <1>4, <1>5, <1>6, HistorySteps DEF Save, FindByUid, UpdateFails, ReadHistory,
     KeepHistory, UpdateHistoryFails, replaceObservedEvents

LEMMA RemoveStep == ASSUME Inv, NEW w \in Worker, Remove(w) PROVE LegacyStep
<1>1. CASE \E child, next \in RemovalPhase : DeleteChildren(w, child, next)
  <2>1. PICK child \in RemovalPhase : apps' = [id \in DOMAIN apps |->
          IF id \in job[w].stale THEN [apps[id] EXCEPT !.children = @ \ {child}] ELSE apps[id]]
    BY <1>1 DEF DeleteChildren
  <2>2. \A id \in DOMAIN apps : apps[id] \in App
    BY DEF Inv, TypeOK, TableOK
  <2>3. DOMAIN apps' = DOMAIN apps /\ \A id \in DOMAIN apps : apps'[id].uid = apps[id].uid
    BY <2>1, <2>2 DEF App
  <2> QED
    BY <2>3 DEF LegacyStep
<1>2. CASE DeleteApplications(w)
  BY <1>2, JobIs DEF DeleteApplications, LegacyStep
<1>3. CASE FindStale(w)
  BY <1>3 DEF FindStale, LegacyStep
<1> QED
  BY <1>1, <1>2, <1>3 DEF Remove, DeleteDeployments, DeleteEnvironments, DeleteEvents,
     RemovalPhase

LEMMA NextStep == Inv /\ [Next]_vars => LegacyStep
<1> SUFFICES ASSUME Inv, [Next]_vars PROVE LegacyStep
  OBVIOUS
<1>1. CASE UNCHANGED apps
  BY <1>1 DEF LegacyStep
<1>2. CASE \E w \in Worker : Save(w) \/ Remove(w)
  BY <1>2, SaveStep, RemoveStep
<1>3. [Next]_vars => UNCHANGED apps \/ \E w \in Worker : Save(w) \/ Remove(w)
  BY DEF Next, vars, Argo, ArgoCreates, ArgoDeletes, ArgoMoves, Lists, connect, disconnect,
     Choose, AgentReads, StartSync, importDiscovered, Start, Progress, List, Record, FinishImport,
     ItemFails, Abandon
<1> QED
  BY <1>1, <1>2, <1>3

\* No step of any job removes a row without a uid or takes a row's uid away: a removal's
\* list was made of rows with one, and they keep it until the removal.
THEOREM LegacyRowsHold == Spec => LegacyRowsStay
<1>1. Inv /\ [Next]_vars => LegacyStep
  BY NextStep
<1> QED
  BY <1>1, InvHolds, PTL DEF Spec, LegacyRowsStay, LegacyStep

-----------------------------------------------------------------------------
(* A sync that runs alone ends with Argo CD's applications.  MirrorInv says what the loop *)
(* has done so far: every item that it is through with failed, or is a row it has seen.   *)

\* In what one server lists, a uid or a key is one application's.
Distinct(items) == \A i, k \in items : i.uid = k.uid \/ i.key = k.key => i = k

ArgoOK == \A s \in Source : Distinct(argo[s]) /\ \A i \in argo[s] : i.uid \in known

AloneOK ==
  \A w \in Worker :
    /\ job[w].op = "none" => job[w] = Idle
    /\ Running(w) /\ job[w].alone => \A v \in Worker : v # w => ~Running(v)

\* The items that job j is not through with, and what row id of table t holds.
Ahead(j) == j.todo \cup IF j.phase \in ItemPhase THEN {j.item} ELSE {}
ItemAt(t, id) == [uid |-> t[id].uid, key |-> t[id].key]

SeenOK(j, t) ==
  \A id \in j.seen :
    /\ id \in DOMAIN t
    /\ ItemAt(t, id) \in j.fetched \ Ahead(j)
    /\ t[id].uid \notin j.failed
    /\ Child \subseteq t[id].children

DoneOK(j, t) ==
  \A i \in j.fetched \ Ahead(j) : i.uid \in j.failed \/ \E id \in j.seen : ItemAt(t, id) = i

AheadOK(j) ==
  /\ \A i \in Ahead(j) : i.uid \notin j.failed
  /\ j.phase \in ItemPhase => j.item \notin j.todo

\* The row of the item at hand, and the children it has got.
RowOK(j, t) ==
  /\ j.phase = "write" /\ j.row # NoId => j.row \in DOMAIN t /\ t[j.row].uid = j.item.uid
  /\ j.phase \in ItemPhase \ {"write"} => j.row \in DOMAIN t /\ ItemAt(t, j.row) = j.item
  /\ (j.phase = "merge" /\ j.had) \/ j.phase \in {"clear", "signals", "environment"} =>
       "deployments" \in t[j.row].children
  /\ j.phase = "environment" => "events" \in t[j.row].children

\* Before the loop, and after it: the rows with a uid are those seen and those to remove.
StageOK(j, t) ==
  /\ j.phase = "list" => j.fetched = {} /\ j.seen = {} /\ j.failed = {}
  /\ j.phase \in RemovalPhase \cup {"record"} => j.todo = {}
  /\ j.phase \in RemovalPhase => \A id \in DOMAIN t :
       id \in j.stale <=> t[id].uid # NoUid /\ id \notin j.seen
  /\ j.phase = "record" => \A id \in DOMAIN t : t[id].uid # NoUid => id \in j.seen

LoopOK(j, t) ==
  /\ Distinct(j.fetched)
  /\ SeenOK(j, t) /\ DoneOK(j, t) /\ AheadOK(j)
  /\ RowOK(j, t) /\ StageOK(j, t)

Lone(j) == j.op = "sync" /\ j.alone

MirrorInv ==
  /\ ArgoOK
  /\ AloneOK
  /\ \A w \in Worker : Lone(job[w]) => LoopOK(job[w], apps)

-----------------------------------------------------------------------------
(* What is kept when a job goes on. *)

\* Only a job that runs alone has a loop to speak of, and no other job runs beside it.
LEMMA LoneChange ==
  ASSUME Inv, MirrorInv, NEW w \in Worker, Running(w), NEW n,
         job' = [job EXCEPT ![w] = n], UNCHANGED argoVars,
         n.op = "none" => n = Idle, n.op # "none" => n.alone = job[w].alone,
         Lone(n) => LoopOK(n, apps')
  PROVE  MirrorInv'
<1>1. job'[w] = n /\ \A v \in Worker : v # w => job'[v] = job[v]
  BY DEF Inv, TypeOK
<1>2. ArgoOK'
  BY DEF argoVars, ArgoOK, MirrorInv
<1>3. AloneOK'
  <2>1. ASSUME NEW v \in Worker, Running(v)', job'[v].alone, NEW u \in Worker, u # v
        PROVE  ~Running(u)'
    <3>1. CASE v = w
      BY <1>1, <2>1, <3>1 DEF Running, MirrorInv, AloneOK
    <3>2. CASE v # w
      BY <1>1, <2>1, <3>2 DEF Running, MirrorInv, AloneOK
    <3> QED
      BY <3>1, <3>2
  <2>2. \A v \in Worker : job'[v].op = "none" => job'[v] = Idle
    BY <1>1 DEF MirrorInv, AloneOK
  <2> QED
    BY <2>1, <2>2 DEF AloneOK
<1>4. ASSUME NEW v \in Worker, Lone(job'[v])
      PROVE  LoopOK(job'[v], apps')
  <2>1. CASE v = w
    BY <1>1, <1>4, <2>1
  <2>2. CASE v # w
    BY <1>1, <1>4, <2>2 DEF Lone, Running, MirrorInv, AloneOK
  <2> QED
    BY <2>1, <2>2
<1>5. \A v \in Worker : LoopOK(job'[v], apps') <=> LoopOK(job[v], apps)'
  BY DEF LoopOK, SeenOK, DoneOK, RowOK, StageOK
<1> QED
  BY <1>2, <1>3, <1>4, <1>5 DEF MirrorInv, Lone

LEMMA LoneStep ==
  ASSUME Inv, MirrorInv, NEW w \in Worker, Running(w), NEW n \in Job, Step(w, n),
         n.op = job[w].op, n.alone = job[w].alone,
         Lone(n) => LoopOK(n, apps')
  PROVE  MirrorInv'
<1>1. job' = [job EXCEPT ![w] = n] /\ UNCHANGED argoVars
  BY DEF Step
<1> QED
  BY <1>1, LoneChange DEF Running

\* A job that ends leaves nothing to say.
LEMMA LoneEnds ==
  ASSUME Inv, MirrorInv, NEW w \in Worker, Running(w),
         job' = [job EXCEPT ![w] = Idle], UNCHANGED argoVars
  PROVE  MirrorInv'
<1>1. Idle.op = "none"
  BY DEF Idle
<1> QED
  BY <1>1, LoneChange DEF Lone

LEMMA LoneFacts ==
  ASSUME Inv, MirrorInv, NEW w \in Worker, Lone(job[w])
  PROVE  /\ job[w] \in Job /\ JobOK(job[w], NextId) /\ LoopOK(job[w], apps)
         /\ Running(w) /\ TableOK(apps, NextId)
         /\ job[w].phase \in ItemPhase =>
              job[w].item \in Item /\ job[w].item \in job[w].fetched /\ job[w].item \in Ahead(job[w])
         /\ \A i \in job[w].fetched : i \in Item
<1>1. job[w] \in Job /\ JobOK(job[w], NextId)
  BY JobIs
<1> QED
  BY <1>1 DEF MirrorInv, Lone, Running, Inv, TypeOK, JobOK, Job, Ahead

\* What was seen stays so, as long as its rows do.
LEMMA SeenKept ==
  ASSUME NEW j, NEW n, NEW t, NEW u, SeenOK(j, t), DoneOK(j, t),
         n.seen = j.seen, n.fetched = j.fetched, n.failed = j.failed, Ahead(n) = Ahead(j),
         \A id \in j.seen : id \in DOMAIN t => id \in DOMAIN u /\ u[id] = t[id]
  PROVE  SeenOK(n, u) /\ DoneOK(n, u)
<1>1. \A id \in j.seen : id \in DOMAIN t /\ id \in DOMAIN u /\ u[id] = t[id]
  BY DEF SeenOK
<1>2. \A id \in j.seen : ItemAt(u, id) = ItemAt(t, id)
  BY <1>1 DEF ItemAt
<1>3. SeenOK(n, u)
  BY <1>1, <1>2 DEF SeenOK
<1>4. DoneOK(n, u)
  BY <1>2 DEF DoneOK
<1> QED
  BY <1>3, <1>4

LEMMA AheadKept ==
  ASSUME NEW j, NEW n, AheadOK(j), Ahead(n) = Ahead(j), n.failed = j.failed,
         n.phase \in ItemPhase => j.phase \in ItemPhase, n.item = j.item, n.todo = j.todo
  PROVE  AheadOK(n)
BY DEF AheadOK

\* The item at hand has no row among those seen, by its uid or its key.
LEMMA HandUnseen ==
  ASSUME Inv, MirrorInv, NEW w \in Worker, Lone(job[w]), job[w].phase \in ItemPhase,
         NEW id \in DOMAIN apps,
         apps[id].uid = job[w].item.uid \/ apps[id].key = job[w].item.key
  PROVE  id \notin job[w].seen
<1> SUFFICES ASSUME id \in job[w].seen
             PROVE  FALSE
  OBVIOUS
<1>1. /\ ItemAt(apps, id) \in job[w].fetched /\ ItemAt(apps, id) \notin Ahead(job[w])
      /\ Distinct(job[w].fetched)
      /\ job[w].item \in job[w].fetched /\ job[w].item \in Ahead(job[w])
  BY LoneFacts DEF LoopOK, SeenOK
<1>2. ItemAt(apps, id).uid = apps[id].uid /\ ItemAt(apps, id).key = apps[id].key
  BY DEF ItemAt
<1> QED
  BY <1>1, <1>2 DEF Distinct

-----------------------------------------------------------------------------
(* The loop. *)

LEMMA ListLone ==
  ASSUME Inv, MirrorInv, NEW w \in Worker, List(w)
  PROVE  MirrorInv'
<1>1. Running(w) /\ job[w] \in Job /\ JobOK(job[w], NextId) /\ job[w].op = "sync"
      /\ job[w].phase = "list"
  BY JobIs DEF List, Running, RemovalPhase
<1>2. CASE job[w].conn.url # job[w].conn.token
  BY <1>1, <1>2, LoneEnds DEF List, Step
<1>3. CASE job[w].conn.url = job[w].conn.token
  <2>1. job[w].conn.url \in Source
    BY <1>1 DEF Inv, PhaseOK
  <2>2. PICK items \in SUBSET Item : items = argo[job[w].conn.url]
    BY <2>1 DEF Inv, TypeOK
  <2> DEFINE n == [job[w] EXCEPT !.phase = "items", !.fetched = items, !.todo = items]
  <2>3. Step(w, n)
    BY <1>3, <2>2 DEF List
  <2>4. /\ n \in Job /\ n.op = "sync" /\ n.alone = job[w].alone /\ n.phase = "items"
        /\ n.fetched = items /\ n.todo = items /\ n.seen = job[w].seen /\ n.failed = job[w].failed
    BY <1>1, <2>2 DEF Job, Phase
  <2>5. Distinct(items)
    BY <2>1, <2>2 DEF MirrorInv, ArgoOK
  <2> HIDE DEF n
  <2>6. ASSUME Lone(n) PROVE LoopOK(n, apps')
    <3>1. Lone(job[w])
      BY <1>1, <2>4, <2>6 DEF Lone
    <3>2. job[w].seen = {} /\ job[w].failed = {}
      BY <1>1, <3>1, LoneFacts DEF LoopOK, StageOK
    <3>3. n.phase \notin ItemPhase \cup RemovalPhase \cup {"list", "record", "write"}
          /\ "environment" \in ItemPhase /\ {"merge", "clear", "signals"} \subseteq ItemPhase
      BY <2>4 DEF ItemPhase, RemovalPhase
    <3> QED
      BY <2>4, <2>5, <3>2, <3>3 DEF LoopOK, SeenOK, DoneOK, AheadOK, Ahead, RowOK, StageOK
  <2> QED
    BY <1>1, <2>3, <2>4, <2>6, LoneStep
<1> QED
  BY <1>2, <1>3

LEMMA FindLone ==
  ASSUME Inv, MirrorInv, NEW w \in Worker, NEW i \in job[w].todo, FindByUid(w, i)
  PROVE  MirrorInv'
<1>1. /\ job[w] \in Job /\ JobOK(job[w], NextId) /\ job[w].phase = "items" /\ Running(w)
      /\ i \in Item /\ UNCHANGED apps
  BY JobIs DEF FindByUid, Running, MirrorInv, AloneOK, Idle, JobOK, Job
<1>2. PICK row \in IF UidHolder(i.uid) = {} THEN {NoId} ELSE UidHolder(i.uid) :
        Step(w, [job[w] EXCEPT !.phase = "write", !.todo = @ \ {i}, !.item = i, !.row = row])
  BY DEF FindByUid
<1> DEFINE n == [job[w] EXCEPT !.phase = "write", !.todo = @ \ {i}, !.item = i, !.row = row]
<1>3. row \in Nat \cup {NoId} /\ (row # NoId => row \in DOMAIN apps /\ apps[row].uid = i.uid)
  <2>1. DOMAIN apps \subseteq Nat
    BY NextIdIsNat DEF Inv, TypeOK, TableOK
  <2> QED
    BY <1>2, <2>1 DEF UidHolder
<1>4. /\ n \in Job /\ n.op = job[w].op /\ n.alone = job[w].alone /\ n.phase = "write"
      /\ n.fetched = job[w].fetched /\ n.todo = job[w].todo \ {i} /\ n.item = i /\ n.row = row
      /\ n.seen = job[w].seen /\ n.failed = job[w].failed
  BY <1>1, <1>3 DEF Job, Phase, ItemPhase
<1>5. Step(w, n)
  BY <1>2
<1> HIDE DEF n
<1>6. ASSUME Lone(n) PROVE LoopOK(n, apps')
  <2>1. Lone(job[w])
    BY <1>4, <1>6 DEF Lone
  <2>2. LoopOK(job[w], apps)
    BY <2>1, LoneFacts
  <2>3. "items" \notin ItemPhase /\ "write" \in ItemPhase
        /\ "write" \notin {"merge", "clear", "signals", "environment", "list", "record"} \cup RemovalPhase
    BY DEF ItemPhase, RemovalPhase
  <2>4. Ahead(n) = Ahead(job[w])
    BY <1>1, <1>4, <2>3 DEF Ahead
  <2>5. SeenOK(n, apps) /\ DoneOK(n, apps)
    BY <1>4, <2>2, <2>4, SeenKept DEF LoopOK
  <2>6. AheadOK(n)
    BY <1>4, <2>2, <2>4 DEF LoopOK, AheadOK
  <2>7. RowOK(n, apps) /\ StageOK(n, apps)
    BY <1>3, <1>4, <2>3 DEF RowOK, StageOK
  <2> QED
    BY <1>1, <1>4, <2>2, <2>5, <2>6, <2>7 DEF LoopOK
<1> QED
  BY <1>1, <1>4, <1>5, <1>6, LoneStep DEF MirrorInv, AloneOK, Running

\* An item whose save failed is through, and its row, if it has one, is not seen.
LEMMA SkipLone ==
  ASSUME Inv, MirrorInv, NEW w \in Worker, job[w].phase \in ItemPhase,
         Step(w, SkipItem(job[w])), UNCHANGED apps
  PROVE  MirrorInv'
<1>1. job[w] \in Job /\ JobOK(job[w], NextId) /\ Running(w) /\ job[w].item \in Item
  BY JobIs DEF Running, MirrorInv, AloneOK, Idle, ItemPhase, JobOK, Job
<1> DEFINE n == SkipItem(job[w])
<1>2. /\ n \in Job /\ n.op = job[w].op /\ n.alone = job[w].alone /\ n.phase = "items"
      /\ n.fetched = job[w].fetched /\ n.todo = job[w].todo
      /\ n.seen = job[w].seen /\ n.failed = job[w].failed \cup {job[w].item.uid}
  BY <1>1 DEF SkipItem, Job, Phase, Item
<1>3. Step(w, n)
  OBVIOUS
<1> HIDE DEF n
<1>4. ASSUME Lone(n) PROVE LoopOK(n, apps')
  <2>1. Lone(job[w])
    BY <1>2, <1>4 DEF Lone
  <2>2. LoopOK(job[w], apps) /\ job[w].item \in job[w].fetched
    BY <2>1, LoneFacts
  <2>3. /\ "items" \notin ItemPhase
        /\ "items" \notin {"write", "merge", "clear", "signals", "environment", "list", "record"} \cup RemovalPhase
    BY DEF ItemPhase, RemovalPhase
  <2>4. Ahead(n) = job[w].todo /\ Ahead(job[w]) = job[w].todo \cup {job[w].item}
    BY <1>2, <2>3 DEF Ahead
  <2>5. SeenOK(n, apps)
    <3>1. \A id \in job[w].seen : id \in DOMAIN apps => apps[id].uid # job[w].item.uid
      BY <2>1, HandUnseen
    <3> QED
      BY <1>2, <2>2, <2>4, <3>1 DEF LoopOK, SeenOK
  <2>6. DoneOK(n, apps)
    BY <1>2, <2>2, <2>4 DEF LoopOK, DoneOK
  <2>7. AheadOK(n)
    <3>1. \A i \in job[w].todo : i \in job[w].fetched /\ i # job[w].item
      BY <1>1, <2>2 DEF JobOK, LoopOK, AheadOK
    <3>2. \A i \in job[w].todo : i.uid # job[w].item.uid
      BY <2>2, <3>1 DEF LoopOK, Distinct
    <3> QED
      BY <1>2, <2>2, <2>3, <2>4, <3>2 DEF LoopOK, AheadOK
  <2>8. RowOK(n, apps) /\ StageOK(n, apps)
    BY <1>2, <2>3 DEF RowOK, StageOK
  <2> QED
    BY <1>2, <2>2, <2>5, <2>6, <2>7, <2>8 DEF LoopOK
<1> QED
  BY <1>1, <1>2, <1>3, <1>4, LoneStep DEF MirrorInv, AloneOK, Running

\* The rows a job may write while an item is at hand are those with its uid or its key.
LEMMA HandLone ==
  ASSUME Inv, MirrorInv, NEW w \in Worker, job[w].phase \in ItemPhase,
         NEW n \in Job, Step(w, n), n.phase \in ItemPhase,
         n.op = job[w].op, n.alone = job[w].alone, n.fetched = job[w].fetched,
         n.todo = job[w].todo, n.item = job[w].item, n.seen = job[w].seen,
         n.failed = job[w].failed,
         Lone(job[w]) =>
           /\ \A id \in DOMAIN apps :
                apps[id].uid # job[w].item.uid /\ apps[id].key # job[w].item.key =>
                  id \in DOMAIN apps' /\ apps'[id] = apps[id]
           /\ RowOK(n, apps')
  PROVE  MirrorInv'
<1>1. Running(w)
  BY DEF Running, MirrorInv, AloneOK, Idle, ItemPhase
<1>2. ASSUME Lone(n) PROVE LoopOK(n, apps')
  <2>1. Lone(job[w])
    BY <1>2 DEF Lone
  <2>2. LoopOK(job[w], apps)
    BY <2>1, LoneFacts
  <2>3. Ahead(n) = Ahead(job[w])
    BY DEF Ahead
  <2>4. \A id \in job[w].seen : id \in DOMAIN apps => id \in DOMAIN apps' /\ apps'[id] = apps[id]
    BY <2>1, HandUnseen
  <2>5. SeenOK(n, apps') /\ DoneOK(n, apps')
    BY <2>2, <2>3, <2>4, SeenKept DEF LoopOK
  <2>6. AheadOK(n)
    BY <2>2, <2>3, AheadKept DEF LoopOK
  <2>7. StageOK(n, apps')
    BY DEF StageOK, ItemPhase, RemovalPhase
  <2> QED
    BY <2>1, <2>2, <2>5, <2>6, <2>7 DEF LoopOK
<1> QED
  BY <1>1, <1>2, LoneStep

\* What a step that goes on with the item at hand keeps of its job.
SameLoop(j, n) ==
  /\ n.op = j.op /\ n.alone = j.alone /\ n.fetched = j.fetched /\ n.todo = j.todo
  /\ n.item = j.item /\ n.seen = j.seen /\ n.failed = j.failed

\* A row that is saved under the name of the item at hand.
LEMMA SaveLone ==
  ASSUME Inv, MirrorInv, NEW w \in Worker, job[w].phase = "write",
         NEW table, NEW id \in Nat, SaveItem(w, table, id),
         Lone(job[w]) =>
           /\ \A other \in DOMAIN apps :
                apps[other].uid # job[w].item.uid /\ apps[other].key # job[w].item.key =>
                  other \in DOMAIN table /\ table[other] = apps[other]
           /\ id \in DOMAIN table /\ ItemAt(table, id) = job[w].item
  PROVE  MirrorInv'
<1>1. job[w] \in Job /\ "history" \in ItemPhase /\ "write" \in ItemPhase
  BY JobIs DEF ItemPhase
<1>2. PICK n : n = [job[w] EXCEPT !.phase = "history", !.row = id]
  OBVIOUS
<1>3. n \in Job /\ n.phase = "history" /\ n.row = id /\ SameLoop(job[w], n)
  BY <1>1, <1>2 DEF Job, Phase, SameLoop
<1>4. Step(w, n) /\ apps' = table
  BY <1>2 DEF SaveItem
<1>5. Lone(job[w]) => RowOK(n, apps')
  BY <1>3, <1>4 DEF RowOK, SameLoop
<1> QED
  BY <1>1, <1>3, <1>4, <1>5, HandLone DEF SameLoop

LEMMA UpdateByIdLone ==
  ASSUME Inv, MirrorInv, NEW w \in Worker, UpdateById(w)
  PROVE  MirrorInv'
<1> DEFINE row == job[w].row
           i == job[w].item
<1>1. /\ job[w].phase = "write" /\ "write" \in ItemPhase /\ row \in DOMAIN apps
      /\ SaveItem(w, Named(apps, row, i), row)
  BY DEF UpdateById, Updatable, ItemPhase
<1>2. row \in Nat /\ apps[row] \in App /\ row # NoId
  BY <1>1, NextIdIsNat, IdAssumption DEF Inv, TypeOK, TableOK
<1>3. /\ DOMAIN Named(apps, row, i) = DOMAIN apps
      /\ \A other \in DOMAIN apps : other # row => Named(apps, row, i)[other] = apps[other]
      /\ Named(apps, row, i)[row].uid = i.uid /\ Named(apps, row, i)[row].key = i.key
  BY <1>1, <1>2 DEF Named, App
<1>4. ASSUME Lone(job[w])
      PROVE  apps[row].uid = i.uid /\ ItemAt(Named(apps, row, i), row) = i
  <2>1. RowOK(job[w], apps) /\ i \in Item
    BY <1>1, <1>4, LoneFacts DEF LoopOK
  <2> QED
    BY <1>1, <1>2, <1>3, <2>1 DEF RowOK, ItemAt, Item
<1> HIDE DEF row, i
<1>5. Lone(job[w]) =>
        /\ \A other \in DOMAIN apps :
             apps[other].uid # i.uid /\ apps[other].key # i.key =>
               other \in DOMAIN Named(apps, row, i) /\ Named(apps, row, i)[other] = apps[other]
        /\ row \in DOMAIN Named(apps, row, i) /\ ItemAt(Named(apps, row, i), row) = i
  BY <1>1, <1>3, <1>4
<1> QED
  BY <1>1, <1>2, <1>5, SaveLone DEF i

LEMMA UpsertByKeyLone ==
  ASSUME Inv, MirrorInv, NEW w \in Worker, UpsertByKey(w)
  PROVE  MirrorInv'
<1>1. job[w].phase = "write" /\ "write" \in ItemPhase /\ DOMAIN apps \subseteq 1..NextId - 1
      /\ NextId \in Nat /\ NextId \notin DOMAIN apps
  BY NextIdIsNat DEF UpsertByKey, ItemPhase, Inv, TypeOK, TableOK
<1>2. PICK i : i = job[w].item
  OBVIOUS
<1>3. Lone(job[w]) => i \in Item
  BY <1>1, <1>2, LoneFacts
<1>4. CASE KeyHolder(i.key) # {}
  <2>1. PICK id \in KeyHolder(i.key) : SaveItem(w, Named(apps, id, i), id)
    BY <1>2, <1>4 DEF UpsertByKey
  <2>2. id \in DOMAIN apps /\ apps[id].key = i.key /\ id \in Nat /\ apps[id] \in App
    BY <1>1, <2>1 DEF KeyHolder, Inv, TypeOK, TableOK
  <2>3. /\ DOMAIN Named(apps, id, i) = DOMAIN apps
        /\ \A other \in DOMAIN apps : other # id => Named(apps, id, i)[other] = apps[other]
        /\ Named(apps, id, i)[id].uid = i.uid /\ Named(apps, id, i)[id].key = i.key
    BY <2>2 DEF Named, App
  <2>4. Lone(job[w]) => ItemAt(Named(apps, id, i), id) = i
    BY <1>3, <2>3 DEF ItemAt, Item
  <2> QED
    BY <1>1, <1>2, <2>1, <2>2, <2>3, <2>4, SaveLone
<1>5. CASE KeyHolder(i.key) = {}
  <2>1. PICK t : t = [id \in DOMAIN apps \cup {NextId} |->
                       IF id = NextId THEN [uid |-> i.uid, key |-> i.key, children |-> {}]
                       ELSE apps[id]]
    OBVIOUS
  <2>2. SaveItem(w, t, NextId)
    BY <1>2, <1>5, <2>1 DEF UpsertByKey
  <2>3. \A other \in DOMAIN apps : other \in DOMAIN t /\ t[other] = apps[other]
    BY <1>1, <2>1
  <2>4. NextId \in DOMAIN t /\ t[NextId].uid = i.uid /\ t[NextId].key = i.key
    BY <2>1
  <2>5. Lone(job[w]) => ItemAt(t, NextId) = i
    BY <1>3, <2>4 DEF ItemAt, Item
  <2> QED
    BY <1>1, <1>2, <2>2, <2>3, <2>4, <2>5, SaveLone
<1> QED
  BY <1>4, <1>5

\* Children that are written to the row of the item at hand, which has its name.
LEMMA ChildLone ==
  ASSUME Inv, MirrorInv, NEW w \in Worker, job[w].phase \in ItemPhase \ {"write"},
         NEW n \in Job, Step(w, n), n.phase \in ItemPhase \ {"write"}, SameLoop(job[w], n),
         n.row = job[w].row, DOMAIN apps' = DOMAIN apps,
         \A id \in DOMAIN apps :
           /\ id # job[w].row => apps'[id] = apps[id]
           /\ apps'[id].uid = apps[id].uid /\ apps'[id].key = apps[id].key,
         Lone(job[w]) =>
           /\ n.phase \in {"clear", "signals", "environment"} \/ (n.phase = "merge" /\ n.had) =>
                "deployments" \in apps'[n.row].children
           /\ n.phase = "environment" => "events" \in apps'[n.row].children
  PROVE  MirrorInv'
<1>1. ASSUME Lone(job[w])
      PROVE  /\ \A id \in DOMAIN apps :
                  apps[id].uid # job[w].item.uid /\ apps[id].key # job[w].item.key =>
                    id \in DOMAIN apps' /\ apps'[id] = apps[id]
             /\ RowOK(n, apps')
  <2>1. job[w].row \in DOMAIN apps /\ ItemAt(apps, job[w].row) = job[w].item
    BY <1>1, LoneFacts DEF LoopOK, RowOK
  <2>2. apps[job[w].row].uid = job[w].item.uid /\ apps[job[w].row].key = job[w].item.key
    BY <2>1 DEF ItemAt
  <2>3. n.row \in DOMAIN apps' /\ ItemAt(apps', n.row) = n.item
    BY <2>1 DEF ItemAt, SameLoop
  <2> QED
    BY <1>1, <2>2, <2>3 DEF RowOK
<1> QED
  BY <1>1, HandLone DEF SameLoop

\* What the children of a row are once one kind of them is written.
LEMMA WithChild ==
  ASSUME Inv, NEW row \in DOMAIN apps, NEW child,
         apps' = [apps EXCEPT ![row].children = @ \cup {child}]
  PROVE  /\ DOMAIN apps' = DOMAIN apps
         /\ \A id \in DOMAIN apps :
              /\ id # row => apps'[id] = apps[id]
              /\ apps'[id].uid = apps[id].uid /\ apps'[id].key = apps[id].key
         /\ apps'[row].children = apps[row].children \cup {child}
<1>1. \A id \in DOMAIN apps : apps[id] \in App
  BY DEF Inv, TypeOK, TableOK
<1> QED
  BY <1>1 DEF App

LEMMA ReadHistoryLone ==
  ASSUME Inv, MirrorInv, NEW w \in Worker, ReadHistory(w)
  PROVE  MirrorInv'
<1>1. job[w].phase = "history" /\ job[w] \in Job /\ {"history", "merge"} \subseteq ItemPhase
      /\ UNCHANGED apps
  BY JobIs DEF ReadHistory, ItemPhase
<1>2. PICK had : had = (RowExists(w) /\ "deployments" \in apps[job[w].row].children)
  OBVIOUS
<1>3. had \in BOOLEAN
  BY <1>2
<1>4. PICK n : n = [job[w] EXCEPT !.phase = "merge", !.had = had]
  OBVIOUS
<1>5. Step(w, n)
  BY <1>2, <1>4 DEF ReadHistory
<1>6. n \in Job /\ SameLoop(job[w], n) /\ n.phase = "merge" /\ n.row = job[w].row /\ n.had = had
  BY <1>1, <1>3, <1>4 DEF Job, Phase, SameLoop
<1>7. n.had => "deployments" \in apps'[n.row].children
  BY <1>1, <1>2, <1>6
<1> QED
  BY <1>1, <1>5, <1>6, <1>7, ChildLone

LEMMA HistoryLone ==
  ASSUME Inv, MirrorInv, NEW w \in Worker, WriteHistory(w) \/ KeepHistory(w)
  PROVE  MirrorInv'
<1>1. job[w].phase = "merge" /\ job[w] \in Job /\ {"clear", "merge"} \subseteq ItemPhase
  BY JobIs DEF WriteHistory, WriteChild, KeepHistory, ItemPhase
<1>2. PICK n : n = [job[w] EXCEPT !.phase = "clear", !.had = FALSE]
  OBVIOUS
<1>3. n \in Job /\ SameLoop(job[w], n) /\ n.phase = "clear" /\ n.row = job[w].row
  BY <1>1, <1>2 DEF Job, Phase, SameLoop
<1>4. CASE WriteHistory(w) /\ RowExists(w)
  <2>1. /\ apps' = [apps EXCEPT ![job[w].row].children = @ \cup {"deployments"}]
        /\ Step(w, n) /\ job[w].row \in DOMAIN apps
    BY <1>2, <1>4 DEF WriteHistory, WriteChild, HistoryDone, RowExists
  <2> QED
    BY <1>1, <1>3, <2>1, WithChild, ChildLone
<1>5. CASE WriteHistory(w) /\ ~RowExists(w)
  BY <1>1, <1>5, SkipLone DEF WriteHistory, WriteChild
<1>6. CASE KeepHistory(w)
  <2>1. Step(w, n) /\ UNCHANGED apps /\ job[w].had
    BY <1>2, <1>6 DEF KeepHistory, HistoryDone
  <2>2. Lone(job[w]) => "deployments" \in apps[job[w].row].children
    BY <1>1, <2>1, LoneFacts DEF LoopOK, RowOK
  <2> QED
    BY <1>1, <1>3, <2>1, <2>2, ChildLone
<1> QED
  BY <1>4, <1>5, <1>6

LEMMA EventsLone ==
  ASSUME Inv, MirrorInv, NEW w \in Worker, replaceObservedEvents(w)
  PROVE  MirrorInv'
<1>1. job[w] \in Job /\ {"clear", "signals", "environment"} \subseteq ItemPhase
  BY JobIs DEF ItemPhase
<1>2. job[w].phase \in {"clear", "signals"} /\ Lone(job[w]) =>
        job[w].row \in DOMAIN apps /\ "deployments" \in apps[job[w].row].children
  BY <1>1, LoneFacts DEF LoopOK, RowOK
<1>3. CASE ClearEvents(w)
  <2>1. PICK n : n = [job[w] EXCEPT !.phase = "signals"]
    OBVIOUS
  <2>2. n \in Job /\ SameLoop(job[w], n) /\ n.phase = "signals" /\ n.row = job[w].row
    BY <1>1, <2>1 DEF Job, Phase, SameLoop
  <2>3. Step(w, n) /\ job[w].phase = "clear"
    BY <1>3, <2>1 DEF ClearEvents
  <2>4. apps' = [id \in DOMAIN apps |->
          IF id = job[w].row THEN [apps[id] EXCEPT !.children = @ \ {"events"}] ELSE apps[id]]
    BY <1>3 DEF ClearEvents
  <2>5. \A id \in DOMAIN apps : apps[id] \in App
    BY DEF Inv, TypeOK, TableOK
  <2>6. DOMAIN apps' = DOMAIN apps
        /\ \A id \in DOMAIN apps :
             /\ id # job[w].row => apps'[id] = apps[id]
             /\ apps'[id].uid = apps[id].uid /\ apps'[id].key = apps[id].key
             /\ id = job[w].row => apps'[id].children = apps[id].children \ {"events"}
    BY <2>4, <2>5 DEF App
  <2>7. Lone(job[w]) => "deployments" \in apps'[n.row].children
    BY <1>2, <2>2, <2>3, <2>6
  <2> QED
    BY <1>1, <2>2, <2>3, <2>6, <2>7, ChildLone
<1>4. CASE CreateEvents(w) /\ RowExists(w)
  <2>1. PICK n : n = [job[w] EXCEPT !.phase = "environment"]
    OBVIOUS
  <2>2. n \in Job /\ SameLoop(job[w], n) /\ n.phase = "environment" /\ n.row = job[w].row
    BY <1>1, <2>1 DEF Job, Phase, SameLoop
  <2>3. /\ Step(w, n) /\ job[w].phase = "signals" /\ job[w].row \in DOMAIN apps
        /\ apps' = [apps EXCEPT ![job[w].row].children = @ \cup {"events"}]
    BY <1>4, <2>1 DEF CreateEvents, WriteChild, RowExists
  <2>4. "events" \in apps'[n.row].children
        /\ (Lone(job[w]) => "deployments" \in apps'[n.row].children)
    BY <1>2, <2>2, <2>3, WithChild
  <2> QED
    BY <1>1, <2>2, <2>3, <2>4, WithChild, ChildLone
<1>5. CASE CreateEvents(w) /\ ~RowExists(w)
  BY <1>1, <1>5, SkipLone DEF CreateEvents, WriteChild
<1> QED
  BY <1>3, <1>4, <1>5 DEF replaceObservedEvents

\* The item that has all its children is through, and its row is seen.
LEMMA EnvironmentLone ==
  ASSUME Inv, MirrorInv, NEW w \in Worker, ensureEnvironment(w)
  PROVE  MirrorInv'
<1>1. /\ job[w] \in Job /\ JobOK(job[w], NextId) /\ job[w].phase = "environment"
      /\ "environment" \in ItemPhase /\ Running(w)
  BY JobIs DEF ensureEnvironment, WriteChild, ItemPhase, Running, MirrorInv, AloneOK, Idle
<1>2. CASE ~RowExists(w)
  BY <1>1, <1>2, SkipLone DEF ensureEnvironment, WriteChild
<1>3. CASE RowExists(w)
  <2> DEFINE row == job[w].row
  <2>1. PICK n : n = [job[w] EXCEPT !.phase = "items", !.seen = @ \cup {row},
                                    !.item = NoItem, !.row = NoId]
    OBVIOUS
  <2>2. /\ Step(w, n) /\ row \in DOMAIN apps /\ row \in Nat
        /\ apps' = [apps EXCEPT ![row].children = @ \cup {"environments"}]
    BY <1>3, <2>1, NextIdIsNat
       DEF ensureEnvironment, WriteChild, RowExists, Inv, TypeOK, TableOK
  <2>3. /\ n \in Job /\ n.op = job[w].op /\ n.alone = job[w].alone /\ n.phase = "items"
        /\ n.fetched = job[w].fetched /\ n.todo = job[w].todo /\ n.failed = job[w].failed
        /\ n.seen = job[w].seen \cup {row}
    BY <1>1, <2>1, <2>2 DEF Job, Phase
  <2> HIDE DEF row
  <2>4. ASSUME Lone(n) PROVE LoopOK(n, apps')
    <3>1. Lone(job[w]) /\ LoopOK(job[w], apps) /\ job[w].item \in job[w].fetched
      BY <1>1, <2>3, <2>4, LoneFacts DEF Lone
    <3>2. /\ "items" \notin ItemPhase
          /\ "items" \notin {"write", "merge", "clear", "signals", "environment", "list", "record"}
                            \cup RemovalPhase
      BY DEF ItemPhase, RemovalPhase
    <3>3. Ahead(n) = job[w].todo /\ Ahead(job[w]) = job[w].todo \cup {job[w].item}
          /\ job[w].item \notin job[w].todo /\ job[w].item.uid \notin job[w].failed
      BY <1>1, <2>3, <3>1, <3>2 DEF Ahead, LoopOK, AheadOK
    <3>4. ItemAt(apps, row) = job[w].item /\ {"deployments", "events"} \subseteq apps[row].children
      BY <1>1, <3>1 DEF LoopOK, RowOK, row
    <3>5. apps[row].uid = job[w].item.uid /\ apps[row].key = job[w].item.key
      BY <3>4 DEF ItemAt
    <3>6. /\ DOMAIN apps' = DOMAIN apps
          /\ \A id \in DOMAIN apps : id # row => apps'[id] = apps[id]
          /\ apps'[row].uid = job[w].item.uid /\ ItemAt(apps', row) = job[w].item
          /\ Child \subseteq apps'[row].children
      <4>1. /\ DOMAIN apps' = DOMAIN apps
            /\ \A id \in DOMAIN apps :
                 /\ id # row => apps'[id] = apps[id]
                 /\ apps'[id].uid = apps[id].uid /\ apps'[id].key = apps[id].key
            /\ apps'[row].children = apps[row].children \cup {"environments"}
        BY <2>2, WithChild
      <4> QED
        BY <2>2, <3>4, <3>5, <4>1 DEF ItemAt, Child
    <3>7. \A id \in job[w].seen : id # row /\ id \in DOMAIN apps /\ apps'[id] = apps[id]
                                  /\ ItemAt(apps', id) = ItemAt(apps, id)
      BY <1>1, <2>2, <3>1, <3>5, <3>6, HandUnseen DEF LoopOK, SeenOK, ItemAt
    <3>8. SeenOK(n, apps')
      BY <2>2, <2>3, <3>1, <3>3, <3>6, <3>7 DEF LoopOK, SeenOK
    <3>9. DoneOK(n, apps')
      BY <2>3, <3>1, <3>3, <3>6, <3>7 DEF LoopOK, DoneOK
    <3>10. AheadOK(n)
      BY <2>3, <3>1, <3>2, <3>3 DEF LoopOK, AheadOK
    <3>11. RowOK(n, apps') /\ StageOK(n, apps')
      BY <2>3, <3>2 DEF RowOK, StageOK
    <3> QED
      BY <2>3, <3>1, <3>8, <3>9, <3>10, <3>11 DEF LoopOK
  <2> QED
    BY <1>1, <2>2, <2>3, <2>4, LoneStep
<1> QED
  BY <1>2, <1>3

LEMMA SaveLoopLone ==
  ASSUME Inv, MirrorInv, NEW w \in Worker, Save(w)
  PROVE  MirrorInv'
<1>1. {"write", "merge"} \subseteq ItemPhase
  BY DEF ItemPhase
<1>2. CASE UpdateFails(w) \/ UpdateHistoryFails(w)
  BY <1>1, <1>2, SkipLone DEF UpdateFails, UpdateHistoryFails
<1> QED
  BY <1>2, FindLone, UpdateByIdLone, UpsertByKeyLone, ReadHistoryLone, HistoryLone, EventsLone,
     EnvironmentLone, HistorySteps DEF Save

-----------------------------------------------------------------------------
(* After the loop. *)

\* What StageOK says of an earlier phase is kept by a step that leaves the seen rows alone.
LEMMA RemovalLone ==
  ASSUME Inv, MirrorInv, NEW w \in Worker,
         job[w].phase \in RemovalPhase \cup {"items"}, Running(w),
         NEW n \in Job, Step(w, n), n.phase \in RemovalPhase \cup {"record"},
         n.op = job[w].op, n.alone = job[w].alone, n.fetched = job[w].fetched,
         n.todo = job[w].todo, n.seen = job[w].seen, n.failed = job[w].failed,
         Lone(job[w]) =>
           /\ \A id \in job[w].seen : id \in DOMAIN apps => id \in DOMAIN apps' /\ apps'[id] = apps[id]
           /\ StageOK(n, apps')
  PROVE  MirrorInv'
<1>1. ASSUME Lone(n) PROVE LoopOK(n, apps')
  <2>1. Lone(job[w]) /\ LoopOK(job[w], apps)
    BY <1>1, LoneFacts DEF Lone
  <2>2. /\ job[w].phase \notin ItemPhase /\ n.phase \notin ItemPhase
        /\ n.phase \notin {"write", "merge", "clear", "signals", "environment"}
    BY DEF ItemPhase, RemovalPhase
  <2>3. Ahead(n) = Ahead(job[w])
    BY <2>2 DEF Ahead
  <2>4. SeenOK(n, apps') /\ DoneOK(n, apps')
    BY <2>1, <2>3, SeenKept DEF LoopOK
  <2>5. AheadOK(n)
    BY <2>1, <2>2, <2>3 DEF LoopOK, AheadOK
  <2>6. RowOK(n, apps')
    BY <2>2 DEF RowOK
  <2> QED
    BY <2>1, <2>4, <2>5, <2>6 DEF LoopOK
<1> QED
  BY <1>1, LoneStep

LEMMA FindStaleLone ==
  ASSUME Inv, MirrorInv, NEW w \in Worker, FindStale(w)
  PROVE  MirrorInv'
<1>1. /\ job[w] \in Job /\ job[w].phase = "items" /\ job[w].todo = {} /\ job[w].op = "sync"
      /\ Running(w) /\ UNCHANGED apps
  BY JobIs DEF FindStale, ItemsDone, Running
<1>2. PICK stale : stale = Stale(job[w])
  OBVIOUS
<1>3. stale \in SUBSET Nat
  BY <1>2, NextIdIsNat DEF Stale, Inv, TypeOK, TableOK
<1>4. PICK phase : phase = IF stale = {} THEN "record" ELSE "deployments"
  OBVIOUS
<1>5. phase \in Phase /\ phase \in RemovalPhase \cup {"record"}
  BY <1>4 DEF Phase, RemovalPhase
<1>6. PICK n : n = [job[w] EXCEPT !.stale = stale, !.phase = phase]
  OBVIOUS
<1>7. Step(w, n)
  BY <1>2, <1>4, <1>6 DEF FindStale
<1>8. /\ n \in Job /\ n.phase = phase /\ n.stale = stale
      /\ n.op = job[w].op /\ n.alone = job[w].alone /\ n.fetched = job[w].fetched
      /\ n.todo = {} /\ n.seen = job[w].seen /\ n.failed = job[w].failed
  BY <1>1, <1>3, <1>5, <1>6 DEF Job
<1>9. \A id \in DOMAIN apps : id \in stale <=> apps[id].uid # NoUid /\ id \notin job[w].seen
  BY <1>2 DEF Stale
<1>10. StageOK(n, apps')
  BY <1>1, <1>4, <1>5, <1>8, <1>9 DEF StageOK, RemovalPhase
<1> QED
  BY <1>1, <1>5, <1>7, <1>8, <1>10, RemovalLone

LEMMA DeleteChildrenLone ==
  ASSUME Inv, MirrorInv, NEW w \in Worker, NEW child \in RemovalPhase,
         NEW next \in RemovalPhase, DeleteChildren(w, child, next)
  PROVE  MirrorInv'
<1>1. job[w] \in Job /\ job[w].phase = child /\ Running(w) /\ child # "list" /\ child # "record"
  BY JobIs DEF DeleteChildren, RemovalPhase, Running
<1>2. PICK n : n = [job[w] EXCEPT !.phase = next]
  OBVIOUS
<1>3. Step(w, n)
  BY <1>2 DEF DeleteChildren
<1>4. /\ n \in Job /\ n.phase = next /\ n.stale = job[w].stale
      /\ n.op = job[w].op /\ n.alone = job[w].alone /\ n.fetched = job[w].fetched
      /\ n.todo = job[w].todo /\ n.seen = job[w].seen /\ n.failed = job[w].failed
  BY <1>1, <1>2 DEF Job, Phase
<1>5. \A id \in DOMAIN apps : apps[id] \in App
  BY DEF Inv, TypeOK, TableOK
<1>6. apps' = [id \in DOMAIN apps |->
        IF id \in job[w].stale THEN [apps[id] EXCEPT !.children = @ \ {child}] ELSE apps[id]]
  BY DEF DeleteChildren
<1>7. /\ DOMAIN apps' = DOMAIN apps
      /\ \A id \in DOMAIN apps :
           /\ id \notin job[w].stale => apps'[id] = apps[id]
           /\ apps'[id].uid = apps[id].uid
  BY <1>5, <1>6 DEF App
<1>8. ASSUME Lone(job[w])
      PROVE  /\ \A id \in job[w].seen :
                  id \in DOMAIN apps => id \in DOMAIN apps' /\ apps'[id] = apps[id]
             /\ StageOK(n, apps')
  <2>1. StageOK(job[w], apps)
    BY <1>8, LoneFacts DEF LoopOK
  <2>2. next # "list" /\ next # "record"
    BY DEF RemovalPhase
  <2> QED
    BY <1>1, <1>4, <1>7, <2>1, <2>2 DEF StageOK
<1> QED
  BY <1>1, <1>3, <1>4, <1>8, RemovalLone

LEMMA DeleteApplicationsLone ==
  ASSUME Inv, MirrorInv, NEW w \in Worker, DeleteApplications(w)
  PROVE  MirrorInv'
<1>1. job[w] \in Job /\ job[w].phase = "applications" /\ "applications" \in RemovalPhase
      /\ Running(w)
  BY JobIs DEF DeleteApplications, RemovalPhase, Running
<1>2. CASE UNCHANGED apps /\ Step(w, Idle)
  BY <1>1, <1>2, LoneEnds DEF Step
<1>3. CASE /\ apps' = [id \in DOMAIN apps \ job[w].stale |-> apps[id]]
           /\ Step(w, [job[w] EXCEPT !.phase = "record"])
  <2>1. PICK n : n = [job[w] EXCEPT !.phase = "record"]
    OBVIOUS
  <2>2. Step(w, n)
    BY <1>3, <2>1
  <2>3. /\ n \in Job /\ n.phase = "record"
        /\ n.op = job[w].op /\ n.alone = job[w].alone /\ n.fetched = job[w].fetched
        /\ n.todo = job[w].todo /\ n.seen = job[w].seen /\ n.failed = job[w].failed
    BY <1>1, <2>1 DEF Job, Phase
  <2>4. ASSUME Lone(job[w])
        PROVE  /\ \A id \in job[w].seen :
                    id \in DOMAIN apps => id \in DOMAIN apps' /\ apps'[id] = apps[id]
               /\ StageOK(n, apps')
    <3>1. StageOK(job[w], apps)
      BY <2>4, LoneFacts DEF LoopOK
    <3>2. "record" \notin RemovalPhase
      BY DEF RemovalPhase
    <3> QED
      BY <1>1, <1>3, <2>3, <3>1, <3>2 DEF StageOK
  <2> QED
    BY <1>1, <2>2, <2>3, <2>4, RemovalLone
<1> QED
  BY <1>2, <1>3 DEF DeleteApplications

LEMMA ProgressLone ==
  ASSUME Inv, MirrorInv, NEW w \in Worker, Progress(w)
  PROVE  MirrorInv'
<1>1. CASE Record(w) \/ FinishImport(w)
  <2>1. Running(w)
    BY <1>1, JobIs DEF Record, FinishImport, Running
  <2> QED
    BY <1>1, <2>1, LoneEnds DEF Record, FinishImport, Step
<1>2. CASE DeleteDeployments(w) \/ DeleteEnvironments(w) \/ DeleteEvents(w)
  <2>1. {"deployments", "environments", "events", "applications"} \subseteq RemovalPhase
    BY DEF RemovalPhase
  <2> QED
    BY <1>2, <2>1, DeleteChildrenLone DEF DeleteDeployments, DeleteEnvironments, DeleteEvents
<1> QED
  BY <1>1, <1>2, ListLone, SaveLoopLone, FindStaleLone, DeleteApplicationsLone
     DEF Progress, Remove

-----------------------------------------------------------------------------
(* The start of a job, and Argo CD. *)

\* A job that starts beside another is not alone, and neither is the other from then on.
LEMMA StartLone ==
  ASSUME Inv, MirrorInv, NEW w \in Worker, NEW next \in Job, Start(w, next),
         next.op # "none",
         next.op = "sync" =>
           /\ next.phase = "list" /\ next.fetched = {} /\ next.todo = {}
           /\ next.seen = {} /\ next.failed = {}
  PROVE  MirrorInv'
<1>1. ~Running(w) /\ UNCHANGED <<argo, known, apps>>
  BY DEF Start, argoVars
<1>2. PICK n : n = [next EXCEPT !.alone = \A other \in Worker : ~Running(other)]
  OBVIOUS
<1>3. /\ job'[w] = n
      /\ \A v \in Worker : v # w =>
           job'[v] = IF Running(v) THEN [job[v] EXCEPT !.alone = FALSE] ELSE job[v]
  BY <1>2 DEF Start
<1>4. /\ n.op = next.op /\ n.phase = next.phase /\ n.fetched = next.fetched
      /\ n.todo = next.todo /\ n.seen = next.seen /\ n.failed = next.failed
      /\ n.alone = \A other \in Worker : ~Running(other)
  BY <1>2 DEF Job
<1>5. \A v \in Worker : v # w => /\ job'[v].op = job[v].op
                                 /\ Running(v) => ~job'[v].alone
                                 /\ ~Running(v) => job'[v] = job[v]
  <2> TAKE v \in Worker
  <2> HAVE v # w
  <2>1. job[v] \in Job
    BY JobIs
  <2> QED
    BY <1>3, <2>1 DEF Job
<1>6. ArgoOK'
  BY <1>1 DEF MirrorInv, ArgoOK
<1>7. AloneOK'
  <2>1. \A v \in Worker : job'[v].op = "none" => job'[v] = Idle
    BY <1>3, <1>4, <1>5 DEF MirrorInv, AloneOK, Running
  <2>2. ASSUME NEW v \in Worker, job'[v].op # "none", job'[v].alone, NEW u \in Worker, u # v
        PROVE  job'[u].op = "none"
    <3>1. v = w /\ \A other \in Worker : ~Running(other)
      BY <1>3, <1>4, <1>5, <2>2 DEF Running
    <3> QED
      BY <1>5, <2>2, <3>1 DEF Running
  <2> QED
    BY <2>1, <2>2 DEF AloneOK, Running
<1>8. ASSUME NEW v \in Worker, Lone(job'[v])
      PROVE  LoopOK(job'[v], apps')
  <2>1. v = w /\ n.op = "sync"
    BY <1>3, <1>5, <1>8 DEF Lone, Running
  <2>2. /\ n.phase = "list" /\ n.fetched = {} /\ n.todo = {} /\ n.seen = {} /\ n.failed = {}
    BY <1>4, <2>1
  <2>3. "list" \notin ItemPhase \cup RemovalPhase
        /\ "list" \notin {"write", "merge", "clear", "signals", "environment"}
    BY DEF ItemPhase, RemovalPhase
  <2>4. LoopOK(n, apps')
    BY <2>2, <2>3 DEF LoopOK, Distinct, SeenOK, DoneOK, AheadOK, Ahead, RowOK, StageOK
  <2> QED
    BY <1>3, <2>1, <2>4
<1>9. \A v \in Worker : LoopOK(job'[v], apps') <=> LoopOK(job[v], apps)'
  BY DEF LoopOK, SeenOK, DoneOK, RowOK, StageOK
<1> QED
  BY <1>6, <1>7, <1>8, <1>9 DEF MirrorInv, Lone

LEMMA StartSyncLone ==
  ASSUME Inv, MirrorInv, NEW w \in Worker, StartSync(w)
  PROVE  MirrorInv'
<1>1. PICK conn : conn = connectionForOrganization
  OBVIOUS
<1>2. conn \in Integration
  BY <1>1, SourceAssumption DEF connectionForOrganization, Inv, TypeOK, Integration
<1>3. PICK next : next = [Idle EXCEPT !.op = "sync", !.phase = "list", !.conn = conn]
  OBVIOUS
<1>4. /\ next \in Job /\ next.op = "sync" /\ next.phase = "list" /\ next.fetched = {}
      /\ next.todo = {} /\ next.seen = {} /\ next.failed = {}
  BY <1>2, <1>3 DEF Idle, Job, NoItem, Phase
<1>5. Start(w, next)
  BY <1>1, <1>3 DEF StartSync
<1> QED
  BY <1>4, <1>5, StartLone

LEMMA ImportLone ==
  ASSUME Inv, MirrorInv, NEW w \in Worker, NEW items \in posted, importDiscovered(w, items)
  PROVE  MirrorInv'
<1>1. PICK next : next = [Idle EXCEPT !.op = "import", !.phase = "items",
                                      !.fetched = items, !.todo = items]
  OBVIOUS
<1>2. items \subseteq Item
  BY DEF Inv, TypeOK
<1>3. next \in Job /\ next.op = "import"
  BY <1>1, <1>2 DEF Idle, Job, NoItem, Phase, NoIntegration, Integration
<1>4. Start(w, next)
  BY <1>1 DEF importDiscovered
<1> QED
  BY <1>3, <1>4, StartLone

\* No job has changed, nor any row.
LEMMA JobsLone ==
  ASSUME Inv, MirrorInv, UNCHANGED <<apps, job>>, ArgoOK'
  PROVE  MirrorInv'
<1>1. AloneOK'
  BY DEF MirrorInv, AloneOK, Running
<1>2. \A w \in Worker : LoopOK(job[w], apps)' <=> LoopOK(job[w], apps)
  BY DEF LoopOK, SeenOK, DoneOK, RowOK, StageOK
<1> QED
  BY <1>1, <1>2 DEF MirrorInv, Lone

\* Argo CD draws new uids, and its keys are unique.
LEMMA ArgoLone ==
  ASSUME Inv, MirrorInv, NEW s \in Source, Argo(s)
  PROVE  MirrorInv'
<1>1. /\ argo \in [Source -> SUBSET Item] /\ Distinct(argo[s])
      /\ \A i \in argo[s] : i.uid \in known /\ i \in Item
  BY DEF MirrorInv, ArgoOK, Inv, TypeOK
<1>2. ASSUME NEW items, Lists(s, items), Distinct(items), known \subseteq known',
             \A i \in items : i.uid \in known'
      PROVE  MirrorInv'
  <2>1. argo' = [argo EXCEPT ![s] = items] /\ UNCHANGED <<apps, job>>
    BY <1>2 DEF Lists
  <2>2. \A other \in Source : argo'[other] = IF other = s THEN items ELSE argo[other]
    BY <1>1, <2>1
  <2>3. ArgoOK'
    BY <1>2, <2>2 DEF MirrorInv, ArgoOK
  <2> QED
    BY <2>1, <2>3, JobsLone
<1>3. ASSUME NEW u \in Uid, NEW k \in Key, ArgoCreates(s, u, k) PROVE MirrorInv'
  <2>1. PICK i : i = [uid |-> u, key |-> k]
    OBVIOUS
  <2>2. Lists(s, argo[s] \cup {i}) /\ known' = known \cup {u} /\ i.uid = u /\ i.key = k
    BY <1>3, <2>1 DEF ArgoCreates
  <2>3. \A other \in argo[s] : other.uid # i.uid /\ other.key # i.key
    BY <1>1, <1>3, <2>2 DEF ArgoCreates
  <2>4. Distinct(argo[s] \cup {i})
    BY <1>1, <2>3 DEF Distinct
  <2> QED
    BY <1>1, <1>2, <2>2, <2>4
<1>4. ASSUME NEW i \in argo[s], ArgoDeletes(s, i) PROVE MirrorInv'
  <2>1. Lists(s, argo[s] \ {i}) /\ known' = known
    BY <1>4 DEF ArgoDeletes
  <2>2. Distinct(argo[s] \ {i})
    BY <1>1 DEF Distinct
  <2> QED
    BY <1>1, <1>2, <2>1, <2>2
<1>5. ASSUME NEW i \in argo[s], NEW k \in Key, ArgoMoves(s, i, k) PROVE MirrorInv'
  <2>1. PICK n : n = [i EXCEPT !.key = k]
    OBVIOUS
  <2>2. n.uid = i.uid /\ n.key = k
    BY <1>1, <2>1 DEF Item
  <2>3. Lists(s, (argo[s] \ {i}) \cup {n}) /\ known' = known
    BY <1>5, <2>1 DEF ArgoMoves
  <2>4. \A other \in argo[s] : other.key # n.key /\ (other # i => other.uid # n.uid)
    BY <1>1, <1>5, <2>2 DEF ArgoMoves, Distinct
  <2>5. Distinct((argo[s] \ {i}) \cup {n})
    BY <1>1, <2>4 DEF Distinct
  <2> QED
    BY <1>1, <1>2, <2>2, <2>3, <2>5
<1> QED
  BY <1>3, <1>4, <1>5 DEF Argo

-----------------------------------------------------------------------------
LEMMA MirrorInit == Init => MirrorInv
BY DEF Init, MirrorInv, ArgoOK, Distinct, AloneOK, Lone, Running, Idle

LEMMA MirrorNext == Inv /\ MirrorInv /\ [Next]_vars => MirrorInv'
<1> SUFFICES ASSUME Inv, MirrorInv, [Next]_vars PROVE MirrorInv'
  OBVIOUS
<1>1. CASE UNCHANGED <<argo, known, apps, job>>
  BY <1>1, JobsLone DEF MirrorInv, ArgoOK
<1>2. ASSUME NEW w \in Worker, ItemFails(w) \/ Abandon(w) PROVE MirrorInv'
  BY <1>2, SkipLone, LoneEnds DEF ItemFails, Abandon, Step
<1>3. ASSUME NEW w \in Worker, StartSync(w) \/ Progress(w)
                               \/ \E items \in posted : importDiscovered(w, items)
      PROVE  MirrorInv'
  BY <1>3, StartSyncLone, ProgressLone, ImportLone
<1>4. (\E s \in Source : connect(s)) \/ (\E s \in Cluster : AgentReads(s)) \/ disconnect
      \/ UNCHANGED vars => UNCHANGED <<argo, known, apps, job>>
  BY DEF connect, disconnect, Choose, AgentReads, vars, argoVars
<1> QED
  BY <1>1, <1>2, <1>3, <1>4, ArgoLone DEF Next

\* At the end of a sync that ran alone, the rows with a uid are those of its list.
LEMMA MirrorEnd ==
  ASSUME Inv, MirrorInv, NEW w \in Worker, Lone(job[w]), job[w].phase = "record"
  PROVE  Mirrors({i \in job[w].fetched : i.uid \notin job[w].failed}, Child)
<1>1. PICK items : items = {i \in job[w].fetched : i.uid \notin job[w].failed}
  OBVIOUS
<1>2. LoopOK(job[w], apps) /\ TableOK(apps, NextId) /\ \A i \in items : i \in Item
  BY <1>1, LoneFacts
<1>3. "record" \notin ItemPhase /\ Ahead(job[w]) = {}
  BY <1>2 DEF LoopOK, StageOK, Ahead, ItemPhase
<1>4. \A id \in DOMAIN apps : /\ ItemOf(id) = ItemAt(apps, id)
                              /\ ItemOf(id).uid = apps[id].uid /\ ItemOf(id).key = apps[id].key
  BY DEF ItemOf, ItemAt
<1>5. ASSUME NEW id \in Imported
      PROVE  id \in DOMAIN apps /\ ItemOf(id) \in items /\ Child \subseteq apps[id].children
  <2>1. id \in DOMAIN apps /\ id \in job[w].seen
    BY <1>2, <1>5 DEF LoopOK, StageOK, Imported
  <2> QED
    BY <1>1, <1>2, <1>4, <2>1 DEF LoopOK, SeenOK
<1>6. ASSUME NEW i \in items
      PROVE  \E id \in Imported : ItemOf(id) = i /\ UidHolder(i.uid) = {id}
  <2>1. PICK id \in job[w].seen : ItemAt(apps, id) = i
    BY <1>1, <1>2, <1>3, <1>6 DEF LoopOK, DoneOK
  <2>2. id \in DOMAIN apps /\ ItemOf(id) = i /\ i.uid # NoUid
    BY <1>2, <1>4, <2>1, UidAssumption DEF LoopOK, SeenOK, Item
  <2>3. id \in Imported /\ apps[id].uid = i.uid
    BY <1>4, <2>2 DEF Imported
  <2>4. ASSUME NEW other \in DOMAIN apps, apps[other].uid = i.uid PROVE other = id
    <3>1. other \in Imported
      BY <2>2, <2>4 DEF Imported
    <3>2. ItemOf(other) = i
      BY <1>1, <1>2, <1>4, <1>5, <2>4, <3>1 DEF LoopOK, Distinct
    <3> QED
      BY <1>2, <1>4, <2>2, <3>2 DEF TableOK
  <2> QED
    BY <2>2, <2>3, <2>4 DEF UidHolder
<1>7. \A i \in items : Cardinality(UidHolder(i.uid)) = 1
  <2> TAKE i \in items
  <2>1. PICK id : UidHolder(i.uid) = {id}
    BY <1>6
  <2> QED
    BY <2>1, FS_Singleton
<1>8. {ItemOf(id) : id \in Imported} = items
  BY <1>5, <1>6
<1> QED
  BY <1>1, <1>5, <1>7, <1>8 DEF Mirrors

\* When a sync that no other job overlapped is about to record its connection, the rows
\* with a uid are exactly the applications it listed, less those whose save failed, one row
\* for each, with its history, its environment and its signals (syncOrganization 269-310,
\* upsertApplication 497-523): for any lists, in whatever order the items are saved, and
\* whatever Argo CD and the users do meanwhile.
THEOREM MirrorHolds == Spec => []MirrorsArgo
<1>1. Init => Inv /\ MirrorInv
  BY InitInv, MirrorInit
<1>2. Inv /\ MirrorInv /\ [Next]_vars => (Inv /\ MirrorInv)'
  BY NextInv, MirrorNext
<1>3. Inv /\ MirrorInv => MirrorsArgo
  <2> SUFFICES ASSUME Inv, MirrorInv, NEW w \in Worker,
                      job[w].phase = "record", job[w].alone
               PROVE  Mirrors({i \in job[w].fetched : i.uid \notin job[w].failed}, Child)
    BY DEF MirrorsArgo
  <2>1. Lone(job[w])
    BY JobIs DEF Lone
  <2> QED
    BY <2>1, MirrorEnd
<1> QED
  BY <1>1, <1>2, <1>3, PTL DEF Spec
=============================================================================
