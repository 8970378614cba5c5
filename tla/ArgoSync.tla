------------------------------ MODULE ArgoSync ------------------------------
(***************************************************************************)
(* How one organization's applications follow Argo CD                      *)
(* (argocd-sync.service.ts), and the connection they are read over         *)
(* (integrations.service.ts).  A sync reads the stored connection, lists    *)
(* the applications, saves them one by one, removes those it did not save, *)
(* and records the connection it used; a connector's snapshot is saved by   *)
(* the same loop and removes nothing.  Every await is a step boundary and   *)
(* nothing is locked, so any two of these jobs interleave.                  *)
(*                                                                         *)
(* An application is its Argo uid and its key, the pair <<project, name>>  *)
(* that is unique in the table.  A source is an Argo CD server; its url and *)
(* its token go by its name.  Every application has a history, signals and *)
(* a destination namespace, so that each of the three kinds of children     *)
(* below is written; HistorySync has what the history becomes.  Left out    *)
(* are project rows, which are only ever added, the cap of the free plan,  *)
(* which PUBLIC_LAUNCH lifts, and children users write or delete by hand.  *)
(***************************************************************************)
EXTENDS Integers, FiniteSets

CONSTANTS
  Source,        \* Argo CD servers
  Cluster,       \* those a connector reads, in a private cluster
  Env,           \* the one of ARGOCD_URL and ARGOCD_TOKEN, or NoSource
  NoSource,
  Uid,
  NoUid,         \* argoUid of a row older than the column
  Key,
  LegacyKey,     \* the keys of the rows without a uid
  Worker,        \* jobs that can run at once
  NoId,
  MaxId,         \* bound on the application rows created
  MaxArgo,       \* bound on the events of Argo CD
  MaxChoices,    \* bound on connects and disconnects
  MaxImports,    \* bound on the snapshots that agents read
  MaxFailures    \* bound on failing queries and restarts

ASSUME SourceAssumption ==
  /\ NoSource \notin Source
  /\ Cluster \subseteq Source
  /\ Env \in Source \cup {NoSource}
ASSUME UidAssumption == NoUid \notin Uid
ASSUME KeyAssumption == IsFiniteSet(LegacyKey) /\ LegacyKey \subseteq Key
ASSUME IdAssumption == NoId \notin Nat
ASSUME SyncBounds ==
  /\ MaxId \in Nat /\ MaxArgo \in Nat /\ MaxChoices \in Nat
  /\ MaxImports \in Nat /\ MaxFailures \in Nat

VARIABLES
  argo,          \* what each server lists
  known,         \* the uids that were ever drawn: none is drawn again
  posted,        \* the snapshots that agents have read and the backend has not taken up
  apps,          \* the Application table, by id
  integration,   \* the Integration row
  job,
  chosen,        \* the source last connected, NoSource when disconnected
  crossed,       \* a sync was running when it was chosen
  spent          \* how much of each bound is used up

vars == <<argo, known, posted, apps, integration, job, chosen, crossed, spent>>
argoVars == <<argo, known>>
choiceVars == <<chosen, crossed>>

Item == [uid : Uid, key : Key]
Child == {"deployments", "environments", "events"}
App == [uid : Uid \cup {NoUid}, key : Key, children : SUBSET Child]

\* url without token: a sync over the environment's connection recorded it.
NoIntegration == [url |-> NoSource, token |-> NoSource]
Integration == [url : Source \cup {NoSource}, token : Source \cup {NoSource}]

\* The awaits of a job.  An item is at "write" when its row was looked up by uid, then at
\* its children: its history is read, and merged; its former signals are deleted ("clear"),
\* and created.  A removal deletes the children, then the applications.
ItemPhase == {"write", "history", "merge", "clear", "signals", "environment"}
RemovalPhase == {"deployments", "environments", "events", "applications"}
Phase == {"idle", "list", "items", "record"} \cup ItemPhase \cup RemovalPhase

NoItem == [uid |-> NoUid, key |-> NoSource]
Idle == [op |-> "none", phase |-> "idle", conn |-> NoIntegration, fetched |-> {}, todo |-> {},
         item |-> NoItem, row |-> NoId, had |-> FALSE, seen |-> {}, failed |-> {}, stale |-> {}, alone |-> TRUE]

Job == [op : {"none", "sync", "import"}, phase : Phase, conn : Integration,
        fetched : SUBSET Item, todo : SUBSET Item, item : Item \cup {NoItem},
        row : Nat \cup {NoId}, had : BOOLEAN, seen : SUBSET Nat, failed : SUBSET Uid,
        stale : SUBSET Nat, alone : BOOLEAN]

Running(w) == job[w].op # "none"
Syncing == \E w \in Worker : job[w].op = "sync"
KeyHolder(k) == {id \in DOMAIN apps : apps[id].key = k}
UidHolder(u) == {id \in DOMAIN apps : apps[id].uid = u}
NextId == Cardinality(LegacyKey) + spent.ids + 1

Bound == [ids |-> MaxId, argo |-> MaxArgo, choices |-> MaxChoices,
          imports |-> MaxImports, failures |-> MaxFailures]
Spend(kind) ==
  /\ spent[kind] < Bound[kind]
  /\ spent' = [spent EXCEPT ![kind] = @ + 1]

Init ==
  /\ argo = [s \in Source |-> {}]
  /\ known = {}
  /\ posted = {}
  /\ \E number \in [1..Cardinality(LegacyKey) -> LegacyKey] :
       /\ \A i, j \in DOMAIN number : number[i] = number[j] => i = j
       /\ apps = [i \in DOMAIN number |->
                    [uid |-> NoUid, key |-> number[i], children |-> {"deployments"}]]
  /\ integration = NoIntegration
  /\ job = [w \in Worker |-> Idle]
  /\ chosen = NoSource
  /\ crossed = FALSE
  /\ spent = [kind \in DOMAIN Bound |-> 0]

-----------------------------------------------------------------------------
(* Argo CD.  Application names are unique in a namespace, keys in a server. *)

Lists(s, items) ==
  /\ Spend("argo")
  /\ argo' = [argo EXCEPT ![s] = items]
  /\ UNCHANGED <<posted, apps, integration, job, choiceVars>>

ArgoCreates(s, u, k) ==
  /\ u \notin known
  /\ known' = known \cup {u}
  /\ \A i \in argo[s] : i.key # k
  /\ Lists(s, argo[s] \cup {[uid |-> u, key |-> k]})

\* The application is put in another project.
ArgoMoves(s, i, k) ==
  /\ \A other \in argo[s] : other.key # k
  /\ Lists(s, (argo[s] \ {i}) \cup {[i EXCEPT !.key = k]})
  /\ UNCHANGED known

ArgoDeletes(s, i) ==
  /\ Lists(s, argo[s] \ {i})
  /\ UNCHANGED known

\* The agent in a private cluster reads its applications; its call may arrive at any
\* later time, or never.
AgentReads(s) ==
  /\ Spend("imports")
  /\ posted' = posted \cup {argo[s]}
  /\ UNCHANGED <<argoVars, apps, integration, job, choiceVars>>

-----------------------------------------------------------------------------
(* Connecting and disconnecting. *)

Choose(s, row) ==
  /\ Spend("choices")
  /\ integration' = row
  /\ chosen' = s
  /\ crossed' = Syncing
  /\ UNCHANGED <<argoVars, posted, apps, job>>

\* MUTANT: a url that is stored already is kept.
connectKeepingUrl(s) ==
  Choose(s, [url |-> IF integration.url = NoSource THEN s ELSE integration.url, token |-> s])

\* The probe went well; the sync that follows is a StartSync.
connect(s) == Choose(s, [url |-> s, token |-> s])

disconnect ==
  /\ integration # NoIntegration
  /\ Choose(NoSource, NoIntegration)

-----------------------------------------------------------------------------
(* The steps of a job. *)

\* Only job w changes.
Step(w, next) ==
  /\ job' = [job EXCEPT ![w] = next]
  /\ UNCHANGED <<argoVars, posted, integration, choiceVars>>

\* A job starts, and overlaps with those that run.
Start(w, next) ==
  /\ ~Running(w)
  /\ job' = [v \in Worker |->
       IF v = w THEN [next EXCEPT !.alone = \A other \in Worker : ~Running(other)]
       ELSE IF Running(v) THEN [job[v] EXCEPT !.alone = FALSE]
       ELSE job[v]]
  /\ UNCHANGED <<argoVars, apps, integration, choiceVars>>

\* The stored connection when it is complete, else that of the environment.
connectionForOrganization ==
  IF integration.url # NoSource /\ integration.token # NoSource THEN integration
  ELSE [url |-> Env, token |-> Env]

StartSync(w) ==
  /\ connectionForOrganization # NoIntegration
  /\ Start(w, [Idle EXCEPT !.op = "sync", !.phase = "list",
                           !.conn = connectionForOrganization])
  /\ UNCHANGED <<posted, spent>>

\* A server accepts its own tokens; the probe of another ends the sync.
List(w) ==
  /\ job[w].phase = "list"
  /\ LET conn == job[w].conn
     IN  Step(w, IF conn.url # conn.token THEN Idle
                 ELSE [job[w] EXCEPT !.phase = "items", !.fetched = argo[conn.url],
                                     !.todo = argo[conn.url]])
  /\ UNCHANGED <<apps, spent>>

\* A connector's snapshot has arrived.
importDiscovered(w, items) ==
  /\ items \in posted
  /\ posted' = posted \ {items}
  /\ Start(w, [Idle EXCEPT !.op = "import", !.phase = "items",
                           !.fetched = items, !.todo = items])
  /\ UNCHANGED spent

\* The next item of the list, in whatever order Argo CD has it; findFirst returns any
\* of the rows with its uid.
FindByUid(w, i) ==
  /\ job[w].phase = "items"
  /\ i \in job[w].todo
  /\ \E row \in IF UidHolder(i.uid) = {} THEN {NoId} ELSE UidHolder(i.uid) :
       Step(w, [job[w] EXCEPT !.phase = "write", !.todo = @ \ {i}, !.item = i, !.row = row])
  /\ UNCHANGED <<apps, spent>>

\* The item's error is caught and logged, and the loop goes on.
SkipItem(j) ==
  [j EXCEPT !.phase = "items", !.failed = @ \cup {j.item.uid}, !.item = NoItem,
            !.row = NoId, !.had = FALSE]

SaveItem(w, table, id) ==
  /\ apps' = table
  /\ Step(w, [job[w] EXCEPT !.phase = "history", !.row = id])

Named(table, id, i) == [table EXCEPT ![id].uid = i.uid, ![id].key = i.key]

\* MUTANT: a row that was found by its uid keeps its project.
UpdateByIdInPlace(w) ==
  /\ job[w].phase = "write"
  /\ job[w].row \in DOMAIN apps
  /\ SaveItem(w, apps, job[w].row)
  /\ UNCHANGED spent

\* MUTANT: the table has no unique index on project and name.
UpdatableAnyKey(j) == j.row \in DOMAIN apps

\* update by id: fails when the row is gone or the key is another row's.
Updatable(j) == j.row \in DOMAIN apps /\ KeyHolder(j.item.key) \subseteq {j.row}

UpdateById(w) ==
  /\ job[w].phase = "write"
  /\ Updatable(job[w])
  /\ SaveItem(w, Named(apps, job[w].row, job[w].item), job[w].row)
  /\ UNCHANGED spent

UpdateFails(w) ==
  /\ job[w].phase = "write"
  /\ job[w].row # NoId
  /\ ~Updatable(job[w])
  /\ Step(w, SkipItem(job[w]))
  /\ UNCHANGED <<apps, spent>>

\* upsert by key: a row of that key is taken over, whatever its uid.
UpsertByKey(w) ==
  /\ job[w].phase = "write"
  /\ job[w].row = NoId
  /\ LET i == job[w].item
     IN  IF KeyHolder(i.key) # {}
           THEN /\ \E id \in KeyHolder(i.key) : SaveItem(w, Named(apps, id, i), id)
                /\ UNCHANGED spent
           ELSE /\ SaveItem(w, [id \in DOMAIN apps \cup {NextId} |->
                                  IF id = NextId
                                    THEN [uid |-> i.uid, key |-> i.key, children |-> {}]
                                    ELSE apps[id]], NextId)
                /\ Spend("ids")

RowExists(w) == job[w].row \in DOMAIN apps

\* Children are written; a row that is gone fails its item.
WriteChild(w, phase, child, next) ==
  /\ job[w].phase = phase
  /\ IF RowExists(w)
       THEN /\ apps' = [apps EXCEPT ![job[w].row].children = @ \cup {child}]
            /\ Step(w, next)
       ELSE /\ Step(w, SkipItem(job[w]))
            /\ UNCHANGED apps
  /\ UNCHANGED spent

\* findMany of the row's deployments.
ReadHistory(w) ==
  /\ job[w].phase = "history"
  /\ Step(w, [job[w] EXCEPT !.phase = "merge",
       !.had = RowExists(w) /\ "deployments" \in apps[job[w].row].children])
  /\ UNCHANGED <<apps, spent>>

HistoryDone(j) == [j EXCEPT !.phase = "clear", !.had = FALSE]

\* The merge inserts deployments, or updates those it read.
WriteHistory(w) == WriteChild(w, "merge", "deployments", HistoryDone(job[w]))

\* It keeps all those it read: nothing is written, and nothing asked of the row.
KeepHistory(w) ==
  /\ job[w].phase = "merge"
  /\ job[w].had
  /\ Step(w, HistoryDone(job[w]))
  /\ UNCHANGED <<apps, spent>>

\* A deployment it read and updates was removed by another job.
UpdateHistoryFails(w) ==
  /\ job[w].phase = "merge"
  /\ job[w].had /\ ~job[w].alone
  /\ Step(w, SkipItem(job[w]))
  /\ UNCHANGED <<apps, spent>>

\* The transaction: it fails only if another job ran beside this one.
MergeHistory(w) ==
  \E removed \in IF job[w].had /\ ~job[w].alone THEN BOOLEAN ELSE {FALSE} :
    IF removed THEN UpdateHistoryFails(w) ELSE WriteHistory(w)

replaceHistory(w) == ReadHistory(w) \/ MergeHistory(w) \/ KeepHistory(w)

ClearEvents(w) ==
  /\ job[w].phase = "clear"
  /\ apps' = [id \in DOMAIN apps |->
       IF id = job[w].row THEN [apps[id] EXCEPT !.children = @ \ {"events"}] ELSE apps[id]]
  /\ Step(w, [job[w] EXCEPT !.phase = "signals"])
  /\ UNCHANGED spent

CreateEvents(w) ==
  WriteChild(w, "signals", "events", [job[w] EXCEPT !.phase = "environment"])

replaceObservedEvents(w) == ClearEvents(w) \/ CreateEvents(w)

\* MUTANT: the row is not remembered as seen.
ensureEnvironmentUnseen(w) ==
  WriteChild(w, "environment", "environments",
    [job[w] EXCEPT !.phase = "items", !.item = NoItem, !.row = NoId])

ensureEnvironment(w) ==
  WriteChild(w, "environment", "environments",
    [job[w] EXCEPT !.phase = "items", !.seen = @ \cup {job[w].row},
                   !.item = NoItem, !.row = NoId])

-----------------------------------------------------------------------------
(* What a sync does after the loop. *)

ItemsDone(w) == job[w].phase = "items" /\ job[w].todo = {}

\* MUTANT: rows without a uid count as stale.
StaleOrLegacy(j) == DOMAIN apps \ j.seen

\* MUTANT: only the rows of the sync's own list can be stale.
StaleOfList(j) ==
  {id \in DOMAIN apps \ j.seen : \E i \in j.fetched : i.uid = apps[id].uid}

\* The rows with a uid, from whichever source, that this sync did not save.
Stale(j) == {id \in DOMAIN apps \ j.seen : apps[id].uid # NoUid}

FindStale(w) ==
  /\ ItemsDone(w)
  /\ job[w].op = "sync"
  /\ Step(w, [job[w] EXCEPT !.stale = Stale(job[w]),
       !.phase = IF Stale(job[w]) = {} THEN "record" ELSE "deployments"])
  /\ UNCHANGED <<apps, spent>>

DeleteChildren(w, child, next) ==
  /\ job[w].phase = child
  /\ apps' = [id \in DOMAIN apps |->
       IF id \in job[w].stale THEN [apps[id] EXCEPT !.children = @ \ {child}] ELSE apps[id]]
  /\ Step(w, [job[w] EXCEPT !.phase = next])
  /\ UNCHANGED spent

DeleteDeployments(w) == DeleteChildren(w, "deployments", "environments")
DeleteEnvironments(w) == DeleteChildren(w, "environments", "events")
DeleteEvents(w) == DeleteChildren(w, "events", "applications")

\* deleteMany fails as a whole, and the sync with it, while any row has deployments or
\* environments; events go with their application.
DeleteApplications(w) ==
  /\ job[w].phase = "applications"
  /\ IF \A id \in job[w].stale \cap DOMAIN apps : apps[id].children \subseteq {"events"}
       THEN /\ apps' = [id \in DOMAIN apps \ job[w].stale |-> apps[id]]
            /\ Step(w, [job[w] EXCEPT !.phase = "record"])
       ELSE /\ Step(w, Idle)
            /\ UNCHANGED apps
  /\ UNCHANGED spent

\* MUTANT: the token is recorded with the url.
RecordWithToken(w) ==
  /\ job[w].phase = "record"
  /\ integration' = job[w].conn
  /\ job' = [job EXCEPT ![w] = Idle]
  /\ UNCHANGED <<argoVars, posted, apps, choiceVars, spent>>

\* The url the sync used, and no token: the row is created or updated.
Record(w) ==
  /\ job[w].phase = "record"
  /\ integration' = [integration EXCEPT !.url = job[w].conn.url]
  /\ job' = [job EXCEPT ![w] = Idle]
  /\ UNCHANGED <<argoVars, posted, apps, choiceVars, spent>>

FinishImport(w) ==
  /\ ItemsDone(w)
  /\ job[w].op = "import"
  /\ Step(w, Idle)
  /\ UNCHANGED <<apps, spent>>

\* A query of an item fails and is caught.
ItemFails(w) ==
  /\ job[w].phase \in ItemPhase
  /\ Spend("failures")
  /\ Step(w, SkipItem(job[w]))
  /\ UNCHANGED apps

\* A request or a query outside the loop fails, or the process restarts.
Abandon(w) ==
  /\ Running(w)
  /\ Spend("failures")
  /\ Step(w, Idle)
  /\ UNCHANGED apps

-----------------------------------------------------------------------------
Argo(s) ==
  \/ \E u \in Uid, k \in Key : ArgoCreates(s, u, k)
  \/ \E i \in argo[s] : ArgoDeletes(s, i) \/ \E k \in Key : ArgoMoves(s, i, k)

Save(w) ==
  \/ \E i \in job[w].todo : FindByUid(w, i)
  \/ UpdateById(w) \/ UpdateFails(w) \/ UpsertByKey(w)
  \/ replaceHistory(w) \/ replaceObservedEvents(w) \/ ensureEnvironment(w)

Remove(w) ==
  \/ FindStale(w) \/ DeleteDeployments(w) \/ DeleteEnvironments(w)
  \/ DeleteEvents(w) \/ DeleteApplications(w)

Progress(w) == List(w) \/ Save(w) \/ Remove(w) \/ Record(w) \/ FinishImport(w)

Next ==
  \/ \E s \in Source : Argo(s) \/ connect(s)
  \/ \E s \in Cluster : AgentReads(s)
  \/ disconnect
  \/ \E w \in Worker :
       \/ StartSync(w) \/ Progress(w) \/ ItemFails(w) \/ Abandon(w)
       \/ \E items \in posted : importDiscovered(w, items)

Spec == Init /\ [][Next]_vars

\* The cron job starts a sync every five minutes, and a running job goes on.
Fairness == \A w \in Worker : WF_vars(StartSync(w)) /\ WF_vars(Progress(w))

FairSpec == Spec /\ Fairness
-----------------------------------------------------------------------------
\* A table, and a job, of which every id is below n.
TableOK(table, n) ==
  /\ table = [id \in DOMAIN table |-> table[id]]
  /\ DOMAIN table \subseteq 1..n - 1
  /\ \A id \in DOMAIN table : table[id] \in App
  /\ \A id, other \in DOMAIN table : table[id].key = table[other].key => id = other

JobOK(j, n) ==
  /\ (j.phase = "idle") <=> (j = Idle)
  /\ j.todo \subseteq j.fetched
  /\ j.phase \in ItemPhase => j.item \in j.fetched
  /\ j.row # NoId => j.row \in 1..n - 1
  /\ j.seen \cup j.stale \subseteq 1..n - 1

TypeOK ==
  /\ argo \in [Source -> SUBSET Item]
  /\ known \subseteq Uid
  /\ posted \subseteq SUBSET Item
  /\ TableOK(apps, NextId)
  /\ integration \in Integration
  /\ job \in [Worker -> Job]
  /\ \A w \in Worker : JobOK(job[w], NextId)
  /\ chosen \in Source \cup {NoSource}
  /\ crossed \in BOOLEAN
  /\ spent \in [DOMAIN Bound -> Nat]
  /\ \A kind \in DOMAIN Bound : spent[kind] <= Bound[kind]

Imported == {id \in DOMAIN apps : apps[id].uid # NoUid}
ItemOf(id) == [uid |-> apps[id].uid, key |-> apps[id].key]

\* Each of these items has one row, with these children, and no other row has a uid.
Mirrors(items, children) ==
  /\ {ItemOf(id) : id \in Imported} = items
  /\ \A i \in items : Cardinality(UidHolder(i.uid)) = 1
  /\ \A id \in Imported : children \subseteq apps[id].children

\* When a sync that no other job overlapped gets to its end, the organization has the
\* applications it listed, less those whose save failed, each in its project with its
\* history: also after applications moved, changed places or were made anew
\* (syncOrganization 269-310, upsertApplication 497-523).
MirrorsArgo ==
  \A w \in Worker : job[w].phase = "record" /\ job[w].alone =>
    Mirrors({i \in job[w].fetched : i.uid \notin job[w].failed}, Child)

\* Rows without a uid, which no sync has imported, are never removed, and no job leaves a
\* row less identified than it found it.
LegacyRowsStay ==
  [][\A id \in DOMAIN apps :
       /\ apps[id].uid = NoUid => id \in DOMAIN apps'
       /\ id \in DOMAIN apps' /\ apps[id].uid # NoUid => apps'[id].uid # NoUid]_vars

\* The stored token is the one last connected, and after a disconnect there is none: not
\* even a sync that ran over the former connection brings it back.
TokenAsChosen == integration.token = chosen

\* Unless a sync was running when the connection was chosen, its url is stored with it;
\* after a disconnect only the environment's url is recorded.
ConnectionAsChosen ==
  ~crossed =>
    IF chosen # NoSource THEN integration.url = chosen
    ELSE integration.url \in {NoSource, Env}

Target == IF chosen # NoSource THEN chosen ELSE Env

\* When Argo CD and the connection stop changing, connectors stop importing and queries
\* stop failing, the applications become those of the connected server, with their
\* histories, and stay so; their signals are taken away and written anew by every sync.
EventuallyMirrors ==
  <>[](~crossed /\ Target # NoSource => Mirrors(argo[Target], Child \ {"events"}))

\* The stored connection is the chosen one once no sync runs, also when a sync was running
\* at the time (frontend/src/app/integrations/page.tsx 77, 162).
SavedAsChosen == ~Syncing => integration = [url |-> chosen, token |-> chosen]

\* An application its server never stopped listing keeps the history it has recorded
\* (deployment-history.ts 13, 23).
ListedKeepsHistory ==
  [][\A id \in Imported :
       /\ "deployments" \in apps[id].children
       /\ \E s \in Source : \E i \in argo[s] : i.uid = apps[id].uid
       => id \in DOMAIN apps' /\ "deployments" \in apps'[id].children]_vars
=============================================================================
