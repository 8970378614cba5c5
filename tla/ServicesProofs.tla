--------------------------- MODULE ServicesProofs ---------------------------
(***************************************************************************)
(* Proofs about the services with one invariant each: the notifications of *)
(* Workspace, for every number of rows and requests; the destinations of   *)
(* ArgoClient, for every set of addresses; the answers of                  *)
(* IntelligencePage, for every set of applications and number of acts; and *)
(* the scores and headline of Analysis, for every number of deployments.   *)
(* Each has an inductive invariant of its own.                             *)
(***************************************************************************)
EXTENDS Workspace, ArgoClient, IntelligencePage, Analysis, FiniteSetTheorems, TLAPS

WorkspaceSpec == WorkspaceInit /\ [][WorkspaceNext]_workspaceVars
ClientSpec == ClientInit /\ [][ClientNext]_clientVars
PageSpec == PageInit /\ [][PageNext]_pageVars
AnalysisSpec == AnalysisInit /\ [][AnalysisNext]_analysisVars

-----------------------------------------------------------------------------
(* Workspace. *)

\* What is left to do is a list that the proof looks at the head of only: no type of it is
\* asked for, which would take an induction over Row.
WorkspaceTypeOK ==
  /\ rows \in [Rows -> {"absent", "saved", "removed"}]
  /\ notices \in [Rows -> [Kind -> [unread : Nat, read : Nat]]]
  /\ reading = [r \in Reader |-> [at |-> reading[r].at, todo |-> reading[r].todo]]

\* The requests that found no notification of a kind and will create one.
Creators(a, k) ==
  {r \in Reader : reading[r].at = "create" /\ Next1(r)[1] = a /\ Next1(r)[2] = k}

\* A row that is saved has no more notifications, with those about to be created, than
\* requests; a removed row keeps what it had; one that was never there has none.
CopiesBounded ==
  \A a \in Rows : \A k \in Kind :
    /\ rows[a] = "saved" => Copies(a, k) + Cardinality(Creators(a, k)) <= Cardinality(Reader)
    /\ rows[a] = "removed" => Copies(a, k) <= Cardinality(Reader)
    /\ rows[a] = "absent" => Copies(a, k) = 0

WorkspaceInv == WorkspaceTypeOK /\ CopiesBounded

-----------------------------------------------------------------------------
(* ArgoClient. *)

\* What a user may be told at the end of a call.
Told ==
  {"none", "destination refused", "redirects", "token rejected", "cannot list projects",
   "cannot list applications", "no API", "status", "certificate expired",
   "certificate not trusted", "certificate name", "no answer in time", "not resolved",
   "no connection", "not reached"}
Call == [op : {"none", "test", "connect", "list"},
         at : {"over", "check", "applications", "projects"},
         url : Url, pinned : SUBSET Address, seen : SUBSET Address, told : Told]

ClientTypeOK ==
  /\ production \in BOOLEAN
  /\ dns \subseteq Address
  /\ row \subseteq [url : Url, token : Token]
  /\ \A r, s \in row : r = s
  /\ call \in Call

Passes(url) == url.https /\ ~url.userinfo /\ url.host \notin KnownName

\* What a request is bound to was checked, and so was the URL that a connect will store.
CallChecked ==
  /\ call.seen \subseteq call.pinned
  /\ \A a \in call.pinned : ~Refused(a)
  /\ call.at = "check" => call.pinned = {}
  /\ call.at \in {"applications", "projects"} => Passes(call.url)

ClientInv ==
  /\ ClientTypeOK
  /\ CallChecked
  /\ \A r \in row : Passes(r.url)

-----------------------------------------------------------------------------
(* IntelligencePage. *)

Asked(kinds) == [kind : kinds, app : App \cup {NoApp}, token : {"none"} \cup StoredToken, live : BOOLEAN]

PageTypeOK ==
  /\ listed \subseteq App
  /\ requests \subseteq Asked(Part \cup {"workspace"})
  /\ answers \in [Part -> App \cup {NoApp}]
  /\ selected \in App \cup {NoApp}
  /\ token \in {"none"} \cup StoredToken
  /\ loading \in BOOLEAN

\* Before the workspace has arrived nothing is selected, asked for or shown.
BeforeWorkspace ==
  ready = "unknown" \/ (\E r \in requests : r.kind = "workspace") =>
    /\ \A r, q \in requests : r = q /\ r.kind = "workspace"
    /\ listed = {} /\ selected = NoApp /\ answers = [k \in Part |-> NoApp] /\ errors = {}
UnaskedBefore == ready = "unknown" => requests = {}

\* One request of a part is live at most, it asks for the selected application, and until
\* it is answered no failure of that part is shown.
LiveOK ==
  \A r \in requests : r.kind \in Part /\ r.live =>
    /\ r.app = selected /\ r.kind \notin errors
    /\ \A q \in requests : q.kind = r.kind /\ q.live => q = r

PageInv ==
  /\ PageTypeOK
  /\ BeforeWorkspace
  /\ UnaskedBefore
  /\ LiveOK
  /\ AnswersForSelected

-----------------------------------------------------------------------------
(* Workspace: how many notifications are created. *)

\* The requests that are about to create: how their number changes.
LEMMA CreatorsCounted ==
  \A a, k : /\ IsFiniteSet(Creators(a, k)) /\ Cardinality(Creators(a, k)) \in Nat
            /\ Cardinality(Reader) \in Nat /\ Cardinality(Creators(a, k)) <= Cardinality(Reader)
<1>1. \A a, k : Creators(a, k) \subseteq Reader
  BY DEF Creators
<1> QED
  BY <1>1, ReaderAssumption, FS_Subset, FS_CardinalityType

LEMMA CopiesCounted ==
  ASSUME WorkspaceTypeOK, NEW a \in Rows, NEW k \in Kind
  PROVE  /\ notices[a][k] \in [unread : Nat, read : Nat] /\ Copies(a, k) \in Nat
         /\ rows[a] \in {"absent", "saved", "removed"}
<1>1. notices[a] \in [Kind -> [unread : Nat, read : Nat]]
  BY DEF WorkspaceTypeOK
<1>2. notices[a][k] \in [unread : Nat, read : Nat]
  BY <1>1
<1> QED
  BY <1>2 DEF Copies, WorkspaceTypeOK

\* A request goes on to h, and nothing is created or removed.
LEMMA ReaderMoves ==
  ASSUME WorkspaceInv, NEW r \in Reader, NEW at, NEW todo,
         reading' = [reading EXCEPT ![r] = [at |-> at, todo |-> todo]], UNCHANGED <<rows, notices>>,
         at = "create" => \/ reading[r].at = "create" /\ todo = reading[r].todo
                          \/ rows[Head(todo)[1]] # "saved"
                          \/ ~(Copies(Head(todo)[1], Head(todo)[2]) > 0)
  PROVE  WorkspaceInv'
<1>1. /\ \A q \in Reader \ {r} : reading'[q] = reading[q]
      /\ reading'[r].at = at /\ reading'[r].todo = todo
  BY DEF WorkspaceInv, WorkspaceTypeOK
<1>2. reading' = [q \in Reader |-> [at |-> reading'[q].at, todo |-> reading'[q].todo]]
  BY DEF WorkspaceInv, WorkspaceTypeOK
<1>3. WorkspaceTypeOK'
  BY <1>2 DEF WorkspaceInv, WorkspaceTypeOK
<1>4. ASSUME NEW a \in Rows, NEW k \in Kind, rows[a] = "saved"
      PROVE  (Copies(a, k) + Cardinality(Creators(a, k)))' <= Cardinality(Reader)
  <2>1. Copies(a, k)' = Copies(a, k) /\ Copies(a, k) \in Nat
    BY CopiesCounted DEF Copies, WorkspaceInv
  <2>2. /\ Copies(a, k) + Cardinality(Creators(a, k)) <= Cardinality(Reader)
        /\ Cardinality(Creators(a, k)) \in Nat /\ Cardinality(Reader) \in Nat
        /\ IsFiniteSet(Creators(a, k))
    BY <1>4, CreatorsCounted DEF WorkspaceInv, CopiesBounded
  <2>3. Creators(a, k)' \subseteq Creators(a, k) \/ ~(Copies(a, k) > 0)
    BY <1>1, <1>4 DEF Creators, Next1
  <2>4. CASE Creators(a, k)' \subseteq Creators(a, k)
    <3>1. Cardinality(Creators(a, k)') <= Cardinality(Creators(a, k)) /\ Cardinality(Creators(a, k)') \in Nat
      BY <2>2, <2>4, FS_Subset, FS_CardinalityType
    <3> QED
      BY <2>1, <2>2, <3>1
  <2>5. CASE ~(Copies(a, k) > 0)
    <3>1. Creators(a, k)' \subseteq Reader
      BY DEF Creators
    <3>2. Cardinality(Creators(a, k)') <= Cardinality(Reader) /\ Cardinality(Creators(a, k)') \in Nat
      BY <3>1, ReaderAssumption, FS_Subset, FS_CardinalityType
    <3> QED
      BY <2>1, <2>2, <2>5, <3>2
  <2> QED
    BY <2>3, <2>4, <2>5
<1>5. CopiesBounded'
  BY <1>4 DEF WorkspaceInv, CopiesBounded, Copies
<1> QED
  BY <1>3, <1>5 DEF WorkspaceInv

\* One that looked goes to create only when there is none, or the row is gone.
LEMMA FindKeeps ==
  ASSUME WorkspaceInv, NEW r \in Reader, UpsertFind(r)
  PROVE  WorkspaceInv'
<1>1. PICK t : t = reading[r].todo
  OBVIOUS
<1>2. reading[r] = [at |-> "find", todo |-> t]
  BY <1>1 DEF WorkspaceInv, WorkspaceTypeOK, UpsertFind
<1>3. UNCHANGED <<rows, notices>> /\ Next1(r) = Head(t)
  BY <1>1 DEF UpsertFind, Next1
<1>4. PICK n : n = Head(t)
  OBVIOUS
<1>5. CASE Copies(n[1], n[2]) > 0 /\ rows[n[1]] = "saved"
  <2>1. reading' = [reading EXCEPT ![r] = [at |-> "find", todo |-> Tail(t)]]
    BY <1>1, <1>3, <1>4, <1>5 DEF UpsertFind
  <2> QED
    BY <1>3, <2>1, ReaderMoves
<1>6. CASE ~(Copies(n[1], n[2]) > 0 /\ rows[n[1]] = "saved")
  <2>1. reading' = [reading EXCEPT ![r] = [reading[r] EXCEPT !.at = "create"]]
    BY <1>3, <1>4, <1>6 DEF UpsertFind
  <2>2. [reading[r] EXCEPT !.at = "create"] = [at |-> "create", todo |-> t]
    BY <1>2
  <2>3. reading' = [reading EXCEPT ![r] = [at |-> "create", todo |-> t]]
    BY <2>1, <2>2
  <2> QED
    BY <1>3, <1>4, <1>6, <2>3, ReaderMoves
<1> QED
  BY <1>5, <1>6

\* One that creates is one less of those that will.
LEMMA CreateKeeps ==
  ASSUME WorkspaceInv, NEW r \in Reader, UpsertCreate(r)
  PROVE  WorkspaceInv'
<1>1. PICK n : n = Next1(r)
  OBVIOUS
<1>2. CASE rows[n[1]] # "saved"
  <2>1. /\ reading' = [reading EXCEPT ![r] = [at |-> "free", todo |-> <<>>]]
        /\ UNCHANGED <<rows, notices>>
    BY <1>1, <1>2 DEF UpsertCreate, NotReading
  <2> QED
    BY <2>1, ReaderMoves
<1>3. CASE rows[n[1]] = "saved"
  <2>1. /\ notices' = [notices EXCEPT ![n[1]][n[2]].unread = @ + 1]
        /\ reading' = [reading EXCEPT ![r] = [at |-> "find", todo |-> Tail(reading[r].todo)]]
        /\ rows' = rows /\ reading[r].at = "create"
    BY <1>1, <1>3 DEF UpsertCreate
  <2>2. /\ \A q \in Reader \ {r} : reading'[q] = reading[q]
        /\ reading'[r].at = "find"
    BY <2>1 DEF WorkspaceInv, WorkspaceTypeOK
  <2>3. reading' = [q \in Reader |-> [at |-> reading'[q].at, todo |-> reading'[q].todo]]
    BY <2>1 DEF WorkspaceInv, WorkspaceTypeOK
  <2>4. ASSUME NEW a \in Rows, NEW k \in Kind
        PROVE  notices'[a][k] = IF n[1] = a /\ n[2] = k
                                  THEN [notices[a][k] EXCEPT !.unread = @ + 1] ELSE notices[a][k]
    BY <2>1 DEF WorkspaceInv, WorkspaceTypeOK
  <2>5. notices' \in [Rows -> [Kind -> [unread : Nat, read : Nat]]]
    <3>1. ASSUME NEW a \in Rows, NEW k \in Kind
          PROVE  notices'[a][k] \in [unread : Nat, read : Nat]
      <4>1. PICK c \in [unread : Nat, read : Nat] : c = notices[a][k]
        BY CopiesCounted DEF WorkspaceInv
      <4>2. [c EXCEPT !.unread = @ + 1] \in [unread : Nat, read : Nat]
        BY <4>1
      <4> QED
        BY <2>4, <4>1, <4>2
    <3>2. notices' = [a \in Rows |-> [k \in Kind |-> notices'[a][k]]]
      BY <2>1 DEF WorkspaceInv, WorkspaceTypeOK
    <3> QED
      BY <3>1, <3>2
  <2>6. WorkspaceTypeOK'
    BY <2>1, <2>3, <2>5 DEF WorkspaceInv, WorkspaceTypeOK
  <2>7. ASSUME NEW a \in Rows, NEW k \in Kind, n[1] = a, n[2] = k
        PROVE  (Copies(a, k) + Cardinality(Creators(a, k)))' <= Cardinality(Reader)
    <3>1. Copies(a, k)' = Copies(a, k) + 1 /\ Copies(a, k) \in Nat
      <4>1. PICK c \in [unread : Nat, read : Nat] : c = notices[a][k]
        BY CopiesCounted DEF WorkspaceInv
      <4>2. notices'[a][k] = [c EXCEPT !.unread = @ + 1]
        BY <2>4, <2>7, <4>1
      <4>3. notices'[a][k].unread = c.unread + 1 /\ notices'[a][k].read = c.read
        BY <4>1, <4>2
      <4> QED
        BY <4>1, <4>3 DEF Copies
    <3>2. Creators(a, k)' = Creators(a, k) \ {r} /\ r \in Creators(a, k)
      BY <1>1, <2>1, <2>2, <2>7 DEF Creators, Next1
    <3>3. Cardinality(Creators(a, k)') = Cardinality(Creators(a, k)) - 1
      BY <3>2, CreatorsCounted, FS_RemoveElement
    <3> QED
      BY <1>3, <2>7, <3>1, <3>3, CreatorsCounted DEF WorkspaceInv, CopiesBounded
  <2>8. ASSUME NEW a \in Rows, NEW k \in Kind, ~(n[1] = a /\ n[2] = k)
        PROVE  Copies(a, k)' = Copies(a, k) /\ Creators(a, k)' = Creators(a, k)
    <3>1. Copies(a, k)' = Copies(a, k)
      BY <2>4, <2>8 DEF Copies
    <3>2. r \notin Creators(a, k) /\ r \notin Creators(a, k)'
      BY <1>1, <2>2, <2>8 DEF Creators
    <3>3. \A q \in Reader \ {r} : q \in Creators(a, k) <=> q \in Creators(a, k)'
      BY <2>2 DEF Creators, Next1
    <3> QED
      BY <3>1, <3>2, <3>3 DEF Creators
  <2>9. CopiesBounded'
    <3>1. ASSUME NEW a \in Rows, NEW k \in Kind
          PROVE  /\ rows'[a] = "saved" =>
                      (Copies(a, k) + Cardinality(Creators(a, k)))' <= Cardinality(Reader)
                 /\ rows'[a] = "removed" => Copies(a, k)' <= Cardinality(Reader)
                 /\ rows'[a] = "absent" => Copies(a, k)' = 0
      <4>1. CASE n[1] = a /\ n[2] = k
        BY <1>3, <2>1, <2>7, <4>1
      <4>2. CASE ~(n[1] = a /\ n[2] = k)
        BY <2>1, <2>8, <4>2 DEF WorkspaceInv, CopiesBounded
      <4> QED
        BY <4>1, <4>2
    <3> QED
      BY <3>1 DEF CopiesBounded
  <2> QED
    BY <2>6, <2>9 DEF WorkspaceInv
<1> QED
  BY <1>2, <1>3

\* The rows change: an application that is saved had no notifications, and one that is
\* removed keeps what it has.
LEMMA RowsMove ==
  ASSUME WorkspaceInv, UNCHANGED notices,
         reading' = reading \/ \E r \in Reader : reading' = [reading EXCEPT ![r] = NotReading],
         rows' \in [Rows -> {"absent", "saved", "removed"}],
         \A a \in Rows : rows'[a] = rows[a] \/ rows[a] = "absent" \/ rows'[a] = "removed"
  PROVE  WorkspaceInv'
<1>1. reading' = [q \in Reader |-> [at |-> reading'[q].at, todo |-> reading'[q].todo]]
  BY DEF WorkspaceInv, WorkspaceTypeOK, NotReading
<1>2. WorkspaceTypeOK'
  BY <1>1 DEF WorkspaceInv, WorkspaceTypeOK
<1>3. ASSUME NEW a \in Rows, NEW k \in Kind
      PROVE  /\ rows'[a] = "saved" =>
                  (Copies(a, k) + Cardinality(Creators(a, k)))' <= Cardinality(Reader)
             /\ rows'[a] = "removed" => Copies(a, k)' <= Cardinality(Reader)
             /\ rows'[a] = "absent" => Copies(a, k)' = 0
  <2>1. Copies(a, k)' = Copies(a, k) /\ Copies(a, k) \in Nat
    BY CopiesCounted DEF Copies, WorkspaceInv
  <2>2. Creators(a, k)' \subseteq Creators(a, k) /\ Creators(a, k)' \subseteq Reader
    <3>1. CASE reading' = reading
      BY <3>1 DEF Creators, Next1
    <3>2. ASSUME NEW r \in Reader, reading' = [reading EXCEPT ![r] = NotReading]
          PROVE  Creators(a, k)' \subseteq Creators(a, k)
      <4>1. /\ \A q \in Reader \ {r} : reading'[q] = reading[q]
            /\ reading'[r].at = "free"
        BY <3>2 DEF NotReading, WorkspaceInv, WorkspaceTypeOK
      <4> QED
        BY <4>1 DEF Creators, Next1
    <3>3. Creators(a, k)' \subseteq Creators(a, k)
      BY <3>1, <3>2
    <3> QED
      BY <3>3 DEF Creators
  <2>3. /\ Cardinality(Creators(a, k)') <= Cardinality(Creators(a, k))
        /\ Cardinality(Creators(a, k)') <= Cardinality(Reader)
        /\ Cardinality(Creators(a, k)') \in Nat
    BY <2>2, CreatorsCounted, ReaderAssumption, FS_Subset, FS_CardinalityType
  <2>4. /\ rows[a] = "saved" => Copies(a, k) + Cardinality(Creators(a, k)) <= Cardinality(Reader)
        /\ rows[a] = "removed" => Copies(a, k) <= Cardinality(Reader)
        /\ rows[a] = "absent" => Copies(a, k) = 0
    BY DEF WorkspaceInv, CopiesBounded
  <2>5. /\ Cardinality(Creators(a, k)) \in Nat /\ Cardinality(Reader) \in Nat
        /\ rows[a] \in {"absent", "saved", "removed"}
        /\ rows'[a] = rows[a] \/ rows[a] = "absent" \/ rows'[a] = "removed"
    BY CreatorsCounted DEF WorkspaceInv, WorkspaceTypeOK
  <2>6. CASE rows[a] = "saved"
    BY <2>1, <2>3, <2>4, <2>5, <2>6
  <2>7. CASE rows[a] = "removed"
    BY <2>1, <2>4, <2>5, <2>7
  <2>8. CASE rows[a] = "absent"
    BY <2>1, <2>3, <2>4, <2>5, <2>8
  <2> QED
    BY <2>5, <2>6, <2>7, <2>8
<1>4. CopiesBounded'
  BY <1>3 DEF CopiesBounded
<1> QED
  BY <1>2, <1>4 DEF WorkspaceInv

\* A user marks: the copies stay as many.
LEMMA MarksKeep ==
  ASSUME WorkspaceInv, UNCHANGED <<rows, reading>>,
         notices' \in [Rows -> [Kind -> [unread : Nat, read : Nat]]],
         \A a \in Rows : \A k \in Kind :
           notices'[a][k].unread + notices'[a][k].read = Copies(a, k)
  PROVE  WorkspaceInv'
<1>1. WorkspaceTypeOK'
  BY DEF WorkspaceInv, WorkspaceTypeOK
<1>2. \A a \in Rows : \A k \in Kind : Copies(a, k)' = Copies(a, k) /\ Creators(a, k)' = Creators(a, k)
  BY DEF Copies, Creators, Next1
<1>3. CopiesBounded'
  BY <1>2 DEF WorkspaceInv, CopiesBounded
<1> QED
  BY <1>1, <1>3 DEF WorkspaceInv

LEMMA MarkAllKeeps ==
  ASSUME WorkspaceInv, MarkAllRead
  PROVE  WorkspaceInv'
<1>1. \A a \in Rows : \A k \in Kind :
        notices'[a][k] = [unread |-> 0, read |-> Copies(a, k)] /\ Copies(a, k) \in Nat
  BY CopiesCounted DEF MarkAllRead, WorkspaceInv
<1>2. notices' \in [Rows -> [Kind -> [unread : Nat, read : Nat]]]
  BY CopiesCounted DEF MarkAllRead, WorkspaceInv
<1> QED
  BY <1>1, <1>2, MarksKeep DEF MarkAllRead

LEMMA MarkKeeps ==
  ASSUME WorkspaceInv, NEW a \in Rows, NEW k \in Kind, MarkRead(a, k)
  PROVE  WorkspaceInv'
<1>1. PICK c \in [unread : Nat, read : Nat] : c = notices[a][k] /\ c.unread > 0
  BY CopiesCounted DEF MarkRead, WorkspaceInv
<1> DEFINE d == [unread |-> c.unread - 1, read |-> c.read + 1]
<1>2. notices' = [notices EXCEPT ![a][k] = d]
  BY <1>1 DEF MarkRead
<1>3. d \in [unread : Nat, read : Nat] /\ d.unread + d.read = c.unread + c.read
  BY <1>1
<1> HIDE DEF d
<1>4. notices' \in [Rows -> [Kind -> [unread : Nat, read : Nat]]]
  BY <1>2, <1>3 DEF WorkspaceInv, WorkspaceTypeOK
<1>5. \A b \in Rows : \A j \in Kind : notices'[b][j] = IF b = a /\ j = k THEN d ELSE notices[b][j]
  BY <1>2 DEF WorkspaceInv, WorkspaceTypeOK
<1>6. \A b \in Rows : \A j \in Kind : notices'[b][j].unread + notices'[b][j].read = Copies(b, j)
  BY <1>1, <1>3, <1>5 DEF Copies
<1> QED
  BY <1>4, <1>6, MarksKeep DEF MarkRead

\* WorkspaceInv holds at every time.
THEOREM WorkspaceInvariant == WorkspaceSpec => []WorkspaceInv
<1>1. WorkspaceInit => WorkspaceInv
  <2> SUFFICES ASSUME WorkspaceInit
               PROVE  WorkspaceInv
    OBVIOUS
  <2>1. WorkspaceTypeOK
    BY DEF WorkspaceInit, WorkspaceTypeOK, NotReading
  <2>2. \A a \in Rows : \A k \in Kind : Copies(a, k) = 0 /\ rows[a] = "absent"
    BY DEF WorkspaceInit, Copies
  <2> QED
    BY <2>1, <2>2 DEF WorkspaceInv, CopiesBounded
<1>2. WorkspaceInv /\ [WorkspaceNext]_workspaceVars => WorkspaceInv'
  <2> SUFFICES ASSUME WorkspaceInv, [WorkspaceNext]_workspaceVars
               PROVE  WorkspaceInv'
    OBVIOUS
  <2>1. rows \in [Rows -> {"absent", "saved", "removed"}]
    BY DEF WorkspaceInv, WorkspaceTypeOK
  <2>2. CASE Integrate \/ UNCHANGED workspaceVars
    BY <2>1, <2>2, RowsMove DEF Integrate, workspaceVars
  <2>3. CASE MarkAllRead
    BY <2>3, MarkAllKeeps
  <2>4. CASE \E a \in Rows : SyncRemoves(a)
    BY <2>1, <2>4, RowsMove DEF SyncRemoves
  <2>5. CASE \E a \in Rows : \E kinds \in SUBSET Kind : SyncStores(a, kinds)
    BY <2>1, <2>5, RowsMove DEF SyncStores
  <2>6. CASE \E a \in Rows : \E k \in Kind : MarkRead(a, k)
    BY <2>6, MarkKeeps
  <2>7. ASSUME NEW r \in Reader, SnapshotCounts(r)
        PROVE  WorkspaceInv'
    <3>1. PICK t : t = reading[r].todo
      OBVIOUS
    <3>2. reading[r] = [at |-> "free", todo |-> t]
      BY <2>7, <3>1 DEF SnapshotCounts, WorkspaceInv, WorkspaceTypeOK
    <3>3. [reading[r] EXCEPT !.at = "sync"] = [at |-> "sync", todo |-> t]
      BY <3>2
    <3>4. reading' = [reading EXCEPT ![r] = [at |-> "sync", todo |-> t]]
      BY <2>7, <3>3 DEF SnapshotCounts
    <3>5. UNCHANGED <<rows, notices>>
      BY <2>7 DEF SnapshotCounts
    <3> QED
      BY <3>4, <3>5, ReaderMoves
  <2>8. ASSUME NEW r \in Reader, LazySync(r)
        PROVE  WorkspaceInv'
    BY <2>1, <2>8, RowsMove DEF LazySync, Imports
  <2>9. ASSUME NEW r \in Reader, NotificationsStart(r)
        PROVE  WorkspaceInv'
    BY <2>9, ReaderMoves DEF NotificationsStart
  <2>10. ASSUME NEW r \in Reader, NotificationsEnd(r)
         PROVE  WorkspaceInv'
    BY <2>1, <2>10, RowsMove DEF NotificationsEnd
  <2> QED
    BY <2>2, <2>3, <2>4, <2>5, <2>6, <2>7, <2>8, <2>9, <2>10, FindKeeps, CreateKeeps DEF WorkspaceNext
<1> QED
  BY <1>1, <1>2, PTL DEF WorkspaceSpec

\* However often requests look and deployments fail again, an application has no more
\* notifications of one kind than requests run at once.
THEOREM NoticesHold == WorkspaceSpec => []NoticeCopies
<1>1. WorkspaceInv => NoticeCopies
  <2> SUFFICES ASSUME WorkspaceInv, NEW a \in Rows, NEW k \in Kind
               PROVE  Copies(a, k) <= Cardinality(Reader)
    BY DEF NoticeCopies
  <2>1. /\ Copies(a, k) \in Nat /\ rows[a] \in {"absent", "saved", "removed"}
        /\ Cardinality(Creators(a, k)) \in Nat /\ Cardinality(Reader) \in Nat
    BY CopiesCounted, CreatorsCounted DEF WorkspaceInv
  <2>2. /\ rows[a] = "saved" => Copies(a, k) + Cardinality(Creators(a, k)) <= Cardinality(Reader)
        /\ rows[a] = "removed" => Copies(a, k) <= Cardinality(Reader)
        /\ rows[a] = "absent" => Copies(a, k) = 0
    BY DEF WorkspaceInv, CopiesBounded
  <2> QED
    BY <2>1, <2>2
<1> QED
  BY <1>1, WorkspaceInvariant, PTL

-----------------------------------------------------------------------------
(* ArgoClient: what a call may reach. *)

\* The name of the organization is neither an address nor a name that the code knows.
LEMMA NamesApart == TheName \notin KnownName /\ \A a \in KnownName \cup {TheName} : a.kind \notin
                      {"public", "private", "reserved", "metadata"}
<1>1. TheName.kind = "the organization's"
  BY DEF TheName, Name
<1>2. \A a \in KnownName : a.kind \in {"local", "service", "internal"}
  BY DEF KnownName, Name
<1> QED
  BY <1>1, <1>2

\* What the check of a URL lets through.
LEMMA CheckedAddresses ==
  ASSUME NEW url \in Url, dns \subseteq Address
  PROVE  /\ assertSafeArgoUrl(url) \subseteq Address
         /\ \A a \in assertSafeArgoUrl(url) : ~Refused(a)
         /\ assertSafeArgoUrl(url) # {} => Passes(url)
BY DEF assertSafeArgoUrl, Passes, isBlockedHostname, Url

LEMMA NoCallFields ==
  /\ NoCall.at = "over" /\ NoCall.pinned = {} /\ NoCall.seen = {}
  /\ NamedUrl \in Url /\ Passes(NamedUrl)
<1>1. NamedUrl.host = TheName /\ NamedUrl.https /\ ~NamedUrl.userinfo /\ NamedUrl \in Url
  BY DEF NamedUrl, Url
<1> QED
  BY <1>1, NamesApart DEF NoCall, Passes

\* A step of a call that stores nothing.
LEMMA CallMoves ==
  ASSUME ClientInv,
         NEW c \in Call,
         call' = c, c.seen \subseteq c.pinned, \A a \in c.pinned : ~Refused(a),
         c.at = "check" => c.pinned = {},
         c.at \in {"applications", "projects"} => Passes(c.url),
         UNCHANGED <<production, environment, dns>>,
         row' \subseteq [url : Url, token : Token],
         \A r, s \in row' : r = s,
         \A r \in row' : Passes(r.url)
  PROVE  ClientInv'
<1>1. ClientTypeOK'
  BY DEF ClientInv, ClientTypeOK
<1>2. CallChecked'
  BY DEF CallChecked, Refused, isMetadataAddress, isNonPublicAddress
<1> QED
  BY <1>1, <1>2 DEF ClientInv, Passes

LEMMA RowKept ==
  ASSUME ClientInv
  PROVE  row \subseteq [url : Url, token : Token] /\ (\A r, s \in row : r = s) /\ \A r \in row : Passes(r.url)
BY DEF ClientInv, ClientTypeOK

LEMMA BeginKeeps ==
  ASSUME ClientInv, NEW op \in {"test", "connect", "list"}, NEW url \in Url, Begins(op, url),
         UNCHANGED <<production, environment, dns, row>>
  PROVE  ClientInv'
<1> DEFINE c == [op |-> op, at |-> "check", url |-> url, pinned |-> {}, seen |-> {}, told |-> "none"]
<1>1. call' = c
  BY DEF Begins, NoCall
<1>2. /\ c \in Call
      /\ c.seen = {} /\ c.pinned = {} /\ c.at = "check"
  BY DEF Call, Told
<1> HIDE DEF c
<1> QED
  BY <1>1, <1>2, RowKept, CallMoves

LEMMA EndKeeps ==
  ASSUME ClientInv, NEW told \in Told, Ends(told),
         UNCHANGED <<production, environment, dns, row>>
  PROVE  ClientInv'
<1> DEFINE c == [op |-> "none", at |-> "over", url |-> NamedUrl, pinned |-> {}, seen |-> {}, told |-> told]
<1>1. call' = c
  BY DEF Ends, NoCall
<1>2. /\ c \in Call
      /\ c.seen = {} /\ c.pinned = {} /\ c.at = "over"
  BY NoCallFields DEF Call, Told
<1> HIDE DEF c
<1> QED
  BY <1>1, <1>2, RowKept, CallMoves

\* An answer from one of the addresses that were checked ends the call, or connects.
LEMMA SuccessKeeps ==
  ASSUME ClientInv, NEW a \in call.pinned, Succeeds(a),
         UNCHANGED <<production, environment, dns>>,
         row' \subseteq [url : Url, token : Token],
         \A r, s \in row' : r = s,
         \A r \in row' : Passes(r.url)
  PROVE  ClientInv'
<1> DEFINE c == [op |-> "none", at |-> "over", url |-> NamedUrl, pinned |-> call.pinned,
                 seen |-> call.seen \cup {a}, told |-> "none"]
<1>1. call' = c
  BY DEF Succeeds, NoCall
<1>2. /\ c \in Call
      /\ c.seen \subseteq c.pinned /\ c.pinned = call.pinned /\ c.at = "over"
  BY NoCallFields DEF Call, Told, ClientInv, ClientTypeOK, CallChecked
<1> HIDE DEF c
<1>3. \A b \in c.pinned : ~Refused(b)
  BY <1>2 DEF ClientInv, CallChecked
<1> QED
  BY <1>1, <1>2, <1>3, CallMoves

LEMMA CheckKeeps ==
  ASSUME ClientInv, safeDestination
  PROVE  ClientInv'
<1>1. call.url \in Url /\ dns \subseteq Address
  BY DEF ClientInv, ClientTypeOK, Call
<1>2. CASE assertSafeArgoUrl(call.url) = {}
  BY <1>2, EndKeeps DEF safeDestination, Told
<1>3. CASE assertSafeArgoUrl(call.url) # {}
  <2>1. PICK S : S = assertSafeArgoUrl(call.url)
    OBVIOUS
  <2>2. S \subseteq Address /\ Passes(call.url) /\ \A a \in S : ~Refused(a)
    BY <1>1, <1>3, <2>1, CheckedAddresses
  <2> DEFINE c == [call EXCEPT !.at = "applications", !.pinned = S]
  <2>3. call' = c
    BY <1>3, <2>1 DEF safeDestination
  <2>4. /\ c \in Call
        /\ c.seen = call.seen /\ c.pinned = S /\ c.url = call.url
        /\ c.at = "applications"
    BY <2>2 DEF ClientInv, ClientTypeOK, Call
  <2>5. call.seen = {}
    BY DEF safeDestination, ClientInv, CallChecked
  <2> HIDE DEF c
  <2> QED
    BY <2>2, <2>3, <2>4, <2>5, RowKept, CallMoves DEF safeDestination
<1> QED
  BY <1>2, <1>3

LEMMA ToldInWords ==
  /\ \A status, resource : describeArgoHttpStatus(status, resource) \in Told
  /\ \A code : describeArgoTransportError(code) \in Told
BY DEF describeArgoHttpStatus, describeArgoTransportError, Told

LEMMA LookupPinned == \A S, f : createPinnedLookup(S, f) \subseteq S
BY DEF createPinnedLookup

LEMMA ApplicationsKeep ==
  ASSUME ClientInv, RequestApplications
  PROVE  ClientInv'
<1>1. PICK a \in call.pinned, status \in Status :
        IF status # 200 THEN Ends(describeArgoHttpStatus(status, "applications"))
        ELSE IF call.op = "list" THEN Succeeds(a)
        ELSE call' = [call EXCEPT !.at = "projects", !.seen = {a}]
  <2>1. PICK family \in {0, 4, 6} : \E a \in createPinnedLookup(call.pinned, family), status \in Status :
        IF status # 200 THEN Ends(describeArgoHttpStatus(status, "applications"))
        ELSE IF call.op = "list" THEN Succeeds(a)
        ELSE call' = [call EXCEPT !.at = "projects", !.seen = {a}]
    BY DEF RequestApplications
  <2>2. createPinnedLookup(call.pinned, family) \subseteq call.pinned
    BY LookupPinned
  <2>3. PICK a \in call.pinned : \E status \in Status :
        IF status # 200 THEN Ends(describeArgoHttpStatus(status, "applications"))
        ELSE IF call.op = "list" THEN Succeeds(a)
        ELSE call' = [call EXCEPT !.at = "projects", !.seen = {a}]
    BY <2>1, <2>2
  <2> QED
    BY <2>3
<1>2. UNCHANGED <<production, environment, dns, row>> /\ call.at = "applications"
  BY DEF RequestApplications
<1>3. CASE status # 200
  BY <1>1, <1>2, <1>3, EndKeeps, ToldInWords
<1>4. CASE status = 200 /\ call.op = "list"
  BY <1>1, <1>2, <1>4, SuccessKeeps, RowKept
<1>5. CASE status = 200 /\ call.op # "list"
  <2> DEFINE c == [call EXCEPT !.at = "projects", !.seen = {a}]
  <2>1. call' = c
    BY <1>1, <1>5
  <2>2. /\ c \in Call
        /\ c.seen \subseteq c.pinned /\ c.pinned = call.pinned /\ c.url = call.url
        /\ c.at = "projects"
    BY DEF ClientInv, ClientTypeOK, Call
  <2> HIDE DEF c
  <2>3. Passes(c.url) /\ \A b \in c.pinned : ~Refused(b)
    BY <1>2, <2>2 DEF ClientInv, CallChecked
  <2> QED
    BY <1>2, <2>1, <2>2, <2>3, RowKept, CallMoves
<1> QED
  BY <1>3, <1>4, <1>5

LEMMA ProjectsKeep ==
  ASSUME ClientInv, RequestProjects
  PROVE  ClientInv'
<1>1. PICK a \in call.pinned, status \in Status :
        /\ IF status = 200 THEN Succeeds(a) ELSE Ends(describeArgoHttpStatus(status, "projects"))
        /\ row' = IF status = 200 /\ call.op = "connect" THEN {[url |-> call.url, token |-> "stored"]}
                  ELSE row
  BY LookupPinned DEF RequestProjects
<1>2. UNCHANGED <<production, environment, dns>> /\ call.at = "projects"
  BY DEF RequestProjects
<1>3. CASE status # 200
  BY <1>1, <1>2, <1>3, EndKeeps, ToldInWords
<1>4. CASE status = 200
  <2>1. call.url \in Url /\ Passes(call.url)
    BY <1>2 DEF ClientInv, ClientTypeOK, CallChecked, Call
  <2>2. /\ row' \subseteq [url : Url, token : Token]
        /\ \A r, s \in row' : r = s
        /\ \A r \in row' : Passes(r.url)
    BY <1>1, <2>1, RowKept DEF Token
  <2> QED
    BY <1>1, <1>2, <1>4, <2>2, SuccessKeeps
<1> QED
  BY <1>3, <1>4

\* The name changes, not what a call is bound to.
LEMMA NameKeeps ==
  ASSUME ClientInv, NameChanges
  PROVE  ClientInv'
<1>1. dns' \subseteq Address /\ UNCHANGED <<production, environment, row, call>>
  BY DEF NameChanges, Records
<1> QED
  BY <1>1 DEF ClientInv, ClientTypeOK, CallChecked, Refused, isMetadataAddress, isNonPublicAddress, Passes

\* The row alone changes, and holds a URL that passes.
LEMMA RowMoves ==
  ASSUME ClientInv, UNCHANGED <<production, environment, dns, call>>,
         row' \subseteq [url : Url, token : Token],
         \A r, s \in row' : r = s,
         \A r \in row' : Passes(r.url)
  PROVE  ClientInv'
BY DEF ClientInv, ClientTypeOK, CallChecked, Refused, isMetadataAddress, isNonPublicAddress, Passes

LEMMA KeyKeeps ==
  ASSUME ClientInv, KeyChanges
  PROVE  ClientInv'
<1>1. PICK r \in row : row' = {[r EXCEPT !.token = IF @ = "stored" THEN "undecryptable" ELSE "stored"]}
  BY DEF KeyChanges
<1> DEFINE s == [r EXCEPT !.token = IF @ = "stored" THEN "undecryptable" ELSE "stored"]
<1>2. r \in [url : Url, token : Token] /\ Passes(r.url)
  BY RowKept
<1>3. s \in [url : Url, token : Token] /\ s.url = r.url
  BY <1>2 DEF Token
<1>4. row' = {s}
  BY <1>1
<1> HIDE DEF s
<1> QED
  BY <1>2, <1>3, <1>4, RowMoves DEF KeyChanges

\* Every connection is of a URL that passed.
LEMMA ConnectionPasses ==
  ASSUME ClientInv,
         NEW c \in connectionForOrganization \cup UNION {syncAllConnected(others) : others \in BOOLEAN}
  PROVE  c.url \in Url /\ Passes(c.url)
<1>1. c \in connectionFromRow \cup fallbackConnection
  BY DEF connectionForOrganization, syncAllConnected, syncAllOrganizationsFromEnv
<1>2. CASE c \in fallbackConnection
  BY <1>2, NoCallFields DEF fallbackConnection
<1>3. CASE c \in connectionFromRow
  BY <1>3, RowKept DEF connectionFromRow
<1> QED
  BY <1>1, <1>2, <1>3

LEMMA UpsertKeeps ==
  ASSUME ClientInv, SyncUpserts
  PROVE  ClientInv'
<1>1. PICK c \in connectionForOrganization \cup UNION {syncAllConnected(others) : others \in BOOLEAN} :
        row' = IF row = {} THEN {[url |-> c.url, token |-> "none"]}
               ELSE {[r EXCEPT !.url = c.url] : r \in row}
  BY DEF SyncUpserts
<1>2. PICK u \in Url : u = c.url /\ Passes(u)
  BY ConnectionPasses
<1>3. CASE row = {}
  <2>1. row' = {[url |-> u, token |-> "none"]}
    BY <1>1, <1>2, <1>3
  <2> QED
    BY <1>2, <2>1, RowMoves DEF SyncUpserts, Token
<1>4. CASE row # {}
  <2>1. PICK r \in row : row = {r} /\ r \in [url : Url, token : Token]
    BY <1>4, RowKept
  <2> DEFINE s == [r EXCEPT !.url = u]
  <2>2. row' = {s}
    BY <1>1, <1>2, <1>4, <2>1
  <2>3. s \in [url : Url, token : Token] /\ s.url = u
    BY <2>1
  <2> HIDE DEF s
  <2> QED
    BY <1>2, <2>2, <2>3, RowMoves DEF SyncUpserts
<1> QED
  BY <1>3, <1>4

\* ClientInv holds at every time.
THEOREM ClientInvariant == ClientSpec => []ClientInv
<1>1. ClientInit => ClientInv
  <2> SUFFICES ASSUME ClientInit
               PROVE  ClientInv
    OBVIOUS
  <2>1. dns \subseteq Address
    BY DEF ClientInit, Records
  <2>2. NoCall \in Call
    BY NoCallFields DEF NoCall, Call, Told
  <2> QED
    BY <2>1, <2>2, NoCallFields DEF ClientInit, ClientInv, ClientTypeOK, CallChecked
<1>2. ClientInv /\ [ClientNext]_clientVars => ClientInv'
  <2> SUFFICES ASSUME ClientInv, [ClientNext]_clientVars
               PROVE  ClientInv'
    OBVIOUS
  <2>1. CASE \E url \in Url : Test(url) \/ Connect(url)
    BY <2>1, BeginKeeps DEF Test, Connect
  <2>2. CASE List
    <3>1. PICK c \in getArgoConnection : Begins("list", c.url)
      BY <2>2 DEF List
    <3>2. c.url \in Url
      BY <3>1, RowKept, NoCallFields DEF getArgoConnection, connectionFromRow, fallbackConnection
    <3> QED
      BY <2>2, <3>1, <3>2, BeginKeeps DEF List
  <2>3. CASE Disconnect
    BY <2>3, RowMoves DEF Disconnect
  <2>4. CASE safeDestination
    BY <2>4, CheckKeeps
  <2>5. CASE RequestApplications
    BY <2>5, ApplicationsKeep
  <2>6. CASE RequestProjects
    BY <2>6, ProjectsKeep
  <2>7. CASE RequestFails
    BY <2>7, EndKeeps, ToldInWords DEF RequestFails
  <2>8. CASE NameChanges
    BY <2>8, NameKeeps
  <2>9. CASE KeyChanges
    BY <2>9, KeyKeeps
  <2>10. CASE SyncUpserts
    BY <2>10, UpsertKeeps
  <2>11. CASE UNCHANGED clientVars
    BY <2>11, RowMoves, RowKept DEF clientVars
  <2> QED
    BY <2>1, <2>2, <2>3, <2>4, <2>5, <2>6, <2>7, <2>8, <2>9, <2>10, <2>11 DEF ClientNext
<1> QED
  BY <1>1, <1>2, PTL DEF ClientSpec

\* A request, a sync and the job agree on the connection, as the row is one.
LEMMA ConnectionsAgree ==
  ASSUME ClientInv
  PROVE  OneConnection
<1>1. undecryptable => connectionFromRow = {}
  BY RowKept DEF undecryptable, connectionFromRow
<1>2. connectionForOrganization = getArgoConnection
  BY <1>1 DEF connectionForOrganization, getArgoConnection
<1>3. ASSUME NEW others \in BOOLEAN
      PROVE  syncAllConnected(others) =
               IF undecryptable \/ (row = {} /\ others) THEN {} ELSE getArgoConnection
  <2>1. row = {} => connectionFromRow = {} /\ ~undecryptable
    BY DEF connectionFromRow, undecryptable
  <2> QED
    BY <1>1, <2>1 DEF syncAllConnected, syncAllOrganizationsFromEnv, getArgoConnection
<1>4. getArgoConnection # {} => hasCreds
  BY DEF getArgoConnection, hasCreds, connectionFromRow
<1> QED
  BY <1>2, <1>3, <1>4 DEF OneConnection

\* Whatever becomes of the name while a call runs, its requests go to checked addresses only, in
\* production public ones but for an IPv4 address that the URL has in IPv6 form, and the row
\* holds only a URL that passed.
THEOREM ReachHolds == ClientSpec => []ReachesChecked
<1>1. ClientInv => ReachesChecked
  <2> SUFFICES ASSUME ClientInv
               PROVE  ReachesChecked
    OBVIOUS
  <2>1. call.seen \subseteq call.pinned
    BY DEF ClientInv, CallChecked
  <2>2. \A a \in call.seen : /\ a.kind = "metadata" => a.form # "plain"
                             /\ production /\ a.kind # "public" => a.form = "hex"
    BY DEF ClientInv, CallChecked, Refused, isMetadataAddress, isNonPublicAddress
  <2>3. \A r \in row : r.url.https /\ ~r.url.userinfo /\ r.url.host \notin KnownName
    BY RowKept DEF Passes
  <2>4. getArgoConnection # {} => listsConnected
    BY DEF getArgoConnection, listsConnected, connectionFromRow
  <2>5. production /\ call.at = "check" /\ validateArgoServerUrl(call.url) # "none" =>
          assertSafeArgoUrl(call.url) = {}
    <3> SUFFICES ASSUME production, call.url.https, validateArgoServerUrl(call.url) # "none"
                 PROVE  assertSafeArgoUrl(call.url) = {}
      BY DEF assertSafeArgoUrl
    <3>1. CASE call.url.host \in {Name("local"), Name("service")}
      BY <3>1 DEF assertSafeArgoUrl, isBlockedHostname, KnownName
    <3>2. CASE /\ call.url.host \in Address /\ call.url.host.family = 4
               /\ call.url.host.kind \in {"private", "metadata"}
      <4>1. call.url.host.form = "plain" /\ call.url.host # TheName
        BY <3>2, NamesApart, AddressAssumption
      <4> QED
        BY <3>2, <4>1 DEF assertSafeArgoUrl, Refused, isNonPublicAddress
    <3> QED
      BY <3>1, <3>2 DEF validateArgoServerUrl
  <2> QED
    BY <2>1, <2>2, <2>3, <2>4, <2>5, ConnectionsAgree DEF ReachesChecked
<1> QED
  BY <1>1, ClientInvariant, PTL

-----------------------------------------------------------------------------
(* IntelligencePage: requests, and what becomes of them. *)

LEMMA PageStarts ==
  ASSUME PageInit
  PROVE  PageInv
<1>1. PageTypeOK
  BY DEF PageInit, PageTypeOK
<1>2. AnswersForSelected
  BY DEF PageInit, AnswersForSelected, Part
<1> QED
  BY <1>1, <1>2 DEF PageInit, PageInv, BeforeWorkspace, UnaskedBefore, LiveOK

\* What the effects ask for, whatever was on its way.
LEMMA LoadsAsk ==
  ASSUME PageTypeOK, NEW Q \in SUBSET Asked(Part), NEW a \in App \cup {NoApp}
  PROVE  /\ Loads(Q, a) \subseteq Asked(Part)
         /\ \A r \in Loads(Q, a) : r.live => r.app = a
         /\ \A r, q \in Loads(Q, a) : r.live /\ q.live /\ r.kind = q.kind => r = q
         /\ \A k \in Part : \E r \in Loads(Q, a) : r.kind = k /\ r.live
<1>1. getToken \in {"none"} \cup StoredToken
  BY DEF getToken, PageTypeOK
<1>2. ASSUME NEW r \in Cancelled(Q)
      PROVE  r \in Asked(Part) /\ ~r.live
  <2>1. PICK q \in Q : r = IF q.kind \in Part THEN [q EXCEPT !.live = FALSE] ELSE q
    BY DEF Cancelled
  <2>2. q \in Asked(Part) /\ q.kind \in Part
    BY DEF Asked
  <2>3. r = [q EXCEPT !.live = FALSE]
    BY <2>1, <2>2
  <2> QED
    BY <2>2, <2>3 DEF Asked
<1>3. ASSUME NEW k \in Part
      PROVE  /\ Request(k, a) \in Asked(Part)
             /\ Request(k, a).kind = k /\ Request(k, a).app = a /\ Request(k, a).live
  BY <1>1 DEF Request, Asked
<1>4. Loads(Q, a) = Cancelled(Q) \cup {Request(k, a) : k \in Part}
  BY DEF Loads
<1>5. \A r \in Loads(Q, a) : r.live => \E k \in Part : r = Request(k, a)
  BY <1>2, <1>4
<1>6. Loads(Q, a) \subseteq Asked(Part)
  BY <1>2, <1>3, <1>4
<1>7. \A r \in Loads(Q, a) : r.live => r.app = a
  BY <1>3, <1>5
<1>8. \A r, q \in Loads(Q, a) : r.live /\ q.live /\ r.kind = q.kind => r = q
  BY <1>3, <1>5
<1>9. \A k \in Part : \E r \in Loads(Q, a) : r.kind = k /\ r.live
  BY <1>3, <1>4
<1> QED
  BY <1>6, <1>7, <1>8, <1>9

\* A render that commits a selection and asks for it, with no workspace on its way.
LEMMA SelectionLoads ==
  ASSUME PageInv, NEW a \in App \cup {NoApp}, NEW S,
         S \subseteq Asked(Part),
         \A r \in S : r.live => r.app = a,
         \A r, q \in S : r.live /\ q.live /\ r.kind = q.kind => r = q,
         \A k \in Part : \E r \in S : r.kind = k /\ r.live,
         requests' = S, selected' = a, token' = getToken, errors' = {}, loading' = TRUE,
         answers' = answers, ready # "unknown", ready' = ready, listed' \subseteq App
  PROVE  PageInv'
<1>1. token' \in {"none"} \cup StoredToken
  BY DEF getToken, PageInv, PageTypeOK
<1>2. PageTypeOK'
  BY <1>1 DEF PageInv, PageTypeOK, Asked
<1>3. BeforeWorkspace' /\ UnaskedBefore'
  BY DEF BeforeWorkspace, UnaskedBefore, Part, Asked
<1>4. LiveOK'
  BY DEF LiveOK
<1>5. AnswersForSelected'
  BY DEF AnswersForSelected, Pending
<1> QED
  BY <1>2, <1>3, <1>4, <1>5 DEF PageInv

LEMMA GuardKeeps ==
  ASSUME PageInv, AuthGuard
  PROVE  PageInv'
<1>1. requests' \subseteq {Request("workspace", NoApp)} /\ ready' # "unknown"
  BY DEF AuthGuard, PageInv, UnaskedBefore
<1>2. getToken \in {"none"} \cup StoredToken
  BY DEF getToken, PageInv, PageTypeOK
<1>3. /\ Request("workspace", NoApp) \in Asked({"workspace"})
      /\ Request("workspace", NoApp).kind = "workspace"
  BY <1>2 DEF Request, Asked
<1>4. PageTypeOK'
  BY <1>1, <1>2, <1>3 DEF AuthGuard, PageInv, PageTypeOK, Asked
<1>5. BeforeWorkspace' /\ UnaskedBefore'
  BY <1>1, <1>3 DEF AuthGuard, PageInv, BeforeWorkspace, UnaskedBefore
<1>6. LiveOK'
  BY <1>1, <1>3 DEF LiveOK, Part
<1>7. AnswersForSelected'
  BY DEF AuthGuard, PageInv, BeforeWorkspace, AnswersForSelected, Pending
<1> QED
  BY <1>4, <1>5, <1>6, <1>7 DEF PageInv

LEMMA WorkspaceKeeps ==
  ASSUME PageInv, NEW r \in requests, NEW apps \in {{}, App}, WorkspaceArrives(r, apps)
  PROVE  PageInv'
<1>1. /\ requests \ {r} = {} /\ ready # "unknown" /\ ready' = ready
      /\ selected = NoApp /\ answers = [k \in Part |-> NoApp] /\ errors = {}
  BY DEF WorkspaceArrives, PageInv, BeforeWorkspace, UnaskedBefore
<1>2. CASE apps = {}
  <2>1. /\ requests' = {} /\ selected' = NoApp /\ answers' = answers /\ errors' = errors
        /\ token' = token /\ loading' = loading /\ listed' = {}
    BY <1>1, <1>2 DEF WorkspaceArrives
  <2>2. PageTypeOK'
    BY <2>1 DEF PageInv, PageTypeOK
  <2>3. AnswersForSelected'
    BY <1>1, <2>1 DEF AnswersForSelected, Part
  <2> QED
    BY <1>1, <2>1, <2>2, <2>3 DEF PageInv, BeforeWorkspace, UnaskedBefore, LiveOK
<1>3. CASE apps # {}
  <2>1. selected' \in App
    BY <1>3 DEF WorkspaceArrives
  <2>2. /\ requests' = Loads({}, selected') /\ token' = getToken
        /\ errors' = {} /\ loading' = TRUE /\ answers' = answers
    BY <1>1, <1>3 DEF WorkspaceArrives, Effects
  <2>3. PICK a \in App : selected' = a
    BY <2>1
  <2>4. listed' \subseteq App
    BY DEF WorkspaceArrives
  <2>5. requests' = Loads({}, a) /\ {} \in SUBSET Asked(Part)
    BY <2>2, <2>3
  <2> QED
    BY <1>1, <2>2, <2>3, <2>4, <2>5, LoadsAsk, SelectionLoads DEF PageInv
<1> QED
  BY <1>2, <1>3

LEMMA ChooseKeeps ==
  ASSUME PageInv, NEW a \in App, Choose(a)
  PROVE  PageInv'
<1>1. ready # "unknown" /\ ready' = ready /\ listed' = listed
  BY DEF Choose, Acts
<1>2. /\ token' = getToken /\ errors' = {} /\ loading' = TRUE /\ answers' = answers
      /\ requests' = Loads(IF selected' = a THEN requests ELSE Loads(requests, a), selected')
  BY DEF Choose, Effects
<1>3. PICK b : b = selected'
  OBVIOUS
<1>4. b \in App \cup {NoApp}
  BY <1>3 DEF Choose, PageInv, PageTypeOK
<1>5. requests \in SUBSET Asked(Part)
  BY DEF Choose, PageInv, PageTypeOK, BeforeWorkspace, Asked
<1>6. PICK Q : Q = IF b = a THEN requests ELSE Loads(requests, a)
  OBVIOUS
<1>7. Q \in SUBSET Asked(Part)
  BY <1>5, <1>6, LoadsAsk DEF PageInv
<1>8. requests' = Loads(Q, b)
  BY <1>2, <1>3, <1>6
<1> QED
  BY <1>1, <1>2, <1>3, <1>4, <1>7, <1>8, LoadsAsk, SelectionLoads DEF PageInv, PageTypeOK

LEMMA RetryKeeps ==
  ASSUME PageInv, Retry
  PROVE  PageInv'
<1>1. requests \in SUBSET Asked(Part)
  BY DEF Retry, Acts, PageInv, PageTypeOK, BeforeWorkspace, Asked
<1>2. ready # "unknown" /\ ready' = ready /\ listed' = listed /\ selected' = selected
  BY DEF Retry, Acts
<1>3. /\ token' = getToken /\ errors' = {} /\ loading' = TRUE /\ answers' = answers
      /\ requests' = Loads(requests, selected)
  BY DEF Retry, Effects
<1> QED
  BY <1>1, <1>2, <1>3, LoadsAsk, SelectionLoads DEF PageInv, PageTypeOK

\* An answer, shown or not, is the last word on its request only.
LEMMA AnswerKeeps ==
  ASSUME PageInv, NEW r \in requests, r.kind \in Part, Arrives(r) \/ Fails(r)
  PROVE  PageInv'
<1>1. /\ requests' = requests \ {r} /\ ready' = ready /\ selected' = selected /\ listed' = listed
  BY DEF Arrives, Fails, Answered
<1>2. token' \in {"none"} \cup StoredToken
  BY DEF Arrives, Fails, PageInv, PageTypeOK
<1>3. loading' = (loading /\ ~(r.live /\ r.kind = "result"))
  BY DEF Arrives, Fails, Then, Catch
<1>4. ~r.live => answers' = answers /\ errors' = errors
  BY DEF Arrives, Fails, Then, Catch
<1>5. r.live => \/ answers' = [answers EXCEPT ![r.kind] = selected] /\ errors' = errors
                \/ answers' = [answers EXCEPT ![r.kind] = NoApp] /\ errors' = errors \cup {r.kind}
  BY DEF Arrives, Fails, Then, Catch, PageInv, LiveOK
<1>6. r.live \in BOOLEAN /\ requests' \subseteq requests
  BY <1>1 DEF PageInv, PageTypeOK, Asked
<1>7. PageTypeOK'
  BY <1>1, <1>2, <1>3, <1>4, <1>5, <1>6 DEF PageInv, PageTypeOK
<1>8. ready # "unknown" /\ \A q \in requests : q.kind # "workspace"
  BY DEF PageInv, BeforeWorkspace, UnaskedBefore, Part
<1>9. BeforeWorkspace' /\ UnaskedBefore'
  BY <1>1, <1>8 DEF BeforeWorkspace, UnaskedBefore
<1>10. LiveOK'
  BY <1>1, <1>4, <1>5 DEF PageInv, LiveOK
<1>11. AnswersForSelected'
  <2>1. ASSUME NEW k \in Part
        PROVE  Pending(k)' \/ answers'[k] = IF k \in errors' THEN NoApp ELSE selected'
    <3>1. CASE r.live /\ r.kind = k
      <4>1. k \notin errors
        BY <3>1 DEF PageInv, LiveOK
      <4> QED
        BY <1>1, <1>5, <3>1, <4>1 DEF PageInv, PageTypeOK
    <3>2. CASE ~(r.live /\ r.kind = k)
      <4>1. answers'[k] = answers[k] /\ (k \in errors' <=> k \in errors)
        BY <1>4, <1>5, <1>6, <3>2 DEF PageInv, PageTypeOK
      <4>2. Pending(k) => Pending(k)'
        BY <1>1, <3>2 DEF Pending
      <4> QED
        BY <1>1, <4>1, <4>2 DEF PageInv, AnswersForSelected
    <3> QED
      BY <3>1, <3>2
  <2>2. ~loading' => answers'["result"] \in {NoApp, selected'}
    BY <1>1, <1>3, <1>4, <1>5, <1>6 DEF PageInv, PageTypeOK, AnswersForSelected, Part
  <2> QED
    BY <2>1, <2>2 DEF AnswersForSelected
<1> QED
  BY <1>7, <1>9, <1>10, <1>11 DEF PageInv

LEMMA WorkspaceLost ==
  ASSUME PageInv, NEW r \in requests, WorkspaceFails(r)
  PROVE  PageInv'
<1>1. /\ requests' = {} /\ ready # "unknown" /\ ready' = ready /\ listed' = listed
      /\ selected' = NoApp /\ answers' = [k \in Part |-> NoApp] /\ errors' = {} /\ loading' = loading
  BY DEF WorkspaceFails, Answered, PageInv, BeforeWorkspace, UnaskedBefore
<1>2. token' \in {"none"} \cup StoredToken
  BY DEF WorkspaceFails, PageInv, PageTypeOK
<1>3. PageTypeOK'
  BY <1>1, <1>2 DEF PageInv, PageTypeOK
<1>4. AnswersForSelected'
  BY <1>1 DEF AnswersForSelected, Part
<1> QED
  BY <1>1, <1>3, <1>4 DEF PageInv, BeforeWorkspace, UnaskedBefore, LiveOK

LEMMA SessionKeeps ==
  ASSUME PageInv, SessionChanges
  PROVE  PageInv'
<1>1. token' \in {"none"} \cup StoredToken
  BY DEF SessionChanges, PageInv, PageTypeOK, StoredToken
<1> QED
  BY <1>1 DEF SessionChanges, PageInv, PageTypeOK, BeforeWorkspace, UnaskedBefore, LiveOK,
              AnswersForSelected, Pending

\* PageInv holds at every time.
THEOREM PageInvariant == PageSpec => []PageInv
<1>1. PageInit => PageInv
  BY PageStarts
<1>2. PageInv /\ [PageNext]_pageVars => PageInv'
  <2> SUFFICES ASSUME PageInv, [PageNext]_pageVars
               PROVE  PageInv'
    OBVIOUS
  <2>1. CASE AuthGuard
    BY <2>1, GuardKeeps
  <2>2. CASE \E r \in requests : Arrives(r) \/ Fails(r)
    BY <2>2, AnswerKeeps DEF Arrives, Fails
  <2>3. CASE \E r \in requests : WorkspaceFails(r)
    BY <2>3, WorkspaceLost
  <2>4. CASE \E r \in requests : \E apps \in {{}, App} : WorkspaceArrives(r, apps)
    BY <2>4, WorkspaceKeeps
  <2>5. CASE \E a \in App : Choose(a)
    BY <2>5, ChooseKeeps
  <2>6. CASE Retry
    BY <2>6, RetryKeeps
  <2>7. CASE SessionChanges
    BY <2>7, SessionKeeps
  <2>8. CASE UNCHANGED pageVars
    BY <2>8 DEF pageVars, PageInv, PageTypeOK, BeforeWorkspace, UnaskedBefore, LiveOK,
                AnswersForSelected, Pending
  <2> QED
    BY <2>1, <2>2, <2>3, <2>4, <2>5, <2>6, <2>7, <2>8 DEF PageNext
<1> QED
  BY <1>1, <1>2, PTL DEF PageSpec

\* Whichever answers come late, fail, or belong to an application that is selected no more,
\* the page shows the selected application's, or that it could not be loaded.
THEOREM AnswersHold == PageSpec => []AnswersForSelected
<1>1. PageInv => AnswersForSelected
  BY DEF PageInv
<1> QED
  BY <1>1, PageInvariant, PTL

-----------------------------------------------------------------------------
(* Analysis. *)

\* The health and sync, phrases and outcomes that an analysis is made from.
AnalysisInv ==
  /\ argo \in [health : HealthStatus, sync : SyncStatus]
  /\ said \subseteq Phrase
  /\ live \subseteq Phrase
  /\ outcomes \in [Outcome -> Nat]

LEMMA AnalysisStarts == AnalysisInit => AnalysisInv
BY DEF AnalysisInit, AnalysisInv, HealthStatus, SyncStatus

LEMMA AnalysisSteps == AnalysisInv /\ [AnalysisNext]_analysisVars => AnalysisInv'
<1> SUFFICES ASSUME AnalysisInv, [AnalysisNext]_analysisVars PROVE AnalysisInv'
  OBVIOUS
<1>1. CASE ArgoAnswers
  BY <1>1 DEF ArgoAnswers, AnalysisInv
<1>2. CASE EventStored
  BY <1>2 DEF EventStored, AnalysisInv
<1>3. CASE DeploymentStored
  BY <1>3 DEF DeploymentStored, AnalysisInv
<1>4. CASE UNCHANGED analysisVars
  BY <1>4 DEF analysisVars, AnalysisInv
<1> QED
  BY <1>1, <1>2, <1>3, <1>4 DEF AnalysisNext

\* AnalysisInv holds at every time.
THEOREM AnalysisInvariant == AnalysisSpec => []AnalysisInv
BY AnalysisStarts, AnalysisSteps, PTL DEF AnalysisSpec

LEMMA RoundIsNat ==
  ASSUME NEW n \in Nat, NEW d \in Nat, d > 0
  PROVE  Round(n, d) \in Nat
<1>1. 2 * n + d \in Nat /\ 2 * d \in Nat /\ 2 * d > 0
  OBVIOUS
<1>2. \A a, b \in Nat : b > 0 => a \div b \in Nat
  OBVIOUS
<1> QED
  BY <1>1, <1>2 DEF Round

\* What differs by less than five rounded hundreds is rounded to within five.
LEMMA RoundedHundreds ==
  ASSUME NEW m \in Nat, NEW n \in Nat, m <= n, n <= m + 450
  PROVE  Round(m, 100) <= Round(n, 100) /\ Round(n, 100) <= Round(m, 100) + 5
BY DEF Round

LEMMA ClampedApart ==
  ASSUME NEW m \in Nat, NEW n \in Nat, NEW k \in Nat, m <= n, n <= m + k
  PROVE  /\ Clamped(m) \in Nat /\ Clamped(m) <= 100
         /\ Clamped(m) <= Clamped(n) /\ Clamped(n) <= Clamped(m) + k
BY DEF Clamped

\* The phrases of a risk tell no more than 15 points of it.
LEMMA RiskApart ==
  ASSUME NEW failed \in Nat, NEW count \in Nat, count > 0,
         NEW some, NEW more, some \subseteq more
  PROVE  /\ Risk(failed, count, some) \in 0..100
         /\ Risk(failed, count, some) <= Risk(failed, count, more)
         /\ Risk(failed, count, more) <= Risk(failed, count, some) + 15
<1> DEFINE grave == {"imagepullbackoff", "crashloopbackoff", "failedscheduling",
                     "progressdeadlineexceeded"}
           points(phrases) == IF phrases \cap grave # {} THEN 15 ELSE 0
<1>1. PICK health : health = CASE argo.health = "Missing" -> 45 [] argo.health = "Degraded" -> 35
                               [] argo.health = "Progressing" -> 15 [] OTHER -> 0
  OBVIOUS
<1>2. PICK sync : sync = IF argo.sync = "OutOfSync" THEN 20 ELSE 0
  OBVIOUS
<1>3. PICK share : share = IF count > 0 THEN Round(30 * failed, count) ELSE 0
  OBVIOUS
<1>4. health \in Nat /\ sync \in Nat
  BY <1>1, <1>2
<1>5. share \in Nat
  <2>1. 30 * failed \in Nat
    OBVIOUS
  <2> QED
    BY <1>3, <2>1, RoundIsNat
<1>6. \A phrases : Risk(failed, count, phrases) = Clamped(health + sync + share + points(phrases))
  BY <1>1, <1>2, <1>3 DEF Risk
<1>7. points(some) \in Nat /\ points(more) \in Nat
      /\ points(some) <= points(more) /\ points(more) <= points(some) + 15
  OBVIOUS
<1> HIDE DEF points
<1>8. PICK m, n : m = health + sync + share + points(some) /\ n = health + sync + share + points(more)
  OBVIOUS
<1>9. m \in Nat /\ n \in Nat /\ m <= n /\ n <= m + 15
  BY <1>4, <1>5, <1>7, <1>8
<1>10. Clamped(m) \in Nat /\ Clamped(m) <= 100 /\ Clamped(m) <= Clamped(n) /\ Clamped(n) <= Clamped(m) + 15
  BY <1>9, ClampedApart
<1> QED
  BY <1>6, <1>8, <1>10

\* A risk that is higher by 15 points makes a stability that is lower by five.
LEMMA StabilityApart ==
  ASSUME NEW succeeded \in Nat, NEW count \in Nat, count > 0,
         NEW r \in 0..100, NEW s \in 0..100, r <= s, s <= r + 15
  PROVE  /\ Stability(succeeded, count, s) <= Stability(succeeded, count, r)
         /\ Stability(succeeded, count, r) <= Stability(succeeded, count, s) + 5
<1>1. PICK share : share = Round(1000 * succeeded, count)
  OBVIOUS
<1>2. share \in Nat
  <2>1. 1000 * succeeded \in Nat
    OBVIOUS
  <2> QED
    BY <1>1, <2>1, RoundIsNat
<1>3. PICK m, n : m = share * 7 + (100 - s) * 30 /\ n = share * 7 + (100 - r) * 30
  OBVIOUS
<1>4. m \in Nat /\ n \in Nat /\ m <= n /\ n <= m + 450
  BY <1>2, <1>3
<1>5. PICK p, q : p = Round(m, 100) /\ q = Round(n, 100)
  OBVIOUS
<1>6. p \in Nat /\ q \in Nat /\ p <= q /\ q <= p + 5
  BY <1>4, <1>5, RoundIsNat, RoundedHundreds
<1>7. Clamped(p) <= Clamped(q) /\ Clamped(q) <= Clamped(p) + 5
  BY <1>6, ClampedApart
<1> QED
  BY <1>1, <1>3, <1>5, <1>7 DEF Stability

\* The first part of PageFitsAnalysis: the scores.
LEMMA ScoresFit ==
  ASSUME AnalysisInv, deploymentCount > 0
  PROVE  /\ buildWindowStats.risk <= scoreRisk /\ scoreRisk <= buildWindowStats.risk + 15
         /\ scoreStability <= buildWindowStats.stability
         /\ buildWindowStats.stability <= scoreStability + 5
         /\ live \subseteq said => buildWindowStats = [risk |-> scoreRisk, stability |-> scoreStability]
<1>1. outcomes["success"] \in Nat /\ outcomes["failed"] \in Nat /\ outcomes["unknown"] \in Nat
  BY DEF AnalysisInv, Outcome
<1>2. deploymentCount \in Nat
  BY <1>1 DEF deploymentCount
<1>3. said \subseteq corpus /\ (live \subseteq said => corpus = said)
  BY DEF corpus
<1>4. PICK r, s : r = Risk(outcomes["failed"], deploymentCount, said)
                  /\ s = Risk(outcomes["failed"], deploymentCount, corpus)
  OBVIOUS
<1>5. r \in 0..100 /\ s \in 0..100 /\ r <= s /\ s <= r + 15
  BY <1>1, <1>2, <1>3, <1>4, RiskApart
<1>6. scoreRisk = s /\ scoreStability = Stability(outcomes["success"], deploymentCount, s)
  BY <1>4 DEF scoreRisk, scoreStability
<1>7. buildWindowStats = [risk |-> r, stability |-> Stability(outcomes["success"], deploymentCount, r)]
  BY <1>4 DEF buildWindowStats
<1>8. live \subseteq said => r = s
  BY <1>3, <1>4
<1>9. /\ Stability(outcomes["success"], deploymentCount, s) <= Stability(outcomes["success"], deploymentCount, r)
      /\ Stability(outcomes["success"], deploymentCount, r) <= Stability(outcomes["success"], deploymentCount, s) + 5
  BY <1>1, <1>2, <1>5, StabilityApart
<1> QED
  BY <1>5, <1>6, <1>7, <1>8, <1>9

LEMMA FindingIs ==
  ASSUME AnalysisInv
  PROVE  /\ matchWorkload = {} =>
              corpus \cap (ImagePull \cup Deadline \cup {"crashloopbackoff", "failedscheduling"}) = {}
         /\ matchFinding.cause = "none" => matchWorkload = {} /\ argo.sync # "OutOfSync"
<1>1. matchWorkload = {} =>
        corpus \cap (ImagePull \cup Deadline \cup {"crashloopbackoff", "failedscheduling"}) = {}
  BY DEF matchWorkload
<1>2. \A w \in matchWorkload : w.cause # "none"
  <2>1. CASE corpus \cap ImagePull # {}
    <3>1. PICK sure : sure = imagePullEvidence
      OBVIOUS
    <3>2. PICK cause : cause = "image pull"
      OBVIOUS
    <3>3. matchWorkload = {[cause |-> cause, fix |-> "image", confidence |-> sure]}
      BY <2>1, <3>1, <3>2 DEF matchWorkload
    <3>4. \A w \in matchWorkload : w.cause = cause
      BY <3>3
    <3>5. cause # "none"
      BY <3>2
    <3> QED
      BY <3>4, <3>5
  <2>2. CASE corpus \cap ImagePull = {}
    <3>1. \/ matchWorkload = {[cause |-> "crash", fix |-> "logs", confidence |-> 85]}
          \/ matchWorkload = {[cause |-> "deadline", fix |-> "deadline", confidence |-> 85]}
          \/ matchWorkload = {[cause |-> "scheduling", fix |-> "node", confidence |-> 85]}
          \/ matchWorkload = {}
      BY <2>2 DEF matchWorkload
    <3> QED
      BY <3>1
  <2> QED
    BY <2>1, <2>2
<1>3. ASSUME matchFinding.cause = "none" PROVE matchWorkload = {}
  <2>1. CASE matchWorkload # {}
    <3>1. PICK found : found = CHOOSE w \in matchWorkload : TRUE
      OBVIOUS
    <3>2. found \in matchWorkload
      BY <2>1, <3>1
    <3>3. matchFinding = found
      BY <2>1, <3>1 DEF matchFinding
    <3> QED
      BY <1>2, <1>3, <3>2, <3>3
  <2> QED
    BY <2>1
<1>4. ASSUME matchFinding.cause = "none" PROVE argo.sync # "OutOfSync"
  BY <1>3, <1>4 DEF matchFinding
<1> QED
  BY <1>1, <1>3, <1>4

\* The headline of the page and what it shows fit the server's finding, and so do its
\* scores, for any number of stored deployments and events (intelligence.ts,
\* analysis-engine.ts).
THEOREM PageFits == AnalysisSpec => []PageFitsAnalysis
<1>1. ASSUME AnalysisInv PROVE PageFitsAnalysis
  <2>1. ASSUME calm PROVE corpus \subseteq SyncTrouble /\ argo.sync # "OutOfSync"
    <3>1. matchFinding.cause = "none"
      BY <2>1 DEF calm
    <3>2. corpus \subseteq Phrase
      BY <1>1 DEF AnalysisInv, corpus
    <3> QED
      BY <1>1, <3>1, <3>2, FindingIs DEF Phrase
  <2>2. (actionSteps = 0) <=> calm
    BY DEF actionSteps
  <2>3. ASSUME matchWorkload # {}, live = {} PROVE buildEvidence # {"Health", "Sync"}
    <3>1. PICK p \in said : p \in ImagePull \cup Deadline \cup {"crashloopbackoff", "failedscheduling"}
      BY <1>1, <2>3 DEF matchWorkload, corpus
    <3>2. \E rule \in {"image-pull", "crashloop", "progress-deadline", "scheduling"} :
            rule \in eventRule(p)
      BY <3>1 DEF eventRule, ImagePull, Deadline
    <3> QED
      BY <3>2 DEF buildEvidence
  <2> QED
    BY <1>1, <2>1, <2>2, <2>3, ScoresFit DEF PageFitsAnalysis
<1> QED
  BY <1>1, AnalysisInvariant, PTL

=============================================================================
