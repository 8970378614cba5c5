-------------------------- MODULE ConnectorProofs --------------------------
(***************************************************************************)
(* Proofs about Connector, for every set of connectors and every number of *)
(* handlers that run at once.  Inv is the inductive invariant: the types,   *)
(* and what a handler between two steps may rely on.  ServiceInv adds what *)
(* the service that the agents see is read from, QuietInv what holds of a  *)
(* connector that no two handlers worked on at once, RevokedInv of those    *)
(* among them that are revoked, and ReadyInv of the tokens left unused.     *)
(***************************************************************************)
EXTENDS Connector, FiniteSetTheorems, TLAPS

OnConnector == {"rotate", "rotateClosed", "revoke", "enroll", "heartbeat", "snapshot", "report"}

\* A handler at work on a connector works on one that exists; a handler that enrolls
\* has consumed a token of its connector.
HandlerOK(r) ==
  /\ request[r].op \in OnConnector =>
       request[r].c \in Id /\ connector[request[r].c].status # "absent"
  /\ request[r].op \notin OnConnector => request[r].c = NoId
  /\ request[r].op = "enroll" =>
       /\ request[r].token \in Token
       /\ enrollment[request[r].token].used
       /\ enrollment[request[r].token].connector = request[r].c
       /\ \A p \in issued : p[1] # request[r].token

\* No two handlers hold one token, and a token that yielded a credential is used.
TokensHeldOnce ==
  /\ \A r, q \in Slot :
       /\ request[r].op = "enroll" /\ request[q].op = "enroll"
       /\ request[r].token = request[q].token
       => r = q
  /\ \A p \in issued : enrollment[p[1]].used

AbsentIsBlank == \A c \in Id : connector[c].status = "absent" => connector[c] = Absent

EnrollmentsExist == \A t \in Token : connector[enrollment[t].connector].status # "absent"

Inv ==
  /\ TypeOK
  /\ \A r \in Slot : HandlerOK(r)
  /\ TokensHeldOnce
  /\ AbsentIsBlank
  /\ EnrollmentsExist
  /\ TokenIssuesOnce
  /\ CredentialOwned

-----------------------------------------------------------------------------
(* The initial state. *)

LEMMA InitInv == Init => Inv
<1> SUFFICES ASSUME Init PROVE Inv
  OBVIOUS
<1> USE DEF Init, Absent, Free
<1>1. TypeOK
  BY NoneAssumption, NoIdAssumption
  DEF TypeOK, Row, Status, Token, Enrollment, Handler, Op
<1>2. \A r \in Slot : HandlerOK(r)
  BY DEF HandlerOK, OnConnector
<1>3. /\ TokensHeldOnce /\ AbsentIsBlank /\ EnrollmentsExist
      /\ TokenIssuesOnce /\ CredentialOwned
  BY DEF TokensHeldOnce, AbsentIsBlank, EnrollmentsExist, TokenIssuesOnce, CredentialOwned, Token
<1> QED
  BY <1>1, <1>2, <1>3 DEF Inv

-----------------------------------------------------------------------------
(* Steps of one shape: what they may change keeps the invariant. *)

\* A handler that holds no token.
PlainHandler(h) ==
  /\ h \in Handler /\ h.op # "enroll"
  /\ h.op \in OnConnector => h.c \in Id /\ connector[h.c].status # "absent"
  /\ h.op \notin OnConnector => h.c = NoId

LEMMA FreeIsPlain == PlainHandler(Free)
  BY DEF PlainHandler, Free, Handler, Op, OnConnector

\* A slot changes, and the row of an existing connector, whose credential stays or goes.
LEMMA WriteInv ==
  ASSUME Inv, NEW r \in Slot, NEW h, PlainHandler(h),
         NEW c \in Id, connector[c].status # "absent",
         NEW row \in Row, row.status # "absent",
         row.credentialHash \in {connector[c].credentialHash, NoSecret},
         connector' = [connector EXCEPT ![c] = row],
         request' = [request EXCEPT ![r] = h],
         overlapped' \subseteq Id, halfRevoked' \subseteq Id,
         UNCHANGED <<enrollment, now, secrets, issued>>
  PROVE  Inv'
<1>1. TypeOK
  BY DEF Inv
<1>2. /\ connector'[c] = row
      /\ \A d \in Id : d # c => connector'[d] = connector[d]
      /\ \A d \in Id : connector[d].status # "absent" => connector'[d].status # "absent"
  BY <1>1 DEF TypeOK
<1>3. TypeOK'
  BY <1>1 DEF TypeOK, Token, PlainHandler
<1>4. \A q \in Slot : HandlerOK(q)'
  BY <1>1, <1>2 DEF Inv, TypeOK, HandlerOK, PlainHandler, Token
<1>5. TokensHeldOnce'
  BY <1>1 DEF Inv, TypeOK, TokensHeldOnce, PlainHandler
<1>6. AbsentIsBlank'
  BY <1>2 DEF Inv, AbsentIsBlank, Absent
<1>7. TokenIssuesOnce' /\ EnrollmentsExist'
  BY <1>1, <1>2 DEF Inv, TypeOK, Enrollment, TokenIssuesOnce, EnrollmentsExist, Token
<1>8. CredentialOwned'
  BY <1>2 DEF Inv, CredentialOwned, TokensOf, Token
<1> QED
  BY <1>3, <1>4, <1>5, <1>6, <1>7, <1>8 DEF Inv

\* Only a slot changes.
LEMMA SlotInv ==
  ASSUME Inv, NEW r \in Slot, NEW h, PlainHandler(h),
         request' = [request EXCEPT ![r] = h],
         overlapped' \subseteq Id, halfRevoked' \subseteq Id,
         UNCHANGED <<connector, enrollment, now, secrets, issued>>
  PROVE  Inv'
<1>1. TypeOK
  BY DEF Inv
<1>2. TypeOK'
  BY <1>1 DEF TypeOK, Token, PlainHandler
<1>3. \A q \in Slot : HandlerOK(q)'
  BY <1>1 DEF Inv, TypeOK, HandlerOK, PlainHandler, Token
<1>4. TokensHeldOnce'
  BY <1>1 DEF Inv, TypeOK, TokensHeldOnce, PlainHandler
<1>5. AbsentIsBlank' /\ EnrollmentsExist' /\ TokenIssuesOnce' /\ CredentialOwned'
  BY DEF Inv, AbsentIsBlank, EnrollmentsExist, TokenIssuesOnce, CredentialOwned, TokensOf, Token
<1> QED
  BY <1>2, <1>3, <1>4, <1>5 DEF Inv

\* A connector without a credential waits for a new enrollment.
LEMMA OpenInv ==
  ASSUME Inv, NEW r \in Slot, NEW c \in Id, NEW row \in Row, NEW at \in Nat,
         row.status # "absent", row.credentialHash = NoSecret,
         connector' = [connector EXCEPT ![c] = row],
         request' = [request EXCEPT ![r] = Free],
         OpenEnrollment(c, at),
         UNCHANGED <<now, issued, overlapped, halfRevoked>>
  PROVE  Inv'
<1>1. TypeOK
  BY DEF Inv
<1>2. /\ connector'[c] = row
      /\ \A d \in Id : d # c => connector'[d] = connector[d]
      /\ \A d \in Id : connector[d].status # "absent" => connector'[d].status # "absent"
  BY <1>1 DEF TypeOK
<1>3. /\ Token' = Token \cup {secrets + 1} /\ secrets + 1 \notin Token
      /\ \A t \in Token : enrollment'[t] = enrollment[t]
      /\ enrollment'[secrets + 1] \in Enrollment
      /\ secrets' = secrets + 1
  BY <1>1, ConnectorBounds DEF OpenEnrollment, TypeOK, Token, Enrollment
<1>4. TypeOK'
  <2>1. enrollment' = [t \in Token' |-> enrollment'[t]]
    BY <1>3 DEF OpenEnrollment, Token
  <2>2. connector' \in [Id -> Row] /\ request' \in [Slot -> Handler]
    BY <1>1, FreeIsPlain DEF TypeOK, PlainHandler
  <2>3. Token' \subseteq 1..secrets' /\ \A t \in Token' : enrollment'[t] \in Enrollment
    BY <1>1, <1>3 DEF TypeOK
  <2> QED
    BY <1>1, <1>3, <2>1, <2>2, <2>3 DEF TypeOK
<1>5. \A q \in Slot : HandlerOK(q)'
  BY <1>1, <1>2, <1>3 DEF Inv, TypeOK, HandlerOK, Free, OnConnector
<1>6. TokensHeldOnce'
  BY <1>1, <1>3 DEF Inv, TypeOK, TokensHeldOnce, Free
<1>7. AbsentIsBlank'
  BY <1>2 DEF Inv, AbsentIsBlank, Absent
<1>8. TokenIssuesOnce' /\ EnrollmentsExist'
  <2>1. enrollment'[secrets + 1].connector = c
    BY <1>1, <1>3 DEF OpenEnrollment, TypeOK, Token
  <2> QED
    BY <1>1, <1>2, <1>3, <2>1 DEF Inv, TypeOK, Enrollment, TokenIssuesOnce, EnrollmentsExist
<1>9. CredentialOwned'
  <2>1. SUFFICES ASSUME NEW d \in Id, connector'[d].credentialHash # NoSecret
                 PROVE  \E t \in TokensOf(d)' :
                          enrollment'[t].used /\ <<t, connector'[d].credentialHash>> \in issued'
    BY DEF CredentialOwned
  <2>2. connector'[d] = connector[d]
    BY <1>2, <2>1
  <2>3. PICK t \in TokensOf(d) : enrollment[t].used /\ <<t, connector[d].credentialHash>> \in issued
    BY <2>1, <2>2 DEF Inv, CredentialOwned
  <2> QED
    BY <1>3, <2>2, <2>3 DEF TokensOf
<1> QED
  BY <1>4, <1>5, <1>6, <1>7, <1>8, <1>9 DEF Inv

\* The open enrollments of a connector are closed.
LEMMA CloseInv ==
  ASSUME Inv, NEW r \in Slot, NEW h, PlainHandler(h),
         NEW c \in Id,
         CloseEnrollments(c),
         request' = [request EXCEPT ![r] = h],
         UNCHANGED <<connector, now, secrets, issued, overlapped, halfRevoked>>
  PROVE  Inv'
<1>1. TypeOK
  BY DEF Inv
<1>2. /\ Token' = Token
      /\ enrollment' = [t \in Token' |-> enrollment'[t]]
      /\ \A t \in Token : /\ enrollment'[t] \in Enrollment
                          /\ enrollment'[t].connector = enrollment[t].connector
                          /\ enrollment[t].used => enrollment'[t].used
  BY <1>1 DEF CloseEnrollments, TypeOK, Token, Enrollment
<1>3. TypeOK'
  BY <1>1, <1>2 DEF TypeOK, PlainHandler
<1>4. \A q \in Slot : HandlerOK(q)'
  BY <1>1, <1>2 DEF Inv, TypeOK, HandlerOK, PlainHandler
<1>5. TokensHeldOnce'
  BY <1>1, <1>2 DEF Inv, TypeOK, TokensHeldOnce, PlainHandler
<1>6. AbsentIsBlank' /\ EnrollmentsExist' /\ TokenIssuesOnce'
  BY <1>2 DEF Inv, AbsentIsBlank, EnrollmentsExist, TokenIssuesOnce
<1>7. CredentialOwned'
  BY <1>2 DEF Inv, CredentialOwned, TokensOf
<1> QED
  BY <1>3, <1>4, <1>5, <1>6, <1>7 DEF Inv

-----------------------------------------------------------------------------
(* The agent's actions. *)

LEMMA EnrollCredentialInv ==
  ASSUME Inv, NEW r \in Slot, EnrollCredential(r)
  PROVE  Inv'
<1> DEFINE c == request[r].c
           t == request[r].token
<1>1. /\ c \in Id /\ t \in Token
      /\ enrollment[t].used /\ enrollment[t].connector = c
      /\ \A p \in issued : p[1] # t
  BY DEF Inv, HandlerOK, EnrollCredential, OnConnector
<1>2. /\ connector' = [connector EXCEPT ![c] = [connector[c] EXCEPT
                         !.credentialHash = secrets + 1, !.status = "connected",
                         !.lastSeenAt = request[r].at, !.lastError = FALSE]]
      /\ issued' = issued \cup {<<t, secrets + 1>>}
      /\ request' = [request EXCEPT ![r] = Free]
      /\ secrets' = secrets + 1
      /\ UNCHANGED <<enrollment, now, overlapped, halfRevoked>>
  BY DEF EnrollCredential, Write, End
<1>3. TypeOK
  BY DEF Inv
<1>4. TypeOK'
  <2>1. connector' \in [Id -> Row]
    <3>1. connector[c] \in Row /\ request[r].at \in Nat /\ secrets + 1 \in Nat
      BY <1>1, <1>3 DEF TypeOK, Handler
    <3>2. [connector[c] EXCEPT !.credentialHash = secrets + 1, !.status = "connected",
             !.lastSeenAt = request[r].at, !.lastError = FALSE] \in Row
      BY <3>1 DEF Row, Status
    <3> QED
      BY <1>1, <1>2, <1>3, <3>2 DEF TypeOK
  <2>2. request' \in [Slot -> Handler]
    BY <1>2, <1>3 DEF TypeOK, Handler, Op, Free
  <2>3. issued' \subseteq (Token' \X (1..secrets'))
    BY <1>1, <1>2, <1>3 DEF TypeOK, Token
  <2> QED
    BY <1>2, <1>3, <2>1, <2>2, <2>3 DEF TypeOK, Token
<1>a. \A d \in Id : d # c => connector'[d] = connector[d]
  BY <1>2, <1>3 DEF TypeOK
<1>b. connector'[c].status = "connected" /\ connector'[c].credentialHash = secrets + 1
  BY <1>1, <1>2, <1>3 DEF TypeOK, Row
<1>5. \A q \in Slot : HandlerOK(q)'
  BY <1>1, <1>2, <1>3 DEF Inv, TypeOK, HandlerOK, OnConnector, TokensHeldOnce, Free, Token, Row, EnrollCredential
<1>6. TokensHeldOnce'
  BY <1>1, <1>2, <1>3 DEF Inv, TypeOK, TokensHeldOnce, Free
<1>7. AbsentIsBlank'
  BY <1>a, <1>b DEF Inv, AbsentIsBlank, Absent
<1>c. EnrollmentsExist'
  BY <1>2, <1>3, <1>a, <1>b DEF Inv, TypeOK, Enrollment, EnrollmentsExist, Token
<1>8. TokenIssuesOnce'
  BY <1>1, <1>2, <1>3 DEF Inv, TypeOK, TokenIssuesOnce
<1>9. CredentialOwned'
  BY <1>1, <1>2, <1>a, <1>b DEF Inv, CredentialOwned, TokensOf, Token
<1> QED
  BY <1>4, <1>5, <1>6, <1>7, <1>8, <1>9, <1>c DEF Inv

\* The consumed token is held by this handler alone and has yielded nothing.
LEMMA EnrollConsumeInv ==
  ASSUME Inv, NEW r \in Slot, NEW t \in Token, EnrollConsume(r, t)
  PROVE  Inv'
<1> DEFINE c == enrollment[t].connector
           h == [op |-> "enroll", c |-> c, token |-> t, at |-> now]
<1>1. TypeOK
  BY DEF Inv
<1>2. c \in Id /\ connector[c].status # "absent" /\ t \in Nat
  BY <1>1 DEF Inv, TypeOK, Enrollment, EnrollmentsExist
<1>3. /\ ~enrollment[t].used
      /\ request' = [request EXCEPT ![r] = h]
      /\ enrollment' = [enrollment EXCEPT ![t].used = TRUE]
      /\ overlapped' \subseteq overlapped \cup {c}
      /\ UNCHANGED <<connector, now, secrets, issued, halfRevoked>>
  BY DEF EnrollConsume, Enrollable, Begin
<1>4. /\ Token' = Token
      /\ enrollment' = [u \in Token' |-> enrollment'[u]]
      /\ \A u \in Token : /\ enrollment'[u] \in Enrollment
                          /\ enrollment'[u].connector = enrollment[u].connector
                          /\ enrollment[u].used => enrollment'[u].used
      /\ enrollment'[t].used
  BY <1>1, <1>3 DEF TypeOK, Token, Enrollment
<1>5. TypeOK'
  BY <1>1, <1>2, <1>3, <1>4 DEF TypeOK, Handler, Op
<1>6. \A q \in Slot : HandlerOK(q)'
  <2>1. \A p \in issued : p[1] # t
    BY <1>3 DEF Inv, TokensHeldOnce
  <2>2. HandlerOK(r)'
    BY <1>1, <1>2, <1>3, <1>4, <2>1 DEF TypeOK, HandlerOK, OnConnector
  <2>3. ASSUME NEW q \in Slot, q # r PROVE HandlerOK(q)'
    BY <1>1, <1>3, <1>4, <2>3 DEF Inv, TypeOK, HandlerOK
  <2> QED
    BY <2>2, <2>3
<1>7. TokensHeldOnce'
  <2>1. \A q \in Slot : request[q].op = "enroll" => request[q].token # t
    BY <1>3 DEF Inv, HandlerOK
  <2> QED
    BY <1>1, <1>3, <1>4, <2>1 DEF Inv, TypeOK, TokensHeldOnce
<1>8. AbsentIsBlank' /\ EnrollmentsExist' /\ TokenIssuesOnce'
  BY <1>3, <1>4 DEF Inv, AbsentIsBlank, EnrollmentsExist, TokenIssuesOnce
<1>9. CredentialOwned'
  BY <1>3, <1>4 DEF Inv, CredentialOwned, TokensOf
<1> QED
  BY <1>5, <1>6, <1>7, <1>8, <1>9 DEF Inv

LEMMA AgentCallInv ==
  ASSUME Inv, NEW r \in Slot, NEW op \in {"heartbeat", "snapshot", "report"},
         NEW s \in 1..secrets, AgentCall(r, op, s)
  PROVE  Inv'
<1>1. TypeOK
  BY DEF Inv
<1>2. PICK c \in Id : Authenticates(s, c) /\ Begin(r, op, c, NoSecret)
  BY DEF AgentCall
<1>3. connector[c].status # "absent"
  BY <1>1, <1>2, NoneAssumption DEF Inv, TypeOK, AbsentIsBlank, Absent, Authenticates
<1>4. PlainHandler([op |-> op, c |-> c, token |-> NoSecret, at |-> now])
  BY <1>1, <1>3 DEF TypeOK, PlainHandler, Handler, Op, OnConnector
<1> QED
  BY <1>1, <1>2, <1>4, SlotInv DEF AgentCall, Begin, TypeOK

\* The handlers of an authenticated agent end by writing its row.
LEMMA AgentWriteInv ==
  ASSUME Inv, NEW r \in Slot, HeartbeatUpdate(r) \/ SnapshotSaved(r) \/ markError(r)
  PROVE  Inv'
<1> DEFINE c == request[r].c
<1>1. TypeOK
  BY DEF Inv
<1>2. c \in Id /\ connector[c].status # "absent"
  BY DEF Inv, HandlerOK, OnConnector, HeartbeatUpdate, SnapshotSaved, markError
<1>3. PICK row : /\ row \in Row /\ row.status # "absent"
                 /\ row.credentialHash = connector[c].credentialHash
                 /\ connector' = [connector EXCEPT ![c] = row]
  <2>1. connector[c] \in Row /\ now \in Nat
    BY <1>1, <1>2 DEF TypeOK
  <2>2. CASE HeartbeatUpdate(r)
    BY <1>2, <2>1, <2>2 DEF HeartbeatUpdate, Write, Row
  <2>3. CASE SnapshotSaved(r)
    BY <1>2, <2>1, <2>3 DEF SnapshotSaved, Write, Row, Status
  <2>4. CASE markError(r)
    BY <1>2, <2>1, <2>4 DEF markError, Write, Row, Status
  <2> QED
    BY <2>2, <2>3, <2>4
<1>4. /\ request' = [request EXCEPT ![r] = Free]
      /\ UNCHANGED <<enrollment, now, secrets, issued, overlapped, halfRevoked>>
  BY DEF HeartbeatUpdate, SnapshotSaved, markError, End
<1> QED
  BY <1>1, <1>2, <1>3, <1>4, FreeIsPlain, WriteInv DEF TypeOK

-----------------------------------------------------------------------------
(* The operators' actions, and Next. *)

LEMMA RotateUpdateInv ==
  ASSUME Inv, NEW r \in Slot, RotateUpdate(r)
  PROVE  Inv'
<1> DEFINE c == request[r].c
           row == [connector[c] EXCEPT !.status = "pending", !.credentialHash = NoSecret,
                     !.lastSeenAt = NoTime, !.lastError = FALSE]
<1>1. c \in Id /\ connector[c] \in Row /\ request[r].at \in Nat
  BY DEF Inv, TypeOK, Handler, HandlerOK, OnConnector, RotateUpdate
<1>2. row \in Row /\ row.status = "pending" /\ row.credentialHash = NoSecret
  BY <1>1 DEF Row, Status
<1>3. /\ connector' = [connector EXCEPT ![c] = row]
      /\ OpenEnrollment(c, request[r].at)
      /\ request' = [request EXCEPT ![r] = Free]
      /\ UNCHANGED <<now, issued, overlapped, halfRevoked>>
  BY DEF RotateUpdate, Write, End
<1> HIDE DEF row
<1> QED
  BY <1>1, <1>2, <1>3, OpenInv

LEMMA CreateRowInv ==
  ASSUME Inv, NEW r \in Slot, NEW c \in Id, CreateRow(r, c)
  PROVE  Inv'
<1> DEFINE row == [Absent EXCEPT !.status = "pending"]
<1>1. row \in Row /\ row.status = "pending" /\ row.credentialHash = NoSecret
  BY DEF Row, Status, Absent
<1>2. now \in Nat
  BY DEF Inv, TypeOK
<1>3. /\ connector' = [connector EXCEPT ![c] = row]
      /\ OpenEnrollment(c, now)
      /\ request' = [request EXCEPT ![r] = Free]
      /\ UNCHANGED <<now, issued, overlapped, halfRevoked>>
  BY DEF CreateRow, Write, End
<1> HIDE DEF row
<1> QED
  BY <1>1, <1>2, <1>3, OpenInv

LEMMA RevokeRowInv ==
  ASSUME Inv, NEW r \in Slot, NEW c \in Id, RevokeRow(r, c)
  PROVE  Inv'
<1> DEFINE row == [connector[c] EXCEPT !.status = "revoked", !.revokedAt = TRUE,
                     !.credentialHash = NoSecret, !.lastError = FALSE]
           h == [op |-> "revoke", c |-> c, token |-> NoSecret, at |-> now]
<1>1. connector[c] \in Row /\ now \in Nat /\ overlapped \subseteq Id /\ halfRevoked \subseteq Id
  BY DEF Inv, TypeOK
<1>2. row \in Row /\ row.status = "revoked" /\ row.credentialHash = NoSecret
  BY <1>1 DEF Row, Status
<1>3. connector[c].status # "absent" /\ PlainHandler(h)
  BY <1>1 DEF RevokeRow, PlainHandler, Handler, Op, OnConnector
<1>4. /\ connector' = [connector EXCEPT ![c] = row]
      /\ request' = [request EXCEPT ![r] = h]
      /\ overlapped' \subseteq Id /\ halfRevoked' \subseteq Id
      /\ UNCHANGED <<enrollment, now, secrets, issued>>
  BY <1>1 DEF RevokeRow, Write, Begin
<1> HIDE DEF row, h
<1> QED
  BY <1>2, <1>3, <1>4, WriteInv

\* The handlers that change nothing but their slot, and those that close enrollments.
LEMMA SmallStepInv ==
  ASSUME Inv, NEW r \in Slot,
         \/ CreateCount(r) \/ (\E c \in Id : RotateFind(r, c)) \/ Fail(r)
         \/ RotateClose(r) \/ RevokeEnrollments(r)
  PROVE  Inv'
<1>1. /\ now \in Nat /\ overlapped \subseteq Id /\ halfRevoked \subseteq Id
      /\ request \in [Slot -> Handler]
  BY DEF Inv, TypeOK
<1>2. CASE CreateCount(r)
  <2>1. PlainHandler([op |-> "create", c |-> NoId, token |-> NoSecret, at |-> now])
    BY <1>1 DEF PlainHandler, Handler, Op, OnConnector
  <2> QED
    BY <1>1, <1>2, <2>1, SlotInv DEF CreateCount, Begin
<1>3. ASSUME NEW c \in Id, RotateFind(r, c) PROVE Inv'
  <2>1. PlainHandler([op |-> "rotate", c |-> c, token |-> NoSecret, at |-> now])
    BY <1>1, <1>3 DEF RotateFind, PlainHandler, Handler, Op, OnConnector
  <2> QED
    BY <1>1, <1>3, <2>1, SlotInv DEF RotateFind, Begin
<1>4. CASE Fail(r)
  <2>1. request[r].op = "revoke" => request[r].c \in Id
    BY DEF Inv, HandlerOK, OnConnector
  <2> QED
    BY <1>1, <1>4, <2>1, FreeIsPlain, SlotInv DEF Fail
<1>5. CASE RotateClose(r)
  <2>1. request[r].c \in Id /\ connector[request[r].c].status # "absent"
    BY <1>5 DEF Inv, HandlerOK, OnConnector, RotateClose
  <2> DEFINE h == [request[r] EXCEPT !.op = "rotateClosed", !.at = now]
  <2>2. PlainHandler(h)
    BY <1>1, <2>1 DEF PlainHandler, Handler, Op, OnConnector
  <2>3. request' = [request EXCEPT ![r] = h]
    BY <1>1, <1>5 DEF RotateClose
  <2> HIDE DEF h
  <2> QED
    BY <1>5, <2>1, <2>2, <2>3, CloseInv DEF RotateClose
<1>6. CASE RevokeEnrollments(r)
  <2>1. request[r].c \in Id
    BY <1>6 DEF Inv, HandlerOK, OnConnector, RevokeEnrollments
  <2> QED
    BY <1>6, <2>1, FreeIsPlain, CloseInv DEF RevokeEnrollments, End
<1> QED
  BY <1>2, <1>3, <1>4, <1>5, <1>6

LEMMA TickInv == Inv /\ Tick => Inv'
<1> SUFFICES ASSUME Inv, Tick PROVE Inv'
  OBVIOUS
<1>1. TypeOK'
  BY DEF Inv, TypeOK, Tick, Token
<1> QED
  BY <1>1 DEF Inv, Tick, Token, HandlerOK, TokensHeldOnce, AbsentIsBlank, EnrollmentsExist,
     TokenIssuesOnce, CredentialOwned, TokensOf

LEMMA StutterInv == Inv /\ UNCHANGED vars => Inv'
<1> SUFFICES ASSUME Inv, UNCHANGED vars PROVE Inv'
  OBVIOUS
<1>1. TypeOK'
  BY DEF Inv, TypeOK, vars, Token
<1> QED
  BY <1>1 DEF Inv, vars, Token, HandlerOK, TokensHeldOnce, AbsentIsBlank, EnrollmentsExist,
     TokenIssuesOnce, CredentialOwned, TokensOf

LEMMA NextInv == Inv /\ [Next]_vars => Inv'
<1> SUFFICES ASSUME Inv, [Next]_vars PROVE Inv'
  OBVIOUS
<1>1. ASSUME NEW r \in Slot, OperatorStep(r) PROVE Inv'
  BY <1>1, SmallStepInv, CreateRowInv, RevokeRowInv, RotateUpdateInv DEF OperatorStep
<1>2. ASSUME NEW r \in Slot, AgentStep(r) PROVE Inv'
  <2>1. ASSUME NEW s \in 1..secrets, Heartbeat(r, s) \/ Snapshot(r, s) \/ Report(r, s)
        PROVE  Inv'
    BY <2>1, AgentCallInv DEF Heartbeat, Snapshot, Report
  <2> QED
    BY <1>2, <2>1, EnrollConsumeInv, EnrollCredentialInv, AgentWriteInv DEF AgentStep
<1>3. ASSUME NEW r \in Slot, Fail(r) PROVE Inv'
  BY <1>3, SmallStepInv
<1> QED
  BY <1>1, <1>2, <1>3, TickInv, StutterInv DEF Next

-----------------------------------------------------------------------------
\* Every state has the types of TypeOK, and between two steps every handler may rely on
\* what it read of its connector and its token.
THEOREM InvHolds == Spec => []Inv
<1> QED
  BY InitInv, NextInv, PTL DEF Spec

\* The types of the tables and of the running handlers (connectors.service.ts).
THEOREM TypesHold == Spec => []TypeOK
<1>1. Inv => TypeOK
  BY DEF Inv
<1> QED
  BY <1>1, InvHolds, PTL

\* An enrollment token yields one credential at most, whatever number of agents present
\* it and whatever handlers run beside them (enroll).
THEOREM TokensIssueOnce == Spec => []TokenIssuesOnce
<1>1. Inv => TokenIssuesOnce
  BY DEF Inv
<1> QED
  BY <1>1, InvHolds, PTL

\* A connector accepts only a credential that was issued for one of its own used tokens
\* (enroll, rotate, revoke).
THEOREM CredentialsOwned == Spec => []CredentialOwned
<1>1. Inv => CredentialOwned
  BY DEF Inv
<1> QED
  BY <1>1, InvHolds, PTL

-----------------------------------------------------------------------------
(* Revocation. *)

\* What one step does to a connector that was revoked.
LeavesRevoked(c) ==
  /\ \A r \in Slot : request'[r].c = c => request[r].c = c
  /\ AtWork(c) = {} => connector'[c] = connector[c]

LEMMA OperatorLeavesRevoked ==
  ASSUME Inv, NEW c \in Id, connector[c].revokedAt, NEW q \in Slot, OperatorStep(q)
  PROVE  LeavesRevoked(c)
<1>1. TypeOK /\ NoId # c
  BY NoIdAssumption DEF Inv
<1>2. CASE CreateCount(q)
  BY <1>1, <1>2 DEF CreateCount, Begin, LeavesRevoked, TypeOK
<1>3. ASSUME NEW d \in Id, CreateRow(q, d) PROVE LeavesRevoked(c)
  <2>1. d # c
    BY <1>3 DEF CreateRow, Inv, AbsentIsBlank, Absent
  <2> QED
    BY <1>1, <1>3, <2>1 DEF CreateRow, Write, End, Free, LeavesRevoked, TypeOK
<1>4. ASSUME NEW d \in Id, RotateFind(q, d) PROVE LeavesRevoked(c)
  <2>1. d # c
    BY <1>4 DEF RotateFind, Revoked
  <2> QED
    BY <1>1, <1>4, <2>1 DEF RotateFind, Begin, LeavesRevoked, TypeOK
<1>5. ASSUME NEW d \in Id, RevokeRow(q, d) PROVE LeavesRevoked(c)
  <2>1. d # c
    BY <1>5 DEF RevokeRow
  <2> QED
    BY <1>1, <1>5, <2>1 DEF RevokeRow, Write, Begin, LeavesRevoked, TypeOK
<1>6. CASE RotateClose(q)
  BY <1>1, <1>6 DEF RotateClose, LeavesRevoked, TypeOK, Handler
<1>7. CASE RotateUpdate(q)
  <2>1. AtWork(c) = {} => connector'[c] = connector[c]
    BY <1>1, <1>7 DEF RotateUpdate, Write, AtWork, TypeOK
  <2> QED
    BY <1>1, <1>7, <2>1 DEF RotateUpdate, End, Free, LeavesRevoked, TypeOK
<1>8. CASE RevokeEnrollments(q)
  BY <1>1, <1>8 DEF RevokeEnrollments, End, Free, LeavesRevoked, TypeOK
<1> QED
  BY <1>2, <1>3, <1>4, <1>5, <1>6, <1>7, <1>8 DEF OperatorStep

LEMMA AgentLeavesRevoked ==
  ASSUME Inv, NEW c \in Id, connector[c].revokedAt, NEW q \in Slot, AgentStep(q)
  PROVE  LeavesRevoked(c)
<1>1. TypeOK /\ NoId # c
  BY NoIdAssumption DEF Inv
<1>2. ASSUME NEW t \in Token, EnrollConsume(q, t) PROVE LeavesRevoked(c)
  <2>1. enrollment[t].connector # c
    BY <1>2 DEF EnrollConsume, Enrollable, Revoked
  <2> QED
    BY <1>1, <1>2, <2>1 DEF EnrollConsume, Begin, LeavesRevoked, TypeOK
<1>3. ASSUME NEW op, NEW s, AgentCall(q, op, s) PROVE LeavesRevoked(c)
  <2>1. PICK d \in Id : Authenticates(s, d) /\ Begin(q, op, d, NoSecret)
    BY <1>3 DEF AgentCall
  <2>2. d # c
    BY <2>1 DEF Authenticates, Revoked
  <2> QED
    BY <1>1, <1>3, <2>1, <2>2 DEF AgentCall, Begin, LeavesRevoked, TypeOK
<1>4. ASSUME NEW row,
             \/ EnrollCredential(q) \/ HeartbeatUpdate(q) \/ SnapshotSaved(q) \/ markError(q),
             connector' = [connector EXCEPT ![request[q].c] = row]
      PROVE  LeavesRevoked(c)
  <2>1. request' = [request EXCEPT ![q] = Free]
    BY <1>4 DEF EnrollCredential, HeartbeatUpdate, SnapshotSaved, markError, End
  <2>2. AtWork(c) = {} => connector'[c] = connector[c]
    BY <1>1, <1>4 DEF AtWork, TypeOK
  <2> QED
    BY <1>1, <2>1, <2>2 DEF Free, LeavesRevoked, TypeOK
<1> QED
  BY <1>2, <1>3, <1>4 DEF AgentStep, Heartbeat, Snapshot, Report, EnrollCredential,
     HeartbeatUpdate, SnapshotSaved, markError, Write

\* Once a connector is revoked no handler takes it up again, and its row never changes
\* after those that were at work on it are gone.
THEOREM RevocationHolds == Spec => NoWorkOnRevoked
<1>1. ASSUME Inv, [Next]_vars
      PROVE  [\A c \in Id : connector[c].revokedAt =>
                /\ \A r \in Slot : request'[r].c = c => request[r].c = c
                /\ AtWork(c) = {} => connector'[c] = connector[c]]_vars
  <2> SUFFICES ASSUME Next, NEW c \in Id, connector[c].revokedAt
               PROVE  LeavesRevoked(c)
    BY <1>1 DEF LeavesRevoked
  <2>1. ASSUME NEW q \in Slot, Fail(q) PROVE LeavesRevoked(c)
    BY <1>1, <2>1, NoIdAssumption DEF Inv, TypeOK, Fail, End, Free, LeavesRevoked
  <2>2. CASE Tick
    BY <2>2 DEF Tick, LeavesRevoked
  <2> QED
    BY <1>1, <2>1, <2>2, OperatorLeavesRevoked, AgentLeavesRevoked DEF Next
<1> QED
  BY <1>1, InvHolds, PTL DEF Spec, NoWorkOnRevoked

-----------------------------------------------------------------------------
(* The limit on connectors. *)

Creating == {r \in Slot : request[r].op = "create"}

LEMMA ActiveAndCreatingAreFinite ==
  /\ IsFiniteSet(Active) /\ Cardinality(Active) \in Nat
  /\ IsFiniteSet(Creating) /\ Cardinality(Creating) \in Nat
<1>1. IsFiniteSet(Active) /\ IsFiniteSet(Creating)
  BY IdAssumption, SlotAssumption, FS_Subset DEF Active, Creating
<1> QED
  BY <1>1, FS_CardinalityType

LEMMA NoneCreatedKeepsLimit ==
  ASSUME ConnectorLimit, Active' \subseteq Active, Creating' \subseteq Creating
  PROVE  ConnectorLimit'
<1>1. /\ Cardinality(Active') <= Cardinality(Active) /\ Cardinality(Active') \in Nat
      /\ Cardinality(Creating') <= Cardinality(Creating) /\ Cardinality(Creating') \in Nat
  BY ActiveAndCreatingAreFinite, FS_Subset, FS_CardinalityType
<1>2. Cardinality(Slot) \in Nat
  BY SlotAssumption, FS_CardinalityType
<1> QED
  BY <1>1, <1>2, ActiveAndCreatingAreFinite, ConnectorBounds DEF ConnectorLimit, Creating

\* Rotation, revocation, the agents' calls and a failure add no connector.
LEMMA OthersAddNone ==
  ASSUME Inv, NEW q \in Slot,
         \/ \E c \in Id : RotateFind(q, c) \/ RevokeRow(q, c)
         \/ RotateClose(q) \/ RotateUpdate(q) \/ RevokeEnrollments(q)
         \/ AgentStep(q) \/ Fail(q)
  PROVE  Active' \subseteq Active /\ Creating' \subseteq Creating
<1>1. TypeOK
  BY DEF Inv
<1>2. Creating' \subseteq Creating
  <2>1. PICK h : h.op # "create" /\ request' = [request EXCEPT ![q] = h]
    <3>1. CASE \E c \in Id : RotateFind(q, c) \/ RevokeRow(q, c)
      BY <3>1 DEF RotateFind, RevokeRow, Begin
    <3>2. CASE RotateClose(q)
      <4>1. request' = [request EXCEPT ![q] = [request[q] EXCEPT !.op = "rotateClosed", !.at = now]]
        BY <1>1, <3>2 DEF RotateClose, TypeOK
      <4>2. [request[q] EXCEPT !.op = "rotateClosed", !.at = now].op # "create"
        BY <1>1 DEF TypeOK, Handler
      <4> QED
        BY <4>1, <4>2
    <3>3. CASE End(q) \/ Fail(q)
      BY <3>3 DEF End, Fail, Free
    <3>4. ASSUME NEW op \in {"heartbeat", "snapshot", "report"}, NEW s, AgentCall(q, op, s)
          PROVE  \E h : h.op # "create" /\ request' = [request EXCEPT ![q] = h]
      BY <3>4 DEF AgentCall, Begin
    <3>5. ASSUME NEW t, EnrollConsume(q, t)
          PROVE  \E h : h.op # "create" /\ request' = [request EXCEPT ![q] = h]
      BY <3>5 DEF EnrollConsume, Begin
    <3> QED
      BY <3>1, <3>2, <3>3, <3>4, <3>5 DEF RotateUpdate, RevokeEnrollments, AgentStep, Heartbeat,
         Snapshot, Report, EnrollCredential, HeartbeatUpdate, SnapshotSaved, markError
  <2> QED
    BY <1>1, <2>1 DEF Creating, TypeOK
<1>3. Active' \subseteq Active
  <2>1. CASE UNCHANGED connector
    BY <2>1 DEF Active
  <2>2. ASSUME NEW c \in Id, NEW row, connector[c].status # "absent",
               row.revokedAt = connector[c].revokedAt \/ row.revokedAt,
               connector' = [connector EXCEPT ![c] = row]
        PROVE  Active' \subseteq Active
    BY <1>1, <2>2 DEF Active, TypeOK
  <2>3. \A c \in Id : connector[c] \in Row
    BY <1>1 DEF TypeOK
  <2>4. request[q].op \in OnConnector =>
          request[q].c \in Id /\ connector[request[q].c].status # "absent"
    BY DEF Inv, HandlerOK
  <2>5. ASSUME NEW c \in Id, RevokeRow(q, c) PROVE Active' \subseteq Active
    BY <2>2, <2>3, <2>5 DEF RevokeRow, Write, Row
  <2>6. CASE RotateUpdate(q)
    BY <2>2, <2>3, <2>4, <2>6 DEF RotateUpdate, Write, Row, OnConnector
  <2>7. CASE EnrollCredential(q) \/ HeartbeatUpdate(q) \/ SnapshotSaved(q) \/ markError(q)
    <3>1. PICK row : /\ row.revokedAt = connector[request[q].c].revokedAt
                     /\ connector' = [connector EXCEPT ![request[q].c] = row]
      BY <2>3, <2>4, <2>7 DEF EnrollCredential, HeartbeatUpdate, SnapshotSaved, markError,
         Write, Row, OnConnector
    <3> QED
      BY <2>2, <2>4, <2>7, <3>1 DEF EnrollCredential, HeartbeatUpdate, SnapshotSaved, markError,
         OnConnector
  <2> QED
    BY <2>1, <2>5, <2>6, <2>7 DEF RotateFind, RotateClose, RevokeEnrollments, AgentStep,
       EnrollConsume, Heartbeat, Snapshot, Report, AgentCall, Fail
<1> QED
  BY <1>2, <1>3

LEMMA CreateCountKeepsLimit ==
  ASSUME Inv, ConnectorLimit, NEW q \in Slot, CreateCount(q)
  PROVE  ConnectorLimit'
<1>1. Active' = Active /\ Cardinality(Active) < MAX_CONNECTORS
  BY DEF CreateCount, Active
<1>2. Cardinality(Creating') <= Cardinality(Slot) /\ Cardinality(Creating') \in Nat
  BY SlotAssumption, FS_Subset, FS_CardinalityType DEF Creating
<1>3. Cardinality(Slot) \in Nat
  BY SlotAssumption, FS_CardinalityType
<1> QED
  BY <1>1, <1>2, <1>3, ActiveAndCreatingAreFinite, ConnectorBounds DEF ConnectorLimit, Creating

LEMMA CreateRowKeepsLimit ==
  ASSUME Inv, ConnectorLimit, NEW q \in Slot, NEW c \in Id, CreateRow(q, c)
  PROVE  ConnectorLimit'
<1>1. TypeOK
  BY DEF Inv
<1>2. Active' = Active \cup {c} /\ c \notin Active
  BY <1>1 DEF CreateRow, Write, Active, Absent, TypeOK
<1>3. Creating' = Creating \ {q} /\ q \in Creating
  BY <1>1 DEF CreateRow, End, Free, Creating, TypeOK
<1>4. /\ Cardinality(Active') = Cardinality(Active) + 1
      /\ Cardinality(Creating') = Cardinality(Creating) - 1
  BY <1>2, <1>3, ActiveAndCreatingAreFinite, FS_AddElement, FS_RemoveElement
<1>5. Cardinality(Slot) \in Nat
  BY SlotAssumption, FS_CardinalityType
<1> QED
  BY <1>4, <1>5, ActiveAndCreatingAreFinite, ConnectorBounds DEF ConnectorLimit, Creating

\* However many requests create connectors at once, the limit is passed by no more than
\* the other requests in flight (create counts, then inserts).
THEOREM LimitHolds == Spec => []ConnectorLimit
<1>1. Init => ConnectorLimit
  <2> SUFFICES ASSUME Init PROVE ConnectorLimit
    OBVIOUS
  <2>1. Active = {} /\ Creating = {}
    BY DEF Init, Active, Absent, Creating, Free
  <2>2. Cardinality(Slot) \in Nat /\ Cardinality(Slot) # 0
    BY SlotAssumption, FS_CardinalityType, FS_EmptySet
  <2>3. Cardinality(Active) = 0 /\ Cardinality(Creating) = 0
    BY <2>1, FS_EmptySet
  <2> QED
    BY <2>2, <2>3, ConnectorBounds DEF ConnectorLimit, Creating
<1>2. Inv /\ ConnectorLimit /\ [Next]_vars => ConnectorLimit'
  <2> SUFFICES ASSUME Inv, ConnectorLimit, [Next]_vars PROVE ConnectorLimit'
    OBVIOUS
  <2>1. CASE Tick \/ UNCHANGED vars
    BY <2>1, NoneCreatedKeepsLimit DEF Tick, vars, Active, Creating
  <2>2. ASSUME NEW q \in Slot, OperatorStep(q) \/ AgentStep(q) \/ Fail(q)
        PROVE  ConnectorLimit'
    BY <2>2, CreateCountKeepsLimit, CreateRowKeepsLimit, OthersAddNone, NoneCreatedKeepsLimit
    DEF OperatorStep
  <2> QED
    BY <2>1, <2>2 DEF Next
<1> QED
  BY <1>1, <1>2, InvHolds, PTL DEF Spec

-----------------------------------------------------------------------------
(* The service that the agents see. *)

\* Every secret has a number below the bound, and revokedAt tells every revoked row.
ServiceInv ==
  /\ Inv
  /\ secrets <= MaxSecrets
  /\ \A c \in Id : connector[c].status = "revoked" => connector[c].revokedAt

HeldBy(t) == \E r \in Slot : request[r].op = "enroll" /\ request[r].token = t
Yielded(t) == \E i \in issued : i[1] = t
Seen == [t \in 1..MaxSecrets |-> ServiceToken(t)]
AcceptedTokens == {i[1] : i \in {j \in issued : \E c \in Id : Authenticates(j[2], c)}}

\* The rows that a step writes: revocation is never taken back, and is told by revokedAt.
LEMMA RowsInv ==
  ASSUME ServiceInv, [Next]_vars
  PROVE  /\ ServiceInv'
         /\ \A c \in Id : Revoked(connector[c]) => Revoked(connector'[c])
<1> SUFFICES /\ secrets' <= MaxSecrets
             /\ \A c \in Id : connector'[c].status = "revoked" => connector'[c].revokedAt
             /\ \A c \in Id : connector[c].revokedAt => connector'[c].revokedAt
  BY NextInv DEF ServiceInv, Revoked
<1>1. TypeOK
  BY DEF ServiceInv, Inv
<1>2. secrets' <= MaxSecrets
  <2>1. secrets \in Nat /\ MaxSecrets \in Nat
    BY <1>1, ConnectorBounds DEF TypeOK
  <2>2. ASSUME NEW r \in Slot, OperatorStep(r) PROVE secrets' <= MaxSecrets
    <3>1. ASSUME NEW c, NEW at, OpenEnrollment(c, at) PROVE secrets' <= MaxSecrets
      BY <2>1, <3>1 DEF OpenEnrollment
    <3>2. CASE UNCHANGED secrets
      BY <3>2 DEF ServiceInv
    <3> QED
      BY <2>2, <3>1, <3>2 DEF OperatorStep, CreateCount, CreateRow, RotateFind, RotateClose,
         RotateUpdate, RevokeRow, RevokeEnrollments
  <2>3. ASSUME NEW r \in Slot, AgentStep(r) \/ Fail(r) PROVE secrets' <= MaxSecrets
    BY <2>1, <2>3 DEF ServiceInv, AgentStep, Fail, EnrollConsume, EnrollCredential, Heartbeat,
       Snapshot, Report, AgentCall, HeartbeatUpdate, SnapshotSaved, markError
  <2> QED
    BY <2>2, <2>3 DEF ServiceInv, Next, vars, Tick
<1>3. ASSUME NEW d \in Id, NEW row,
             connector' = [connector EXCEPT ![d] = row],
             connector[d].revokedAt => row.revokedAt,
             row.status = "revoked" => row.revokedAt
      PROVE  /\ \A c \in Id : connector'[c].status = "revoked" => connector'[c].revokedAt
             /\ \A c \in Id : connector[c].revokedAt => connector'[c].revokedAt
  BY <1>1, <1>3 DEF TypeOK, ServiceInv
<1>4. CASE UNCHANGED connector
  BY <1>2, <1>4 DEF ServiceInv
<1>5. \A c \in Id : connector[c] \in Row
  BY <1>1 DEF TypeOK
<1>6. ASSUME NEW r \in Slot, NEW d \in Id, CreateRow(r, d)
      PROVE  /\ \A c \in Id : connector'[c].status = "revoked" => connector'[c].revokedAt
             /\ \A c \in Id : connector[c].revokedAt => connector'[c].revokedAt
  <2>1. ~connector[d].revokedAt
    BY <1>6 DEF CreateRow, ServiceInv, Inv, AbsentIsBlank, Absent
  <2> QED
    BY <1>3, <1>6, <2>1 DEF CreateRow, Write, Absent
<1>7. ASSUME NEW r \in Slot, NEW d \in Id, RevokeRow(r, d)
      PROVE  /\ \A c \in Id : connector'[c].status = "revoked" => connector'[c].revokedAt
             /\ \A c \in Id : connector[c].revokedAt => connector'[c].revokedAt
  BY <1>3, <1>5, <1>7 DEF RevokeRow, Write, Row
<1>8. ASSUME NEW r \in Slot,
             \/ RotateUpdate(r) \/ EnrollCredential(r) \/ HeartbeatUpdate(r)
             \/ SnapshotSaved(r) \/ markError(r)
      PROVE  /\ \A c \in Id : connector'[c].status = "revoked" => connector'[c].revokedAt
             /\ \A c \in Id : connector[c].revokedAt => connector'[c].revokedAt
  <2>1. request[r].c \in Id
    BY <1>8 DEF ServiceInv, Inv, HandlerOK, OnConnector, RotateUpdate, EnrollCredential,
       HeartbeatUpdate, SnapshotSaved, markError
  <2>2. connector[request[r].c] \in Row
    BY <1>5, <2>1
  <2> DEFINE old == connector[request[r].c]
             written == {[old EXCEPT !.status = "pending", !.credentialHash = NoSecret,
                            !.lastSeenAt = NoTime, !.lastError = FALSE],
                         [old EXCEPT !.credentialHash = secrets + 1, !.status = "connected",
                            !.lastSeenAt = request[r].at, !.lastError = FALSE],
                         [old EXCEPT !.lastSeenAt = now],
                         [old EXCEPT !.status = "connected", !.lastSeenAt = now,
                            !.lastError = FALSE],
                         [old EXCEPT !.status = "error", !.lastSeenAt = now, !.lastError = TRUE]}
  <2>3. PICK row \in written : connector' = [connector EXCEPT ![request[r].c] = row]
    BY <1>8 DEF Write, RotateUpdate, EnrollCredential, HeartbeatUpdate, SnapshotSaved, markError
  <2>4. row.revokedAt = old.revokedAt /\ (row.status = "revoked" => old.status = "revoked")
    BY <2>2, <2>3 DEF Row
  <2> QED
    BY <1>3, <2>1, <2>3, <2>4 DEF ServiceInv
<1> QED
  BY <1>2, <1>4, <1>6, <1>7, <1>8 DEF Next, vars, Tick, OperatorStep, AgentStep, Fail, CreateCount,
     RotateFind, RotateClose, RevokeEnrollments, EnrollConsume, Heartbeat, Snapshot, Report,
     AgentCall

\* A token goes on as it was while these stay: whether it exists, can be used, has yielded
\* a credential and is held.
LEMMA TokenKept ==
  ASSUME NEW t,
         t \in Token' <=> t \in Token,
         t \in Token => (Enrollable(t)' <=> Enrollable(t)),
         t \in Token => (Yielded(t)' <=> Yielded(t)),
         t \in Token => (HeldBy(t)' <=> HeldBy(t))
  PROVE  ServiceToken(t)' = ServiceToken(t)
<1>1. CASE t \notin Token
  BY <1>1 DEF ServiceToken
<1>2. CASE t \in Token
  <2>1. /\ ServiceToken(t) = IF Enrollable(t) THEN "open" ELSE IF Yielded(t) THEN "issued"
                             ELSE IF HeldBy(t) THEN "consumed" ELSE "closed"
        /\ ServiceToken(t)' = IF Enrollable(t)' THEN "open" ELSE IF Yielded(t)' THEN "issued"
                              ELSE IF HeldBy(t)' THEN "consumed" ELSE "closed"
    BY <1>2 DEF ServiceToken, Yielded, HeldBy
  <2> QED
    BY <1>2, <2>1
<1> QED
  BY <1>1, <1>2

\* The same for the accepted credentials.
LEMMA NoneAccepted ==
  ASSUME issued' = issued,
         \A c \in Id : \A i \in issued : Authenticates(i[2], c)' => Authenticates(i[2], c)
  PROVE  AcceptedTokens' \subseteq AcceptedTokens
  BY DEF AcceptedTokens

LEMMA AcceptedKept ==
  ASSUME issued' = issued,
         \A c \in Id : \A i \in issued : Authenticates(i[2], c)' <=> Authenticates(i[2], c)
  PROVE  AcceptedTokens' = AcceptedTokens
<1>1. AcceptedTokens' \subseteq AcceptedTokens
  BY DEF AcceptedTokens
<1>2. AcceptedTokens \subseteq AcceptedTokens'
  BY DEF AcceptedTokens
<1> QED
  BY <1>1, <1>2

ServiceStep == Service!ServiceNext \/ UNCHANGED <<Seen, AcceptedTokens>>

LEMMA StutterStep ==
  ASSUME \A t \in 1..MaxSecrets : ServiceToken(t)' = ServiceToken(t),
         AcceptedTokens' = AcceptedTokens
  PROVE  ServiceStep
  BY DEF ServiceStep, Seen

\* One token moves.
LEMMA MoveStep ==
  ASSUME NEW t \in 1..MaxSecrets, NEW from, NEW to,
         ServiceToken(t) = from, ServiceToken(t)' = to,
         \A u \in 1..MaxSecrets : u # t => ServiceToken(u)' = ServiceToken(u),
         \/ from = "new" /\ to \in {"open", "closed"} /\ AcceptedTokens' \subseteq AcceptedTokens
         \/ from = "open" /\ to = "consumed" /\ AcceptedTokens' = AcceptedTokens
         \/ from = "consumed" /\ to = "closed" /\ AcceptedTokens' = AcceptedTokens
         \/ from = "consumed" /\ to = "issued" /\ AcceptedTokens' \subseteq AcceptedTokens \cup {t}
  PROVE  ServiceStep
<1>1. Seen[t] = from /\ Seen' = [Seen EXCEPT ![t] = to]
  BY DEF Seen
<1>2. Service!Moves(t, from, to)
  BY <1>1 DEF Service!Moves, Seen
<1>3. \/ from = "new" /\ Service!Offer(t)
      \/ from = "open" /\ Service!Consume(t)
      \/ to = "closed" /\ Service!Abandon(t)
      \/ to = "issued" /\ Service!Issue(t)
  BY <1>2 DEF Service!Offer, Service!Consume, Service!Abandon, Service!Issue, Service!Refuse,
     AcceptedTokens
<1> QED
  BY <1>3 DEF ServiceStep, Service!ServiceNext

\* Open tokens close.
LEMMA CloseStep ==
  ASSUME \A t \in 1..MaxSecrets : \/ ServiceToken(t)' = ServiceToken(t)
                                  \/ ServiceToken(t) = "open" /\ ServiceToken(t)' = "closed",
         AcceptedTokens' \subseteq AcceptedTokens
  PROVE  ServiceStep
<1> DEFINE S == {t \in 1..MaxSecrets : ServiceToken(t) = "open" /\ ServiceToken(t)' = "closed"}
<1>1. S \in SUBSET Service!Open
  BY DEF Service!Open
<1>2. Seen' = [t \in 1..MaxSecrets |-> IF t \in S THEN "closed" ELSE Seen[t]]
  BY DEF Seen
<1>3. Service!Close(S)
  BY <1>2 DEF Service!Close, Service!Refuse, Seen, AcceptedTokens
<1> QED
  BY <1>1, <1>3 DEF ServiceStep, Service!ServiceNext

-----------------------------------------------------------------------------
(* What each step is to an agent. *)

\* A handler that holds no token, before or after, makes no difference to any token.
LEMMA HolderKept ==
  ASSUME TypeOK, NEW r \in Slot, NEW h, h.op # "enroll", request[r].op # "enroll",
         request' = [request EXCEPT ![r] = h]
  PROVE  \A t : HeldBy(t)' <=> HeldBy(t)
<1> SUFFICES ASSUME NEW t PROVE HeldBy(t)' <=> HeldBy(t)
  OBVIOUS
<1>1. \A q \in Slot : q # r => request'[q] = request[q]
  BY DEF TypeOK
<1>2. request'[r] = h
  BY DEF TypeOK
<1> QED
  BY <1>1, <1>2 DEF HeldBy

\* Handlers come and go, and rows are written that stay as they were for agents.
LEMMA QuietStep ==
  ASSUME TypeOK, NEW r \in Slot, NEW h, h.op # "enroll", request[r].op # "enroll",
         request' = [request EXCEPT ![r] = h],
         UNCHANGED <<enrollment, now, issued>>,
         \A c \in Id : /\ Revoked(connector'[c]) <=> Revoked(connector[c])
                       /\ connector'[c].credentialHash = connector[c].credentialHash
  PROVE  ServiceStep
<1>1. \A t : HeldBy(t)' <=> HeldBy(t)
  BY HolderKept
<1>2. \A t \in Token : Enrollable(t)' <=> Enrollable(t)
  BY DEF TypeOK, Enrollable, Enrollment
<1>3. \A t : ServiceToken(t)' = ServiceToken(t)
  BY <1>1, <1>2, TokenKept DEF Token, Yielded
<1>4. AcceptedTokens' = AcceptedTokens
  BY AcceptedKept DEF Authenticates
<1> QED
  BY <1>3, <1>4, StutterStep

\* A new enrollment of connector c, which then accepts no credential.
LEMMA OfferStep ==
  ASSUME ServiceInv, NEW r \in Slot, NEW h, h.op # "enroll", request[r].op # "enroll",
         request' = [request EXCEPT ![r] = h],
         NEW c \in Id, NEW row, NEW at \in Nat,
         row.credentialHash = NoSecret,
         connector' = [connector EXCEPT ![c] = row],
         \A t \in Token : enrollment[t].connector = c => (Revoked(row) <=> Revoked(connector[c])),
         OpenEnrollment(c, at),
         UNCHANGED <<now, issued>>
  PROVE  ServiceStep
<1>n. PICK n : n = secrets + 1
  OBVIOUS
<1>1. TypeOK
  BY DEF ServiceInv, Inv
<1>2. /\ n \in 1..MaxSecrets /\ n \notin Token /\ Token' = Token \cup {n}
      /\ \A t \in Token : enrollment'[t] = enrollment[t]
      /\ enrollment'[n] = [connector |-> c, used |-> FALSE, expiresAt |-> at + ENROLLMENT_TTL]
  BY <1>n, <1>1, ConnectorBounds DEF OpenEnrollment, TypeOK, Token
<1>3. \A t : HeldBy(t)' <=> HeldBy(t)
  BY <1>1, HolderKept
<1>4. \A d \in Id : connector'[d] = IF d = c THEN row ELSE connector[d]
  BY <1>1 DEF TypeOK
<1>5. \A t \in Token : Enrollable(t)' <=> Enrollable(t)
  BY <1>1, <1>2, <1>4 DEF TypeOK, Enrollable, Enrollment
<1>6. \A t : t # n => ServiceToken(t)' = ServiceToken(t)
  BY <1>2, <1>3, <1>5, TokenKept DEF Yielded
<1>7. ~Yielded(n)' /\ ~HeldBy(n)'
  <2>1. ~Yielded(n)'
    BY <1>n, <1>1, <1>2 DEF Yielded, TypeOK
  <2>2. ~HeldBy(n)
    BY <1>2 DEF HeldBy, ServiceInv, Inv, HandlerOK
  <2> QED
    BY <1>3, <2>1, <2>2
<1>8. ServiceToken(n) = "new" /\ ServiceToken(n)' \in {"open", "closed"}
  BY <1>2, <1>7 DEF ServiceToken, Yielded, HeldBy
<1>9. AcceptedTokens' \subseteq AcceptedTokens
  <2>1. \A i \in issued : i[2] # NoSecret
    BY <1>1, NoneAssumption DEF TypeOK
  <2> QED
    BY <1>4, <2>1, NoneAccepted DEF Authenticates
<1> QED
  BY <1>2, <1>6, <1>8, <1>9, MoveStep

\* Operators and time close tokens and refuse credentials.
LEMMA ClosingStep ==
  ASSUME ServiceInv, Token' = Token, issued' = issued,
         \A t : HeldBy(t)' <=> HeldBy(t),
         \A t \in Token : Enrollable(t)' => Enrollable(t),
         \A c \in Id : \A i \in issued : Authenticates(i[2], c)' => Authenticates(i[2], c)
  PROVE  ServiceStep
<1>1. ASSUME NEW t, ServiceToken(t)' # ServiceToken(t)
      PROVE  ServiceToken(t) = "open" /\ ServiceToken(t)' = "closed"
  <2>1. t \in Token /\ Enrollable(t) /\ ~Enrollable(t)'
    BY <1>1, TokenKept DEF Yielded
  <2>2. ~Yielded(t) /\ ~HeldBy(t)
    BY <2>1 DEF Yielded, HeldBy, Enrollable, ServiceInv, Inv, TokensHeldOnce, HandlerOK
  <2> QED
    BY <2>1, <2>2 DEF ServiceToken, Yielded, HeldBy
<1>2. AcceptedTokens' \subseteq AcceptedTokens
  BY NoneAccepted
<1> QED
  BY <1>1, <1>2, CloseStep

LEMMA EnrollConsumeStep ==
  ASSUME ServiceInv, NEW r \in Slot, NEW t \in Token, EnrollConsume(r, t)
  PROVE  ServiceStep
<1>1. TypeOK /\ t \in 1..MaxSecrets
  BY ConnectorBounds DEF ServiceInv, Inv, TypeOK
<1>2. /\ Enrollable(t) /\ ~enrollment[t].used
      /\ enrollment' = [enrollment EXCEPT ![t].used = TRUE]
      /\ UNCHANGED <<connector, now, secrets, issued>>
      /\ request[r] = Free
      /\ request'[r].op = "enroll" /\ request'[r].token = t
      /\ \A q \in Slot : q # r => request'[q] = request[q]
  BY <1>1 DEF EnrollConsume, Enrollable, Begin, TypeOK
<1>3. /\ Token' = Token /\ enrollment'[t].used
      /\ \A u \in Token : u # t => enrollment'[u] = enrollment[u]
  BY <1>1, <1>2 DEF TypeOK, Token, Enrollment
<1>4. HeldBy(t)' /\ \A u : u # t => (HeldBy(u)' <=> HeldBy(u))
  BY <1>2 DEF HeldBy, Free
<1>5. ~Yielded(t) /\ ~Yielded(t)' /\ \A u : Yielded(u)' <=> Yielded(u)
  BY <1>2 DEF Yielded, ServiceInv, Inv, TokensHeldOnce
<1>6. \A u \in Token : u # t => (Enrollable(u)' <=> Enrollable(u))
  BY <1>2, <1>3 DEF Enrollable
<1>7. \A u : u # t => ServiceToken(u)' = ServiceToken(u)
  BY <1>3, <1>4, <1>5, <1>6, TokenKept
<1>8. ServiceToken(t) = "open" /\ ServiceToken(t)' = "consumed"
  BY <1>2, <1>3, <1>4, <1>5 DEF ServiceToken, Enrollable, Yielded, HeldBy
<1>9. AcceptedTokens' = AcceptedTokens
  BY <1>2, AcceptedKept DEF Authenticates
<1> QED
  BY <1>1, <1>7, <1>8, <1>9, MoveStep

\* What the handler that enrolls holds is consumed, and nothing else becomes of the others.
LEMMA HolderGone ==
  ASSUME ServiceInv, NEW r \in Slot, request[r].op = "enroll", NEW t, request[r].token = t,
         request' = [request EXCEPT ![r] = Free]
  PROVE  /\ t \in Token /\ t \in 1..MaxSecrets
         /\ enrollment[t].used /\ ServiceToken(t) = "consumed"
         /\ ~(HeldBy(t)') /\ \A u : u # t => (HeldBy(u)' <=> HeldBy(u))
<1>1. TypeOK
  BY DEF ServiceInv, Inv
<1>2. t \in Token /\ enrollment[t].used /\ \A i \in issued : i[1] # t
  BY DEF ServiceInv, Inv, HandlerOK, OnConnector
<1>3. t \in 1..MaxSecrets
  BY <1>1, <1>2, ConnectorBounds DEF ServiceInv, TypeOK
<1>4. ServiceToken(t) = "consumed"
  BY <1>2 DEF ServiceToken, Enrollable
<1>5. request'[r].op = "none" /\ \A q \in Slot : q # r => request'[q] = request[q]
  BY <1>1 DEF TypeOK, Free
<1>6. \A u : u # t => (HeldBy(u)' <=> HeldBy(u))
  BY <1>5 DEF HeldBy
<1>7. \A q \in Slot : ~(request'[q].op = "enroll" /\ request'[q].token = t)
  BY <1>5 DEF ServiceInv, Inv, TokensHeldOnce
<1> QED
  BY <1>2, <1>3, <1>4, <1>6, <1>7 DEF HeldBy

LEMMA EnrollCredentialStep ==
  ASSUME ServiceInv, NEW r \in Slot, EnrollCredential(r)
  PROVE  ServiceStep
<1>t. PICK t : t = request[r].token
  OBVIOUS
<1>s. PICK s : s = secrets + 1
  OBVIOUS
<1>1. TypeOK
  BY DEF ServiceInv, Inv
<1>2. /\ request[r].op = "enroll" /\ request[r].c \in Id
      /\ request' = [request EXCEPT ![r] = Free]
      /\ issued' = issued \cup {<<t, s>>}
      /\ UNCHANGED <<enrollment, now>>
  BY <1>t, <1>s DEF EnrollCredential, End, ServiceInv, Inv, HandlerOK, OnConnector
<1>3. /\ t \in Token /\ t \in 1..MaxSecrets
      /\ enrollment[t].used /\ ServiceToken(t) = "consumed"
      /\ \A u : u # t => (HeldBy(u)' <=> HeldBy(u))
  BY <1>t, <1>2, HolderGone
<1>4. PICK row \in Row : /\ connector' = [connector EXCEPT ![request[r].c] = row]
                         /\ row.credentialHash = s
                         /\ row.revokedAt = connector[request[r].c].revokedAt
                         /\ row.status = "connected"
  <2> DEFINE row == [connector[request[r].c] EXCEPT !.credentialHash = secrets + 1,
                       !.status = "connected", !.lastSeenAt = request[r].at, !.lastError = FALSE]
  <2>1. connector' = [connector EXCEPT ![request[r].c] = row]
    BY DEF EnrollCredential, Write
  <2>2. connector[request[r].c] \in Row /\ request[r].at \in Nat /\ s \in Nat
    BY <1>s, <1>1, <1>2 DEF TypeOK, Handler
  <2>3. /\ row \in Row /\ row.credentialHash = s /\ row.status = "connected"
        /\ row.revokedAt = connector[request[r].c].revokedAt
    BY <1>s, <2>2 DEF Row, Status
  <2> QED
    BY <2>1, <2>3
<1>5. \A d \in Id : connector'[d] = IF d = request[r].c THEN row ELSE connector[d]
  BY <1>1, <1>4 DEF TypeOK
<1>6. \A d \in Id : Revoked(connector'[d]) <=> Revoked(connector[d])
  BY <1>2, <1>4, <1>5 DEF Revoked, ServiceInv
<1>7. \A u \in Token : Enrollable(u)' <=> Enrollable(u)
  BY <1>1, <1>2, <1>6 DEF Enrollable, TypeOK, Enrollment
<1>8. Yielded(t)' /\ \A u : u # t => (Yielded(u)' <=> Yielded(u))
  <2>1. <<t, s>> \in issued' /\ <<t, s>>[1] = t
    BY <1>2
  <2>2. \A i \in issued' : i \in issued \/ i[1] = t
    BY <1>2
  <2>3. issued \subseteq issued'
    BY <1>2
  <2> QED
    BY <2>1, <2>2, <2>3 DEF Yielded
<1>9. \A u : u # t => ServiceToken(u)' = ServiceToken(u)
  BY <1>2, <1>3, <1>7, <1>8, TokenKept DEF Token
<1>10. ServiceToken(t)' = "issued"
  BY <1>2, <1>3, <1>7, <1>8 DEF ServiceToken, Enrollable, Yielded, Token
<1>11. AcceptedTokens' \subseteq AcceptedTokens \cup {t}
  <2>1. \A i \in issued : i[2] # s
    BY <1>s, <1>1 DEF TypeOK
  <2>2. \A i \in issued : \A d \in Id : Authenticates(i[2], d)' => Authenticates(i[2], d)
    BY <1>4, <1>5, <2>1 DEF Authenticates
  <2> QED
    BY <1>2, <2>2 DEF AcceptedTokens
<1> QED
  BY <1>3, <1>9, <1>10, <1>11, MoveStep

\* A handler that stops: the token that it consumed, if it did, is lost.
LEMMA FailStep ==
  ASSUME ServiceInv, NEW r \in Slot, Fail(r)
  PROVE  ServiceStep
<1>1. TypeOK /\ request' = [request EXCEPT ![r] = Free]
      /\ UNCHANGED <<connector, enrollment, now, secrets, issued>>
  BY DEF ServiceInv, Inv, Fail, End
<1>2. CASE request[r].op # "enroll"
  BY <1>1, <1>2, QuietStep DEF Free
<1>3. CASE request[r].op = "enroll"
  <2>t. PICK t : t = request[r].token
    OBVIOUS
  <2>1. /\ t \in Token /\ t \in 1..MaxSecrets
        /\ enrollment[t].used /\ ServiceToken(t) = "consumed"
        /\ ~(HeldBy(t)') /\ \A u : u # t => (HeldBy(u)' <=> HeldBy(u))
    BY <1>1, <1>3, <2>t, HolderGone
  <2>2. \A u : Enrollable(u)' <=> Enrollable(u)
    BY <1>1 DEF Enrollable
  <2>3. \A u : Yielded(u)' <=> Yielded(u)
    BY <1>1 DEF Yielded
  <2>4. \A u : u # t => ServiceToken(u)' = ServiceToken(u)
    BY <1>1, <2>1, <2>2, <2>3, TokenKept DEF Token
  <2>5. ServiceToken(t)' = "closed"
    <3>1. ~Yielded(t) /\ ~Enrollable(t)
      BY <1>3, <2>t, <2>1 DEF Yielded, Enrollable, ServiceInv, Inv, HandlerOK, OnConnector
    <3> QED
      BY <1>1, <2>1, <2>2, <2>3, <3>1 DEF ServiceToken, Yielded, HeldBy, Token
  <2>6. AcceptedTokens' = AcceptedTokens
    BY <1>1, AcceptedKept DEF Authenticates
  <2> QED
    BY <2>1, <2>4, <2>5, <2>6, MoveStep
<1> QED
  BY <1>2, <1>3

\* The handlers that open an enrollment.
LEMMA CreateRowStep ==
  ASSUME ServiceInv, NEW r \in Slot, NEW c \in Id, CreateRow(r, c)
  PROVE  ServiceStep
<1>1. /\ TypeOK /\ now \in Nat
      /\ request[r].op # "enroll" /\ request' = [request EXCEPT ![r] = Free]
      /\ UNCHANGED <<now, issued>> /\ OpenEnrollment(c, now)
  BY DEF ServiceInv, Inv, TypeOK, CreateRow, End
<1>2. PICK row : row.credentialHash = NoSecret /\ connector' = [connector EXCEPT ![c] = row]
  BY DEF CreateRow, Write, Absent
<1>3. \A t \in Token : enrollment[t].connector # c
  BY DEF CreateRow, ServiceInv, Inv, EnrollmentsExist
<1> QED
  BY <1>1, <1>2, <1>3, OfferStep DEF Free

LEMMA RotateUpdateStep ==
  ASSUME ServiceInv, NEW r \in Slot, RotateUpdate(r)
  PROVE  ServiceStep
<1>c. PICK c : c = request[r].c
  OBVIOUS
<1>1. /\ TypeOK /\ c \in Id /\ request[r].at \in Nat
      /\ request[r].op # "enroll" /\ request' = [request EXCEPT ![r] = Free]
      /\ UNCHANGED <<now, issued>> /\ OpenEnrollment(c, request[r].at)
  BY <1>c DEF ServiceInv, Inv, TypeOK, Handler, HandlerOK, OnConnector, RotateUpdate, End
<1>2. PICK row : /\ connector' = [connector EXCEPT ![c] = row]
                 /\ row = [connector[c] EXCEPT !.status = "pending", !.credentialHash = NoSecret,
                             !.lastSeenAt = NoTime, !.lastError = FALSE]
  BY <1>c DEF RotateUpdate, Write
<1>3. /\ row.credentialHash = NoSecret /\ row.revokedAt = connector[c].revokedAt
      /\ row.status = "pending"
  BY <1>1, <1>2 DEF TypeOK, Row
<1>4. Revoked(row) <=> Revoked(connector[c])
  BY <1>1, <1>3 DEF Revoked, ServiceInv
<1>5. PICK at \in Nat : OpenEnrollment(c, at)
  BY <1>1
<1> QED
  BY <1>1, <1>2, <1>3, <1>4, <1>5, OfferStep DEF Free

\* The handlers that close enrollments or refuse a credential, and the clock.
LEMMA CloseEnrollmentsStep ==
  ASSUME ServiceInv, NEW r \in Slot, RotateClose(r) \/ RevokeEnrollments(r)
  PROVE  ServiceStep
<1>1. PICK h : h.op # "enroll" /\ request' = [request EXCEPT ![r] = h]
  <2>1. CASE RotateClose(r)
    <3>1. request[r] \in Handler
      BY DEF ServiceInv, Inv, TypeOK
    <3>2. [request[r] EXCEPT !.op = "rotateClosed", !.at = now].op = "rotateClosed"
      BY <3>1 DEF Handler
    <3>3. request' = [request EXCEPT ![r] = [request[r] EXCEPT !.op = "rotateClosed", !.at = now]]
      BY <2>1 DEF RotateClose, ServiceInv, Inv, TypeOK
    <3> QED
      BY <3>2, <3>3
  <2>2. CASE RevokeEnrollments(r)
    BY <2>2 DEF RevokeEnrollments, End, Free
  <2> QED
    BY <2>1, <2>2
<1>2. /\ TypeOK /\ request[r].op # "enroll"
      /\ CloseEnrollments(request[r].c) /\ UNCHANGED <<connector, now, issued>>
  BY DEF ServiceInv, Inv, RotateClose, RevokeEnrollments
<1>3. Token' = Token /\ \A t \in Token : Enrollable(t)' => Enrollable(t)
  BY <1>2 DEF CloseEnrollments, Enrollable, TypeOK, Enrollment, Token
<1>4. \A t : HeldBy(t)' <=> HeldBy(t)
  BY <1>1, <1>2, HolderKept
<1>5. \A c \in Id : \A i \in issued : Authenticates(i[2], c)' => Authenticates(i[2], c)
  BY <1>2 DEF Authenticates
<1> QED
  BY <1>2, <1>3, <1>4, <1>5, ClosingStep

LEMMA RevokeRowStep ==
  ASSUME ServiceInv, ServiceInv', NEW r \in Slot, NEW c \in Id, RevokeRow(r, c)
  PROVE  ServiceStep
<1>1. PICK h : h.op # "enroll" /\ request' = [request EXCEPT ![r] = h]
  BY DEF RevokeRow, Begin
<1>a. request[r].op # "enroll"
  BY DEF RevokeRow, Begin, Free
<1>2. TypeOK /\ UNCHANGED <<enrollment, now, issued>>
  BY DEF ServiceInv, Inv, RevokeRow
<1>3. \A d \in Id : Revoked(connector[d]) => Revoked(connector'[d])
  <2>1. connector[c] \in Row
    BY <1>2 DEF TypeOK
  <2>2. connector'[c].revokedAt /\ \A d \in Id : d # c => connector'[d] = connector[d]
    BY <1>2, <2>1 DEF RevokeRow, Write, TypeOK, Row
  <2> QED
    BY <2>2 DEF Revoked
<1>4. \A d \in Id : d # c => connector'[d] = connector[d]
  BY <1>2 DEF RevokeRow, Write, TypeOK
<1>5. connector'[c].credentialHash = NoSecret
  BY <1>2 DEF RevokeRow, Write, TypeOK, Row
<1>6. \A t : HeldBy(t)' <=> HeldBy(t)
  BY <1>1, <1>2, <1>a, HolderKept
<1>7. \A t \in Token : Enrollable(t)' => Enrollable(t)
  BY <1>2, <1>3 DEF Enrollable, TypeOK, Enrollment
<1>8. \A d \in Id : \A i \in issued : Authenticates(i[2], d)' => Authenticates(i[2], d)
  <2>1. \A i \in issued : i[2] # NoSecret
    BY <1>2, NoneAssumption DEF TypeOK
  <2> QED
    BY <1>4, <1>5, <2>1 DEF Authenticates
<1> QED
  BY <1>2, <1>6, <1>7, <1>8, ClosingStep DEF Token

LEMMA TickStep ==
  ASSUME ServiceInv, Tick
  PROVE  ServiceStep
<1>1. TypeOK /\ now' = now + 1 /\ UNCHANGED <<connector, enrollment, request, issued>>
  BY DEF ServiceInv, Inv, Tick
<1>2. \A t \in Token : Enrollable(t)' => Enrollable(t)
  BY <1>1 DEF Enrollable, TypeOK, Enrollment
<1>3. \A t : HeldBy(t)' <=> HeldBy(t)
  BY <1>1 DEF HeldBy
<1> QED
  BY <1>1, <1>2, <1>3, ClosingStep DEF Authenticates, Token

\* The handlers that only come, and those of an agent that has been let in.
LEMMA BeginStep ==
  ASSUME ServiceInv, NEW r \in Slot, NEW op, NEW c, op # "enroll", Begin(r, op, c, NoSecret),
         UNCHANGED <<connector, enrollment, now, issued>>
  PROVE  ServiceStep
<1>1. PICK h : h.op # "enroll" /\ request' = [request EXCEPT ![r] = h]
  BY DEF Begin
<1>2. TypeOK /\ request[r].op # "enroll"
  BY DEF ServiceInv, Inv, Begin, Free
<1> QED
  BY <1>1, <1>2, QuietStep

LEMMA AgentWriteStep ==
  ASSUME ServiceInv, NEW r \in Slot, HeartbeatUpdate(r) \/ SnapshotSaved(r) \/ markError(r)
  PROVE  ServiceStep
<1> DEFINE old == connector[request[r].c]
<1>1. /\ TypeOK /\ request[r].c \in Id /\ request[r].op # "enroll"
      /\ request' = [request EXCEPT ![r] = Free]
      /\ UNCHANGED <<enrollment, now, issued>>
  BY DEF ServiceInv, Inv, HandlerOK, OnConnector, HeartbeatUpdate, SnapshotSaved, markError, End
<1>2. PICK row : /\ connector' = [connector EXCEPT ![request[r].c] = row]
                 /\ row \in {[old EXCEPT !.lastSeenAt = now],
                             [old EXCEPT !.status = "connected", !.lastSeenAt = now,
                                !.lastError = FALSE],
                             [old EXCEPT !.status = "error", !.lastSeenAt = now,
                                !.lastError = TRUE]}
  BY DEF HeartbeatUpdate, SnapshotSaved, markError, Write
<1>3. /\ row.credentialHash = old.credentialHash /\ row.revokedAt = old.revokedAt
      /\ row.status = "revoked" => old.status = "revoked"
      /\ row.status = old.status \/ row.status # "revoked"
  BY <1>1, <1>2 DEF TypeOK, Row
<1>4. Revoked(row) <=> Revoked(old)
  BY <1>1, <1>3 DEF Revoked, ServiceInv
<1>5. \A d \in Id : /\ Revoked(connector'[d]) <=> Revoked(connector[d])
                    /\ connector'[d].credentialHash = connector[d].credentialHash
  BY <1>1, <1>2, <1>3, <1>4 DEF TypeOK
<1> QED
  BY <1>1, <1>5, QuietStep DEF Free

LEMMA EveryStepServes ==
  ASSUME ServiceInv, ServiceInv', [Next]_vars
  PROVE  ServiceStep
<1>1. CASE UNCHANGED vars
  <2>1. \A t : ServiceToken(t)' = ServiceToken(t)
    BY <1>1, TokenKept DEF vars, Token, Enrollable, Yielded, HeldBy
  <2>2. AcceptedTokens' = AcceptedTokens
    BY <1>1, AcceptedKept DEF vars, Authenticates
  <2> QED
    BY <2>1, <2>2, StutterStep
<1>2. ASSUME NEW r \in Slot, OperatorStep(r) PROVE ServiceStep
  <2>1. CASE CreateCount(r) \/ \E c \in Id : RotateFind(r, c)
    BY <2>1, BeginStep DEF CreateCount, RotateFind
  <2> QED
    BY <1>2, <2>1, CreateRowStep, RevokeRowStep, CloseEnrollmentsStep, RotateUpdateStep
    DEF OperatorStep
<1>3. ASSUME NEW r \in Slot, AgentStep(r) PROVE ServiceStep
  <2>1. ASSUME NEW op, op # "enroll", NEW s, AgentCall(r, op, s) PROVE ServiceStep
    BY <2>1, BeginStep DEF AgentCall
  <2> QED
    BY <1>3, <2>1, EnrollConsumeStep, EnrollCredentialStep, AgentWriteStep
    DEF AgentStep, Heartbeat, Snapshot, Report
<1> QED
  BY <1>1, <1>2, <1>3, TickStep, FailStep DEF Next

\* Connector implements CredentialService: whatever operators and agents do at once, a
\* token goes from open to consumed to one credential, closed tokens and refused
\* credentials stay so, and only enrollment makes a credential accepted
\* (connectors.service.ts, for any number of connectors, handlers and secrets).
THEOREM AgentsServed == Spec => ServesAgents
<1>1. Init => ServiceInv /\ Service!ServiceInit
  <2> SUFFICES ASSUME Init PROVE ServiceInv /\ Service!ServiceInit
    OBVIOUS
  <2>1. ServiceInv
    BY InitInv, ConnectorBounds DEF Init, Absent, ServiceInv
  <2>2. Token = {} /\ issued = {}
    BY DEF Init, Token
  <2>3. \A t : ServiceToken(t) = "new"
    BY <2>2 DEF ServiceToken
  <2> QED
    BY <2>1, <2>2, <2>3 DEF Service!ServiceInit
<1>2. ServiceInv /\ [Next]_vars => ServiceInv'
  BY RowsInv
<1>3. ServiceInv /\ ServiceInv' /\ [Next]_vars =>
        [Service!service' # Service!service /\ Service!ServiceNext]_(Service!service)
  BY EveryStepServes DEF ServiceStep, Service!service, Seen, AcceptedTokens
<1> QED
  BY <1>1, <1>2, <1>3, PTL DEF Spec, ServesAgents, Service!ServiceSpec

-----------------------------------------------------------------------------
(* Connectors that no two handlers worked on at once. *)

IsNewest(t, c) == t \in TokensOf(c) /\ \A u \in TokensOf(c) : u <= t

\* What holds of such a connector at any time, also while its one handler is between two
\* steps: all its tokens but the newest are used, its credential is of the newest, a handler
\* that enrolls holds the newest, and one that rotates has closed them all.
QuietOK(c) ==
  c \notin overlapped =>
    /\ \A r, q \in Slot : request[r].c = c /\ request[q].c = c => r = q
    /\ \A t \in TokensOf(c) : enrollment[t].used \/ IsNewest(t, c)
    /\ connector[c].credentialHash # NoSecret =>
         \E t : IsNewest(t, c) /\ <<t, connector[c].credentialHash>> \in issued
    /\ \A r \in Slot : request[r].c = c =>
         /\ request[r].op = "enroll" => IsNewest(request[r].token, c)
         /\ request[r].op = "rotateClosed" => \A t \in TokensOf(c) : enrollment[t].used

QuietInv == ServiceInv /\ \A c \in Id : QuietOK(c)

\* The handlers of c end or go on, its tokens close, its credential stays or goes.
LEMMA QuietGoesOn ==
  ASSUME NEW c \in Id, QuietOK(c), c \in overlapped => c \in overlapped',
         connector'[c].credentialHash \in {connector[c].credentialHash, NoSecret},
         TokensOf(c)' = TokensOf(c),
         \A t \in TokensOf(c) : enrollment[t].used => enrollment'[t].used,
         issued \subseteq issued',
         \A r \in Slot : request'[r].c = c => request'[r] = request[r]
  PROVE  QuietOK(c)'
<1> SUFFICES ASSUME c \notin overlapped PROVE QuietOK(c)'
  BY DEF QuietOK
<1>1. \A t : IsNewest(t, c)' <=> IsNewest(t, c)
  BY DEF IsNewest
<1> QED
  BY <1>1 DEF QuietOK

\* A handler takes c up.
LEMMA QuietBegins ==
  ASSUME NEW c \in Id, QuietOK(c), NEW r \in Slot, NEW h,
         request \in [Slot -> Handler],
         request' = [request EXCEPT ![r] = h], h.c = c, h.op # "rotateClosed",
         h.op = "enroll" => IsNewest(h.token, c),
         overlapped' = IF c # NoId /\ \E q \in Slot : request[q].c = c
                         THEN overlapped \cup {c} ELSE overlapped,
         connector'[c].credentialHash \in {connector[c].credentialHash, NoSecret},
         TokensOf(c)' = TokensOf(c),
         \A t \in TokensOf(c) : enrollment[t].used => enrollment'[t].used,
         UNCHANGED issued
  PROVE  QuietOK(c)'
<1> SUFFICES ASSUME c \notin overlapped' PROVE QuietOK(c)'
  BY DEF QuietOK
<1>1. c \notin overlapped /\ \A q \in Slot : request[q].c # c
  BY NoIdAssumption
<1>2. request'[r] = h /\ \A q \in Slot : q # r => request'[q] = request[q]
  OBVIOUS
<1>3. \A t : IsNewest(t, c)' <=> IsNewest(t, c)
  BY DEF IsNewest
<1> QED
  BY <1>1, <1>2, <1>3 DEF QuietOK

\* A new enrollment, when all before it are closed.
LEMMA QuietOpens ==
  ASSUME TypeOK, NEW c \in Id, QuietOK(c), NEW r \in Slot, NEW at \in Nat,
         c \notin overlapped => \A t \in TokensOf(c) : enrollment[t].used,
         request' = [request EXCEPT ![r] = Free], UNCHANGED overlapped,
         request[r].c = c \/ \A q \in Slot : request[q].c # c,
         connector'[c].credentialHash = NoSecret,
         OpenEnrollment(c, at)
  PROVE  QuietOK(c)'
<1> SUFFICES ASSUME c \notin overlapped PROVE QuietOK(c)'
  BY DEF QuietOK
<1>n. PICK n : n = secrets + 1
  OBVIOUS
<1>1. /\ n \in Nat /\ TokensOf(c)' = TokensOf(c) \cup {n}
      /\ \A t \in TokensOf(c) : enrollment'[t].used /\ t <= n
  BY <1>n DEF OpenEnrollment, TypeOK, TokensOf, Token
<1>2. IsNewest(n, c)'
  BY <1>1 DEF IsNewest
<1>3. \A q \in Slot : request'[q].c # c
  BY NoIdAssumption DEF QuietOK, TypeOK, Free
<1> QED
  BY <1>1, <1>2, <1>3 DEF QuietOK

\* Steps of other connectors.
LEMMA QuietElsewhere ==
  ASSUME NEW c \in Id, QuietOK(c), c \in overlapped => c \in overlapped',
         connector'[c] = connector[c],
         TokensOf(c)' = TokensOf(c),
         \A t \in TokensOf(c) : enrollment'[t] = enrollment[t],
         issued \subseteq issued',
         \A r \in Slot : request'[r].c = c => request'[r] = request[r]
  PROVE  QuietOK(c)'
  BY QuietGoesOn

LEMMA OpensElsewhere ==
  ASSUME TypeOK, NEW c \in Id, NEW d \in Id, d # c, NEW at, OpenEnrollment(d, at)
  PROVE  TokensOf(c)' = TokensOf(c) /\ \A t \in TokensOf(c) : enrollment'[t] = enrollment[t]
  BY DEF OpenEnrollment, TypeOK, TokensOf, Token

LEMMA ClosesTokens ==
  ASSUME TypeOK, NEW c \in Id, NEW d, CloseEnrollments(d)
  PROVE  /\ TokensOf(c)' = TokensOf(c)
         /\ \A t \in TokensOf(c) : enrollment[t].used \/ c = d => enrollment'[t].used
  BY DEF CloseEnrollments, TypeOK, TokensOf, Token, Enrollment

LEMMA FreeGoesOn ==
  ASSUME TypeOK, NEW c \in Id, NEW r \in Slot, request' = [request EXCEPT ![r] = Free]
  PROVE  \A q \in Slot : request'[q].c = c => request'[q] = request[q]
  BY NoIdAssumption DEF TypeOK, Free

LEMMA QuietCreateRow ==
  ASSUME QuietInv, NEW c \in Id, NEW r \in Slot, NEW d \in Id, CreateRow(r, d)
  PROVE  QuietOK(c)'
<1>1. /\ TypeOK /\ QuietOK(c) /\ OpenEnrollment(d, now) /\ now \in Nat
      /\ request' = [request EXCEPT ![r] = Free] /\ UNCHANGED <<issued, overlapped>>
  BY DEF QuietInv, ServiceInv, Inv, TypeOK, CreateRow, End
<1>2. CASE d # c
  BY <1>1, <1>2, OpensElsewhere, FreeGoesOn, QuietElsewhere DEF CreateRow, Write, TypeOK
<1>3. CASE d = c
  <2>1. TokensOf(c) = {}
    BY <1>3 DEF CreateRow, QuietInv, ServiceInv, Inv, EnrollmentsExist, TokensOf
  <2>2. \A q \in Slot : request[q].c # c
    BY <1>3, NoIdAssumption DEF CreateRow, QuietInv, ServiceInv, Inv, HandlerOK
  <2>3. connector'[c].credentialHash = NoSecret
    BY <1>1, <1>3 DEF CreateRow, Write, Absent, TypeOK
  <2> QED
    BY <1>1, <1>3, <2>1, <2>2, <2>3, QuietOpens
<1> QED
  BY <1>2, <1>3

LEMMA QuietRotateUpdate ==
  ASSUME QuietInv, NEW c \in Id, NEW r \in Slot, RotateUpdate(r)
  PROVE  QuietOK(c)'
<1>d. PICK d : d = request[r].c
  OBVIOUS
<1>a. PICK at \in Nat : at = request[r].at
  BY DEF QuietInv, ServiceInv, Inv, TypeOK, Handler
<1>1. /\ TypeOK /\ QuietOK(c) /\ d \in Id /\ OpenEnrollment(d, at)
      /\ request' = [request EXCEPT ![r] = Free] /\ UNCHANGED <<issued, overlapped>>
      /\ connector' = [connector EXCEPT ![d] = [connector[d] EXCEPT !.status = "pending",
           !.credentialHash = NoSecret, !.lastSeenAt = NoTime, !.lastError = FALSE]]
  BY <1>d, <1>a DEF QuietInv, ServiceInv, Inv, HandlerOK, OnConnector, RotateUpdate, End, Write
<1>2. CASE d # c
  <2>1. connector'[c] = connector[c]
    BY <1>1, <1>2 DEF TypeOK
  <2> QED
    BY <1>1, <1>2, <2>1, OpensElsewhere, FreeGoesOn, QuietElsewhere
<1>3. CASE d = c
  <2>1. connector'[c].credentialHash = NoSecret
    BY <1>1, <1>3 DEF TypeOK, Row
  <2>2. c \notin overlapped => \A t \in TokensOf(c) : enrollment[t].used
    BY <1>d, <1>1, <1>3 DEF QuietOK, RotateUpdate
  <2> QED
    BY <1>d, <1>1, <1>3, <2>1, <2>2, QuietOpens
<1> QED
  BY <1>2, <1>3

LEMMA QuietRotateClose ==
  ASSUME QuietInv, NEW c \in Id, NEW r \in Slot, RotateClose(r)
  PROVE  QuietOK(c)'
<1>1. /\ TypeOK /\ QuietOK(c) /\ CloseEnrollments(request[r].c)
      /\ UNCHANGED <<connector, issued, overlapped>>
  BY DEF QuietInv, ServiceInv, Inv, RotateClose
<1>2. /\ request[r].op = "rotate" /\ request'[r].op = "rotateClosed"
      /\ request'[r].c = request[r].c
      /\ \A q \in Slot : q # r => request'[q] = request[q]
  BY <1>1 DEF RotateClose, TypeOK, Handler
<1>3. /\ TokensOf(c)' = TokensOf(c)
      /\ \A t \in TokensOf(c) : enrollment[t].used \/ c = request[r].c => enrollment'[t].used
  BY <1>1, ClosesTokens
<1>4. \A t : IsNewest(t, c)' <=> IsNewest(t, c)
  BY <1>3 DEF IsNewest
<1> QED
  BY <1>1, <1>2, <1>3, <1>4 DEF QuietOK

LEMMA QuietRevokeRow ==
  ASSUME QuietInv, NEW c \in Id, NEW r \in Slot, NEW d \in Id, RevokeRow(r, d)
  PROVE  QuietOK(c)'
<1> DEFINE h == [op |-> "revoke", c |-> d, token |-> NoSecret, at |-> now]
<1>1. /\ TypeOK /\ QuietOK(c) /\ request' = [request EXCEPT ![r] = h]
      /\ UNCHANGED <<enrollment, issued>>
  BY DEF QuietInv, ServiceInv, Inv, RevokeRow, Begin
<1>2. overlapped' = IF d # NoId /\ \E q \in Slot : request[q].c = d
                      THEN overlapped \cup {d} ELSE overlapped
  BY DEF RevokeRow, Begin
<1>3. TokensOf(c)' = TokensOf(c)
  BY <1>1 DEF TokensOf, Token
<1>4. CASE d # c
  <2>1. connector'[c] = connector[c]
    BY <1>1, <1>4 DEF RevokeRow, Write, TypeOK
  <2>2. \A q \in Slot : request'[q].c = c => request'[q] = request[q]
    BY <1>1, <1>4 DEF TypeOK
  <2> QED
    BY <1>1, <1>2, <1>3, <1>4, <2>1, <2>2, QuietElsewhere
<1>5. CASE d = c
  <2>1. connector'[c].credentialHash = NoSecret
    BY <1>1, <1>5 DEF RevokeRow, Write, TypeOK, Row
  <2>2. h.c = c /\ h.op # "rotateClosed" /\ h.op # "enroll" /\ request \in [Slot -> Handler]
    BY <1>1, <1>5 DEF TypeOK
  <2> HIDE DEF h
  <2> QED
    BY <1>1, <1>2, <1>3, <1>5, <2>1, <2>2, QuietBegins
<1> QED
  BY <1>4, <1>5

\* A handler that takes up a connector and writes nothing: rotation, and an agent's calls.
LEMMA QuietBegin ==
  ASSUME QuietInv, NEW c \in Id, NEW r \in Slot, NEW op, NEW d, Begin(r, op, d, NoSecret),
         op \notin {"enroll", "rotateClosed"},
         UNCHANGED <<connector, enrollment, issued>>
  PROVE  QuietOK(c)'
<1> DEFINE h == [op |-> op, c |-> d, token |-> NoSecret, at |-> now]
<1>1. /\ TypeOK /\ QuietOK(c) /\ request' = [request EXCEPT ![r] = h]
      /\ request \in [Slot -> Handler]
  BY DEF QuietInv, ServiceInv, Inv, TypeOK, Begin
<1>2. overlapped' = IF d # NoId /\ \E q \in Slot : request[q].c = d
                      THEN overlapped \cup {d} ELSE overlapped
  BY DEF Begin
<1>3. TokensOf(c)' = TokensOf(c)
  BY <1>1 DEF TokensOf, Token
<1>4. CASE d # c
  <2>1. \A q \in Slot : request'[q].c = c => request'[q] = request[q]
    BY <1>1, <1>4 DEF TypeOK
  <2> QED
    BY <1>1, <1>2, <1>3, <1>4, <2>1, QuietElsewhere
<1>5. CASE d = c
  <2>1. h.c = c /\ h.op # "rotateClosed" /\ h.op # "enroll"
    BY <1>5
  <2> HIDE DEF h
  <2> QED
    BY <1>1, <1>2, <1>3, <1>5, <2>1, QuietBegins
<1> QED
  BY <1>4, <1>5

\* An unused token of a quiet connector is its newest.
LEMMA QuietEnrollConsume ==
  ASSUME QuietInv, NEW c \in Id, NEW r \in Slot, NEW t \in Token, EnrollConsume(r, t)
  PROVE  QuietOK(c)'
<1> DEFINE d == enrollment[t].connector
           h == [op |-> "enroll", c |-> d, token |-> t, at |-> now]
<1>1. /\ TypeOK /\ QuietOK(c) /\ request' = [request EXCEPT ![r] = h]
      /\ enrollment' = [enrollment EXCEPT ![t].used = TRUE]
      /\ ~enrollment[t].used
      /\ UNCHANGED <<connector, issued>> /\ request \in [Slot -> Handler]
  BY DEF QuietInv, ServiceInv, Inv, TypeOK, EnrollConsume, Begin, Enrollable
<1>2. overlapped' = IF d # NoId /\ \E q \in Slot : request[q].c = d
                      THEN overlapped \cup {d} ELSE overlapped
  BY DEF EnrollConsume, Begin
<1>3. /\ TokensOf(c)' = TokensOf(c)
      /\ \A u \in TokensOf(c) : enrollment[u].used => enrollment'[u].used
      /\ d # c => \A u \in TokensOf(c) : enrollment'[u] = enrollment[u]
  BY <1>1 DEF TypeOK, TokensOf, Token, Enrollment
<1>4. CASE d # c
  <2>1. \A q \in Slot : request'[q].c = c => request'[q] = request[q]
    BY <1>1, <1>4 DEF TypeOK
  <2> QED
    BY <1>1, <1>2, <1>3, <1>4, <2>1, QuietElsewhere
<1>5. CASE d = c
  <2>1. t \in TokensOf(c)
    BY <1>5 DEF TokensOf
  <2>2. CASE c \in overlapped
    BY <1>2, <2>2 DEF QuietOK
  <2>3. CASE c \notin overlapped
    <3>1. IsNewest(t, c)
      BY <1>1, <2>1, <2>3 DEF QuietOK
    <3>2. h.c = c /\ h.op # "rotateClosed" /\ h.token = t
      BY <1>5
    <3> HIDE DEF h, d
    <3> QED
      BY <1>1, <1>2, <1>3, <1>5, <3>1, <3>2, QuietBegins
  <2> QED
    BY <2>2, <2>3
<1> QED
  BY <1>4, <1>5

LEMMA QuietEnrollCredential ==
  ASSUME QuietInv, NEW c \in Id, NEW r \in Slot, EnrollCredential(r)
  PROVE  QuietOK(c)'
<1>d. PICK d : d = request[r].c
  OBVIOUS
<1>s. PICK s : s = secrets + 1
  OBVIOUS
<1>1. /\ TypeOK /\ QuietOK(c) /\ d \in Id /\ request[r].op = "enroll"
      /\ request' = [request EXCEPT ![r] = Free] /\ UNCHANGED <<enrollment, overlapped>>
      /\ issued' = issued \cup {<<request[r].token, s>>}
      /\ connector' = [connector EXCEPT ![d] = [connector[d] EXCEPT !.credentialHash = s,
           !.status = "connected", !.lastSeenAt = request[r].at, !.lastError = FALSE]]
  BY <1>d, <1>s DEF QuietInv, ServiceInv, Inv, HandlerOK, OnConnector, EnrollCredential, End, Write
<1>2. \A q \in Slot : request'[q].c = c => request'[q] = request[q]
  BY <1>1, FreeGoesOn
<1>3. TokensOf(c)' = TokensOf(c)
  BY <1>1 DEF TokensOf, Token
<1>4. CASE d # c
  <2>1. connector'[c] = connector[c]
    BY <1>1, <1>4 DEF TypeOK
  <2> QED
    BY <1>1, <1>2, <1>3, <2>1, QuietElsewhere
<1>5. CASE d = c
  <2> SUFFICES ASSUME c \notin overlapped PROVE QuietOK(c)'
    BY <1>1 DEF QuietOK
  <2>1. connector'[c].credentialHash = s
    BY <1>1, <1>5 DEF TypeOK, Row
  <2>2. IsNewest(request[r].token, c)
    BY <1>d, <1>1, <1>5 DEF QuietOK
  <2>3. \A t : IsNewest(t, c)' <=> IsNewest(t, c)
    BY <1>3 DEF IsNewest
  <2>4. \E t : IsNewest(t, c)' /\ <<t, s>> \in issued'
    BY <1>1, <2>2, <2>3
  <2> QED
    BY <1>1, <1>2, <1>3, <2>1, <2>3, <2>4 DEF QuietOK
<1> QED
  BY <1>4, <1>5

\* A handler that ends, whatever it closes, or writes a row whose credential it leaves.
LEMMA QuietEnds ==
  ASSUME QuietInv, NEW c \in Id, NEW r \in Slot,
         \/ HeartbeatUpdate(r) \/ SnapshotSaved(r) \/ markError(r)
         \/ RevokeEnrollments(r) \/ Fail(r)
  PROVE  QuietOK(c)'
<1>1. /\ TypeOK /\ QuietOK(c) /\ request' = [request EXCEPT ![r] = Free]
      /\ UNCHANGED <<issued, overlapped>>
  BY DEF QuietInv, ServiceInv, Inv, HeartbeatUpdate, SnapshotSaved, markError,
     RevokeEnrollments, Fail, End
<1>2. \A q \in Slot : request'[q].c = c => request'[q] = request[q]
  BY <1>1, FreeGoesOn
<1>3. CASE RevokeEnrollments(r)
  BY <1>1, <1>2, <1>3, ClosesTokens, QuietGoesOn DEF RevokeEnrollments
<1>4. CASE UNCHANGED enrollment
  <2>1. TokensOf(c)' = TokensOf(c)
    BY <1>4 DEF TokensOf, Token
  <2>2. connector'[c].credentialHash = connector[c].credentialHash
    <3>1. connector \in [Id -> Row]
      BY <1>1 DEF TypeOK
    <3>2. CASE HeartbeatUpdate(r)
      BY <3>1, <3>2 DEF HeartbeatUpdate, Write, Row
    <3>3. CASE SnapshotSaved(r)
      BY <3>1, <3>3 DEF SnapshotSaved, Write, Row
    <3>4. CASE markError(r)
      BY <3>1, <3>4 DEF markError, Write, Row
    <3> QED
      BY <3>2, <3>3, <3>4 DEF RevokeEnrollments, Fail
  <2> QED
    BY <1>1, <1>2, <1>4, <2>1, <2>2, QuietGoesOn
<1> QED
  BY <1>3, <1>4 DEF HeartbeatUpdate, SnapshotSaved, markError, Fail

LEMMA NextQuiet == QuietInv /\ [Next]_vars => QuietInv'
<1> SUFFICES ASSUME QuietInv, [Next]_vars PROVE QuietInv'
  OBVIOUS
<1> SUFFICES ASSUME NEW c \in Id PROVE QuietOK(c)'
  BY RowsInv DEF QuietInv
<1>1. CASE Tick \/ UNCHANGED vars
  BY <1>1, QuietElsewhere DEF Tick, vars, TokensOf, Token, QuietInv
<1>2. ASSUME NEW r \in Slot, OperatorStep(r) PROVE QuietOK(c)'
  <2>1. CASE CreateCount(r) \/ \E d \in Id : RotateFind(r, d)
    BY <2>1, QuietBegin DEF CreateCount, RotateFind
  <2>2. CASE RevokeEnrollments(r)
    BY <2>2, QuietEnds
  <2> QED
    BY <1>2, <2>1, <2>2, QuietCreateRow, QuietRevokeRow, QuietRotateClose, QuietRotateUpdate
    DEF OperatorStep
<1>3. ASSUME NEW r \in Slot, AgentStep(r) PROVE QuietOK(c)'
  <2>1. ASSUME NEW op, op \notin {"enroll", "rotateClosed"}, NEW s, AgentCall(r, op, s)
        PROVE  QuietOK(c)'
    BY <2>1, QuietBegin DEF AgentCall
  <2> QED
    BY <1>3, <2>1, QuietEnrollConsume, QuietEnrollCredential, QuietEnds
    DEF AgentStep, Heartbeat, Snapshot, Report
<1> QED
  BY <1>1, <1>2, <1>3, QuietEnds DEF Next

\* Between two steps, what holds of a connector that no two handlers worked on at once.
LEMMA QuietHolds == Spec => []QuietInv
<1>1. Init => QuietInv
  BY InitInv, ConnectorBounds, NoIdAssumption DEF Init, Absent, Free, Token, TokensOf, ServiceInv, QuietInv, QuietOK
<1> QED
  BY <1>1, NextQuiet, PTL DEF Spec

LEMMA NewestIsNewest ==
  ASSUME TypeOK, NEW c \in Id, NEW t, IsNewest(t, c)
  PROVE  Newest(TokensOf(c)) = t
<1>1. TokensOf(c) \subseteq Nat
  BY DEF TypeOK, TokensOf
<1> QED
  BY <1>1 DEF IsNewest, Newest

\* A connector that no two handlers worked on at once accepts only the credential of its
\* newest enrollment: rotation ends every earlier one, wherever it stopped (rotate).
THEOREM RotationHolds == Spec => []RotationInvalidates
<1>1. QuietInv => RotationInvalidates
  BY NewestIsNewest DEF QuietInv, ServiceInv, Inv, QuietOK, RotationInvalidates, Quiet
<1> QED
  BY <1>1, QuietHolds, PTL

\* The tokens of a connector, if any, have a newest: they are drawn in order.
TokensOrdered == \A c \in Id : TokensOf(c) # {} => \E t : IsNewest(t, c)

LEMMA NextOrdered == TypeOK /\ TokensOrdered /\ [Next]_vars => TokensOrdered'
<1> SUFFICES ASSUME TypeOK, TokensOrdered, [Next]_vars, NEW c \in Id
             PROVE  (TokensOf(c) # {})' => \E t : IsNewest(t, c)'
  BY DEF TokensOrdered
<1>1. CASE TokensOf(c)' = TokensOf(c)
  BY <1>1 DEF TokensOrdered, IsNewest
<1>2. CASE UNCHANGED enrollment
  BY <1>1, <1>2 DEF TokensOf, Token
<1>3. ASSUME NEW d, CloseEnrollments(d) PROVE TokensOf(c)' = TokensOf(c)
  BY <1>3, ClosesTokens
<1>4. ASSUME NEW r \in Slot, NEW t \in Token, EnrollConsume(r, t)
      PROVE  TokensOf(c)' = TokensOf(c)
  BY <1>4 DEF EnrollConsume, TypeOK, TokensOf, Token, Enrollment
<1>5. ASSUME NEW d, NEW at, OpenEnrollment(d, at)
      PROVE  (TokensOf(c) # {})' => \E t : IsNewest(t, c)'
  <2>n. PICK n : n = secrets + 1
    OBVIOUS
  <2>1. CASE d = c
    <3>1. /\ TokensOf(c)' = TokensOf(c) \cup {n}
          /\ n \in Nat /\ \A t \in TokensOf(c) : t <= n
      BY <2>n, <1>5, <2>1 DEF OpenEnrollment, TypeOK, TokensOf, Token
    <3> QED
      BY <3>1 DEF IsNewest
  <2>2. CASE d # c
    <3>1. TokensOf(c)' = TokensOf(c)
      BY <1>5, <2>2 DEF OpenEnrollment, TypeOK, TokensOf, Token
    <3> QED
      BY <1>1, <3>1
  <2> QED
    BY <2>1, <2>2
<1>6. CASE Tick \/ UNCHANGED vars
  BY <1>2, <1>6 DEF Tick, vars
<1>7. ASSUME NEW r \in Slot, OperatorStep(r)
      PROVE  (TokensOf(c) # {})' => \E t : IsNewest(t, c)'
  BY <1>1, <1>2, <1>3, <1>5, <1>7 DEF OperatorStep, CreateCount, CreateRow, RotateFind,
     RevokeRow, RotateClose, RotateUpdate, RevokeEnrollments
<1>8. ASSUME NEW r \in Slot, AgentStep(r)
      PROVE  (TokensOf(c) # {})' => \E t : IsNewest(t, c)'
  <2>1. (\E t \in Token : EnrollConsume(r, t)) \/ UNCHANGED enrollment
    BY <1>8 DEF AgentStep, AgentCall, Heartbeat, Snapshot, Report, EnrollCredential,
       HeartbeatUpdate, SnapshotSaved, markError
  <2> QED
    BY <1>1, <1>2, <1>4, <2>1
<1> QED
  BY <1>2, <1>6, <1>7, <1>8 DEF Next, Fail

LEMMA TokensAreOrdered == Spec => []TokensOrdered
<1>1. Init => TokensOrdered
  BY DEF Init, TokensOrdered, TokensOf, Token
<1>2. QuietInv => TypeOK
  BY DEF QuietInv, ServiceInv, Inv
<1> QED
  BY <1>1, <1>2, NextOrdered, QuietHolds, PTL DEF Spec

-----------------------------------------------------------------------------
(* Revoked connectors. *)

\* A revoked connector that no two handlers worked on at once has at most the handler
\* that revoked it, and keeps its status.
RevokedOK(c) ==
  c \notin overlapped /\ connector[c].revokedAt =>
    /\ connector[c].status = "revoked"
    /\ \A r \in Slot : request[r].c = c => request[r].op = "revoke"

RevokedInv == Inv /\ \A c \in Id : RevokedOK(c)

LEMMA RevokedStays ==
  ASSUME NEW c \in Id, RevokedOK(c), connector'[c] = connector[c], overlapped \subseteq overlapped',
         \A r \in Slot : request'[r].c = c => request'[r] = request[r]
  PROVE  RevokedOK(c)'
BY DEF RevokedOK

\* Whoever takes a connector up has seen that it is not revoked.
LEMMA RevokedBegin ==
  ASSUME TypeOK, NEW c \in Id, RevokedOK(c), NEW r \in Slot, NEW op, NEW d, NEW token,
         Begin(r, op, d, token), UNCHANGED connector, d = NoId \/ ~connector[d].revokedAt
  PROVE  RevokedOK(c)'
<1>1. CASE d = c
  BY <1>1, NoIdAssumption DEF RevokedOK
<1>2. CASE d # c
  <2>1. \A q \in Slot : request'[q].c = c => request'[q] = request[q]
    BY <1>2 DEF Begin, TypeOK
  <2>2. overlapped \subseteq overlapped'
    BY DEF Begin
  <2> QED
    BY <2>1, <2>2, RevokedStays
<1> QED
  BY <1>1, <1>2

\* A handler at work leaves revokedAt alone; that of a revocation writes no row.
LEMMA RevokedWrite ==
  ASSUME TypeOK, NEW c \in Id, RevokedOK(c), NEW r \in Slot, NEW row,
         request[r].op # "revoke", End(r), Write(request[r].c, row),
         request[r].c = c => row.revokedAt = connector[c].revokedAt
  PROVE  RevokedOK(c)'
<1>1. /\ \A q \in Slot : request'[q].c = c => request'[q] = request[q]
      /\ overlapped' = overlapped
  BY FreeGoesOn DEF End
<1>2. CASE request[r].c = c
  <2>1. connector'[c] = row
    BY <1>2 DEF Write, TypeOK
  <2> QED
    BY <1>1, <1>2, <2>1 DEF RevokedOK
<1>3. CASE request[r].c # c
  <2>1. connector'[c] = connector[c]
    BY <1>3 DEF Write, TypeOK
  <2> QED
    BY <1>1, <2>1, RevokedStays
<1> QED
  BY <1>2, <1>3

LEMMA RevokedOperator ==
  ASSUME Inv, NEW c \in Id, RevokedOK(c), NEW r \in Slot, OperatorStep(r)
  PROVE  RevokedOK(c)'
<1>1. TypeOK
  BY DEF Inv
<1>2. ASSUME End(r), UNCHANGED connector PROVE RevokedOK(c)'
  BY <1>1, <1>2, FreeGoesOn, RevokedStays DEF End
<1>3. CASE CreateCount(r)
  BY <1>1, <1>3, RevokedBegin DEF CreateCount
<1>4. ASSUME NEW d \in Id, RotateFind(r, d) PROVE RevokedOK(c)'
  BY <1>1, <1>4, RevokedBegin DEF RotateFind, Revoked
<1>5. ASSUME NEW d \in Id, CreateRow(r, d) PROVE RevokedOK(c)'
  <2>1. CASE d = c
    <3>1. connector'[c].revokedAt = FALSE
      BY <1>1, <1>5, <2>1 DEF CreateRow, Write, TypeOK, Absent
    <3> QED
      BY <3>1 DEF RevokedOK
  <2>2. CASE d # c
    <3>1. connector'[c] = connector[c] /\ End(r)
      BY <1>1, <1>5, <2>2 DEF CreateRow, Write, TypeOK
    <3> QED
      BY <1>1, <3>1, FreeGoesOn, RevokedStays DEF End
  <2> QED
    BY <2>1, <2>2
<1>6. ASSUME NEW d \in Id, RevokeRow(r, d) PROVE RevokedOK(c)'
  <2>1. CASE d = c
    <3>1. connector'[c].status = "revoked"
      BY <1>1, <1>6, <2>1 DEF RevokeRow, Write, TypeOK, Row
    <3>2. ASSUME c \notin overlapped', NEW q \in Slot, request'[q].c = c PROVE request'[q].op = "revoke"
      BY <1>1, <1>6, <2>1, <3>2, NoIdAssumption DEF RevokeRow, Begin, TypeOK
    <3> QED
      BY <3>1, <3>2 DEF RevokedOK
  <2>2. CASE d # c
    <3>1. connector'[c] = connector[c] /\ overlapped \subseteq overlapped'
      BY <1>1, <1>6, <2>2 DEF RevokeRow, Write, Begin, TypeOK
    <3>2. \A q \in Slot : request'[q].c = c => request'[q] = request[q]
      BY <1>1, <1>6, <2>2 DEF RevokeRow, Begin, TypeOK
    <3> QED
      BY <3>1, <3>2, RevokedStays
  <2> QED
    BY <2>1, <2>2
<1>7. CASE RotateClose(r)
  <2>1. /\ UNCHANGED <<connector, overlapped>> /\ request[r].op = "rotate"
        /\ request' = [request EXCEPT ![r].op = "rotateClosed", ![r].at = now]
    BY <1>7 DEF RotateClose
  <2>2. \A q \in Slot : request'[q].c = request[q].c /\ (q # r => request'[q] = request[q])
    BY <1>1, <2>1 DEF TypeOK, Handler
  <2> QED
    BY <2>1, <2>2 DEF RevokedOK
<1>8. CASE RotateUpdate(r)
  <2>1. \A d : d = c => [connector[d] EXCEPT !.status = "pending", !.credentialHash = NoSecret,
                           !.lastSeenAt = NoTime, !.lastError = FALSE].revokedAt = connector[c].revokedAt
    BY <1>1 DEF TypeOK, Row
  <2> QED
    BY <1>1, <1>8, <2>1, RevokedWrite DEF RotateUpdate
<1>9. CASE RevokeEnrollments(r)
  BY <1>2, <1>9 DEF RevokeEnrollments
<1> QED
  BY <1>3, <1>4, <1>5, <1>6, <1>7, <1>8, <1>9 DEF OperatorStep

LEMMA RevokedAgent ==
  ASSUME Inv, NEW c \in Id, RevokedOK(c), NEW r \in Slot, AgentStep(r)
  PROVE  RevokedOK(c)'
<1>1. TypeOK /\ connector[c] \in Row
  BY DEF Inv, TypeOK
<1>2. ASSUME NEW t \in Token, EnrollConsume(r, t) PROVE RevokedOK(c)'
  BY <1>1, <1>2, RevokedBegin DEF EnrollConsume, Enrollable, Revoked
<1>3. ASSUME NEW op, NEW s, AgentCall(r, op, s) PROVE RevokedOK(c)'
  BY <1>1, <1>3, RevokedBegin DEF AgentCall, Authenticates, Revoked
<1>4. CASE EnrollCredential(r)
  <2>1. \A d : d = c => [connector[d] EXCEPT !.credentialHash = secrets + 1, !.status = "connected",
                           !.lastSeenAt = request[r].at, !.lastError = FALSE].revokedAt = connector[c].revokedAt
    BY <1>1 DEF Row
  <2> QED
    BY <1>1, <1>4, <2>1, RevokedWrite DEF EnrollCredential
<1>5. CASE HeartbeatUpdate(r)
  <2>1. \A d : d = c => [connector[d] EXCEPT !.lastSeenAt = now].revokedAt = connector[c].revokedAt
    BY <1>1 DEF Row
  <2> QED
    BY <1>1, <1>5, <2>1, RevokedWrite DEF HeartbeatUpdate
<1>6. CASE SnapshotSaved(r)
  <2>1. \A d : d = c => [connector[d] EXCEPT !.status = "connected", !.lastSeenAt = now,
                           !.lastError = FALSE].revokedAt = connector[c].revokedAt
    BY <1>1 DEF Row
  <2> QED
    BY <1>1, <1>6, <2>1, RevokedWrite DEF SnapshotSaved
<1>7. CASE markError(r)
  <2>1. \A d : d = c => [connector[d] EXCEPT !.status = "error", !.lastSeenAt = now,
                           !.lastError = TRUE].revokedAt = connector[c].revokedAt
    BY <1>1 DEF Row
  <2> QED
    BY <1>1, <1>7, <2>1, RevokedWrite DEF markError
<1> QED
  BY <1>2, <1>3, <1>4, <1>5, <1>6, <1>7 DEF AgentStep, Heartbeat, Snapshot, Report

LEMMA NextRevoked == RevokedInv /\ [Next]_vars => RevokedInv'
<1> SUFFICES ASSUME RevokedInv, [Next]_vars PROVE RevokedInv'
  OBVIOUS
<1> SUFFICES ASSUME NEW c \in Id PROVE RevokedOK(c)'
  BY NextInv DEF RevokedInv
<1>1. Inv /\ TypeOK /\ RevokedOK(c)
  BY DEF RevokedInv, Inv
<1>2. CASE Tick \/ UNCHANGED vars
  BY <1>1, <1>2, RevokedStays DEF Tick, vars
<1>3. ASSUME NEW r \in Slot, Fail(r) PROVE RevokedOK(c)'
  BY <1>1, <1>3, FreeGoesOn, RevokedStays DEF Fail, End
<1> QED
  BY <1>1, <1>2, <1>3, RevokedOperator, RevokedAgent DEF Next

LEMMA RevokedHolds == Spec => []RevokedInv
<1>1. Init => RevokedInv
  BY InitInv DEF Init, Absent, RevokedInv, RevokedOK
<1> QED
  BY <1>1, NextRevoked, PTL DEF Spec

\* A connector that no two handlers worked on at once is listed as revoked from the moment
\* it is (revoke), also while its enrollments are still to be closed.
RevokedIsListed ==
  \A c \in Id \ overlapped : connector[c].revokedAt => displayStatus(connector[c]) = "revoked"

\* It is, whatever handlers do at once on other connectors, for any number of them.
THEOREM RevokedListed == Spec => []RevokedIsListed
<1>1. RevokedInv => RevokedIsListed
  BY DEF RevokedInv, RevokedOK, RevokedIsListed, displayStatus
<1> QED
  BY <1>1, RevokedHolds, PTL

-----------------------------------------------------------------------------
(* Enrollments that are shown as ready. *)

AllUsed(c) == \A t \in TokensOf(c) : enrollment[t].used

\* Handlers that start when every token of their connector is used.
AfterUse == {"snapshot", "report", "enroll", "rotateClosed"}

\* A connector that no two handlers worked on at once and that is not listed as pending or
\* revoked has used all its tokens, one that such a handler works on too, and so has one
\* whose revocation did both its writes.
ReadyOK(c) ==
  c \notin overlapped =>
    /\ connector[c].status \in {"pending", "revoked"} \/ AllUsed(c)
    /\ \A r \in Slot : request[r].c = c /\ request[r].op \in AfterUse => AllUsed(c)
    /\ connector[c].revokedAt /\ c \notin halfRevoked /\ AtWork(c) = {} => AllUsed(c)

RevokedHasDate == \A c \in Id : connector[c].status = "revoked" => connector[c].revokedAt

ReadyInv ==
  /\ QuietInv /\ RevokedInv /\ TokensOrdered /\ RevokedHasDate
  /\ \A c \in Id : ReadyOK(c)

\* The steps of other connectors' handlers.
LEMMA ReadyElsewhere ==
  ASSUME NEW c \in Id, ReadyOK(c), overlapped \subseteq overlapped', halfRevoked \subseteq halfRevoked',
         connector'[c] = connector[c], TokensOf(c)' = TokensOf(c),
         \A t \in TokensOf(c) : enrollment[t].used => enrollment'[t].used,
         \A q \in Slot : request[q].c = c \/ request'[q].c = c => request'[q] = request[q]
  PROVE  ReadyOK(c)'
<1>1. AllUsed(c) => AllUsed(c)'
  BY DEF AllUsed
<1>2. AtWork(c)' = AtWork(c)
  BY DEF AtWork
<1> QED
  BY <1>1, <1>2 DEF ReadyOK

\* A handler takes c up.
LEMMA ReadyBegins ==
  ASSUME NEW c \in Id, ReadyOK(c), NEW r \in Slot, NEW h, request \in [Slot -> Handler],
         request' = [request EXCEPT ![r] = h], h.c = c,
         overlapped' = IF c # NoId /\ \E q \in Slot : request[q].c = c
                         THEN overlapped \cup {c} ELSE overlapped,
         TokensOf(c)' = TokensOf(c),
         \A t \in TokensOf(c) : enrollment[t].used => enrollment'[t].used,
         connector'[c].status \in {connector[c].status, "revoked"},
         c \notin overlapped /\ h.op \in AfterUse => AllUsed(c)'
  PROVE  ReadyOK(c)'
<1> SUFFICES ASSUME c \notin overlapped' PROVE ReadyOK(c)'
  BY DEF ReadyOK
<1>1. c \notin overlapped /\ \A q \in Slot : request[q].c # c
  BY NoIdAssumption
<1>2. AllUsed(c) => AllUsed(c)'
  BY DEF AllUsed
<1>3. r \in AtWork(c)'
  BY DEF AtWork
<1>4. \A q \in Slot : q # r => request'[q].c # c
  BY <1>1
<1>5. request'[r] = h
  OBVIOUS
<1> QED
  BY <1>1, <1>2, <1>3, <1>4, <1>5 DEF ReadyOK

\* The one handler of c ends.
LEMMA ReadyEnds ==
  ASSUME NEW c \in Id, NEW r \in Slot, request \in [Slot -> Handler],
         request' = [request EXCEPT ![r] = Free], UNCHANGED overlapped,
         c \notin overlapped =>
           /\ \A q \in Slot : request[q].c = c => q = r
           /\ connector'[c].status \in {"pending", "revoked"} \/ AllUsed(c)'
           /\ connector'[c].revokedAt => c \in halfRevoked' \/ AllUsed(c)'
  PROVE  ReadyOK(c)'
<1>1. c \notin overlapped => \A q \in Slot : request'[q].c # c
  BY NoIdAssumption DEF Free
<1> QED
  BY <1>1 DEF ReadyOK

\* What ReadyInv says of one connector, and of the one handler r at work on it.
LEMMA ReadyFacts ==
  ASSUME ReadyInv, NEW c \in Id
  PROVE  /\ Inv /\ TypeOK /\ ReadyOK(c) /\ QuietOK(c) /\ RevokedOK(c)
         /\ request \in [Slot -> Handler] /\ connector \in [Id -> Row]
         /\ \A r \in Slot : c \notin overlapped /\ request[r].c = c =>
              /\ \A q \in Slot : request[q].c = c => q = r
              /\ connector[c].revokedAt => request[r].op = "revoke"
              /\ request[r].op \in AfterUse => AllUsed(c)
<1>1. Inv /\ TypeOK /\ ReadyOK(c) /\ QuietOK(c) /\ RevokedOK(c)
  BY DEF ReadyInv, QuietInv, RevokedInv, Inv
<1> QED
  BY <1>1 DEF TypeOK, ReadyOK, QuietOK, RevokedOK

LEMMA ReadyCreateRow ==
  ASSUME ReadyInv, NEW c \in Id, NEW r \in Slot, NEW d \in Id, CreateRow(r, d)
  PROVE  ReadyOK(c)'
<1>1. /\ TypeOK /\ ReadyOK(c) /\ Inv /\ OpenEnrollment(d, now)
      /\ request' = [request EXCEPT ![r] = Free] /\ UNCHANGED <<overlapped, halfRevoked>>
      /\ request \in [Slot -> Handler]
  BY ReadyFacts DEF CreateRow, End
<1>2. request[r].c = NoId
  BY <1>1 DEF CreateRow, Inv, HandlerOK, OnConnector
<1>3. CASE d # c
  <2>1. connector'[c] = connector[c]
    BY <1>1, <1>3 DEF CreateRow, Write, TypeOK
  <2>2. \A q \in Slot : request[q].c = c \/ request'[q].c = c => request'[q] = request[q]
    BY <1>1, <1>2, NoIdAssumption DEF Free
  <2> QED
    BY <1>1, <1>3, <2>1, <2>2, OpensElsewhere, ReadyElsewhere
<1>4. CASE d = c
  <2>1. \A q \in Slot : request[q].c # c
    BY <1>1, <1>4, NoIdAssumption DEF CreateRow, Inv, HandlerOK
  <2>2. connector'[c].status = "pending" /\ ~connector'[c].revokedAt
    BY <1>1, <1>4 DEF CreateRow, Write, Absent, TypeOK
  <2> QED
    BY <1>1, <2>1, <2>2, ReadyEnds
<1> QED
  BY <1>3, <1>4

\* A handler that takes up a connector and writes nothing.
LEMMA ReadyBegin ==
  ASSUME ReadyInv, NEW c \in Id, NEW r \in Slot, NEW op, NEW d, NEW token, Begin(r, op, d, token),
         UNCHANGED connector,
         TokensOf(c)' = TokensOf(c),
         \A t \in TokensOf(c) : enrollment[t].used => enrollment'[t].used,
         d = c /\ c \notin overlapped /\ op \in AfterUse => AllUsed(c)'
  PROVE  ReadyOK(c)'
<1> DEFINE h == [op |-> op, c |-> d, token |-> token, at |-> now]
<1>1. /\ ReadyOK(c) /\ request' = [request EXCEPT ![r] = h]
      /\ request \in [Slot -> Handler] /\ request[r] = Free /\ UNCHANGED halfRevoked
      /\ overlapped' = IF d # NoId /\ \E q \in Slot : request[q].c = d
                         THEN overlapped \cup {d} ELSE overlapped
  BY ReadyFacts DEF Begin
<1>2. h.op = op /\ h.c = d
  OBVIOUS
<1> HIDE DEF h
<1>3. CASE d # c
  <2>1. \A q \in Slot : request[q].c = c \/ request'[q].c = c => request'[q] = request[q]
    BY <1>1, <1>2, <1>3, NoIdAssumption DEF Free
  <2> QED
    BY <1>1, <2>1, ReadyElsewhere
<1>4. CASE d = c
  BY <1>1, <1>2, <1>4, ReadyBegins
<1> QED
  BY <1>3, <1>4

LEMMA ReadyRevokeRow ==
  ASSUME ReadyInv, NEW c \in Id, NEW r \in Slot, NEW d \in Id, RevokeRow(r, d)
  PROVE  ReadyOK(c)'
<1> DEFINE h == [op |-> "revoke", c |-> d, token |-> NoSecret, at |-> now]
<1>1. /\ ReadyOK(c) /\ request' = [request EXCEPT ![r] = h] /\ TypeOK
      /\ request \in [Slot -> Handler] /\ request[r] = Free /\ UNCHANGED <<enrollment, halfRevoked>>
      /\ overlapped' = IF d # NoId /\ \E q \in Slot : request[q].c = d
                         THEN overlapped \cup {d} ELSE overlapped
  BY ReadyFacts DEF RevokeRow, Begin
<1>2. h.op = "revoke" /\ h.c = d /\ TokensOf(c)' = TokensOf(c)
  BY <1>1 DEF TokensOf, Token
<1> HIDE DEF h
<1>3. CASE d # c
  <2>1. \A q \in Slot : request[q].c = c \/ request'[q].c = c => request'[q] = request[q]
    BY <1>1, <1>2, <1>3, NoIdAssumption DEF Free
  <2>2. connector'[c] = connector[c]
    BY <1>1, <1>3 DEF RevokeRow, Write, TypeOK
  <2> QED
    BY <1>1, <1>2, <2>1, <2>2, ReadyElsewhere
<1>4. CASE d = c
  <2>1. connector'[c].status = "revoked"
    BY <1>1, <1>4 DEF RevokeRow, Write, TypeOK, Row
  <2> QED
    BY <1>1, <1>2, <1>4, <2>1, ReadyBegins DEF AfterUse
<1> QED
  BY <1>3, <1>4

LEMMA ReadyRotateClose ==
  ASSUME ReadyInv, NEW c \in Id, NEW r \in Slot, RotateClose(r)
  PROVE  ReadyOK(c)'
<1>1. /\ ReadyOK(c) /\ TypeOK /\ CloseEnrollments(request[r].c)
      /\ UNCHANGED <<connector, overlapped, halfRevoked>>
  BY ReadyFacts DEF RotateClose
<1>2. /\ request'[r].op = "rotateClosed" /\ \A q \in Slot : request'[q].c = request[q].c
      /\ \A q \in Slot : q # r => request'[q] = request[q]
  BY <1>1 DEF RotateClose, TypeOK, Handler
<1>3. /\ AllUsed(c) => AllUsed(c)'
      /\ request[r].c = c => AllUsed(c)'
  BY <1>1, ClosesTokens DEF AllUsed
<1>4. AtWork(c)' = AtWork(c)
  BY <1>2 DEF AtWork
<1> QED
  BY <1>1, <1>2, <1>3, <1>4 DEF ReadyOK

\* A handler that ends, having written its connector's row.
LEMMA ReadyWrite ==
  ASSUME ReadyInv, NEW c \in Id, NEW r \in Slot, NEW row, End(r), Write(request[r].c, row),
         request[r].op # "revoke",
         request[r].c # c => TokensOf(c)' = TokensOf(c) /\ (AllUsed(c) => AllUsed(c)')
                             /\ \A t \in TokensOf(c) : enrollment[t].used => enrollment'[t].used,
         request[r].c = c /\ c \notin overlapped =>
           /\ row.revokedAt = connector[c].revokedAt
           /\ row.status \in {"pending", "revoked"} \/ AllUsed(c)'
  PROVE  ReadyOK(c)'
<1>1. /\ ReadyOK(c) /\ request \in [Slot -> Handler] /\ connector \in [Id -> Row]
      /\ request' = [request EXCEPT ![r] = Free] /\ UNCHANGED <<overlapped, halfRevoked>>
  BY ReadyFacts DEF End
<1>2. CASE request[r].c # c
  <2>1. \A q \in Slot : request[q].c = c \/ request'[q].c = c => request'[q] = request[q]
    BY <1>1, <1>2, NoIdAssumption DEF Free
  <2>2. connector'[c] = connector[c]
    BY <1>1, <1>2 DEF Write
  <2> QED
    BY <1>1, <1>2, <2>1, <2>2, ReadyElsewhere
<1>3. CASE request[r].c = c
  <2>1. connector'[c] = row
    BY <1>1, <1>3 DEF Write
  <2>2. c \notin overlapped =>
          /\ \A q \in Slot : request[q].c = c => q = r
          /\ ~connector[c].revokedAt
    BY <1>3, ReadyFacts
  <2> QED
    BY <1>1, <1>3, <2>1, <2>2, ReadyEnds
<1> QED
  BY <1>2, <1>3

LEMMA ReadyRotateUpdate ==
  ASSUME ReadyInv, NEW c \in Id, NEW r \in Slot, RotateUpdate(r)
  PROVE  ReadyOK(c)'
<1>d. PICK d : d = request[r].c
  OBVIOUS
<1>a. PICK at : at = request[r].at
  OBVIOUS
<1> DEFINE row == [connector[d] EXCEPT !.status = "pending", !.credentialHash = NoSecret,
                     !.lastSeenAt = NoTime, !.lastError = FALSE]
<1>1. /\ TypeOK /\ Inv /\ d \in Id /\ OpenEnrollment(d, at) /\ End(r) /\ Write(d, row)
      /\ request[r].op # "revoke"
  BY <1>d, <1>a, ReadyFacts DEF RotateUpdate, Inv, HandlerOK, OnConnector
<1>2. row.status = "pending" /\ row.revokedAt = connector[d].revokedAt
  BY <1>1 DEF TypeOK, Row
<1>3. d # c => /\ TokensOf(c)' = TokensOf(c)
               /\ \A t \in TokensOf(c) : enrollment'[t] = enrollment[t]
  BY <1>1, OpensElsewhere
<1> HIDE DEF row
<1> QED
  BY <1>d, <1>1, <1>2, <1>3, ReadyWrite DEF AllUsed

LEMMA ReadyEnrollCredential ==
  ASSUME ReadyInv, NEW c \in Id, NEW r \in Slot, EnrollCredential(r)
  PROVE  ReadyOK(c)'
<1>d. PICK d : d = request[r].c
  OBVIOUS
<1> DEFINE row == [connector[d] EXCEPT !.credentialHash = secrets + 1, !.status = "connected",
                     !.lastSeenAt = request[r].at, !.lastError = FALSE]
<1>1. /\ connector \in [Id -> Row] /\ End(r) /\ Write(d, row) /\ UNCHANGED enrollment
      /\ request[r].op = "enroll"
  BY <1>d, ReadyFacts DEF EnrollCredential
<1>2. d = c => row.revokedAt = connector[c].revokedAt
  BY <1>1 DEF Row
<1>3. TokensOf(c)' = TokensOf(c) /\ (AllUsed(c) => AllUsed(c)')
  BY <1>1 DEF TokensOf, Token, AllUsed
<1>4. d = c /\ c \notin overlapped => AllUsed(c)
  BY <1>d, <1>1, ReadyFacts DEF AfterUse
<1> HIDE DEF row
<1> QED
  BY <1>d, <1>1, <1>2, <1>3, <1>4, ReadyWrite

LEMMA ReadyAgentWrites ==
  ASSUME ReadyInv, NEW c \in Id, NEW r \in Slot,
         HeartbeatUpdate(r) \/ SnapshotSaved(r) \/ markError(r)
  PROVE  ReadyOK(c)'
<1>d. PICK d : d = request[r].c
  OBVIOUS
<1>1. /\ connector \in [Id -> Row] /\ End(r) /\ UNCHANGED enrollment
      /\ request[r].op # "revoke" /\ ReadyOK(c)
  BY ReadyFacts DEF HeartbeatUpdate, SnapshotSaved, markError
<1>2. TokensOf(c)' = TokensOf(c) /\ AllUsed(c)' = AllUsed(c)
  BY <1>1 DEF TokensOf, Token, AllUsed
<1>3. d = c /\ c \notin overlapped /\ ~HeartbeatUpdate(r) => AllUsed(c)
  BY <1>d, ReadyFacts DEF SnapshotSaved, markError, AfterUse
<1>4. c \notin overlapped => connector[c].status \in {"pending", "revoked"} \/ AllUsed(c)
  BY <1>1 DEF ReadyOK
<1>5. CASE HeartbeatUpdate(r)
  <2> DEFINE row == [connector[d] EXCEPT !.lastSeenAt = now]
  <2>1. Write(d, row) /\ (d = c => row.revokedAt = connector[c].revokedAt
                                   /\ row.status = connector[c].status)
    BY <1>d, <1>1, <1>5 DEF HeartbeatUpdate, Row
  <2> HIDE DEF row
  <2> QED
    BY <1>d, <1>1, <1>2, <1>4, <2>1, ReadyWrite
<1>6. CASE SnapshotSaved(r)
  <2> DEFINE row == [connector[d] EXCEPT !.status = "connected", !.lastSeenAt = now,
                       !.lastError = FALSE]
  <2>1. Write(d, row) /\ (d = c => row.revokedAt = connector[c].revokedAt)
    BY <1>d, <1>1, <1>6 DEF SnapshotSaved, Row
  <2>2. d = c /\ c \notin overlapped => AllUsed(c)
    BY <1>d, <1>6, ReadyFacts DEF SnapshotSaved, AfterUse
  <2> HIDE DEF row
  <2> QED
    BY <1>d, <1>1, <1>2, <2>1, <2>2, ReadyWrite
<1>7. CASE markError(r)
  <2> DEFINE row == [connector[d] EXCEPT !.status = "error", !.lastSeenAt = now,
                       !.lastError = TRUE]
  <2>1. Write(d, row) /\ (d = c => row.revokedAt = connector[c].revokedAt)
    BY <1>d, <1>1, <1>7 DEF markError, Row
  <2>2. d = c /\ c \notin overlapped => AllUsed(c)
    BY <1>d, <1>7, ReadyFacts DEF markError, AfterUse
  <2> HIDE DEF row
  <2> QED
    BY <1>d, <1>1, <1>2, <2>1, <2>2, ReadyWrite
<1> QED
  BY <1>5, <1>6, <1>7

\* A revocation closes what is open, or is remembered as half done.
LEMMA ReadyRevokes ==
  ASSUME ReadyInv, NEW c \in Id, NEW r \in Slot, RevokeEnrollments(r) \/ Fail(r)
  PROVE  ReadyOK(c)'
<1>1. /\ TypeOK /\ ReadyOK(c) /\ request \in [Slot -> Handler]
      /\ request' = [request EXCEPT ![r] = Free]
      /\ UNCHANGED <<connector, overlapped>> /\ halfRevoked \subseteq halfRevoked'
  BY ReadyFacts DEF RevokeEnrollments, Fail, End
<1>2. /\ TokensOf(c)' = TokensOf(c)
      /\ \A t \in TokensOf(c) : enrollment[t].used => enrollment'[t].used
  BY <1>1, ClosesTokens DEF RevokeEnrollments, Fail, TokensOf, Token
<1>3. AllUsed(c) => AllUsed(c)'
  BY <1>2 DEF AllUsed
<1>4. CASE request[r].c # c
  <2>1. \A q \in Slot : request[q].c = c \/ request'[q].c = c => request'[q] = request[q]
    BY <1>1, <1>4, NoIdAssumption DEF Free
  <2> QED
    BY <1>1, <1>2, <2>1, ReadyElsewhere
<1>5. CASE request[r].c = c
  <2>1. c \notin overlapped => \A q \in Slot : request[q].c = c => q = r
    BY <1>5, ReadyFacts
  <2>2. c \notin overlapped => connector'[c].status \in {"pending", "revoked"} \/ AllUsed(c)'
    BY <1>1, <1>3 DEF ReadyOK
  <2>3. ASSUME c \notin overlapped, connector'[c].revokedAt
        PROVE  c \in halfRevoked' \/ AllUsed(c)'
    <3>1. request[r].op = "revoke"
      BY <1>1, <1>5, <2>3, ReadyFacts
    <3>2. RevokeEnrollments(r) => AllUsed(c)'
      BY <1>1, <1>5, ClosesTokens DEF RevokeEnrollments, AllUsed
    <3> QED
      BY <1>5, <3>1, <3>2 DEF Fail
  <2> QED
    BY <1>1, <2>1, <2>2, <2>3, ReadyEnds
<1> QED
  BY <1>4, <1>5

\* An enrollment consumes the last unused token.
LEMMA ReadyEnrollConsume ==
  ASSUME ReadyInv, NEW c \in Id, NEW r \in Slot, NEW t \in Token, EnrollConsume(r, t)
  PROVE  ReadyOK(c)'
<1>d. PICK d : d = enrollment[t].connector
  OBVIOUS
<1>1. /\ TypeOK /\ QuietOK(c) /\ Begin(r, "enroll", d, t) /\ UNCHANGED connector
      /\ enrollment' = [enrollment EXCEPT ![t].used = TRUE] /\ ~enrollment[t].used
  BY <1>d, ReadyFacts DEF EnrollConsume, Enrollable
<1>2. /\ TokensOf(c)' = TokensOf(c) /\ TokensOf(c) \subseteq Nat
      /\ \A u \in TokensOf(c) : enrollment[u].used \/ u = t => enrollment'[u].used
  BY <1>1 DEF TypeOK, TokensOf, Token, Enrollment
<1>3. d = c /\ c \notin overlapped => AllUsed(c)'
  <2> SUFFICES ASSUME d = c, c \notin overlapped, NEW u \in TokensOf(c)
               PROVE  enrollment'[u].used
    BY <1>2 DEF AllUsed
  <2>1. t \in TokensOf(c) /\ IsNewest(t, c)
    BY <1>d, <1>1 DEF TokensOf, QuietOK
  <2>2. enrollment[u].used \/ IsNewest(u, c)
    BY <1>1 DEF QuietOK
  <2>3. IsNewest(u, c) => u = t
    BY <1>2, <2>1 DEF IsNewest
  <2> QED
    BY <1>1, <1>2, <2>2, <2>3
<1> QED
  BY <1>1, <1>2, <1>3, ReadyBegin

\* Who authenticates holds the credential of the newest token: all tokens are used.
LEMMA ReadyAgentCall ==
  ASSUME ReadyInv, NEW c \in Id, NEW r \in Slot, NEW op, NEW s \in Nat, AgentCall(r, op, s)
  PROVE  ReadyOK(c)'
<1>1. PICK d \in Id : Authenticates(s, d) /\ Begin(r, op, d, NoSecret)
  BY DEF AgentCall
<1>2. /\ QuietOK(c) /\ Inv /\ UNCHANGED <<connector, enrollment>>
  BY ReadyFacts DEF AgentCall
<1>3. TokensOf(c)' = TokensOf(c) /\ AllUsed(c)' = AllUsed(c)
  BY <1>2 DEF TokensOf, Token, AllUsed
<1>4. ASSUME d = c, c \notin overlapped PROVE AllUsed(c)
  <2>1. connector[c].credentialHash # NoSecret
    BY <1>1, <1>4, NoneAssumption DEF Authenticates
  <2>2. PICK t : IsNewest(t, c) /\ <<t, connector[c].credentialHash>> \in issued
    BY <1>2, <1>4, <2>1 DEF QuietOK
  <2>3. enrollment[t].used
    BY <1>2, <2>2 DEF Inv, TokensHeldOnce
  <2>4. TokensOf(c) \subseteq Nat
    BY <1>2 DEF Inv, TypeOK, TokensOf
  <2>5. \A u \in TokensOf(c) : IsNewest(u, c) => u = t
    BY <2>2, <2>4 DEF IsNewest
  <2> QED
    BY <1>2, <1>4, <2>3, <2>5 DEF QuietOK, AllUsed
<1> QED
  BY <1>1, <1>2, <1>3, <1>4, ReadyBegin

\* Only a revocation writes the status of a revoked connector, with the date.
LEMMA NextDated == ReadyInv /\ [Next]_vars => RevokedHasDate'
<1> SUFFICES ASSUME ReadyInv, [Next]_vars, NEW c \in Id, connector'[c].status = "revoked"
             PROVE  connector'[c].revokedAt
  BY DEF RevokedHasDate
<1>1. /\ connector \in [Id -> Row] /\ now \in Nat
      /\ connector[c].status = "revoked" => connector[c].revokedAt
  BY DEF ReadyInv, QuietInv, ServiceInv, Inv, TypeOK, RevokedHasDate
<1>2. CASE UNCHANGED connector
  BY <1>1, <1>2
<1>3. ASSUME NEW d, NEW row, Write(d, row), d = c /\ row.status = "revoked" => row.revokedAt
      PROVE  connector'[c].revokedAt
  BY <1>1, <1>3 DEF Write
<1>4. ASSUME NEW r \in Slot, NEW d \in Id, CreateRow(r, d) PROVE connector'[c].revokedAt
  BY <1>4, <1>3 DEF CreateRow, Absent
<1>5. ASSUME NEW r \in Slot, NEW d \in Id, RevokeRow(r, d) PROVE connector'[c].revokedAt
  <2>1. d = c => [connector[d] EXCEPT !.status = "revoked", !.revokedAt = TRUE,
                    !.credentialHash = NoSecret, !.lastError = FALSE].revokedAt
    BY <1>1 DEF Row
  <2> QED
    BY <1>5, <2>1, <1>3 DEF RevokeRow
<1>6. ASSUME NEW r \in Slot, RotateUpdate(r) \/ EnrollCredential(r) \/ HeartbeatUpdate(r)
                             \/ SnapshotSaved(r) \/ markError(r)
      PROVE  connector'[c].revokedAt
  <2>d. PICK d : d = request[r].c
    OBVIOUS
  <2>a. PICK at : at = request[r].at
    OBVIOUS
  <2>1. CASE RotateUpdate(r)
    <3>1. d = c => [connector[d] EXCEPT !.status = "pending", !.credentialHash = NoSecret,
                      !.lastSeenAt = NoTime, !.lastError = FALSE].status = "pending"
      BY <1>1 DEF Row
    <3> QED
      BY <2>d, <2>1, <3>1, <1>3 DEF RotateUpdate
  <2>2. CASE EnrollCredential(r)
    <3>1. d = c => [connector[d] EXCEPT !.credentialHash = secrets + 1, !.status = "connected",
                      !.lastSeenAt = at, !.lastError = FALSE].status = "connected"
      BY <1>1 DEF Row
    <3> QED
      BY <2>d, <2>a, <2>2, <3>1, <1>3 DEF EnrollCredential
  <2>3. CASE HeartbeatUpdate(r)
    <3>1. d = c => /\ [connector[d] EXCEPT !.lastSeenAt = now].status = connector[c].status
                   /\ [connector[d] EXCEPT !.lastSeenAt = now].revokedAt = connector[c].revokedAt
      BY <1>1 DEF Row
    <3> QED
      BY <2>d, <2>3, <3>1, <1>1, <1>3 DEF HeartbeatUpdate
  <2>4. CASE SnapshotSaved(r)
    <3>1. d = c => [connector[d] EXCEPT !.status = "connected", !.lastSeenAt = now,
                      !.lastError = FALSE].status = "connected"
      BY <1>1 DEF Row
    <3> QED
      BY <2>d, <2>4, <3>1, <1>3 DEF SnapshotSaved
  <2>5. CASE markError(r)
    <3>1. d = c => [connector[d] EXCEPT !.status = "error", !.lastSeenAt = now,
                      !.lastError = TRUE].status = "error"
      BY <1>1 DEF Row
    <3> QED
      BY <2>d, <2>5, <3>1, <1>3 DEF markError
  <2> QED
    BY <1>6, <2>1, <2>2, <2>3, <2>4, <2>5
<1>7. ASSUME NEW r \in Slot, OperatorStep(r) PROVE connector'[c].revokedAt
  BY <1>2, <1>4, <1>5, <1>6, <1>7 DEF OperatorStep, CreateCount, RotateFind, RotateClose,
     RevokeEnrollments
<1>8. ASSUME NEW r \in Slot, AgentStep(r) PROVE connector'[c].revokedAt
  BY <1>2, <1>6, <1>8 DEF AgentStep, EnrollConsume, Heartbeat, Snapshot, Report, AgentCall
<1> QED
  BY <1>2, <1>7, <1>8 DEF Next, Tick, Fail, vars

LEMMA NextReady == ReadyInv /\ [Next]_vars => ReadyInv'
<1> SUFFICES ASSUME ReadyInv, [Next]_vars PROVE ReadyInv'
  OBVIOUS
<1>1. QuietInv' /\ RevokedInv' /\ TokensOrdered' /\ RevokedHasDate'
  BY NextQuiet, NextRevoked, NextOrdered, NextDated, ReadyFacts
  DEF ReadyInv, QuietInv, ServiceInv, Inv
<1> SUFFICES ASSUME NEW c \in Id PROVE ReadyOK(c)'
  BY <1>1 DEF ReadyInv
<1>2. ReadyOK(c)
  BY DEF ReadyInv
<1>3. CASE Tick \/ UNCHANGED vars
  BY <1>2, <1>3, ReadyElsewhere DEF Tick, vars, TokensOf, Token
<1>4. ASSUME NEW r \in Slot, OperatorStep(r) PROVE ReadyOK(c)'
  <2>1. CASE CreateCount(r) \/ \E d \in Id : RotateFind(r, d)
    BY <2>1, ReadyBegin DEF CreateCount, RotateFind, AfterUse, TokensOf, Token
  <2> QED
    BY <1>4, <2>1, ReadyCreateRow, ReadyRevokeRow, ReadyRotateClose, ReadyRotateUpdate,
       ReadyRevokes DEF OperatorStep
<1>5. ASSUME NEW r \in Slot, AgentStep(r) PROVE ReadyOK(c)'
  <2>1. ASSUME NEW op, NEW s \in 1..secrets, AgentCall(r, op, s) PROVE ReadyOK(c)'
    BY <2>1, ReadyAgentCall DEF ReadyInv, QuietInv, ServiceInv, Inv, TypeOK
  <2> QED
    BY <1>5, <2>1, ReadyEnrollConsume, ReadyEnrollCredential, ReadyAgentWrites
    DEF AgentStep, Heartbeat, Snapshot, Report
<1> QED
  BY <1>3, <1>4, <1>5, ReadyRevokes DEF Next

LEMMA ReadyHolds == Spec => []ReadyInv
<1>1. Init => RevokedHasDate /\ \A c \in Id : ReadyOK(c)
  BY NoIdAssumption DEF Init, Absent, Free, RevokedHasDate, ReadyOK, AllUsed, TokensOf, Token
<1>2. /\ QuietInv /\ RevokedInv /\ TokensOrdered
      /\ RevokedHasDate /\ (\A c \in Id : ReadyOK(c))
      => ReadyInv
  BY DEF ReadyInv
<1>3. Spec => []QuietInv /\ []RevokedInv /\ []TokensOrdered
  BY QuietHolds, RevokedHolds, TokensAreOrdered
<1>4. Spec => Init /\ [][Next]_vars
  BY DEF Spec
<1> QED
  BY <1>1, <1>2, <1>3, <1>4, NextReady, PTL

\* Of a connector at rest that no two handlers worked on at once, revoked or not, the page
\* calls the enrollment ready exactly when the newest token can be enrolled, and no other
\* can; and so does the list, unless a revocation stopped halfway (describe, toView, enroll).
THEOREM OpenHolds == Spec => []OpenIsEnrollable
<1>1. ASSUME ReadyInv, NEW c \in Id, Quiet(c), NEW usable, usable = {t \in TokensOf(c) : Enrollable(t)}
      PROVE  /\ usable = IF EnrollmentReady(c) THEN {Newest(TokensOf(c))} ELSE {}
             /\ c \notin halfRevoked =>
                  usable = IF enrollmentState(c) = "open" THEN {Newest(TokensOf(c))} ELSE {}
  <2>1. /\ TypeOK /\ ReadyOK(c) /\ QuietOK(c) /\ RevokedOK(c) /\ c \notin overlapped
        /\ AtWork(c) = {} /\ connector[c] \in Row /\ now \in Nat
    BY <1>1, ReadyFacts DEF Quiet, TypeOK
  <2>2. /\ Revoked(connector[c]) <=> connector[c].status = "revoked"
        /\ Revoked(connector[c]) <=> connector[c].revokedAt
    BY <1>1, <2>1 DEF ReadyInv, RevokedHasDate, RevokedOK, Revoked
  <2>3. CASE TokensOf(c) = {}
    BY <1>1, <2>3 DEF enrollmentState, EnrollmentReady
  <2>4. CASE TokensOf(c) # {}
    <3>1. PICK n : IsNewest(n, c)
      BY <1>1, <2>4 DEF ReadyInv, TokensOrdered
    <3>2. Newest(TokensOf(c)) = n /\ n \in TokensOf(c)
      BY <2>1, <3>1, NewestIsNewest DEF IsNewest
    <3>3. \A t \in TokensOf(c) : enrollment[t].used \/ t = n
      BY <2>1, <3>1 DEF QuietOK, IsNewest, TypeOK, TokensOf
    <3>4. enrollment[n] \in Enrollment /\ enrollment[n].connector = c
      BY <2>1, <3>2 DEF TypeOK, TokensOf
    <3>5. usable = IF Enrollable(n) THEN {n} ELSE {}
      BY <1>1, <3>2, <3>3 DEF Enrollable
    <3>6. Enrollable(n) <=> enrollmentState(c) = "open" /\ ~Revoked(connector[c])
      BY <2>1, <2>4, <3>2, <3>4 DEF Enrollable, enrollmentState, Enrollment
    <3>7. enrollmentState(c) = "open" => ~enrollment[n].used /\ ~AllUsed(c)
      BY <2>4, <3>2, <3>4 DEF enrollmentState, Enrollment, AllUsed
    <3>8. displayStatus(connector[c]) = "pending" <=> connector[c].status = "pending"
      BY <2>1 DEF displayStatus, Row
    <3>9. Enrollable(n) <=> EnrollmentReady(c)
      BY <2>1, <2>2, <3>6, <3>7, <3>8 DEF EnrollmentReady, ReadyOK
    <3>10. c \notin halfRevoked => (Enrollable(n) <=> enrollmentState(c) = "open")
      BY <2>1, <2>2, <3>6, <3>7 DEF ReadyOK
    <3> QED
      BY <3>2, <3>5, <3>9, <3>10
  <2> QED
    BY <2>3, <2>4
<1>2. ReadyInv => OpenIsEnrollable
  BY <1>1 DEF OpenIsEnrollable
<1> QED
  BY <1>2, ReadyHolds, PTL

-----------------------------------------------------------------------------
(* One handler at a time: what the controller states of any connector. *)

OneAtATime == \A q, r \in Slot : q = r

LEMMA NoneOverlap ==
  ASSUME OneAtATime, TypeOK, overlapped = {}, [Next]_vars
  PROVE  overlapped' = {}
<1>1. ASSUME NEW r \in Slot, NEW op, NEW c, NEW token, Begin(r, op, c, token) PROVE overlapped' = {}
  <2>1. ~(c # NoId /\ \E q \in Slot : request[q].c = c)
    BY <1>1 DEF OneAtATime, Begin, Free
  <2> QED
    BY <1>1, <2>1 DEF Begin
<1>2. ASSUME NEW r \in Slot, End(r) PROVE overlapped' = {}
  BY <1>2 DEF End
<1>3. ASSUME NEW r \in Slot, OperatorStep(r) PROVE overlapped' = {}
  BY <1>1, <1>2, <1>3 DEF OperatorStep, CreateCount, CreateRow, RotateFind, RotateClose, RotateUpdate,
     RevokeRow, RevokeEnrollments
<1>4. ASSUME NEW r \in Slot, AgentStep(r) PROVE overlapped' = {}
  BY <1>1, <1>2, <1>4 DEF AgentStep, EnrollConsume, EnrollCredential, Heartbeat, Snapshot, Report,
     AgentCall, HeartbeatUpdate, SnapshotSaved, markError
<1> QED
  BY <1>2, <1>3, <1>4 DEF Next, Tick, Fail, vars

LEMMA NeverOverlapped == OneAtATime => (Spec => [](overlapped = {}))
<1> SUFFICES ASSUME OneAtATime PROVE Spec => [](overlapped = {})
  OBVIOUS
<1>1. Init => overlapped = {}
  BY DEF Init
<1>2. Inv => TypeOK
  BY DEF Inv
<1>3. TypeOK /\ overlapped = {} /\ [Next]_vars => (overlapped = {})'
  BY NoneOverlap
<1> QED
  BY <1>1, <1>2, <1>3, InvHolds, PTL DEF Spec

\* Where one handler runs at a time, a revoked connector is listed as revoked.
THEOREM OneAtATimeRevokes == OneAtATime => (Spec => []RevokedStaysRevoked)
<1> SUFFICES ASSUME OneAtATime PROVE Spec => []RevokedStaysRevoked
  OBVIOUS
<1>1. overlapped = {} /\ RevokedIsListed => RevokedStaysRevoked
  BY DEF RevokedIsListed, RevokedStaysRevoked
<1> QED
  BY <1>1, NeverOverlapped, RevokedListed, PTL

\* Where one handler runs at a time, a connector accepts only the credential of its newest
\* enrollment.
THEOREM OneAtATimeRotates == OneAtATime => (Spec => []RotationRevokesCredential)
<1> SUFFICES ASSUME OneAtATime PROVE Spec => []RotationRevokesCredential
  OBVIOUS
<1>1. overlapped = {} /\ RotationInvalidates => RotationRevokesCredential
  BY DEF RotationInvalidates, RotationRevokesCredential, Quiet
<1> QED
  BY <1>1, NeverOverlapped, RotationHolds, PTL

=============================================================================
