----------------------------- MODULE Connector -----------------------------
(***************************************************************************)
(* The private-cluster connectors of one organization                      *)
(* (backend/src/connectors/connectors.service.ts): operators create,       *)
(* rotate and revoke them, agents enroll with a one-time token and then     *)
(* present a credential.  Each handler is split at its awaits: a slot of    *)
(* `request' holds what a running handler has decided and still has to     *)
(* write, and any two handlers interleave.  A handler can also end between *)
(* two steps, when a query fails or the process stops.                     *)
(*                                                                         *)
(* createCredential draws fresh secrets: tokens and credentials are named  *)
(* by the number of the draw.  The table holds SHA-256 hashes of them; two  *)
(* secrets are taken to have two hashes, so a hash goes by its secret's     *)
(* name.  issued, overlapped and halfRevoked are history variables: the    *)
(* <<token, credential>> pairs handed out, the connectors two handlers     *)
(* were working on at once, and those whose revocation ended between its   *)
(* two writes.                                                             *)
(***************************************************************************)
EXTENDS Integers, FiniteSets

CONSTANTS
  Id,               \* connector ids
  NoId,
  Slot,             \* handlers that can run at once
  MAX_CONNECTORS,
  ENROLLMENT_TTL,   \* in the clock's units
  STALE_AFTER,
  NoSecret,         \* null, for a token or a credential
  NoTime,
  MaxTime,          \* bound on the clock
  MaxSecrets        \* bound on the secrets drawn

ASSUME NoIdAssumption == NoId \notin Id
ASSUME IdAssumption == IsFiniteSet(Id)
ASSUME SlotAssumption == IsFiniteSet(Slot) /\ Slot # {}
ASSUME NoneAssumption == NoSecret \notin Nat /\ NoTime \notin Nat
ASSUME ConnectorBounds ==
  /\ MAX_CONNECTORS \in Nat /\ ENROLLMENT_TTL \in Nat /\ STALE_AFTER \in Nat
  /\ MaxTime \in Nat /\ MaxSecrets \in Nat

VARIABLES
  connector,    \* the Connector table
  enrollment,   \* the ConnectorEnrollment table, by token
  request,      \* the running handlers
  now,
  secrets,      \* how many secrets were drawn
  issued,
  overlapped,
  halfRevoked

vars == <<connector, enrollment, request, now, secrets, issued, overlapped, halfRevoked>>

Status == {"absent", "pending", "connected", "error", "revoked"}
Op == {"none", "create", "rotate", "rotateClosed", "revoke", "enroll",
       "heartbeat", "snapshot", "report"}

Row == [status : Status, revokedAt : BOOLEAN, credentialHash : Nat \cup {NoSecret},
        lastSeenAt : Nat \cup {NoTime}, lastError : BOOLEAN]
Enrollment == [connector : Id, used : BOOLEAN, expiresAt : Nat]
Handler == [op : Op, c : Id \cup {NoId}, token : Nat \cup {NoSecret}, at : Nat]

Absent == [status |-> "absent", revokedAt |-> FALSE, credentialHash |-> NoSecret,
           lastSeenAt |-> NoTime, lastError |-> FALSE]
Free == [op |-> "none", c |-> NoId, token |-> NoSecret, at |-> 0]

Token == DOMAIN enrollment
Active == {c \in Id : connector[c].status # "absent" /\ ~connector[c].revokedAt}
Revoked(row) == row.revokedAt \/ row.status = "revoked"

Init ==
  /\ connector = [c \in Id |-> Absent]
  /\ enrollment = [t \in {} |-> {}]
  /\ request = [r \in Slot |-> Free]
  /\ now = 0
  /\ secrets = 0
  /\ issued = {}
  /\ overlapped = {}
  /\ halfRevoked = {}

-----------------------------------------------------------------------------
\* Slot r takes up connector c; another handler may be at work on it.
Begin(r, op, c, token) ==
  /\ request[r] = Free
  /\ request' = [request EXCEPT ![r] = [op |-> op, c |-> c, token |-> token, at |-> now]]
  /\ overlapped' = IF c # NoId /\ \E q \in Slot : request[q].c = c
                     THEN overlapped \cup {c} ELSE overlapped
  /\ UNCHANGED halfRevoked

End(r) ==
  /\ request' = [request EXCEPT ![r] = Free]
  /\ UNCHANGED <<overlapped, halfRevoked>>

Write(c, row) == connector' = [connector EXCEPT ![c] = row]

\* updateMany where connectorId, usedAt null.
CloseEnrollments(c) ==
  enrollment' = [t \in Token |->
    IF enrollment[t].connector = c THEN [enrollment[t] EXCEPT !.used = TRUE]
    ELSE enrollment[t]]

\* MUTANT: a token is drawn that was drawn before, or will be.
OpenEnrollmentReusing(c, at) ==
  /\ secrets < MaxSecrets
  /\ secrets' = secrets
  /\ enrollment' = [t \in Token \cup {secrets + 1} |->
       IF t = secrets + 1
         THEN [connector |-> c, used |-> FALSE, expiresAt |-> at + ENROLLMENT_TTL]
         ELSE enrollment[t]]

\* A new enrollment for c, its token the next secret.
OpenEnrollment(c, at) ==
  /\ secrets < MaxSecrets
  /\ secrets' = secrets + 1
  /\ enrollment' = [t \in Token \cup {secrets + 1} |->
       IF t = secrets + 1
         THEN [connector |-> c, used |-> FALSE, expiresAt |-> at + ENROLLMENT_TTL]
         ELSE enrollment[t]]

-----------------------------------------------------------------------------
(* POST /connectors *)

\* MUTANT: the limit is off by one.
CreateCountPast(r) ==
  /\ Cardinality(Active) <= MAX_CONNECTORS
  /\ Begin(r, "create", NoId, NoSecret)
  /\ UNCHANGED <<connector, enrollment, now, secrets, issued>>

CreateCount(r) ==
  /\ Cardinality(Active) < MAX_CONNECTORS
  /\ Begin(r, "create", NoId, NoSecret)
  /\ UNCHANGED <<connector, enrollment, now, secrets, issued>>

CreateRow(r, c) ==
  /\ request[r].op = "create"
  /\ connector[c].status = "absent"
  /\ Write(c, [Absent EXCEPT !.status = "pending"])
  /\ OpenEnrollment(c, now)
  /\ End(r)
  /\ UNCHANGED <<now, issued>>

(* POST /connectors/:id/enrollment *)

RotateFind(r, c) ==
  /\ connector[c].status # "absent"
  /\ ~Revoked(connector[c])
  /\ Begin(r, "rotate", c, NoSecret)
  /\ UNCHANGED <<connector, enrollment, now, secrets, issued>>

RotateClose(r) ==
  /\ request[r].op = "rotate"
  /\ CloseEnrollments(request[r].c)
  /\ request' = [request EXCEPT ![r].op = "rotateClosed", ![r].at = now]
  /\ UNCHANGED <<connector, now, secrets, issued, overlapped, halfRevoked>>

\* MUTANT: the credential in use is kept.
RotateKeepsCredential(r) ==
  /\ request[r].op = "rotateClosed"
  /\ LET c == request[r].c
     IN  /\ Write(c, [connector[c] EXCEPT !.status = "pending",
                        !.lastSeenAt = NoTime, !.lastError = FALSE])
         /\ OpenEnrollment(c, request[r].at)
  /\ End(r)
  /\ UNCHANGED <<now, issued>>

\* The update asks neither revokedAt nor status again.
RotateUpdate(r) ==
  /\ request[r].op = "rotateClosed"
  /\ LET c == request[r].c
     IN  /\ Write(c, [connector[c] EXCEPT !.status = "pending", !.credentialHash = NoSecret,
                        !.lastSeenAt = NoTime, !.lastError = FALSE])
         /\ OpenEnrollment(c, request[r].at)
  /\ End(r)
  /\ UNCHANGED <<now, issued>>

(* DELETE /connectors/:id *)

RevokeRow(r, c) ==
  /\ connector[c].status # "absent"
  /\ ~connector[c].revokedAt
  /\ Write(c, [connector[c] EXCEPT !.status = "revoked", !.revokedAt = TRUE,
                 !.credentialHash = NoSecret, !.lastError = FALSE])
  /\ Begin(r, "revoke", c, NoSecret)
  /\ UNCHANGED <<enrollment, now, secrets, issued>>

\* MUTANT: the enrollments stay as they are.
RevokeKeepsEnrollments(r) ==
  /\ request[r].op = "revoke"
  /\ End(r)
  /\ UNCHANGED <<connector, enrollment, now, secrets, issued>>

RevokeEnrollments(r) ==
  /\ request[r].op = "revoke"
  /\ CloseEnrollments(request[r].c)
  /\ End(r)
  /\ UNCHANGED <<connector, now, secrets, issued>>

-----------------------------------------------------------------------------
(* POST /connectors/agent/enroll *)

\* MUTANT: usedAt is not asked.
EnrollableTwice(t) ==
  /\ enrollment[t].expiresAt > now
  /\ ~Revoked(connector[enrollment[t].connector])

Enrollable(t) ==
  /\ ~enrollment[t].used
  /\ enrollment[t].expiresAt > now
  /\ ~Revoked(connector[enrollment[t].connector])

\* One conditional update: of two requests with one token, one consumes it.
EnrollConsume(r, t) ==
  /\ Enrollable(t)
  /\ enrollment' = [enrollment EXCEPT ![t].used = TRUE]
  /\ Begin(r, "enroll", enrollment[t].connector, t)
  /\ UNCHANGED <<connector, now, secrets, issued>>

\* MUTANT: the credential handed out is not the one stored.
EnrollStoresToken(r) ==
  /\ request[r].op = "enroll"
  /\ secrets < MaxSecrets
  /\ secrets' = secrets + 1
  /\ LET c == request[r].c
     IN  Write(c, [connector[c] EXCEPT !.credentialHash = request[r].token,
                     !.status = "connected", !.lastSeenAt = request[r].at,
                     !.lastError = FALSE])
  /\ issued' = issued \cup {<<request[r].token, secrets + 1>>}
  /\ End(r)
  /\ UNCHANGED <<enrollment, now>>

\* The credential, stored by the connector's id alone.
EnrollCredential(r) ==
  /\ request[r].op = "enroll"
  /\ secrets < MaxSecrets
  /\ secrets' = secrets + 1
  /\ LET c == request[r].c
     IN  Write(c, [connector[c] EXCEPT !.credentialHash = secrets + 1,
                     !.status = "connected", !.lastSeenAt = request[r].at,
                     !.lastError = FALSE])
  /\ issued' = issued \cup {<<request[r].token, secrets + 1>>}
  /\ End(r)
  /\ UNCHANGED <<enrollment, now>>

(* The agent's other calls start with authenticate. *)

\* MUTANT: revocation is left to the cleared credential.
AuthenticatesByHash(s, c) == connector[c].credentialHash = s

Authenticates(s, c) ==
  /\ connector[c].credentialHash = s
  /\ ~Revoked(connector[c])

AgentCall(r, op, s) ==
  /\ \E c \in Id : Authenticates(s, c) /\ Begin(r, op, c, NoSecret)
  /\ UNCHANGED <<connector, enrollment, now, secrets, issued>>

Heartbeat(r, s) == AgentCall(r, "heartbeat", s)
Snapshot(r, s) == AgentCall(r, "snapshot", s)
Report(r, s) == AgentCall(r, "report", s)

HeartbeatUpdate(r) ==
  /\ request[r].op = "heartbeat"
  /\ Write(request[r].c, [connector[request[r].c] EXCEPT !.lastSeenAt = now])
  /\ End(r)
  /\ UNCHANGED <<enrollment, now, secrets, issued>>

\* The import ran: it saved something readable, or not (ArgoSync has the import).
SnapshotSaved(r) ==
  /\ request[r].op = "snapshot"
  /\ Write(request[r].c, [connector[request[r].c] EXCEPT !.status = "connected",
                            !.lastSeenAt = now, !.lastError = FALSE])
  /\ End(r)
  /\ UNCHANGED <<enrollment, now, secrets, issued>>

markError(r) ==
  /\ request[r].op \in {"snapshot", "report"}
  /\ Write(request[r].c, [connector[request[r].c] EXCEPT !.status = "error",
                            !.lastSeenAt = now, !.lastError = TRUE])
  /\ End(r)
  /\ UNCHANGED <<enrollment, now, secrets, issued>>

-----------------------------------------------------------------------------
\* A query fails, the client's data is refused, or the process stops.
Fail(r) ==
  /\ request[r] # Free
  /\ request' = [request EXCEPT ![r] = Free]
  /\ halfRevoked' = IF request[r].op = "revoke" THEN halfRevoked \cup {request[r].c}
                     ELSE halfRevoked
  /\ UNCHANGED <<connector, enrollment, now, secrets, issued, overlapped>>

Tick ==
  /\ now < MaxTime
  /\ now' = now + 1
  /\ UNCHANGED <<connector, enrollment, request, secrets, issued, overlapped, halfRevoked>>

OperatorStep(r) ==
  \/ CreateCount(r)
  \/ \E c \in Id : CreateRow(r, c) \/ RotateFind(r, c) \/ RevokeRow(r, c)
  \/ RotateClose(r) \/ RotateUpdate(r) \/ RevokeEnrollments(r)

AgentStep(r) ==
  \/ \E t \in Token : EnrollConsume(r, t)
  \/ EnrollCredential(r)
  \/ \E s \in 1..secrets : Heartbeat(r, s) \/ Snapshot(r, s) \/ Report(r, s)
  \/ HeartbeatUpdate(r) \/ SnapshotSaved(r) \/ markError(r)

Next == Tick \/ \E r \in Slot : OperatorStep(r) \/ AgentStep(r) \/ Fail(r)

Spec == Init /\ [][Next]_vars

-----------------------------------------------------------------------------
(* What GET /connectors shows. *)

displayStatus(row) ==
  IF row.status \in {"revoked", "pending"} THEN row.status
  ELSE IF row.lastSeenAt = NoTime \/ now - row.lastSeenAt > STALE_AFTER THEN "disconnected"
  ELSE row.status

TokensOf(c) == {t \in Token : enrollment[t].connector = c}
Newest(S) == CHOOSE t \in S : \A u \in S : u <= t

enrollmentState(c) ==
  IF TokensOf(c) = {} THEN "none"
  ELSE LET e == enrollment[Newest(TokensOf(c))]
       IN  IF e.used THEN "used" ELSE IF e.expiresAt <= now THEN "expired" ELSE "open"

\* When the page says "Enrollment is ready": it looks at the enrollment of a connector
\* listed as pending only (describe).
EnrollmentReady(c) ==
  displayStatus(connector[c]) = "pending" /\ enrollmentState(c) = "open"
-----------------------------------------------------------------------------
TypeOK ==
  /\ connector \in [Id -> Row]
  /\ enrollment = [t \in Token |-> enrollment[t]]
  /\ Token \subseteq 1..secrets
  /\ \A t \in Token : enrollment[t] \in Enrollment
  /\ request \in [Slot -> Handler]
  /\ now \in Nat
  /\ secrets \in Nat
  /\ issued \subseteq (Token \X (1..secrets))
  /\ overlapped \subseteq Id
  /\ halfRevoked \subseteq Id

AtWork(c) == {r \in Slot : request[r].c = c}

\* However many agents present it, in whatever order, an enrollment token yields one
\* credential at most, and no credential comes from two tokens (enroll 174-207).
TokenIssuesOnce ==
  \A p, q \in issued : p[1] = q[1] \/ p[2] = q[2] => p = q

\* The credential a connector accepts was issued for a used token of that connector, so
\* no two connectors accept one credential.
CredentialOwned ==
  \A c \in Id : connector[c].credentialHash # NoSecret =>
    \E t \in TokensOf(c) :
      enrollment[t].used /\ <<t, connector[c].credentialHash>> \in issued

\* Once revokedAt is set no handler takes the connector up again, and when those that
\* were at work are gone its row never changes: every entry point asks for itself.
NoWorkOnRevoked ==
  [][\A c \in Id : connector[c].revokedAt =>
       /\ \A r \in Slot : request'[r].c = c => request[r].c = c
       /\ AtWork(c) = {} => connector'[c] = connector[c]]_vars

\* create counts and inserts in two steps: the limit can be passed, by no more than the
\* other handlers that counted before the insert.
ConnectorLimit ==
  Cardinality(Active) + Cardinality({r \in Slot : request[r].op = "create"})
    <= MAX_CONNECTORS + Cardinality(Slot) - 1

\* A connector no two handlers worked on at once, with none at work now.
Quiet(c) == c \notin overlapped /\ AtWork(c) = {}

\* The accepted credential belongs to the newest enrollment: rotation put an end to
\* every earlier one, also when a rotation stopped halfway.
RotationInvalidates ==
  \A c \in Id : Quiet(c) /\ connector[c].credentialHash # NoSecret =>
    <<Newest(TokensOf(c)), connector[c].credentialHash>> \in issued

\* The page says an enrollment is ready when, and only when, the agent can use its token,
\* to the instant, and no older token can be used: of revoked connectors too, wherever a
\* rotation or a revocation stopped.  So does the enrollmentState of the list, which asks
\* nothing of the connector's row, except of a connector whose revocation stopped between
\* its two writes (revoke 152-169): that row may be listed with an open enrollment that
\* enroll refuses.
OpenIsEnrollable ==
  \A c \in Id : Quiet(c) =>
    LET usable == {t \in TokensOf(c) : Enrollable(t)}
        newest == {Newest(TokensOf(c))}
    IN  /\ usable = IF EnrollmentReady(c) THEN newest ELSE {}
        /\ c \notin halfRevoked => usable = IF enrollmentState(c) = "open" THEN newest ELSE {}

\* How far a token has come, and the tokens whose credential authenticates.
ServiceToken(t) ==
  IF t \notin Token THEN "new"
  ELSE IF Enrollable(t) THEN "open"
  ELSE IF \E i \in issued : i[1] = t THEN "issued"
  ELSE IF \E r \in Slot : request[r].op = "enroll" /\ request[r].token = t THEN "consumed"
  ELSE "closed"

Service == INSTANCE CredentialService WITH
  Name <- 1..MaxSecrets,
  token <- [t \in 1..MaxSecrets |-> ServiceToken(t)],
  accepted <- {i[1] : i \in {j \in issued : \E c \in Id : Authenticates(j[2], c)}}

\* Whatever operators and agents do at once, an agent sees a service that takes a token
\* once, answers with one credential for it, and never again accepts a credential or a
\* token it has refused.
ServesAgents == Service!ServiceSpec

\* A revoked connector is listed as revoked (connectors.controller.ts 54), overlapping
\* handlers or not.
RevokedStaysRevoked ==
  \A c \in Id : AtWork(c) = {} /\ connector[c].revokedAt =>
    displayStatus(connector[c]) = "revoked"

\* RotationInvalidates as the controller states it (connectors.controller.ts 48), for
\* connectors that overlapping handlers worked on too.
RotationRevokesCredential ==
  \A c \in Id : AtWork(c) = {} /\ connector[c].credentialHash # NoSecret =>
    <<Newest(TokensOf(c)), connector[c].credentialHash>> \in issued
=============================================================================
