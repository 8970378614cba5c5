----------------------------- MODULE Workspace -----------------------------
(***************************************************************************)
(* What the requests of a workspace write (workspace/workspace.service.ts): *)
(* a snapshot of a connected organization without applications syncs it     *)
(* first, and a request for notifications derives the missing ones from     *)
(* the latest deployments, one find and one create after the other, beside *)
(* any other request that does the same.                                    *)
(*                                                                         *)
(* A row is an application row: an application that is removed and imported *)
(* again is another row, and its notifications lose their application.     *)
(* latest[a] is the kinds of notification the latest deployment of a        *)
(* warrants: "fail" when it failed, "sync" when it is OutOfSync.            *)
(***************************************************************************)
EXTENDS Naturals, Sequences, FiniteSets

CONSTANTS
  Row,       \* application rows, as tuple of them is the order of their names
  Reader     \* requests that can run at once

ASSUME ReaderAssumption == IsFiniteSet(Reader)

VARIABLES
  credentials,  \* whether Argo CD is connected
  rows,         \* by row: absent, saved, removed
  latest,
  notices,      \* by row and kind: how many notifications are unread, and read
  reading       \* the running requests: what is left to do

workspaceVars == <<credentials, rows, latest, notices, reading>>

Kind == {"fail", "sync"}
Rows == {Row[i] : i \in DOMAIN Row}
NotReading == [at |-> "free", todo |-> <<>>]

WorkspaceInit ==
  /\ credentials = FALSE
  /\ rows = [a \in Rows |-> "absent"]
  /\ latest = [a \in Rows |-> {}]
  /\ notices = [a \in Rows |-> [k \in Kind |-> [unread |-> 0, read |-> 0]]]
  /\ reading = [r \in Reader |-> NotReading]

Saved == {a \in Rows : rows[a] = "saved"}
Copies(a, k) == notices[a][k].unread + notices[a][k].read

-----------------------------------------------------------------------------
(* The syncs, and the operations on the integration, as far as seen here. *)

Integrate ==
  /\ credentials' = ~credentials
  /\ UNCHANGED <<rows, latest, notices, reading>>

Imports(new) == rows' = [a \in Rows |-> IF a \in new THEN "saved" ELSE rows[a]]

SyncStores(a, kinds) ==
  /\ a \in Saved /\ latest' = [latest EXCEPT ![a] = kinds]
  /\ UNCHANGED <<credentials, rows, notices, reading>>

SyncRemoves(a) ==
  /\ a \in Saved /\ rows' = [rows EXCEPT ![a] = "removed"]
  /\ latest' = [latest EXCEPT ![a] = {}]
  /\ UNCHANGED <<credentials, notices, reading>>

-----------------------------------------------------------------------------
\* snapshot, up to the count of maybeSync; the rest of it reads.
SnapshotCounts(r) ==
  /\ reading[r].at = "free" /\ credentials /\ Saved = {}
  /\ reading' = [reading EXCEPT ![r].at = "sync"]
  /\ UNCHANGED <<credentials, rows, latest, notices>>

\* The sync that a snapshot waits for: when it fails, the snapshot answers all the same.
LazySync(r) ==
  /\ reading[r].at = "sync"
  /\ \E new \in SUBSET {a \in Rows : rows[a] = "absent"} : Imports(new)
  /\ reading' = [reading EXCEPT ![r] = NotReading]
  /\ UNCHANGED <<credentials, latest, notices>>

\* loadGraph: every application and deployment, as no plan limits them (PUBLIC_LAUNCH).
\* syncDerivedNotifications goes through them by name, a failure before an OutOfSync.
Deserved ==
  LET of(a) == SelectSeq(<<<<a, "fail">>, <<a, "sync">>>>, LAMBDA n : n[2] \in latest[a])
      from[i \in 0..Len(Row)] ==
        IF i = 0 THEN <<>>
        ELSE from[i - 1] \o IF Row[i] \in Saved THEN of(Row[i]) ELSE <<>>
  IN  from[Len(Row)]

NotificationsStart(r) ==
  /\ reading[r].at = "free"
  /\ reading' = [reading EXCEPT ![r] = [at |-> "find", todo |-> Deserved]]
  /\ UNCHANGED <<credentials, rows, latest, notices>>

Next1(r) == Head(reading[r].todo)

\* MUTANT: a notification that was read does not count.
UpsertFindUnread(r) ==
  /\ reading[r].at = "find" /\ reading[r].todo # <<>>
  /\ LET n == Next1(r)
     IN  reading' = [reading EXCEPT ![r] =
           IF notices[n[1]][n[2]].unread > 0 /\ rows[n[1]] = "saved"
             THEN [at |-> "find", todo |-> Tail(@.todo)] ELSE [@ EXCEPT !.at = "create"]]
  /\ UNCHANGED <<credentials, rows, latest, notices>>

\* upsertNotification: one that is found is left as it is, read or not.
UpsertFind(r) ==
  /\ reading[r].at = "find" /\ reading[r].todo # <<>>
  /\ LET n == Next1(r)
     IN  reading' = [reading EXCEPT ![r] =
           IF Copies(n[1], n[2]) > 0 /\ rows[n[1]] = "saved"
             THEN [at |-> "find", todo |-> Tail(@.todo)] ELSE [@ EXCEPT !.at = "create"]]
  /\ UNCHANGED <<credentials, rows, latest, notices>>

\* A notification of a row that is gone is refused, and the request fails.
UpsertCreate(r) ==
  /\ reading[r].at = "create"
  /\ LET n == Next1(r)
     IN  IF rows[n[1]] = "saved"
           THEN /\ notices' = [notices EXCEPT ![n[1]][n[2]].unread = @ + 1]
                /\ reading' = [reading EXCEPT ![r] = [at |-> "find", todo |-> Tail(@.todo)]]
           ELSE /\ reading' = [reading EXCEPT ![r] = NotReading]
                /\ UNCHANGED notices
  /\ UNCHANGED <<credentials, rows, latest>>

\* The notifications are listed, or the request fails earlier.
NotificationsEnd(r) ==
  /\ reading[r].at \in {"find", "create"}
  /\ reading' = [reading EXCEPT ![r] = NotReading]
  /\ UNCHANGED <<credentials, rows, latest, notices>>

\* markNotificationsRead: all, or the listed ones; several ids are as several calls.
MarkAllRead ==
  /\ notices' = [a \in Rows |-> [k \in Kind |-> [unread |-> 0, read |-> Copies(a, k)]]]
  /\ UNCHANGED <<credentials, rows, latest, reading>>

MarkRead(a, k) ==
  /\ notices[a][k].unread > 0
  /\ notices' = [notices EXCEPT ![a][k] = [unread |-> @.unread - 1, read |-> @.read + 1]]
  /\ UNCHANGED <<credentials, rows, latest, reading>>

WorkspaceNext ==
  \/ Integrate \/ MarkAllRead
  \/ \E a \in Rows :
       \/ SyncRemoves(a) \/ \E kinds \in SUBSET Kind : SyncStores(a, kinds)
       \/ \E k \in Kind : MarkRead(a, k)
  \/ \E r \in Reader :
       \/ SnapshotCounts(r) \/ LazySync(r)
       \/ NotificationsStart(r) \/ UpsertFind(r) \/ UpsertCreate(r) \/ NotificationsEnd(r)

-----------------------------------------------------------------------------
\* However often requests look, deployments fail again and users mark notifications read,
\* an application has no more notifications of one kind than requests run at once: those
\* that looked before the first was created.
NoticeCopies == \A a \in Rows : \A k \in Kind : Copies(a, k) <= Cardinality(Reader)
=============================================================================
