# GitOps Insights in TLA+

Models, model-checking runs and machine-checked proofs for GitOps Insights, a
service that follows the applications of an organization in Argo CD, records
what was deployed and how it went, and shows metrics over it. The backend is
NestJS over PostgreSQL (`src/backend`), the frontend Next.js (`src/frontend`),
and a small agent runs in private clusters (`src/connector`).

Paths below are relative to the repository's `src/`. `AS` is
`backend/src/argocd/argocd-sync.service.ts`, `DH` is
`backend/src/argocd/deployment-history.ts`, `CS` is
`backend/src/connectors/connectors.service.ts`, `CP` is
`backend/src/connectors/connector-protocol.ts`, `IS` is
`backend/src/integrations/integrations.service.ts`, `BS` is
`backend/src/billing/billing.service.ts`, `AU` is
`backend/src/auth/auth.service.ts`, `WS` is
`backend/src/workspace/workspace.service.ts` and `AI` is
`frontend/src/app/ai/page.tsx`.

## 1. The system

### Why it is hard

The backend is one Node process and every handler is a chain of awaited
queries. There are no locks, few transactions, and no version columns; every
await is a place where another request, the five-minute cron job, the startup
timer or a connector's call can run. What holds, holds because of unique
indexes, of single conditional updates, and of the order of the queries. A
process that stops in the middle leaves what its queries had written.

### Components

| Component | State | Operations | Talks to |
|---|---|---|---|
| Argo CD sync (`AS`, `argocd-sync.job.ts`) | Application, Deployment, Environment, DeploymentEvent and Integration rows | sync of an organization from the cron job, the startup timer, `POST /applications/sync`, connect, or lazily from a workspace snapshot; import of a connector's snapshot | Argo CD's HTTP API, Integrations, Connectors |
| Deployment history (`DH`) | none (a pure merge), over Deployment rows | merge history and live state into inserts, fills and settlements of rows | called by the sync; its rows are also written by Deployments |
| Deployments (`deployments.service.ts`) | Deployment rows | create and update over the API | reads by metrics, workspace |
| Integrations (`IS`) | the Integration row | connect, disconnect, test, list | starts a sync after connect |
| Connectors (`CS`, `connector-protocol.ts`) | Connector and ConnectorEnrollment rows | create, rotate, revoke; enroll, heartbeat, snapshot, report | the agent; snapshot runs the sync's import |
| Connector agent (`connector/agent.mjs`) | a credential in memory and in a Secret or a file | enroll, heartbeat, read Argo CD, post a snapshot or report an error, every 20 s | Connectors, Argo CD, the Kubernetes API |
| Billing (`billing/`) | Stripe fields of User and Organization | checkout, portal, webhooks | Stripe, Organizations |
| Authentication (`auth/`, `users/`) | User and EmailVerificationToken rows | register, login, verify, resend | Mail |
| Organizations | Organization and Membership rows | ensureForUser on first use | everyone |
| Workspace and notifications | Notification rows | snapshot: lazy sync, derived notifications | sync, metrics |
| Metrics and analysis | none | classification, failure rate, time to restore, risk and stability | Deployment rows |
| Frontend | token, workspace, connector list | fetches, polls | the API |

Argo CD, PostgreSQL, Stripe, SMTP and Kubernetes are external.

### What must be right, and what makes it hard

- **Deployment history.** A row is snapshotted once, settled from Progressing
  once, and then frozen (`DH:1-24`). It must show a health Argo CD really
  reported for that deployment, and the result of an operation that applied its
  revision, although a sync fetches, reads the rows and writes them in three
  separate steps. No deployment is stored twice; a rollout seen Progressing is
  finally settled.
- **Applications.** After a sync the organization has the applications Argo CD
  lists, once each, with their history: over moves between projects, changes of
  name, recreated applications, failing saves, overlapping jobs and restarts.
  Rows older than Argo uids are never swept up.
- **The connection.** The stored url and token are what the user last chose.
- **Connectors.** A one-time token yields one credential; rotation and
  revocation end what came before; what the list shows is what the agent meets;
  the limit is respected. All of these span several queries.
- **Agent.** An installed token becomes a credential, the credential is kept
  over crashes and replaced pods, and a new install command always recovers,
  wherever the former one stopped.
- **Organizations.** Simultaneous first requests settle on one organization, and
  nobody reaches a project of another user through any read or write.
- **Billing.** However late, twice or out of order Stripe's events come, user
  and organization end with one plan, and with Stripe's when its newest event
  came last.
- **Verification.** A user has one link that works, and is never refused another
  mail without one.
- **Notifications.** Requests that find, then create do not pile up notices.
- **Figures.** Three services and the pages compute the same numbers from
  different rows with classifiers written twice; they must tell one story. The
  intelligence page derives scores and headlines from part of what the server's
  analysis saw, and must not contradict it.
- **Pages.** Answers that come late, for something no longer selected or to a
  session that ended, are not shown for something else; overlapping polls end
  with the server's state.
- **Argo CD client.** All requests of a call go to addresses that were checked,
  though the name may change between them.
- **Agent and server** are separate programs with limits and checks of their
  own: what one sends, or creates, the other must take.

`PROJECT.json` lists every hazard at its line, with the properties that cover it
or why none does.

## 2. The modules

| Module | Models |
|---|---|
| `SnapshotLifecycle` | abstract: what `DH`'s header promises of a deployment row |
| `DeploymentHistory` | the merge of `DH`, as operators |
| `HistorySync` | the syncs of one application around that merge, with Argo CD, the clock and operators |
| `HistorySyncProofs` | its proofs, for any number of syncs, and the refinement |
| `CredentialService` | abstract: what the platform promises agents about tokens and credentials |
| `Connector` | connectors and enrollments of one organization, handlers split at awaits; implements `CredentialService` |
| `ConnectorProofs` | its proofs |
| `ConnectorAgent` | pods, state secret and install command in the cluster; extends `CredentialService` as its platform |
| `ConnectorAgentProofs` | its proofs, and those about `Discovery` |
| `ConnectorPanel` | the browser's panel that polls for the list |
| `ArgoSync` | applications and the Integration row of one organization, jobs split at awaits |
| `ArgoSyncProofs` | its proofs |
| `ArgoClient` | the connection, address check and requests of a call to Argo CD, and the form |
| `Discovery` | Argo CD's answers on both ways to an import, and the checks of a connector's settings on both sides |
| `Organizations` | ensureForUser at its queries, access to projects and what hangs on them |
| `Billing` | Stripe's events, the webhook's two updates, and the plan |
| `Accounts` | registration, verification links, mail, login |
| `UsersProofs` | the proofs about `Organizations`, `Billing` and `Accounts` |
| `Workspace` | the lazy sync and the derived notifications |
| `Metrics` | the figures of the API and of the pages, over any short list of deployments |
| `MetricsProofs` | its proofs, over a list of any length |
| `Ordering` | what `Discovery` and `Metrics` share: lists that are filtered, and sorted with ties left in place, as JavaScript sorts |
| `OrderingProofs` | what its operators return, induction and counting |
| `Analysis` | findings, scores and advice of the server, and the page's |
| `IntelligencePage` | effects, requests and session of the intelligence page |
| `ServicesProofs` | the proofs about `ArgoClient`, `Workspace`, `Analysis` and `IntelligencePage` |
| `MCHistorySync`, `MCConnector`, `MCArgoSync`, `MCSyncs`, `MCConnectorAgent`, `MCServices` | model values, symmetry sets and compositions for TLC |

`HistorySync` and `ArgoSync` are two views of one job: `ArgoSync` has all the
applications and only the kinds of children of each; `HistorySync` has one
application and all of its deployment rows. `Connector` and `ConnectorAgent` meet
in `CredentialService`: one is shown to implement it, the other uses nothing
else of the platform, so an agent's properties hold beside the real handlers as
far as `CredentialService` says all an agent can tell.

`MCSyncs`, `MCServices` and `MCConnectorAgent` hold parts side by side that share no state
their properties speak of. A variable `focus`, chosen at the start, names the
part whose steps a behaviour takes; the others stay as they started. Interleaving
them would multiply the states and show nothing more.

### DeploymentHistory and HistorySync

State: `live` is the application as Argo CD would report it (external), `rows`
the Deployment table, `sync[w]` what running sync `w` holds in its local
variables, `edited` the rows operators wrote over the API (the promise says
nothing of these). `shown`, `outcomes` and `unnamed` record what Argo CD has reported
and exist only for the properties: each health of a live revision, each operation's
result with the revision it did apply, and each result that was reported beside a
live revision without naming a revision.

| Action | Code |
|---|---|
| `Fetch` | the HTTP request whose answer the sync works from (`AS:241-248`) |
| `ReadRows` | `findMany`, then the merge's choice of entries (`AS:530-545`, `DH:107-110`) |
| `Commit` | the transaction with inserts, fills and settlements (`AS:546-584`, `DH:111-162`) |
| `Abandon` | an error caught at `AS:279-284`, or a restart |
| `CreateDeployment`, `UpdateStatus` | `deployments.service.ts:20-53`, `:125-136` |
| `ArgoDeploys`, `ArgoFails`, `ArgoCompares`, `ArgoHealth`, `ArgoTrims`, `Tick` | Argo CD and the clock (external) |

Some details that carry weight. `findMany` gives no order, so `Assignments` is
the set of all matchings the greedy loop can end with. `operationState` belongs
to Argo CD's last operation, which need not have applied the compared revision,
so `ArgoCompares` moves the revision without an operation and `ArgoFails` may
leave the revision unnamed. A `PATCH` may bring any of three fields, and the others
stay (`Patched`). Argo CD's timestamps have second precision and
`MATCH_WINDOW_MS` is a second, so the clock runs finer than that
(`MatchWindow = 2` ticks) and rows that operators POST may be off by less.

### Connector

State: the two tables, and `request[r]`: what running handler `r` has decided
and not yet written. Secrets are named by the number of the draw; `issued`
records which credential was handed out for which token; `overlapped` the
connectors two handlers were at work on at once, and `halfRevoked` those whose
revocation stopped between its two writes.

| Action | Code |
|---|---|
| `CreateCount`, `CreateRow` | `create` (`CS:54-101`) |
| `RotateFind`, `RotateClose`, `RotateUpdate` | `rotate` (`CS:103-147`) |
| `RevokeRow`, `RevokeEnrollments` | `revoke` (`CS:149-172`) |
| `EnrollConsume`, `EnrollCredential` | `enroll` (`CS:174-207`): the conditional `updateMany`, then the credential |
| `Heartbeat`, `Snapshot`, `Report` | `authenticate` (`CS:274-285`), the first await of each |
| `HeartbeatUpdate`, `SnapshotSaved`, `markError` | what each writes afterwards (`CS:211-269`, `:302-311`) |
| `Fail` | a handler ends between two of its queries |

`displayStatus` and `enrollmentState` are what `GET /connectors` shows.

### ConnectorAgent and ConnectorPanel

State of the agent: `pod[p]` is what a process holds (`connector/agent.mjs:481-528`:
its environment, the remembered and the current credential, and the await it is
at), `stateSecret`, `enrollmentSecret`, `replicas` and `install` are the cluster
and the running install command. `lost` and `strayed` are history: credentials
dropped before they were saved, and a state secret deleted under a pod that was
still finishing its round.

| Action | Code |
|---|---|
| `Load` | the credential of the state secret, else of memory (`agent.mjs:500-514`) |
| `Enroll`, `Enrolled`, `Heartbeat`, `SnapshotFails`, `RoundSucceeds`, `Unauthorized` | `runOnce` (`:207-254`) |
| `AnswerLost` | `postJson` fails after the platform acted (`:186-205`) |
| `StoreRead`, `StoreWrite`, `StoreFails` | `storeCredential` (`:415-452`) |
| `StartPod`, `Exit`, `Kill` | start with an empty memory, SIGTERM at the end of a round, death |
| `InstallCompare` ... `InstallEnd` | the kubectl calls of the install command in order (`CP:496-542`); it may stop after each |
| `Platform` | the steps of `CredentialService` that agents do not take |

The panel (`private-cluster-panel.tsx`) has the status the server has (`served`),
the one on the screen, the requests for the list on their way, the operation
whose answer is awaited, and the window. `ServerLists` and `ListArrives` are
separate, so lists arrive in any order. `OperationAnswers` shows the install command
of a create (`:122-125`) in the window, if that is still open, and that of a rotation
(`:211-218`) in a window that it opens, and asks for the list again.

### ArgoSync

State: `apps` the Application table (uid, key and which kinds of children a row
has), `integration`, and `job[w]` the local variables of running job `w` and the
await it is at. `chosen` and `crossed` record what the user last chose and
whether a sync was running then.

| Action | Code |
|---|---|
| `connect`, `disconnect` | `IS:93-140`; the sync after connect is a `StartSync` |
| `StartSync` | reading the stored connection, else the environment's (`AS:393-426`) |
| `List` | the probe and the list (`AS:228-259`) |
| `AgentReads` | the agent's list (`connector/agent.mjs:230-242`); it may arrive at any later time |
| `importDiscovered`, `FinishImport` | a connector's snapshot (`AS:356-391`): the same loop, no removal |
| `FindByUid` | the lookups before the save (`AS:453-479`) |
| `UpdateById`, `UpdateFails`, `UpsertByKey` | the save (`AS:481-519`), with the unique index on project and name |
| `ReadHistory`, `MergeHistory` (`WriteHistory` or `UpdateHistoryFails`), `KeepHistory` | `replaceHistory`'s two awaits (`AS:526-584`) and their outcomes |
| `ClearEvents`, `CreateEvents` | `replaceObservedEvents`: delete, then create (`AS:586-599`) |
| `ensureEnvironment` | `AS:601-610` |
| `FindStale`, `DeleteDeployments`, `DeleteEnvironments`, `DeleteEvents`, `DeleteApplications` | the removal (`AS:286-310`): four deletes, no transaction |
| `Record` | the final upsert of the Integration row (`AS:312-350`) |
| `ItemFails`, `Abandon` | a failing query inside the loop (caught) or outside it, or a restart |

Foreign keys refuse to delete an application that has deployments or
environments, which is what `DeleteApplications` models when another job has
written some in between; events go with their application.
`UpdateHistoryFails` does not know rows of the Deployment table by id: it may
happen to a job that read a history and was overlapped by another, whether or
not the other removed exactly those rows. Jobs that ran alone never meet it.

### ArgoClient and Discovery

`ArgoClient`: `call` is the running call and what it has resolved and reached,
`dns` the addresses its name has now. `safeDestination` is
`assertSafeArgoUrl` (`argo-url.ts:137-188`) with the one resolution;
`RequestApplications` and `RequestProjects` are the two requests through
`createPinnedLookup` (`argocd.service.ts:98-180`); `connect` stores the row
after them (`IS:93-129`). `NameChanges` and `KeyChanges` are the owner of the name
and a new encryption key; `SyncUpserts` is the row a sync writes from the
environment's connection. An address is its kind, its family and how it is written,
a host an address or one of four names: the range tables and the name suffixes are
these classes. An IPv4 address in IPv6 form is "hex" in a URL, as `URL` writes it
whatever was typed, and "dotted" in the answer of a lookup. The tables know the
second for what it is and not the first (`argo-url.ts:225-249`).

`Discovery`: `applicationList`, `projectList` and `size` are what Argo CD
answers. `listApplications` is the server's way to `mapArgoApplication`,
`readArgo` with `assertSnapshotShape` and `importDiscovered` the agent's
(`agent.mjs:256-316`, `CP:157-190`, `CS:222-266`). `Create` checks the settings
of a connector as the server does (`CP:49-155`); `AgentStarts` is what the pod
checks (`agent.mjs:12-153`).

### Organizations, Billing, Accounts, Workspace

| Module | State | Actions |
|---|---|---|
| `Organizations` | `membership` by id, with whether its transaction has committed; `projects`; `environments` | `EnsureFind`, `EnsureCreate`, `EnsureCommit`, `EnsureAdopt` are the queries of `ensureForUser` (`organizations.service.ts:9-44`), then the request acts: `ImportProject`, `EnvironmentCreate`, `EnvironmentDelete`. The reads are operators. |
| `Billing` | `stripe` and `events` (external); `account`, `plan`: the user and organization rows | `WebhookUser` takes any event ever sent, looks the rows up and writes the user, `WebhookOrganization` the organization (`BS:195-447`); `WebhookFails` in between |
| `Accounts` | `user`, `link` by number, `delivered`, `issuing` | `issueVerification` at its awaits (`AU:130-196`) from `Register` or `Resend`; `VerifyFind`, `Verify` (`AU:81-103`); a mail is accepted, refused, or accepted with its answer lost |
| `Workspace` | application `rows`, what their latest deployment warrants, `notices` | `NotificationsStart` reads, then `UpsertFind` and `UpsertCreate` for each missing kind (`WS:271-321`); `SnapshotCounts`, `LazySync` (`WS:73-100`); syncs and marking as read beside them |

`met`, `torn`, `applied`, `issuesMet` and `botched` are history: whether first
requests, handlers or issues overlapped, which event was written last, and which
tokens were left by a handler that stopped. An organization is drawn an id when
it is inserted and is seen when its transaction commits, so a second find can
see the later one first; that is why `EnsureCreate` and `EnsureCommit` are apart.

### Metrics, Analysis, IntelligencePage

`Metrics` and `Analysis` are pure code as operators. Their state is the input,
which grows row by row, so that TLC visits every short one: `history`, the
deployments newest first with those of one instant in any order; and for an
analysis what Argo CD, events and rows say. Operators keep the names of the
functions; where the API and the page compute one thing twice there are two
operators (`metrics` and `buildWorkspaceMetrics`, `buildDora` and
`buildDoraMetrics`, `classifyDeployment` and `classifyOnPage`). A row may lack its
result, its health or both (`DH:165-178`, `:213-224`).

`IntelligencePage`: `requests` is the set of requests on their way, each with the
application and token it was made with and whether its effect was cancelled
since (`AI:47-105`), `answers` what is shown. `Choose`, `Retry`,
`WorkspaceArrives` and the guard run the effects; `Arrives` and `Fails` are
`apiFetch` (`api.ts:20-49`) with the 401 that drops the token.

## 3. The runs

Each takes three to four minutes at most on two workers. `CHECK_DEADLOCK FALSE` everywhere:
with its bounds spent a model may stop, and an idle server is no error.

| Run | Question | Answer |
|---|---|---|
| `history_serial` | one sync at a time with operators editing: does the table keep the promise, without duplicates, and catch up? | yes |
| `syncs_overlap` | two overlapping syncs: is everything stored something Argo CD reported for that deployment, and is what two jobs leave repaired by the next undisturbed sync? | yes, with one exception for a result |
| `history_result` | does an older row keep the result it had? | no: finding |
| `history_overlap` | and is a terminal snapshot frozen then too? | no: finding |
| `connector` | two handlers at a time: tokens, credentials, limit, rotation, revocation, the list | holds, with the exact exceptions below |
| `connector_revoked` | is a revoked connector always listed as revoked? | no: finding |
| `connector_rotation` | does a rotation always end the former credential? | no: finding |
| `argosync` | one job at a time with everything around it: does the organization mirror Argo CD, does the connection stay the chosen one, do the syncs converge? | yes |
| `argosync_connection` | does a choice hold that was made while a sync ran? | no: finding |
| `argosync_history` | does a listed application keep its history when a save fails? | no: finding |
| `agent` | pods with crashes, lost answers and install commands beside the panel: is what is stored right, is an installed token enrolled, does the agent reconnect, does the panel catch up? | yes |
| `services` | organizations, billing, accounts, notifications, figures, analysis and its page, the Argo CD client, discovery: their properties below | yes |

### What the properties say

*HistorySync.* `KeepsPromise` is refinement of `SnapshotLifecycle` under the
mapping that takes the rows no operator edited. `SnapshotWasLive` and
`ResultWasObserved` relate each stored row to what Argo CD reported over time. The
second has one exception: an operation that names no revision is taken for one of
the live revision (`DH:93-98`), so its result may be stored for a revision it never
applied, while that is live (`unnamed`). `SucceededKept` shows what this can cost: the
"Succeeded" of an older row, which the header says is preserved (`DH:21-23`), is
overwritten on the first fill (`DH:137`). `SnapshotLifecycle` leaves that sentence out.
`OneRowPerDeployment` and `OneStandInRow` are about repeated syncs, the second
for applications whose history is empty. `EventuallyCaughtUp` says a rollout
left Progressing is settled.

*Connector.* `TokenIssuesOnce` and `CredentialOwned` hold for all interleavings.
`NoWorkOnRevoked` is the guarantee that matters after revocation: no handler
takes the connector up again. `ConnectorLimit` is what the unlocked
count-then-insert really gives: the limit plus the other handlers at work.
`ServesAgents` is the refinement of `CredentialService`, for all
interleavings: a token is taken once, answered by one credential, and what was
refused once is never accepted again. `RotationInvalidates` and
`OpenIsEnrollable` are about connectors no two handlers have worked on at once
(also after handlers that stopped half-way); the violations show what the list
and a rotation do otherwise. `OpenIsEnrollable` covers revoked connectors too:
what the page calls ready (`EnrollmentReady`, `describe`) is the newest token
and can be used, wherever a rotation or a revocation stopped. The list's own
`enrollmentState` does not look at the row: of a connector whose revocation
stopped between `connectors.service.ts:152` and `:166` it may say open while
`enroll` refuses the token. `halfRevoked` remembers these connectors, and only
for them is that allowed.

*ConnectorAgent.* `StoredForInstalled`: between two install commands, whichever
of them stopped half-way, the saved credential is the installed token's.
`CredentialKept`: a credential is gone only if a pod failed between enrollment
and save. That window is real: a round whose heartbeat or report fails drops the
credential with its token used up (`agent.mjs:229`), and only a new install
command helps. `InstallEnrolls` says that it does, from whatever state of the
cluster, and `Reconnects` that a saved credential is presented again by the next
pod. All four make one exception more: a pod that was told to stop can save its
old credential after the command deleted the secret (`strayed`).

*ConnectorPanel.* `CatchesUp`: while the panel waits for an agent it ends with
the server's status. For a status it does not wait on the property is false, as
polling stops and an overtaken list stays (`:89-103`).

*ArgoSync.* `MirrorsArgo` speaks of the end of a sync no other job overlapped:
the rows with a uid are those it listed (less the ones whose save failed), once
each, complete. It holds from whatever state earlier, overlapping or broken-off
jobs left, and whatever late snapshot of a connector was imported before.
`TokenAsChosen` holds always; `ConnectionAsChosen` unless a sync was
running at the choice. `LegacyRowsStay` is an action property.
`EventuallyMirrors` is convergence of the applications, their histories and
environments. Their signals are left out of it: every sync deletes and recreates
them in two queries, so a reader may find none at any time.

*The client and discovery.* `ReachesChecked`: all requests of a call go to
addresses found at its one check, public ones in production, whatever the name
does meanwhile (an IPv4 address that the URL has in IPv6 form counts as public there,
whichever it is); the row holds a URL that passed; the form refuses nothing the
server takes in production; and requests, syncs that a user starts and the cron
job, each of which looks for the connection on its own, find the same one
(`OneConnection`). The job alone passes over a token that cannot be decrypted
and, while other organizations have rows, an organization without one. `AgentAgrees`: both
ways import the same of one answer unless the connector shows an error, and a
connector that could be created starts until its certificate expires. There is one
exception, which the property names (`MissedByAgent`): of a list under `Items`, or of
one application by itself, a direct sync imports the applications
(`argo-application.ts:42-43`) and the agent takes the answer for an empty list
(`agent.mjs:256-260`): it posts no application, and the page shows connected, with
nothing received. The property says that this is so for these answers and for no
others; no text of the repository promises otherwise.

*The services.* `Isolation` holds for all interleavings of first requests,
imports and edits, and says that all ways to read tell a user the same.
`OneHome`: first requests that did not meet leave one organization that has all
the user's projects; those that met leave at most one for each. `PlansAgree` and
`FollowsStripe` are the strongest the webhook gives: it neither orders events nor
writes in a transaction, so an older event that is redelivered last does win, and
a failure between the queries leaves two plans until the next event. `OneLink` and
`LimitedHasMail` hold beside mails whose answer is lost; `botched` names the one
exception, a handler that stopped. `NoticeCopies` bounds duplicates by the
requests that overlap: without a unique index they do happen. `PanelsAgree` and
`TrendMatches` compare the figures, series, lists and newest deployments over every short list of
deployments; the exceptions they name are differences of the code: the page's time
to restore skips a failure and success of one instant, a window of 24-hour days
cuts a day that bars count as a whole, and the bell judges a running deployment, or one without a result, by
its application's health. A change of outcome is shown as one on the page unless a
value that tells it was not recorded (`lib/intelligence.ts:285-288`). `PageFitsAnalysis` bounds how far the page's scores,
which lack what only Argo CD's live answer says, are from the server's.
`AnswersForSelected`: when the page waits for a part no longer, that part is the
selected application's or shows an error.

### Bounds

- History: two revisions; two ticks per second and three clock values, enough
  for two deployments of one revision and for rows less than the window apart;
  three Argo CD events, enough for deploy, compare, fail or trim in any order;
  one legacy row; one operator edit in the serial run, a `POST` or a `PATCH` of the
  sync state alone or of result and health; none in the others, whose properties are
  about rows only syncs wrote.
- Connector: two connectors with a limit of one, two handlers, a lifetime of one
  tick in a clock of three values (before, at and after expiry), four secrets
  (two enrollments with their credentials, or three enrollments and one).
  `STALE_AFTER = 0` lets a connector go stale after one tick.
- ArgoSync: two servers, one of them read by a connector too and the other the
  environment's, two uids, two keys, one legacy row on one of the keys. Three
  Argo CD events make every move, exchange and recreation of two applications
  (create, create, move; create, delete, create under the same key); one
  snapshot, one choice and one failure are enough to meet each of them at every
  point of a sync. Eight rows are never used up with one job at a time. The
  overlap run gives up choices, failures, the legacy row and the third event for the
  second job, and stops at four rows: two that both jobs create for one application,
  and two more created after these were taken for stale.
- Agent: two pods (an old one that finishes its round beside the new), two tokens
  (two install commands), one trouble: a failure, lost answer, kill or stopped
  command at any point. Panel: two lists on their way, which suffice to overtake,
  and four changes, operations and lost lists.
- Services, each with two requests that overlap: two users with two projects and
  three organizations (two of one user, one of the other); three Stripe events and
  two days (subscribe, change or end, subscribe again; each redelivered at any
  time); three links with an interval of 0 and a lifetime of 1 in a clock of three
  values (at and after each boundary); one application row with both kinds of
  notice; three deployments of two applications, one with and one without a
  health, of two kinds or none, at three instants over three days of two ticks (range of one day, bars of
  two days above a span of two), which has instants that coincide, a day the window
  cuts, and a range on either side of weekly bars; three rows and two phrases for
  an analysis, for every pair of phrases; two applications and three choices,
  retries or session changes on the page; two addresses of a name out of each
  class, and both IPv6 forms of an IPv4 address; two listed items with two parts, on either side of limits of one, and a
  certificate before, in and after its lifetime.
- Symmetry is used in safety runs only, over sets that are only compared.

### Fairness

`Fetch` and `StartSync` are weakly fair: the cron job runs every five minutes
for ever (`argocd-sync.job.ts:11-26`) and the process restarts. In `HistorySync`
the later steps are strongly fair, because a sync may be abandoned at any time
and started over and such failures are transient; without it one could fail for
ever. In `ArgoSync` weak fairness of a job's progress suffices, as failures are
bounded there. Argo CD and users are never assumed to act.

In `ConnectorAgent` the loop of a running pod goes on (it sleeps 20 s between
rounds, `agent.mjs:500-527`), the deployment starts a pod when it has none, and a
pod that was told to stop does so at the end of its round; each weakly fair.
Troubles are bounded. Operators and the install command may stop at any time. In
`ConnectorPanel` the two timers go on while they are set
(`private-cluster-panel.tsx:89-103`), and requests are handled and answered;
lists that get lost count as changes and end. `MCServices` states no fairness:
its properties are safety.

Both liveness properties of the syncs are checked with one job at a time. With two jobs that
overlap for ever each can delete what the other has just saved, for ever: TLC
shows this livelock, in which no step is unfair. The code relies on jobs not
always overlapping, which five minutes between runs make likely and nothing
enforces.

## 4. Findings

1. `FrozenAfterTerminal` (`AS:530`): two syncs that both read a row before
   either wrote; the later commit overwrites the terminal snapshot.
2. `RevokedStaysRevoked` (`CS:195`): a handler that found the connector before a
   revocation sets its status afterwards. The row is listed as connected; its
   credential is refused all the same.
3. `RotationRevokesCredential` (`CS:196`): an enrollment half-way through a
   rotation stores the credential of a token the rotation closed.
4. `SavedAsChosen` (`AS:322`): a sync over the former connection ends after a
   new one was saved and records the former url beside the new token.
5. `ListedKeepsHistory` (`AS:279`): one failing save makes the same sync remove
   the application and its recorded history.
6. `SucceededKept` (`DH:137`): the "Succeeded" of an older row is overwritten when its
   snapshot is first recorded, even with the failure of an operation on another
   revision, when Argo CD does not say which it applied.

## 5. The proofs

Each `*Proofs` module proves its theorems for every value of the constants that meets
the ASSUMEs of the module (sets of any size, any number of syncs, handlers, pods or
requests, any bounds). The assumptions say that a "no value" is not a value, that sets
which are counted are finite, and that bounds are natural numbers. Four say more.
`MailAssumption`: the settings with which the server may start are settings.
`LimitAssumption`: the agent posts no more applications and projects than the server
takes (`agent.mjs:295-299`, `connector-protocol.ts:7-8`). `TimeAssumption` of
`Metrics`: no deployment is later than now, for the pages' windows have no end.
`RangeAssumption`: days, weeks and ranges have a length.

Every inductive invariant below was first checked by TLC, as an invariant of the run
of its component, and then proved. The specification of a part of `MCServices` or
`MCConnectorAgent` is stated in its proof module (`OrganizationsSpec`, `AgentSpec` and
so on): the part's Init and Next, without the focus, which only composes runs.

The theorems named Serial.. and OneAtATime.. have a premise, `Serial` or `OneAtATime`:
one sync or handler runs at a time. Each is a statement about an instance of the
specification (a set of one worker or slot), which the ASSUMEs allow and
`history_serial` runs; where a finding names the property, the conclusion is false
without it. `UncrossedSaved` has such a premise in the state. For findings 1 to 4
these theorems say what a counterexample takes: an overlap, and nothing less.

*HistorySyncProofs.* `Inv` adds to `TypeOK` that times are those of the clock
(`Timely`), that what a sync fetched was reported then (`ReportedOK`, `SyncOK`) and
that the id of a row carries its revision and time (`RowsOK`). The types say nothing
about where a value came from: a sync that has fetched and not yet committed must
remember that its observation was once live, and a result it took for the live
revision's was reported beside it. From it follow `TypesHold`,
`SnapshotsWereLive` and `ResultsWereObserved`. `SerialKeepsPromise` is the refinement:
if no two syncs run, the copy of the rows a sync holds agrees with the table on the
rows no operator edited (`CopyOK`), so each write is a step of the lifecycle. Without
that premise the theorem is false, by finding 1. `SerialStoresOnce` and
`SerialStandsInOnce` rest on `FactsOK` as well: the entries of a history lie on whole
seconds, so that "less than `MATCH_WINDOW_MS` apart" means "in the same second" and an
entry finds its row again after Argo CD has dropped its neighbours, and they are of
revisions that did succeed (`HistoryOK`); and the stand-in entry of a sync is the only
one it has, made from the row that is there if there is one (`StandInOK`).
`SerialFreezes` is the other side of finding 1: with one sync at a time no terminal
snapshot is changed by a sync. `CopyOK` gives it, and what the merge does to a
terminal row (`TerminalStays`).

*ConnectorProofs.* `Inv` adds that a handler's token is one of its connector's and
used (`HandlerOK`), that no two handlers hold one token (`TokensHeldOnce`), that
absent rows are blank and that enrollments belong to existing rows. `TokenIssuesOnce`
is not inductive alone: two handlers with one token would each draw a credential. Also
proved: `RevocationHolds` (an action property) and `LimitHolds`, by counting handlers
and active rows as finite sets. `AgentsServed` is the refinement of
`CredentialService`, action by action, with one lemma for the steps after which agents
see what they saw before. It needs `ServiceInv`: a revoked row has a date of
revocation, for it is the status that `enroll` asks and the date that authentication
asks. `RotationHolds` and `OpenHolds` say things of connectors with no handler at
work; `QuietOK` is what holds of them while their one handler is between two steps:
all tokens but the newest are used, the credential is the newest's, and a rotation
that has closed the tokens has left none open. `TokensOrdered` gives the newest token
of `OpenHolds` its existence, and `ReadyOK` what the page relies on: a row neither
pending nor revoked has used all its tokens, and so has one whose revocation did both
its writes. `RevokedListed` says that a connector which no two
handlers worked on at once is listed as revoked from the moment it is; `RevokedInv` is
its invariant, of the row and of the one handler that may still write it. From it and
`RotationHolds` follow `OneAtATimeRevokes` and `OneAtATimeRotates`: where one handler
runs at a time nothing is ever overlapped, and what the controller states of
revocation and rotation holds of every connector.

*ArgoSyncProofs.* `Inv` adds which jobs reach the removal and the recording
(`PhaseOK`), that a row on a removal's list has a uid if it is there still
(`StaleOK`), and that every sync that runs uses the chosen connection unless one was
running at the choice (`ConnInv`). `ConnectionAsChosen` needs the last part: the url
that a sync will record is decided when it starts. `UncrossedSaved` puts url and token
together. `LegacyRowsHold` is an action property and needs `StaleOK`: between the
moment rows are found stale and their removal other jobs rewrite rows, and none may
take a uid away. `MirrorHolds` speaks of the end of a sync that ran alone; `MirrorInv`
is the loop invariant that leads there. It partitions the list into what the job is
through with and what is ahead: rows seen are those of the former, with their children
(`SeenOK`), all of the former were seen or failed (`DoneOK`), none of the latter
failed (`AheadOK`), the row at hand holds the item at hand (`RowOK`), and after the
loop the rows with a uid are those seen and those to remove (`StageOK`). It also needs
that no two listed applications share a uid or a key (`Distinct`): a save by key takes
over the row of another application, which must then not be one that was already seen.

*ConnectorAgentProofs.* `AgentInv` says what a pod carries by its place in the round
(`PodOK`), that one pod at most enrolls with a token (`EnrollingOK`), which token an
install command works with (`InstallOK`), and, while no pod was at work when the state
secret was deleted, that all of the cluster is of the installed token (`OfOneToken`)
and that a consumed token is in the hands of a pod (`ConsumedByPod`). The last two
need each other: a token that was consumed by a pod of another command could be
installed again. From it follow `StoredHolds` and `KeptHolds`. `AgentsUseService` is
the other side of `AgentsServed`: all that pods and install commands do to tokens and
credentials is a step of `CredentialService` or none.

`AgentAgreesHolds` is about `Discovery`. For its half on settings (`CreatedStarts`)
the invariant is that the settings passed the server's checks at some time before
(`SettingsOK`). The half on imports has an invariant of types only (`ListsOK`: lists
of any length, each document with a history and messages of any length); the work is
in what the operators return: `MapsHistory` (every usable entry, newest first),
`MapsSignals` (every message once, blank ones left out), `MapsDocument`, and
`ImportsTheSame`, which splits on the answers the agent misses.

*OrderingProofs.* What several proofs take from. An induction theorem of the library
takes a predicate, which no prover here can instantiate; an induction on a *set* needs
none. `SmallestSet` and `SmallestNumber` say that a family of subsets of a finite set,
or a set of numbers, has a least member, from the library's well-founded order; `UpTo`
is induction over the numbers up to a bound, `Loops` that a loop over them defines a
function. With these a recursive function and a fold of the community modules can be
reasoned about. `Ordered` shows that `InOrder` lists every member of a set once, in
the order: ranks are an injection between finite sets of one size, hence onto.
`Selects` follows for filters. `PartsAddUp` is for sums: the sizes of the parts of a
finite set add up to its own.

*MetricsProofs.* The invariant is that the list holds records, newest first
(`MetricsInv`); TLC checks the figures of short lists, the theorems are of all.
`TrendMatchesHolds` needs that every deployment in the window falls in one bar
(`OneWeek`, `DaysInOrder`); then `PartsAddUp` adds the bars up. `PanelsAgreeHolds`
follows from what the definitions of API and pages return: the classifiers agree on
every record, also one without result or health (`SameOutcome`), the newest deployment is found in three ways
(`NewestIsFirst`, `NewerIsNewest`, `NewestComesFirst`), counts by application and by
card add up (`FiguresAddUp`, `CardsAddUp`). Times to recover are two recursive
functions over the list: `SameRestores` relates them step by step when no failure and
success have one time, and `FewerRestores` in general, with an accumulator of the one
that is never behind that of the other.

*UsersProofs, of organizations.* `IsolationHolds` needs that what a request holds
between its queries is its own user's organization, committed before it is used
(`RequestOK`), and that a project in an organization is in its owner's (`ProjectsOK`).
`OneHomeHolds` counts: memberships of a user and requests that will add one are no
more than the requests that run at once (`FirstsBounded`), because a request becomes a
first one only when it finds none committed.

*UsersProofs, of billing.* `BillingInv` says that the newest event tells what Stripe
has (`StripeOK`), and of a handler that works alone that the user's row is already
what its event makes of it (`HandlersOK`): between the two updates the rows disagree,
and this is what makes them agree after the second. `StripeFollowed` and `PlansHold`
follow when no handler is left.

*UsersProofs, of accounts.* `LinkHolds` counts unused tokens together with the issues
that have closed the tokens and not created theirs (`LinksBounded`), and says of
issues that did not meet that nothing is unused but the newest (`IssuesApart`).
`LimitedHolds` needs where the mail of an unused token is (`MailOf`), and that a
server without mail settings has no issue at work and has sent nothing (`MailOK`).

*ServicesProofs.* `NoticesHold` counts the notifications of a kind with the requests
that found none and will create one (`CopiesBounded`). `ReachHolds` needs that the
addresses a call is pinned to were checked and that a call past its check has a URL
that passes (`CallChecked`): a connect stores it later. `AddressAssumption` says that
only what is written as IPv6 has a second form. `AnswersHold` needs that a
request whose answer will be taken asks for the selected application (`LiveOK`), and
that before the workspace has arrived nothing is selected or asked for. `PageFits` has
an invariant of types only; its proof is about the functions: the scores of the two
sides before rounding and clamping differ by fixed amounts (`RiskApart`,
`StabilityApart`), and rounding and clamping keep these (`RoundedHundreds`,
`ClampedApart`).

*A finding about the model.* Some definitions wrote first-match rules of the code as
CASE with guards that overlap, which TLA+ leaves open (any arm whose guard holds may
be taken) though TLC takes the first. Nothing could be proved of them, rightly. They
are IF .. ELSE IF now, in the order of the code: `classifyDeployment` and its copies,
`matchFinding`, `situationFor`, `displayStatus`, `validateArgoServerUrl` and others.
The runs show what they showed before.

Only model-checked:

- Liveness: `EventuallyCaughtUp`, `EventuallyMirrors`, `InstallEnrolls`, `Reconnects`,
  `CatchesUp`. Fairness and ENABLED are outside the prover's reach.
- The properties of the runs that expect a violation, which are false.

## 6. Not modelled, and why

- Cryptography, HTML, templates and the wording of messages: data and I/O. A
  fetched application is a member of `Observation` in `HistorySync`, a document of
  a few fields in `Discovery`.
- Roles and controllers: guards and plumbing in front of the handlers.
- Checkout, portal and cancellation (`BS`): `assertPaymentsOpen` throws while
  `PAYMENTS_ENABLED` is false. The caps of the free plan, lifted by
  `PUBLIC_LAUNCH` (`billing/plan.ts:13`, `:52`).
- The users service: single updates of a row nobody else writes. Project rows
  are only added; the debug endpoints only read.
- The removal of an application as seen by `HistorySync`, which follows one that
  stays listed and whose saves succeed; `ArgoSync` has the removal, and its run
  `argosync_history` shows what it means for the history. Deployments or
  environments that users create or delete by hand beside a sync.
- The cron job's loop over organizations (`AS:56-118`): `ArgoSync` has one
  organization, and `ArgoClient` has which connection the job uses for one, if any.
  An organization without a member is skipped too.
- `CONNECTOR_IMAGE` of a wrong form, with which `create` throws after it has
  inserted the row (`CS:92`, `:329`): a setting of the deployment, not of a user.
- The range tables of addresses entry by entry: an address is public when they list
  it nowhere, except for IPv4 addresses in IPv6 form, which are modelled.
- Host names such as 10.example.com, which the form takes for private addresses
  and the server does not; time zones and daylight saving in the series; and
  numbers after formatting.
- Connector names that end in punctuation: they pass the server, and Kubernetes
  refuses the manifest they become a label in (`CP:211`). `AgentAgrees` leaves
  them out by name.
- The remaining pages, the application's details page among them, render what the
  API returns; terms, privacy and styling. The Kubernetes and Argo CD manifests.

One comment of the code is narrower than the code: `frontend/src/lib/metrics.ts:150`
says health classifies a deployment only when it has no result; a result of
Running is classified by health too, there and in the API. `Metrics` does as the
code does.

## 7. Plan

Every invariant and every action property that a passing run checks is the conclusion of
a theorem. What is left:

1. `ConnectorPanel`: safety of what its polls show, which has only `CatchesUp` now.
2. The positive side of finding 5: under which interleavings a listed application keeps
   its rows, with one server and no failed save.
3. Proofs of the liveness properties, when the prover has ENABLED.
4. The details page of an application and the users service, if they come to hold
   state of their own.
