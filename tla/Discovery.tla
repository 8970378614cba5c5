----------------------------- MODULE Discovery ------------------------------
(***************************************************************************)
(* How what Argo CD lists becomes what is imported, over either path: the   *)
(* server reads it (argocd.service.ts), or a connector's agent reads it,    *)
(* within limits of its own, and posts it to a server that checks it again  *)
(* (agent.mjs, connector-protocol.ts, connectors.service.ts).  Both end in  *)
(* the mapping of argo-application.ts.  And the settings of a connector,     *)
(* which the server checks when it is created and the agent when it starts. *)
(*                                                                         *)
(* An item of a list is a document: whether it is an object and has a name, *)
(* the records of its history, when its operation finished, and what its    *)
(* health, operation, conditions and resources say.  Size counts the        *)
(* characters of the lists, of which names and whitespace are no part.      *)
(***************************************************************************)
EXTENDS Ordering

CONSTANTS
  MAX_APPLICATIONS, MAX_PROJECTS, MAX_CHARS,             \* of the server
  AGENT_APPLICATIONS, AGENT_PROJECTS, MAX_BODY_CHARS,    \* of the agent
  LastInstant, Signal, Blank,
  MaxItems, MaxParts    \* bounds on the documents, and on the parts of their histories and signals

\* The agent's own limits are the server's (agent.mjs readArgo, connector-protocol.ts 7-8).
ASSUME LimitAssumption ==
  /\ MAX_APPLICATIONS \in Nat /\ AGENT_APPLICATIONS \in 0..MAX_APPLICATIONS
  /\ MAX_PROJECTS \in Nat /\ AGENT_PROJECTS \in 0..MAX_PROJECTS
ASSUME MomentAssumption == LastInstant \in Nat

VARIABLES
  applicationList, projectList,  \* the answers of Argo CD: shape, items
  size,
  settings,                \* of the connector, once it is created
  now

discoveryVars == <<applicationList, projectList, size, settings, now>>

Moment == 0..LastInstant
NoTime == -1
Entry == [deployedAt : Moment, revision : {TRUE}]
           \cup {[deployedAt |-> NoTime, revision |-> TRUE], [deployedAt |-> 0, revision |-> FALSE]}
Document == [object : {TRUE}, name : {TRUE}, finished : {NoTime, 1}, history : {<<>>}, said : {<<>>}]
              \cup {[object |-> o, name |-> FALSE, finished |-> NoTime, history |-> <<>>, said |-> <<>>] :
                     o \in BOOLEAN}
Shape == {"items", "null", "array", "Items", "single"}

DiscoveryInit ==
  /\ applicationList \in [shape : Shape, items : {<<>>}]
  /\ projectList = [shape |-> "items", items |-> <<>>]
  /\ size \in {MAX_CHARS, MAX_CHARS + 1, MAX_BODY_CHARS, MAX_BODY_CHARS + 1}
  /\ settings = {}
  /\ now = 0

-----------------------------------------------------------------------------
(* Argo CD's data. *)

Items(answer, kinds) == IF answer.shape \in kinds THEN answer.items ELSE <<>>
Parts == LET items == applicationList.items
         IN  SumFunction([i \in DOMAIN items |-> Len(items[i].history) + Len(items[i].said)])

AddsApplication ==
  /\ Len(applicationList.items) < IF applicationList.shape = "single" THEN 1 ELSE MaxItems
  /\ applicationList.shape # "null"
  /\ \E d \in Document : applicationList' = [applicationList EXCEPT !.items = Append(@, d)]
  /\ UNCHANGED <<projectList, size, settings, now>>

AddsProject ==
  /\ Len(projectList.items) < MaxItems /\ Parts = 0
  /\ \E named \in BOOLEAN :
       projectList' = [projectList EXCEPT !.items = Append(@, [object |-> TRUE, name |-> named])]
  /\ UNCHANGED <<applicationList, size, settings, now>>

Deploys ==
  /\ Parts < MaxParts
  /\ \E i \in DOMAIN applicationList.items, e \in Entry :
       applicationList' = [applicationList EXCEPT !.items[i].history = Append(@, e)]
  /\ UNCHANGED <<projectList, size, settings, now>>

Says ==
  /\ Parts < MaxParts
  /\ \E i \in DOMAIN applicationList.items, s \in Signal :
       applicationList' = [applicationList EXCEPT !.items[i].said = Append(@, s)]
  /\ UNCHANGED <<projectList, size, settings, now>>

-----------------------------------------------------------------------------
(* The mapping of both paths. *)

UsableEntries(entries) == {n \in DOMAIN entries : entries[n].deployedAt # NoTime /\ entries[n].revision}

\* Newest first; records of one moment stay in their order.
mapHistory(entries) ==
  LET deployed == [n \in DOMAIN entries |-> entries[n].deployedAt]
  IN  Arranged(entries, InOrder(UsableEntries(entries), Descending(UsableEntries(entries), deployed)))

\* Each message where it is first said.
mapSignals(said) ==
  Selected(said, {n \in DOMAIN said : said[n] \notin Blank /\ \A m \in 1..(n - 1) : said[m] # said[n]})

mapArgoApplication(d) ==
  LET history == mapHistory(d.history)
  IN  [finished |-> d.finished, history |-> history, signals |-> mapSignals(d.said),
       lastObservedAt |-> IF d.finished # NoTime THEN d.finished
                          ELSE IF history # <<>> THEN history[1].deployedAt ELSE NoTime]

Readable(items) == Selected(items, {i \in DOMAIN items : items[i].object /\ items[i].name})
Mapped(items) ==
  LET readable == Readable(items) IN [i \in DOMAIN readable |-> mapArgoApplication(readable[i])]

-----------------------------------------------------------------------------
(* The direct path. *)

extractArgoItems(answer) == Items(answer, {"items", "array", "Items", "single"})
listApplications == Mapped(extractArgoItems(applicationList))
listProjects == Len(Readable(extractArgoItems(projectList)))

(* The connector's. *)

\* MUTANT: a bare list is not taken for one.
itemsOfItems(answer) == Items(answer, {"items"})

itemsOf(answer) == Items(answer, {"items", "array"})

\* What the agent posts; nothing when it reports an error instead.
readArgo ==
  IF size > MAX_BODY_CHARS \/ Len(itemsOf(applicationList)) > AGENT_APPLICATIONS
       \/ Len(itemsOf(projectList)) > AGENT_PROJECTS
    THEN {} ELSE {[applications |-> itemsOf(applicationList), projects |-> itemsOf(projectList)]}

TooMany(snapshot) ==
  Len(snapshot.applications) > MAX_APPLICATIONS \/ Len(snapshot.projects) > MAX_PROJECTS
Unreadable(snapshot) ==
  \/ \E i \in DOMAIN snapshot.applications : ~snapshot.applications[i].object
  \/ size > MAX_CHARS

assertSnapshotShape(snapshot) == ~TooMany(snapshot) /\ ~Unreadable(snapshot)

importDiscovered(snapshot) ==
  [applications |-> Mapped(snapshot.applications), projects |-> Len(Readable(snapshot.projects))]

Nothing(saved, snapshot) ==
  /\ snapshot.applications \o snapshot.projects # <<>>
  /\ saved.applications = <<>> /\ saved.projects = 0

\* What the connector's page shows after the round: what was imported, or an error.
Imported ==
  {importDiscovered(s) : s \in {s \in readArgo :
     assertSnapshotShape(s) /\ ~Nothing(importDiscovered(s), s)}}

-----------------------------------------------------------------------------
(* The settings. *)

Certificate == [x509 : BOOLEAN, ca : BOOLEAN, selfSigned : BOOLEAN, from : Moment, to : Moment]
Pem == [key : BOOLEAN, blocks : {<<>>} \cup {<<c>> : c \in Certificate}]
NameKind == {"none", "plain", "ends in punctuation", "of other characters"}
UrlKind == {"https", "http", "with credentials", "metadata", "not a URL"}

assertCaCertificate(pem, at) ==
  /\ ~pem.key /\ pem.blocks # <<>>
  /\ \A i \in DOMAIN pem.blocks : LET c == pem.blocks[i] IN c.x509 /\ c.ca /\ c.from <= at /\ c.to > at

\* The agent takes a self-signed certificate for an anchor too.
validateCaPem(pem, at) ==
  /\ ~pem.key /\ pem.blocks # <<>>
  /\ \A i \in DOMAIN pem.blocks :
       LET c == pem.blocks[i] IN c.x509 /\ (c.ca \/ c.selfSigned) /\ c.from <= at /\ c.to > at

assertClusterArgoUrl(kind) == kind = "https"
assertConnectorName(name) == name # "of other characters"
publicApiUrl(kind) == kind \in {"https", "metadata"}
assertHttpsUrl(kind) == kind \in {"https", "metadata"}

\* renderManifest's label of the pod: the name with hyphens for spaces, and its end as it is.
Label(name) == IF name = "ends in punctuation" THEN "no label value" ELSE "label value"

\* create, with the service's own URL from the environment and perhaps a certificate.
Create ==
  /\ settings = {}
  /\ \E name \in NameKind, argo, api \in UrlKind, ca \in {{}} \cup {{pem} : pem \in Pem} :
       /\ assertConnectorName(name) /\ assertClusterArgoUrl(argo) /\ publicApiUrl(api)
       /\ \A pem \in ca : assertCaCertificate(pem, now)
       /\ settings' = {[label |-> Label(name), argoUrl |-> argo, apiUrl |-> api, ca |-> ca]}
  /\ UNCHANGED <<applicationList, projectList, size, now>>

Passes ==
  /\ now < LastInstant /\ now' = now + 1
  /\ UNCHANGED <<applicationList, projectList, size, settings>>

\* Kubernetes takes the manifest, and the agent's main goes on to its first round.
AgentStarts(s) ==
  s.label = "label value" /\ assertHttpsUrl(s.apiUrl) /\ assertHttpsUrl(s.argoUrl) /\ \A pem \in s.ca : validateCaPem(pem, now)

Expired(s) == \E pem \in s.ca : \E i \in DOMAIN pem.blocks : pem.blocks[i].to <= now

\* The documents matter only before, and the clock only after, a connector is created.
DiscoveryNext ==
  \/ settings = {} /\ now = 0 /\ (AddsApplication \/ AddsProject \/ Deploys \/ Says)
  \/ applicationList.items = <<>> /\ projectList.items = <<>> /\ (Create \/ Passes)

-----------------------------------------------------------------------------
\* Lists that the direct path reads and the agent takes for empty (agent.mjs 256-260,
\* argo-application.ts 37-45): under Items, or one application by itself.
MissedByAgent == applicationList.shape \in {"Items", "single"}

\* Unless the connector shows an error, both paths import the same projects of one answer
\* of Argo CD, and the same applications, except of an answer whose list the agent misses:
\* of that the direct path imports the applications and the agent none, and the
\* connector's page shows connected with nothing received.  The agent posts nothing that
\* the server refuses for its number, so an error is for the size, an item that is no
\* object, or a list with nothing to read.  The history imported has every usable record,
\* newest first, and no signal twice.
SameImport ==
  /\ \A saved \in Imported :
       saved = [applications |-> IF MissedByAgent THEN <<>> ELSE listApplications,
                projects |-> listProjects]
  /\ MissedByAgent /\ projectList.items = <<>> /\ ~(size > MAX_CHARS \/ size > MAX_BODY_CHARS) =>
       Imported = {[applications |-> <<>>, projects |-> 0]}
  /\ \A s \in readArgo : ~TooMany(s)
  /\ \A i \in DOMAIN listApplications :
       LET a == listApplications[i]
           d == Readable(applicationList.items)[i]
       IN  /\ \A m, n \in DOMAIN a.history : m < n => a.history[m].deployedAt >= a.history[n].deployedAt
           /\ Len(a.history) =
                Cardinality({n \in DOMAIN d.history : d.history[n].deployedAt # NoTime
                                                      /\ d.history[n].revision})
           /\ \A n \in DOMAIN a.history : a.finished = NoTime => a.lastObservedAt >= a.history[n].deployedAt
           /\ IsInjective(a.signals) /\ Range(a.signals) = Range(d.said) \ Blank

\* The agent of a connector that could be created starts, whatever certificate it was
\* given, until that certificate expires; but a name that ends in punctuation makes a
\* manifest that Kubernetes refuses.
StartsAsCreated == \A s \in settings : s.label # "label value" \/ Expired(s) \/ AgentStarts(s)

\* The agent and the server are separate programs that read the same data and check the
\* same settings, each with limits and validations of its own: what the two paths tell
\* differs for the answers the agent misses and for no other, and no difference keeps a
\* connector from starting.
AgentAgrees == SameImport /\ StartsAsCreated
=============================================================================
