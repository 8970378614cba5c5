----------------------------- MODULE ArgoClient -----------------------------
(***************************************************************************)
(* The server as a client of an organization's Argo CD: which connection a  *)
(* call uses (integrations.service.ts), where its requests go (argo-url.ts, *)
(* argocd.service.ts), and the form a user connects with (lib/argo.ts,      *)
(* integrations/page.tsx).                                                 *)
(*                                                                         *)
(* A call checks its URL, resolves the name once, and pins its requests to  *)
(* the addresses it found; the name's owner changes them at any time.       *)
(* One call: calls share only the Integration row, whose races are          *)
(* ArgoSync's.                                                             *)
(*                                                                         *)
(* A host is an address, the organization's name, or a name that the code   *)
(* knows: "local" (localhost), "service" (of a cluster) or "internal".      *)
(* Of the addresses, "private" ones are known as such in the browser too.   *)
(* An IPv4 address may come in IPv6 form: "hex" (::ffff:a00:5), which is how *)
(* URL writes it whatever was typed, or "dotted" (::ffff:10.0.0.5), which is *)
(* how a lookup returns it.                                                 *)
(***************************************************************************)
EXTENDS FiniteSets, Naturals

CONSTANTS
  Address,      \* a set of [kind : {"public", "private", "reserved", "metadata"}, family : {4, 6},
                \*           form : {"plain", "hex", "dotted"}]
  MaxRecords    \* bound on the addresses of the name

\* Only what is written as IPv6 has another form.
ASSUME AddressAssumption == \A a \in Address : a.family = 4 => a.form = "plain"

VARIABLES
  production,   \* NODE_ENV
  environment,  \* ARGOCD_ENV_FALLBACK, and whether ARGOCD_URL and ARGOCD_TOKEN are usable
  dns,          \* the addresses of the name
  row,          \* the Integration row: none, or its URL, and whether its token can be used
  call

clientVars == <<production, environment, dns, row, call>>

Name(kind) == [kind |-> kind, family |-> 0]
KnownName == {Name("local"), Name("service"), Name("internal")}
TheName == Name("the organization's")
Url == [https : BOOLEAN, userinfo : BOOLEAN,
        host : KnownName \cup {TheName} \cup {a \in Address : a.form # "dotted"}]
NamedUrl == [https |-> TRUE, userinfo |-> FALSE, host |-> TheName]
Token == {"stored", "undecryptable", "none"}
NoCall == [op |-> "none", at |-> "over", url |-> NamedUrl, pinned |-> {}, seen |-> {}, told |-> "none"]
Records == {s \in SUBSET {a \in Address : a.form # "hex"} : Cardinality(s) <= MaxRecords}

ClientInit ==
  /\ production \in BOOLEAN
  /\ environment \in [switch : {"true", "false", "unset"}, usable : {TRUE}] \cup
                     [switch : {"unset"}, usable : {FALSE}]
  /\ dns \in Records
  /\ row = {}
  /\ call = NoCall

-----------------------------------------------------------------------------
(* Where a request may go. *)

\* The tables list plain addresses.  Only the second reads another form, and what it finds
\* behind ::ffff: in hex is not four numbers to it, and so public.
isMetadataAddress(a) == a.form = "plain" /\ a.kind = "metadata"
isNonPublicAddress(a) == a.form # "hex" /\ a.kind # "public"
Refused(a) == isMetadataAddress(a) \/ (production /\ isNonPublicAddress(a))
isBlockedHostname(host) == host \in KnownName

\* The addresses a call may use, none when it is refused.
assertSafeArgoUrl(url) ==
  LET addresses == IF url.host = TheName THEN dns ELSE {url.host}
  IN  IF ~url.https \/ url.userinfo \/ isBlockedHostname(url.host) THEN {}
      ELSE IF \E a \in addresses : Refused(a) THEN {} ELSE addresses

\* MUTANT: the name is resolved again for the connection.
LookupAnew(addresses, family) ==
  {a \in IF call.url.host = TheName THEN dns ELSE addresses : family \in {0, a.family}}

\* The lookup of a connection, of one family or of any.
createPinnedLookup(addresses, family) ==
  IF \E a \in addresses : Refused(a) THEN {} ELSE {a \in addresses : family \in {0, a.family}}

\* What a user is told of an answer that is not a success, and of a connection that failed.
describeArgoHttpStatus(status, resource) ==
  CASE status = 302 -> "redirects"
    [] status = 401 -> "token rejected"
    [] status = 403 -> IF resource = "projects" THEN "cannot list projects" ELSE "cannot list applications"
    [] status = 404 -> "no API"
    [] OTHER -> "status"

describeArgoTransportError(code) ==
  CASE code = "CERT_HAS_EXPIRED" -> "certificate expired"
    [] code = "SELF_SIGNED_CERT_IN_CHAIN" -> "certificate not trusted"
    [] code = "ERR_TLS_CERT_ALTNAME_INVALID" -> "certificate name"
    [] code \in {"ETIMEDOUT", "UND_ERR_CONNECT_TIMEOUT"} -> "no answer in time"
    [] code = "ENOTFOUND" -> "not resolved"
    [] code = "ECONNREFUSED" -> "no connection"
    [] OTHER -> "not reached"

Status == {200, 302, 401, 403, 404, 500}
Code == {"CERT_HAS_EXPIRED", "SELF_SIGNED_CERT_IN_CHAIN", "ERR_TLS_CERT_ALTNAME_INVALID",
         "ETIMEDOUT", "ENOTFOUND", "ECONNREFUSED", "EPIPE"}

-----------------------------------------------------------------------------
(* Which connection a call uses. *)

devFallbackEnabled ==
  environment.switch = "true" \/ (environment.switch = "unset" /\ ~production)

\* A connection is a URL with the token that goes with it, the row's or the environment's,
\* and none is {}.  The environment's URL names the same host.
fallbackConnection ==
  IF devFallbackEnabled /\ environment.usable THEN {[url |-> NamedUrl, of |-> "environment"]} ELSE {}

connectionFromRow == {[url |-> r.url, of |-> "row"] : r \in {s \in row : s.token = "stored"}}
undecryptable == \E r \in row : r.token = "undecryptable"

\* Of a request; a token that cannot be decrypted counts as none.
getArgoConnection == IF connectionFromRow # {} THEN connectionFromRow ELSE fallbackConnection

\* Of a sync that a user starts.
connectionForOrganization ==
  IF undecryptable \/ connectionFromRow = {} THEN fallbackConnection ELSE connectionFromRow

\* Of the job, when other organizations have rows or not.  Any row ends the fallback of all.
syncAllOrganizationsFromEnv == fallbackConnection

syncAllConnected(others) ==
  IF row = {} THEN IF others THEN {} ELSE syncAllOrganizationsFromEnv
  ELSE IF undecryptable THEN {}
  ELSE IF connectionFromRow # {} THEN connectionFromRow ELSE fallbackConnection

\* Whether a snapshot tries the sync of an organization without applications.
hasCreds == (\E r \in row : r.token # "none") \/ fallbackConnection # {}

\* The Argo CD entry of the list.
listsConnected == row # {} \/ fallbackConnection # {}

Begins(op, url) ==
  /\ call.at = "over"
  /\ call' = [NoCall EXCEPT !.op = op, !.at = "check", !.url = url]

Ends(told) == call' = [NoCall EXCEPT !.told = told]
Succeeds(a) == call' = [NoCall EXCEPT !.pinned = call.pinned, !.seen = call.seen \cup {a}]

\* POST test and connect; the request body may hold any URL.
Test(url) == Begins("test", url) /\ UNCHANGED <<production, environment, dns, row>>

Connect(url) == Begins("connect", url) /\ UNCHANGED <<production, environment, dns, row>>

\* listApplications, listProjects and getApplication: one request each, after a check of its own.
List ==
  /\ \E c \in getArgoConnection : Begins("list", c.url)
  /\ UNCHANGED <<production, environment, dns, row>>

Disconnect ==
  /\ row' = {}
  /\ UNCHANGED <<production, environment, dns, call>>

-----------------------------------------------------------------------------
safeDestination ==
  /\ call.at = "check"
  /\ LET addresses == assertSafeArgoUrl(call.url)
     IN  IF addresses = {} THEN Ends("destination refused")
         ELSE call' = [call EXCEPT !.at = "applications", !.pinned = addresses]
  /\ UNCHANGED <<production, environment, dns, row>>

\* The first request of a test or connect; the only one of a list.
RequestApplications ==
  /\ call.at = "applications"
  /\ \E family \in {0, 4, 6} : \E a \in createPinnedLookup(call.pinned, family), status \in Status :
       IF status # 200 THEN Ends(describeArgoHttpStatus(status, "applications"))
       ELSE IF call.op = "list" THEN Succeeds(a)
       ELSE call' = [call EXCEPT !.at = "projects", !.seen = {a}]
  /\ UNCHANGED <<production, environment, dns, row>>

\* The second, to the same addresses; connect then stores what was tested.
RequestProjects ==
  /\ call.at = "projects"
  /\ \E family \in {0, 4, 6} : \E a \in createPinnedLookup(call.pinned, family), status \in Status :
       /\ IF status = 200 THEN Succeeds(a) ELSE Ends(describeArgoHttpStatus(status, "projects"))
       /\ row' = IF status = 200 /\ call.op = "connect" THEN {[url |-> call.url, token |-> "stored"]}
                 ELSE row
  /\ UNCHANGED <<production, environment, dns>>

RequestFails ==
  /\ call.at \in {"applications", "projects"}
  /\ \E code \in Code : Ends(describeArgoTransportError(code))
  /\ UNCHANGED <<production, environment, dns, row>>

\* The name's owner gives it other addresses.
NameChanges ==
  /\ dns' \in Records \ {dns}
  /\ UNCHANGED <<production, environment, row, call>>

\* The server's key is another one, or the old one again.
KeyChanges ==
  /\ \E r \in row : r.token # "none" /\ row' =
       {[r EXCEPT !.token = IF @ = "stored" THEN "undecryptable" ELSE "stored"]}
  /\ UNCHANGED <<production, environment, dns, call>>

\* A sync ends: it stores the URL it used, beside whatever token there is.
SyncUpserts ==
  /\ \E c \in connectionForOrganization \cup UNION {syncAllConnected(others) : others \in BOOLEAN} :
       row' = IF row = {} THEN {[url |-> c.url, token |-> "none"]}
              ELSE {[r EXCEPT !.url = c.url] : r \in row}
  /\ UNCHANGED <<production, environment, dns, call>>

ClientNext ==
  \/ \E url \in Url : Test(url) \/ Connect(url)
  \/ List \/ Disconnect
  \/ safeDestination \/ RequestApplications \/ RequestProjects \/ RequestFails
  \/ NameChanges \/ KeyChanges \/ SyncUpserts

-----------------------------------------------------------------------------
\* The form of the Integrations page asks the server only about URLs without a problem.  It goes
\* by how the host begins: of names such as 10.example.com, which it refuses and the server
\* does not, there is none here.
validateArgoServerUrl(url) ==
  IF ~url.https THEN "https"
  ELSE IF url.host \in {Name("local"), Name("service")} THEN "unreachable name"
  ELSE IF url.host \in Address /\ url.host.family = 4 /\ url.host.kind \in {"private", "metadata"}
    THEN "private address"
  ELSE "none"

\* A request, a sync that a user starts and the job find one connection, each on its own.
\* The job alone passes over an organization whose token cannot be decrypted and, while
\* others have rows, one without a row: the environment serves these on request only.
OneConnection ==
  /\ connectionForOrganization = getArgoConnection
  /\ \A others \in BOOLEAN : syncAllConnected(others) =
       IF undecryptable \/ (row = {} /\ others) THEN {} ELSE getArgoConnection
  /\ getArgoConnection # {} => hasCreds

\* Whatever becomes of the name while a call runs, all its requests go to addresses that
\* the name had at the one moment it was checked: in production public ones, except for an IPv4
\* address that the URL has in IPv6 form, and nowhere a metadata service that is not in IPv6
\* form.  The row holds only a URL that passed; what the list calls disconnected
\* has no connection a sync would use, and all who use one use the same; and in production
\* the form refuses no URL that the server would accept.
ReachesChecked ==
  /\ call.seen \subseteq call.pinned
  /\ \A a \in call.seen : /\ (a.kind = "metadata" => a.form # "plain")
                           /\ (production /\ a.kind # "public" => a.form = "hex")
  /\ \A r \in row : r.url.https /\ ~r.url.userinfo /\ r.url.host \notin KnownName
  /\ getArgoConnection # {} => listsConnected
  /\ OneConnection
  /\ production /\ call.at = "check" /\ validateArgoServerUrl(call.url) # "none" =>
       assertSafeArgoUrl(call.url) = {}
=============================================================================
