------------------------------ MODULE Analysis ------------------------------
(***************************************************************************)
(* The analysis of one application: the finding, the scores and the advice  *)
(* of the server (analysis-engine.ts, ai-analysis.service.ts), and what the *)
(* page of deployment intelligence makes of them and of the rows and events *)
(* it loads itself (lib/intelligence.ts, deployment-intelligence-panel.tsx). *)
(*                                                                         *)
(* The code searches a text for phrases; the model has the set of phrases   *)
(* found.  Stored events are read by both sides; what Argo CD says when it   *)
(* is asked, by the server alone.  Causes, fixes and situations go by short  *)
(* names.  Divisions round as Math.round and toFixed(1) do.                 *)
(***************************************************************************)
EXTENDS Naturals, FiniteSets

CONSTANTS
  MaxRows,       \* bound on the stored deployments
  MaxPhrases     \* bound on the phrases found in events

VARIABLES
  argo,      \* health and sync of the application, live or stored
  said,      \* the phrases of its stored events
  live,      \* the phrases only the answer of Argo CD has
  outcomes   \* how many of its stored deployments are success, failed, unknown

analysisVars == <<argo, said, live, outcomes>>

ImagePull == {"imagepullbackoff", "errimagepull", "failed to pull image"}
Deadline == {"progressdeadlineexceeded", "exceeded its progress deadline"}
SyncTrouble == {"syncerror"}
Phrase == ImagePull \cup Deadline \cup SyncTrouble \cup {"crashloopbackoff", "failedscheduling"}

HealthStatus == {"Healthy", "Progressing", "Degraded", "Missing", "Unknown"}
SyncStatus == {"Synced", "OutOfSync", "Unknown"}
Outcome == {"success", "failed", "unknown"}

AnalysisInit ==
  /\ argo = [health |-> "Unknown", sync |-> "Unknown"]
  /\ said = {} /\ live = {}
  /\ outcomes = [o \in Outcome |-> 0]

deploymentCount == outcomes["success"] + outcomes["failed"] + outcomes["unknown"]

\* Argo CD is asked; when it does not answer, the stored status stands and nothing is added.
\* (Every analysis asks anew and keeps nothing: one answer stands for all.)
ArgoAnswers ==
  /\ argo = [health |-> "Unknown", sync |-> "Unknown"] /\ live = {}
  /\ \E h \in HealthStatus, s \in SyncStatus : argo' = [health |-> h, sync |-> s]
  /\ \E p \in Phrase : live' \in {{}, {p}}
  /\ UNCHANGED <<said, outcomes>>

EventStored ==
  /\ Cardinality(said) < MaxPhrases
  /\ \E p \in Phrase : said' = said \cup {p}
  /\ UNCHANGED <<argo, live, outcomes>>

DeploymentStored ==
  /\ deploymentCount < MaxRows
  /\ \E o \in Outcome : outcomes' = [outcomes EXCEPT ![o] = @ + 1]
  /\ UNCHANGED <<argo, said, live>>

AnalysisNext == ArgoAnswers \/ EventStored \/ DeploymentStored

-----------------------------------------------------------------------------
(* The server. *)

Round(n, d) == (2 * n + d) \div (2 * d)
Clamped(n) == IF n > 100 THEN 100 ELSE n

corpus == said \cup live

\* More than one kind of pull error is stronger evidence than one.
imagePullEvidence == IF Cardinality(corpus \cap ImagePull) > 1 THEN 90 ELSE 85

\* The first that matches, of a crash of the workload.
matchWorkload ==
  IF corpus \cap ImagePull # {}
    THEN {[cause |-> "image pull", fix |-> "image", confidence |-> imagePullEvidence]}
  ELSE IF "crashloopbackoff" \in corpus THEN {[cause |-> "crash", fix |-> "logs", confidence |-> 85]}
  ELSE IF corpus \cap Deadline # {} THEN {[cause |-> "deadline", fix |-> "deadline", confidence |-> 85]}
  ELSE IF "failedscheduling" \in corpus THEN {[cause |-> "scheduling", fix |-> "node", confidence |-> 85]}
  ELSE {}

syncOperationFailed == argo.sync # "Synced" /\ corpus \cap SyncTrouble # {}

matchFinding ==
  IF matchWorkload # {} THEN CHOOSE w \in matchWorkload : TRUE
  ELSE IF argo.health = "Missing" THEN [cause |-> "missing", fix |-> "path", confidence |-> 90]
  ELSE IF syncOperationFailed THEN [cause |-> "sync failed", fix |-> "operation", confidence |-> 80]
  ELSE IF argo.sync = "OutOfSync" THEN [cause |-> "differs", fix |-> "diff", confidence |-> 80]
  ELSE IF argo.health = "Degraded"
    THEN [cause |-> "unhealthy", fix |-> "resources",
          confidence |-> IF argo.sync = "Synced" THEN 65 ELSE 70]
  ELSE IF argo.health = "Unknown" THEN [cause |-> "no health", fix |-> "exists", confidence |-> 55]
  ELSE [cause |-> "none", fix |-> "inspect", confidence |-> 40]

Risk(failed, count, phrases) ==
  Clamped(
    (CASE argo.health = "Missing" -> 45 [] argo.health = "Degraded" -> 35
       [] argo.health = "Progressing" -> 15 [] OTHER -> 0)
    + (IF argo.sync = "OutOfSync" THEN 20 ELSE 0)
    + (IF count > 0 THEN Round(30 * failed, count) ELSE 0)
    + IF phrases \cap {"imagepullbackoff", "crashloopbackoff", "failedscheduling",
                       "progressdeadlineexceeded"} # {} THEN 15 ELSE 0)

Stability(succeeded, count, risk) ==
  Clamped(Round(Round(1000 * succeeded, count) * 7 + (100 - risk) * 30, 100))

scoreRisk == Risk(outcomes["failed"], deploymentCount, corpus)

scoreStability ==
  IF deploymentCount > 0 THEN Stability(outcomes["success"], deploymentCount, scoreRisk)
  ELSE IF argo = [health |-> "Healthy", sync |-> "Synced"] THEN 70 ELSE 40

recommendationsFor ==
  {matchFinding.fix}
  \cup (IF deploymentCount = 0 THEN {"no history"}
        ELSE IF outcomes["failed"] > 0 THEN {"failed or degraded"} ELSE {})
  \cup (IF said = {} THEN {"no events"} ELSE {})
  \cup IF argo = [health |-> "Healthy", sync |-> "Synced"] /\ outcomes["failed"] = 0
         THEN {"no active failure"} ELSE {}

-----------------------------------------------------------------------------
(* The page, of all time and of every namespace. *)

\* MUTANT: the page leaves deployments it cannot classify out of the share.
StatsOfClassified ==
  LET count == outcomes["success"] + outcomes["failed"]
      risk == Risk(outcomes["failed"], count, said)
  IN  [risk |-> risk, stability |-> IF count = 0 THEN 0 ELSE Stability(outcomes["success"], count, risk)]

\* With no deployments in the window there are none.
buildWindowStats ==
  LET risk == Risk(outcomes["failed"], deploymentCount, said)
  IN  [risk |-> risk, stability |-> Stability(outcomes["success"], deploymentCount, risk)]

situationFor ==
  IF matchFinding.cause = "sync failed" THEN "sync-failed"
  ELSE IF argo.health \in {"Degraded", "Missing"} THEN "degraded"
  ELSE IF argo.sync = "OutOfSync" THEN "out-of-sync"
  ELSE IF argo.health = "Progressing" THEN "progressing"
  ELSE IF argo.health = "Healthy" THEN "healthy"
  ELSE "unknown"

whyItMatters ==
  IF matchFinding.cause = "sync failed" THEN "not applied"
  ELSE IF argo.health = "Degraded" /\ argo.sync = "Synced" THEN "applied, unhealthy"
  ELSE IF argo.health = "Missing" THEN "not present"
  ELSE IF argo.sync = "OutOfSync" THEN "does not match"
  ELSE IF argo.health = "Progressing" THEN "in progress"
  ELSE IF argo.health = "Healthy" /\ argo.sync = "Synced" THEN "healthy and synced"
  ELSE IF argo.health = "Unknown" THEN "not reported"
  ELSE matchFinding.cause

calm == situationFor = "healthy" /\ matchFinding.cause = "none"

\* What the events on the page show, one item for each rule that one of them matches.
eventRule(p) ==
  CASE p \in ImagePull -> {"image-pull"}
    [] p = "crashloopbackoff" -> {"crashloop"}
    [] p \in Deadline -> {"progress-deadline"}
    [] p = "failedscheduling" -> {"scheduling"}
    [] OTHER -> {}

buildEvidence == {"Health", "Sync"} \cup UNION {eventRule(p) : p \in said}

\* How many steps the page makes of a fix.
knownSteps ==
  [image |-> 3, deadline |-> 4, logs |-> 3, node |-> 1, path |-> 1, operation |-> 1,
   diff |-> 1, resources |-> 1, exists |-> 1, inspect |-> 0]

actionSteps ==
  IF calm THEN 0 ELSE IF knownSteps[matchFinding.fix] > 0 THEN knownSteps[matchFinding.fix] ELSE 1

actionNotes == recommendationsFor \ {matchFinding.fix, "failed or degraded"}

-----------------------------------------------------------------------------
\* The page's scores of all time are the server's, but for a phrase that no stored event
\* has: the page's risk is no higher, by 15 at most, and its stability no lower, by 5 at
\* most.  And its headline fits: it is calm only when the server found nothing at all,
\* gives at least one step when not calm, and shows evidence for a crash that an event
\* reported.
PageFitsAnalysis ==
  /\ deploymentCount > 0 =>
       /\ buildWindowStats.risk <= scoreRisk /\ scoreRisk <= buildWindowStats.risk + 15
       /\ scoreStability <= buildWindowStats.stability
       /\ buildWindowStats.stability <= scoreStability + 5
       /\ live \subseteq said => buildWindowStats = [risk |-> scoreRisk, stability |-> scoreStability]
  /\ calm => corpus \subseteq SyncTrouble /\ argo.sync # "OutOfSync"
  /\ (actionSteps = 0) <=> calm
  /\ matchWorkload # {} /\ live = {} => buildEvidence # {"Health", "Sync"}
=============================================================================
