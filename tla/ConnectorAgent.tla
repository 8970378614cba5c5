-------------------------- MODULE ConnectorAgent --------------------------
(***************************************************************************)
(* The connector agent (connector/agent.mjs) in the cluster that the       *)
(* install command of connectors/connector-protocol.ts sets up, at work    *)
(* with a platform that keeps the promises of CredentialService (Connector *)
(* is shown to keep them).  A pod loops: it looks for a credential,        *)
(* enrolls with the token of its environment when it has none, sends a     *)
(* heartbeat, then a snapshot or a report, and saves its credential in the *)
(* state secret.  Answers get lost, pods die and are replaced, and the     *)
(* install command is a list of kubectl calls that can stop after each.    *)
(*                                                                         *)
(* A credential goes by its token.  lost, strayed and troubles are history *)
(* variables: the tokens whose credential was dropped, whether the state   *)
(* secret was deleted while a pod that had been told to stop was still     *)
(* finishing its round, and a count of the failures, kills and restarts,   *)
(* which MaxTroubles bounds.                                               *)
(***************************************************************************)
EXTENDS CredentialService, Naturals

CONSTANTS
  Pod,
  None,          \* no token, no credential
  NoDeployment,
  MaxTroubles

ASSUME NoneIsNoName == None \notin Name
ASSUME NoDeploymentIsNoCount == NoDeployment \notin {0, 1}

VARIABLES
  pod,
  stateSecret,       \* gitops-insights-connector-state, a credential
  enrollmentSecret,  \* gitops-insights-enrollment, a token
  replicas,          \* of the deployment
  install,           \* the install command being run
  troubles,
  lost,
  strayed

secrets == <<stateSecret, enrollmentSecret, replicas, install, strayed>>
agentVars == <<service, pod, secrets, troubles, lost>>

Gone == [at |-> "off", env |-> None, memory |-> None, credential |-> None,
         stopping |-> FALSE]
NoInstall == [at |-> "none", token |-> None]

AgentInit ==
  /\ ServiceInit
  /\ pod = [p \in Pod |-> Gone]
  /\ stateSecret = None
  /\ enrollmentSecret = None
  /\ replicas = NoDeployment
  /\ install = NoInstall
  /\ troubles = 0
  /\ lost = {}
  /\ strayed = FALSE

-----------------------------------------------------------------------------
At(p, places) == pod[p].at \in places
Becomes(p, at) == pod' = [pod EXCEPT ![p].at = at]

Held(p) == IF pod[p].credential # None THEN pod[p].credential ELSE pod[p].memory

\* What a pod that stops takes with it.
Dropped(p) ==
  IF At(p, {"enrolling"}) \/ Held(p) \notin {None, stateSecret} THEN {pod[p].env} ELSE {}

\* The round ends early: a credential that memory has not taken over is forgotten.
RoundFails(p) ==
  /\ pod' = [pod EXCEPT ![p].at = "idle", ![p].credential = None]
  /\ lost' = IF At(p, {"enrolling"}) \/ pod[p].credential # pod[p].memory
               THEN lost \cup {pod[p].env} ELSE lost

\* MUTANT: the next round starts without a look at the state secret.
LoadMemory(p) ==
  /\ At(p, {"idle"}) /\ ~pod[p].stopping
  /\ pod' = [pod EXCEPT ![p].at = "ready", ![p].credential = pod[p].memory]
  /\ UNCHANGED <<service, troubles, lost, secrets>>

\* The next round starts.  A state secret that cannot be read makes the agent wait.
Load(p) ==
  /\ At(p, {"idle"}) /\ ~pod[p].stopping
  /\ LET memory == IF pod[p].memory = None THEN stateSecret ELSE pod[p].memory
     IN  pod' = [pod EXCEPT ![p].at = "ready", ![p].memory = memory,
                            ![p].credential = memory]
  /\ UNCHANGED <<service, troubles, lost, secrets>>

Enroll(p) ==
  /\ At(p, {"ready"}) /\ pod[p].credential = None
  /\ Consume(pod[p].env)
  /\ Becomes(p, "enrolling")
  /\ UNCHANGED <<troubles, lost, secrets>>

Enrolled(p) ==
  /\ At(p, {"enrolling"})
  /\ Issue(pod[p].env)
  /\ pod' = [pod EXCEPT ![p].at = "ready", ![p].credential = pod[p].env]
  /\ UNCHANGED <<troubles, lost, secrets>>

\* postJson, of a call that the platform lets in and answers.
Call(p, from, to) ==
  /\ At(p, {from}) /\ pod[p].credential \in accepted
  /\ Becomes(p, to)
  /\ UNCHANGED <<service, troubles, lost, secrets>>

Heartbeat(p) == Call(p, "ready", "reading")

\* readArgo fails, gives more than may be sent, or the snapshot is not answered well.
SnapshotFails(p) ==
  /\ At(p, {"reading"})
  /\ Becomes(p, "failing")
  /\ UNCHANGED <<service, troubles, lost, secrets>>

\* MUTANT: after a report, memory does not take the credential over.
RoundSucceedsLate(p) ==
  /\ At(p, {"reading", "failing"}) /\ pod[p].credential \in accepted
  /\ pod' = [pod EXCEPT ![p].at = "storing",
               ![p].memory = IF At(p, {"reading"}) THEN pod[p].credential ELSE pod[p].memory]
  /\ UNCHANGED <<service, troubles, lost, secrets>>

\* A snapshot, or the report of its failure, is answered: memory takes the credential over.
RoundSucceeds(p) ==
  /\ At(p, {"reading", "failing"}) /\ pod[p].credential \in accepted
  /\ pod' = [pod EXCEPT ![p].at = "storing", ![p].memory = pod[p].credential]
  /\ UNCHANGED <<service, troubles, lost, secrets>>

\* 401.  The token or the credential is not discarded: the next round presents it again.
Unauthorized(p) ==
  /\ At(p, {"ready", "failing"})
  /\ IF pod[p].credential = None THEN token[pod[p].env] # "open"
                                 ELSE pod[p].credential \notin accepted
  /\ RoundFails(p)
  /\ UNCHANGED <<service, troubles, secrets>>

Trouble == troubles < MaxTroubles /\ troubles' = troubles + 1

\* The answer is an error of the platform, is lost, or takes longer than
\* REQUEST_TIMEOUT_MS, 12 s.
AnswerLost(p) ==
  /\ At(p, {"enrolling", "ready", "failing"})
  /\ Trouble
  /\ RoundFails(p)
  /\ UNCHANGED <<service, secrets>>

-----------------------------------------------------------------------------
(* storeCredential: a read, then a create or a replace. *)

StoreRead(p) ==
  /\ At(p, {"storing"})
  /\ Becomes(p, IF stateSecret = None THEN "creating" ELSE "replacing")
  /\ UNCHANGED <<service, troubles, lost, secrets>>

\* To create a secret that exists, or to replace one that does not, is refused.
StoreWrite(p) ==
  /\ At(p, {"creating", "replacing"})
  /\ stateSecret' = IF At(p, {"creating"}) = (stateSecret = None)
                      THEN pod[p].memory ELSE stateSecret
  /\ pod' = [pod EXCEPT ![p].at = "idle", ![p].credential = None]
  /\ UNCHANGED <<service, troubles, lost, enrollmentSecret, replicas, install, strayed>>

StoreFails(p) ==
  /\ At(p, {"storing", "creating", "replacing"})
  /\ Trouble
  /\ pod' = [pod EXCEPT ![p].at = "idle", ![p].credential = None]
  /\ UNCHANGED <<service, lost, secrets>>

-----------------------------------------------------------------------------
(* SIGTERM ends the loop between two rounds; the deployment replaces a pod. *)

Exit(p) ==
  /\ At(p, {"idle"}) /\ pod[p].stopping
  /\ pod' = [pod EXCEPT ![p] = Gone]
  /\ lost' = lost \cup Dropped(p)
  /\ UNCHANGED <<service, troubles, secrets>>

Kill(p) ==
  /\ ~At(p, {"off"})
  /\ Trouble
  /\ pod' = [pod EXCEPT ![p] = Gone]
  /\ lost' = lost \cup Dropped(p)
  /\ UNCHANGED <<service, secrets>>

Started == [Gone EXCEPT !.at = "idle", !.env = enrollmentSecret]
Running(p) == ~At(p, {"off"}) /\ ~pod[p].stopping

StartPod(p) ==
  /\ replicas = 1 /\ enrollmentSecret # None
  /\ At(p, {"off"}) /\ \A q \in Pod : ~Running(q)
  /\ pod' = [pod EXCEPT ![p] = Started]
  /\ UNCHANGED <<service, troubles, lost, secrets>>

-----------------------------------------------------------------------------
(* The install command. *)

Changed == install.token # enrollmentSecret
Exists == replicas # NoDeployment

InstallCompare(t) ==
  /\ install = NoInstall
  /\ token[t] # "new"
  /\ install' = [at |-> "compared", token |-> t]
  /\ UNCHANGED <<service, pod, stateSecret, enrollmentSecret, replicas, troubles, lost, strayed>>

InstallMoves(from, to) ==
  /\ install.at = from
  /\ install' = [install EXCEPT !.at = to]

\* Scaled to no replicas, the deployment tells its pod to stop; `rollout status' does not
\* wait for one that is terminating.
InstallScale ==
  /\ Changed /\ Exists
  /\ InstallMoves("compared", "scaled")
  /\ replicas' = 0
  /\ pod' = [p \in Pod |-> [pod[p] EXCEPT !.stopping = ~At(p, {"off"})]]
  /\ UNCHANGED <<service, stateSecret, enrollmentSecret, troubles, lost, strayed>>

\* MUTANT: the saved credential is left in place.
InstallKeepsState ==
  /\ Changed
  /\ InstallMoves(IF Exists THEN "scaled" ELSE "compared", "deleted")
  /\ strayed' = (strayed \/ \E p \in Pod : ~At(p, {"off"}))
  /\ UNCHANGED <<service, pod, stateSecret, lost, enrollmentSecret, replicas, troubles>>

\* MUTANT: the deployment is not stopped first.
InstallDeleteOnly ==
  /\ Changed
  /\ InstallMoves("compared", "deleted")
  /\ stateSecret' = None
  /\ lost' = lost \cup ({enrollmentSecret} \ {None})
  /\ UNCHANGED <<service, pod, enrollmentSecret, replicas, strayed, troubles>>

InstallDelete ==
  /\ Changed
  /\ InstallMoves(IF Exists THEN "scaled" ELSE "compared", "deleted")
  /\ stateSecret' = None
  /\ strayed' = (strayed \/ \E p \in Pod : ~At(p, {"off"}))
  /\ lost' = lost \cup ({enrollmentSecret} \ {None})
  /\ UNCHANGED <<service, pod, enrollmentSecret, replicas, troubles>>

InstallSecrets ==
  /\ IF Changed THEN InstallMoves("deleted", "new token")
                ELSE InstallMoves("compared", "same token")
  /\ enrollmentSecret' = install.token
  /\ UNCHANGED <<service, pod, stateSecret, replicas, troubles, lost, strayed>>

InstallManifest ==
  /\ \/ InstallMoves("new token", "waiting")
     \/ InstallMoves("same token", IF Exists THEN "restarting" ELSE "waiting")
  /\ replicas' = 1
  /\ UNCHANGED <<service, pod, stateSecret, enrollmentSecret, troubles, lost, strayed>>

\* The same token with another Argo CD token or CA: a new pod is started before the old
\* one is told to stop.
InstallRestart(q) ==
  /\ InstallMoves("restarting", "waiting")
  /\ Trouble
  /\ At(q, {"off"})
  /\ pod' = [p \in Pod |-> IF p = q THEN Started
                           ELSE [pod[p] EXCEPT !.stopping = ~At(p, {"off"})]]
  /\ UNCHANGED <<service, stateSecret, enrollmentSecret, replicas, lost, strayed>>

\* The command ends, or stops early: a call fails, or the operator interrupts it.
InstallEnd ==
  /\ install # NoInstall
  /\ install' = NoInstall
  /\ IF install.at \in {"restarting", "waiting"} THEN UNCHANGED troubles ELSE Trouble
  /\ UNCHANGED <<service, pod, stateSecret, enrollmentSecret, replicas, lost, strayed>>

-----------------------------------------------------------------------------
RoundStep(p) ==
  \/ Load(p) \/ Enroll(p) \/ Enrolled(p) \/ Heartbeat(p) \/ SnapshotFails(p)
  \/ RoundSucceeds(p) \/ Unauthorized(p) \/ StoreRead(p) \/ StoreWrite(p)

Install ==
  \/ \E t \in Name : InstallCompare(t)
  \/ InstallScale \/ InstallDelete \/ InstallSecrets \/ InstallManifest
  \/ \E q \in Pod : InstallRestart(q)
  \/ InstallEnd

\* The operators and the clock; and a platform that goes on after the agent gave up.
Platform ==
  /\ \/ \E t \in Name : Offer(t) \/ Issue(t) \/ Abandon(t)
     \/ \E S \in SUBSET Open : Close(S)
  /\ \A p \in Pod : At(p, {"enrolling"}) => token'[pod[p].env] = "consumed"
  /\ UNCHANGED <<pod, secrets, troubles, lost>>

PodStep(p) == RoundStep(p) \/ StartPod(p) \/ Exit(p)

AgentNext ==
  \/ Platform \/ Install
  \/ \E p \in Pod : PodStep(p) \/ AnswerLost(p) \/ StoreFails(p) \/ Kill(p)

\* The loop of a running pod goes on, the platform answers its calls, a pod that was told
\* to stop does so, and the deployment starts another.
AgentFairness ==
  \A p \in Pod : WF_agentVars(RoundStep(p)) /\ WF_agentVars(StartPod(p) \/ Exit(p))

-----------------------------------------------------------------------------
\* "A new install command stops the pod, deletes gitops-insights-connector-state, and
\* starts again" (connector-protocol.ts 246): between two commands the saved credential
\* is that of the installed token, wherever a command stopped, unless a pod was still
\* finishing its round when the secret was deleted, and saved its own afterwards.
StoredForInstalled ==
  ~strayed /\ install = NoInstall => stateSecret \in {None, enrollmentSecret}

\* The one-time token of the installed command yields a credential that is kept, in the
\* secret or by a pod that will save it, however often pods are replaced; it is gone only
\* when a pod failed between the enrollment and the save, or another command took over.
CredentialKept ==
  LET t == enrollmentSecret
  IN  t # None /\ t \notin lost /\ ~strayed =>
        (token[t] = "issued" => stateSecret = t \/ \E p \in Pod : Held(p) = t)

\* An installed token that stays open is presented, whatever the cluster looked like when
\* the command was run: a pod that keeps an older credential has been put away.
Installed == enrollmentSecret # None /\ replicas = 1 /\ install = NoInstall

InstallEnrolls ==
  (Installed /\ token[enrollmentSecret] = "open")
    ~> (~Installed \/ token[enrollmentSecret] # "open" \/ strayed)

\* A saved credential that the platform accepts is presented again, by the pod that saved
\* it or the one that replaced it ("a stored cluster credential reconnects after pod
\* replacement", agent.test.mjs 145).
Reconnects ==
  (stateSecret \in accepted /\ replicas = 1)
    ~> \/ \E p \in Pod : At(p, {"reading"}) /\ pod[p].credential = stateSecret
       \/ stateSecret \notin accepted \/ replicas # 1 \/ strayed
=============================================================================
