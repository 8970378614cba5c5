------------------------ MODULE ConnectorAgentProofs ------------------------
(***************************************************************************)
(* Proofs about ConnectorAgent, for every set of pods and tokens and any   *)
(* number of failures, and about Discovery, for every answer of Argo CD.   *)
(* AgentInv is the inductive invariant of the first: what a pod carries,   *)
(* what a command that has deleted the state secret leaves, and where the  *)
(* credential of a consumed token is.  Of the second, DiscoveryInv says    *)
(* that a connector's settings once passed the checks of the server, and   *)
(* ListsOK what may be in an answer.                                       *)
(***************************************************************************)
EXTENDS ConnectorAgent, Discovery, OrderingProofs

AgentSpec == AgentInit /\ [][AgentNext]_agentVars

Place == {"off", "idle", "ready", "enrolling", "reading", "failing",
          "storing", "creating", "replacing"}
Stage == {"none", "compared", "scaled", "deleted", "new token", "same token",
          "restarting", "waiting"}

PodRecord == [at : Place, env : Name \cup {None}, memory : Name \cup {None},
              credential : Name \cup {None}, stopping : BOOLEAN]

AgentTypeOK ==
  /\ token \in [Name -> TokenState]
  /\ accepted \subseteq Name
  /\ pod \in [Pod -> PodRecord]
  /\ stateSecret \in Name \cup {None}
  /\ enrollmentSecret \in Name \cup {None}
  /\ replicas \in {NoDeployment, 0, 1}
  /\ install \in [at : Stage, token : Name \cup {None}]
  /\ strayed \in BOOLEAN

\* What a pod carries by its place in the round.
PodOK(p) ==
  /\ At(p, {"off"}) => pod[p].memory = None /\ pod[p].credential = None
  /\ At(p, {"idle"}) => pod[p].credential = None
  /\ At(p, {"storing", "creating", "replacing"}) => pod[p].memory # None
  /\ ~At(p, {"off"}) => pod[p].env # None

\* A token is in the hands of one pod at most while it enrolls.
EnrollingOK ==
  /\ \A p \in Pod : At(p, {"enrolling"}) => token[pod[p].env] = "consumed"
  /\ \A p, q \in Pod : At(p, {"enrolling"}) /\ At(q, {"enrolling"}) /\ pod[p].env = pod[q].env => p = q

\* The command works with one token, that of the secret once it has been written, and
\* deletes only when it has scaled the deployment away.
InstallOK ==
  /\ install.at = "none" <=> install.token = None
  /\ install.at \in {"new token", "same token", "restarting", "waiting"} =>
       install.token = enrollmentSecret
  /\ install.at = "scaled" => replicas = 0
  /\ install.at = "deleted" => replicas # 1

\* The cluster, when no pod was at work while the secret was deleted: all pods are of the
\* installed token, and a credential of another one is gone.
OfOneToken ==
  /\ stateSecret \in {None, enrollmentSecret}
  /\ \A p \in Pod : ~At(p, {"off"}) =>
       /\ pod[p].env = enrollmentSecret
       /\ pod[p].memory \in {None, enrollmentSecret}
       /\ pod[p].credential \in {None, enrollmentSecret}
  /\ install.at = "deleted" =>
       /\ \A p \in Pod : At(p, {"off"})
       /\ stateSecret = None
       /\ enrollmentSecret \in lost \cup {None}
  /\ \A t \in Name : token[t] \in {"consumed", "issued"} /\ t # enrollmentSecret => t \in lost

\* A token that was consumed is with the pod that enrolls, until its credential is kept.
ConsumedByPod ==
  LET t == enrollmentSecret
  IN  t # None /\ t \notin lost /\ token[t] = "consumed" =>
        \E p \in Pod : At(p, {"enrolling"}) /\ pod[p].env = t

AgentInv ==
  /\ AgentTypeOK
  /\ \A p \in Pod : PodOK(p)
  /\ EnrollingOK
  /\ InstallOK
  /\ ~strayed => OfOneToken /\ ConsumedByPod /\ CredentialKept
-----------------------------------------------------------------------------
(* One pod's steps. *)

\* The credential is where it was, or the pod that changed still has it.
KeepsCredential(p, h) ==
  Held(p) = enrollmentSecret /\ enrollmentSecret \notin lost' \cup {None} =>
    \/ stateSecret' = enrollmentSecret
    \/ (IF h.credential # None THEN h.credential ELSE h.memory) = enrollmentSecret

\* A pod goes from one place to another and the platform's side is left alone, or it
\* saves the credential that it has.
LEMMA PodMoves ==
  ASSUME AgentInv, NEW p \in Pod, ~At(p, {"off"}), NEW h \in PodRecord,
         pod' = [pod EXCEPT ![p] = h],
         UNCHANGED <<service, enrollmentSecret, replicas, install, strayed>>,
         lost \subseteq lost', stateSecret' \in {stateSecret, pod[p].memory},
         pod[p].memory # None \/ stateSecret' = stateSecret,
         h.at # "enrolling", h.at # "off" => h.env = pod[p].env,
         h.memory \in {None, pod[p].memory, pod[p].credential, stateSecret},
         h.credential \in {None, pod[p].memory, pod[p].credential, stateSecret},
         h.at = "off" => h.memory = None /\ h.credential = None,
         h.at = "idle" => h.credential = None,
         h.at \in {"storing", "creating", "replacing"} => h.memory # None,
         At(p, {"enrolling"}) => pod[p].env \in lost',
         ~strayed => KeepsCredential(p, h)
  PROVE  AgentInv'
<1>1. pod'[p] = h /\ \A q \in Pod : q # p => pod'[q] = pod[q]
  BY DEF AgentInv, AgentTypeOK
<1>2. AgentTypeOK'
  BY DEF AgentInv, AgentTypeOK, service, PodRecord
<1>3. \A q \in Pod : PodOK(q)'
  BY <1>1 DEF AgentInv, PodOK, At
<1>4. EnrollingOK'
  BY <1>1 DEF AgentInv, EnrollingOK, At, service
<1>5. InstallOK'
  BY DEF AgentInv, InstallOK
<1>6. ASSUME ~strayed' PROVE OfOneToken'
  BY <1>1, <1>6 DEF AgentInv, OfOneToken, At, service
<1>7. ASSUME ~strayed' PROVE ConsumedByPod'
  BY <1>1, <1>6, <1>7 DEF AgentInv, ConsumedByPod, OfOneToken, At, service
<1>8. ASSUME ~strayed' PROVE CredentialKept'
  BY <1>1, <1>6, <1>8 DEF AgentInv, CredentialKept, KeepsCredential, OfOneToken, At, Held, service
<1> QED
  BY <1>2, <1>3, <1>4, <1>5, <1>6, <1>7, <1>8 DEF AgentInv

\* The rounds that end early, and the pods that stop.
LEMMA RoundFailsInv ==
  ASSUME AgentInv, NEW p \in Pod, At(p, {"enrolling", "ready", "failing"}), RoundFails(p),
         UNCHANGED <<service, secrets>>
  PROVE  AgentInv'
<1> DEFINE h == [pod[p] EXCEPT !.at = "idle", !.credential = None]
<1>1. /\ h \in PodRecord /\ pod' = [pod EXCEPT ![p] = h] /\ pod[p] \in PodRecord
      /\ h.at = "idle" /\ h.credential = None /\ h.memory = pod[p].memory
      /\ h.env = pod[p].env
  BY DEF AgentInv, AgentTypeOK, RoundFails, PodRecord, Place
<1>2. ~At(p, {"off"}) /\ lost \subseteq lost' /\ (At(p, {"enrolling"}) => pod[p].env \in lost')
  BY DEF At, RoundFails
<1>3. ~strayed => KeepsCredential(p, h)
  BY <1>1 DEF AgentInv, OfOneToken, At, RoundFails, KeepsCredential, Held, secrets
<1> HIDE DEF h
<1> QED
  BY <1>1, <1>2, <1>3, PodMoves DEF secrets

LEMMA StopsInv ==
  ASSUME AgentInv, NEW p \in Pod, ~At(p, {"off"}),
         pod' = [pod EXCEPT ![p] = Gone], lost' = lost \cup Dropped(p),
         UNCHANGED <<service, secrets>>
  PROVE  AgentInv'
<1>1. Gone \in PodRecord
  BY DEF Gone, PodRecord, Place
<1>2. ~strayed => KeepsCredential(p, Gone)
  BY DEF AgentInv, OfOneToken, At, KeepsCredential, Held, Dropped, Gone, secrets
<1>3. At(p, {"enrolling"}) => pod[p].env \in lost'
  BY DEF Dropped
<1> QED
  BY <1>1, <1>2, <1>3, PodMoves DEF Gone, secrets

LEMMA LoadInv ==
  ASSUME AgentInv, NEW p \in Pod, Load(p)
  PROVE  AgentInv'
<1> DEFINE memory == IF pod[p].memory = None THEN stateSecret ELSE pod[p].memory
           h == [pod[p] EXCEPT !.at = "ready", !.memory = memory, !.credential = memory]
<1>1. /\ h \in PodRecord /\ pod' = [pod EXCEPT ![p] = h]
      /\ h.at = "ready" /\ h.credential = memory /\ h.memory = memory
      /\ h.env = pod[p].env
  BY DEF AgentInv, AgentTypeOK, Load, PodRecord, Place
<1>2. At(p, {"idle"}) /\ UNCHANGED <<service, lost, secrets>> /\ pod[p].credential = None
  BY DEF Load, AgentInv, PodOK
<1>3. ~strayed => KeepsCredential(p, h)
  BY <1>1, <1>2 DEF KeepsCredential, Held
<1> HIDE DEF h
<1> QED
  BY <1>1, <1>2, <1>3, PodMoves DEF secrets, At

\* A call that is answered, an argument that is read, the look before the save.
LEMMA GoesOnInv ==
  ASSUME AgentInv, NEW p \in Pod, ~At(p, {"off", "enrolling"}),
         NEW at \in Place \ {"off", "idle", "enrolling"}, Becomes(p, at),
         at \in {"storing", "creating", "replacing"} => pod[p].memory # None,
         UNCHANGED <<service, lost, secrets>>
  PROVE  AgentInv'
<1> DEFINE h == [pod[p] EXCEPT !.at = at]
<1>1. /\ h \in PodRecord /\ pod' = [pod EXCEPT ![p] = h]
      /\ h.at = at /\ h.credential = pod[p].credential /\ h.memory = pod[p].memory
      /\ h.env = pod[p].env
  BY DEF AgentInv, AgentTypeOK, Becomes, PodRecord, Place
<1>2. KeepsCredential(p, h)
  BY <1>1 DEF KeepsCredential, Held
<1> HIDE DEF h
<1> QED
  BY <1>1, <1>2, PodMoves DEF secrets, At

LEMMA RoundSucceedsInv ==
  ASSUME AgentInv, NEW p \in Pod, RoundSucceeds(p)
  PROVE  AgentInv'
<1> DEFINE h == [pod[p] EXCEPT !.at = "storing", !.memory = pod[p].credential]
<1>1. /\ h \in PodRecord /\ pod' = [pod EXCEPT ![p] = h]
      /\ h.at = "storing" /\ h.credential = pod[p].credential
      /\ h.memory = pod[p].credential /\ h.env = pod[p].env
  BY DEF AgentInv, AgentTypeOK, RoundSucceeds, PodRecord, Place
<1>2. pod[p].credential # None /\ UNCHANGED <<service, lost, secrets>>
  BY NoneIsNoName DEF AgentInv, AgentTypeOK, RoundSucceeds
<1>3. KeepsCredential(p, h)
  BY <1>1, <1>2 DEF KeepsCredential, Held
<1> HIDE DEF h
<1> QED
  BY <1>1, <1>2, <1>3, PodMoves DEF secrets, At, RoundSucceeds

\* After the save the next round is waited for, whatever came of it.
LEMMA StoreEndsInv ==
  ASSUME AgentInv, NEW p \in Pod, At(p, {"storing", "creating", "replacing"}),
         pod' = [pod EXCEPT ![p].at = "idle", ![p].credential = None],
         stateSecret' \in {stateSecret, pod[p].memory},
         UNCHANGED <<service, lost, enrollmentSecret, replicas, install, strayed>>
  PROVE  AgentInv'
<1> DEFINE h == [pod[p] EXCEPT !.at = "idle", !.credential = None]
<1>1. /\ h \in PodRecord /\ pod' = [pod EXCEPT ![p] = h]
      /\ h.at = "idle" /\ h.credential = None /\ h.memory = pod[p].memory
      /\ h.env = pod[p].env
  BY DEF AgentInv, AgentTypeOK, PodRecord, Place
<1>2. pod[p].memory # None
  BY DEF AgentInv, PodOK
<1>3. ~strayed => KeepsCredential(p, h)
  BY <1>1, <1>2 DEF AgentInv, OfOneToken, KeepsCredential, Held, At
<1> HIDE DEF h
<1> QED
  BY <1>1, <1>2, <1>3, PodMoves DEF At

\* A token is presented: it was open, so no other pod enrolls with it.
LEMMA EnrollInv ==
  ASSUME AgentInv, NEW p \in Pod, Enroll(p)
  PROVE  AgentInv'
<1>1. /\ pod[p] \in PodRecord /\ At(p, {"ready"}) /\ pod[p].env \in Name
      /\ pod'[p] = [pod[p] EXCEPT !.at = "enrolling"]
      /\ \A q \in Pod : q # p => pod'[q] = pod[q]
      /\ token[pod[p].env] = "open" /\ token' = [token EXCEPT ![pod[p].env] = "consumed"]
      /\ UNCHANGED <<accepted, lost, secrets>>
  BY DEF AgentInv, AgentTypeOK, PodOK, Enroll, Becomes, Consume, Moves, At, PodRecord
<1>2. AgentTypeOK'
  BY <1>1 DEF AgentInv, AgentTypeOK, PodRecord, Place, TokenState, secrets, Enroll, Becomes
<1>3. \A q \in Pod : PodOK(q)'
  BY <1>1 DEF AgentInv, PodOK, At, PodRecord
<1>4. EnrollingOK'
  BY <1>1 DEF AgentInv, AgentTypeOK, EnrollingOK, PodOK, At, PodRecord
<1>5. InstallOK'
  BY <1>1 DEF AgentInv, InstallOK, secrets
<1>6. ASSUME ~strayed' PROVE OfOneToken'
  BY <1>1, <1>6 DEF AgentInv, AgentTypeOK, OfOneToken, At, PodRecord, secrets
<1>7. ASSUME ~strayed' PROVE ConsumedByPod'
  BY <1>1, <1>7 DEF AgentInv, AgentTypeOK, ConsumedByPod, OfOneToken, At, PodRecord, secrets
<1>8. ASSUME ~strayed' PROVE CredentialKept'
  BY <1>1, <1>8 DEF AgentInv, AgentTypeOK, CredentialKept, OfOneToken, At, Held, PodRecord, secrets
<1> QED
  BY <1>2, <1>3, <1>4, <1>5, <1>6, <1>7, <1>8 DEF AgentInv

\* Its credential comes to the pod.
LEMMA EnrolledInv ==
  ASSUME AgentInv, NEW p \in Pod, Enrolled(p)
  PROVE  AgentInv'
<1>1. /\ pod[p] \in PodRecord /\ At(p, {"enrolling"}) /\ pod[p].env \in Name
      /\ pod'[p] = [pod[p] EXCEPT !.at = "ready", !.credential = pod[p].env]
      /\ \A q \in Pod : q # p => pod'[q] = pod[q]
      /\ token[pod[p].env] = "consumed" /\ token' = [token EXCEPT ![pod[p].env] = "issued"]
      /\ accepted' \in SUBSET (accepted \cup {pod[p].env})
      /\ UNCHANGED <<lost, secrets>>
  BY DEF AgentInv, AgentTypeOK, PodOK, Enrolled, Issue, Moves, At, PodRecord
<1>a. /\ At(p, {"ready"})' /\ pod'[p].env = pod[p].env
      /\ pod'[p].memory = pod[p].memory /\ pod'[p].credential = pod[p].env
  BY <1>1 DEF PodRecord, At
<1>b. pod[p].env # None
  BY <1>1, NoneIsNoName
<1>2. AgentTypeOK'
  BY <1>1 DEF AgentInv, AgentTypeOK, PodRecord, Place, TokenState, secrets, Enrolled
<1>3. \A q \in Pod : PodOK(q)'
  BY <1>1, <1>a, <1>b DEF AgentInv, PodOK, At
<1>4. EnrollingOK'
  <2>1. ~At(p, {"enrolling"})'
    BY <1>a DEF At
  <2>2. \A q \in Pod : At(q, {"enrolling"})' =>
          At(q, {"enrolling"}) /\ pod'[q].env = pod[q].env /\ pod[q].env # pod[p].env
    BY <1>1, <2>1 DEF AgentInv, EnrollingOK, At
  <2>3. \A q \in Pod : At(q, {"enrolling"})' => token'[pod'[q].env] = token[pod[q].env]
    BY <1>1, <2>2 DEF AgentInv, AgentTypeOK
  <2> QED
    BY <2>2, <2>3 DEF AgentInv, EnrollingOK
<1>5. InstallOK'
  BY <1>1 DEF AgentInv, InstallOK, secrets
<1>6. ASSUME ~strayed' PROVE OfOneToken'
  BY <1>1, <1>6 DEF AgentInv, AgentTypeOK, OfOneToken, At, PodRecord, secrets
<1>7. ASSUME ~strayed' PROVE ConsumedByPod'
  BY <1>1, <1>7 DEF AgentInv, AgentTypeOK, ConsumedByPod, OfOneToken, At, PodRecord, secrets
<1>8. ASSUME ~strayed' PROVE CredentialKept'
  BY <1>1, <1>a, <1>b, <1>8 DEF AgentInv, AgentTypeOK, CredentialKept, OfOneToken, At, Held, secrets
<1> QED
  BY <1>2, <1>3, <1>4, <1>5, <1>6, <1>7, <1>8 DEF AgentInv

-----------------------------------------------------------------------------
(* New pods, the install command and the platform. *)

\* A pod starts, with nothing of its own, and others may be told to stop.
LEMMA StartsInv ==
  ASSUME AgentInv, NEW p \in Pod, At(p, {"off"}), enrollmentSecret # None,
         install.at # "deleted", pod' \in [Pod -> PodRecord], pod'[p] = Started,
         \A q \in Pod : q # p => \E b \in BOOLEAN : pod'[q] = [pod[q] EXCEPT !.stopping = b],
         install' \in [at : Stage, token : Name \cup {None}], InstallOK', install'.at # "deleted",
         UNCHANGED <<service, stateSecret, enrollmentSecret, replicas, lost, strayed>>
  PROVE  AgentInv'
<1>1. /\ At(p, {"idle"})' /\ pod'[p].credential = None /\ pod'[p].memory = None
      /\ pod'[p].env = enrollmentSecret /\ Held(p) = None
  BY DEF Started, Gone, At, Held, AgentInv, PodOK
<1>2. \A q \in Pod : q # p => /\ pod'[q].at = pod[q].at /\ pod'[q].env = pod[q].env
                              /\ pod'[q].memory = pod[q].memory
                              /\ pod'[q].credential = pod[q].credential
  BY DEF AgentInv, AgentTypeOK, PodRecord
<1>3. AgentTypeOK'
  BY DEF AgentInv, AgentTypeOK, service
<1>4. ASSUME NEW q \in Pod PROVE PodOK(q)'
  BY <1>1, <1>2 DEF AgentInv, PodOK, At
<1>5. EnrollingOK'
  BY <1>1, <1>2 DEF AgentInv, EnrollingOK, At, service
<1>6. ASSUME ~strayed' PROVE OfOneToken' /\ ConsumedByPod'
  BY <1>1, <1>2, <1>6 DEF AgentInv, OfOneToken, ConsumedByPod, At, service
<1>7. ASSUME ~strayed' PROVE CredentialKept'
  BY <1>1, <1>2, <1>7 DEF AgentInv, CredentialKept, At, Held, service
<1> QED
  BY <1>3, <1>4, <1>5, <1>6, <1>7 DEF AgentInv

LEMMA StartPodInv ==
  ASSUME AgentInv, NEW p \in Pod, StartPod(p)
  PROVE  AgentInv'
<1>1. Started \in PodRecord
  BY DEF AgentInv, AgentTypeOK, Started, Gone, PodRecord, Place
<1>2. /\ pod' = [pod EXCEPT ![p] = Started] /\ pod' \in [Pod -> PodRecord]
      /\ pod'[p] = Started /\ \A q \in Pod : q # p => pod'[q] = pod[q]
  BY <1>1 DEF StartPod, AgentInv, AgentTypeOK
<1>3. \A q \in Pod : q # p => \E b \in BOOLEAN : pod'[q] = [pod[q] EXCEPT !.stopping = b]
  BY <1>2 DEF AgentInv, AgentTypeOK, PodRecord
<1>5. install.at # "deleted" /\ InstallOK'
  BY DEF AgentInv, InstallOK, StartPod, secrets
<1> QED
  BY <1>2, <1>3, <1>5, StartsInv DEF StartPod, secrets, AgentInv, AgentTypeOK

LEMMA InstallRestartInv ==
  ASSUME AgentInv, NEW p \in Pod, InstallRestart(p)
  PROVE  AgentInv'
<1>1. /\ install.at = "restarting" /\ install' = [install EXCEPT !.at = "waiting"]
      /\ At(p, {"off"})
      /\ pod' = [q \in Pod |-> IF q = p THEN Started
                               ELSE [pod[q] EXCEPT !.stopping = ~At(q, {"off"})]]
      /\ UNCHANGED <<service, stateSecret, enrollmentSecret, replicas, lost, strayed>>
  BY DEF InstallRestart, InstallMoves
<1>2. /\ install' \in [at : Stage, token : Name \cup {None}] /\ InstallOK'
      /\ install'.at # "deleted" /\ enrollmentSecret # None
  BY <1>1 DEF AgentInv, AgentTypeOK, InstallOK, Stage
<1>3. Started \in PodRecord
  BY DEF AgentInv, AgentTypeOK, Started, Gone, PodRecord, Place
<1>4. pod' \in [Pod -> PodRecord] /\ pod'[p] = Started
  BY <1>1, <1>3 DEF AgentInv, AgentTypeOK, PodRecord, At
<1>5. \A q \in Pod : q # p => \E b \in BOOLEAN : pod'[q] = [pod[q] EXCEPT !.stopping = b]
  BY <1>1 DEF At
<1> QED
  BY <1>1, <1>2, <1>4, <1>5, StartsInv

\* A stage of the command that leaves the pods and both secrets alone.
LEMMA InstallGoesOnInv ==
  ASSUME AgentInv, install' \in [at : Stage, token : Name \cup {None}], install'.at # "deleted",
         replicas' \in {NoDeployment, 0, 1}, InstallOK',
         UNCHANGED <<service, pod, stateSecret, enrollmentSecret, lost, strayed>>
  PROVE  AgentInv'
<1>1. AgentTypeOK' /\ EnrollingOK' /\ \A q \in Pod : PodOK(q)'
  BY DEF AgentInv, AgentTypeOK, EnrollingOK, PodOK, At, service
<1>2. ASSUME ~strayed' PROVE OfOneToken' /\ ConsumedByPod' /\ CredentialKept'
  BY <1>2 DEF AgentInv, OfOneToken, ConsumedByPod, CredentialKept, At, Held, service
<1> QED
  BY <1>1, <1>2 DEF AgentInv

LEMMA InstallScaleInv == AgentInv /\ InstallScale => AgentInv'
<1> SUFFICES ASSUME AgentInv, InstallScale PROVE AgentInv'
  OBVIOUS
<1>1. /\ install.at = "compared" /\ install' = [install EXCEPT !.at = "scaled"]
      /\ replicas' = 0
      /\ pod' = [q \in Pod |-> [pod[q] EXCEPT !.stopping = ~At(q, {"off"})]]
      /\ UNCHANGED <<service, stateSecret, enrollmentSecret, lost, strayed>>
  BY DEF InstallScale, InstallMoves
<1>2. install' \in [at : Stage, token : Name \cup {None}] /\ InstallOK' /\ install'.at # "deleted"
  BY <1>1 DEF AgentInv, AgentTypeOK, InstallOK, Stage
<1>3. pod' \in [Pod -> PodRecord]
  BY <1>1 DEF AgentInv, AgentTypeOK, PodRecord, At
<1>4. \A q \in Pod : /\ pod'[q].at = pod[q].at /\ pod'[q].env = pod[q].env
                     /\ pod'[q].memory = pod[q].memory
                     /\ pod'[q].credential = pod[q].credential
  BY <1>1 DEF AgentInv, AgentTypeOK, PodRecord, At
<1>5. AgentTypeOK'
  BY <1>1, <1>2, <1>3 DEF AgentInv, AgentTypeOK, service
<1>6. EnrollingOK' /\ \A q \in Pod : PodOK(q)'
  BY <1>1, <1>4 DEF AgentInv, EnrollingOK, PodOK, At, service
<1>7. ASSUME ~strayed' PROVE OfOneToken' /\ ConsumedByPod' /\ CredentialKept'
  <2>1. OfOneToken'
    BY <1>1, <1>2, <1>4, <1>7 DEF AgentInv, OfOneToken, At, service
  <2>2. ConsumedByPod'
    BY <1>1, <1>4, <1>7 DEF AgentInv, ConsumedByPod, At, service
  <2>3. CredentialKept'
    BY <1>1, <1>4, <1>7 DEF AgentInv, CredentialKept, Held, service
  <2> QED
    BY <2>1, <2>2, <2>3
<1> QED
  BY <1>2, <1>5, <1>6, <1>7 DEF AgentInv

\* When no pod is at work, the state secret goes with the token it came from.
LEMMA InstallDeleteInv == AgentInv /\ InstallDelete => AgentInv'
<1> SUFFICES ASSUME AgentInv, InstallDelete PROVE AgentInv'
  OBVIOUS
<1>1. /\ install' = [install EXCEPT !.at = "deleted"]
      /\ install.at = IF Exists THEN "scaled" ELSE "compared"
      /\ stateSecret' = None /\ strayed' = (strayed \/ \E q \in Pod : ~At(q, {"off"}))
      /\ lost' = lost \cup ({enrollmentSecret} \ {None})
      /\ UNCHANGED <<service, pod, enrollmentSecret, replicas>>
  BY DEF InstallDelete, InstallMoves
<1>2. install' \in [at : Stage, token : Name \cup {None}] /\ InstallOK'
  <2>1. /\ install'.at = "deleted" /\ install'.token = install.token
        /\ install' \in [at : Stage, token : Name \cup {None}]
    BY <1>1 DEF AgentInv, AgentTypeOK, Stage
  <2>2. install.at \in {"scaled", "compared"} /\ install.token # None
    BY <1>1 DEF AgentInv, InstallOK
  <2>3. replicas' # 1
    BY <1>1, NoDeploymentIsNoCount DEF AgentInv, InstallOK, Exists
  <2> QED
    BY <2>1, <2>2, <2>3 DEF InstallOK
<1>3. AgentTypeOK'
  BY <1>1, <1>2 DEF AgentInv, AgentTypeOK, service
<1>4. EnrollingOK' /\ \A q \in Pod : PodOK(q)'
  BY <1>1 DEF AgentInv, EnrollingOK, PodOK, At, service
<1>5. ASSUME ~strayed' PROVE OfOneToken'
  BY <1>1, <1>5 DEF AgentInv, OfOneToken, At, service
<1>6. ASSUME ~strayed' PROVE ConsumedByPod' /\ CredentialKept'
  BY <1>1, <1>6 DEF ConsumedByPod, CredentialKept
<1> QED
  BY <1>2, <1>3, <1>4, <1>5, <1>6 DEF AgentInv

\* A token that takes the place of another one has no pod and no credential yet.
LEMMA InstallSecretsInv == AgentInv /\ InstallSecrets => AgentInv'
<1> SUFFICES ASSUME AgentInv, InstallSecrets PROVE AgentInv'
  OBVIOUS
<1>1. /\ enrollmentSecret' = install.token
      /\ UNCHANGED <<service, pod, stateSecret, replicas, lost, strayed>>
  BY DEF InstallSecrets
<1>2. /\ install' \in [at : Stage, token : Name \cup {None}] /\ InstallOK'
      /\ install'.at \notin {"deleted", "scaled"}
  BY <1>1 DEF AgentInv, AgentTypeOK, InstallOK, Stage, InstallSecrets, InstallMoves
<1>3. CASE ~Changed
  BY <1>1, <1>2, <1>3, InstallGoesOnInv DEF Changed, AgentInv, AgentTypeOK
<1>4. CASE Changed
  <2>1. install.at = "deleted" /\ install.token # enrollmentSecret
    BY <1>4 DEF InstallSecrets, InstallMoves, Changed
  <2>2. AgentTypeOK' /\ EnrollingOK' /\ \A q \in Pod : PodOK(q)'
    BY <1>1, <1>2 DEF AgentInv, AgentTypeOK, EnrollingOK, PodOK, At, service
  <2>3. ASSUME ~strayed' PROVE OfOneToken'
    BY <1>1, <1>2, <2>1, <2>3, NoneIsNoName DEF AgentInv, OfOneToken, At, service
  <2>4. ASSUME ~strayed' PROVE ConsumedByPod' /\ CredentialKept'
    BY <1>1, <2>1, <2>4 DEF AgentInv, AgentTypeOK, OfOneToken, ConsumedByPod, CredentialKept, service
  <2> QED
    BY <1>2, <2>2, <2>3, <2>4 DEF AgentInv
<1> QED
  BY <1>3, <1>4

LEMMA InstallInv == AgentInv /\ Install => AgentInv'
<1> SUFFICES ASSUME AgentInv, Install PROVE AgentInv'
  OBVIOUS
<1>1. ASSUME NEW t \in Name, InstallCompare(t) PROVE AgentInv'
  BY <1>1, NoneIsNoName, InstallGoesOnInv
  DEF InstallCompare, AgentInv, AgentTypeOK, InstallOK, Stage
<1>2. CASE InstallManifest
  <2>1. /\ install'.at \in {"waiting", "restarting"} /\ install'.token = enrollmentSecret
        /\ install.token = install'.token /\ install.at # "none"
        /\ install' \in [at : Stage, token : Name \cup {None}]
    BY <1>2 DEF InstallManifest, InstallMoves, AgentInv, AgentTypeOK, InstallOK, Stage
  <2> QED
    BY <1>2, <2>1, InstallGoesOnInv DEF InstallManifest, AgentInv, InstallOK
<1>3. CASE InstallEnd
  BY <1>3, InstallGoesOnInv DEF InstallEnd, NoInstall, AgentInv, AgentTypeOK, InstallOK, Stage
<1> QED
  BY <1>1, <1>2, <1>3, InstallScaleInv, InstallDeleteInv, InstallSecretsInv, InstallRestartInv
  DEF Install

LEMMA PlatformInv == AgentInv /\ Platform => AgentInv'
<1> SUFFICES ASSUME AgentInv, Platform PROVE AgentInv'
  OBVIOUS
<1>1. /\ UNCHANGED <<pod, secrets, lost>> /\ accepted' \subseteq Name
      /\ token' \in [Name -> TokenState]
      /\ \A p \in Pod : At(p, {"enrolling"}) => token'[pod[p].env] = "consumed"
      /\ \A t \in Name : /\ token'[t] = "consumed" => token[t] = "consumed"
                         /\ token'[t] = "issued" => token[t] \in {"consumed", "issued"}
  <2>1. UNCHANGED <<pod, secrets, lost>>
    BY DEF Platform
  <2>2. \A p \in Pod : At(p, {"enrolling"}) => token'[pod[p].env] = "consumed"
    BY DEF Platform
  <2>3. ASSUME NEW t \in Name, Offer(t) \/ Issue(t) \/ Abandon(t)
        PROVE  /\ accepted' \subseteq Name /\ token' \in [Name -> TokenState]
               /\ \A u \in Name : /\ token'[u] = "consumed" => token[u] = "consumed"
                                  /\ token'[u] = "issued" => token[u] \in {"consumed", "issued"}
    BY <2>3 DEF Offer, Issue, Abandon, Moves, Refuse, AgentInv, AgentTypeOK, TokenState
  <2>4. ASSUME NEW S \in SUBSET Open, Close(S)
        PROVE  /\ accepted' \subseteq Name /\ token' \in [Name -> TokenState]
               /\ \A u \in Name : /\ token'[u] = "consumed" => token[u] = "consumed"
                                  /\ token'[u] = "issued" => token[u] \in {"consumed", "issued"}
    BY <2>4 DEF Close, Refuse, AgentInv, AgentTypeOK, TokenState
  <2> QED
    BY <2>1, <2>2, <2>3, <2>4 DEF Platform
<1>2. AgentTypeOK' /\ InstallOK' /\ \A q \in Pod : PodOK(q)'
  BY <1>1 DEF AgentInv, AgentTypeOK, InstallOK, PodOK, At, secrets
<1>3. EnrollingOK'
  BY <1>1 DEF AgentInv, EnrollingOK, At
<1>4. ASSUME ~strayed' PROVE OfOneToken' /\ ConsumedByPod'
  BY <1>1, <1>4 DEF AgentInv, AgentTypeOK, OfOneToken, ConsumedByPod, At, secrets
<1>5. ASSUME ~strayed' PROVE CredentialKept'
  BY <1>1, <1>5 DEF AgentInv, AgentTypeOK, ConsumedByPod, CredentialKept, At, Held, secrets
<1> QED
  BY <1>2, <1>3, <1>4, <1>5 DEF AgentInv

-----------------------------------------------------------------------------
(* The theorems. *)

LEMMA RoundStepInv ==
  ASSUME AgentInv, NEW p \in Pod, RoundStep(p)
  PROVE  AgentInv'
<1>1. CASE Heartbeat(p) \/ SnapshotFails(p)
  BY <1>1, GoesOnInv DEF Heartbeat, Call, SnapshotFails, At, Place, secrets
<1>2. CASE Unauthorized(p)
  BY <1>2, RoundFailsInv DEF Unauthorized, At
<1>3. CASE StoreRead(p)
  <2>1. pod[p].memory # None
    BY <1>3 DEF StoreRead, AgentInv, PodOK, At
  <2> QED
    BY <1>3, <2>1, GoesOnInv DEF StoreRead, At, Place
<1>4. CASE StoreWrite(p)
  BY <1>4, StoreEndsInv DEF StoreWrite, At
<1> QED
  BY <1>1, <1>2, <1>3, <1>4, LoadInv, EnrollInv, EnrolledInv, RoundSucceedsInv DEF RoundStep

LEMMA AgentNextInv == AgentInv /\ [AgentNext]_agentVars => AgentInv'
<1> SUFFICES ASSUME AgentInv, [AgentNext]_agentVars PROVE AgentInv'
  OBVIOUS
<1>1. CASE UNCHANGED agentVars
  <2>1. AgentTypeOK' /\ EnrollingOK' /\ InstallOK' /\ \A q \in Pod : PodOK(q)'
    BY <1>1 DEF AgentInv, AgentTypeOK, EnrollingOK, InstallOK, PodOK, At, agentVars, service, secrets
  <2>2. ASSUME ~strayed' PROVE OfOneToken' /\ ConsumedByPod' /\ CredentialKept'
    BY <1>1, <2>2 DEF AgentInv, OfOneToken, ConsumedByPod, CredentialKept, At, Held,
       agentVars, service, secrets
  <2> QED
    BY <2>1, <2>2 DEF AgentInv
<1>2. ASSUME NEW p \in Pod, PodStep(p) \/ AnswerLost(p) \/ StoreFails(p) \/ Kill(p)
      PROVE  AgentInv'
  <2>1. CASE Exit(p) \/ Kill(p)
    BY <2>1, StopsInv DEF Exit, Kill, At
  <2>2. CASE AnswerLost(p)
    BY <2>2, RoundFailsInv DEF AnswerLost
  <2>3. CASE StoreFails(p)
    BY <2>3, StoreEndsInv DEF StoreFails, secrets
  <2> QED
    BY <1>2, <2>1, <2>2, <2>3, RoundStepInv, StartPodInv DEF PodStep
<1> QED
  BY <1>1, <1>2, PlatformInv, InstallInv DEF AgentNext

LEMMA AgentInitInv == AgentInit => AgentInv
<1> SUFFICES ASSUME AgentInit PROVE AgentInv
  OBVIOUS
<1>1. AgentTypeOK
  BY DEF AgentInit, ServiceInit, AgentTypeOK, TokenState, PodRecord, Place, Stage, Gone, NoInstall
<1>2. EnrollingOK /\ InstallOK /\ \A p \in Pod : PodOK(p)
  BY DEF AgentInit, EnrollingOK, InstallOK, PodOK, At, Gone, NoInstall
<1>3. OfOneToken /\ ConsumedByPod /\ CredentialKept
  BY DEF AgentInit, ServiceInit, OfOneToken, ConsumedByPod, CredentialKept, At, Gone, NoInstall
<1> QED
  BY <1>1, <1>2, <1>3 DEF AgentInv

LEMMA AgentInvHolds == AgentSpec => []AgentInv
  BY AgentInitInv, AgentNextInv, PTL DEF AgentSpec

\* Between two install commands the saved credential is that of the installed token,
\* wherever a command stopped (connector-protocol.ts 246, agent.mjs storeCredential).
THEOREM StoredHolds == AgentSpec => []StoredForInstalled
<1>1. AgentInv => StoredForInstalled
  BY DEF AgentInv, OfOneToken, StoredForInstalled
<1> QED
  BY <1>1, AgentInvHolds, PTL

\* The credential that the installed token yielded is in the state secret or with a pod
\* that will save it, however pods are killed and replaced, unless a pod failed between
\* the enrollment and the save or another command took over (agent.mjs runAgent).
THEOREM KeptHolds == AgentSpec => []CredentialKept
<1>1. AgentInv => CredentialKept
  BY DEF AgentInv, CredentialKept
<1> QED
  BY <1>1, AgentInvHolds, PTL

\* Pods, install commands, crashes and lost answers do to tokens and credentials nothing
\* but what CredentialService allows: with AgentsServed of ConnectorProofs, the agents of
\* agent.mjs and the handlers of connectors.service.ts meet in one specification.
THEOREM AgentsUseService == AgentSpec => ServiceSpec
<1>1. AgentInit => ServiceInit
  BY DEF AgentInit
<1>2. AgentInv /\ [AgentNext]_agentVars => [service' # service /\ ServiceNext]_service
  <2> SUFFICES ASSUME AgentInv, [AgentNext]_agentVars PROVE UNCHANGED service \/ ServiceNext
    OBVIOUS
  <2>1. CASE UNCHANGED agentVars
    BY <2>1 DEF agentVars
  <2>2. CASE Platform
    BY <2>2 DEF Platform, ServiceNext
  <2>3. CASE Install
    BY <2>3 DEF Install, InstallCompare, InstallScale, InstallDelete, InstallSecrets,
       InstallManifest, InstallRestart, InstallEnd
  <2>4. ASSUME NEW p \in Pod, Enroll(p) \/ Enrolled(p)
        PROVE  ServiceNext
    <3>1. pod[p].env \in Name
      BY <2>4 DEF Enroll, Enrolled, AgentInv, AgentTypeOK, PodOK, PodRecord, At
    <3> QED
      BY <2>4, <3>1 DEF Enroll, Enrolled, ServiceNext
  <2>5. ASSUME NEW p \in Pod, RoundStep(p), ~Enroll(p), ~Enrolled(p)
        PROVE  UNCHANGED service
    BY <2>5 DEF RoundStep, Load, Heartbeat, Call, SnapshotFails, RoundSucceeds, Unauthorized,
       StoreRead, StoreWrite
  <2>6. ASSUME NEW p \in Pod, StartPod(p) \/ Exit(p) \/ AnswerLost(p) \/ StoreFails(p) \/ Kill(p)
        PROVE  UNCHANGED service
    BY <2>6 DEF StartPod, Exit, AnswerLost, StoreFails, Kill
  <2> QED
    BY <2>1, <2>2, <2>3, <2>4, <2>5, <2>6 DEF AgentNext, PodStep
<1> QED
  BY <1>1, <1>2, AgentInvHolds, PTL DEF AgentSpec, ServiceSpec

-----------------------------------------------------------------------------
(* Discovery. *)

DiscoverySpec == DiscoveryInit /\ [][DiscoveryNext]_discoveryVars

\* What a connector was created with passed the server's checks, so that its certificates
\* are valid from a moment that has passed.
CheckedOnce(pem) ==
  /\ ~pem.key /\ pem.blocks # <<>>
  /\ \A i \in DOMAIN pem.blocks :
       /\ pem.blocks[i].x509 /\ pem.blocks[i].ca
       /\ pem.blocks[i].from \in Int /\ pem.blocks[i].to \in Int /\ pem.blocks[i].from <= now

SettingsOK ==
  \A s \in settings :
    /\ assertHttpsUrl(s.apiUrl) /\ assertHttpsUrl(s.argoUrl)
    /\ \A pem \in s.ca : CheckedOnce(pem)

DiscoveryInv ==
  /\ now \in Nat
  /\ projectList.shape = "items"
  /\ SettingsOK

LEMMA CreatedAsChecked == ASSUME DiscoveryInv, Create PROVE DiscoveryInv'
<1>1. PICK name \in NameKind, url \in UrlKind, api \in UrlKind, ca \in {{}} \cup {{pem} : pem \in Pem} :
        /\ assertClusterArgoUrl(url) /\ publicApiUrl(api)
        /\ \A pem \in ca : assertCaCertificate(pem, now)
        /\ settings' = {[label |-> Label(name), argoUrl |-> url, apiUrl |-> api, ca |-> ca]}
  BY DEF Create
<1>2. PICK s : s = [label |-> Label(name), argoUrl |-> url, apiUrl |-> api, ca |-> ca]
  OBVIOUS
<1>3. settings' = {s} /\ s.argoUrl = url /\ s.apiUrl = api /\ s.ca = ca
  BY <1>1, <1>2
<1>4. assertHttpsUrl(api) /\ assertHttpsUrl(url)
  BY <1>1 DEF assertClusterArgoUrl, publicApiUrl, assertHttpsUrl
<1>5. ASSUME NEW pem \in ca PROVE CheckedOnce(pem)
  <2>1. pem \in Pem /\ assertCaCertificate(pem, now)
    BY <1>1
  <2>2. ASSUME NEW i \in DOMAIN pem.blocks
        PROVE  pem.blocks[i].from \in Int /\ pem.blocks[i].to \in Int
    <3>1. pem.blocks = <<>> \/ \E c \in Certificate : pem.blocks = <<c>>
      BY <2>1 DEF Pem
    <3>2. pem.blocks[i] \in Certificate
      BY <2>2, <3>1
    <3> QED
      BY <3>2 DEF Certificate, Moment
  <2> QED
    BY <2>1, <2>2 DEF assertCaCertificate, CheckedOnce
<1>6. UNCHANGED <<projectList, now>>
  BY DEF Create
<1>7. \A pem \in ca : CheckedOnce(pem)'
  BY <1>5, <1>6 DEF CheckedOnce
<1> QED
  BY <1>3, <1>4, <1>6, <1>7 DEF DiscoveryInv, SettingsOK

LEMMA DiscoveryStarts == DiscoveryInit => DiscoveryInv
BY DEF DiscoveryInit, DiscoveryInv, SettingsOK

LEMMA DiscoverySteps == DiscoveryInv /\ [DiscoveryNext]_discoveryVars => DiscoveryInv'
<1> SUFFICES ASSUME DiscoveryInv, [DiscoveryNext]_discoveryVars PROVE DiscoveryInv'
  OBVIOUS
<1>1. CASE AddsProject
  <2>1. UNCHANGED <<settings, now>>
    BY <1>1 DEF AddsProject
  <2>2. projectList'.shape = projectList.shape
    BY <1>1 DEF AddsProject
  <2> QED
    BY <2>1, <2>2 DEF DiscoveryInv, SettingsOK, CheckedOnce
<1>2. CASE UNCHANGED <<projectList, settings, now>>
  BY <1>2 DEF DiscoveryInv, SettingsOK, CheckedOnce
<1>3. CASE Passes
  <2>1. now' \in Nat /\ now <= now' /\ UNCHANGED <<projectList, settings>>
    BY <1>3 DEF Passes, DiscoveryInv
  <2>2. \A pem : CheckedOnce(pem) => CheckedOnce(pem)'
    BY <2>1 DEF CheckedOnce, DiscoveryInv
  <2>3. SettingsOK'
    BY <2>1, <2>2 DEF DiscoveryInv, SettingsOK
  <2> QED
    BY <2>1, <2>3 DEF DiscoveryInv
<1>4. \/ Create \/ AddsProject \/ Passes
      \/ UNCHANGED <<projectList, settings, now>>
  BY DEF DiscoveryNext, discoveryVars, AddsApplication, Deploys, Says
<1> QED
  BY <1>1, <1>2, <1>3, <1>4, CreatedAsChecked

\* The agent of a connector that could be created starts until its certificate expires,
\* if its name makes a label (assertCaCertificate, validateCaPem, publicApiUrl).
THEOREM CreatedStarts == DiscoverySpec => []StartsAsCreated
<1>1. ASSUME DiscoveryInv, NEW s \in settings, ~Expired(s)
      PROVE  /\ assertHttpsUrl(s.apiUrl) /\ assertHttpsUrl(s.argoUrl)
             /\ \A pem \in s.ca : validateCaPem(pem, now)
  <2>1. assertHttpsUrl(s.apiUrl) /\ assertHttpsUrl(s.argoUrl) /\ \A pem \in s.ca : CheckedOnce(pem)
    BY <1>1 DEF DiscoveryInv, SettingsOK
  <2>2. ASSUME NEW pem \in s.ca PROVE validateCaPem(pem, now)
    <3>1. CheckedOnce(pem) /\ \A i \in DOMAIN pem.blocks : ~(pem.blocks[i].to <= now)
      BY <1>1, <2>1 DEF Expired
    <3>2. \A i \in DOMAIN pem.blocks : pem.blocks[i].to > now
      BY <1>1, <3>1 DEF CheckedOnce, DiscoveryInv
    <3> QED
      BY <3>1, <3>2 DEF CheckedOnce, validateCaPem
  <2> QED
    BY <2>1, <2>2
<1>2. DiscoveryInv => StartsAsCreated
  BY <1>1 DEF StartsAsCreated, AgentStarts
<1> QED
  BY <1>2, DiscoveryStarts, DiscoverySteps, PTL DEF DiscoverySpec

-----------------------------------------------------------------------------
(* What is imported, of any answer of Argo CD. *)

\* An item of a list, with any history and any messages.
Item == [object : BOOLEAN, name : BOOLEAN, finished : {NoTime, 1}, history : Seq(Entry),
         said : Seq(Signal)]

ListsOK ==
  /\ applicationList \in [shape : Shape, items : Seq(Item)]
  /\ projectList \in [shape : {"items"}, items : Seq([object : {TRUE}, name : BOOLEAN])]

LEMMA ListSteps == ListsOK /\ [DiscoveryNext]_discoveryVars => ListsOK'
<1> SUFFICES ASSUME ListsOK, [DiscoveryNext]_discoveryVars PROVE ListsOK'
  OBVIOUS
<1>1. applicationList.items \in Seq(Item) /\ applicationList.shape \in Shape
      /\ applicationList = [shape |-> applicationList.shape, items |-> applicationList.items]
  BY DEF ListsOK
<1>2. CASE AddsApplication
  <2>1. PICK d \in Document : applicationList' = [applicationList EXCEPT !.items = Append(@, d)]
    BY <1>2 DEF AddsApplication
  <2>2. d \in Item
    <3> DEFINE Empty ==
          /\ d = [object |-> d.object, name |-> d.name, finished |-> d.finished,
                  history |-> d.history, said |-> d.said]
          /\ d.object \in BOOLEAN /\ d.name \in BOOLEAN /\ d.finished \in {NoTime, 1}
          /\ d.history = <<>> /\ d.said = <<>>
    <3>1. Empty
      <4>1. CASE d \in [object : {TRUE}, name : {TRUE}, finished : {NoTime, 1},
                         history : {<<>>}, said : {<<>>}]
        BY <4>1
      <4>2. ASSUME NEW o \in BOOLEAN,
                   d = [object |-> o, name |-> FALSE, finished |-> NoTime,
                        history |-> <<>>, said |-> <<>>]
            PROVE  Empty
        BY <4>2
      <4>3. \/ d \in [object : {TRUE}, name : {TRUE}, finished : {NoTime, 1},
                         history : {<<>>}, said : {<<>>}]
            \/ \E o \in BOOLEAN : d = [object |-> o, name |-> FALSE, finished |-> NoTime,
                                       history |-> <<>>, said |-> <<>>]
        BY <2>1, Zenon DEF Document
      <4> QED
        <5> HIDE DEF Empty
        <5> QED
          BY <4>1, <4>2, <4>3
    <3>2. <<>> \in Seq(Entry) /\ <<>> \in Seq(Signal)
      BY EmptySeq
    <3> QED
      BY <3>1, <3>2 DEF Item
  <2>3. Append(applicationList.items, d) \in Seq(Item)
    BY <1>1, <2>2, AppendProperties
  <2> QED
    BY <1>1, <1>2, <2>1, <2>3 DEF ListsOK, AddsApplication
<1>3. ASSUME NEW i \in DOMAIN applicationList.items, NEW d \in Item,
             applicationList' = [applicationList EXCEPT !.items[i] = d], UNCHANGED projectList
      PROVE  ListsOK'
  <2>1. i \in 1..Len(applicationList.items)
    BY <1>1, <1>3, LenProperties
  <2>2. [applicationList.items EXCEPT ![i] = d] \in Seq(Item)
    BY <1>1, <1>3, <2>1, ExceptSeq
  <2> QED
    BY <1>1, <1>3, <2>2 DEF ListsOK
<1>4. ASSUME NEW i \in DOMAIN applicationList.items
      PROVE  applicationList.items[i] \in Item
  <2>1. i \in 1..Len(applicationList.items)
    BY <1>1, <1>4, LenProperties
  <2> QED
    BY <1>1, <2>1, ElementOfSeq
<1>5. CASE Deploys
  <2>1. PICK i \in DOMAIN applicationList.items, e \in Entry :
          applicationList' = [applicationList EXCEPT !.items[i].history = Append(@, e)]
    BY <1>5 DEF Deploys
  <2>2. PICK old : old = applicationList.items[i]
    OBVIOUS
  <2>3. PICK d : d = [old EXCEPT !.history = Append(@, e)]
    OBVIOUS
  <2>4. old \in Item
    BY <1>4, <2>2
  <2>5. Append(old.history, e) \in Seq(Entry)
    BY <2>1, <2>4, AppendProperties DEF Item
  <2>6. d \in Item
    BY <2>3, <2>4, <2>5 DEF Item
  <2>7. applicationList' = [applicationList EXCEPT !.items[i] = d]
    BY <1>1, <2>1, <2>2, <2>3
  <2> QED
    BY <1>3, <1>5, <2>6, <2>7 DEF Deploys
<1>6. CASE Says
  <2>1. PICK i \in DOMAIN applicationList.items, s \in Signal :
          applicationList' = [applicationList EXCEPT !.items[i].said = Append(@, s)]
    BY <1>6 DEF Says
  <2>2. PICK old : old = applicationList.items[i]
    OBVIOUS
  <2>3. PICK d : d = [old EXCEPT !.said = Append(@, s)]
    OBVIOUS
  <2>4. old \in Item
    BY <1>4, <2>2
  <2>5. Append(old.said, s) \in Seq(Signal)
    BY <2>1, <2>4, AppendProperties DEF Item
  <2>6. d \in Item
    BY <2>3, <2>4, <2>5 DEF Item
  <2>7. applicationList' = [applicationList EXCEPT !.items[i] = d]
    BY <1>1, <2>1, <2>2, <2>3
  <2> QED
    BY <1>3, <1>6, <2>6, <2>7 DEF Says
<1>7. CASE AddsProject
  <2>1. PICK named \in BOOLEAN :
          projectList' = [projectList EXCEPT !.items = Append(@, [object |-> TRUE, name |-> named])]
    BY <1>7 DEF AddsProject
  <2>2. PICK p : p = [object |-> TRUE, name |-> named]
    OBVIOUS
  <2>3. p \in [object : {TRUE}, name : BOOLEAN]
    BY <2>2
  <2>4. Append(projectList.items, p) \in Seq([object : {TRUE}, name : BOOLEAN])
    BY <2>3, AppendProperties DEF ListsOK
  <2>5. projectList' = [projectList EXCEPT !.items = Append(projectList.items, p)]
    BY <2>1, <2>2
  <2>6. projectList' \in [shape : {"items"}, items : Seq([object : {TRUE}, name : BOOLEAN])]
    BY <2>4, <2>5 DEF ListsOK
  <2> QED
    BY <1>7, <2>6 DEF ListsOK, AddsProject
<1>8. CASE UNCHANGED <<applicationList, projectList>>
  BY <1>8 DEF ListsOK
<1>9. AddsApplication \/ Deploys \/ Says \/ AddsProject \/ UNCHANGED <<applicationList, projectList>>
  BY DEF DiscoveryNext, discoveryVars, Create, Passes
<1> QED
  BY <1>2, <1>5, <1>6, <1>7, <1>8, <1>9

LEMMA EntryTime == \A e \in Entry : e.deployedAt \in Int
<1> TAKE e \in Entry
<1>1. CASE e \in [deployedAt : Moment, revision : {TRUE}]
  BY <1>1, MomentAssumption DEF Moment
<1>2. CASE e = [deployedAt |-> NoTime, revision |-> TRUE]
  BY <1>2 DEF NoTime
<1>3. CASE e = [deployedAt |-> 0, revision |-> FALSE]
  BY <1>3
<1> QED
  BY <1>1, <1>2, <1>3 DEF Entry

\* The usable records, each once, newest first.
LEMMA MapsHistory ==
  ASSUME NEW entries \in Seq(Entry)
  PROVE  /\ mapHistory(entries) \in Seq(Entry)
         /\ Len(mapHistory(entries)) = Cardinality(UsableEntries(entries))
         /\ \A m, n \in DOMAIN mapHistory(entries) :
              m < n => mapHistory(entries)[m].deployedAt >= mapHistory(entries)[n].deployedAt
<1>1. PICK S : S = UsableEntries(entries)
  OBVIOUS
<1>2. PICK key : key = [n \in DOMAIN entries |-> entries[n].deployedAt]
  OBVIOUS
<1>3. S \subseteq DOMAIN entries
  BY <1>1 DEF UsableEntries
<1>4. S \subseteq Int /\ IsFiniteSet(S) /\ \A i \in S : entries[i] \in Entry
  BY <1>3, Positions
<1>5. \A e \in Entry : e.deployedAt \in Int
  BY EntryTime
<1>6. \A i \in S : key[i] = entries[i].deployedAt /\ key[i] \in Int
  BY <1>2, <1>3, <1>4, <1>5
<1>7. PICK before : before = Descending(S, key)
  OBVIOUS
<1>8. IsOrder(S, before)
  BY <1>4, <1>6, <1>7, DescendingOrders
<1>9. PICK order : order = InOrder(S, before)
  OBVIOUS
<1>10. /\ order \in Seq(S) /\ Len(order) = Cardinality(S)
       /\ \A m, n \in DOMAIN order : m < n => <<order[m], order[n]>> \in before
  BY <1>4, <1>8, <1>9, Ordered
<1>11. PICK h : h = Arranged(entries, order)
  OBVIOUS
<1>12. mapHistory(entries) = h
  BY <1>1, <1>2, <1>7, <1>9, <1>11 DEF mapHistory
<1>13. /\ h \in Seq(Entry) /\ Len(h) = Len(order) /\ DOMAIN h = DOMAIN order
       /\ \A n \in DOMAIN order : order[n] \in S /\ h[n] = entries[order[n]]
  <2>1. order \in Seq(S)
    BY <1>10
  <2>2. \A i \in S : entries[i] \in Entry
    BY <1>4
  <2> QED
    BY <1>11, <2>1, <2>2, Arranges
<1>14. ASSUME NEW m \in DOMAIN h, NEW n \in DOMAIN h, m < n
       PROVE  h[m].deployedAt >= h[n].deployedAt
  <2>1. <<order[m], order[n]>> \in before /\ order[m] \in S /\ order[n] \in S
    BY <1>10, <1>13, <1>14
  <2>2. key[order[m]] >= key[order[n]]
    BY <1>6, <1>7, <2>1 DEF Descending
  <2> QED
    BY <1>6, <1>13, <1>14, <2>1, <2>2
<1> QED
  BY <1>1, <1>10, <1>12, <1>13, <1>14

\* Every message once.
LEMMA MapsSignals ==
  ASSUME NEW said \in Seq(Signal)
  PROVE  IsInjective(mapSignals(said)) /\ Range(mapSignals(said)) = Range(said) \ Blank
<1>1. PICK S : S = {n \in DOMAIN said : said[n] \notin Blank /\ \A m \in 1..(n - 1) : said[m] # said[n]}
  OBVIOUS
<1>2. S \subseteq DOMAIN said
  BY <1>1
<1>3. PICK s : s = mapSignals(said)
  OBVIOUS
<1>4. s = Selected(said, S)
  BY <1>1, <1>3 DEF mapSignals
<1>5. PICK order \in Seq(S) :
        /\ DOMAIN s = DOMAIN order
        /\ \A n \in DOMAIN order : order[n] \in S /\ s[n] = said[order[n]]
        /\ \A i \in S : \E n \in DOMAIN order : order[n] = i
        /\ \A m, n \in DOMAIN order : m < n => order[m] < order[n]
  BY <1>2, <1>4, Selects
<1>6. DOMAIN said = 1..Len(said) /\ Len(said) \in Nat /\ DOMAIN order = 1..Len(order) /\ Len(order) \in Nat
  BY LenProperties
<1>7. ASSUME NEW i \in S, NEW j \in S, said[i] = said[j] PROVE i = j
  <2>1. i \in Nat \ {0} /\ j \in Nat \ {0}
    BY <1>2, <1>6
  <2> QED
    BY <1>1, <1>7, <2>1
<1>8. ASSUME NEW m \in DOMAIN s, NEW n \in DOMAIN s, s[m] = s[n] PROVE m = n
  <2>1. order[m] = order[n] /\ order[m] \in S
    BY <1>5, <1>7, <1>8
  <2>2. ~(m < n) /\ ~(n < m)
    <3>1. order[m] \in Int
      BY <1>2, <1>6, <2>1
    <3> QED
      BY <1>5, <2>1, <3>1, <1>8
  <2> QED
    BY <1>5, <1>6, <1>8, <2>2
<1>9. ASSUME NEW x \in Range(said) \ Blank PROVE x \in Range(s)
  <2>1. PICK T : T = {n \in DOMAIN said : said[n] = x}
    OBVIOUS
  <2>2. T \subseteq Nat /\ T # {}
    BY <1>6, <1>9, <2>1 DEF Range
  <2>3. PICK i \in T : \A n \in T : i <= n
    BY <2>2, SmallestNumber
  <2>4. \A m \in 1..(i - 1) : said[m] # x
    BY <1>6, <2>1, <2>2, <2>3
  <2>5. i \in S
    BY <1>1, <1>9, <2>1, <2>3, <2>4
  <2>6. PICK n \in DOMAIN order : order[n] = i
    BY <1>5, <2>5
  <2> QED
    BY <1>5, <2>1, <2>3, <2>6 DEF Range
<1>10. ASSUME NEW x \in Range(s) PROVE x \in Range(said) \ Blank
  <2>1. PICK n \in DOMAIN s : x = s[n]
    BY <1>10 DEF Range
  <2>2. order[n] \in S /\ x = said[order[n]]
    BY <1>5, <2>1
  <2> QED
    BY <1>1, <2>2 DEF Range
<1> QED
  BY <1>3, <1>8, <1>9, <1>10 DEF IsInjective

\* Of a document with any history and messages: its records newest first, none left out,
\* observed no earlier than any unless its operation finished, and every message once.
LEMMA MapsDocument ==
  ASSUME NEW d \in Item, NEW a, a = mapArgoApplication(d)
  PROVE  /\ \A m, n \in DOMAIN a.history : m < n => a.history[m].deployedAt >= a.history[n].deployedAt
         /\ Len(a.history) =
              Cardinality({n \in DOMAIN d.history : d.history[n].deployedAt # NoTime
                                                    /\ d.history[n].revision})
         /\ \A n \in DOMAIN a.history : a.finished = NoTime => a.lastObservedAt >= a.history[n].deployedAt
         /\ IsInjective(a.signals) /\ Range(a.signals) = Range(d.said) \ Blank
<1>1. PICK h : h = mapHistory(d.history)
  OBVIOUS
<1>2. d.history \in Seq(Entry) /\ d.said \in Seq(Signal)
  BY DEF Item
<1>3. /\ h \in Seq(Entry) /\ Len(h) = Cardinality(UsableEntries(d.history))
      /\ \A m, n \in DOMAIN h : m < n => h[m].deployedAt >= h[n].deployedAt
  BY <1>1, <1>2, MapsHistory
<1>4. /\ a.finished = d.finished /\ a.history = h /\ a.signals = mapSignals(d.said)
      /\ a.lastObservedAt = IF d.finished # NoTime THEN d.finished
                            ELSE IF h # <<>> THEN h[1].deployedAt ELSE NoTime
  BY <1>1 DEF mapArgoApplication
<1>5. ASSUME NEW n \in DOMAIN h, d.finished = NoTime PROVE a.lastObservedAt >= h[n].deployedAt
  <2>1. DOMAIN h = 1..Len(h) /\ Len(h) \in Nat /\ h # <<>> /\ 1 \in DOMAIN h
    BY <1>3, <1>5, LenProperties, EmptySeq
  <2>2. a.lastObservedAt = h[1].deployedAt
    BY <1>4, <1>5, <2>1
  <2>3. h[n].deployedAt \in Int
    BY <1>3, <1>5, <2>1, ElementOfSeq, EntryTime
  <2> QED
    BY <1>3, <1>5, <2>1, <2>2, <2>3
<1>6. IsInjective(mapSignals(d.said)) /\ Range(mapSignals(d.said)) = Range(d.said) \ Blank
  BY <1>2, MapsSignals
<1> QED
  BY <1>3, <1>4, <1>5, <1>6 DEF UsableEntries

LEMMA ReadableItems ==
  ASSUME NEW items \in Seq(Item), NEW i \in DOMAIN Readable(items)
  PROVE  Readable(items)[i] \in Item
<1>1. PICK S : S = {n \in DOMAIN items : items[n].object /\ items[n].name}
  OBVIOUS
<1>2. S \subseteq DOMAIN items /\ Readable(items) = Selected(items, S)
  BY <1>1 DEF Readable
<1>3. Selected(items, S) \in Seq(Item)
  BY <1>2, Selects
<1> QED
  BY <1>2, <1>3, ElementOfSeq, LenProperties

LEMMA NothingReadable == Readable(<<>>) = <<>> /\ Mapped(<<>>) = <<>>
<1>1. PICK items : items = <<>>
  OBVIOUS
<1>2. items \in Seq(Item) /\ Len(items) = 0
  BY <1>1, EmptySeq
<1>3. DOMAIN items = {}
  BY <1>2, LenProperties
<1>4. PICK S : S = {n \in DOMAIN items : items[n].object /\ items[n].name}
  OBVIOUS
<1>5. S = {} /\ Readable(items) = Selected(items, S)
  BY <1>3, <1>4 DEF Readable
<1>6. Selected(items, S) \in Seq(Item) /\ Len(Selected(items, S)) = Cardinality(S)
  <2>1. S \subseteq DOMAIN items /\ items \in Seq(Item)
    BY <1>2, <1>5
  <2> QED
    BY <2>1, Selects
<1>7. Readable(items) = <<>>
  BY <1>5, <1>6, FS_EmptySet, EmptySeq
<1>8. PICK none : none = Readable(items)
  OBVIOUS
<1>9. Mapped(items) = [i \in DOMAIN none |-> mapArgoApplication(none[i])]
  BY <1>8 DEF Mapped
<1>10. DOMAIN none = {}
  BY <1>1, <1>3, <1>7, <1>8
<1>11. Mapped(items) = <<>>
  BY <1>9, <1>10
<1> QED
  BY <1>1, <1>7, <1>11

LEMMA ImportsTheSame == ListsOK /\ DiscoveryInv => SameImport
<1> SUFFICES ASSUME ListsOK, DiscoveryInv PROVE SameImport
  OBVIOUS
<1>1. applicationList.items \in Seq(Item) /\ projectList.shape = "items"
  BY DEF ListsOK, DiscoveryInv
<1>2. ASSUME NEW saved \in Imported
      PROVE  saved = [applications |-> IF MissedByAgent THEN <<>> ELSE listApplications,
                      projects |-> listProjects]
  <2>1. /\ MissedByAgent => itemsOf(applicationList) = <<>>
        /\ ~MissedByAgent => itemsOf(applicationList) = extractArgoItems(applicationList)
    BY DEF MissedByAgent, itemsOf, extractArgoItems, Items
  <2>2. itemsOf(projectList) = extractArgoItems(projectList)
    BY <1>1 DEF itemsOf, extractArgoItems, Items
  <2>3. PICK s \in readArgo : saved = importDiscovered(s)
    BY <1>2 DEF Imported
  <2>4. s.applications = itemsOf(applicationList) /\ s.projects = itemsOf(projectList)
    BY <2>3 DEF readArgo
  <2>5. MissedByAgent => Mapped(s.applications) = <<>>
    BY <2>1, <2>4, NothingReadable
  <2>6. ~MissedByAgent => Mapped(s.applications) = listApplications
    BY <2>1, <2>4 DEF listApplications
  <2> QED
    BY <2>2, <2>3, <2>4, <2>5, <2>6 DEF importDiscovered, listProjects
<1>3. ASSUME NEW s \in readArgo PROVE ~TooMany(s)
  <2>1. /\ s.applications = itemsOf(applicationList) /\ s.projects = itemsOf(projectList)
        /\ ~(Len(itemsOf(applicationList)) > AGENT_APPLICATIONS)
        /\ ~(Len(itemsOf(projectList)) > AGENT_PROJECTS)
    BY <1>3 DEF readArgo
  <2>2. Len(itemsOf(applicationList)) \in Nat /\ Len(itemsOf(projectList)) \in Nat
    BY <1>1, LenProperties, EmptySeq DEF ListsOK, itemsOf, Items
  <2> QED
    BY <2>1, <2>2, LimitAssumption DEF TooMany
<1>4. ASSUME NEW i \in DOMAIN listApplications
      PROVE  LET a == listApplications[i]
                 d == Readable(applicationList.items)[i]
             IN  /\ \A m, n \in DOMAIN a.history : m < n => a.history[m].deployedAt >= a.history[n].deployedAt
                 /\ Len(a.history) =
                      Cardinality({n \in DOMAIN d.history : d.history[n].deployedAt # NoTime
                                                            /\ d.history[n].revision})
                 /\ \A n \in DOMAIN a.history : a.finished = NoTime => a.lastObservedAt >= a.history[n].deployedAt
                 /\ IsInjective(a.signals) /\ Range(a.signals) = Range(d.said) \ Blank
  <2>1. PICK items \in Seq(Item) : items = extractArgoItems(applicationList)
    BY <1>1, EmptySeq DEF extractArgoItems, Items
  <2>2. i \in DOMAIN Readable(items) /\ listApplications[i] = mapArgoApplication(Readable(items)[i])
    BY <1>4, <2>1 DEF listApplications, Mapped
  <2>3. items = applicationList.items
    <3>1. items # <<>>
      BY <2>2, NothingReadable
    <3> QED
      BY <2>1, <3>1 DEF extractArgoItems, Items
  <2>4. PICK d \in Item : d = Readable(items)[i]
    BY <2>2, ReadableItems
  <2>5. PICK a : a = mapArgoApplication(d)
    OBVIOUS
  <2>6. listApplications[i] = a /\ Readable(applicationList.items)[i] = d
    BY <2>2, <2>3, <2>4, <2>5
  <2> QED
    BY <2>4, <2>5, <2>6, MapsDocument
<1>5. ASSUME MissedByAgent, projectList.items = <<>>, ~(size > MAX_CHARS \/ size > MAX_BODY_CHARS)
      PROVE  Imported = {[applications |-> <<>>, projects |-> 0]}
  <2> DEFINE s == [applications |-> <<>>, projects |-> <<>>]
  <2>1. itemsOf(applicationList) = <<>> /\ itemsOf(projectList) = <<>>
    BY <1>1, <1>5 DEF MissedByAgent, itemsOf, Items
  <2>2. readArgo = {s}
    BY <1>5, <2>1, LimitAssumption DEF readArgo
  <2>3. assertSnapshotShape(s)
    BY <1>5, LimitAssumption DEF assertSnapshotShape, TooMany, Unreadable
  <2>4. importDiscovered(s) = [applications |-> <<>>, projects |-> 0]
    BY NothingReadable DEF importDiscovered
  <2>5. ~Nothing(importDiscovered(s), s)
    BY DEF Nothing
  <2> QED
    BY <2>2, <2>3, <2>4, <2>5 DEF Imported
<1> QED
  BY <1>2, <1>3, <1>4, <1>5 DEF SameImport

\* Both paths import the same of any answer of Argo CD whose list the agent reads; of any
\* other the connector imports no application and shows no error for it; and the agent of
\* a connector that could be created starts (agent.mjs, argo-application.ts, connector-protocol.ts).
THEOREM AgentAgreesHolds == DiscoverySpec => []AgentAgrees
<1>1. DiscoveryInit => ListsOK
  <2> SUFFICES ASSUME DiscoveryInit PROVE ListsOK
    OBVIOUS
  <2>1. <<>> \in Seq(Item) /\ <<>> \in Seq([object : {TRUE}, name : BOOLEAN])
    BY EmptySeq
  <2>2. applicationList \in [shape : Shape, items : {<<>>}]
        /\ projectList = [shape |-> "items", items |-> <<>>]
    BY DEF DiscoveryInit
  <2>3. applicationList \in [shape : Shape, items : Seq(Item)]
    BY <2>1, <2>2
  <2>4. projectList \in [shape : {"items"}, items : Seq([object : {TRUE}, name : BOOLEAN])]
    BY <2>1, <2>2
  <2> QED
    BY <2>3, <2>4 DEF ListsOK
<1>2. ListsOK /\ DiscoveryInv => SameImport
  BY ImportsTheSame
<1>3. SameImport /\ StartsAsCreated => AgentAgrees
  BY DEF AgentAgrees
<1> QED
  BY <1>1, <1>2, <1>3, ListSteps, DiscoveryStarts, DiscoverySteps, CreatedStarts, PTL DEF DiscoverySpec
=============================================================================
