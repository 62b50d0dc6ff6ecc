-------------------------- MODULE BotOperator_proofs --------------------------
(***************************************************************************)
(* Theorems of BotOperator for every number of bots, configurations,       *)
(* generations and faults.                                                 *)
(***************************************************************************)
EXTENDS BotOperator, TLAPS

------------------------------------------------------------------------------
(* Types of the values that are computed.                                  *)

LEMMA BlankTypes == /\ NoDoc \in Doc /\ NoResource \in Resource
                    /\ NoDeployment \in Deployment /\ NoReport \in Report
                    /\ NoPods \in Pods /\ NoStatus \in Status
                    /\ IdleSyncer \in Syncer /\ IdleReconciler \in Reconciler
                    /\ NothingSeen \in Seen
  BY OperatorAssumption
     DEF NoDoc, Doc, NoResource, Resource, NoDeployment, Deployment, NoReport,
         Report, NoPods, Pods, NoStatus, Status, IdleSyncer, Syncer,
         IdleReconciler, Reconciler, NothingSeen, Seen, Generations,
         DesiredStates, Phases, Conditions

LEMMA DesiredType ==
  ASSUME NEW doc \in Doc, NEW seen \in Seen
  PROVE  DesiredDeployment(doc, seen) \in Deployment
  BY DEF DesiredDeployment, Replicas, Doc, Deployment

LEMMA PhaseType ==
  ASSUME NEW doc, NEW seen
  PROVE  PhaseFor(doc, seen) \in Phases
  BY DEF PhaseFor, Phases

LEMMA StatusType ==
  ASSUME NEW doc \in Doc, NEW phase \in Phases, NEW seen \in Seen
  PROVE  StatusFor(doc, phase, seen) \in Status
  BY DEF StatusFor, Status, Doc, Seen

------------------------------------------------------------------------------
(* The invariant.  A pass of the reconciler is about a bot; until it       *)
(* writes the status it holds a resource, and a status for that resource's *)
(* spec.  The control plane withdraws a contract for good.  A resource was *)
(* published once, and the syncer takes for orphans only bots whose        *)
(* contracts were withdrawn: one it did not list is either that, or has    *)
(* no resource yet, and gets none in this pass.                            *)

Known(b) == Listed(b) \/ b \in ended

Blank(b) == /\ resources[b] = NoResource /\ cache.resources[b] = NoResource
            /\ syncer.todo[b] = NoDoc

ReconcilerInv ==
    /\ reconciler.pc # "idle" => reconciler.bot \in Bots
    /\ reconciler.pc = "status" =>
         /\ reconciler.res.doc.gen > 0
         /\ reconciler.next.gen = reconciler.res.doc.gen

FeedInv ==
    \A b \in Bots : /\ feed[b] # NoDoc <=> Listed(b)
                    /\ Listed(b) => b \notin ended

SyncerInv ==
    /\ \A b \in Bots : Known(b) \/ Blank(b)
    /\ \A b \in Bots : syncer.todo[b] # NoDoc => syncer.todo[b].gen > 0
    /\ syncer.pc = "apply" =>
         \A b \in Bots \ syncer.expected : b \in ended \/ Blank(b)
    /\ syncer.orphans \subseteq ended

OperatorInv == TypeOK /\ ReconcilerInv /\ FeedInv /\ SyncerInv

LEMMA OperatorInit == Init => OperatorInv
<1> SUFFICES ASSUME Init PROVE OperatorInv
  OBVIOUS
<1>1. TypeOK
  <2>1. recorded \in [Bots -> Generations] /\ faults \in 0..MaxFaults
    BY OperatorAssumption DEF Init, Generations
  <2> QED BY <2>1, BlankTypes DEF Init, TypeOK
<1>2. ReconcilerInv /\ FeedInv
  BY DEF Init, ReconcilerInv, FeedInv, IdleReconciler, Listed, NoDoc
<1>3. SyncerInv
  BY DEF Init, SyncerInv, IdleSyncer, Blank, NoDoc
<1> QED BY <1>1, <1>2, <1>3 DEF OperatorInv

\* What holds of the syncer goes on holding if a step leaves it alone, and adds
\* no resource to a bot that has none.
LEMMA SyncerKept ==
  ASSUME SyncerInv, UNCHANGED syncer, ended \subseteq ended',
         \A b \in Bots : Known(b) => Known(b)',
         \A b \in Bots : Blank(b) => Blank(b)'
  PROVE  SyncerInv'
  BY DEF SyncerInv

------------------------------------------------------------------------------
(* The control plane.                                                      *)

ControlPlaneStep(b) ==
    Publish(b) \/ Record(b) \/ Withdraw(b) \/ Republish(b)

LEMMA DocumentType ==
  ASSUME NEW gen \in Generations, NEW doc \in Document(gen)
  PROVE  doc \in Doc /\ doc.gen = gen
  BY DEF Document, Doc

LEMMA PublishedFeed ==
  ASSUME OperatorInv, NEW b \in Bots, recorded[b] + 1 \in Generations,
         \E doc \in Document(recorded[b] + 1) : Feed!Publish(b, doc)
  PROVE  /\ feed' \in [Bots -> Doc] /\ FeedInv'
         /\ \A c \in Bots : Known(c) => Known(c)'
         /\ UNCHANGED <<recorded, ended>>
<1>1. PICK doc \in Document(recorded[b] + 1) : Feed!Publish(b, doc)
  OBVIOUS
<1>2. doc \in Doc /\ doc.gen = recorded[b] + 1
  BY DocumentType
<1>3. doc.gen > 0 /\ doc # NoDoc
  BY <1>2 DEF OperatorInv, TypeOK, Generations, NoDoc
<1>4. feed' = [feed EXCEPT ![b] = doc] /\ b \notin ended
      /\ UNCHANGED <<recorded, ended>>
  BY <1>1 DEF Feed!Publish
<1> QED BY <1>2, <1>3, <1>4 DEF OperatorInv, TypeOK, FeedInv, Known, Listed

LEMMA WithdrawnFeed ==
  ASSUME OperatorInv, NEW b \in Bots, Feed!Withdraw(b)
  PROVE  /\ feed' \in [Bots -> Doc] /\ recorded' \in [Bots -> Generations]
         /\ ended' \in SUBSET Bots /\ ended \subseteq ended' /\ FeedInv'
         /\ \A c \in Bots : Known(c) => Known(c)'
<1>1. /\ feed' = [feed EXCEPT ![b] = NoDoc]
      /\ recorded' = [recorded EXCEPT ![b] = 0]
      /\ ended' = ended \union {b}
  BY DEF Feed!Withdraw
<1>2. feed' \in [Bots -> Doc] /\ recorded' \in [Bots -> Generations]
  BY <1>1, BlankTypes, OperatorAssumption DEF OperatorInv, TypeOK, Generations
<1>3. FeedInv' /\ \A c \in Bots : Known(c) => Known(c)'
  BY <1>1 DEF OperatorInv, TypeOK, FeedInv, Known, Listed, NoDoc
<1> QED BY <1>1, <1>2, <1>3 DEF OperatorInv, TypeOK

LEMMA ControlPlaneInv ==
  ASSUME OperatorInv, NEW b \in Bots, ControlPlaneStep(b)
  PROVE  OperatorInv'
<1>1. UNCHANGED operator /\ UNCHANGED <<said, pods>>
  BY DEF ControlPlaneStep, Publish, Record, Withdraw, Republish
<1>2. faults' \in 0..MaxFaults
  BY OperatorAssumption
     DEF ControlPlaneStep, Publish, Record, Withdraw, Republish, Fault,
         OperatorInv, TypeOK
<1>3. /\ feed' \in [Bots -> Doc] /\ recorded' \in [Bots -> Generations]
      /\ ended' \in SUBSET Bots /\ ended \subseteq ended' /\ FeedInv'
      /\ \A c \in Bots : Known(c) => Known(c)'
  <2> recorded[b] \in Generations /\ recorded \in [Bots -> Generations]
      /\ ended \in SUBSET Bots /\ feed[b].gen \in Generations
    BY DEF OperatorInv, TypeOK, Doc
  <2>1. CASE Publish(b)
    <3>1. recorded[b] + 1 \in Generations
      BY <2>1, OperatorAssumption DEF Publish, Generations
    <3> QED BY <2>1, <3>1, PublishedFeed DEF Publish
  <2>2. CASE Republish(b)
    <3>1. recorded[b] + 1 \in Generations
      BY <2>2 DEF Republish, Generations
    <3> QED BY <2>2, <3>1, PublishedFeed DEF Republish
  <2>3. CASE Record(b)
    <3>1. recorded' = [recorded EXCEPT ![b] = @ + 1]
          /\ feed[b].gen = recorded[b] + 1 /\ UNCHANGED <<feed, ended>>
      BY <2>3 DEF Record, Feed!Record
    <3> QED BY <3>1 DEF OperatorInv, TypeOK, FeedInv, Known, Listed
  <2>4. CASE Withdraw(b)
    BY <2>4, WithdrawnFeed DEF Withdraw
  <2> QED BY <2>1, <2>2, <2>3, <2>4 DEF ControlPlaneStep
<1>4. SyncerInv'
  BY <1>1, <1>3, SyncerKept DEF OperatorInv, operator, Blank
<1> QED BY <1>1, <1>2, <1>3, <1>4
        DEF OperatorInv, TypeOK, ReconcilerInv, operator

------------------------------------------------------------------------------
(* The syncer.                                                             *)

LEMMA SyncerListInv ==
  ASSUME OperatorInv, SyncerList
  PROVE  OperatorInv'
<1>1. syncer' = [IdleSyncer EXCEPT !.pc = "apply", !.todo = feed,
                                   !.expected = {b \in Bots : Listed(b)}]
  BY DEF SyncerList
<1>2. /\ syncer' \in Syncer /\ syncer'.todo = feed /\ syncer'.orphans = {}
      /\ syncer'.expected = {b \in Bots : Listed(b)}
  BY <1>1 DEF IdleSyncer, Syncer, OperatorInv, TypeOK
<1>3. SyncerInv'
  BY <1>2 DEF SyncerList, SyncerInv, OperatorInv, FeedInv, controlPlane, Known,
              Blank, Listed
<1> QED BY <1>2, <1>3
        DEF SyncerList, OperatorInv, TypeOK, ReconcilerInv, FeedInv, Listed,
            controlPlane

LEMMA SyncerApplyInv ==
  ASSUME OperatorInv, NEW b \in Bots, SyncerApply(b)
  PROVE  OperatorInv'
<1>1. CASE cache.resources[b] = resources[b]
  <2>1. /\ resources' = [resources EXCEPT ![b].doc = syncer.todo[b]]
        /\ syncer' = [syncer EXCEPT !.todo[b] = NoDoc]
    BY <1>1 DEF SyncerApply
  <2>2. resources' \in [Bots -> Resource]
    BY <2>1 DEF OperatorInv, TypeOK, Syncer, Resource
  <2>3. /\ syncer' \in Syncer /\ syncer'.pc = syncer.pc
        /\ syncer'.expected = syncer.expected
        /\ syncer'.orphans = syncer.orphans
        /\ syncer'.todo = [syncer.todo EXCEPT ![b] = NoDoc]
    BY <2>1, BlankTypes DEF OperatorInv, TypeOK, Syncer
  <2>4. syncer.todo \in [Bots -> Doc]
    BY DEF OperatorInv, TypeOK, Syncer
  <2>5. SyncerInv'
    BY <2>1, <2>3, <2>4
       DEF SyncerApply, OperatorInv, TypeOK, SyncerInv, Known, Listed, Blank,
           controlPlane
  <2> QED BY <2>2, <2>3, <2>5
          DEF SyncerApply, OperatorInv, TypeOK, ReconcilerInv, FeedInv, Listed,
              controlPlane
<1>2. CASE cache.resources[b] # resources[b]
  <2>1. /\ syncer' = IdleSyncer /\ syncer' \in Syncer
        /\ UNCHANGED <<controlPlane, queue, reconciler, resources, deployments,
                       cache, pods, faults>>
    BY <1>2, BlankTypes DEF SyncerApply
  <2>2. SyncerInv'
    BY <2>1 DEF OperatorInv, SyncerInv, IdleSyncer, Known, Listed, Blank,
                controlPlane
  <2> QED BY <2>1, <2>2
          DEF OperatorInv, TypeOK, ReconcilerInv, FeedInv, Listed, controlPlane
<1> QED BY <1>1, <1>2

LEMMA SyncerOrphansInv ==
  ASSUME OperatorInv, SyncerListOrphans
  PROVE  OperatorInv'
<1>1. syncer' = [IdleSyncer EXCEPT !.pc = "orphans", !.orphans =
           {b \in Bots : cache.resources[b] # NoResource} \ syncer.expected]
      /\ syncer.pc = "apply"
  BY DEF SyncerListOrphans
<1>2. /\ syncer' \in Syncer /\ syncer'.pc = "orphans"
      /\ syncer'.todo = [b \in Bots |-> NoDoc]
      /\ syncer'.orphans =
           {b \in Bots : cache.resources[b] # NoResource} \ syncer.expected
  BY <1>1, BlankTypes DEF IdleSyncer, Syncer
<1>3. SyncerInv'
  BY <1>1, <1>2 DEF SyncerListOrphans, OperatorInv, SyncerInv, Known, Listed,
                    Blank, controlPlane
<1> QED BY <1>2, <1>3
        DEF SyncerListOrphans, OperatorInv, TypeOK, ReconcilerInv, FeedInv,
            Listed, controlPlane

LEMMA SyncerDeleteInv ==
  ASSUME OperatorInv, NEW b \in Bots, SyncerDelete(b)
  PROVE  OperatorInv'
<1>1. /\ syncer' = [syncer EXCEPT !.orphans = @ \ {b}]
      /\ resources' = [resources EXCEPT ![b] = NoResource]
  BY DEF SyncerDelete
<1>2. /\ syncer' \in Syncer /\ syncer'.pc = syncer.pc
      /\ syncer'.expected = syncer.expected /\ syncer'.todo = syncer.todo
      /\ syncer'.orphans = syncer.orphans \ {b}
  BY <1>1 DEF OperatorInv, TypeOK, Syncer
<1>3. resources' \in [Bots -> Resource]
  BY <1>1, BlankTypes DEF OperatorInv, TypeOK
<1>4. SyncerInv'
  BY <1>1, <1>2 DEF SyncerDelete, OperatorInv, TypeOK, SyncerInv, Known, Listed,
                    Blank, controlPlane
<1> QED BY <1>2, <1>3, <1>4
        DEF SyncerDelete, OperatorInv, TypeOK, ReconcilerInv, FeedInv, Listed,
            controlPlane

\* A pass of the syncer is over, or has failed.
LEMMA SyncerIdleInv ==
  ASSUME OperatorInv, SyncerEnds \/ SyncerFails
  PROVE  OperatorInv'
<1>1. /\ syncer' = IdleSyncer /\ syncer' \in Syncer
      /\ UNCHANGED <<controlPlane, queue, reconciler, resources, deployments,
                     cache, pods>>
  BY BlankTypes DEF SyncerEnds, SyncerFails
<1>2. faults' \in 0..MaxFaults
  BY OperatorAssumption DEF SyncerEnds, SyncerFails, Fault, OperatorInv, TypeOK
<1>3. SyncerInv'
  BY <1>1 DEF OperatorInv, SyncerInv, IdleSyncer, Known, Listed, Blank,
              controlPlane
<1> QED BY <1>1, <1>2, <1>3
        DEF OperatorInv, TypeOK, ReconcilerInv, FeedInv, Listed, controlPlane

------------------------------------------------------------------------------
(* The reconciler.                                                         *)

LEMMA GoesOnInv ==
  ASSUME OperatorInv, NEW b \in Bots, NEW phase \in Phases, NEW seen \in Seen,
         cache.resources[b].doc.gen > 0,
         GoesOn(b, StatusFor(cache.resources[b].doc, phase, seen)),
         deployments' \in [Bots -> Deployment]
  PROVE  OperatorInv'
<1>1. cache.resources[b] \in Resource /\ cache.resources[b].doc \in Doc
  BY DEF OperatorInv, TypeOK, Resource
<1> DEFINE status == StatusFor(cache.resources[b].doc, phase, seen)
<1>2. status \in Status /\ status.gen = cache.resources[b].doc.gen
  BY <1>1, StatusType DEF StatusFor
<1> HIDE DEF status
<1>3. reconciler' = [pc |-> "status", bot |-> b, res |-> cache.resources[b],
                     next |-> status]
  BY DEF GoesOn, status
<1>4. reconciler' \in Reconciler /\ ReconcilerInv'
  BY <1>1, <1>2, <1>3 DEF Reconciler, ReconcilerInv
<1>5. SyncerInv'
  BY SyncerKept DEF GoesOn, OperatorInv, Known, Listed, Blank, controlPlane
<1> QED BY <1>4, <1>5
        DEF GoesOn, OperatorInv, TypeOK, FeedInv, Listed, controlPlane

LEMMA ReconcileInv ==
  ASSUME OperatorInv, NEW b \in Bots,
         \/ ReconcileNothing(b) \/ ReconcileDeleted(b)
         \/ ReconcileCreated(b) \/ ReconcileUpdated(b)
  PROVE  OperatorInv'
<1> DEFINE doc == cache.resources[b].doc
           dep == cache.deployments[b]
<1>1. doc \in Doc /\ dep \in Deployment /\ dep.seen \in Seen
      /\ deployments \in [Bots -> Deployment]
  BY DEF OperatorInv, TypeOK, Resource, Deployment
<1>2. CASE ReconcileNothing(b)
  BY <1>2 DEF ReconcileNothing, OperatorInv, TypeOK, ReconcilerInv, FeedInv,
     SyncerInv, Known, Listed, Blank, controlPlane
<1>3. CASE ReconcileDeleted(b)
  <2>1. deployments' \in [Bots -> Deployment]
    BY <1>1, <1>3, BlankTypes DEF ReconcileDeleted
  <2> QED BY <1>3, <2>1, GoesOnInv, BlankTypes DEF ReconcileDeleted, Phases
<1>4. CASE ReconcileCreated(b)
  <2>1. deployments' \in [Bots -> Deployment]
    BY <1>1, <1>4, BlankTypes, DesiredType DEF ReconcileCreated
  <2> QED BY <1>4, <2>1, GoesOnInv, BlankTypes DEF ReconcileCreated, Phases
<1>5. CASE ReconcileUpdated(b)
  <2>1. deployments' \in [Bots -> Deployment]
    BY <1>1, <1>5, DesiredType DEF ReconcileUpdated
  <2>2. PhaseFor(doc, dep.seen) \in Phases
    BY PhaseType
  <2> QED BY <1>1, <1>5, <2>1, <2>2, GoesOnInv DEF ReconcileUpdated
<1> QED BY <1>2, <1>3, <1>4, <1>5

LEMMA UpdateStatusInv ==
  ASSUME OperatorInv, UpdateStatus
  PROVE  OperatorInv'
<1> DEFINE b == reconciler.bot
<1>1. b \in Bots /\ reconciler.pc = "status" /\ reconciler.next \in Status
      /\ reconciler.res.doc.gen > 0
  BY DEF UpdateStatus, OperatorInv, ReconcilerInv, TypeOK, Reconciler
<1>2. queue' \in SUBSET Bots
  BY <1>1 DEF UpdateStatus, Retry, OperatorInv, TypeOK
<1>3. reconciler' \in Reconciler /\ ReconcilerInv'
  <2>1. CASE reconciler' = IdleReconciler
    BY <2>1, BlankTypes DEF ReconcilerInv, IdleReconciler
  <2>2. CASE reconciler' = [reconciler EXCEPT !.pc = "report", !.res = NoResource]
    BY <1>1, <2>2, BlankTypes DEF ReconcilerInv, Reconciler, OperatorInv, TypeOK
  <2> QED BY <2>1, <2>2 DEF UpdateStatus, Retry
<1>4. /\ resources' \in [Bots -> Resource]
      /\ \A c \in Bots : resources[c] = NoResource => resources'[c] = NoResource
  <2>1. CASE resources' = [resources EXCEPT ![b].status = reconciler.next]
             /\ resources[b] = reconciler.res
    <3>1. resources[b] # NoResource
      BY <1>1, <2>1 DEF NoResource, NoDoc
    <3>2. [resources[b] EXCEPT !.status = reconciler.next] \in Resource
      BY <1>1 DEF OperatorInv, TypeOK, Resource
    <3> QED BY <1>1, <2>1, <3>1, <3>2 DEF OperatorInv, TypeOK
  <2>2. CASE UNCHANGED resources
    BY <2>2 DEF OperatorInv, TypeOK
  <2> QED BY <2>1, <2>2 DEF UpdateStatus
<1>5. SyncerInv'
  BY <1>4, SyncerKept
     DEF UpdateStatus, OperatorInv, Known, Listed, Blank, controlPlane
<1> QED BY <1>2, <1>3, <1>4, <1>5
        DEF UpdateStatus, OperatorInv, TypeOK, FeedInv, Listed, controlPlane

LEMMA ReportInv ==
  ASSUME OperatorInv, ReportBotStatus \/ ReconcilerFails
  PROVE  OperatorInv'
<1> reconciler.bot \in Bots /\ NextReport \in Report
  BY DEF ReportBotStatus, ReconcilerFails, OperatorInv, ReconcilerInv, TypeOK,
         Reconciler, Status, NextReport, Report
<1>1. said' \in [Bots -> Report] /\ queue' \in SUBSET Bots
      /\ reconciler' \in Reconciler /\ ReconcilerInv'
  BY BlankTypes
     DEF ReportBotStatus, ReconcilerFails, Retry, OperatorInv, TypeOK,
         ReconcilerInv, IdleReconciler
<1>2. faults' \in 0..MaxFaults
  BY OperatorAssumption
     DEF ReportBotStatus, ReconcilerFails, Fault, OperatorInv, TypeOK
<1>3. UNCHANGED <<feed, recorded, ended, syncer, resources, deployments, cache,
                  pods>>
  BY DEF ReportBotStatus, ReconcilerFails
<1> QED BY <1>1, <1>2, <1>3
        DEF OperatorInv, TypeOK, FeedInv, Listed, SyncerInv, Known, Blank

------------------------------------------------------------------------------
(* Events, Kubernetes and what else may fail.                              *)

LEMMA EventInv ==
  ASSUME OperatorInv, NEW b \in Bots, ResourceEvent(b) \/ DeploymentEvent(b)
  PROVE  OperatorInv'
<1>1. CASE ResourceEvent(b)
  <2>1. /\ cache' = [cache EXCEPT !.resources[b] = resources[b]]
        /\ queue' = queue \union {b}
        /\ UNCHANGED <<controlPlane, syncer, reconciler, resources, deployments,
                       pods, faults>>
    BY <1>1 DEF ResourceEvent
  <2>2. /\ cache' \in [resources : [Bots -> Resource],
                        deployments : [Bots -> Deployment]]
        /\ \A c \in Bots : cache'.resources[c] =
              IF c = b THEN resources[b] ELSE cache.resources[c]
    BY <2>1 DEF OperatorInv, TypeOK
  <2>3. SyncerInv'
    BY <2>1, <2>2, SyncerKept DEF OperatorInv, Known, Listed, Blank, controlPlane
  <2> QED BY <2>1, <2>2, <2>3
          DEF OperatorInv, TypeOK, ReconcilerInv, FeedInv, Listed, controlPlane
<1>2. CASE DeploymentEvent(b)
  <2>1. /\ cache' = [cache EXCEPT !.deployments[b] = deployments[b]]
        /\ queue' = queue \union {b}
        /\ UNCHANGED <<controlPlane, syncer, reconciler, resources, deployments,
                       pods, faults>>
    BY <1>2 DEF DeploymentEvent
  <2>2. /\ cache' \in [resources : [Bots -> Resource],
                        deployments : [Bots -> Deployment]]
        /\ cache'.resources = cache.resources
    BY <2>1 DEF OperatorInv, TypeOK
  <2>3. SyncerInv'
    BY <2>1, <2>2, SyncerKept DEF OperatorInv, Known, Listed, Blank, controlPlane
  <2> QED BY <2>1, <2>2, <2>3
          DEF OperatorInv, TypeOK, ReconcilerInv, FeedInv, Listed, controlPlane
<1> QED BY <1>1, <1>2

LEMMA ObservedType ==
  ASSUME NEW b \in Bots, pods \in [Bots -> Pods]
  PROVE  Observed(b) \in Seen
<1> DEFINE some == pods[b] # NoPods
           ready == pods[b].runs # NoConfig
           cond == IF pods[b].runs = NoConfig THEN "none" ELSE "available"
<1>1. some \in BOOLEAN /\ ready \in BOOLEAN /\ cond \in Conditions
  BY DEF Conditions
<1>2. Observed(b) = [pods |-> some, ready |-> ready, cond |-> cond]
  BY DEF Observed
<1> HIDE DEF some, ready, cond
<1> QED BY <1>1, <1>2 DEF Seen

LEMMA ClusterInv ==
  ASSUME OperatorInv, NEW b \in Bots,
         KubernetesStep(b) \/ PodDies(b) \/ PodRefused(b)
  PROVE  OperatorInv'
<1>1. UNCHANGED NotKubernetes
  BY DEF KubernetesStep, PodStarts, PodReady, PodsStop, StatusUpdated,
         GarbageCollected, PodDies, PodRefused
<1>2. faults' \in 0..MaxFaults
  BY OperatorAssumption
     DEF KubernetesStep, PodStarts, PodReady, PodsStop, StatusUpdated,
         GarbageCollected, PodDies, PodRefused, Fault, OperatorInv, TypeOK
<1>3. pods' \in [Bots -> Pods]
  <2>1. /\ pods \in [Bots -> Pods]
        /\ deployments[b].config \in Configs \union {NoConfig}
    BY DEF OperatorInv, TypeOK, Deployment
  <2>2. /\ [pods[b] EXCEPT !.starting = TRUE] \in Pods
        /\ [runs |-> deployments[b].config, starting |-> FALSE] \in Pods
        /\ [pods[b] EXCEPT !.runs = NoConfig] \in Pods
    BY <2>1 DEF Pods
  <2>3. \/ UNCHANGED pods
        \/ pods' = [pods EXCEPT ![b].starting = TRUE]
        \/ pods' = [pods EXCEPT ![b] = [runs |-> deployments[b].config,
                                       starting |-> FALSE]]
        \/ pods' = [pods EXCEPT ![b] = NoPods]
        \/ pods' = [pods EXCEPT ![b].runs = NoConfig]
    BY DEF KubernetesStep, PodStarts, PodReady, PodsStop, StatusUpdated,
           GarbageCollected, PodDies, PodRefused
  <2> QED BY <2>1, <2>2, <2>3, BlankTypes
<1>4. deployments' \in [Bots -> Deployment]
  <2>1. deployments \in [Bots -> Deployment] /\ Observed(b) \in Seen
    BY ObservedType DEF OperatorInv, TypeOK
  <2>2. [pods |-> FALSE, ready |-> FALSE, cond |-> "failed"] \in Seen
    BY DEF Seen, Conditions
  <2>3. \A seen \in Seen : [deployments[b] EXCEPT !.seen = seen] \in Deployment
    BY <2>1 DEF Deployment
  <2> QED BY <2>1, <2>2, <2>3, BlankTypes
      DEF KubernetesStep, PodStarts, PodReady, PodsStop, StatusUpdated,
          GarbageCollected, PodDies, PodRefused
<1>5. SyncerInv'
  BY <1>1, SyncerKept
     DEF NotKubernetes, OperatorInv, Known, Listed, Blank, controlPlane
<1> QED BY <1>1, <1>2, <1>3, <1>4, <1>5
        DEF NotKubernetes, OperatorInv, TypeOK, ReconcilerInv, FeedInv, Listed,
            controlPlane

LEMMA RestartInv ==
  ASSUME OperatorInv, OperatorRestarts
  PROVE  OperatorInv'
<1>1. /\ syncer' = IdleSyncer /\ reconciler' = IdleReconciler
      /\ cache' = [resources |-> resources, deployments |-> deployments]
      /\ queue' \in SUBSET Bots
      /\ UNCHANGED <<controlPlane, resources, deployments, pods>>
  BY DEF OperatorRestarts
<1>2. faults' \in 0..MaxFaults
  BY OperatorAssumption DEF OperatorRestarts, Fault, OperatorInv, TypeOK
<1>3. SyncerInv'
  BY <1>1 DEF OperatorInv, SyncerInv, IdleSyncer, Known, Listed, Blank,
              controlPlane
<1>4. ReconcilerInv'
  BY <1>1 DEF ReconcilerInv, IdleReconciler
<1>5. syncer' \in Syncer /\ reconciler' \in Reconciler
  BY <1>1, BlankTypes
<1>6. cache' \in [resources : [Bots -> Resource],
                  deployments : [Bots -> Deployment]]
  <2>1. resources \in [Bots -> Resource] /\ deployments \in [Bots -> Deployment]
    BY DEF OperatorInv, TypeOK
  <2> QED BY <1>1, <2>1
<1> QED BY <1>1, <1>2, <1>3, <1>4, <1>5, <1>6
        DEF OperatorInv, TypeOK, FeedInv, Listed, controlPlane

LEMMA OperatorStep ==
  ASSUME OperatorInv, [Next]_vars
  PROVE  OperatorInv'
<1>1. CASE UNCHANGED vars
  BY <1>1 DEF vars, OperatorInv, TypeOK, ReconcilerInv, FeedInv, Listed,
     SyncerInv, Known, Blank
<1>2. CASE SyncerStep \/ SyncerFails
  BY <1>2, SyncerListInv, SyncerApplyInv, SyncerOrphansInv, SyncerDeleteInv,
     SyncerIdleInv DEF SyncerStep
<1>3. CASE ReconcilerStep \/ ReconcilerFails
  BY <1>3, ReconcileInv, UpdateStatusInv, ReportInv DEF ReconcilerStep
<1> QED BY <1>1, <1>2, <1>3, ControlPlaneInv, EventInv, ClusterInv, RestartInv
        DEF Next, FaultStep, ControlPlaneStep

LEMMA OperatorInvariant == Spec => []OperatorInv
  BY OperatorInit, OperatorStep, PTL DEF Spec

\* Documents, objects, the cache and the two loops hold values of their types,
\* however they interleave and whatever fails.
THEOREM OperatorTypeCorrect == Spec => []TypeOK
<1>1. OperatorInv => TypeOK
  BY DEF OperatorInv
<1> QED BY <1>1, OperatorInvariant, PTL

------------------------------------------------------------------------------
(* What a step may do.                                                     *)

\* The actions that write to a resource.
LEMMA ResourceWrites ==
  ASSUME [Next]_vars, resources' # resources
  PROVE  \/ \E b \in Bots : SyncerApply(b) \/ SyncerDelete(b)
         \/ UpdateStatus
  BY DEF Next, vars, Publish, Record, Withdraw, operator, SyncerStep, SyncerList,
     SyncerListOrphans, SyncerEnds, ReconcilerStep, ReconcileNothing,
     ReconcileDeleted, ReconcileCreated, ReconcileUpdated, GoesOn,
     ReportBotStatus, ResourceEvent, DeploymentEvent, KubernetesStep, PodStarts,
     PodReady, PodsStop, StatusUpdated, GarbageCollected, NotKubernetes,
     FaultStep, PodDies, PodRefused, Republish, SyncerFails, ReconcilerFails,
     OperatorRestarts

LEMMA StatusStep ==
  ASSUME OperatorInv, [Next]_vars, NEW b \in Bots,
         HasResource(b), resources'[b].status # resources[b].status
  PROVE  ~HasResource(b)' \/ resources'[b].status.gen = resources[b].doc.gen
<1> resources \in [Bots -> Resource] /\ resources[b] \in Resource
  BY DEF OperatorInv, TypeOK
<1>1. ASSUME NEW c \in Bots, SyncerApply(c)
      PROVE  FALSE
  BY <1>1 DEF SyncerApply, Resource
<1>2. ASSUME NEW c \in Bots, SyncerDelete(c)
      PROVE  ~HasResource(b)'
  BY <1>2 DEF SyncerDelete, HasResource, NoResource, NoDoc
<1>3. CASE UpdateStatus
  <2>1. /\ reconciler.pc = "status" /\ reconciler.bot = b
        /\ resources[b] = reconciler.res
        /\ resources' = [resources EXCEPT ![b].status = reconciler.next]
    BY <1>3 DEF UpdateStatus
  <2>2. resources'[b].status = reconciler.next
    BY <2>1 DEF Resource
  <2> QED BY <2>1, <2>2 DEF OperatorInv, ReconcilerInv
<1> QED BY <1>1, <1>2, <1>3, ResourceWrites

\* A status that is written is about the spec the resource has, for any number
\* of bots and faults.
THEOREM StatusesAreOfSpecs == Spec => StatusIsOfSpec
<1>1. OperatorInv /\ [Next]_vars =>
        [\A b \in Bots :
           HasResource(b) /\ resources'[b].status # resources[b].status
           => \/ ~HasResource(b)'
              \/ resources'[b].status.gen = resources[b].doc.gen]_vars
  BY StatusStep
<1> QED BY <1>1, OperatorInvariant, PTL DEF Spec, StatusIsOfSpec

LEMMA OrphanStep ==
  ASSUME OperatorInv, [Next]_vars, NEW b \in Bots,
         HasResource(b), ~HasResource(b)'
  PROVE  ~Listed(b)
<1> resources \in [Bots -> Resource] /\ resources[b] \in Resource
    /\ resources' # resources
  BY DEF OperatorInv, TypeOK, HasResource
<1>1. ASSUME NEW c \in Bots, SyncerApply(c)
      PROVE  FALSE
  <2>1. syncer.todo[c].gen > 0
        /\ resources' = [resources EXCEPT ![c].doc = syncer.todo[c]]
    BY <1>1 DEF SyncerApply, OperatorInv, SyncerInv
  <2> QED BY <2>1 DEF HasResource, Resource
<1>2. ASSUME NEW c \in Bots, SyncerDelete(c)
      PROVE  ~Listed(b)
  <2>1. c = b /\ b \in syncer.orphans
    BY <1>2 DEF SyncerDelete, HasResource
  <2> QED BY <2>1 DEF OperatorInv, SyncerInv, FeedInv
<1>3. CASE UpdateStatus
  BY <1>3 DEF UpdateStatus, HasResource, Resource
<1> QED BY <1>1, <1>2, <1>3, ResourceWrites

\* No resource is deleted while its contract is published, whatever a pass of
\* the syncer could not list, apply or read.
THEOREM OrphansOnlyGo == Spec => OnlyOrphansGo
<1>1. OperatorInv /\ [Next]_vars =>
        [\A b \in Bots : HasResource(b) /\ ~HasResource(b)' => ~Listed(b)]_vars
  BY OrphanStep
<1> QED BY <1>1, OperatorInvariant, PTL DEF Spec, OnlyOrphansGo
------------------------------------------------------------------------------
(* Generations only grow on their way from the feed to a Deployment.  What *)
(* is nearer to the feed is not older: the contract, what the syncer has   *)
(* listed, the resource, the cached resource.  And none of these that is   *)
(* there is older than the Deployment, the last report or the one that a   *)
(* pass of the reconciler is going to send.                                *)

Promised(b) ==
    IF reconciler.pc # "idle" /\ reconciler.bot = b THEN reconciler.next.gen
                                                    ELSE 0

Reached(b, gen) ==
    /\ deployments[b].gen <= gen
    /\ said[b].gen <= gen
    /\ Promised(b) <= gen

Ordered(b) ==
    LET f == feed[b].gen
        t == syncer.todo[b].gen
        r == resources[b].doc.gen
        c == cache.resources[b].doc.gen
    IN  /\ ~Known(b) => Reached(b, 0)
        /\ f > 0 => t <= f /\ r <= f /\ c <= f /\ Reached(b, f)
        /\ t > 0 => r <= t /\ c <= t /\ Reached(b, t)
        /\ r > 0 => c <= r /\ Reached(b, r)
        /\ c > 0 => Reached(b, c)

LEMMA GenerationTypes ==
  ASSUME OperatorInv, NEW b \in Bots
  PROVE  /\ feed[b].gen \in Nat /\ syncer.todo[b].gen \in Nat
         /\ resources[b].doc.gen \in Nat /\ cache.resources[b].doc.gen \in Nat
         /\ deployments[b].gen \in Nat /\ said[b].gen \in Nat
         /\ Promised(b) \in Nat
<1>1. \A gen \in Generations : gen \in Nat
  BY OperatorAssumption DEF Generations
<1>2. feed[b] \in Doc /\ syncer.todo[b] \in Doc /\ resources[b] \in Resource
      /\ said[b] \in Report
  BY DEF OperatorInv, TypeOK, Syncer
<1>3. cache.resources[b] \in Resource
  <2>1. cache.resources \in [Bots -> Resource]
    BY DEF OperatorInv, TypeOK
  <2> QED BY <2>1
<1>4. deployments[b] \in Deployment /\ reconciler.next \in Status
  BY DEF OperatorInv, TypeOK, Reconciler
<1>5. Promised(b) \in Nat
  BY <1>1, <1>4 DEF Promised, Status
<1> QED BY <1>1, <1>2, <1>3, <1>4, <1>5 DEF Doc, Resource, Report, Deployment

LEMMA OrderedInit ==
  ASSUME Init, NEW b \in Bots
  PROVE  Ordered(b)
<1>1. /\ feed[b].gen = 0 /\ syncer.todo[b].gen = 0
      /\ resources[b].doc.gen = 0 /\ cache.resources[b].doc.gen = 0
      /\ deployments[b].gen = 0 /\ said[b].gen = 0
  BY DEF Init, NoDoc, IdleSyncer, NoResource, NoDeployment, NoReport
<1>2. Promised(b) = 0
  BY DEF Init, Promised, IdleReconciler
<1> QED BY <1>1, <1>2 DEF Ordered, Reached

\* A step may leave things alone, forget them, bring the cache up to date with
\* the resource, or accept the report that was to come.
LEMMA OrderKept ==
  ASSUME OperatorInv, NEW b \in Bots, Ordered(b),
         Known(b) => Known(b)',
         feed'[b].gen \in {feed[b].gen, 0},
         syncer'.todo[b].gen \in {syncer.todo[b].gen, 0},
         resources'[b].doc.gen \in {resources[b].doc.gen, 0},
         cache'.resources[b].doc.gen \in
             {cache.resources[b].doc.gen, resources[b].doc.gen},
         deployments'[b].gen \in {deployments[b].gen, 0},
         said'[b].gen \in {said[b].gen, Promised(b)},
         Promised(b)' \in {Promised(b), 0}
  PROVE  Ordered(b)'
<1>1. \A gen \in Nat : Reached(b, gen) => Reached(b, gen)'
  BY GenerationTypes DEF Reached
<1> QED BY <1>1, GenerationTypes DEF Ordered

LEMMA OrderedPublished ==
  ASSUME OperatorInv, NEW b \in Bots, Ordered(b), NEW x \in Bots,
         ControlPlaneStep(x)
  PROVE  Ordered(b)'
<1>1. UNCHANGED operator /\ UNCHANGED said
  BY DEF ControlPlaneStep, Publish, Record, Withdraw, Republish
<1>2. Promised(b)' = Promised(b)
  BY <1>1 DEF operator, Promised
<1>3. feed \in [Bots -> Doc] /\ recorded[x] \in Nat
  BY OperatorAssumption DEF OperatorInv, TypeOK, Generations
<1>4. CASE Record(x) \/ Withdraw(x)
  <2>1. feed'[b].gen \in {feed[b].gen, 0} /\ (Known(b) => Known(b)')
    BY <1>3, <1>4 DEF Record, Withdraw, Feed!Record, Feed!Withdraw, NoDoc, Known,
                      Listed
  <2> QED BY <1>1, <1>2, <2>1, OrderKept DEF operator
<1>5. CASE Publish(x) \/ Republish(x)
  <2>1. PICK doc \in Document(recorded[x] + 1) : Feed!Publish(x, doc)
    BY <1>5 DEF Publish, Republish
  <2>2. /\ feed' = [feed EXCEPT ![x] = doc] /\ doc.gen = recorded[x] + 1
        /\ x \notin ended /\ ended' = ended
    BY <2>1 DEF Feed!Publish
  <2>3. feed[x].gen <= doc.gen
    BY <1>3, <1>5, <2>2 DEF Publish, Republish
  <2>4. CASE b # x
    <3>1. feed'[b].gen = feed[b].gen /\ (Known(b) => Known(b)')
      BY <1>3, <2>2, <2>4 DEF Known, Listed
    <3> QED BY <1>1, <1>2, <3>1, OrderKept DEF operator
  <2>5. CASE b = x
    <3>1. feed'[b].gen = doc.gen /\ doc.gen \in Nat /\ doc.gen > 0 /\ Known(b)'
      BY <1>3, <2>2, <2>5 DEF Known, Listed
    <3>2. \A gen \in Nat : Reached(b, gen) => Reached(b, gen)'
      BY <1>1, <1>2 DEF Reached, operator
    <3>3. /\ syncer.todo[b].gen <= doc.gen /\ resources[b].doc.gen <= doc.gen
          /\ cache.resources[b].doc.gen <= doc.gen /\ Reached(b, doc.gen)
      <4>1. CASE Listed(b)
        BY <4>1, <2>3, <2>5, <3>1, GenerationTypes DEF Ordered, Reached, Listed
      <4>2. CASE ~Listed(b)
        <5>1. ~Known(b)
          BY <4>2, <2>2, <2>5 DEF Known
        <5>2. Blank(b) /\ Reached(b, 0)
          BY <5>1 DEF OperatorInv, SyncerInv, Ordered
        <5> QED BY <5>2, <3>1, GenerationTypes
                DEF Blank, Reached, NoResource, NoDoc
      <4> QED BY <4>1, <4>2
    <3> QED BY <1>1, <3>1, <3>2, <3>3, GenerationTypes DEF Ordered, operator
  <2> QED BY <2>4, <2>5
<1> QED BY <1>4, <1>5 DEF ControlPlaneStep

LEMMA OrderedSyncer ==
  ASSUME OperatorInv, NEW b \in Bots, Ordered(b), SyncerStep \/ SyncerFails
  PROVE  Ordered(b)'
<1>1. UNCHANGED <<controlPlane, reconciler, deployments, cache>>
  BY DEF SyncerStep, SyncerList, SyncerApply, SyncerListOrphans, SyncerDelete,
         SyncerEnds, SyncerFails
<1>2. UNCHANGED <<feed, ended, said>> /\ Promised(b)' = Promised(b)
      /\ (Known(b) <=> Known(b)')
  BY <1>1 DEF controlPlane, Promised, Known, Listed
<1>3. syncer.todo \in [Bots -> Doc] /\ resources \in [Bots -> Resource]
      /\ syncer \in Syncer
  BY DEF OperatorInv, TypeOK, Syncer
<1>4. \A gen \in Nat : Reached(b, gen) => Reached(b, gen)'
  BY <1>1, <1>2 DEF Reached
<1>5. CASE SyncerList
  <2>1. syncer'.todo = feed /\ UNCHANGED resources
    BY <1>5 DEF SyncerList, IdleSyncer
  <2> QED BY <1>1, <1>2, <1>4, <2>1, GenerationTypes DEF Ordered, Reached
<1>6. ASSUME NEW x \in Bots, SyncerApply(x), cache.resources[x] = resources[x]
      PROVE  Ordered(b)'
  <2>1. /\ resources' = [resources EXCEPT ![x].doc = syncer.todo[x]]
        /\ syncer' = [syncer EXCEPT !.todo[x] = NoDoc]
        /\ syncer.todo[x].gen > 0
    BY <1>6 DEF SyncerApply, OperatorInv, SyncerInv
  <2>2. syncer'.todo = [syncer.todo EXCEPT ![x] = NoDoc]
    BY <1>3, <2>1 DEF Syncer
  <2>3. CASE b # x
    <3>1. syncer'.todo[b] = syncer.todo[b] /\ resources'[b] = resources[b]
      BY <1>3, <2>1, <2>2, <2>3
    <3> QED BY <1>1, <1>2, <3>1, OrderKept
  <2>4. CASE b = x
    <3>1. syncer'.todo[b].gen = 0
          /\ resources'[b].doc.gen = syncer.todo[b].gen
      BY <1>3, <2>1, <2>2, <2>4 DEF NoDoc, Resource
    <3> QED BY <1>1, <1>2, <1>4, <2>1, <2>4, <3>1, GenerationTypes DEF Ordered
  <2> QED BY <2>3, <2>4
<1>7. ASSUME \/ \E x \in Bots : \/ SyncerApply(x) /\ cache.resources[x] # resources[x]
                                \/ SyncerDelete(x)
             \/ SyncerListOrphans \/ SyncerEnds \/ SyncerFails
      PROVE  Ordered(b)'
  <2>1. syncer'.todo[b].gen \in {syncer.todo[b].gen, 0}
    <3>1. syncer'.todo \in {syncer.todo, IdleSyncer.todo}
      BY <1>3, <1>7
         DEF SyncerApply, SyncerDelete, SyncerListOrphans, SyncerEnds,
             SyncerFails, IdleSyncer, Syncer
    <3>2. IdleSyncer.todo[b].gen = 0
      BY DEF IdleSyncer, NoDoc
    <3> QED BY <3>1, <3>2
  <2>2. resources'[b].doc.gen \in {resources[b].doc.gen, 0}
    BY <1>3, <1>7
       DEF SyncerApply, SyncerDelete, SyncerListOrphans, SyncerEnds, SyncerFails,
           NoResource, NoDoc
  <2> QED BY <1>1, <1>2, <2>1, <2>2, OrderKept
<1> QED BY <1>5, <1>6, <1>7 DEF SyncerStep

\* A pass of the reconciler that goes on has put the cached generation on the
\* Deployment, if it changed it, and promises a report about that one.
LEMMA PassStep ==
  ASSUME OperatorInv, NEW x \in Bots,
         ReconcileDeleted(x) \/ ReconcileCreated(x) \/ ReconcileUpdated(x)
  PROVE  /\ cache.resources[x].doc.gen > 0
         /\ \A b \in Bots : deployments'[b].gen \in
              {deployments[b].gen, 0}
              \union (IF b = x THEN {cache.resources[x].doc.gen} ELSE {})
         /\ reconciler'.pc # "idle" /\ reconciler'.bot = x
         /\ reconciler'.next.gen = cache.resources[x].doc.gen
         /\ UNCHANGED <<controlPlane, syncer, resources, cache>>
<1>1. deployments \in [Bots -> Deployment]
  BY DEF OperatorInv, TypeOK
<1>2. CASE ReconcileDeleted(x)
  BY <1>1, <1>2 DEF ReconcileDeleted, GoesOn, StatusFor, NoDeployment
<1>3. CASE ReconcileCreated(x)
  BY <1>1, <1>3 DEF ReconcileCreated, GoesOn, StatusFor, DesiredDeployment
<1>4. CASE ReconcileUpdated(x)
  BY <1>1, <1>4 DEF ReconcileUpdated, GoesOn, StatusFor, DesiredDeployment
<1> QED BY <1>2, <1>3, <1>4

LEMMA OrderedPass ==
  ASSUME OperatorInv, NEW b \in Bots, Ordered(b), NEW x \in Bots,
         ReconcileDeleted(x) \/ ReconcileCreated(x) \/ ReconcileUpdated(x)
  PROVE  Ordered(b)'
<1>1. UNCHANGED <<feed, ended, said, syncer, resources, cache>>
      /\ (Known(b) <=> Known(b)')
  BY PassStep DEF controlPlane, Known, Listed
<1>2. CASE b # x
  <2>1. /\ deployments'[b].gen \in {deployments[b].gen, 0}
        /\ Promised(b)' = 0
    BY <1>2, PassStep DEF Promised
  <2> QED BY <1>1, <2>1, OrderKept
<1>3. CASE b = x
  <2> DEFINE c == cache.resources[b].doc.gen
  <2>1. /\ deployments'[b].gen \in {deployments[b].gen, 0, c}
        /\ Promised(b)' = c /\ c > 0
    BY <1>3, PassStep DEF Promised
  <2>2. \A gen \in Nat : Reached(b, gen) /\ c <= gen => Reached(b, gen)'
    BY <1>1, <2>1, GenerationTypes DEF Reached
  <2>3. Known(b)
    BY <2>1 DEF OperatorInv, SyncerInv, Blank, NoResource, NoDoc
  <2> QED BY <1>1, <2>1, <2>2, <2>3, GenerationTypes DEF Ordered
<1> QED BY <1>2, <1>3

LEMMA OrderedStep ==
  ASSUME OperatorInv, NEW b \in Bots, Ordered(b), [Next]_vars
  PROVE  Ordered(b)'
<1>1. CASE UNCHANGED vars
  BY <1>1 DEF vars, Ordered, Reached, Promised, Known, Listed
<1>2. ASSUME NEW x \in Bots, ReconcileNothing(x)
      PROVE  Ordered(b)'
  BY <1>2 DEF ReconcileNothing, controlPlane, Ordered, Reached, Promised, Known,
              Listed
<1>3. CASE UpdateStatus \/ ReportBotStatus \/ ReconcilerFails
  <2>1. Promised(b)' \in {Promised(b), 0}
    <3>1. CASE reconciler' = IdleReconciler
      BY <3>1 DEF Promised, IdleReconciler
    <3>2. CASE /\ reconciler.pc = "status"
               /\ reconciler' = [reconciler EXCEPT !.pc = "report",
                                                   !.res = NoResource]
      <4>1. reconciler \in Reconciler
        BY DEF OperatorInv, TypeOK
      <4>2. reconciler'.bot = reconciler.bot /\ reconciler'.next = reconciler.next
        BY <3>2, <4>1 DEF Reconciler
      <4> QED BY <3>2, <4>2 DEF Promised
    <3> QED BY <1>3, <3>1, <3>2
            DEF UpdateStatus, ReportBotStatus, ReconcilerFails, Retry
  <2>2. said'[b].gen \in {said[b].gen, Promised(b)}
    <3>1. said \in [Bots -> Report]
      BY DEF OperatorInv, TypeOK
    <3> QED BY <1>3, <3>1
            DEF UpdateStatus, ReportBotStatus, ReconcilerFails, NextReport,
                Promised, controlPlane
  <2>3. resources'[b].doc.gen = resources[b].doc.gen
    <3>1. resources \in [Bots -> Resource]
      BY DEF OperatorInv, TypeOK
    <3> QED BY <1>3, <3>1
            DEF UpdateStatus, ReportBotStatus, ReconcilerFails, Resource
  <2>4. UNCHANGED <<feed, ended, syncer, cache, deployments>>
    BY <1>3 DEF UpdateStatus, ReportBotStatus, ReconcilerFails, controlPlane
  <2> QED BY <2>1, <2>2, <2>3, <2>4, OrderKept DEF Known, Listed
<1>4. ASSUME NEW x \in Bots,
             \/ ResourceEvent(x) \/ DeploymentEvent(x)
             \/ KubernetesStep(x) \/ PodDies(x) \/ PodRefused(x)
             \/ OperatorRestarts
      PROVE  Ordered(b)'
  <2>1. UNCHANGED <<controlPlane, resources>>
        /\ Promised(b)' \in {Promised(b), 0}
        /\ syncer' \in {syncer, IdleSyncer}
    BY <1>4 DEF ResourceEvent, DeploymentEvent, KubernetesStep, PodStarts,
       PodReady, PodsStop, StatusUpdated, GarbageCollected, PodDies, PodRefused,
       OperatorRestarts, NotKubernetes, IdleReconciler, Promised
  <2>2. deployments'[b].gen \in {deployments[b].gen, 0}
    <3>1. deployments \in [Bots -> Deployment]
      BY DEF OperatorInv, TypeOK
    <3> QED BY <1>4, <3>1
            DEF ResourceEvent, DeploymentEvent, KubernetesStep, PodStarts,
                PodReady, PodsStop, StatusUpdated, GarbageCollected, PodDies,
                PodRefused, OperatorRestarts, NoDeployment, Deployment
  <2>3. cache'.resources[b].doc.gen \in
          {cache.resources[b].doc.gen, resources[b].doc.gen}
    <3>1. /\ cache.resources \in [Bots -> Resource]
          /\ cache \in [resources : [Bots -> Resource],
                        deployments : [Bots -> Deployment]]
      BY DEF OperatorInv, TypeOK
    <3>2. cache'.resources[b] \in {cache.resources[b], resources[b]}
      BY <1>4, <3>1
         DEF ResourceEvent, DeploymentEvent, KubernetesStep, PodStarts, PodReady,
             PodsStop, StatusUpdated, GarbageCollected, PodDies, PodRefused,
             OperatorRestarts, NotKubernetes
    <3> QED BY <3>2
  <2>4. syncer'.todo[b].gen \in {syncer.todo[b].gen, 0}
    BY <2>1 DEF IdleSyncer, NoDoc
  <2> QED BY <2>1, <2>2, <2>3, <2>4, OrderKept DEF Known, Listed, controlPlane
<1> QED BY <1>1, <1>2, <1>3, <1>4, OrderedPublished, OrderedSyncer, OrderedPass
        DEF Next, ReconcilerStep, FaultStep, ControlPlaneStep

LEMMA OrderInvariant == Spec => [](OperatorInv /\ \A b \in Bots : Ordered(b))
<1>1. Init => \A b \in Bots : Ordered(b)
  BY OrderedInit
<1>2. OperatorInv /\ (\A b \in Bots : Ordered(b)) /\ [Next]_vars
      => (\A b \in Bots : Ordered(b))'
  BY OrderedStep
<1> QED BY <1>1, <1>2, OperatorInit, OperatorStep, PTL DEF Spec

LEMMA ForwardStep ==
  ASSUME OperatorInv, [Next]_vars, NEW b \in Bots, Ordered(b),
         HasDeployment(b)', deployments'[b].gen # deployments[b].gen
  PROVE  deployments'[b].gen > deployments[b].gen
         /\ deployments'[b].gen >= said[b].gen
<1> deployments \in [Bots -> Deployment] /\ deployments[b] \in Deployment
  BY DEF OperatorInv, TypeOK
<1>1. \E x \in Bots : \/ ReconcileDeleted(x) \/ ReconcileCreated(x)
                      \/ ReconcileUpdated(x) \/ StatusUpdated(x)
                      \/ GarbageCollected(x) \/ PodRefused(x)
  BY DEF Next, vars, Publish, Record, Withdraw, operator, SyncerStep, SyncerList,
     SyncerApply, SyncerDelete, SyncerListOrphans, SyncerEnds, ReconcilerStep,
     ReconcileNothing, UpdateStatus, ReportBotStatus, ResourceEvent,
     DeploymentEvent, KubernetesStep, PodStarts, PodReady, PodsStop,
     NotKubernetes, FaultStep, PodDies, Republish, SyncerFails, ReconcilerFails,
     OperatorRestarts
<1>2. ASSUME NEW x \in Bots,
             StatusUpdated(x) \/ GarbageCollected(x) \/ PodRefused(x)
      PROVE  FALSE
  BY <1>2 DEF StatusUpdated, GarbageCollected, PodRefused, HasDeployment,
              NoDeployment, Deployment
<1>3. ASSUME NEW x \in Bots,
             ReconcileDeleted(x) \/ ReconcileCreated(x) \/ ReconcileUpdated(x)
      PROVE  deployments'[b].gen > deployments[b].gen
             /\ deployments'[b].gen >= said[b].gen
  <2>1. b = x /\ deployments'[b].gen = cache.resources[b].doc.gen
        /\ cache.resources[b].doc.gen > 0
    BY <1>3, PassStep DEF HasDeployment
  <2>2. Reached(b, cache.resources[b].doc.gen)
    BY <2>1 DEF Ordered
  <2>3. /\ cache.resources[b].doc.gen \in Nat /\ deployments[b].gen \in Nat
        /\ said[b].gen \in Nat
    BY GenerationTypes
  <2> QED BY <2>1, <2>2, <2>3 DEF Reached
<1> QED BY <1>1, <1>2, <1>3

\* No Deployment goes back to an earlier contract, whatever the caches, the
\* passes and the failing requests do, for any number of bots and generations.
THEOREM DeploymentsGoForward == Spec => SpecsGoForward
<1>1. OperatorInv /\ (\A b \in Bots : Ordered(b)) /\ [Next]_vars =>
        [\A b \in Bots :
           (HasDeployment(b)' /\ deployments'[b].gen # deployments[b].gen)
           => /\ deployments'[b].gen > deployments[b].gen
              /\ deployments'[b].gen >= said[b].gen]_vars
  BY ForwardStep
<1> QED BY <1>1, OrderInvariant, PTL DEF Spec, SpecsGoForward
------------------------------------------------------------------------------
(* A bot that is not queued is attended to.  While a pass has it in hand,   *)
(* either the pass is going to write a status to the resource the cache     *)
(* has, unless the resource has become another since, or the resource is    *)
(* ahead of the cache, and its event will queue the bot.  Otherwise the     *)
(* last pass handled what the cache has: the Deployment is as the cached    *)
(* spec says, or has left the cached Deployment behind, so that its event   *)
(* will queue the bot.                                                      *)

Handled(doc, old, dep, status) ==
    IF doc.desired = "deleted"
    THEN /\ status = StatusFor(doc, "deleting", NothingSeen)
         /\ old = NoDeployment \/ dep = NoDeployment
    ELSE IF old = NoDeployment
    THEN dep # NoDeployment
    ELSE /\ status = StatusFor(doc, PhaseFor(doc, old.seen), old.seen)
         /\ \/ old = DesiredDeployment(doc, old.seen)
            \/ dep = DesiredDeployment(doc, dep.seen)

HandledWith(b, status) ==
    Handled(cache.resources[b].doc, cache.deployments[b], deployments[b], status)

InHand(b) ==
    /\ reconciler.bot = b /\ reconciler.pc = "status"
    /\ reconciler.res = cache.resources[b]
    /\ resources[b] = cache.resources[b] => HandledWith(b, reconciler.next)

Ahead(b) ==
    /\ reconciler.bot = b /\ reconciler.pc = "report"
    /\ cache.resources[b].doc.gen > 0 /\ resources[b] # cache.resources[b]

Dealt(b) ==
    /\ reconciler.bot # b
    /\ resources[b] = cache.resources[b] /\ HasResource(b)
       => HandledWith(b, resources[b].status)

Attended(b) == b \in queue \/ InHand(b) \/ Ahead(b) \/ Dealt(b)

IdleInv == reconciler.pc = "idle" => reconciler.bot = NoBot

RestInv(b) == IdleInv /\ Attended(b)

\* What the deployment controller writes to a Deployment's status undoes nothing
\* of what a pass did.
LEMMA HandledSeen ==
  ASSUME NEW doc, NEW old, NEW dep \in Deployment, NEW seen, NEW status,
         dep.gen > 0, Handled(doc, old, dep, status)
  PROVE  Handled(doc, old, [dep EXCEPT !.seen = seen], status)
<1> DEFINE new == [dep EXCEPT !.seen = seen]
<1>1. dep # NoDeployment /\ new # NoDeployment
  BY DEF NoDeployment, Deployment
<1>2. dep = DesiredDeployment(doc, dep.seen)
      => new = DesiredDeployment(doc, new.seen)
  BY DEF DesiredDeployment, Deployment
<1> HIDE DEF new
<1>3. Handled(doc, old, new, status)
  BY <1>1, <1>2 DEF Handled
<1> QED BY <1>3 DEF new

\* A step that takes nothing off the queue or out of the cache leaves a bot
\* attended to, if it moves the resource only away from the cached one and does
\* not undo what was done to the Deployment.
LEMMA AttendedKept ==
  ASSUME OperatorInv, NEW b \in Bots, Attended(b),
         b \in queue => b \in queue',
         \/ UNCHANGED reconciler
         \/ reconciler.bot # b /\ reconciler'.bot # b,
         cache'.resources[b] = cache.resources[b],
         cache'.deployments[b] = cache.deployments[b],
         \/ resources'[b] = resources[b]
         \/ resources'[b] # cache.resources[b]
         \/ ~HasResource(b)',
         \A status : HandledWith(b, status) /\ HasResource(b) =>
           Handled(cache.resources[b].doc, cache.deployments[b], deployments'[b],
                   status)
  PROVE  Attended(b)'
<1> DEFINE same == resources'[b] = cache'.resources[b]
<1>1. same /\ HasResource(b)' => /\ resources'[b] = resources[b]
                                 /\ resources[b] = cache.resources[b]
  OBVIOUS
<1>2. \A status : HandledWith(b, status) /\ HasResource(b)
                  => HandledWith(b, status)'
  BY DEF HandledWith
<1>3. CASE InHand(b)
  <2>1. UNCHANGED reconciler /\ reconciler.res = cache.resources[b]
    BY <1>3 DEF InHand
  <2>2. same => HasResource(b) /\ HasResource(b)'
    BY <1>1, <1>3, <2>1 DEF InHand, HasResource, OperatorInv, ReconcilerInv
  <2> QED BY <1>1, <1>2, <1>3, <2>1, <2>2 DEF Attended, InHand
<1>4. CASE Ahead(b)
  BY <1>1, <1>4 DEF Attended, Ahead, HasResource
<1>5. CASE Dealt(b)
  <2>1. same /\ HasResource(b)' => HandledWith(b, resources[b].status)'
    BY <1>1, <1>2, <1>5 DEF Dealt, HasResource
  <2> QED BY <1>1, <1>5, <2>1 DEF Attended, Dealt
<1> QED BY <1>3, <1>4, <1>5 DEF Attended

LEMMA RestInit ==
  ASSUME Init, NEW b \in Bots
  PROVE  RestInv(b)
<1>1. reconciler.bot = NoBot /\ NoBot \notin Bots
  BY OperatorAssumption DEF Init, IdleReconciler
<1>2. ~HasResource(b)
  BY DEF Init, HasResource, NoResource, NoDoc
<1> QED BY <1>1, <1>2 DEF RestInv, IdleInv, Attended, Dealt

\* The syncer writes only to a resource that is the cached one.
LEMMA RestSyncer ==
  ASSUME OperatorInv, NEW b \in Bots, RestInv(b), SyncerStep \/ SyncerFails
  PROVE  RestInv(b)'
<1>1. UNCHANGED <<queue, reconciler, deployments, cache>>
  BY DEF SyncerStep, SyncerList, SyncerApply, SyncerListOrphans, SyncerDelete,
         SyncerEnds, SyncerFails
<1>2. \/ resources'[b] = resources[b] \/ resources'[b] # cache.resources[b]
      \/ ~HasResource(b)'
  <2>1. resources \in [Bots -> Resource]
    BY DEF OperatorInv, TypeOK
  <2>2. ASSUME NEW x \in Bots, SyncerApply(x)
        PROVE  resources'[b] = resources[b] \/ resources'[b] # cache.resources[b]
    BY <2>1, <2>2 DEF SyncerApply
  <2>3. ASSUME NEW x \in Bots, SyncerDelete(x), x = b
        PROVE  ~HasResource(b)'
    BY <2>1, <2>3 DEF SyncerDelete, HasResource, NoResource, NoDoc
  <2> QED BY <2>1, <2>2, <2>3
          DEF SyncerStep, SyncerList, SyncerListOrphans, SyncerDelete, SyncerEnds,
              SyncerFails
<1> QED BY <1>1, <1>2, AttendedKept DEF RestInv, IdleInv, HandledWith

\* A pass that has come to the status did to the Deployment what the cached spec
\* asks for, or had nothing to do.
LEMMA PassHandles ==
  ASSUME OperatorInv, NEW b \in Bots,
         ReconcileDeleted(b) \/ ReconcileCreated(b) \/ ReconcileUpdated(b)
  PROVE  InHand(b)'
<1> DEFINE doc == cache.resources[b].doc
           old == cache.deployments[b]
<1>1. /\ reconciler'.pc = "status" /\ reconciler'.bot = b
      /\ reconciler'.res = cache.resources[b]
      /\ UNCHANGED <<resources, cache>> /\ doc.gen > 0
  BY DEF ReconcileDeleted, ReconcileCreated, ReconcileUpdated, GoesOn
<1>2. deployments \in [Bots -> Deployment]
  BY DEF OperatorInv, TypeOK
<1>3. \A seen : DesiredDeployment(doc, seen) # NoDeployment
                /\ DesiredDeployment(doc, seen).seen = seen
  BY <1>1 DEF DesiredDeployment, NoDeployment
<1>4. CASE ReconcileDeleted(b)
  <2>1. /\ doc.desired = "deleted"
        /\ reconciler'.next = StatusFor(doc, "deleting", NothingSeen)
    BY <1>4 DEF ReconcileDeleted, GoesOn
  <2>2. old = NoDeployment \/ deployments'[b] = NoDeployment
    BY <1>2, <1>4 DEF ReconcileDeleted
  <2>3. Handled(doc, old, deployments'[b], reconciler'.next)
    BY <2>1, <2>2 DEF Handled
  <2> QED BY <1>1, <2>3 DEF InHand, HandledWith
<1>5. CASE ReconcileCreated(b)
  <2>1. /\ doc.desired # "deleted" /\ old = NoDeployment
        /\ deployments'[b] = DesiredDeployment(doc, NothingSeen)
    BY <1>2, <1>5 DEF ReconcileCreated
  <2>2. Handled(doc, old, deployments'[b], reconciler'.next)
    BY <1>3, <2>1 DEF Handled
  <2> QED BY <1>1, <2>2 DEF InHand, HandledWith
<1>6. CASE ReconcileUpdated(b)
  <2>1. /\ doc.desired # "deleted" /\ old # NoDeployment
        /\ reconciler'.next = StatusFor(doc, PhaseFor(doc, old.seen), old.seen)
    BY <1>6 DEF ReconcileUpdated, GoesOn
  <2>2. \/ old = DesiredDeployment(doc, old.seen)
        \/ deployments'[b] = DesiredDeployment(doc, old.seen)
    BY <1>2, <1>6 DEF ReconcileUpdated, NeedsUpdate
  <2>3. Handled(doc, old, deployments'[b], reconciler'.next)
    BY <1>3, <2>1, <2>2 DEF Handled
  <2> QED BY <1>1, <2>3 DEF InHand, HandledWith
<1> QED BY <1>4, <1>5, <1>6

LEMMA RestPass ==
  ASSUME OperatorInv, NEW b \in Bots, RestInv(b), NEW x \in Bots,
         ReconcileDeleted(x) \/ ReconcileCreated(x) \/ ReconcileUpdated(x)
  PROVE  RestInv(b)'
<1>1. reconciler.bot = NoBot /\ NoBot # b /\ IdleInv'
  BY OperatorAssumption DEF RestInv, IdleInv, ReconcileDeleted, ReconcileCreated,
     ReconcileUpdated, Begins, GoesOn
<1>2. CASE x = b
  BY <1>1, <1>2, PassHandles DEF RestInv, Attended
<1>3. CASE x # b
  <2>1. /\ queue' = queue \ {x} /\ reconciler'.bot = x
        /\ UNCHANGED <<resources, cache>>
    BY DEF ReconcileDeleted, ReconcileCreated, ReconcileUpdated, GoesOn
  <2>2. deployments'[b] = deployments[b]
    <3>1. deployments \in [Bots -> Deployment]
      BY DEF OperatorInv, TypeOK
    <3> QED BY <1>3, <3>1
            DEF ReconcileDeleted, ReconcileCreated, ReconcileUpdated
  <2>3. Attended(b)'
    BY <1>1, <1>3, <2>1, <2>2, AttendedKept DEF RestInv, HandledWith
  <2> QED BY <1>1, <2>3 DEF RestInv
<1> QED BY <1>2, <1>3

\* A bot that has no resource in the cache is taken off the queue for nothing.
LEMMA RestNothing ==
  ASSUME OperatorInv, NEW b \in Bots, RestInv(b), NEW x \in Bots,
         ReconcileNothing(x)
  PROVE  RestInv(b)'
<1>1. /\ queue' = queue \ {x} /\ cache.resources[x] = NoResource
      /\ reconciler.pc = "idle"
      /\ UNCHANGED <<reconciler, resources, deployments, cache>>
  BY DEF ReconcileNothing, Begins
<1>2. reconciler.bot # b
  BY <1>1, OperatorAssumption DEF RestInv, IdleInv
<1>3. CASE x = b
  BY <1>1, <1>2, <1>3
     DEF RestInv, IdleInv, Attended, Dealt, HasResource, NoResource, NoDoc
<1>4. CASE x # b
  BY <1>1, <1>4, AttendedKept DEF RestInv, IdleInv, HandledWith
<1> QED BY <1>3, <1>4

\* The pass ends with the status the resource has already, with another that it
\* writes, or, when the resource has become another, with the bot on the queue.
LEMMA RestStatus ==
  ASSUME OperatorInv, NEW b \in Bots, RestInv(b), UpdateStatus
  PROVE  RestInv(b)'
<1> DEFINE x == reconciler.bot
<1>1. /\ reconciler.pc = "status" /\ x \in Bots /\ x # NoBot
      /\ reconciler.res.doc.gen > 0
      /\ resources \in [Bots -> Resource] /\ reconciler \in Reconciler
      /\ UNCHANGED <<deployments, cache>>
  BY OperatorAssumption
     DEF UpdateStatus, OperatorInv, ReconcilerInv, TypeOK
<1>2. IdleReconciler.bot = NoBot /\ NoBot # b
  BY OperatorAssumption DEF IdleReconciler
<1>3. CASE x # b
  <2>1. resources'[b] = resources[b] /\ queue \subseteq queue'
    BY <1>1, <1>3 DEF UpdateStatus, Retry
  <2>2. reconciler'.bot # b /\ IdleInv'
    BY <1>1, <1>2, <1>3 DEF UpdateStatus, Retry, Reconciler, IdleInv
  <2>3. Attended(b)'
    BY <1>1, <1>3, <2>1, <2>2, AttendedKept DEF RestInv, HandledWith
  <2> QED BY <2>2, <2>3 DEF RestInv
<1>4. CASE x = b
  <2>1. b \in queue \/ InHand(b)
    BY <1>1, <1>4 DEF RestInv, Attended, Ahead, Dealt
  <2>2. CASE /\ reconciler.next = reconciler.res.status
             /\ reconciler' = IdleReconciler
             /\ UNCHANGED <<resources, queue>>
    <3>1. InHand(b) => Dealt(b)'
      <4>1. SUFFICES ASSUME InHand(b), resources[b] = cache.resources[b]
                     PROVE  HandledWith(b, resources[b].status)'
        BY <1>1, <1>2, <2>2 DEF Dealt
      <4>2. HandledWith(b, resources[b].status)
        BY <2>2, <4>1 DEF InHand
      <4> QED BY <1>1, <2>2, <4>2 DEF HandledWith
    <3> QED BY <1>2, <2>1, <2>2, <3>1 DEF RestInv, IdleInv, Attended
  <2>3. CASE /\ reconciler.next # reconciler.res.status
             /\ resources[b] = reconciler.res
             /\ resources' = [resources EXCEPT ![b].status = reconciler.next]
             /\ reconciler' = [reconciler EXCEPT !.pc = "report",
                                                 !.res = NoResource]
             /\ UNCHANGED queue
    <3>1. resources'[b].status # resources[b].status
      BY <1>1, <2>3 DEF Resource
    <3>2. reconciler'.pc = "report" /\ reconciler'.bot = b
      BY <1>1, <1>4, <2>3 DEF Reconciler
    <3>3. InHand(b) => Ahead(b)'
      <4>1. SUFFICES ASSUME reconciler.res = cache.resources[b]
                     PROVE  Ahead(b)'
        BY DEF InHand
      <4>2. /\ cache' = cache /\ cache.resources[b].doc.gen > 0
            /\ cache.resources[b] = resources[b]
        BY <1>1, <2>3, <4>1
      <4>3. resources'[b] # cache.resources[b]
        BY <3>1, <4>2
      <4> QED BY <3>2, <4>2, <4>3 DEF Ahead
    <3> QED BY <2>1, <2>3, <3>2, <3>3 DEF RestInv, IdleInv, Attended
  <2>4. CASE Retry
    BY <1>2, <1>4, <2>4 DEF Retry, RestInv, IdleInv, Attended
  <2> QED BY <1>4, <2>2, <2>3, <2>4 DEF UpdateStatus
<1> QED BY <1>3, <1>4

\* After an accepted report the resource's event is still to come; after any
\* other failure the bot is on the queue.
LEMMA RestReport ==
  ASSUME OperatorInv, NEW b \in Bots, RestInv(b),
         ReportBotStatus \/ ReconcilerFails
  PROVE  RestInv(b)'
<1> DEFINE x == reconciler.bot
<1>1. /\ reconciler' = IdleReconciler /\ queue \subseteq queue'
      /\ UNCHANGED <<resources, deployments, cache>>
  BY DEF ReportBotStatus, ReconcilerFails, Retry
<1>2. IdleReconciler.bot = NoBot /\ NoBot # b /\ IdleInv'
  BY <1>1, OperatorAssumption DEF IdleReconciler, IdleInv
<1>3. CASE x # b
  BY <1>1, <1>2, <1>3, AttendedKept DEF RestInv, HandledWith
<1>4. CASE x = b /\ b \notin queue'
  <2>1. reconciler.pc = "report"
    BY <1>4 DEF ReportBotStatus, ReconcilerFails, Retry
  <2>2. Ahead(b)
    BY <1>1, <1>4, <2>1 DEF RestInv, Attended, InHand, Dealt
  <2> QED BY <1>1, <1>2, <2>2 DEF Ahead, RestInv, Attended, Dealt
<1>5. CASE b \in queue'
  BY <1>2, <1>5 DEF RestInv, Attended
<1> QED BY <1>3, <1>4, <1>5

LEMMA RestEvent ==
  ASSUME OperatorInv, NEW b \in Bots, RestInv(b), NEW x \in Bots,
         ResourceEvent(x) \/ DeploymentEvent(x)
  PROVE  RestInv(b)'
<1>1. /\ queue' = queue \union {x}
      /\ UNCHANGED <<reconciler, resources, deployments>>
  BY DEF ResourceEvent, DeploymentEvent
<1>2. CASE x = b
  BY <1>1, <1>2 DEF RestInv, IdleInv, Attended
<1>3. CASE x # b
  <2>1. /\ cache'.resources[b] = cache.resources[b]
        /\ cache'.deployments[b] = cache.deployments[b]
    BY <1>3 DEF ResourceEvent, DeploymentEvent, OperatorInv, TypeOK
  <2> QED BY <1>1, <2>1, AttendedKept DEF RestInv, IdleInv, HandledWith
<1> QED BY <1>2, <1>3

\* Kubernetes writes to the status of a Deployment, and removes only one whose
\* resource is gone.
LEMMA RestCluster ==
  ASSUME OperatorInv, NEW b \in Bots, RestInv(b), NEW x \in Bots,
         KubernetesStep(x) \/ PodDies(x) \/ PodRefused(x)
  PROVE  RestInv(b)'
<1>1. UNCHANGED NotKubernetes
  BY DEF KubernetesStep, PodStarts, PodReady, PodsStop, StatusUpdated,
         GarbageCollected, PodDies, PodRefused
<1>2. deployments \in [Bots -> Deployment]
  BY DEF OperatorInv, TypeOK
<1>3. \/ deployments'[b] = deployments[b]
      \/ \E seen : /\ deployments[b].gen > 0
                   /\ deployments'[b] = [deployments[b] EXCEPT !.seen = seen]
      \/ ~HasResource(b)
  BY <1>2 DEF KubernetesStep, PodStarts, PodReady, PodsStop, StatusUpdated,
     GarbageCollected, PodDies, PodRefused, HasDeployment, Scaled
<1>4. \A status : HandledWith(b, status) /\ HasResource(b) =>
        Handled(cache.resources[b].doc, cache.deployments[b], deployments'[b],
                status)
  <2>1. ASSUME NEW seen, deployments[b].gen > 0,
               deployments'[b] = [deployments[b] EXCEPT !.seen = seen]
        PROVE  \A status : HandledWith(b, status) =>
                 Handled(cache.resources[b].doc, cache.deployments[b],
                         deployments'[b], status)
    <3>1. deployments[b] \in Deployment
      BY <1>2
    <3> QED BY <2>1, <3>1, HandledSeen DEF HandledWith
  <2> QED BY <1>3, <2>1 DEF HandledWith
<1> QED BY <1>1, <1>4, AttendedKept DEF NotKubernetes, RestInv, IdleInv

\* The cache is as the objects are, and every bot that has one is queued.
LEMMA RestRestart ==
  ASSUME OperatorInv, NEW b \in Bots, RestInv(b), OperatorRestarts
  PROVE  RestInv(b)'
<1>1. /\ reconciler' = IdleReconciler /\ IdleReconciler.bot = NoBot /\ NoBot # b
      /\ queue' = {x \in Bots : HasResource(x) \/ HasDeployment(x)}
      /\ UNCHANGED resources
  BY OperatorAssumption DEF OperatorRestarts, IdleReconciler
<1>2. b \in queue' \/ ~HasResource(b)'
  BY <1>1 DEF HasResource
<1> QED BY <1>1, <1>2 DEF RestInv, IdleInv, Attended, Dealt

LEMMA RestStep ==
  ASSUME OperatorInv, NEW b \in Bots, RestInv(b), [Next]_vars
  PROVE  RestInv(b)'
<1>1. CASE UNCHANGED vars
  BY <1>1, AttendedKept DEF vars, RestInv, IdleInv, HandledWith
<1>2. ASSUME NEW x \in Bots, ControlPlaneStep(x)
      PROVE  RestInv(b)'
  <2>1. UNCHANGED operator
    BY <1>2 DEF ControlPlaneStep, Publish, Record, Withdraw, Republish
  <2> QED BY <2>1, AttendedKept DEF operator, RestInv, IdleInv, HandledWith
<1> QED BY <1>1, <1>2, RestSyncer, RestPass, RestNothing, RestStatus, RestReport,
           RestEvent, RestCluster, RestRestart
        DEF Next, ReconcilerStep, FaultStep, ControlPlaneStep

LEMMA RestMeansUpToDate ==
  ASSUME NEW b \in Bots, Attended(b), AtRest(b), HasResource(b)
  PROVE  UpToDate(b)
<1>1. HandledWith(b, resources[b].status)
  BY DEF AtRest, Attended, InHand, Ahead, Dealt
<1>2. Handled(resources[b].doc, deployments[b], deployments[b],
              resources[b].status)
  BY <1>1 DEF HandledWith, AtRest
<1> QED BY <1>2 DEF Handled, UpToDate, NoDeployment

\* A bot at rest is up to date, for any number of bots, generations and faults:
\* no refused write, old copy, failed request or restart leaves a Deployment or
\* a status behind without the bot being queued again.
THEOREM RestIsUpToDate == Spec => []AtRestIsUpToDate
<1>1. Init => \A b \in Bots : RestInv(b)
  BY RestInit
<1>2. OperatorInv /\ (\A b \in Bots : RestInv(b)) /\ [Next]_vars
      => (\A b \in Bots : RestInv(b))'
  BY RestStep
<1>3. OperatorInv /\ (\A b \in Bots : RestInv(b)) => AtRestIsUpToDate
  BY RestMeansUpToDate DEF RestInv, AtRestIsUpToDate
<1> QED BY <1>1, <1>2, <1>3, OperatorInvariant, PTL DEF Spec
------------------------------------------------------------------------------
(* While nothing fails, a generation names one document: the contract in    *)
(* the feed is new when it is published, since everything else is older     *)
(* (Ordered), and what has its generation later is a copy of it.            *)

SameIfNamed(doc, b) == doc.gen = feed[b].gen => doc = feed[b]

Fits(dep, doc) == doc.desired # "deleted" /\ dep = DesiredDeployment(doc, dep.seen)

Means(b) ==
    /\ SameIfNamed(syncer.todo[b], b)
    /\ SameIfNamed(resources[b].doc, b)
    /\ SameIfNamed(cache.resources[b].doc, b)
    /\ Promised(b) = feed[b].gen
         => ~Contradicts(reconciler.next.phase, feed[b].desired)
    /\ deployments[b].gen = feed[b].gen => Fits(deployments[b], feed[b])
    /\ said[b].gen = feed[b].gen => ~Contradicts(said[b].phase, feed[b].desired)

MeansInv(b) == faults = 0 /\ Listed(b) => Means(b)

\* A copy may be forgotten or brought up to date, a Deployment forgotten or seen
\* anew, the report that was to come forgotten or accepted.
LEMMA MeansKept ==
  ASSUME OperatorInv, NEW b \in Bots, MeansInv(b), faults' = faults,
         feed'[b] \in {feed[b], NoDoc},
         syncer'.todo[b] \in {syncer.todo[b], feed[b], NoDoc},
         resources'[b].doc \in {resources[b].doc, syncer.todo[b], NoDoc},
         cache'.resources[b].doc \in {cache.resources[b].doc, resources[b].doc},
         \/ Promised(b)' = 0
         \/ Promised(b)' = Promised(b) /\ reconciler'.next = reconciler.next,
         \/ deployments'[b].gen = 0
         \/ \E seen : deployments'[b] = [deployments[b] EXCEPT !.seen = seen],
         \/ said'[b] = said[b]
         \/ said'[b].gen = Promised(b) /\ said'[b].phase = reconciler.next.phase
  PROVE  MeansInv(b)'
<1> SUFFICES ASSUME faults = 0, feed'[b].gen > 0
             PROVE  Means(b)'
  BY DEF MeansInv, Listed
<1>1. feed'[b] = feed[b] /\ Means(b) /\ NoDoc.gen # feed[b].gen /\ feed[b].gen # 0
  BY GenerationTypes DEF MeansInv, Listed, NoDoc
<1>2. /\ SameIfNamed(syncer'.todo[b], b) /\ SameIfNamed(resources'[b].doc, b)
      /\ SameIfNamed(cache'.resources[b].doc, b)
  BY <1>1 DEF Means, SameIfNamed
<1>3. deployments'[b].gen = feed[b].gen => Fits(deployments'[b], feed[b])
  <2>1. deployments[b] \in Deployment
    BY DEF OperatorInv, TypeOK
  <2>2. CASE deployments'[b].gen = 0
    BY <1>1, <2>2
  <2>3. ASSUME NEW seen,
               deployments'[b] = [deployments[b] EXCEPT !.seen = seen]
        PROVE  deployments'[b].gen = feed[b].gen
                 => Fits(deployments'[b], feed[b])
    <3>1. deployments'[b].gen = deployments[b].gen
      BY <2>1, <2>3 DEF Deployment
    <3>2. Fits(deployments[b], feed[b]) => Fits(deployments'[b], feed[b])
      BY <2>1, <2>3 DEF Fits, DesiredDeployment, Deployment
    <3> QED BY <1>1, <3>1, <3>2 DEF Means
  <2> QED BY <2>2, <2>3
<1> QED BY <1>1, <1>2, <1>3 DEF Means, SameIfNamed, Fits

LEMMA MeansInit ==
  ASSUME Init, NEW b \in Bots
  PROVE  MeansInv(b)
  BY DEF Init, MeansInv, Listed, NoDoc

LEMMA MeansFault ==
  ASSUME OperatorInv, NEW b \in Bots, faults' = faults + 1
  PROVE  MeansInv(b)'
  BY OperatorAssumption DEF MeansInv, OperatorInv, TypeOK

LEMMA MeansPublished ==
  ASSUME OperatorInv, NEW b \in Bots, Ordered(b), MeansInv(b), NEW x \in Bots,
         Publish(x) \/ Record(x) \/ Withdraw(x)
  PROVE  MeansInv(b)'
<1>1. UNCHANGED operator /\ UNCHANGED <<said, faults>>
  BY DEF Publish, Record, Withdraw
<1>2. Promised(b)' = Promised(b)
  BY <1>1 DEF operator, Promised
<1>3. feed \in [Bots -> Doc] /\ recorded[x] \in Nat
  BY OperatorAssumption DEF OperatorInv, TypeOK, Generations
<1>4. CASE feed'[b] \in {feed[b], NoDoc}
  <2>1. deployments'[b] = [deployments[b] EXCEPT !.seen = deployments[b].seen]
    <3>1. deployments[b] \in Deployment
      BY DEF OperatorInv, TypeOK
    <3> QED BY <1>1, <3>1 DEF operator, Deployment
  <2> QED BY <1>1, <1>2, <1>4, <2>1, MeansKept DEF operator
<1>5. CASE feed'[b] \notin {feed[b], NoDoc}
  <2>1. Publish(x)
    BY <1>3, <1>5 DEF Record, Withdraw, Feed!Record, Feed!Withdraw
  <2>2. PICK doc \in Document(recorded[x] + 1) : Feed!Publish(x, doc)
    BY <2>1 DEF Publish
  <2>3. /\ feed' = [feed EXCEPT ![x] = doc] /\ doc.gen = recorded[x] + 1
        /\ x \notin ended
    BY <2>2 DEF Feed!Publish
  <2>4. b = x
    BY <1>3, <1>5, <2>3
  <2>5. feed'[b].gen = feed[b].gen + 1
    BY <1>3, <2>1, <2>3, <2>4 DEF Publish
  <2>6. /\ syncer.todo[b].gen <= feed[b].gen
        /\ resources[b].doc.gen <= feed[b].gen
        /\ cache.resources[b].doc.gen <= feed[b].gen /\ Reached(b, feed[b].gen)
    <3>1. CASE Listed(b)
      BY <3>1, GenerationTypes DEF Ordered, Listed
    <3>2. CASE ~Listed(b)
      <4>1. ~Known(b)
        BY <3>2, <2>3, <2>4 DEF Known
      <4>2. Blank(b) /\ Reached(b, 0)
        BY <4>1 DEF OperatorInv, SyncerInv, Ordered
      <4>3. feed[b].gen = 0
        BY <3>2, GenerationTypes DEF Listed
      <4> QED BY <4>2, <4>3 DEF Blank, NoResource, NoDoc
    <3> QED BY <3>1, <3>2
  <2> QED BY <1>1, <1>2, <2>5, <2>6, GenerationTypes
          DEF MeansInv, Means, SameIfNamed, Reached, operator
<1> QED BY <1>4, <1>5

LEMMA MeansSyncer ==
  ASSUME OperatorInv, NEW b \in Bots, MeansInv(b), SyncerStep
  PROVE  MeansInv(b)'
<1>1. UNCHANGED <<feed, said, reconciler, deployments, cache, faults>>
  BY DEF SyncerStep, SyncerList, SyncerApply, SyncerListOrphans, SyncerDelete,
         SyncerEnds, controlPlane
<1>2. syncer.todo \in [Bots -> Doc] /\ resources \in [Bots -> Resource]
      /\ syncer \in Syncer /\ deployments[b] \in Deployment
  BY DEF OperatorInv, TypeOK, Syncer
<1>3. syncer'.todo[b] \in {syncer.todo[b], feed[b], NoDoc}
  <2>1. IdleSyncer.todo[b] = NoDoc
    BY DEF IdleSyncer
  <2>2. CASE SyncerList
    BY <2>2 DEF SyncerList, IdleSyncer
  <2>3. ASSUME NEW x \in Bots, SyncerApply(x)
        PROVE  syncer'.todo[b] \in {syncer.todo[b], NoDoc}
    BY <1>2, <2>1, <2>3 DEF SyncerApply, Syncer
  <2>4. ASSUME NEW x \in Bots, SyncerDelete(x)
        PROVE  syncer'.todo[b] = syncer.todo[b]
    BY <1>2, <2>4 DEF SyncerDelete, Syncer
  <2>5. CASE SyncerListOrphans \/ SyncerEnds
    BY <2>1, <2>5 DEF SyncerListOrphans, SyncerEnds, IdleSyncer
  <2> QED BY <2>2, <2>3, <2>4, <2>5 DEF SyncerStep
<1>4. resources'[b].doc \in {resources[b].doc, syncer.todo[b], NoDoc}
  BY <1>2 DEF SyncerStep, SyncerList, SyncerApply, SyncerListOrphans,
              SyncerDelete, SyncerEnds, NoResource, Resource
<1>5. deployments'[b] = [deployments[b] EXCEPT !.seen = deployments[b].seen]
  BY <1>1, <1>2 DEF Deployment
<1> QED BY <1>1, <1>3, <1>4, <1>5, MeansKept DEF Promised

\* The phase a pass finds for a document does not contradict it.
LEMMA PhaseFits ==
  ASSUME NEW doc \in Doc, NEW seen
  PROVE  /\ doc.desired # "deleted"
            => /\ ~Contradicts(PhaseFor(doc, seen), doc.desired)
               /\ ~Contradicts("reconciling", doc.desired)
         /\ doc.desired = "deleted" => ~Contradicts("deleting", doc.desired)
  BY DEF PhaseFor, Contradicts, Replicas, Doc, DesiredStates

\* What a pass makes of the Deployment and of the status.
LEMMA PassMeans ==
  ASSUME OperatorInv, NEW b \in Bots,
         ReconcileDeleted(b) \/ ReconcileCreated(b) \/ ReconcileUpdated(b)
  PROVE  LET doc == cache.resources[b].doc
         IN  /\ \/ deployments'[b] = deployments[b]
                \/ deployments'[b] = NoDeployment
                \/ Fits(deployments'[b], doc)
             /\ ~Contradicts(reconciler'.next.phase, doc.desired)
<1> DEFINE doc == cache.resources[b].doc
<1>1. deployments \in [Bots -> Deployment]
  BY DEF OperatorInv, TypeOK
<1>2. doc \in Doc
  <2>1. cache.resources \in [Bots -> Resource]
    BY DEF OperatorInv, TypeOK
  <2> QED BY <2>1 DEF Resource
<1>3. CASE ReconcileDeleted(b)
  BY <1>1, <1>2, <1>3, PhaseFits DEF ReconcileDeleted, GoesOn, StatusFor
<1>4. CASE ReconcileCreated(b)
  BY <1>1, <1>2, <1>4, PhaseFits
     DEF ReconcileCreated, GoesOn, StatusFor, Fits, DesiredDeployment
<1>5. CASE ReconcileUpdated(b)
  BY <1>1, <1>2, <1>5, PhaseFits
     DEF ReconcileUpdated, GoesOn, StatusFor, Fits, DesiredDeployment
<1> QED BY <1>3, <1>4, <1>5

LEMMA MeansPass ==
  ASSUME OperatorInv, NEW b \in Bots, MeansInv(b), NEW x \in Bots,
         ReconcileDeleted(x) \/ ReconcileCreated(x) \/ ReconcileUpdated(x)
  PROVE  MeansInv(b)'
<1>1. UNCHANGED <<feed, said, syncer, resources, cache, faults>>
  BY DEF ReconcileDeleted, ReconcileCreated, ReconcileUpdated, GoesOn,
         controlPlane
<1>2. deployments \in [Bots -> Deployment]
  BY DEF OperatorInv, TypeOK
<1>3. CASE b # x
  <2>1. Promised(b)' = 0
    BY <1>3, PassStep DEF Promised
  <2>2. deployments'[b] = deployments[b]
    BY <1>2, <1>3 DEF ReconcileDeleted, ReconcileCreated, ReconcileUpdated
  <2>3. deployments'[b] = [deployments[b] EXCEPT !.seen = deployments[b].seen]
    BY <1>2, <2>2 DEF Deployment
  <2> QED BY <1>1, <2>1, <2>3, MeansKept
<1>4. CASE b = x
  <2> DEFINE doc == cache.resources[b].doc
  <2>1. /\ \/ deployments'[b] = deployments[b]
           \/ deployments'[b] = NoDeployment
           \/ Fits(deployments'[b], doc) /\ deployments'[b].gen = doc.gen
        /\ ~Contradicts(reconciler'.next.phase, doc.desired)
        /\ Promised(b)' = doc.gen
    BY <1>4, PassMeans, PassStep DEF Promised, Fits, DesiredDeployment
  <2>2. Listed(b) => NoDeployment.gen # feed[b].gen
    BY DEF Listed, NoDeployment
  <2> QED BY <1>1, <2>1, <2>2 DEF MeansInv, Means, SameIfNamed, Listed
<1> QED BY <1>3, <1>4

LEMMA MeansReport ==
  ASSUME OperatorInv, NEW b \in Bots, MeansInv(b), UpdateStatus \/ ReportBotStatus
  PROVE  MeansInv(b)'
<1>1. UNCHANGED <<feed, syncer, cache, deployments, faults>>
  BY DEF UpdateStatus, ReportBotStatus, controlPlane
<1>2. resources \in [Bots -> Resource] /\ said \in [Bots -> Report]
      /\ deployments[b] \in Deployment /\ reconciler \in Reconciler
  BY DEF OperatorInv, TypeOK
<1>3. \/ Promised(b)' = 0
      \/ Promised(b)' = Promised(b) /\ reconciler'.next = reconciler.next
  <2>1. CASE reconciler' = IdleReconciler
    BY <2>1 DEF Promised, IdleReconciler
  <2>2. CASE /\ reconciler.pc = "status"
             /\ reconciler' = [reconciler EXCEPT !.pc = "report",
                                                 !.res = NoResource]
    <3>1. reconciler'.bot = reconciler.bot /\ reconciler'.next = reconciler.next
      BY <1>2, <2>2 DEF Reconciler
    <3> QED BY <2>2, <3>1 DEF Promised
  <2> QED BY <2>1, <2>2 DEF UpdateStatus, ReportBotStatus, Retry
<1>4. \/ said'[b] = said[b]
      \/ said'[b].gen = Promised(b) /\ said'[b].phase = reconciler.next.phase
  BY <1>2 DEF UpdateStatus, ReportBotStatus, NextReport, Promised, controlPlane
<1>5. resources'[b].doc = resources[b].doc
  BY <1>2 DEF UpdateStatus, ReportBotStatus, Resource
<1>6. deployments'[b] = [deployments[b] EXCEPT !.seen = deployments[b].seen]
  BY <1>1, <1>2 DEF Deployment
<1> QED BY <1>1, <1>3, <1>4, <1>5, <1>6, MeansKept

LEMMA MeansEvent ==
  ASSUME OperatorInv, NEW b \in Bots, MeansInv(b), NEW x \in Bots,
         ResourceEvent(x) \/ DeploymentEvent(x) \/ KubernetesStep(x)
  PROVE  MeansInv(b)'
<1>1. UNCHANGED <<controlPlane, syncer, reconciler, resources, faults>>
  BY DEF ResourceEvent, DeploymentEvent, KubernetesStep, PodStarts, PodReady,
         PodsStop, StatusUpdated, GarbageCollected, NotKubernetes
<1>2. /\ cache.resources \in [Bots -> Resource]
      /\ cache \in [resources : [Bots -> Resource],
                    deployments : [Bots -> Deployment]]
      /\ deployments \in [Bots -> Deployment]
  BY DEF OperatorInv, TypeOK
<1>3. cache'.resources[b] \in {cache.resources[b], resources[b]}
  BY <1>2 DEF ResourceEvent, DeploymentEvent, KubernetesStep, PodStarts, PodReady,
              PodsStop, StatusUpdated, GarbageCollected, NotKubernetes
<1>4. \/ deployments'[b].gen = 0
      \/ \E seen : deployments'[b] = [deployments[b] EXCEPT !.seen = seen]
  <2>1. CASE StatusUpdated(x) /\ b = x
    BY <1>2, <2>1 DEF StatusUpdated
  <2>2. CASE GarbageCollected(x) /\ b = x
    BY <1>2, <2>2 DEF GarbageCollected, NoDeployment
  <2>3. CASE deployments'[b] = deployments[b]
    <3>1. deployments'[b] = [deployments[b] EXCEPT !.seen = deployments[b].seen]
      BY <1>2, <2>3 DEF Deployment
    <3> QED BY <3>1
  <2>4. CASE ~StatusUpdated(x) /\ ~GarbageCollected(x)
    BY <2>3, <2>4 DEF ResourceEvent, DeploymentEvent, KubernetesStep, PodStarts,
                      PodReady, PodsStop, NotKubernetes
  <2>5. CASE b # x /\ (StatusUpdated(x) \/ GarbageCollected(x))
    BY <1>2, <2>3, <2>5 DEF StatusUpdated, GarbageCollected
  <2> QED BY <2>1, <2>2, <2>4, <2>5
<1> QED BY <1>1, <1>3, <1>4, MeansKept DEF Promised, controlPlane

LEMMA MeansStep ==
  ASSUME OperatorInv, NEW b \in Bots, Ordered(b), MeansInv(b), [Next]_vars
  PROVE  MeansInv(b)'
<1>1. CASE UNCHANGED vars
  BY <1>1 DEF vars, MeansInv, Means, SameIfNamed, Fits, Promised, Listed
<1>2. ASSUME NEW x \in Bots, ReconcileNothing(x)
      PROVE  MeansInv(b)'
  BY <1>2 DEF ReconcileNothing, controlPlane, MeansInv, Means, SameIfNamed, Fits,
              Promised, Listed
<1>3. CASE FaultStep
  <2>1. faults' = faults + 1
    BY <1>3 DEF FaultStep, PodDies, PodRefused, Republish, SyncerFails,
                ReconcilerFails, OperatorRestarts, Fault
  <2> QED BY <2>1, MeansFault
<1> QED BY <1>1, <1>2, <1>3, MeansPublished, MeansSyncer, MeansPass, MeansReport,
           MeansEvent
        DEF Next, ReconcilerStep

\* Until something fails, what is annotated with a contract's generation, or was
\* reported of it, is that contract's, for any number of bots and generations.
THEOREM GenerationsMeanContracts == Spec => []GenerationMeansContract
<1>1. Init => \A b \in Bots : MeansInv(b)
  BY MeansInit
<1>2. OperatorInv /\ (\A b \in Bots : Ordered(b)) /\ (\A b \in Bots : MeansInv(b))
      /\ [Next]_vars => (\A b \in Bots : MeansInv(b))'
  BY MeansStep
<1>3. (\A b \in Bots : MeansInv(b)) => GenerationMeansContract
  BY DEF MeansInv, Means, Fits, GenerationMeansContract
<1> QED BY <1>1, <1>2, <1>3, OrderInvariant, PTL DEF Spec
==============================================================================
