----------------------------- MODULE BotOperator -----------------------------
(***************************************************************************)
(* The Kubernetes operator.  Two loops carry a bot's contract from the     *)
(* control plane's feed to a Deployment and what became of it back:        *)
(*                                                                         *)
(*   syncer      every interval lists the feed and makes one ThreadrBot    *)
(*               resource per contract, then deletes the resources whose   *)
(*               contract was not listed                                   *)
(*   reconciler  takes a bot off the work queue, makes its Deployment what *)
(*               the resource's spec says, writes the resource's status    *)
(*               and, if that changed, reports it                          *)
(*                                                                         *)
(* Both read Kubernetes through the manager's client, from a cache that    *)
(* watch events bring up to date, and the event of an object puts its bot  *)
(* on the queue.  They write to the API server, which refuses an update    *)
(* unless the object is still the one that was read, and the creation of   *)
(* what exists.  A write and the cached reads before it are one step: the  *)
(* cache may be old anyway.  Objects are named by their bot.               *)
(***************************************************************************)
EXTENDS Naturals, FiniteSets

CONSTANTS Bots, Configs, NoConfig, NoBot,
          MaxGen,     \* bound on the generations published for a bot
          MaxFaults   \* bound on the faults in a behaviour

ASSUME OperatorAssumption ==
    /\ MaxGen \in Nat \ {0}
    /\ MaxFaults \in Nat
    /\ NoConfig \notin Configs
    /\ NoBot \notin Bots

VARIABLES feed,         \* the contract the control plane publishes for a bot
          recorded,     \* the generation it has recorded for a bot
          ended,        \* the bots whose contracts it withdrew
          said,         \* the report it accepted last
          syncer, queue, reconciler,
          resources, deployments,
          cache,        \* what the operator knows of the two
          pods,         \* what runs, whatever the Deployment's status says
          faults

controlPlane == <<feed, recorded, ended, said>>
operator == <<syncer, queue, reconciler, resources, deployments, cache>>
vars == <<feed, recorded, ended, said, syncer, queue, reconciler, resources,
          deployments, cache, pods, faults>>

------------------------------------------------------------------------------
(* Documents and objects.                                                  *)

Generations == 0..MaxGen
DesiredStates == {"running", "stopped", "deleted"}
Phases == {"none", "reconciling", "running", "stopped", "degraded", "deleting"}
Conditions == {"none", "available", "failed"}

\* A contract, and the spec of a resource; generation 0 stands for none.
Doc == [gen : Generations, desired : DesiredStates,
        config : Configs \union {NoConfig}]
NoDoc == [gen |-> 0, desired |-> "running", config |-> NoConfig]

\* A Deployment; generation 0 (its annotation) stands for none.  Its status is
\* what the deployment controller wrote last: whether there are pods, whether
\* one is ready, and the conditions: nothing to tell, or one of them.
Seen == [pods : BOOLEAN, ready : BOOLEAN, cond : Conditions]
NothingSeen == [pods |-> FALSE, ready |-> FALSE, cond |-> "none"]
Deployment == [gen : Generations, replicas : 0..1,
               config : Configs \union {NoConfig}, seen : Seen]
NoDeployment == [gen |-> 0, replicas |-> 0, config |-> NoConfig,
                 seen |-> NothingSeen]

\* A resource's status: the phase, the generation it is about and what of the
\* Deployment's status is copied.
Status == [phase : Phases, gen : Generations, ready : BOOLEAN, cond : Conditions]
NoStatus == [phase |-> "none", gen |-> 0, ready |-> FALSE, cond |-> "none"]
Resource == [doc : Doc, status : Status]
NoResource == [doc |-> NoDoc, status |-> NoStatus]

\* The config of the ready pod, and whether another is starting.
Pods == [runs : Configs \union {NoConfig}, starting : BOOLEAN]
NoPods == [runs |-> NoConfig, starting |-> FALSE]

Report == [phase : Phases, gen : Generations]
NoReport == [phase |-> "none", gen |-> 0]

\* A pass of the syncer: what it listed and has not applied yet, the bots it
\* listed, the orphans it found and has not deleted yet.
Syncer == [pc : {"idle", "apply", "orphans"}, todo : [Bots -> Doc],
           expected : SUBSET Bots, orphans : SUBSET Bots]
IdleSyncer == [pc |-> "idle", todo |-> [b \in Bots |-> NoDoc], expected |-> {},
               orphans |-> {}]

\* A pass of the reconciler: the resource it read, the status it is to write.
Reconciler == [pc : {"idle", "status", "report"}, bot : Bots \union {NoBot},
               res : Resource, next : Status]
IdleReconciler == [pc |-> "idle", bot |-> NoBot, res |-> NoResource,
                   next |-> NoStatus]

Listed(b) == feed[b].gen > 0
HasResource(b) == resources[b].doc.gen > 0
HasDeployment(b) == deployments[b].gen > 0

Init ==
    /\ feed = [b \in Bots |-> NoDoc]
    /\ recorded = [b \in Bots |-> 0]
    /\ ended = {}
    /\ said = [b \in Bots |-> NoReport]
    /\ syncer = IdleSyncer
    /\ queue = {}
    /\ reconciler = IdleReconciler
    /\ resources = [b \in Bots |-> NoResource]
    /\ deployments = [b \in Bots |-> NoDeployment]
    /\ cache = [resources |-> resources, deployments |-> deployments]
    /\ pods = [b \in Bots |-> NoPods]
    /\ faults = 0

------------------------------------------------------------------------------
(* The control plane, as the operator meets it: the contracts of            *)
(* ContractFeed, which BotControlPlane implements.                         *)

Feed == INSTANCE ContractFeed WITH published <- feed

Document(gen) == [gen : {gen}, desired : DesiredStates, config : Configs]

Publish(b) ==
    /\ recorded[b] < MaxGen
    /\ feed[b].gen = recorded[b]
    /\ \E doc \in Document(recorded[b] + 1) : Feed!Publish(b, doc)
    /\ UNCHANGED <<said, operator, pods, faults>>

Record(b) ==
    /\ Feed!Record(b)
    /\ UNCHANGED <<said, operator, pods, faults>>

\* As Withdraw(b), but what is left of the bot may publish it anew.
WithdrawForNow(b) ==
    /\ Listed(b)
    /\ feed' = [feed EXCEPT ![b] = NoDoc]
    /\ recorded' = [recorded EXCEPT ![b] = 0]
    /\ UNCHANGED <<ended, said, operator, pods, faults>>

Withdraw(b) ==
    /\ Listed(b)
    /\ Feed!Withdraw(b)
    /\ UNCHANGED <<said, operator, pods, faults>>

------------------------------------------------------------------------------
(* ThreadrBotContractSyncer.                                               *)

\* ListBotContracts.
SyncerList ==
    /\ syncer.pc = "idle"
    /\ syncer' = [IdleSyncer EXCEPT !.pc = "apply", !.todo = feed,
                                    !.expected = {b \in Bots : Listed(b)}]
    /\ UNCHANGED <<controlPlane, queue, reconciler, resources, deployments,
                   cache, pods, faults>>

\* As SyncerApply(b), but a contract that cannot be applied is skipped, and
\* counts as not listed.
ApplyOrForget(b) ==
    /\ syncer.pc = "apply"
    /\ syncer.todo[b] # NoDoc
    /\ IF cache.resources[b] = resources[b]
       THEN /\ resources' = [resources EXCEPT ![b].doc = syncer.todo[b]]
            /\ syncer' = [syncer EXCEPT !.todo[b] = NoDoc]
       ELSE /\ syncer' = [syncer EXCEPT !.todo[b] = NoDoc, !.expected = @ \ {b}]
            /\ UNCHANGED resources
    /\ UNCHANGED <<controlPlane, queue, reconciler, deployments, cache, pods,
                   faults>>

\* applyContract creates the resource, or updates the one the cache has.  If
\* that is not the server's the write is refused, and ends the pass: what is
\* left of the list, and the orphans, wait for the next.
SyncerApply(b) ==
    /\ syncer.pc = "apply"
    /\ syncer.todo[b] # NoDoc
    /\ IF cache.resources[b] = resources[b]
       THEN /\ resources' = [resources EXCEPT ![b].doc = syncer.todo[b]]
            /\ syncer' = [syncer EXCEPT !.todo[b] = NoDoc]
       ELSE /\ syncer' = IdleSyncer
            /\ UNCHANGED resources
    /\ UNCHANGED <<controlPlane, queue, reconciler, deployments, cache, pods,
                   faults>>

\* deleteOrphanedContracts lists the resources, then deletes one by one.
SyncerListOrphans ==
    /\ syncer.pc = "apply"
    /\ \A b \in Bots : syncer.todo[b] = NoDoc
    /\ syncer' = [IdleSyncer EXCEPT !.pc = "orphans", !.orphans =
           {b \in Bots : cache.resources[b] # NoResource} \ syncer.expected]
    /\ UNCHANGED <<controlPlane, queue, reconciler, resources, deployments,
                   cache, pods, faults>>

SyncerDelete(b) ==
    /\ b \in syncer.orphans
    /\ syncer' = [syncer EXCEPT !.orphans = @ \ {b}]
    /\ resources' = [resources EXCEPT ![b] = NoResource]
    /\ UNCHANGED <<controlPlane, queue, reconciler, deployments, cache, pods,
                   faults>>

SyncerEnds ==
    /\ syncer.pc = "orphans"
    /\ syncer.orphans = {}
    /\ syncer' = IdleSyncer
    /\ UNCHANGED <<controlPlane, queue, reconciler, resources, deployments,
                   cache, pods, faults>>

SyncerStep ==
    \/ SyncerList
    \/ \E b \in Bots : SyncerApply(b) \/ SyncerDelete(b)
    \/ SyncerListOrphans
    \/ SyncerEnds

------------------------------------------------------------------------------
(* ThreadrBotReconciler.                                                   *)

\* desiredDeployment: what a resource's spec asks of the Deployment.
Replicas(doc) == IF doc.desired = "running" THEN 1 ELSE 0
\* As DesiredDeployment, but annotated with the generation to come.
NumberedDeployment(doc, seen) ==
    [gen |-> doc.gen + 1, replicas |-> Replicas(doc), config |-> doc.config,
     seen |-> seen]
DesiredDeployment(doc, seen) ==
    [gen |-> doc.gen, replicas |-> Replicas(doc), config |-> doc.config,
     seen |-> seen]
\* As NeedsUpdate, but the containers are not compared.
NeedsScaling(dep, doc) == dep.replicas # Replicas(doc)
NeedsUpdate(dep, doc) == dep # DesiredDeployment(doc, dep.seen)

\* As PhaseFor, but what is ready is running, whatever was asked for.
ReadyIsRunning(doc, seen) ==
    CASE seen.ready -> "running"
      [] doc.desired = "stopped" -> IF seen.pods THEN "reconciling" ELSE "stopped"
      [] seen.cond = "failed" -> "degraded"
      [] OTHER -> "reconciling"

\* The Deployment's status is taken for that of the spec; whether it is of an
\* earlier spec (its observedGeneration) is not asked.
PhaseFor(doc, seen) ==
    CASE doc.desired = "stopped" -> IF seen.pods THEN "reconciling" ELSE "stopped"
      [] seen.ready /\ Replicas(doc) > 0 -> "running"
      [] seen.cond = "failed" -> "degraded"
      [] OTHER -> "reconciling"

\* The status updateThreadrBotStatus is about to write.
StatusFor(doc, phase, seen) ==
    [phase |-> phase, gen |-> doc.gen, ready |-> seen.ready, cond |-> seen.cond]

\* Reconcile(b) begins with the resource the cache has and, once the write to
\* the Deployment went through, goes on to the resource's status.  If it was
\* refused the bot goes back on the queue: everything is as before.
Begins(b) == reconciler.pc = "idle" /\ b \in queue

GoesOn(b, status) ==
    /\ queue' = queue \ {b}
    /\ reconciler' = [pc |-> "status", bot |-> b, res |-> cache.resources[b],
                      next |-> status]
    /\ UNCHANGED <<controlPlane, syncer, resources, cache, pods, faults>>

ReconcileNothing(b) ==
    /\ Begins(b)
    /\ cache.resources[b] = NoResource
    /\ queue' = queue \ {b}
    /\ UNCHANGED <<controlPlane, syncer, reconciler, resources, deployments,
                   cache, pods, faults>>

\* deleteDeploymentIfPresent; no Deployment in the cache is none to delete.
ReconcileDeleted(b) ==
    LET doc == cache.resources[b].doc IN
    /\ Begins(b)
    /\ doc.gen > 0 /\ doc.desired = "deleted"
    /\ \/ /\ cache.deployments[b] = NoDeployment
          /\ UNCHANGED deployments
       \/ /\ cache.deployments[b] # NoDeployment
          /\ HasDeployment(b)
          /\ deployments' = [deployments EXCEPT ![b] = NoDeployment]
    /\ GoesOn(b, StatusFor(doc, "deleting", NothingSeen))

ReconcileCreated(b) ==
    LET doc == cache.resources[b].doc IN
    /\ Begins(b)
    /\ doc.gen > 0 /\ doc.desired # "deleted"
    /\ cache.deployments[b] = NoDeployment
    /\ ~HasDeployment(b)
    /\ deployments' = [deployments EXCEPT ![b] = DesiredDeployment(doc, NothingSeen)]
    /\ GoesOn(b, StatusFor(doc, "reconciling", NothingSeen))

\* The phase is taken of the Deployment the update returned; its status is
\* still that of the spec before.
ReconcileUpdated(b) ==
    LET doc == cache.resources[b].doc
        dep == cache.deployments[b]
    IN  /\ Begins(b)
        /\ doc.gen > 0 /\ doc.desired # "deleted"
        /\ dep # NoDeployment
        /\ IF NeedsUpdate(dep, doc)
           THEN /\ deployments[b] = dep
                /\ deployments' = [deployments EXCEPT ![b] =
                                      DesiredDeployment(doc, dep.seen)]
           ELSE UNCHANGED deployments
        /\ GoesOn(b, StatusFor(doc, PhaseFor(doc, dep.seen), dep.seen))

\* A pass that fails after that is tried again from the start.
Retry == /\ reconciler' = IdleReconciler
         /\ queue' = queue \union {reconciler.bot}

\* As UpdateStatus, but the status is patched whatever the resource has become.
PatchStatus ==
    LET b == reconciler.bot IN
    /\ reconciler.pc = "status"
    /\ \/ /\ reconciler.next = reconciler.res.status
          /\ reconciler' = IdleReconciler
          /\ UNCHANGED resources
       \/ /\ reconciler.next # reconciler.res.status
          /\ HasResource(b)
          /\ resources' = [resources EXCEPT ![b].status = reconciler.next]
          /\ reconciler' = [reconciler EXCEPT !.pc = "report", !.res = NoResource]
    /\ UNCHANGED <<controlPlane, syncer, queue, deployments, cache, pods, faults>>

\* updateThreadrBotStatus: nothing is written, nor reported, if the resource
\* that was read has this status already.
UpdateStatus ==
    LET b == reconciler.bot IN
    /\ reconciler.pc = "status"
    /\ \/ /\ reconciler.next = reconciler.res.status
          /\ reconciler' = IdleReconciler
          /\ UNCHANGED <<resources, queue>>
       \/ /\ reconciler.next # reconciler.res.status
          /\ resources[b] = reconciler.res
          /\ resources' = [resources EXCEPT ![b].status = reconciler.next]
          /\ reconciler' = [reconciler EXCEPT !.pc = "report", !.res = NoResource]
          /\ UNCHANGED queue
       \/ /\ reconciler.next # reconciler.res.status
          /\ resources[b] # reconciler.res
          /\ Retry
          /\ UNCHANGED resources
    /\ UNCHANGED <<controlPlane, syncer, deployments, cache, pods, faults>>

\* reportStatusToControlPlane.  The client takes any answer but 200 for an
\* error; only that a bot it calls deleted is not there is well.
NextReport == [phase |-> reconciler.next.phase, gen |-> reconciler.next.gen]
Accepted == Feed!Accepts(reconciler.bot, reconciler.next.gen)
NotFound == reconciler.bot \in ended
Delivered == Accepted \/ (NotFound /\ reconciler.next.phase = "deleted")

ReportBotStatus ==
    /\ reconciler.pc = "report"
    /\ IF Delivered
       THEN /\ said' = [said EXCEPT ![reconciler.bot] = NextReport]
            /\ reconciler' = IdleReconciler
            /\ UNCHANGED queue
       ELSE Retry /\ UNCHANGED said
    /\ UNCHANGED <<feed, recorded, ended, syncer, resources, deployments, cache,
                   pods, faults>>

ReconcilerStep ==
    \/ \E b \in Bots : \/ ReconcileNothing(b)
                       \/ ReconcileDeleted(b)
                       \/ ReconcileCreated(b)
                       \/ ReconcileUpdated(b)
    \/ UpdateStatus
    \/ ReportBotStatus

------------------------------------------------------------------------------
(* The manager's cache.  Events may lag, for the two kinds independently.  *)

ResourceEvent(b) ==
    /\ cache.resources[b] # resources[b]
    /\ cache' = [cache EXCEPT !.resources[b] = resources[b]]
    /\ queue' = queue \union {b}
    /\ UNCHANGED <<controlPlane, syncer, reconciler, resources, deployments,
                   pods, faults>>

DeploymentEvent(b) ==
    /\ cache.deployments[b] # deployments[b]
    /\ cache' = [cache EXCEPT !.deployments[b] = deployments[b]]
    /\ queue' = queue \union {b}
    /\ UNCHANGED <<controlPlane, syncer, reconciler, resources, deployments,
                   pods, faults>>

------------------------------------------------------------------------------
(* Kubernetes.  A rolling update of one replica keeps the ready pod until  *)
(* the next one is ready.                                                  *)

Scaled(b) == HasDeployment(b) /\ deployments[b].replicas = 1
NotKubernetes == <<controlPlane, syncer, queue, reconciler, resources, cache>>

PodStarts(b) ==
    /\ Scaled(b)
    /\ pods[b].runs # deployments[b].config /\ ~pods[b].starting
    /\ pods' = [pods EXCEPT ![b].starting = TRUE]
    /\ UNCHANGED <<NotKubernetes, deployments, faults>>

PodReady(b) ==
    /\ Scaled(b)
    /\ pods[b].starting
    /\ pods' = [pods EXCEPT ![b] = [runs |-> deployments[b].config,
                                    starting |-> FALSE]]
    /\ UNCHANGED <<NotKubernetes, deployments, faults>>

PodsStop(b) ==
    /\ ~Scaled(b)
    /\ pods[b] # NoPods
    /\ pods' = [pods EXCEPT ![b] = NoPods]
    /\ UNCHANGED <<NotKubernetes, deployments, faults>>

\* What the deployment controller writes of the pods it finds.
Observed(b) == [pods  |-> pods[b] # NoPods,
                ready |-> pods[b].runs # NoConfig,
                cond  |-> IF pods[b].runs = NoConfig THEN "none" ELSE "available"]

StatusUpdated(b) ==
    /\ HasDeployment(b)
    /\ deployments[b].seen # Observed(b)
    /\ deployments' = [deployments EXCEPT ![b].seen = Observed(b)]
    /\ UNCHANGED <<NotKubernetes, pods, faults>>

\* A Deployment goes with the resource that owns it.
GarbageCollected(b) ==
    /\ HasDeployment(b) /\ ~HasResource(b)
    /\ deployments' = [deployments EXCEPT ![b] = NoDeployment]
    /\ UNCHANGED <<NotKubernetes, pods, faults>>

KubernetesStep(b) == \/ PodStarts(b) \/ PodReady(b) \/ PodsStop(b)
                     \/ StatusUpdated(b) \/ GarbageCollected(b)

------------------------------------------------------------------------------
(* Faults.                                                                 *)

Fault == faults < MaxFaults /\ faults' = faults + 1

PodDies(b) ==
    /\ Fault
    /\ pods[b].runs # NoConfig
    /\ pods' = [pods EXCEPT ![b].runs = NoConfig]
    /\ UNCHANGED <<NotKubernetes, deployments>>

\* No pod can be created, which the status says.
PodRefused(b) ==
    /\ Fault
    /\ Scaled(b) /\ pods[b] = NoPods
    /\ deployments' = [deployments EXCEPT ![b].seen =
           [pods |-> FALSE, ready |-> FALSE, cond |-> "failed"]]
    /\ UNCHANGED <<NotKubernetes, pods>>

\* A retry of the control plane's dispatcher publishes another document under
\* the generation that is not recorded yet.
Republish(b) ==
    /\ Fault
    /\ feed[b].gen = recorded[b] + 1
    /\ \E doc \in Document(recorded[b] + 1) : Feed!Publish(b, doc)
    /\ UNCHANGED <<said, operator, pods>>

\* A request of the syncer fails, and with it the pass.
SyncerFails ==
    /\ Fault
    /\ syncer.pc # "idle"
    /\ syncer' = IdleSyncer
    /\ UNCHANGED <<controlPlane, queue, reconciler, resources, deployments,
                   cache, pods>>

\* A request of the reconciler fails; a report may have been accepted all the
\* same.
ReconcilerFails ==
    /\ Fault
    /\ reconciler.pc # "idle"
    /\ Retry
    /\ \/ UNCHANGED said
       \/ /\ reconciler.pc = "report" /\ Accepted
          /\ said' = [said EXCEPT ![reconciler.bot] = NextReport]
    /\ UNCHANGED <<feed, recorded, ended, syncer, resources, deployments, cache,
                   pods>>

\* The operator starts again, fills its cache and queues what it finds.
OperatorRestarts ==
    /\ Fault
    /\ syncer' = IdleSyncer
    /\ reconciler' = IdleReconciler
    /\ cache' = [resources |-> resources, deployments |-> deployments]
    /\ queue' = {b \in Bots : HasResource(b) \/ HasDeployment(b)}
    /\ UNCHANGED <<controlPlane, resources, deployments, pods>>

FaultStep ==
    \/ \E b \in Bots : PodDies(b) \/ PodRefused(b) \/ Republish(b)
    \/ SyncerFails
    \/ ReconcilerFails
    \/ OperatorRestarts

------------------------------------------------------------------------------
Next ==
    \/ \E b \in Bots : Publish(b) \/ Record(b) \/ Withdraw(b)
    \/ SyncerStep
    \/ ReconcilerStep
    \/ \E b \in Bots : ResourceEvent(b) \/ DeploymentEvent(b)
    \/ \E b \in Bots : KubernetesStep(b)
    \/ FaultStep

Spec == Init /\ [][Next]_vars

\* The ticker fires, watch events arrive, the queue is worked through and
\* Kubernetes gets on; the control plane records what it published.  Nobody has
\* to publish, and nothing has to fail.
Fairness ==
    /\ WF_vars(SyncerStep)
    /\ WF_vars(ReconcilerStep)
    /\ \A b \in Bots : /\ WF_vars(Record(b))
                       /\ WF_vars(ResourceEvent(b))
                       /\ WF_vars(DeploymentEvent(b))
                       /\ WF_vars(KubernetesStep(b))

FairSpec == Spec /\ Fairness

------------------------------------------------------------------------------
(* Documents, objects, the cache and the two loops hold values of their    *)
(* types.                                                                  *)
TypeOK ==
    /\ feed \in [Bots -> Doc]
    /\ recorded \in [Bots -> Generations]
    /\ ended \in SUBSET Bots
    /\ said \in [Bots -> Report]
    /\ syncer \in Syncer
    /\ queue \in SUBSET Bots
    /\ reconciler \in Reconciler
    /\ resources \in [Bots -> Resource]
    /\ deployments \in [Bots -> Deployment]
    /\ cache \in [resources : [Bots -> Resource],
                  deployments : [Bots -> Deployment]]
    /\ pods \in [Bots -> Pods]
    /\ faults \in 0..MaxFaults

\* The status written to a resource is about the spec the resource has: one
\* computed from a cached spec that the syncer replaced meanwhile is refused.
StatusIsOfSpec ==
    [][\A b \in Bots :
         HasResource(b) /\ resources'[b].status # resources[b].status
         => \/ ~HasResource(b)'
            \/ resources'[b].status.gen = resources[b].doc.gen]_vars

\* A Deployment never goes back to an earlier contract, nor is one made by a
\* contract from before the last report: however the passes, the two caches and
\* the failing requests fall, what was rolled out, stopped or deleted under a
\* generation is not undone by one before it.
SpecsGoForward ==
    [][\A b \in Bots :
         (HasDeployment(b)' /\ deployments'[b].gen # deployments[b].gen)
         => /\ deployments'[b].gen > deployments[b].gen
            /\ deployments'[b].gen >= said[b].gen]_vars

\* Only the resources of withdrawn contracts are deleted: a pass that failed,
\* met a conflict or listed from an old cache deletes no other.
OnlyOrphansGo ==
    [][\A b \in Bots : HasResource(b) /\ ~HasResource(b)' => ~Listed(b)]_vars

\* A bot that is at rest is up to date: whatever passes were refused, retried,
\* cut short or worked from old copies, while a bot is neither queued nor in hand
\* and the cache is current, its Deployment is what its resource asks for, and
\* the resource's status what the Deployment's status says.  The controller is
\* driven by events alone: what a pass leaves undone must be queued again.
AtRest(b) ==
    /\ b \notin queue /\ reconciler.bot # b
    /\ cache.resources[b] = resources[b] /\ cache.deployments[b] = deployments[b]
UpToDate(b) ==
    LET doc == resources[b].doc
        dep == deployments[b]
        phase == IF doc.desired = "deleted" THEN "deleting"
                                            ELSE PhaseFor(doc, dep.seen)
    IN  /\ dep = IF doc.desired = "deleted" THEN NoDeployment
                                            ELSE DesiredDeployment(doc, dep.seen)
        /\ resources[b].status = StatusFor(doc, phase, dep.seen)
AtRestIsUpToDate ==
    \A b \in Bots : AtRest(b) /\ HasResource(b) => UpToDate(b)

\* When contracts stay as they are, every bot ends up as its contract says, the
\* Deployment and the pod; and so does the report that was accepted last, unless
\* a report came to be sent before the generation it is about was recorded.  One
\* that is refused is not sent again: the resource has its status by then.
Done(b) ==
    LET doc == feed[b] IN
    IF doc.desired = "deleted" \/ ~Listed(b)
    THEN ~HasDeployment(b) /\ pods[b] = NoPods
    ELSE /\ resources[b].doc = doc
         /\ pods[b].runs = IF doc.desired = "running" THEN doc.config
                                                      ELSE NoConfig
Told(b) ==
    LET last == IF feed[b].desired = "deleted" THEN "deleting" ELSE feed[b].desired
    IN  Listed(b) => said[b] = [phase |-> last, gen |-> feed[b].gen]
ReportsTooEarly(b) ==
    /\ reconciler.pc = "report" /\ reconciler.bot = b
    /\ reconciler.next.gen = recorded[b] + 1
EveryBotSettles ==
    \A b \in Bots : /\ <>[]Done(b)
                    /\ <>ReportsTooEarly(b) \/ <>[]Told(b)

\* The control plane's README: a bot stays "reconciling" until its new
\* workload is confirmed, and an old rollout cannot overwrite its state.
RunningMeansRolledOut ==
    \A b \in Bots :
        (said[b].phase = "running" /\ said[b].gen = feed[b].gen)
        => pods[b].runs = feed[b].config

\* The operator's README: terminal "deleted" is reported once the workload is
\* gone, so that the control plane removes the bot.
DeletedIsReported ==
    \A b \in Bots :
        (Listed(b) /\ feed[b].desired = "deleted")
        ~> (said[b].phase = "deleted" \/ feed[b].desired # "deleted")

\* A generation means its contract.  Until something fails, a Deployment that is
\* annotated with the contract's generation is what the contract asks for, and
\* none is where it asks for deletion; and what the control plane took for a
\* report about that generation does not contradict it: "running" is not said
\* of a bot to be stopped, nor "stopped" of one to be run, and "deleting" is said
\* of the bots to be deleted alone.  Document, annotation and report are three
\* copies, made in passes that may each work from an old one.
Contradicts(phase, desired) ==
    \/ phase = "running" /\ desired # "running"
    \/ phase = "stopped" /\ desired # "stopped"
    \/ (phase = "deleting") # (desired = "deleted")
GenerationMeansContract ==
    faults = 0 =>
      \A b \in Bots :
        LET doc == feed[b]
            dep == deployments[b]
        IN  Listed(b) =>
              /\ dep.gen = doc.gen => /\ doc.desired # "deleted"
                                     /\ dep = DesiredDeployment(doc, dep.seen)
              /\ said[b].gen = doc.gen => ~Contradicts(said[b].phase, doc.desired)
==============================================================================
