---------------------------- MODULE IRCBotOperator ----------------------------
(***************************************************************************)
(* The operator's older controller.  It takes an IRCBot resource from the  *)
(* work queue, writes the resource's status three times (the time, the     *)
(* number of active Jobs, connected), trims the Jobs that carry the bot's  *)
(* label in between, and last makes the bot's Deployment what the          *)
(* resource's spec says.                                                   *)
(*                                                                         *)
(* Only events of the resource put it on the queue; the Jobs and the       *)
(* Deployment are read from the manager's cache when a pass comes by.  As  *)
(* in BotOperator a write is refused unless the object is still the one    *)
(* that was read.  The Jobs are made by others.                            *)
(***************************************************************************)
EXTENDS Naturals, FiniteSets

CONSTANTS MaxJobs,       \* bound on the Jobs made with the bot's label
          MaxActive,     \* bound on the Jobs active at one time
          HistoryLimit,  \* history_limit of the resource
          MaxEdits,      \* bound on the writes of users to the resource
          MaxFaults      \* bound on the faults in a behaviour

ASSUME IRCBotAssumption ==
    /\ MaxJobs \in Nat
    /\ MaxActive \in Nat
    /\ HistoryLimit \in Nat \ {0}
    /\ MaxEdits \in Nat \ {0}
    /\ MaxFaults \in Nat

VARIABLES bot, jobs, deployment,   \* the objects at the API server
          cache,                   \* what the operator knows of them
          queued,                  \* whether the bot is on the work queue
          pass,                    \* the pass under way
          edits, faults

objects == <<bot, jobs, deployment>>
operator == <<cache, queued, pass>>
vars == <<bot, jobs, deployment, cache, queued, pass, edits, faults>>

------------------------------------------------------------------------------
Edits == 0..MaxEdits
Jobs == 1..MaxJobs

\* The resource.  The writes of users are numbered: uid is the one that made
\* the resource (0: there is none), gen the last, which stands for the spec.
\* beat is its last_message_time, which has whole seconds: of two writes in a
\* row the second may change nothing.
Status == [beat : BOOLEAN, active : 0..MaxJobs, connected : BOOLEAN]
NewStatus == [beat |-> FALSE, active |-> 0, connected |-> FALSE]
IRCBot == [uid : Edits, gen : Edits, suspended : BOOLEAN, deleting : BOOLEAN,
           status : Status]
NoBot == [uid |-> 0, gen |-> 0, suspended |-> FALSE, deleting |-> FALSE,
          status |-> NewStatus]

\* The Deployment: the resource it was made for, the spec it was made of last,
\* and whether its controller says that it has rolled that out.
Deployment == [owner : Edits, gen : Edits, rolled : BOOLEAN]
NoDeployment == [owner |-> 0, gen |-> 0, rolled |-> FALSE]

\* A Job is made once, and deleted in the foreground: it stays until its pods
\* are gone.  The cache learns of that late ("gone", then "unlisted"); that it
\* learns late of the rest is as if the rest happened later.  A Job that is
\* being deleted is taken to count no active pods.
JobStates == {"none", "active", "finished", "deleting", "gone", "unlisted"}
Listed == {j \in Jobs : jobs[j] \in {"active", "finished", "deleting", "gone"}}

\* A pass: its copy of the resource, the active Jobs it counted, and the Jobs
\* it is to delete.
Pass == [pc : {"idle", "time", "active", "jobs", "deployment"}, copy : IRCBot,
         active : 0..MaxJobs, todo : SUBSET Jobs]
IdlePass == [pc |-> "idle", copy |-> NoBot, active |-> 0, todo |-> {}]

Init ==
    /\ bot = NoBot
    /\ jobs = [j \in Jobs |-> "none"]
    /\ deployment = NoDeployment
    /\ cache = [bot |-> bot, deployment |-> deployment]
    /\ queued = FALSE
    /\ pass = IdlePass
    /\ edits = 0
    /\ faults = 0

------------------------------------------------------------------------------
(* IRCBotReconciler.                                                       *)

\* getActiveJobs.
ActiveJobs == Cardinality({j \in Jobs : jobs[j] = "active"})

\* cleanupOldJobs compares the length of the list it goes through, which does
\* not get shorter on the way: all of the list is deleted, or nothing.
JobsToDelete == IF Cardinality(Listed) > HistoryLimit THEN Listed ELSE {}

\* A pass that fails is tried again from the start.
Retry == pass' = IdlePass /\ queued' = TRUE

\* Reconcile reads the resource and lists the Jobs.
Reconcile ==
    /\ pass.pc = "idle" /\ queued
    /\ queued' = FALSE
    /\ pass' = IF cache.bot = NoBot \/ cache.bot.deleting \/ cache.bot.suspended
               THEN IdlePass
               ELSE [pc |-> "time", copy |-> cache.bot, active |-> ActiveJobs,
                     todo |-> JobsToDelete]
    /\ UNCHANGED <<objects, cache, edits, faults>>

\* As WriteStatus, but a patch of the resource as it is now.
PatchStatus(status, next) ==
    /\ bot # NoBot
    /\ bot' = [bot EXCEPT !.status = status]
    /\ pass' = [pass EXCEPT !.copy.status = status, !.pc = next]
    /\ UNCHANGED <<jobs, deployment, cache, queued, edits, faults>>

\* Status().Update of the copy, which the answer brings up to date.
WriteStatus(status, next) ==
    /\ IF bot = pass.copy
       THEN /\ bot' = [bot EXCEPT !.status = status]
            /\ pass' = [pass EXCEPT !.copy.status = status, !.pc = next]
            /\ UNCHANGED queued
       ELSE Retry /\ UNCHANGED bot
    /\ UNCHANGED <<jobs, deployment, cache, edits, faults>>

WriteLastMessageTime ==
    /\ pass.pc = "time"
    /\ \E beat \in BOOLEAN :
          WriteStatus([pass.copy.status EXCEPT !.beat = beat],
                      IF pass.copy.status.active = pass.active THEN "jobs"
                                                               ELSE "active")

WriteActiveJobs ==
    /\ pass.pc = "active"
    /\ WriteStatus([pass.copy.status EXCEPT !.active = pass.active], "jobs")

\* A listed Job that is gone cannot be deleted, and the pass fails.
DeleteJob(j) ==
    /\ pass.pc = "jobs" /\ j \in pass.todo
    /\ IF jobs[j] \in {"gone", "unlisted"}
       THEN Retry /\ UNCHANGED jobs
       ELSE /\ jobs' = [jobs EXCEPT ![j] = "deleting"]
            /\ pass' = [pass EXCEPT !.todo = @ \ {j}]
            /\ UNCHANGED queued
    /\ UNCHANGED <<bot, deployment, cache, edits, faults>>

WriteConnected ==
    /\ pass.pc = "jobs" /\ pass.todo = {}
    /\ WriteStatus([pass.copy.status EXCEPT !.connected = TRUE], "deployment")

\* As DeploymentFor, but numbered after the edit to come.
DeploymentAhead(found) == [found EXCEPT !.gen = pass.copy.gen + 1]
\* As DeploymentFor, but an existing Deployment keeps its pod template.
DeploymentKept(found) == found
\* The Deployment found gets the spec wanted; its owner stays.
DeploymentFor(found) ==
    [found EXCEPT !.gen = pass.copy.gen,
                  !.rolled = @ /\ found.gen = pass.copy.gen]

\* reconcileBotDeployment creates what the cache does not have, and updates
\* what it has.
ReconcileBotDeployment ==
    /\ pass.pc = "deployment"
    /\ IF deployment = cache.deployment
       THEN /\ deployment' = IF deployment = NoDeployment
                   THEN [owner |-> pass.copy.uid, gen |-> pass.copy.gen,
                         rolled |-> FALSE]
                   ELSE DeploymentFor(deployment)
            /\ pass' = IdlePass
            /\ UNCHANGED queued
       ELSE Retry /\ UNCHANGED deployment
    /\ UNCHANGED <<bot, jobs, cache, edits, faults>>

PassStep ==
    \/ Reconcile
    \/ WriteLastMessageTime
    \/ WriteActiveJobs
    \/ \E j \in Jobs : DeleteJob(j)
    \/ WriteConnected
    \/ ReconcileBotDeployment

------------------------------------------------------------------------------
(* The manager's cache, and the queue that For() feeds.                    *)

BotEvent ==
    /\ cache.bot # bot
    /\ cache' = [cache EXCEPT !.bot = bot]
    /\ queued' = TRUE
    /\ UNCHANGED <<objects, pass, edits, faults>>

DependentEvent ==
    /\ \/ /\ cache.deployment # deployment
          /\ cache' = [cache EXCEPT !.deployment = deployment]
          /\ UNCHANGED jobs
       \/ \E j \in Jobs :
             /\ jobs[j] = "gone"
             /\ jobs' = [jobs EXCEPT ![j] = "unlisted"]
             /\ UNCHANGED cache
    /\ UNCHANGED <<bot, deployment, queued, pass, edits, faults>>

------------------------------------------------------------------------------
(* Users.                                                                  *)

Edit == edits < MaxEdits /\ edits' = edits + 1

CreateBot ==
    /\ Edit
    /\ bot = NoBot
    /\ bot' = [NoBot EXCEPT !.uid = edits', !.gen = edits']
    /\ UNCHANGED <<jobs, deployment, operator, faults>>

EditBot(suspended) ==
    /\ Edit
    /\ bot # NoBot
    /\ bot' = [bot EXCEPT !.gen = edits', !.suspended = suspended]
    /\ UNCHANGED <<jobs, deployment, operator, faults>>

\* In the background the resource goes at once, in the foreground after what it
\* owns.
DeleteBot ==
    /\ bot # NoBot
    /\ \/ bot' = NoBot
       \/ ~bot.deleting /\ bot' = [bot EXCEPT !.deleting = TRUE]
    /\ UNCHANGED <<jobs, deployment, operator, edits, faults>>

UserStep ==
    \/ CreateBot
    \/ \E suspended \in BOOLEAN : EditBot(suspended)
    \/ DeleteBot

------------------------------------------------------------------------------
(* Kubernetes, and whoever makes the Jobs.                                 *)

\* Jobs are numbered as they are made.
JobStarts(j) ==
    /\ jobs[j] = "none" /\ ActiveJobs < MaxActive
    /\ \A k \in Jobs : k < j => jobs[k] # "none"
    /\ jobs' = [jobs EXCEPT ![j] = "active"]
    /\ UNCHANGED <<bot, deployment, operator, edits, faults>>

JobFinishes(j) ==
    /\ jobs[j] = "active"
    /\ jobs' = [jobs EXCEPT ![j] = "finished"]
    /\ UNCHANGED <<bot, deployment, operator, edits, faults>>

JobRemoved(j) ==
    /\ jobs[j] = "deleting"
    /\ jobs' = [jobs EXCEPT ![j] = "gone"]
    /\ UNCHANGED <<bot, deployment, operator, edits, faults>>

RolledOut ==
    /\ deployment # NoDeployment /\ ~deployment.rolled
    /\ deployment' = [deployment EXCEPT !.rolled = TRUE]
    /\ UNCHANGED <<bot, jobs, operator, edits, faults>>

\* The garbage collector: a Deployment goes with its owner, and an owner that
\* waits for it goes after it.
GarbageCollected ==
    \/ /\ deployment # NoDeployment
       /\ deployment.owner # bot.uid \/ bot.deleting
       /\ deployment' = NoDeployment
       /\ UNCHANGED bot
    \/ /\ bot.deleting /\ deployment.owner # bot.uid
       /\ bot' = NoBot
       /\ UNCHANGED deployment

KubernetesStep ==
    \/ \E j \in Jobs : JobRemoved(j)
    \/ RolledOut
    \/ GarbageCollected /\ UNCHANGED <<jobs, operator, edits, faults>>

------------------------------------------------------------------------------
(* Faults.                                                                 *)

Fault == faults < MaxFaults /\ faults' = faults + 1

\* A request of the pass fails.
RequestFails ==
    /\ Fault
    /\ pass.pc # "idle"
    /\ Retry
    /\ UNCHANGED <<objects, cache, edits>>

\* The operator starts again, fills its cache and queues what it finds.
OperatorRestarts ==
    /\ Fault
    /\ pass' = IdlePass
    /\ cache' = [bot |-> bot, deployment |-> deployment]
    /\ jobs' = [j \in Jobs |-> IF jobs[j] = "gone" THEN "unlisted" ELSE jobs[j]]
    /\ queued' = (bot # NoBot)
    /\ UNCHANGED <<bot, deployment, edits>>

------------------------------------------------------------------------------
Next ==
    \/ PassStep
    \/ BotEvent \/ DependentEvent
    \/ UserStep
    \/ \E j \in Jobs : JobStarts(j) \/ JobFinishes(j)
    \/ KubernetesStep
    \/ RequestFails \/ OperatorRestarts

Spec == Init /\ [][Next]_vars

\* The queue is worked through, events arrive and Kubernetes gets on.  Nobody
\* has to edit the resource, nor to make a Job or to end one.
Fairness ==
    /\ WF_vars(PassStep)
    /\ WF_vars(BotEvent)
    /\ WF_vars(DependentEvent)
    /\ WF_vars(KubernetesStep)

FairSpec == Spec /\ Fairness

------------------------------------------------------------------------------
(* The objects, the cache and the pass hold values of their types.         *)
TypeOK ==
    /\ bot \in IRCBot
    /\ jobs \in [Jobs -> JobStates]
    /\ deployment \in Deployment
    /\ cache \in [bot : IRCBot, deployment : Deployment]
    /\ queued \in BOOLEAN
    /\ pass \in Pass
    /\ edits \in Edits
    /\ faults \in 0..MaxFaults

\* The operator writes the status of a resource only as long as the spec is the
\* one the pass began with: once the resource is suspended, is being deleted or
\* has been made anew, a pass that read it before writes no status any more.
StatusIsOfSpec ==
    [][(bot # NoBot /\ bot'.status # bot.status /\ bot'.uid = bot.uid) =>
         /\ pass.copy.gen = bot.gen
         /\ ~bot.suspended /\ ~bot.deleting]_vars

\* A resource at rest is done: while it is neither queued nor in hand and the
\* cached one is the one there is, its status says connected and its Deployment,
\* if there is one, is of its spec, whatever conflicts, edits, failing requests
\* and restarts came before.  The first resource of its name has one; a later one
\* may have lost that of a namesake, and no event of a Deployment is waited for.
AtRest == /\ ~queued /\ pass.pc = "idle" /\ cache.bot = bot
          /\ bot # NoBot /\ ~bot.suspended /\ ~bot.deleting
AtRestIsDone ==
    AtRest => /\ bot.status.connected
              /\ deployment # NoDeployment => deployment.gen = bot.gen
              /\ bot.uid = 1 => deployment # NoDeployment

\* Once users leave the resource alone its Deployment ends up as the spec says,
\* and its status connected, through any conflict, restart or failing request;
\* and the Deployment is gone if the resource is.  A suspended resource keeps
\* what it had.  This is said of resources that do not meet the Deployment of a
\* deleted namesake: such a Deployment is updated, collected, and missed by
\* nobody.
Settled ==
    IF bot = NoBot THEN deployment = NoDeployment
    ELSE bot.suspended \/ (/\ bot.status.connected
                           /\ deployment.owner = bot.uid
                           /\ deployment.gen = bot.gen)
MeetsNamesake == bot # NoBot /\ deployment.owner \notin {0, bot.uid}
BotSettles == <>MeetsNamesake \/ <>[]Settled
==============================================================================
