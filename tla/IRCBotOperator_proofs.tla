------------------------ MODULE IRCBotOperator_proofs ------------------------
(***************************************************************************)
(* Theorems of IRCBotOperator, for every number of Jobs, every history     *)
(* limit and any number of edits and faults.                               *)
(***************************************************************************)
EXTENDS IRCBotOperator, FiniteSetTheorems, TLAPS

------------------------------------------------------------------------------
(* Counting Jobs.                                                          *)

LEMMA JobsAreFinite == IsFiniteSet(Jobs) /\ Cardinality(Jobs) = MaxJobs
  BY IRCBotAssumption, FS_Interval DEF Jobs

LEMMA CountBound ==
  ASSUME NEW T, NEW S \in SUBSET T, IsFiniteSet(T)
  PROVE  /\ Cardinality(S) \in Nat /\ Cardinality(T) \in Nat
         /\ Cardinality(S) <= Cardinality(T)
  BY FS_Subset, FS_CardinalityType

LEMMA ActiveJobsType == ActiveJobs \in 0..MaxJobs
<1>1. {j \in Jobs : jobs[j] = "active"} \in SUBSET Jobs
  OBVIOUS
<1> QED BY <1>1, JobsAreFinite, CountBound, IRCBotAssumption DEF ActiveJobs

------------------------------------------------------------------------------
(* The invariant.  A resource that is there was made by an edit.  A pass   *)
(* under way has a copy of a resource that was neither suspended nor being *)
(* deleted.                                                                *)

Real(b) == b = NoBot \/ b.uid > 0
Taken == pass.pc # "idle" =>
           pass.copy.uid > 0 /\ ~pass.copy.suspended /\ ~pass.copy.deleting

IRCBotInv == TypeOK /\ Real(bot) /\ Real(cache.bot) /\ Taken

LEMMA BlankTypes == /\ NoBot \in IRCBot /\ NoDeployment \in Deployment
                    /\ IdlePass \in Pass
  BY IRCBotAssumption
     DEF NoBot, IRCBot, NewStatus, Status, NoDeployment, Deployment, IdlePass,
         Pass, Edits

LEMMA IRCBotInit == Init => IRCBotInv
<1> SUFFICES ASSUME Init PROVE IRCBotInv
  OBVIOUS
<1>1. edits \in Edits /\ faults \in 0..MaxFaults
  BY IRCBotAssumption DEF Init, Edits
<1>2. bot \in IRCBot /\ deployment \in Deployment /\ pass \in Pass
  BY BlankTypes DEF Init
<1>3. /\ jobs \in [Jobs -> JobStates]
      /\ cache \in [bot : IRCBot, deployment : Deployment]
      /\ queued \in BOOLEAN
  BY <1>2 DEF Init, JobStates
<1>4. Real(bot) /\ Real(cache.bot)
  BY DEF Init, Real
<1>5. Taken
  BY DEF Init, IdlePass, Taken
<1> QED BY <1>1, <1>2, <1>3, <1>4, <1>5 DEF IRCBotInv, TypeOK

LEMMA RetryInv ==
  ASSUME Retry
  PROVE  pass' \in Pass /\ queued' \in BOOLEAN /\ Taken'
  BY BlankTypes DEF Retry, Taken, IdlePass

LEMMA ReconcileInv ==
  ASSUME IRCBotInv, Reconcile
  PROVE  IRCBotInv'
<1> UNCHANGED <<bot, jobs, deployment, cache, edits, faults>> /\ queued' = FALSE
  BY DEF Reconcile, objects
<1>1. CASE pass' = IdlePass
  <2>1. Taken'
    BY <1>1 DEF Taken, IdlePass
  <2>2. pass' \in Pass
    BY <1>1, BlankTypes
  <2> QED BY <2>1, <2>2 DEF IRCBotInv, TypeOK, Real
<1>2. CASE pass' # IdlePass
  <2>1. /\ pass' = [pc |-> "time", copy |-> cache.bot, active |-> ActiveJobs,
                    todo |-> JobsToDelete]
        /\ cache.bot # NoBot /\ ~cache.bot.deleting /\ ~cache.bot.suspended
    BY <1>2 DEF Reconcile
  <2>2. JobsToDelete \in SUBSET Jobs
    BY DEF JobsToDelete, Listed
  <2>3. pass' \in Pass
    BY <2>1, <2>2, ActiveJobsType DEF IRCBotInv, TypeOK, Pass
  <2>4. Taken'
    BY <2>1 DEF Taken, IRCBotInv, Real
  <2> QED BY <2>3, <2>4 DEF Reconcile, IRCBotInv, TypeOK, Real, objects
<1> QED BY <1>1, <1>2

LEMMA WriteStatusInv ==
  ASSUME IRCBotInv, pass.pc # "idle", NEW status \in Status,
         NEW next \in {"active", "jobs", "deployment"},
         WriteStatus(status, next)
  PROVE  IRCBotInv'
<1>1. CASE bot = pass.copy
  <2>1. bot' = [bot EXCEPT !.status = status]
        /\ pass' = [pass EXCEPT !.copy.status = status, !.pc = next]
    BY <1>1 DEF WriteStatus
  <2>2. bot' \in IRCBot /\ bot'.uid = bot.uid
    BY <2>1 DEF IRCBotInv, TypeOK, IRCBot
  <2>3. /\ pass' \in Pass /\ pass'.todo = pass.todo
        /\ pass'.copy.uid = pass.copy.uid
        /\ pass'.copy.suspended = pass.copy.suspended
        /\ pass'.copy.deleting = pass.copy.deleting
    BY <2>1 DEF IRCBotInv, TypeOK, Pass, IRCBot
  <2>4. Real(bot)' /\ Taken'
    BY <1>1, <2>2, <2>3 DEF Real, Taken, IRCBotInv
  <2> QED BY <1>1, <2>2, <2>3, <2>4
          DEF WriteStatus, IRCBotInv, TypeOK, Real
<1>2. CASE bot # pass.copy
  BY <1>2, RetryInv DEF WriteStatus, IRCBotInv, TypeOK, Real
<1> QED BY <1>1, <1>2

LEMMA DeleteJobInv ==
  ASSUME IRCBotInv, NEW j \in Jobs, DeleteJob(j)
  PROVE  IRCBotInv'
<1>1. CASE jobs[j] \in {"gone", "unlisted"}
  BY <1>1, RetryInv DEF DeleteJob, IRCBotInv, TypeOK, Real
<1>2. CASE jobs[j] \notin {"gone", "unlisted"}
  <2>1. /\ jobs' = [jobs EXCEPT ![j] = "deleting"]
        /\ pass' = [pass EXCEPT !.todo = @ \ {j}]
    BY <1>2 DEF DeleteJob
  <2>2. jobs' \in [Jobs -> JobStates] /\ pass' \in Pass
    BY <2>1 DEF IRCBotInv, TypeOK, Pass, JobStates
  <2>3. Taken'
    BY <2>1 DEF IRCBotInv, TypeOK, Pass, Taken
  <2> QED BY <2>2, <2>3 DEF DeleteJob, IRCBotInv, TypeOK, Real, Retry
<1> QED BY <1>1, <1>2

LEMMA DeploymentInv ==
  ASSUME IRCBotInv, ReconcileBotDeployment
  PROVE  IRCBotInv'
<1>1. CASE deployment = cache.deployment
  <2>1. deployment' \in Deployment
    <3>1. pass.copy.uid \in Edits /\ pass.copy.gen \in Edits
      BY DEF IRCBotInv, TypeOK, Pass, IRCBot
    <3>2. ASSUME NEW d \in Deployment
          PROVE  DeploymentFor(d) \in Deployment
      BY <3>1 DEF DeploymentFor, Deployment
    <3>3. [owner |-> pass.copy.uid, gen |-> pass.copy.gen, rolled |-> FALSE]
          \in Deployment
      BY <3>1 DEF Deployment
    <3> QED BY <1>1, <3>2, <3>3 DEF ReconcileBotDeployment, IRCBotInv, TypeOK
  <2>2. pass' \in Pass /\ Taken'
    BY <1>1, BlankTypes DEF ReconcileBotDeployment, Taken, IdlePass
  <2> QED BY <1>1, <2>1, <2>2
          DEF ReconcileBotDeployment, IRCBotInv, TypeOK, Real
<1>2. CASE deployment # cache.deployment
  BY <1>2, RetryInv DEF ReconcileBotDeployment, IRCBotInv, TypeOK, Real
<1> QED BY <1>1, <1>2

LEMMA PassInv ==
  ASSUME IRCBotInv, PassStep
  PROVE  IRCBotInv'
<1> pass.copy.status \in Status /\ pass.active \in 0..MaxJobs
  BY DEF IRCBotInv, TypeOK, Pass, IRCBot
<1>1. CASE WriteLastMessageTime
  <2>1. \A beat \in BOOLEAN : [pass.copy.status EXCEPT !.beat = beat] \in Status
    BY DEF Status
  <2> QED BY <1>1, <2>1, WriteStatusInv DEF WriteLastMessageTime
<1>2. CASE WriteActiveJobs
  <2>1. [pass.copy.status EXCEPT !.active = pass.active] \in Status
    BY DEF Status
  <2> QED BY <1>2, <2>1, WriteStatusInv DEF WriteActiveJobs
<1>3. CASE WriteConnected
  <2>1. [pass.copy.status EXCEPT !.connected = TRUE] \in Status
    BY DEF Status
  <2> QED BY <1>3, <2>1, WriteStatusInv DEF WriteConnected
<1> QED BY <1>1, <1>2, <1>3, ReconcileInv, DeleteJobInv, DeploymentInv
        DEF PassStep

LEMMA EventInv ==
  ASSUME IRCBotInv, BotEvent \/ DependentEvent
  PROVE  IRCBotInv'
<1>1. CASE BotEvent
  BY <1>1 DEF BotEvent, IRCBotInv, TypeOK, Real, Taken, objects
<1>2. CASE DependentEvent
  BY <1>2 DEF DependentEvent, IRCBotInv, TypeOK, Real, Taken, JobStates
<1> QED BY <1>1, <1>2

LEMMA UserInv ==
  ASSUME IRCBotInv, UserStep
  PROVE  IRCBotInv'
<1>1. UNCHANGED <<jobs, deployment, cache, queued, pass, faults>>
  BY DEF UserStep, CreateBot, EditBot, DeleteBot, operator
<1>2. edits' \in Edits /\ bot' \in IRCBot /\ Real(bot)'
  <2> edits \in Edits /\ bot \in IRCBot
    BY DEF IRCBotInv, TypeOK
  <2>1. ASSUME Edit PROVE edits' \in Edits /\ edits' > 0
    BY <2>1, IRCBotAssumption DEF Edit, Edits
  <2>2. CASE CreateBot
    <3>1. edits' \in Edits /\ edits' > 0
          /\ bot' = [NoBot EXCEPT !.uid = edits', !.gen = edits']
      BY <2>1, <2>2 DEF CreateBot
    <3>2. bot' \in IRCBot /\ bot'.uid = edits'
      BY <3>1, BlankTypes DEF IRCBot
    <3> QED BY <3>1, <3>2 DEF Real
  <2>3. ASSUME NEW suspended \in BOOLEAN, EditBot(suspended)
        PROVE  edits' \in Edits /\ bot' \in IRCBot /\ Real(bot)'
    <3>1. /\ edits' \in Edits /\ bot # NoBot
          /\ bot' = [bot EXCEPT !.gen = edits', !.suspended = suspended]
      BY <2>1, <2>3 DEF EditBot
    <3>2. bot' \in IRCBot /\ bot'.uid = bot.uid
      BY <3>1 DEF IRCBot
    <3> QED BY <3>1, <3>2 DEF Real, IRCBotInv
  <2>4. CASE DeleteBot
    BY <2>4, BlankTypes DEF DeleteBot, IRCBotInv, IRCBot, Real
  <2> QED BY <2>2, <2>3, <2>4 DEF UserStep
<1> QED BY <1>1, <1>2 DEF IRCBotInv, TypeOK, Real, Taken

LEMMA ClusterInv ==
  ASSUME IRCBotInv,
         (\E j \in Jobs : JobStarts(j) \/ JobFinishes(j)) \/ KubernetesStep
  PROVE  IRCBotInv'
<1>1. UNCHANGED <<cache, queued, pass, edits, faults>>
  BY DEF JobStarts, JobFinishes, KubernetesStep, JobRemoved, RolledOut, operator
<1>2. jobs' \in [Jobs -> JobStates]
  BY DEF JobStarts, JobFinishes, KubernetesStep, JobRemoved, RolledOut,
         IRCBotInv, TypeOK, JobStates
<1>3. bot' \in IRCBot /\ deployment' \in Deployment /\ Real(bot)'
  BY BlankTypes
     DEF JobStarts, JobFinishes, KubernetesStep, JobRemoved, RolledOut,
         GarbageCollected, IRCBotInv, TypeOK, Deployment, Real
<1> QED BY <1>1, <1>2, <1>3 DEF IRCBotInv, TypeOK, Real, Taken

LEMMA FaultInv ==
  ASSUME IRCBotInv, RequestFails \/ OperatorRestarts
  PROVE  IRCBotInv'
<1>1. faults' \in 0..MaxFaults
  BY IRCBotAssumption DEF RequestFails, OperatorRestarts, Fault, IRCBotInv, TypeOK
<1>2. CASE RequestFails
  BY <1>1, <1>2, RetryInv DEF RequestFails, IRCBotInv, TypeOK, Real, objects
<1>3. CASE OperatorRestarts
  BY <1>1, <1>3, BlankTypes
     DEF OperatorRestarts, IRCBotInv, TypeOK, Real, Taken, IdlePass,
         JobStates
<1> QED BY <1>2, <1>3

LEMMA IRCBotStep ==
  ASSUME IRCBotInv, [Next]_vars
  PROVE  IRCBotInv'
<1>1. CASE UNCHANGED vars
  BY <1>1 DEF vars, IRCBotInv, TypeOK, Real, Taken
<1> QED BY <1>1, PassInv, EventInv, UserInv, ClusterInv, FaultInv DEF Next

LEMMA IRCBotInvariant == Spec => []IRCBotInv
  BY IRCBotInit, IRCBotStep, PTL DEF Spec

\* The objects, the cache and the pass hold values of their types, whatever
\* users, Kubernetes and failing requests do to a pass.
THEOREM IRCBotTypeCorrect == Spec => []TypeOK
<1>1. IRCBotInv => TypeOK
  BY DEF IRCBotInv
<1> QED BY <1>1, IRCBotInvariant, PTL

------------------------------------------------------------------------------
(* What a pass may do.                                                     *)

LEMMA StatusStep ==
  ASSUME IRCBotInv, [Next]_vars, bot # NoBot, bot'.status # bot.status,
         bot'.uid = bot.uid
  PROVE  pass.copy.gen = bot.gen /\ ~bot.suspended /\ ~bot.deleting
<1> bot \in IRCBot /\ bot.uid > 0
  BY DEF IRCBotInv, TypeOK, Real
<1>1. bot' # bot /\ bot' # NoBot
  BY DEF NoBot
<1>2. PassStep \/ UserStep \/ KubernetesStep
  BY <1>1 DEF Next, vars, BotEvent, DependentEvent, objects, JobStarts,
              JobFinishes, RequestFails, OperatorRestarts
<1>3. ~UserStep
  BY <1>1 DEF UserStep, CreateBot, EditBot, DeleteBot, IRCBot
<1>4. ~KubernetesStep
  BY <1>1 DEF KubernetesStep, JobRemoved, RolledOut, GarbageCollected
<1>5. pass.pc # "idle" /\ bot = pass.copy
  BY <1>1, <1>2, <1>3, <1>4
     DEF PassStep, Reconcile, objects, WriteLastMessageTime, WriteActiveJobs,
         WriteConnected, WriteStatus, DeleteJob, ReconcileBotDeployment
<1> QED BY <1>5 DEF IRCBotInv, Taken

\* A status is written only as long as the spec is the one the pass began with,
\* and never to a resource that is suspended or being deleted.
THEOREM StatusesAreOfSpecs == Spec => StatusIsOfSpec
<1>1. IRCBotInv /\ [Next]_vars =>
        [(bot # NoBot /\ bot'.status # bot.status /\ bot'.uid = bot.uid) =>
           /\ pass.copy.gen = bot.gen
           /\ ~bot.suspended /\ ~bot.deleting]_vars
  BY StatusStep
<1> QED BY <1>1, IRCBotInvariant, PTL DEF Spec, StatusIsOfSpec

------------------------------------------------------------------------------
(* A resource that is not queued is attended to.  The writes of users are   *)
(* numbered, so that a resource that was made, edited or deleted since the  *)
(* cache learned of it differs from the cached one, until an event queues   *)
(* it.  A pass has what the cache has, but for the status, and holds the    *)
(* resource as it is, unless the cache does not know that one.              *)

InHand ==
    /\ pass.copy.uid = cache.bot.uid /\ pass.copy.gen = cache.bot.gen
    /\ ~cache.bot.deleting
    /\ bot = pass.copy \/ bot # cache.bot
    /\ pass.pc = "deployment" => pass.copy.status.connected

Finished == cache.bot = bot => AtRestIsDone

Attended == queued \/ IF pass.pc = "idle" THEN Finished ELSE InHand

\* The numbers of writes that are known are of writes that were made, and no
\* resource is older than one that was known before.
NumbersInv ==
    /\ bot.uid <= edits /\ bot.gen <= edits
    /\ cache.bot.uid <= edits /\ cache.bot.gen <= edits
    /\ pass.copy.uid <= edits /\ pass.copy.gen <= edits
    /\ deployment.owner <= edits
    /\ deployment # NoDeployment => deployment.owner > 0
    /\ bot # NoBot => /\ cache.bot.uid <= bot.uid /\ pass.copy.uid <= bot.uid
                      /\ deployment.owner <= bot.uid

RestInv == Attended /\ NumbersInv

LEMMA NumberTypes ==
  ASSUME IRCBotInv
  PROVE  /\ edits \in Nat /\ bot.uid \in Nat /\ bot.gen \in Nat
         /\ cache.bot.uid \in Nat /\ cache.bot.gen \in Nat
         /\ pass.copy.uid \in Nat /\ pass.copy.gen \in Nat
         /\ deployment.owner \in Nat
<1>1. \A n \in Edits : n \in Nat
  BY IRCBotAssumption DEF Edits
<1> QED BY <1>1 DEF IRCBotInv, TypeOK, IRCBot, Deployment, Pass

LEMMA RestInit == Init => RestInv
<1> SUFFICES ASSUME Init PROVE RestInv
  OBVIOUS
<1>1. bot = NoBot /\ cache.bot = NoBot /\ pass = IdlePass /\ edits = 0
      /\ deployment = NoDeployment
  BY DEF Init
<1> QED BY <1>1 DEF RestInv, Attended, Finished, AtRestIsDone, AtRest, NumbersInv,
                    NoBot, IdlePass, NoDeployment

\* The bot is on the queue.
LEMMA RetryRest ==
  ASSUME IRCBotInv, NumbersInv, Retry, UNCHANGED <<bot, cache, deployment, edits>>
  PROVE  RestInv'
<1>1. pass'.copy = NoBot /\ queued'
  BY DEF Retry, IdlePass
<1> QED BY <1>1, NumberTypes DEF RestInv, Attended, NumbersInv, NoBot

LEMMA RestReconcile ==
  ASSUME IRCBotInv, RestInv, Reconcile
  PROVE  RestInv'
<1>1. UNCHANGED <<bot, deployment, cache, edits>>
  BY DEF Reconcile, objects
<1>2. CASE pass' = IdlePass
  <2>1. pass'.copy = NoBot /\ pass'.pc = "idle"
    BY <1>2 DEF IdlePass
  <2>2. cache.bot = NoBot \/ cache.bot.deleting \/ cache.bot.suspended
    BY <1>2 DEF Reconcile, IdlePass
  <2>3. ~(AtRest')
    BY <1>1, <2>2 DEF AtRest
  <2> QED BY <1>1, <2>1, <2>3, NumberTypes
          DEF RestInv, Attended, Finished, AtRestIsDone, NumbersInv, NoBot
<1>3. CASE pass' # IdlePass
  <2>1. /\ pass'.pc = "time" /\ pass'.copy = cache.bot /\ ~cache.bot.deleting
        /\ cache.bot # NoBot
    BY <1>3 DEF Reconcile
  <2> QED BY <1>1, <2>1 DEF RestInv, Attended, InHand, NumbersInv
<1> QED BY <1>2, <1>3

\* A status is written to the resource as the pass has it, and by nobody else.
LEMMA RestWrite ==
  ASSUME IRCBotInv, RestInv, pass.pc # "idle", NEW status \in Status,
         NEW next \in {"active", "jobs", "deployment"},
         next = "deployment" => status.connected,
         WriteStatus(status, next)
  PROVE  RestInv'
<1>1. CASE bot = pass.copy
  <2>1. /\ bot' = [bot EXCEPT !.status = status]
        /\ pass' = [pass EXCEPT !.copy.status = status, !.pc = next]
        /\ UNCHANGED <<queued, deployment, cache, edits>>
    BY <1>1 DEF WriteStatus
  <2>2. bot \in IRCBot /\ pass \in Pass /\ pass.copy \in IRCBot
    BY DEF IRCBotInv, TypeOK, Pass
  <2>3. /\ pass'.copy = [pass.copy EXCEPT !.status = status]
        /\ pass'.pc = next
    BY <2>1, <2>2 DEF Pass
  <2>4. /\ bot' = pass'.copy /\ pass'.copy.status = status
        /\ bot'.uid = bot.uid /\ bot'.gen = bot.gen
        /\ pass'.copy.uid = pass.copy.uid /\ pass'.copy.gen = pass.copy.gen
    BY <1>1, <2>1, <2>2, <2>3 DEF IRCBot
  <2>5. bot' # NoBot => bot # NoBot
    BY <1>1 DEF IRCBotInv, Taken, NoBot
  <2>6. Attended'
    BY <2>1, <2>3, <2>4 DEF RestInv, Attended, InHand
  <2> QED BY <2>1, <2>4, <2>5, <2>6 DEF RestInv, NumbersInv
<1>2. CASE bot # pass.copy
  BY <1>2, RetryRest DEF WriteStatus, RestInv
<1> QED BY <1>1, <1>2

LEMMA RestDelete ==
  ASSUME IRCBotInv, RestInv, NEW j \in Jobs, DeleteJob(j)
  PROVE  RestInv'
<1>1. CASE jobs[j] \in {"gone", "unlisted"}
  BY <1>1, RetryRest DEF DeleteJob, RestInv
<1>2. CASE jobs[j] \notin {"gone", "unlisted"}
  <2>1. pass' = [pass EXCEPT !.todo = @ \ {j}]
        /\ UNCHANGED <<bot, queued, deployment, cache, edits>>
    BY <1>2 DEF DeleteJob
  <2>2. pass'.pc = pass.pc /\ pass'.copy = pass.copy /\ pass.pc = "jobs"
    BY <2>1 DEF DeleteJob, IRCBotInv, TypeOK, Pass
  <2> QED BY <2>1, <2>2 DEF RestInv, Attended, InHand, NumbersInv
<1> QED BY <1>1, <1>2

\* The pass ends with the Deployment as its copy says, which is the resource,
\* unless that was edited since.
LEMMA RestDeployment ==
  ASSUME IRCBotInv, RestInv, ReconcileBotDeployment
  PROVE  RestInv'
<1>1. CASE deployment # cache.deployment
  BY <1>1, RetryRest DEF ReconcileBotDeployment, RestInv
<1>2. CASE deployment = cache.deployment
  <2>1. /\ pass.pc = "deployment" /\ pass' = IdlePass
        /\ UNCHANGED <<bot, queued, cache, edits>>
        /\ deployment' = IF deployment = NoDeployment
                   THEN [owner |-> pass.copy.uid, gen |-> pass.copy.gen,
                         rolled |-> FALSE]
                   ELSE DeploymentFor(deployment)
    BY <1>2 DEF ReconcileBotDeployment
  <2>2. pass'.copy = NoBot /\ pass'.pc = "idle"
    BY <2>1 DEF IdlePass
  <2>3. deployment \in Deployment /\ pass.copy.uid > 0
    BY <2>1 DEF IRCBotInv, TypeOK, Taken
  <2>4. deployment'.gen = pass.copy.gen
        /\ deployment'.owner = IF deployment = NoDeployment THEN pass.copy.uid
                                                            ELSE deployment.owner
    BY <2>1, <2>3 DEF DeploymentFor, Deployment
  <2>5. deployment'.owner > 0 /\ deployment' # NoDeployment
    <3>1. deployment'.owner > 0
      BY <2>3, <2>4 DEF RestInv, NumbersInv
    <3> QED BY <3>1 DEF NoDeployment
  <2>6. NumbersInv'
    BY <2>1, <2>2, <2>4, <2>5, NumberTypes DEF RestInv, NumbersInv, NoBot
  <2>7. Attended'
    <3> SUFFICES ASSUME ~queued, cache.bot = bot
                 PROVE  bot.status.connected /\ deployment'.gen = bot.gen
      BY <2>1, <2>2, <2>5 DEF Attended, Finished, AtRestIsDone
    <3>1. bot = pass.copy /\ pass.copy.status.connected
      BY <2>1 DEF RestInv, Attended, InHand
    <3> QED BY <2>4, <3>1
  <2> QED BY <2>6, <2>7 DEF RestInv
<1> QED BY <1>1, <1>2

LEMMA RestPass ==
  ASSUME IRCBotInv, RestInv, PassStep
  PROVE  RestInv'
<1> pass.copy.status \in Status /\ pass.active \in 0..MaxJobs
  BY DEF IRCBotInv, TypeOK, Pass, IRCBot
<1>1. CASE WriteLastMessageTime
  <2>1. \A beat \in BOOLEAN : [pass.copy.status EXCEPT !.beat = beat] \in Status
    BY DEF Status
  <2> QED BY <1>1, <2>1, RestWrite DEF WriteLastMessageTime
<1>2. CASE WriteActiveJobs
  <2>1. [pass.copy.status EXCEPT !.active = pass.active] \in Status
    BY DEF Status
  <2> QED BY <1>2, <2>1, RestWrite DEF WriteActiveJobs
<1>3. CASE WriteConnected
  <2>1. /\ [pass.copy.status EXCEPT !.connected = TRUE] \in Status
        /\ [pass.copy.status EXCEPT !.connected = TRUE].connected
    BY DEF Status
  <2> QED BY <1>3, <2>1, RestWrite DEF WriteConnected
<1> QED BY <1>1, <1>2, <1>3, RestReconcile, RestDelete, RestDeployment
        DEF PassStep

LEMMA RestEvent ==
  ASSUME IRCBotInv, RestInv, BotEvent \/ DependentEvent
  PROVE  RestInv'
<1> cache \in [bot : IRCBot, deployment : Deployment]
  BY DEF IRCBotInv, TypeOK
<1>1. CASE BotEvent
  <2>1. cache'.bot = bot /\ queued' /\ UNCHANGED <<bot, deployment, pass, edits>>
    BY <1>1 DEF BotEvent, objects
  <2> QED BY <2>1, NumberTypes DEF RestInv, Attended, NumbersInv
<1>2. CASE DependentEvent
  <2>1. cache'.bot = cache.bot /\ UNCHANGED <<bot, deployment, queued, pass, edits>>
    BY <1>2 DEF DependentEvent
  <2> QED BY <2>1 DEF RestInv, Attended, Finished, InHand, NumbersInv,
                      AtRestIsDone, AtRest
<1> QED BY <1>1, <1>2

\* What users do makes a resource that the cache does not know, and that is
\* nobody's copy.
LEMMA RestUser ==
  ASSUME IRCBotInv, RestInv, UserStep
  PROVE  RestInv'
<1>1. UNCHANGED <<deployment, cache, queued, pass>>
  <2>1. CASE CreateBot
    BY <2>1 DEF CreateBot, operator
  <2>2. ASSUME NEW suspended \in BOOLEAN, EditBot(suspended)
        PROVE  UNCHANGED <<deployment, cache, queued, pass>>
    BY <2>2 DEF EditBot, operator
  <2>3. CASE DeleteBot
    BY <2>3 DEF DeleteBot, operator
  <2> QED BY <2>1, <2>2, <2>3 DEF UserStep
<1>2. bot \in IRCBot /\ NoBot \in IRCBot
  BY BlankTypes DEF IRCBotInv, TypeOK
<1>3. \/ /\ edits' = edits + 1 /\ bot'.gen = edits' /\ bot'.uid = edits'
      \/ /\ edits' = edits + 1 /\ bot'.gen = edits' /\ bot'.uid = bot.uid
         /\ bot # NoBot
      \/ /\ edits' = edits /\ bot' = NoBot
      \/ /\ edits' = edits /\ bot # NoBot /\ bot'.deleting
         /\ bot'.uid = bot.uid /\ bot'.gen = bot.gen
  <2>1. CASE CreateBot
    BY <1>2, <2>1 DEF CreateBot, Edit, IRCBot
  <2>2. ASSUME NEW suspended \in BOOLEAN, EditBot(suspended)
        PROVE  /\ edits' = edits + 1 /\ bot'.gen = edits' /\ bot'.uid = bot.uid
               /\ bot # NoBot
    BY <1>2, <2>2 DEF EditBot, Edit, IRCBot
  <2>3. CASE DeleteBot
    BY <1>2, <2>3 DEF DeleteBot, IRCBot
  <2> QED BY <2>1, <2>2, <2>3 DEF UserStep
<1>4. NumbersInv'
  BY <1>1, <1>3, NumberTypes DEF RestInv, NumbersInv, NoBot
<1>5. bot'.gen > edits \/ bot' = NoBot \/ bot'.deleting
  BY <1>3, NumberTypes
<1>6. /\ cache.bot.gen <= edits /\ edits \in Nat /\ cache.bot.gen \in Nat
      /\ pass.pc # "idle" => cache.bot.gen = pass.copy.gen \/ queued
  BY NumberTypes DEF RestInv, NumbersInv, Attended, InHand
<1>7. CASE pass.pc = "idle"
  <2>1. AtRest' => FALSE
    <3>1. bot'.gen > edits => bot'.gen # cache.bot.gen
      BY <1>6
    <3> QED BY <1>1, <1>5, <3>1 DEF AtRest
  <2> QED BY <1>1, <1>4, <1>7, <2>1
          DEF RestInv, Attended, Finished, AtRestIsDone
<1>8. CASE pass.pc # "idle"
  <2>1. InHand => bot' # cache.bot
    <3>1. InHand => ~cache.bot.deleting /\ cache.bot # NoBot
      BY <1>8 DEF InHand, IRCBotInv, Taken, NoBot
    <3>2. bot'.gen > edits => bot'.gen # cache.bot.gen
      BY <1>6
    <3> QED BY <1>5, <3>1, <3>2
  <2> QED BY <1>1, <1>4, <1>8, <2>1 DEF RestInv, Attended, InHand
<1> QED BY <1>7, <1>8

\* The Deployment of the first resource of its name is not collected while that
\* resource is there: nobody else can own it.
LEMMA RestCluster ==
  ASSUME IRCBotInv, RestInv,
         (\E j \in Jobs : JobStarts(j) \/ JobFinishes(j)) \/ KubernetesStep
  PROVE  RestInv'
<1>1. UNCHANGED <<cache, queued, pass, edits>>
  BY DEF JobStarts, JobFinishes, KubernetesStep, JobRemoved, RolledOut, operator
<1>2. \/ UNCHANGED <<bot, deployment>>
      \/ RolledOut \/ GarbageCollected
  BY DEF JobStarts, JobFinishes, KubernetesStep, JobRemoved
<1>3. CASE UNCHANGED <<bot, deployment>>
  BY <1>1, <1>3 DEF RestInv, Attended, Finished, InHand, NumbersInv,
                    AtRestIsDone, AtRest
<1>4. CASE RolledOut
  <2>1. /\ deployment # NoDeployment /\ deployment \in Deployment
        /\ deployment' = [deployment EXCEPT !.rolled = TRUE] /\ UNCHANGED bot
    BY <1>4 DEF RolledOut, IRCBotInv, TypeOK
  <2>2. /\ deployment'.owner = deployment.owner /\ deployment'.gen = deployment.gen
        /\ deployment'.owner > 0
    BY <2>1 DEF Deployment, RestInv, NumbersInv
  <2>3. deployment' # NoDeployment
    BY <2>2 DEF NoDeployment
  <2> QED BY <1>1, <2>1, <2>2, <2>3
          DEF RestInv, Attended, Finished, InHand, NumbersInv, AtRestIsDone, AtRest
<1>5. CASE GarbageCollected /\ deployment' = NoDeployment /\ UNCHANGED bot
  <2>1. deployment # NoDeployment => deployment.owner # bot.uid \/ bot.deleting
    BY <1>5 DEF GarbageCollected
  <2>2. NumbersInv'
    BY <1>1, <1>5, NumberTypes DEF RestInv, NumbersInv, NoDeployment
  <2>3. bot # NoBot /\ bot.uid = 1 /\ ~bot.deleting => deployment = NoDeployment
    BY <2>1, NumberTypes DEF RestInv, NumbersInv
  <2>4. Finished => Finished'
    BY <1>1, <1>5, <2>3 DEF Finished, AtRestIsDone, AtRest
  <2> QED BY <1>1, <1>5, <2>2, <2>4 DEF RestInv, Attended, InHand
<1>6. CASE GarbageCollected /\ bot' = NoBot /\ UNCHANGED deployment
  <2>1. ~(AtRest')
    BY <1>6 DEF AtRest
  <2>2. NumbersInv'
    BY <1>1, <1>6, NumberTypes DEF RestInv, NumbersInv, NoBot
  <2>3. pass.pc # "idle" /\ InHand => bot' # cache.bot
    BY <1>6 DEF InHand, IRCBotInv, Taken, NoBot
  <2>4. pass.pc # "idle" /\ InHand => InHand'
    BY <1>1, <2>3 DEF InHand
  <2> QED BY <1>1, <2>1, <2>2, <2>4
          DEF RestInv, Attended, Finished, AtRestIsDone
<1> QED BY <1>2, <1>3, <1>4, <1>5, <1>6 DEF GarbageCollected

\* The operator that starts queues the resource, if there is one.
LEMMA RestFault ==
  ASSUME IRCBotInv, RestInv, RequestFails \/ OperatorRestarts
  PROVE  RestInv'
<1>1. CASE RequestFails
  BY <1>1, RetryRest DEF RequestFails, RestInv, objects
<1>2. CASE OperatorRestarts
  <2>1. /\ pass' = IdlePass /\ cache'.bot = bot /\ queued' = (bot # NoBot)
        /\ UNCHANGED <<bot, deployment, edits>>
    BY <1>2 DEF OperatorRestarts
  <2>2. pass'.copy = NoBot /\ pass'.pc = "idle"
    BY <2>1 DEF IdlePass
  <2>3. NumbersInv'
    BY <2>1, <2>2, NumberTypes DEF RestInv, NumbersInv, NoBot
  <2>4. queued' \/ ~(AtRest')
    BY <2>1 DEF AtRest
  <2> QED BY <2>2, <2>3, <2>4
          DEF RestInv, Attended, Finished, AtRestIsDone
<1> QED BY <1>1, <1>2

LEMMA RestStep ==
  ASSUME IRCBotInv, RestInv, [Next]_vars
  PROVE  RestInv'
<1>1. CASE UNCHANGED vars
  BY <1>1 DEF vars, RestInv, Attended, Finished, InHand, NumbersInv,
              AtRestIsDone, AtRest
<1> QED BY <1>1, RestPass, RestEvent, RestUser, RestCluster, RestFault DEF Next

LEMMA RestMeansDone == RestInv => AtRestIsDone
  BY DEF RestInv, Attended, Finished, AtRest, AtRestIsDone

\* A resource at rest is done, for any number of Jobs, edits and faults: no
\* conflict, edit, failed request or restart leaves a status or a Deployment
\* behind without the resource being queued again.
THEOREM RestIsDone == Spec => []AtRestIsDone
  BY RestInit, RestStep, RestMeansDone, IRCBotInvariant, PTL DEF Spec
==============================================================================
