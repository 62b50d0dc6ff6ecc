----------------------- MODULE BotControlPlane_proofs -----------------------
(***************************************************************************)
(* Theorems of BotControlPlane for every number of bots, calls, callbacks, *)
(* images, attempts and faults.  Type correctness holds for any number of  *)
(* dispatchers; what is said of generations and of the outbox holds for    *)
(* one, which is what the deployment runs (and fails for two).             *)
(***************************************************************************)
EXTENDS BotControlPlane, TLAPS

------------------------------------------------------------------------------
(* Types of the values processes start from and end with.                  *)

LEMMA RowTypes == AbsentRow \in BotRow /\ DestroyedRow \in BotRow
  BY DEF AbsentRow, DestroyedRow, BotRow, DesiredStates, BotStatuses,
         LiveStatuses, NoGen

LEMMA IdleTypes == /\ ReadyCall \in Call
                   /\ IdleReport \in Report
                   /\ IdleWorker \in Worker
                   /\ NoOp \in Operation
                   /\ NoContract \in Contract
  BY RowTypes DEF ReadyCall, Call, CallKinds, DesiredStates, WorkloadImages,
     IdleReport, Report, LiveStatuses, NoGen, IdleWorker, Worker, NoOp,
     Operation, OpStatuses, OpKinds, NoContract, Contract

LEMMA SaveType ==
  ASSUME NEW stored \in BotRow, NEW read, NEW new \in BotRow
  PROVE  Save(stored, read, new) \in BotRow
  BY DEF Save, Written, BotRow

LEMMA EndCallType ==
  ASSUME TypeOK, NEW c \in Calls, NEW result \in {"ok", "error"}
  PROVE  EndCall(c, result) \in Call
  BY IdleTypes DEF EndCall, TypeOK, Call

LEMMA EndCallActive ==
  ASSUME NEW c, NEW result \in {"ok", "error"}
  PROVE  EndCall(c, result).pc = result
  BY DEF EndCall, ReadyCall

LEMMA EndReportType ==
  ASSUME NEW result \in {"ok", "error"}
  PROVE  EndReport(result) \in Report
  BY IdleTypes DEF EndReport, Report

LEMMA ResumeType ==
  ASSUME NEW worker \in Worker
  PROVE  Resume(worker) \in Worker /\ Resume(worker).pc \in {"idle", "next"}
  BY IdleTypes DEF Resume, Worker, IdleWorker

LEMMA ContractType ==
  ASSUME image \in Images, NEW row \in BotRow, NEW kind \in OpKinds
  PROVE  ContractFor(row, kind) \in Contract
  BY ControlPlaneAssumption
     DEF ContractFor, Contract, BotRow, DesiredImage, WorkloadImages

------------------------------------------------------------------------------
(* Type correctness.  TypeOK is inductive once a call under way and a      *)
(* worker that has read a bot's row are known to be about a bot, and a     *)
(* worker that has claimed an operation is known to hold one.              *)

Holds(worker) ==
    /\ worker.pc \notin {"idle", "next"} => worker.op \in Calls
    /\ worker.pc \in {"upsert", "apply", "report_error"} => worker.bot \in Bots

TypeInv == /\ TypeOK
           /\ \A c \in Calls : Active(c) => calls[c].bot \in Bots
           /\ \A w \in Workers : Holds(workers[w])

LEMMA TypeInit == Init => TypeInv
  BY IdleTypes, RowTypes, ControlPlaneAssumption
     DEF Init, TypeInv, TypeOK, Active, Holds, IdleWorker, ReadyCall

LEMMA SaveCopyType ==
  ASSUME TypeInv, NEW c \in Calls, NEW permitted, NEW new \in BotRow,
         NEW next \in {"request", "begin_delete", "enqueue"},
         calls[c].bot \in Bots, SaveCopy(c, permitted, new, next)
  PROVE  TypeInv'
<1>1. bots' \in [Bots -> BotRow]
  BY SaveType DEF SaveCopy, TypeInv, TypeOK
<1>2. /\ calls' \in [Calls -> Call]
      /\ \A d \in Calls : Active(d)' => calls'[d].bot \in Bots
  <2> DEFINE saved == [calls[c] EXCEPT !.pc = next, !.row = new]
  <2>1. calls[c] \in Call
    BY DEF TypeInv, TypeOK
  <2>2. saved \in Call /\ saved.bot = calls[c].bot
    BY <2>1 DEF Call
  <2>3. calls' = [calls EXCEPT ![c] = saved]
        \/ calls' = [calls EXCEPT ![c] = EndCall(c, "error")]
    BY DEF SaveCopy, TypeInv, TypeOK
  <2> HIDE DEF saved
  <2> QED
    BY <2>2, <2>3, EndCallType, EndCallActive DEF TypeInv, TypeOK, Active
<1> QED BY <1>1, <1>2 DEF SaveCopy, TypeInv, TypeOK, Holds, env

LEMMA CallType ==
  ASSUME TypeInv, NEW c \in Calls, CallStep(c)
  PROVE  TypeInv'
<1> calls[c].row \in BotRow /\ calls[c] \in Call
  BY DEF TypeInv, TypeOK, Call
<1> calls[c].bot \in Bots
  BY DEF TypeInv, Active, CallStep, UpdateBot, RequestBotReconcile,
     BeginBotDelete, EnqueueBotOperation, DriftReadContracts,
     DriftReadOperations
<1>1. CASE UpdateBot(c)
  <2> calls[c].desired \in DesiredStates
      /\ calls[c].config \in Configs \union {NoConfig}
    BY DEF Call
  <2>1. [calls[c].row EXCEPT !.desired = calls[c].desired,
                             !.config = calls[c].config] \in BotRow
    BY DEF BotRow
  <2>2. [calls[c].row EXCEPT !.desired = "deleted"] \in BotRow
    BY DEF BotRow, DesiredStates
  <2> QED BY <1>1, <2>1, <2>2, SaveCopyType DEF UpdateBot
<1>2. CASE RequestBotReconcile(c)
  <2>1. RequestReconcile(calls[c].row) \in BotRow
    BY DEF RequestReconcile, BotRow, BotStatuses, LiveStatuses
  <2> QED BY <1>2, <2>1, SaveCopyType DEF RequestBotReconcile
<1>3. CASE BeginBotDelete(c)
  <2>1. BeginDelete(calls[c].row) \in BotRow
    BY DEF BeginDelete, BotRow, BotStatuses, LiveStatuses
  <2> QED BY <1>3, <2>1, SaveCopyType DEF BeginBotDelete
<1>4. CASE EnqueueBotOperation(c)
  <2>1. \A kind \in OpKinds :
           [status |-> "pending", bot |-> calls[c].bot, kind |-> kind,
            attempts |-> 0, due |-> TRUE, at |-> clock] \in Operation
    BY DEF TypeInv, TypeOK, Operation, OpStatuses
  <2>2. ops' \in [Calls -> Operation]
    BY <1>4, <2>1 DEF EnqueueBotOperation, TypeInv, TypeOK, OpKinds
  <2>3. calls' \in [Calls -> Call] /\ clock' \in Nat
    BY <1>4, EndCallType DEF EnqueueBotOperation, TypeInv, TypeOK
  <2>4. \A d \in Calls : Active(d)' => calls'[d].bot \in Bots
    BY <1>4, EndCallActive DEF EnqueueBotOperation, TypeInv, TypeOK, Active
  <2> QED BY <1>4, <2>2, <2>3, <2>4
          DEF EnqueueBotOperation, TypeInv, TypeOK, Holds, env
<1>5. CASE DriftReadContracts(c)
  <2>1. contracts[calls[c].bot].image \in WorkloadImages
    BY DEF TypeInv, TypeOK, Contract
  <2>2. calls' \in [Calls -> Call]
    BY <1>5, <2>1 DEF DriftReadContracts, TypeInv, TypeOK, Call
  <2>3. \A d \in Calls : Active(d)' => calls'[d].bot \in Bots
    BY <1>5 DEF DriftReadContracts, TypeInv, TypeOK, Active, Call
  <2> QED BY <1>5, <2>2, <2>3 DEF DriftReadContracts, TypeInv, TypeOK, Holds, env
<1>6. CASE DriftReadOperations(c)
  <2>1. calls' \in [Calls -> Call]
    BY <1>6, EndCallType DEF DriftReadOperations, TypeInv, TypeOK, Call
  <2>2. \A d \in Calls : Active(d)' => calls'[d].bot \in Bots
    BY <1>6, EndCallActive DEF DriftReadOperations, TypeInv, TypeOK, Active, Call
  <2> QED BY <1>6, <2>1, <2>2 DEF DriftReadOperations, TypeInv, TypeOK, Holds, env
<1> QED BY <1>1, <1>2, <1>3, <1>4, <1>5, <1>6 DEF CallStep

LEMMA RequestType ==
  ASSUME TypeInv, NEW c \in Calls, Request(c)
  PROVE  TypeInv'
<1> PICK b \in Bots :
       \/ \E d \in Requested, f \in Configs :
             CreateBot(c, b, d, f) \/ FetchBot(c, b, "update", d, f)
       \/ FetchBot(c, b, "delete", "deleted", bots[b].config)
       \/ DriftReadBots(c, b)
  BY DEF Request
<1> bots[b] \in BotRow /\ bots[b].config \in Configs \union {NoConfig}
  BY DEF TypeInv, TypeOK, BotRow
<1>1. ASSUME NEW d \in DesiredStates, NEW f \in Configs, CreateBot(c, b, d, f)
      PROVE  TypeInv'
  <2> DEFINE row == [AbsentRow EXCEPT !.desired = d, !.status = "pending",
                                      !.config = f]
             call == [ReadyCall EXCEPT !.pc = "request", !.bot = b, !.row = row]
  <2>1. row \in BotRow
    BY DEF AbsentRow, BotRow, BotStatuses, LiveStatuses, NoGen
  <2> HIDE DEF row
  <2>2. call \in Call /\ call.bot = b
    BY <2>1, IdleTypes DEF Call, ReadyCall
  <2> HIDE DEF call
  <2>3. bots' = [bots EXCEPT ![b] = row] /\ calls' = [calls EXCEPT ![c] = call]
        /\ UNCHANGED <<ops, contracts, reports, workers, clock, env>>
    BY <1>1 DEF CreateBot, row, call
  <2> QED BY <2>1, <2>2, <2>3 DEF TypeInv, TypeOK, Active, Holds, env
<1>2. ASSUME NEW kind \in CallKinds, NEW d \in DesiredStates,
             NEW f \in Configs \union {NoConfig}, FetchBot(c, b, kind, d, f)
      PROVE  TypeInv'
  <2> DEFINE call == [ReadyCall EXCEPT !.pc = "update", !.kind = kind, !.bot = b,
                                !.row = bots[b], !.desired = d, !.config = f]
  <2>1. call \in Call /\ call.bot = b
    BY IdleTypes DEF Call, ReadyCall
  <2> HIDE DEF call
  <2>2. calls' = [calls EXCEPT ![c] = call]
        /\ UNCHANGED <<bots, ops, contracts, reports, workers, clock, env>>
    BY <1>2 DEF FetchBot, call
  <2> QED BY <2>1, <2>2 DEF TypeInv, TypeOK, Active, Holds, env
<1>3. CASE DriftReadBots(c, b)
  <2> DEFINE call == [ReadyCall EXCEPT !.pc = "drift_contract", !.kind = "drift",
                                       !.bot = b, !.row = bots[b]]
  <2>1. call \in Call /\ call.bot = b
    BY IdleTypes DEF Call, ReadyCall, CallKinds
  <2> HIDE DEF call
  <2>2. calls' = [calls EXCEPT ![c] = call]
        /\ UNCHANGED <<bots, ops, contracts, reports, workers, clock, env>>
    BY <1>3 DEF DriftReadBots, call
  <2> QED BY <2>1, <2>2 DEF TypeInv, TypeOK, Active, Holds, env
<1> QED BY <1>1, <1>2, <1>3 DEF Requested, DesiredStates, CallKinds

LEMMA CallbackType ==
  ASSUME TypeInv, NEW r \in Reporters, Callback(r)
  PROVE  TypeInv'
<1> PICK b \in Bots, status \in Observations :
       \E gen \in {NoGen} \union 1..contracts[b].gen :
          FetchAndValidate(r, b, status, gen)
  BY DEF Callback
<1> PICK gen \in {NoGen} \union 1..contracts[b].gen :
       FetchAndValidate(r, b, status, gen)
  OBVIOUS
<1> status \in LiveStatuses /\ gen \in Nat \union {NoGen}
  BY ControlPlaneAssumption
     DEF TypeInv, TypeOK, Contract, ReportTargets, LiveStatuses
<1> DEFINE report == [pc |-> "save", bot |-> b, row |-> bots[b],
                      status |-> status, gen |-> gen]
<1>1. report \in Report
  BY DEF TypeInv, TypeOK, Report
<1> HIDE DEF report
<1>2. \/ reports' = [reports EXCEPT ![r] = report]
      \/ reports' = [reports EXCEPT ![r] = EndReport("error")]
  BY DEF FetchAndValidate, report
<1>3. reports' \in [Reporters -> Report]
  BY <1>1, <1>2, EndReportType DEF TypeInv, TypeOK
<1> QED BY <1>3 DEF FetchAndValidate, TypeInv, TypeOK, Active, Holds, env

LEMMA ObservationType ==
  ASSUME TypeInv, NEW r \in Reporters, Observation(r)
  PROVE  TypeInv'
<1> PICK b \in Bots, status \in Observations \intersect ObserverTargets :
       ObserveBot(r, b, status)
  BY DEF Observation
<1> DEFINE report == [pc |-> "save", bot |-> b, row |-> bots[b],
                      status |-> status, gen |-> bots[b].ogen]
<1>1. report \in Report
  BY DEF TypeInv, TypeOK, Report, BotRow, ObserverTargets, LiveStatuses
<1> HIDE DEF report
<1>2. reports' = [reports EXCEPT ![r] = report]
  BY DEF ObserveBot, report
<1> QED BY <1>1, <1>2 DEF ObserveBot, TypeInv, TypeOK, Active, Holds, env

LEMMA ReportType ==
  ASSUME TypeInv, NEW r \in Reporters, ReportStep(r)
  PROVE  TypeInv'
<1> reports[r] \in Report /\ reports[r].row \in BotRow
    /\ reports[r].status \in LiveStatuses /\ reports[r].gen \in Nat \union {NoGen}
  BY DEF TypeInv, TypeOK, Report
<1>1. CASE ApplyControllerBotStatus(r)
  <2> DEFINE new == ReportStatus(reports[r].row, reports[r].status, reports[r].gen)
             last == [reports[r] EXCEPT !.pc = "destroy"]
  <2>1. new \in BotRow
    BY DEF ReportStatus, BotRow, BotStatuses
  <2>2. last \in Report
    BY DEF Report
  <2> HIDE DEF new, last
  <2>3. \/ bots' = bots
        \/ bots' = [bots EXCEPT ![reports[r].bot] =
                       Save(bots[reports[r].bot], reports[r].row, new)]
    BY <1>1 DEF ApplyControllerBotStatus, new
  <2>4. \/ reports' = [reports EXCEPT ![r] = last]
        \/ \E result \in {"ok", "error"} :
              reports' = [reports EXCEPT ![r] = EndReport(result)]
    BY <1>1 DEF ApplyControllerBotStatus, last
  <2>5. bots' \in [Bots -> BotRow]
    BY <2>1, <2>3, SaveType DEF TypeInv, TypeOK
  <2>6. reports' \in [Reporters -> Report]
    BY <2>2, <2>4, EndReportType DEF TypeInv, TypeOK
  <2> QED BY <1>1, <2>5, <2>6
          DEF ApplyControllerBotStatus, TypeInv, TypeOK, Active, Holds, env
<1>2. CASE DestroyBot(r)
  <2>1. bots' \in [Bots -> BotRow] /\ contracts' \in [Bots -> Contract]
    BY <1>2, RowTypes, IdleTypes DEF DestroyBot, TypeInv, TypeOK
  <2>2. \A o \in Calls : [ops[o] EXCEPT !.bot = NoBot] \in Operation
    BY DEF TypeInv, TypeOK, Operation
  <2>3. ops' \in [Calls -> Operation]
    BY <1>2, <2>2 DEF DestroyBot, TypeInv, TypeOK
  <2>4. reports' \in [Reporters -> Report]
    BY <1>2, EndReportType DEF DestroyBot, TypeInv, TypeOK
  <2> QED BY <1>2, <2>1, <2>3, <2>4
          DEF DestroyBot, TypeInv, TypeOK, Active, Holds, env
<1> QED BY <1>1, <1>2 DEF ReportStep

\* A step that changes the dispatcher's record to a well-typed one.
LEMMA WorkerSet ==
  ASSUME TypeInv, NEW w \in Workers, NEW worker \in Worker, Holds(worker),
         workers' = [workers EXCEPT ![w] = worker]
  PROVE  workers' \in [Workers -> Worker] /\ \A v \in Workers : Holds(workers'[v])
  BY DEF TypeInv, TypeOK

LEMMA ResumeSet ==
  ASSUME TypeInv, NEW w \in Workers, NEW worker \in Worker,
         workers' = [workers EXCEPT ![w] = Resume(worker)]
  PROVE  workers' \in [Workers -> Worker] /\ \A v \in Workers : Holds(workers'[v])
<1>1. Resume(worker) \in Worker /\ Resume(worker).pc \in {"idle", "next"}
  BY ResumeType
<1>2. Holds(Resume(worker))
  BY <1>1 DEF Holds
<1> QED BY <1>1, <1>2, WorkerSet

\* A worker goes to another step with the operation and the bot it holds.
LEMMA StepSet ==
  ASSUME TypeInv, NEW w \in Workers, workers[w].op \in Calls,
         NEW pc \in {"apply", "finish", "fail", "mark_error"},
         pc = "apply" => workers[w].bot \in Bots,
         workers' = [workers EXCEPT ![w].pc = pc]
  PROVE  workers' \in [Workers -> Worker] /\ \A v \in Workers : Holds(workers'[v])
<1> DEFINE worker == [workers[w] EXCEPT !.pc = pc]
<1>1. worker \in Worker /\ Holds(worker)
  BY DEF TypeInv, TypeOK, Worker, Holds
<1>2. workers' = [workers EXCEPT ![w] = worker]
  BY DEF TypeInv, TypeOK
<1> HIDE DEF worker
<1> QED BY <1>1, <1>2, WorkerSet

LEMMA WorkerType ==
  ASSUME TypeInv, NEW w \in Workers, WorkerStep(w)
  PROVE  TypeInv'
<1> DEFINE worker == workers[w]
<1> worker \in Worker /\ worker.row \in BotRow /\ Holds(worker)
  BY DEF TypeInv, TypeOK, Worker
<1>1. CASE ListPending(w)
  <2> DEFINE listed == Oldest(Eligible(Oldest(Pending, 5 * BatchSize)), BatchSize)
             batch  == {[op |-> o, attempts |-> ops[o].attempts] : o \in listed}
  <2>1. listed \subseteq Calls
    BY DEF Oldest, Eligible, Pending
  <2>2. \A o \in Calls : ops[o].attempts \in Nat
    BY DEF TypeInv, TypeOK, Operation
  <2> HIDE DEF listed
  <2>3. batch \subseteq [op : Calls, attempts : Nat]
    BY <2>1, <2>2
  <2> HIDE DEF batch
  <2>4. [IdleWorker EXCEPT !.batch = batch] \in Worker
    BY <2>3, IdleTypes DEF Worker
  <2>5. workers' = [workers EXCEPT ![w] = Resume([IdleWorker EXCEPT !.batch = batch])]
    BY <1>1 DEF ListPending, batch, listed
  <2>6. workers' \in [Workers -> Worker] /\ \A v \in Workers : Holds(workers'[v])
    BY <2>4, <2>5, ResumeSet
  <2> QED BY <1>1, <2>6 DEF ListPending, TypeInv, TypeOK, Active, env
<1>2. CASE MarkProcessing(w)
  <2> PICK e \in worker.batch :
         /\ ops' = [ops EXCEPT ![e.op].status = "processing",
                               ![e.op].attempts = e.attempts + 1,
                               ![e.op].due = TRUE]
         /\ workers' = [workers EXCEPT ![w] =
               [IdleWorker EXCEPT !.pc = "fetch", !.batch = worker.batch \ {e},
                                  !.op = e.op, !.attempts = e.attempts + 1,
                                  !.bot = ops[e.op].bot]]
    BY <1>2 DEF MarkProcessing
  <2>1. e.op \in Calls /\ e.attempts + 1 \in Nat
        /\ worker.batch \ {e} \in SUBSET [op : Calls, attempts : Nat]
    BY DEF Worker
  <2>2. [ops[e.op] EXCEPT !.status = "processing", !.attempts = e.attempts + 1,
                          !.due = TRUE] \in Operation
    <3>1. ops[e.op] \in Operation
      BY <2>1 DEF TypeInv, TypeOK
    <3> QED BY <2>1, <3>1 DEF Operation, OpStatuses
  <2>3. ops' \in [Calls -> Operation]
    BY <2>1, <2>2 DEF TypeInv, TypeOK
  <2> DEFINE new == [IdleWorker EXCEPT !.pc = "fetch", !.batch = worker.batch \ {e},
                                       !.op = e.op, !.attempts = e.attempts + 1,
                                       !.bot = ops[e.op].bot]
  <2>4. ops[e.op].bot \in Bots \union {NoBot}
    BY <2>1 DEF TypeInv, TypeOK, Operation
  <2>5. new \in Worker
    BY <2>1, <2>4, RowTypes DEF Worker, IdleWorker
  <2>6. Holds(new)
    BY <2>1 DEF Holds, IdleWorker
  <2> HIDE DEF new
  <2>7. workers' \in [Workers -> Worker] /\ \A v \in Workers : Holds(workers'[v])
    BY <2>5, <2>6, WorkerSet DEF new
  <2> QED BY <1>2, <2>3, <2>7 DEF MarkProcessing, TypeInv, TypeOK, Active, env
<1>3. CASE FetchAndReconcile(w)
  <2>1. worker.op \in Calls
    BY <1>3 DEF FetchAndReconcile, Holds
  <2>2. workers' \in [Workers -> Worker] /\ \A v \in Workers : Holds(workers'[v])
    <3>1. ASSUME worker.bot # NoBot,
                 workers' = [workers EXCEPT ![w].pc = "upsert",
                                            ![w].row = bots[worker.bot]]
          PROVE  workers' \in [Workers -> Worker]
                 /\ \A v \in Workers : Holds(workers'[v])
      <4> DEFINE new == [worker EXCEPT !.pc = "upsert", !.row = bots[worker.bot]]
      <4>1. worker.bot \in Bots /\ bots[worker.bot] \in BotRow
        BY <3>1 DEF Worker, TypeInv, TypeOK
      <4>2. new \in Worker /\ Holds(new)
        BY <2>1, <4>1 DEF Worker, Holds
      <4>3. workers' = [workers EXCEPT ![w] = new]
        BY <3>1 DEF TypeInv, TypeOK
      <4> HIDE DEF new
      <4> QED BY <4>2, <4>3, WorkerSet
    <3>2. ASSUME workers' = [workers EXCEPT ![w] = IdleWorker]
          PROVE  workers' \in [Workers -> Worker]
                 /\ \A v \in Workers : Holds(workers'[v])
      <4>1. Holds(IdleWorker)
        BY DEF IdleWorker, Holds
      <4> QED BY <3>2, <4>1, IdleTypes, WorkerSet
    <3> QED BY <1>3, <2>1, <3>1, <3>2, StepSet DEF FetchAndReconcile
  <2> QED BY <1>3, <2>2 DEF FetchAndReconcile, TypeInv, TypeOK, Active, env
<1>4. CASE PersistControllerContract(w)
  <2>1. worker.op \in Calls /\ worker.bot \in Bots
    BY <1>4 DEF PersistControllerContract, Holds
  <2>2. ContractFor(worker.row, ops[worker.op].kind) \in Contract
    BY <2>1, ContractType DEF TypeInv, TypeOK, Operation
  <2>3. contracts' \in [Bots -> Contract]
    BY <1>4, <2>2 DEF PersistControllerContract, TypeInv, TypeOK
  <2>4. workers' \in [Workers -> Worker] /\ \A v \in Workers : Holds(workers'[v])
    BY <1>4, <2>1, StepSet DEF PersistControllerContract
  <2> QED BY <1>4, <2>3, <2>4
          DEF PersistControllerContract, TypeInv, TypeOK, Active, env
<1>5. CASE ApplyBotUpdates(w)
  <2>1. worker.op \in Calls /\ worker.bot \in Bots
    BY <1>5 DEF ApplyBotUpdates, Holds
  <2>2. [bots[worker.bot] EXCEPT !.dgen = worker.row.dgen + 1] \in BotRow
    BY <2>1 DEF TypeInv, TypeOK, BotRow
  <2>3. bots' \in [Bots -> BotRow]
    BY <1>5, <2>2 DEF ApplyBotUpdates, TypeInv, TypeOK
  <2>4. workers' \in [Workers -> Worker] /\ \A v \in Workers : Holds(workers'[v])
    BY <1>5, <2>1, StepSet DEF ApplyBotUpdates
  <2> QED BY <1>5, <2>3, <2>4
          DEF ApplyBotUpdates, TypeInv, TypeOK, Active, env
<1>6. CASE MarkDispatched(w)
  <2>1. worker.op \in Calls
    BY <1>6 DEF MarkDispatched, Holds
  <2>2. [ops[worker.op] EXCEPT !.status = "dispatched", !.due = TRUE] \in Operation
    BY <2>1 DEF TypeInv, TypeOK, Operation, OpStatuses
  <2>3. ops' \in [Calls -> Operation]
    BY <1>6, <2>2 DEF MarkDispatched, TypeInv, TypeOK
  <2>4. workers' \in [Workers -> Worker] /\ \A v \in Workers : Holds(workers'[v])
    BY <1>6, ResumeSet DEF MarkDispatched
  <2> QED BY <1>6, <2>3, <2>4
          DEF MarkDispatched, TypeInv, TypeOK, Active, env
<1>7. CASE HandleFailure(w)
  <2>1. worker.op \in Calls
    BY <1>7 DEF HandleFailure, Holds
  <2>2. \A status \in {"failed", "pending"}, due \in BOOLEAN :
           [ops[worker.op] EXCEPT !.status = status, !.due = due] \in Operation
    BY <2>1 DEF TypeInv, TypeOK, Operation, OpStatuses
  <2>3. ops' \in [Calls -> Operation]
    BY <1>7, <2>2 DEF HandleFailure, TypeInv, TypeOK
  <2>4. workers' \in [Workers -> Worker] /\ \A v \in Workers : Holds(workers'[v])
    BY <1>7, <2>1, StepSet, ResumeSet DEF HandleFailure
  <2> QED BY <1>7, <2>3, <2>4
          DEF HandleFailure, TypeInv, TypeOK, Active, env
<1>8. CASE MaybeMarkBotError(w)
  <2> DEFINE new == [worker EXCEPT !.pc = "report_error", !.row = bots[worker.bot]]
  <2>1. worker.op \in Calls
    BY <1>8 DEF MaybeMarkBotError, Holds
  <2>2. worker.bot # NoBot => new \in Worker /\ Holds(new)
    BY <2>1 DEF TypeInv, TypeOK, Worker, Holds
  <2>3. \/ worker.bot # NoBot /\ workers' = [workers EXCEPT ![w] = new]
        \/ workers' = [workers EXCEPT ![w] = Resume(worker)]
    BY <1>8 DEF MaybeMarkBotError
  <2> HIDE DEF new
  <2>4. workers' \in [Workers -> Worker] /\ \A v \in Workers : Holds(workers'[v])
    BY <2>2, <2>3, WorkerSet, ResumeSet
  <2> QED BY <1>8, <2>4 DEF MaybeMarkBotError, TypeInv, TypeOK, Active, env
<1>9. CASE ReportBotError(w)
  <2> DEFINE new == [worker.row EXCEPT !.status = "error"]
  <2>1. new \in BotRow
    BY DEF BotRow, BotStatuses, LiveStatuses
  <2> HIDE DEF new
  <2>2. \/ bots' = bots
        \/ bots' = [bots EXCEPT ![worker.bot] =
                       Save(bots[worker.bot], worker.row, new)]
    BY <1>9 DEF ReportBotError, new
  <2>3. bots' \in [Bots -> BotRow]
    BY <2>1, <2>2, SaveType DEF TypeInv, TypeOK
  <2>4. workers' \in [Workers -> Worker] /\ \A v \in Workers : Holds(workers'[v])
    BY <1>9, ResumeSet DEF ReportBotError
  <2> QED BY <1>9, <2>3, <2>4
          DEF ReportBotError, TypeInv, TypeOK, Active, env
<1> QED BY <1>1, <1>2, <1>3, <1>4, <1>5, <1>6, <1>7, <1>8, <1>9 DEF WorkerStep

LEMMA BackoffType ==
  ASSUME TypeInv, NEW o \in Calls, BackoffElapses(o)
  PROVE  TypeInv'
<1>1. [ops[o] EXCEPT !.due = TRUE] \in Operation
  BY DEF TypeInv, TypeOK, Operation
<1>2. ops' \in [Calls -> Operation]
  BY <1>1 DEF BackoffElapses, TypeInv, TypeOK
<1> QED BY <1>2 DEF BackoffElapses, TypeInv, TypeOK, Active, Holds, env

LEMMA FailureType ==
  ASSUME TypeInv, Failure
  PROVE  TypeInv'
<1> MaxFaults \in Nat /\ MaxErrors \in Nat
  BY ControlPlaneAssumption
<1>1. ASSUME NEW c \in Calls, CallFails(c) PROVE TypeInv'
  <2>1. calls' = [calls EXCEPT ![c] = EndCall(c, "error")] /\ faults' \in 0..MaxFaults
    BY <1>1 DEF CallFails, Fault, TypeInv, TypeOK
  <2> QED BY <1>1, <2>1, EndCallType, EndCallActive
          DEF CallFails, TypeInv, TypeOK, Active, Holds
<1>2. ASSUME NEW w \in Workers, AttemptFails(w) PROVE TypeInv'
  <2>1. workers[w].op \in Calls
    BY <1>2 DEF AttemptFails, TypeInv, Holds
  <2>2. workers' \in [Workers -> Worker] /\ \A v \in Workers : Holds(workers'[v])
    BY <1>2, <2>1, StepSet DEF AttemptFails
  <2>3. errors' \in 0..MaxErrors
    BY <1>2 DEF AttemptFails, TypeInv, TypeOK
  <2> QED BY <1>2, <2>2, <2>3 DEF AttemptFails, TypeInv, TypeOK, Active
<1>3. ASSUME NEW w \in Workers, BookkeepingFails(w) PROVE TypeInv'
  <2>1. ASSUME NEW e,
               workers' = [workers EXCEPT ![w] =
                  Resume([workers[w] EXCEPT !.batch = workers[w].batch \ {e}])]
        PROVE  workers' \in [Workers -> Worker]
               /\ \A v \in Workers : Holds(workers'[v])
    <3>1. [workers[w] EXCEPT !.batch = workers[w].batch \ {e}] \in Worker
      BY DEF TypeInv, TypeOK, Worker
    <3> QED BY <2>1, <3>1, ResumeSet
  <2>2. ASSUME workers[w].pc = "fail", workers' = [workers EXCEPT ![w].pc = "mark_error"]
        PROVE  workers' \in [Workers -> Worker]
               /\ \A v \in Workers : Holds(workers'[v])
    BY <2>2, StepSet DEF TypeInv, Holds
  <2>3. ASSUME workers' = [workers EXCEPT ![w] = Resume(workers[w])]
        PROVE  workers' \in [Workers -> Worker]
               /\ \A v \in Workers : Holds(workers'[v])
    BY <2>3, ResumeSet DEF TypeInv, TypeOK
  <2>4. workers' \in [Workers -> Worker] /\ \A v \in Workers : Holds(workers'[v])
    <3>1. \/ \E e : workers' = [workers EXCEPT ![w] =
                  Resume([workers[w] EXCEPT !.batch = workers[w].batch \ {e}])]
          \/ workers[w].pc = "fail" /\ workers' = [workers EXCEPT ![w].pc = "mark_error"]
          \/ workers' = [workers EXCEPT ![w] = Resume(workers[w])]
      BY <1>3 DEF BookkeepingFails
    <3> QED BY <2>1, <2>2, <2>3, <3>1
  <2>5. faults' \in 0..MaxFaults
    BY <1>3 DEF BookkeepingFails, Fault, TypeInv, TypeOK
  <2> QED BY <1>3, <2>4, <2>5 DEF BookkeepingFails, TypeInv, TypeOK, Active
<1>4. ASSUME NEW w \in Workers, DispatcherCrashes(w) PROVE TypeInv'
  <2>1. workers' = [workers EXCEPT ![w] = IdleWorker] /\ faults' \in 0..MaxFaults
    BY <1>4 DEF DispatcherCrashes, Fault, TypeInv, TypeOK
  <2>2. Holds(IdleWorker)
    BY DEF Holds, IdleWorker
  <2> QED BY <1>4, <2>1, <2>2, IdleTypes, WorkerSet
          DEF DispatcherCrashes, TypeInv, TypeOK, Active
<1>5. CASE Restart
  <2>1. faults' \in 0..MaxFaults /\ image' \in Images
    BY <1>5 DEF Restart, Fault, TypeInv, TypeOK
  <2>2. calls' \in [Calls -> Call]
    BY <1>5, EndCallType DEF Restart, TypeInv, TypeOK
  <2>3. \A c \in Calls : ~Active(c)'
    BY <1>5, EndCallActive DEF Restart, Active
  <2>4. reports' \in [Reporters -> Report] /\ workers' \in [Workers -> Worker]
        /\ \A w \in Workers : Holds(workers'[w])
    BY <1>5, IdleTypes DEF Restart, Holds, IdleWorker
  <2> QED BY <1>5, <2>1, <2>2, <2>3, <2>4 DEF Restart, TypeInv, TypeOK
<1> QED BY <1>1, <1>2, <1>3, <1>4, <1>5 DEF Failure

LEMMA TypeStep == TypeInv /\ [Next]_vars => TypeInv'
<1> SUFFICES ASSUME TypeInv, [Next]_vars PROVE TypeInv'
  OBVIOUS
<1>1. CASE UNCHANGED vars
  BY <1>1 DEF vars, TypeInv, TypeOK, Active, Holds
<1>2. CASE Next
  BY <1>2, RequestType, CallbackType, ObservationType, CallType, ReportType,
     WorkerType, BackoffType, FailureType DEF Next, Process
<1> QED BY <1>1, <1>2

\* The tables and the processes hold values of their types, for any number of
\* requests, callbacks, dispatchers, failed attempts and crashes.
THEOREM TypeCorrect == Spec => []TypeOK
<1>1. TypeInv => TypeOK
  BY DEF TypeInv
<1> QED BY TypeInit, TypeStep, <1>1, PTL DEF Spec

------------------------------------------------------------------------------
(* Generations.  With one dispatcher, nobody else writes the generation of *)
(* a row it has read: its copy's is the row's until it records the next,   *)
(* and then the contract it has published says the same.  A callback under *)
(* way holds no generation beyond the row's.                               *)

OneDispatcher == \A v, w \in Workers : v = w

RowGen(b) ==
    /\ ~Exists(bots[b]) => contracts[b].gen = 0
    /\ contracts[b].gen > 0 => contracts[b].gen \in {bots[b].dgen, bots[b].dgen + 1}
    /\ Exists(bots[b]) => bots[b].ogen <= bots[b].dgen

ReportGen(report) ==
    report.pc = "save" =>
        /\ report.bot \in Bots
        /\ bots[report.bot].status # "absent"
        /\ Exists(bots[report.bot]) => report.gen <= bots[report.bot].dgen

WorkerGen(worker) ==
    worker.pc \in {"upsert", "apply"} =>
        /\ bots[worker.bot].status # "absent"
        /\ Exists(bots[worker.bot]) =>
              /\ bots[worker.bot].dgen = worker.row.dgen
              /\ worker.pc = "apply" =>
                    contracts[worker.bot].gen = worker.row.dgen + 1

GenInv == /\ TypeInv
          /\ \A b \in Bots : RowGen(b)
          /\ \A r \in Reporters : ReportGen(reports[r])
          /\ \A w \in Workers : WorkerGen(workers[w])

\* What every save but a callback's leaves of a row.
Kept(row, new) ==
    \/ new = row
    \/ /\ Exists(row) /\ Exists(new)
       /\ new.dgen = row.dgen /\ new.ogen = row.ogen

LEMMA SaveKept ==
  ASSUME NEW stored \in BotRow, NEW read \in BotRow, NEW new \in BotRow,
         Exists(stored), new.dgen = read.dgen, new.ogen = read.ogen,
         new.status = read.status \/ new.status \in LiveStatuses
  PROVE  Kept(stored, Save(stored, read, new))
  BY DEF Kept, Save, Written, Exists

LEMMA GenInit == Init => GenInv
  BY TypeInit, ControlPlaneAssumption
     DEF Init, GenInv, RowGen, ReportGen, WorkerGen, AbsentRow, NoContract,
         IdleReport, IdleWorker, Exists, LiveStatuses

\* A step that saves copies of rows, and moves workers without beginning a
\* document, disturbs no generation.
LEMMA GenFrame ==
  ASSUME GenInv, TypeInv', UNCHANGED contracts,
         \A b \in Bots : Kept(bots[b], bots'[b]),
         \A r \in Reporters : reports'[r] = reports[r] \/ reports'[r].pc # "save",
         \A w \in Workers : workers'[w] = workers[w]
                             \/ workers'[w].pc \notin {"upsert", "apply"}
  PROVE  GenInv'
<1>1. ASSUME NEW b \in Bots PROVE RowGen(b)'
  BY DEF GenInv, RowGen, Kept
<1>2. ASSUME NEW r \in Reporters PROVE ReportGen(reports[r])'
  BY DEF GenInv, ReportGen, Kept, Exists, LiveStatuses
<1>3. ASSUME NEW w \in Workers PROVE WorkerGen(workers[w])'
  BY DEF GenInv, TypeInv, Holds, WorkerGen, Kept, Exists, LiveStatuses
<1> QED BY <1>1, <1>2, <1>3 DEF GenInv

LEMMA CallKept ==
  ASSUME TypeInv, NEW c \in Calls, CallStep(c)
  PROVE  /\ UNCHANGED <<contracts, reports, workers>>
         /\ \A b \in Bots : Kept(bots[b], bots'[b])
<1> calls[c].row \in BotRow
  BY DEF TypeInv, TypeOK, Call
<1>1. ASSUME NEW permitted, NEW new \in BotRow, NEW next,
             new.dgen = calls[c].row.dgen, new.ogen = calls[c].row.ogen,
             new.status = calls[c].row.status \/ new.status \in LiveStatuses,
             SaveCopy(c, permitted, new, next)
      PROVE  /\ UNCHANGED <<contracts, reports, workers>>
             /\ \A b \in Bots : Kept(bots[b], bots'[b])
  <2>1. ASSUME NEW b \in Bots PROVE Kept(bots[b], bots'[b])
    <3> DEFINE about == calls[c].bot
    <3>1. \/ bots' = bots
          \/ /\ Exists(bots[about])
             /\ bots' = [bots EXCEPT ![about] =
                            Save(bots[about], calls[c].row, new)]
      BY <1>1 DEF SaveCopy
    <3>2. ASSUME about = b, Exists(bots[b])
          PROVE  Kept(bots[b], Save(bots[b], calls[c].row, new))
      BY <1>1, <3>2, SaveKept DEF TypeInv, TypeOK
    <3>3. \A row : Kept(row, row)
      BY DEF Kept
    <3> QED BY <3>1, <3>2, <3>3 DEF TypeInv, TypeOK
  <2> QED BY <1>1, <2>1 DEF SaveCopy
<1>2. CASE UpdateBot(c)
  <2> DEFINE set == [calls[c].row EXCEPT !.desired = calls[c].desired,
                                         !.config = calls[c].config]
             end == [calls[c].row EXCEPT !.desired = "deleted"]
  <2>1. set \in BotRow /\ end \in BotRow
    BY DEF TypeInv, TypeOK, Call, BotRow, DesiredStates
  <2>2. /\ set.dgen = calls[c].row.dgen /\ set.ogen = calls[c].row.ogen
        /\ set.status = calls[c].row.status
        /\ end.dgen = calls[c].row.dgen /\ end.ogen = calls[c].row.ogen
        /\ end.status = calls[c].row.status
    BY DEF BotRow
  <2>3. SaveCopy(c, TRUE, set, "request") \/ SaveCopy(c, TRUE, end, "begin_delete")
    BY <1>2 DEF UpdateBot
  <2> HIDE DEF set, end
  <2> QED BY <1>1, <2>1, <2>2, <2>3
<1>3. CASE RequestBotReconcile(c)
  <2> DEFINE new == RequestReconcile(calls[c].row)
  <2>1. new \in BotRow /\ new.dgen = calls[c].row.dgen
        /\ new.ogen = calls[c].row.ogen /\ new.status \in LiveStatuses
    BY DEF RequestReconcile, BotRow, BotStatuses, LiveStatuses
  <2> QED BY <1>1, <1>3, <2>1 DEF RequestBotReconcile
<1>4. CASE BeginBotDelete(c)
  <2> DEFINE new == BeginDelete(calls[c].row)
  <2>1. new \in BotRow /\ new.dgen = calls[c].row.dgen
        /\ new.ogen = calls[c].row.ogen /\ new.status \in LiveStatuses
    BY DEF BeginDelete, BotRow, BotStatuses, LiveStatuses
  <2> QED BY <1>1, <1>4, <2>1 DEF BeginBotDelete
<1>5. CASE EnqueueBotOperation(c) \/ DriftReadContracts(c) \/ DriftReadOperations(c)
  BY <1>5 DEF EnqueueBotOperation, DriftReadContracts, DriftReadOperations, Kept, env
<1> QED BY <1>2, <1>3, <1>4, <1>5 DEF CallStep

LEMMA RequestGen ==
  ASSUME GenInv, TypeInv', NEW c \in Calls, Request(c)
  PROVE  GenInv'
<1>1. ASSUME NEW b \in Bots, NEW d \in Requested, NEW f \in Configs,
             CreateBot(c, b, d, f)
      PROVE  GenInv'
  <2>1. /\ bots[b].status = "absent"
        /\ bots' \in [Bots -> BotRow]
        /\ \A a \in Bots : a # b => bots'[a] = bots[a]
        /\ bots'[b].dgen = 0 /\ bots'[b].ogen = NoGen
        /\ UNCHANGED <<contracts, reports, workers>>
    BY <1>1 DEF CreateBot, AbsentRow, GenInv, TypeInv, TypeOK
  <2>2. contracts[b].gen = 0
    BY <2>1 DEF GenInv, RowGen, Exists, LiveStatuses
  <2>3. ASSUME NEW a \in Bots PROVE RowGen(a)'
    BY <2>1, <2>2 DEF GenInv, RowGen, NoGen
  <2>4. ASSUME NEW r \in Reporters PROVE ReportGen(reports[r])'
    BY <2>1 DEF GenInv, ReportGen
  <2>5. ASSUME NEW w \in Workers PROVE WorkerGen(workers[w])'
    BY <2>1 DEF GenInv, TypeInv, Holds, WorkerGen
  <2> QED BY <2>3, <2>4, <2>5 DEF GenInv
<1>2. CASE UNCHANGED <<bots, contracts, reports, workers>>
  BY <1>2, GenFrame DEF Kept
<1> QED BY <1>1, <1>2 DEF Request, FetchBot, DriftReadBots, env

LEMMA CallbackGen ==
  ASSUME GenInv, TypeInv', NEW r \in Reporters, Callback(r)
  PROVE  GenInv'
<1> PICK b \in Bots, status \in Observations :
       \E gen \in {NoGen} \union 1..contracts[b].gen :
          FetchAndValidate(r, b, status, gen)
  BY DEF Callback
<1> PICK gen \in {NoGen} \union 1..contracts[b].gen :
       FetchAndValidate(r, b, status, gen)
  OBVIOUS
<1>1. UNCHANGED <<bots, contracts, workers>>
  BY DEF FetchAndValidate
<1>2. ASSUME NEW q \in Reporters PROVE ReportGen(reports[q])'
  <2>1. CASE q # r
    BY <1>1, <2>1 DEF FetchAndValidate, GenInv, ReportGen
  <2>2. CASE q = r /\ Exists(bots[b]) /\ gen \in {NoGen, bots[b].dgen}
    <3>1. reports'[r] = [pc |-> "save", bot |-> b, row |-> bots[b],
                         status |-> status, gen |-> gen]
      BY <2>2 DEF FetchAndValidate, GenInv, TypeInv, TypeOK
    <3>2. bots[b].dgen \in Nat /\ bots[b].status # "absent"
      BY <2>2 DEF GenInv, TypeInv, TypeOK, BotRow, Exists, LiveStatuses
    <3> QED BY <1>1, <2>2, <3>1, <3>2 DEF ReportGen, NoGen
  <2>3. CASE q = r /\ ~(Exists(bots[b]) /\ gen \in {NoGen, bots[b].dgen})
    <3>1. reports'[r].pc = "error"
      BY <2>3 DEF FetchAndValidate, GenInv, TypeInv, TypeOK, EndReport, IdleReport
    <3> QED BY <2>3, <3>1 DEF ReportGen
  <2> QED BY <2>1, <2>2, <2>3
<1>3. ASSUME NEW a \in Bots PROVE RowGen(a)'
  BY <1>1 DEF GenInv, RowGen
<1>4. ASSUME NEW w \in Workers PROVE WorkerGen(workers[w])'
  BY <1>1 DEF GenInv, WorkerGen
<1> QED BY <1>2, <1>3, <1>4 DEF GenInv

LEMMA ObservationGen ==
  ASSUME GenInv, TypeInv', NEW r \in Reporters, Observation(r)
  PROVE  GenInv'
<1> PICK b \in Bots, status \in Observations \intersect ObserverTargets :
       ObserveBot(r, b, status)
  BY DEF Observation
<1>1. UNCHANGED <<bots, contracts, workers>>
  BY DEF ObserveBot
<1>2. ASSUME NEW q \in Reporters PROVE ReportGen(reports[q])'
  <2>1. CASE q # r
    BY <1>1, <2>1 DEF ObserveBot, GenInv, ReportGen
  <2>2. CASE q = r
    <3>1. reports'[r] = [pc |-> "save", bot |-> b, row |-> bots[b],
                         status |-> status, gen |-> bots[b].ogen]
      BY DEF ObserveBot, GenInv, TypeInv, TypeOK
    <3>2. bots[b].ogen <= bots[b].dgen /\ bots[b].status # "absent"
      BY DEF ObserveBot, GenInv, RowGen, Exists, LiveStatuses
    <3> QED BY <1>1, <2>2, <3>1, <3>2 DEF ReportGen
  <2> QED BY <2>1, <2>2
<1>3. ASSUME NEW a \in Bots PROVE RowGen(a)'
  BY <1>1 DEF GenInv, RowGen
<1>4. ASSUME NEW w \in Workers PROVE WorkerGen(workers[w])'
  BY <1>1 DEF GenInv, WorkerGen
<1> QED BY <1>2, <1>3, <1>4 DEF GenInv

\* What the save of a callback or an observation leaves of the rows.
LEMMA ReportSaves ==
  ASSUME GenInv, NEW r \in Reporters, ApplyControllerBotStatus(r)
  PROVE  /\ UNCHANGED <<contracts, workers>>
         /\ \A b \in Bots :
               \/ bots'[b] = bots[b]
               \/ /\ Exists(bots[b]) /\ Exists(bots'[b])
                  /\ bots'[b].dgen = bots[b].dgen
                  /\ bots'[b].ogen <= bots'[b].dgen
<1> DEFINE report == reports[r]
           new == Save(bots[report.bot], report.row,
                       ReportStatus(report.row, report.status, report.gen))
<1> report \in Report /\ report.row \in BotRow /\ report.status \in LiveStatuses
    /\ report.gen \in Nat \union {NoGen}
  BY DEF GenInv, TypeInv, TypeOK, Report
<1>1. report.bot \in Bots /\ UNCHANGED <<contracts, workers>>
  BY DEF ApplyControllerBotStatus, GenInv, ReportGen
<1>2. \/ bots' = bots
      \/ /\ Exists(bots[report.bot])
         /\ bots' = [bots EXCEPT ![report.bot] = new]
  BY DEF ApplyControllerBotStatus
<1>3. ASSUME Exists(bots[report.bot])
      PROVE  /\ Exists(new) /\ new.dgen = bots[report.bot].dgen
             /\ new.ogen <= new.dgen
  <2>1. report.gen <= bots[report.bot].dgen
    BY <1>1, <1>3 DEF ApplyControllerBotStatus, GenInv, ReportGen
  <2>2. bots[report.bot].ogen <= bots[report.bot].dgen
    BY <1>1, <1>3 DEF GenInv, RowGen
  <2>3. bots[report.bot] \in BotRow
    BY <1>1 DEF GenInv, TypeInv, TypeOK
  <2> QED BY <1>3, <2>1, <2>2, <2>3
          DEF Save, Written, ReportStatus, Exists, BotRow
<1> HIDE DEF new
<1> QED BY <1>1, <1>2, <1>3 DEF GenInv, TypeInv, TypeOK

LEMMA ReportGenStep ==
  ASSUME GenInv, TypeInv', NEW r \in Reporters, ReportStep(r)
  PROVE  GenInv'
<1> DEFINE report == reports[r]
<1> report \in Report /\ report.row \in BotRow /\ report.status \in LiveStatuses
    /\ report.gen \in Nat \union {NoGen}
  BY DEF GenInv, TypeInv, TypeOK, Report
<1>0. \A q \in Reporters : reports'[q] = reports[q] \/ reports'[q].pc # "save"
  BY DEF ReportStep, ApplyControllerBotStatus, DestroyBot, GenInv, TypeInv,
     TypeOK, EndReport, IdleReport, Report
<1>1. CASE ApplyControllerBotStatus(r)
  <2>1. UNCHANGED <<contracts, workers>>
    BY <1>1, ReportSaves
  <2>4. \A b \in Bots :
           \/ bots'[b] = bots[b]
           \/ /\ Exists(bots[b]) /\ Exists(bots'[b])
              /\ bots'[b].dgen = bots[b].dgen
              /\ bots'[b].ogen <= bots'[b].dgen
    BY <1>1, ReportSaves
  <2>5. ASSUME NEW b \in Bots PROVE RowGen(b)'
    BY <2>1, <2>4 DEF GenInv, RowGen, Exists
  <2>6. ASSUME NEW q \in Reporters PROVE ReportGen(reports[q])'
    BY <1>0, <2>4 DEF GenInv, ReportGen, Exists, LiveStatuses
  <2>7. ASSUME NEW w \in Workers PROVE WorkerGen(workers[w])'
    BY <2>1, <2>4 DEF GenInv, TypeInv, Holds, WorkerGen, Exists, LiveStatuses
  <2> QED BY <2>5, <2>6, <2>7 DEF GenInv
<1>2. CASE DestroyBot(r)
  <2> DEFINE b == report.bot
  <2>1. CASE UNCHANGED <<bots, contracts>>
    BY <1>0, <1>2, <2>1, GenFrame DEF DestroyBot, Kept
  <2>2. CASE /\ Exists(bots[b]) /\ bots' = [bots EXCEPT ![b] = DestroyedRow]
             /\ contracts' = [contracts EXCEPT ![b] = NoContract]
    <3>1. ~Exists(DestroyedRow) /\ DestroyedRow.status = "destroyed"
          /\ NoContract.gen = 0
      BY DEF Exists, DestroyedRow, AbsentRow, LiveStatuses, NoContract
    <3>2. workers' = workers
      BY <1>2 DEF DestroyBot
    <3>3. ASSUME NEW a \in Bots PROVE RowGen(a)'
      BY <2>2, <3>1 DEF GenInv, TypeInv, TypeOK, RowGen, Exists
    <3>4. ASSUME NEW q \in Reporters PROVE ReportGen(reports[q])'
      BY <1>0, <2>2, <3>1 DEF GenInv, TypeInv, TypeOK, ReportGen, Exists
    <3>5. ASSUME NEW w \in Workers PROVE WorkerGen(workers[w])'
      BY <2>2, <3>1, <3>2 DEF GenInv, TypeInv, TypeOK, Holds, WorkerGen, Exists
    <3> QED BY <3>3, <3>4, <3>5 DEF GenInv
  <2> QED BY <1>2, <2>1, <2>2 DEF DestroyBot
<1> QED BY <1>1, <1>2 DEF ReportStep

LEMMA ErrorKept ==
  ASSUME TypeInv, NEW w \in Workers, ReportBotError(w)
  PROVE  /\ UNCHANGED <<contracts, reports>>
         /\ \A b \in Bots : Kept(bots[b], bots'[b])
<1> DEFINE worker == workers[w]
           new == [worker.row EXCEPT !.status = "error"]
<1>1. UNCHANGED <<contracts, reports>>
  BY DEF ReportBotError
<1>0. worker.row \in BotRow
  BY DEF TypeInv, TypeOK, Worker
<1>2. /\ worker.row \in BotRow /\ new \in BotRow
      /\ new.dgen = worker.row.dgen /\ new.ogen = worker.row.ogen
      /\ new.status \in LiveStatuses
  BY <1>0 DEF BotRow, BotStatuses, LiveStatuses
<1>3. \/ bots' = bots
      \/ /\ Exists(bots[worker.bot])
         /\ bots' = [bots EXCEPT ![worker.bot] =
                        Save(bots[worker.bot], worker.row, new)]
  BY DEF ReportBotError
<1> HIDE DEF new
<1>4. ASSUME NEW b \in Bots PROVE Kept(bots[b], bots'[b])
  <2>1. ASSUME worker.bot = b, Exists(bots[b])
        PROVE  Kept(bots[b], Save(bots[b], worker.row, new))
    BY <1>2, <2>1, SaveKept DEF TypeInv, TypeOK
  <2>2. \A row : Kept(row, row)
    BY DEF Kept
  <2> QED BY <1>3, <2>1, <2>2 DEF TypeInv, TypeOK
<1> QED BY <1>1, <1>4

LEMMA WorkerGenStep ==
  ASSUME OneDispatcher, GenInv, TypeInv', NEW w \in Workers, WorkerStep(w)
  PROVE  GenInv'
<1> DEFINE worker == workers[w]
<1> worker \in Worker /\ worker.row \in BotRow /\ Holds(worker)
  BY DEF GenInv, TypeInv, TypeOK, Worker
<1>0. \A x \in Worker : Resume(x).pc \in {"idle", "next"}
  BY ResumeType
<1>1. CASE ListPending(w)
  <2>1. workers'[w].pc \in {"idle", "next"}
    BY <1>1 DEF ListPending, Resume, IdleWorker, GenInv, TypeInv, TypeOK
  <2> QED BY <1>1, <2>1, GenFrame DEF ListPending, Kept, OneDispatcher
<1>2. CASE MarkProcessing(w)
  <2>1. workers'[w].pc = "fetch"
    BY <1>2 DEF MarkProcessing, IdleWorker, GenInv, TypeInv, TypeOK
  <2> QED BY <1>2, <2>1, GenFrame DEF MarkProcessing, Kept, OneDispatcher
<1>3. CASE FetchAndReconcile(w)
  <2> UNCHANGED <<bots, contracts, reports>>
    BY <1>3 DEF FetchAndReconcile
  <2>1. CASE workers'[w].pc = "upsert"
    <3>1. Exists(bots[worker.bot])
          /\ workers' = [workers EXCEPT ![w].pc = "upsert", ![w].row = bots[worker.bot]]
      BY <1>3, <2>1 DEF FetchAndReconcile, IdleWorker, GenInv, TypeInv, TypeOK, Worker
    <3>2. workers'[w].row = bots[worker.bot] /\ workers'[w].bot = worker.bot
      BY <3>1 DEF GenInv, TypeInv, TypeOK, Worker
    <3>3. WorkerGen(workers[w])'
      BY <2>1, <3>1, <3>2 DEF WorkerGen, Exists, LiveStatuses
    <3> QED BY <3>3 DEF GenInv, RowGen, ReportGen, OneDispatcher
  <2>2. CASE workers'[w].pc # "upsert"
    <3>1. workers'[w].pc \in {"finish", "fail", "idle"}
      BY <1>3, <2>2 DEF FetchAndReconcile, IdleWorker, GenInv, TypeInv, TypeOK, Worker
    <3> QED BY <3>1, GenFrame DEF Kept, OneDispatcher
  <2> QED BY <2>1, <2>2
<1>4. CASE PersistControllerContract(w)
  <2> DEFINE b == worker.bot
             contract == ContractFor(worker.row, ops[worker.op].kind)
  <2> UNCHANGED <<bots, reports>> /\ b \in Bots /\ worker.pc = "upsert"
    BY <1>4 DEF PersistControllerContract, Holds
  <2>1. CASE Exists(bots[b])
    <3>1. contracts' = [contracts EXCEPT ![b] = contract]
          /\ workers' = [workers EXCEPT ![w].pc = "apply"]
      BY <1>4, <2>1 DEF PersistControllerContract
    <3>2. contract.gen = worker.row.dgen + 1 /\ bots[b].dgen = worker.row.dgen
          /\ bots[b].status # "absent"
      BY <2>1 DEF ContractFor, GenInv, WorkerGen
    <3> HIDE DEF contract
    <3>3. ASSUME NEW a \in Bots PROVE RowGen(a)'
      BY <2>1, <3>1, <3>2 DEF GenInv, TypeInv, TypeOK, RowGen
    <3>4. workers'[w].row = worker.row /\ workers'[w].bot = b
      BY <3>1 DEF GenInv, TypeInv, TypeOK, Worker
    <3>5. contracts'[b] = contract
      BY <3>1 DEF GenInv, TypeInv, TypeOK
    <3>6. WorkerGen(workers[w])'
      BY <2>1, <3>2, <3>4, <3>5 DEF WorkerGen
    <3> QED BY <3>3, <3>6 DEF GenInv, ReportGen, OneDispatcher
  <2>2. CASE ~Exists(bots[b])
    <3>1. workers'[w].pc = "fail" /\ UNCHANGED contracts
      BY <1>4, <2>2 DEF PersistControllerContract, GenInv, TypeInv, TypeOK, Worker
    <3> QED BY <3>1, GenFrame DEF Kept, OneDispatcher
  <2> QED BY <2>1, <2>2
<1>5. CASE ApplyBotUpdates(w)
  <2> DEFINE b == worker.bot
  <2> UNCHANGED <<contracts, reports>> /\ b \in Bots /\ worker.pc = "apply"
    BY <1>5 DEF ApplyBotUpdates, Holds
  <2>0. workers'[w].pc \in {"finish", "fail"}
    BY <1>5 DEF ApplyBotUpdates, GenInv, TypeInv, TypeOK, Worker
  <2>1. CASE Exists(bots[b])
    <3>1. bots' = [bots EXCEPT ![b].dgen = worker.row.dgen + 1]
      BY <1>5, <2>1 DEF ApplyBotUpdates
    <3>2. bots[b].dgen = worker.row.dgen /\ contracts[b].gen = worker.row.dgen + 1
          /\ bots[b] \in BotRow
      BY <2>1 DEF GenInv, TypeInv, TypeOK, WorkerGen
    <3>3. /\ bots'[b].dgen = bots[b].dgen + 1 /\ bots'[b].status = bots[b].status
          /\ bots'[b].ogen = bots[b].ogen
          /\ \A a \in Bots : a # b => bots'[a] = bots[a]
      BY <3>1, <3>2 DEF GenInv, TypeInv, TypeOK, BotRow
    <3>4. bots[b].dgen \in Nat /\ bots[b].ogen \in Int
      BY <3>2 DEF BotRow, NoGen
    <3>5. ASSUME NEW a \in Bots PROVE RowGen(a)'
      BY <2>1, <3>2, <3>3, <3>4 DEF GenInv, RowGen, Exists
    <3>6. ASSUME NEW r \in Reporters PROVE ReportGen(reports[r])'
      <4>1. reports[r].gen \in Int
        BY DEF GenInv, TypeInv, TypeOK, Report, NoGen
      <4> QED BY <2>1, <3>3, <3>4, <4>1 DEF GenInv, ReportGen, Exists
    <3>7. ASSUME NEW v \in Workers PROVE WorkerGen(workers[v])'
      BY <2>0 DEF OneDispatcher, WorkerGen
    <3> QED BY <3>5, <3>6, <3>7 DEF GenInv
  <2>2. CASE ~Exists(bots[b])
    <3>1. UNCHANGED bots
      BY <1>5, <2>2 DEF ApplyBotUpdates
    <3> QED BY <2>0, <3>1, GenFrame DEF Kept, OneDispatcher
  <2> QED BY <2>1, <2>2
<1>6. CASE MarkDispatched(w)
  <2>1. workers'[w].pc \in {"idle", "next"}
    BY <1>0, <1>6 DEF MarkDispatched, GenInv, TypeInv, TypeOK
  <2> QED BY <1>6, <2>1, GenFrame DEF MarkDispatched, Kept, OneDispatcher
<1>7. CASE HandleFailure(w)
  <2>1. workers'[w].pc \in {"idle", "next", "mark_error"}
    BY <1>0, <1>7 DEF HandleFailure, GenInv, TypeInv, TypeOK, Worker
  <2> QED BY <1>7, <2>1, GenFrame DEF HandleFailure, Kept, OneDispatcher
<1>8. CASE MaybeMarkBotError(w)
  <2>1. workers'[w].pc \in {"idle", "next", "report_error"}
    BY <1>0, <1>8 DEF MaybeMarkBotError, GenInv, TypeInv, TypeOK, Worker
  <2> QED BY <1>8, <2>1, GenFrame DEF MaybeMarkBotError, Kept, OneDispatcher
<1>9. CASE ReportBotError(w)
  <2>1. workers'[w].pc \in {"idle", "next"}
    BY <1>0, <1>9 DEF ReportBotError, GenInv, TypeInv, TypeOK
  <2> QED BY <1>9, <2>1, ErrorKept, GenFrame DEF GenInv, OneDispatcher
<1> QED BY <1>1, <1>2, <1>3, <1>4, <1>5, <1>6, <1>7, <1>8, <1>9 DEF WorkerStep

LEMMA ResumePc ==
  ASSUME NEW worker PROVE Resume(worker).pc \in {"idle", "next"}
BY DEF Resume, IdleWorker

LEMMA FailureGen ==
  ASSUME GenInv, TypeInv', Failure
  PROVE  GenInv'
<1>0. UNCHANGED <<bots, contracts>>
  BY DEF Failure, CallFails, AttemptFails, BookkeepingFails, DispatcherCrashes,
         Restart
<1>1. ASSUME NEW r \in Reporters
      PROVE  reports'[r] = reports[r] \/ reports'[r].pc # "save"
  BY DEF Failure, CallFails, AttemptFails, BookkeepingFails, DispatcherCrashes,
         Restart, IdleReport
<1>2. ASSUME NEW w \in Workers
      PROVE  workers'[w] = workers[w] \/ workers'[w].pc \notin {"upsert", "apply"}
  <2> DEFINE Stops == workers'[w] = workers[w]
                      \/ workers'[w].pc \notin {"upsert", "apply"}
  <2>0. \A worker : Resume(worker).pc \in {"idle", "next"}
    BY ResumePc
  <2>1. ASSUME NEW v \in Workers, AttemptFails(v) PROVE Stops
    BY <2>1 DEF AttemptFails, GenInv, TypeInv, TypeOK, Worker
  <2>2. ASSUME NEW v \in Workers, BookkeepingFails(v) PROVE Stops
    <3>1. \/ workers' = [workers EXCEPT ![v].pc = "mark_error"]
          \/ \E worker : workers' = [workers EXCEPT ![v] = Resume(worker)]
      BY <2>2 DEF BookkeepingFails, GenInv, TypeInv, TypeOK, Worker
    <3> QED BY <2>0, <3>1 DEF GenInv, TypeInv, TypeOK, Worker
  <2>3. ASSUME NEW v \in Workers, DispatcherCrashes(v) PROVE Stops
    BY <2>3 DEF DispatcherCrashes, IdleWorker, GenInv, TypeInv, TypeOK
  <2> QED BY <2>1, <2>2, <2>3 DEF Failure, CallFails, Restart, IdleWorker
<1> QED BY <1>0, <1>1, <1>2, GenFrame DEF Kept

LEMMA GenStep ==
  ASSUME OneDispatcher PROVE GenInv /\ [Next]_vars => GenInv'
<1> SUFFICES ASSUME GenInv, [Next]_vars PROVE GenInv'
  OBVIOUS
<1>0. TypeInv'
  BY TypeStep DEF GenInv
<1>1. CASE UNCHANGED vars
  BY <1>0, <1>1, GenFrame DEF vars, Kept
<1>2. ASSUME NEW c \in Calls, CallStep(c) PROVE GenInv'
  BY <1>0, <1>2, CallKept, GenFrame DEF GenInv
<1>3. ASSUME NEW o \in Calls, BackoffElapses(o) PROVE GenInv'
  BY <1>0, <1>3, GenFrame DEF BackoffElapses, Kept
<1> QED BY <1>0, <1>1, <1>2, <1>3, RequestGen, CallbackGen, ObservationGen,
           ReportGenStep, WorkerGenStep, FailureGen DEF Next, Process

\* With one dispatcher the published generation is the recorded one or the
\* next, whatever requests, callbacks, failures and crashes come between.
THEOREM GenerationsStayClose ==
  ASSUME OneDispatcher PROVE Spec => []GenerationFence
<1>1. GenInv => GenerationFence
  BY DEF GenInv, RowGen, GenerationFence
<1> QED BY GenInit, GenStep, <1>1, PTL DEF Spec

\* With one dispatcher no callback, however late it writes, makes a bot's
\* observed generation pass its desired one.
THEOREM ObservationsLag ==
  ASSUME OneDispatcher PROVE Spec => []ObservedNotAhead
<1>1. GenInv => ObservedNotAhead
  BY DEF GenInv, RowGen, ObservedNotAhead
<1> QED BY GenInit, GenStep, <1>1, PTL DEF Spec

\* A step that leaves a bot in its table never takes its generation, or that
\* of its contract, back.
LEMMA CountUpStep ==
  ASSUME OneDispatcher, GenInv, Next, NEW b \in Bots,
         Exists(bots[b]), Exists(bots'[b])
  PROVE  /\ bots'[b].dgen >= bots[b].dgen
         /\ contracts'[b].gen >= contracts[b].gen
<1> DEFINE CountsUp == /\ bots'[b].dgen >= bots[b].dgen
                       /\ contracts'[b].gen >= contracts[b].gen
<1>0. bots[b].dgen \in Nat /\ contracts[b].gen \in Nat
  BY DEF GenInv, TypeInv, TypeOK, BotRow, Contract
<1>1. ASSUME UNCHANGED contracts, bots'[b] = bots[b] \/ bots'[b].dgen = bots[b].dgen
      PROVE  CountsUp
  BY <1>0, <1>1
<1>2. ASSUME UNCHANGED contracts, Kept(bots[b], bots'[b]) PROVE CountsUp
  BY <1>1, <1>2 DEF Kept
<1>3. ASSUME NEW c \in Calls, Request(c) PROVE CountsUp
  <2>1. ASSUME NEW a \in Bots, NEW d \in Requested, NEW f \in Configs,
               CreateBot(c, a, d, f)
        PROVE  CountsUp
    BY <1>1, <2>1 DEF CreateBot, Exists, LiveStatuses, GenInv, TypeInv, TypeOK
  <2> QED BY <1>1, <1>3, <2>1 DEF Request, FetchBot, DriftReadBots
<1>4. ASSUME NEW r \in Reporters, Callback(r) \/ Observation(r) PROVE CountsUp
  BY <1>1, <1>4 DEF Callback, FetchAndValidate, Observation, ObserveBot
<1>5. ASSUME NEW c \in Calls, CallStep(c) PROVE CountsUp
  BY <1>2, <1>5, CallKept DEF GenInv
<1>6. ASSUME NEW r \in Reporters, ReportStep(r) PROVE CountsUp
  <2>1. CASE ApplyControllerBotStatus(r)
    BY <1>1, <2>1, ReportSaves
  <2>2. CASE DestroyBot(r)
    <3>1. ~Exists(DestroyedRow)
      BY DEF Exists, DestroyedRow, AbsentRow, LiveStatuses
    <3>2. bots'[b] = bots[b] /\ contracts'[b] = contracts[b]
      BY <2>2, <3>1 DEF DestroyBot, GenInv, TypeInv, TypeOK
    <3> QED BY <1>0, <3>2
  <2> QED BY <1>6, <2>1, <2>2 DEF ReportStep
<1>7. ASSUME NEW w \in Workers, WorkerStep(w) PROVE CountsUp
  <2> DEFINE worker == workers[w]
  <2>1. CASE PersistControllerContract(w)
    <3> DEFINE contract == ContractFor(worker.row, ops[worker.op].kind)
    <3>1. contract.gen = worker.row.dgen + 1 /\ worker.pc = "upsert"
      BY <2>1 DEF ContractFor, PersistControllerContract
    <3>2. /\ bots' = bots
          /\ \/ contracts' = contracts
             \/ contracts' = [contracts EXCEPT ![worker.bot] = contract]
      BY <2>1 DEF PersistControllerContract
    <3> HIDE DEF contract
    <3>3. CASE worker.bot = b
      <4>1. contract.gen = bots[b].dgen + 1
        BY <3>1, <3>3 DEF GenInv, WorkerGen
      <4>2. contracts[b].gen <= bots[b].dgen + 1
        BY <1>0 DEF GenInv, RowGen
      <4> QED BY <1>0, <3>2, <3>3, <4>1, <4>2 DEF GenInv, TypeInv, TypeOK
    <3>4. CASE worker.bot # b
      BY <1>0, <3>2, <3>4 DEF GenInv, TypeInv, TypeOK
    <3> QED BY <3>3, <3>4
  <2>2. CASE ApplyBotUpdates(w)
    <3>1. /\ contracts' = contracts
          /\ \/ bots' = bots
             \/ bots' = [bots EXCEPT ![worker.bot].dgen = worker.row.dgen + 1]
      BY <2>2 DEF ApplyBotUpdates
    <3>2. ASSUME worker.bot = b PROVE bots[b].dgen = worker.row.dgen
      BY <2>2, <3>2 DEF ApplyBotUpdates, GenInv, WorkerGen
    <3> QED BY <1>0, <3>1, <3>2 DEF GenInv, TypeInv, TypeOK, BotRow
  <2>3. CASE ReportBotError(w)
    BY <1>2, <2>3, ErrorKept DEF GenInv
  <2>4. CASE UNCHANGED <<bots, contracts>>
    BY <1>1, <2>4
  <2> QED BY <1>7, <2>1, <2>2, <2>3, <2>4
          DEF WorkerStep, ListPending, MarkProcessing, FetchAndReconcile,
              MarkDispatched, HandleFailure, MaybeMarkBotError
<1>8. ASSUME NEW o \in Calls, BackoffElapses(o) PROVE CountsUp
  BY <1>1, <1>8 DEF BackoffElapses
<1>9. CASE Failure
  BY <1>1, <1>9 DEF Failure, CallFails, AttemptFails, BookkeepingFails,
     DispatcherCrashes, Restart
<1> QED BY <1>3, <1>4, <1>5, <1>6, <1>7, <1>8, <1>9 DEF Next, Process

\* With one dispatcher generations count up: no request, callback, retry or
\* crash takes a bot's recorded or published generation back.
THEOREM GenerationsNeverFall ==
  ASSUME OneDispatcher PROVE Spec => GenerationsCountUp
<1> DEFINE CountUp == \A b \in Bots : (Exists(bots[b]) /\ Exists(bots'[b])) =>
                         /\ bots'[b].dgen >= bots[b].dgen
                         /\ contracts'[b].gen >= contracts[b].gen
<1>1. GenInv /\ [Next]_vars => [CountUp]_vars
  BY CountUpStep
<1> QED BY GenInit, GenStep, <1>1, PTL DEF Spec, GenerationsCountUp
==============================================================================
