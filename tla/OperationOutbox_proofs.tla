------------------------ MODULE OperationOutbox_proofs ------------------------
(***************************************************************************)
(* BotControlPlane with one dispatcher implements OperationOutbox, for     *)
(* every number of bots, calls and tries and whatever fails: each step     *)
(* changes one operation's status and attempts as OperationOutbox lets it, *)
(* or none's.  And what the outbox is for: what was acknowledged and then  *)
(* worked off is published.                                                *)
(***************************************************************************)
EXTENDS BotControlPlane_proofs

------------------------------------------------------------------------------
(* What the dispatcher remembers of an operation is what its row says: it  *)
(* writes from its memory, never from the row.                             *)

Claimed == {"fetch", "upsert", "apply", "finish", "fail"}

OpOut(o) ==
    /\ ops[o].status = "none" => ops[o].attempts = 0
    /\ ops[o].status = "pending" => ops[o].attempts < MaxAttempts
    /\ calls[o].pc \notin {"ok", "error"} => ops[o].status = "none"

WorkerOut(worker) ==
    /\ worker.pc \in Claimed =>
          /\ ops[worker.op].status = "processing"
          /\ ops[worker.op].attempts = worker.attempts
          /\ worker.attempts <= MaxAttempts
    /\ \A e \in worker.batch :
          /\ ops[e.op].status = "pending"
          /\ ops[e.op].attempts = e.attempts

OutInv == /\ TypeInv
          /\ \A o \in Calls : OpOut(o)
          /\ \A w \in Workers : WorkerOut(workers[w])

\* A step preserves OutInv and is one of OperationOutbox, or a stutter.
OutStep == OutInv' /\ [Outbox!OutboxNext]_(Outbox!outboxVars)

\* What a step that claims and lists nothing makes of a dispatcher.
Onward(worker, new) ==
    /\ new.batch \subseteq worker.batch
    /\ new.pc \in Claimed => /\ worker.pc \in Claimed
                             /\ new.op = worker.op
                             /\ new.attempts = worker.attempts

LEMMA OnwardSame == ASSUME NEW worker PROVE Onward(worker, worker)
BY DEF Onward

LEMMA OnwardIdle == ASSUME NEW worker PROVE Onward(worker, IdleWorker)
BY DEF Onward, IdleWorker, Claimed

LEMMA OnwardResume == ASSUME NEW worker PROVE Onward(worker, Resume(worker))
BY DEF Onward, Resume, IdleWorker, Claimed

LEMMA OutInit == Init => OutInv /\ Outbox!OutboxInit
<1> SUFFICES ASSUME Init PROVE OutInv /\ Outbox!OutboxInit
  OBVIOUS
<1>1. OutInv
  BY TypeInit DEF Init, OutInv, OpOut, WorkerOut, NoOp, IdleWorker, Claimed,
     ReadyCall
<1>2. Outbox!OutboxInit
  BY DEF Init, Outbox!OutboxInit, NoOp
<1> QED BY <1>1, <1>2

\* Steps that leave status and attempts of every operation alone.
LEMMA OutFrame ==
  ASSUME OutInv, TypeInv',
         \A o \in Calls : /\ ops'[o].status = ops[o].status
                          /\ ops'[o].attempts = ops[o].attempts
                          /\ calls'[o].pc \notin {"ok", "error"} =>
                                calls[o].pc \notin {"ok", "error"},
         \A w \in Workers : Onward(workers[w], workers'[w])
  PROVE  OutStep
<1>1. ASSUME NEW o \in Calls PROVE OpOut(o)'
  BY DEF OutInv, OpOut
<1>2. ASSUME NEW w \in Workers PROVE WorkerOut(workers[w])'
  <2> Onward(workers[w], workers'[w]) /\ WorkerOut(workers[w])
    BY DEF OutInv
  <2>1. ASSUME workers'[w].pc \in Claimed
        PROVE  /\ ops'[workers'[w].op].status = "processing"
               /\ ops'[workers'[w].op].attempts = workers'[w].attempts
               /\ workers'[w].attempts <= MaxAttempts
    <3>1. workers[w].op \in Calls
      BY <2>1 DEF Onward, OutInv, TypeInv, Holds, Claimed
    <3> QED BY <2>1, <3>1 DEF Onward, WorkerOut
  <2>2. ASSUME NEW e \in workers'[w].batch
        PROVE  /\ ops'[e.op].status = "pending"
               /\ ops'[e.op].attempts = e.attempts
    <3>1. e \in workers[w].batch /\ e.op \in Calls
      BY <2>2 DEF Onward, OutInv, TypeInv, TypeOK, Worker
    <3> QED BY <3>1 DEF WorkerOut
  <2> QED BY <2>1, <2>2 DEF WorkerOut
<1>3. UNCHANGED Outbox!outboxVars
  BY DEF Outbox!outboxVars
<1> QED BY <1>1, <1>2, <1>3 DEF OutInv, OutStep

\* A step that moves operation o from one status to another.
LEMMA OutMove ==
  ASSUME OutInv, TypeInv', NEW o \in Calls, NEW from, NEW to,
         ops[o].status = from, ops'[o].status = to,
         \A p \in Calls \ {o} : /\ ops'[p].status = ops[p].status
                                /\ ops'[p].attempts = ops[p].attempts
                                /\ calls'[p].pc \notin {"ok", "error"} =>
                                      calls[p].pc \notin {"ok", "error"},
         OpOut(o)',
         \A w \in Workers : WorkerOut(workers[w])',
         \/ from = "none" /\ to = "pending" /\ ops'[o].attempts = ops[o].attempts
         \/ /\ from = "pending" /\ to = "processing"
            /\ ops[o].attempts < MaxAttempts
            /\ ops'[o].attempts = ops[o].attempts + 1
         \/ /\ from = "processing" /\ ops'[o].attempts = ops[o].attempts
            /\ \/ to = "dispatched"
               \/ to = "pending" /\ ops[o].attempts < MaxAttempts
               \/ to = "failed" /\ ops[o].attempts = MaxAttempts
  PROVE  OutStep
<1> DEFINE status == [p \in Calls |-> ops[p].status]
           attempts == [p \in Calls |-> ops[p].attempts]
<1>1. ASSUME NEW p \in Calls PROVE OpOut(p)'
  BY DEF OutInv, OpOut
<1>2. status[o] = from /\ status' = [status EXCEPT ![o] = to]
  OBVIOUS
<1>3. \/ Outbox!Insert(o) \/ Outbox!Claim(o) \/ Outbox!Dispatch(o)
      \/ Outbox!Requeue(o) \/ Outbox!GiveUp(o)
  <2>1. Outbox!Move(o, from, to)
    BY <1>2 DEF Outbox!Move
  <2>2. CASE from # "pending" /\ ops'[o].attempts = ops[o].attempts
    <3>1. attempts' = attempts
      BY <2>2
    <3> QED BY <2>1, <2>2, <3>1
            DEF Outbox!Insert, Outbox!Dispatch, Outbox!Requeue, Outbox!GiveUp
  <2>3. CASE /\ from = "pending" /\ to = "processing"
             /\ ops[o].attempts < MaxAttempts
             /\ ops'[o].attempts = ops[o].attempts + 1
    <3>1. attempts' = [attempts EXCEPT ![o] = @ + 1]
      BY <2>3
    <3> QED BY <2>1, <2>3, <3>1 DEF Outbox!Claim
  <2> QED BY <2>2, <2>3
<1>4. Outbox!OutboxNext
  BY <1>3 DEF Outbox!OutboxNext
<1> QED BY <1>1, <1>4 DEF OutInv, OutStep

\* The batches and the operations in hand of dispatchers that stay as they are
\* still match when an operation is inserted.
LEMMA CallOut ==
  ASSUME OutInv, TypeInv', NEW c \in Calls, CallStep(c)
  PROVE  OutStep
<1>1. CASE EnqueueBotOperation(c) /\ Exists(bots[calls[c].bot])
  <2>1. /\ calls[c].pc = "enqueue" /\ workers' = workers
        /\ ops'[c].status = "pending" /\ ops'[c].attempts = 0
        /\ \A p \in Calls \ {c} : ops'[p] = ops[p] /\ calls'[p] = calls[p]
        /\ calls'[c].pc = "ok"
    BY <1>1, EndCallActive DEF EnqueueBotOperation, OutInv, TypeInv, TypeOK
  <2>2. ops[c].status = "none" /\ ops[c].attempts = 0
    BY <2>1 DEF OutInv, OpOut
  <2>3. OpOut(c)'
    BY <2>1, ControlPlaneAssumption DEF OpOut
  <2>4. ASSUME NEW w \in Workers PROVE WorkerOut(workers[w])'
    <3>1. \A o \in Calls : ops[o].status \in {"pending", "processing"} =>
                             ops'[o] = ops[o]
      BY <2>1, <2>2
    <3>2. WorkerOut(workers[w])
      BY DEF OutInv
    <3>3. \A e \in workers[w].batch : e.op \in Calls
      BY DEF OutInv, TypeInv, TypeOK, Worker
    <3>4. workers[w].pc \in Claimed => workers[w].op \in Calls
      BY DEF OutInv, TypeInv, Holds, Claimed
    <3> QED BY <2>1, <3>1, <3>2, <3>3, <3>4 DEF WorkerOut
  <2> QED BY <2>1, <2>2, <2>3, <2>4, OutMove
<1>2. CASE UNCHANGED <<ops, workers>>
           /\ \A p \in Calls : calls'[p].pc \notin {"ok", "error"} =>
                                 calls[p].pc \notin {"ok", "error"}
  BY <1>2, OutFrame, OnwardSame
<1>3. ASSUME ~(EnqueueBotOperation(c) /\ Exists(bots[calls[c].bot]))
      PROVE  /\ UNCHANGED <<ops, workers>>
             /\ calls[c].pc \notin {"ok", "error"}
             /\ \A p \in Calls \ {c} : calls'[p] = calls[p]
  BY <1>3 DEF CallStep, UpdateBot, RequestBotReconcile, BeginBotDelete, SaveCopy,
     EnqueueBotOperation, DriftReadContracts, DriftReadOperations,
     OutInv, TypeInv, TypeOK
<1> QED BY <1>1, <1>2, <1>3

LEMMA RequestOut ==
  ASSUME OutInv, TypeInv', NEW c \in Calls, Request(c)
  PROVE  OutStep
<1>1. /\ calls[c].pc = "ready" /\ UNCHANGED <<ops, workers>>
      /\ \A p \in Calls \ {c} : calls'[p] = calls[p]
  BY DEF Request, CreateBot, FetchBot, DriftReadBots, OutInv, TypeInv, TypeOK
<1> QED BY <1>1, OutFrame, OnwardSame

LEMMA ReportOut ==
  ASSUME OutInv, TypeInv', NEW r \in Reporters,
         Callback(r) \/ Observation(r) \/ ReportStep(r)
  PROVE  OutStep
<1>1. UNCHANGED <<calls, workers>>
  BY DEF Callback, FetchAndValidate, Observation, ObserveBot, ReportStep,
     ApplyControllerBotStatus, DestroyBot
<1>2. \A o \in Calls : /\ ops'[o].status = ops[o].status
                       /\ ops'[o].attempts = ops[o].attempts
  <2>1. CASE DestroyBot(r)
    <3>1. \A o \in Calls : ops[o] \in Operation
      BY DEF OutInv, TypeInv, TypeOK
    <3>2. \A o \in Calls : ops'[o] = ops[o] \/ ops'[o] = [ops[o] EXCEPT !.bot = NoBot]
      BY <2>1 DEF DestroyBot
    <3> QED BY <3>1, <3>2 DEF Operation
  <2>2. CASE UNCHANGED ops
    BY <2>2
  <2> QED BY <2>1, <2>2
          DEF Callback, FetchAndValidate, Observation, ObserveBot, ReportStep,
              ApplyControllerBotStatus
<1> QED BY <1>1, <1>2, OutFrame, OnwardSame

LEMMA BackoffOut ==
  ASSUME OutInv, TypeInv', NEW o \in Calls, BackoffElapses(o)
  PROVE  OutStep
<1>1. ops[o] \in Operation /\ UNCHANGED <<calls, workers>>
      /\ ops' = [ops EXCEPT ![o].due = TRUE]
  BY DEF BackoffElapses, OutInv, TypeInv, TypeOK
<1>2. \A p \in Calls : /\ ops'[p].status = ops[p].status
                       /\ ops'[p].attempts = ops[p].attempts
  BY <1>1 DEF Operation, OutInv, TypeInv, TypeOK
<1> QED BY <1>1, <1>2, OutFrame, OnwardSame

LEMMA FailureOut ==
  ASSUME OutInv, TypeInv', Failure
  PROVE  OutStep
<1>1. UNCHANGED ops
  BY DEF Failure, CallFails, AttemptFails, BookkeepingFails, DispatcherCrashes,
     Restart
<1>2. ASSUME NEW p \in Calls, calls'[p].pc \notin {"ok", "error"}
      PROVE  calls[p].pc \notin {"ok", "error"}
  <2>1. ASSUME NEW c \in Calls, CallFails(c) PROVE calls[p].pc \notin {"ok", "error"}
    BY <1>2, <2>1, EndCallActive DEF CallFails, OutInv, TypeInv, TypeOK
  <2>2. CASE Restart
    BY <1>2, <2>2, EndCallActive DEF Restart, Active
  <2> QED BY <1>2, <2>1, <2>2
          DEF Failure, AttemptFails, BookkeepingFails, DispatcherCrashes
<1>3. ASSUME NEW w \in Workers PROVE Onward(workers[w], workers'[w])
  <2> DEFINE Goes == Onward(workers[w], workers'[w])
  <2>1. ASSUME NEW v \in Workers, NEW pc,
               workers' = [workers EXCEPT ![v].pc = pc],
               pc \in Claimed => workers[v].pc \in Claimed
        PROVE  Goes
    BY <2>1, OnwardSame DEF Onward, OutInv, TypeInv, TypeOK, Worker
  <2>2. ASSUME NEW v \in Workers, NEW worker, Onward(workers[v], worker),
               workers' = [workers EXCEPT ![v] = worker]
        PROVE  Goes
    BY <2>2, OnwardSame DEF OutInv, TypeInv, TypeOK
  <2>3. ASSUME NEW v \in Workers, AttemptFails(v) PROVE Goes
    BY <2>1, <2>3 DEF AttemptFails, Claimed
  <2>4. ASSUME NEW v \in Workers, BookkeepingFails(v) PROVE Goes
    <3>1. ASSUME NEW e PROVE
             Onward(workers[v],
                    Resume([workers[v] EXCEPT !.batch = workers[v].batch \ {e}]))
      BY DEF Onward, Resume, IdleWorker, Claimed, OutInv, TypeInv, TypeOK, Worker
    <3>2. \/ \E e : workers' = [workers EXCEPT ![v] =
                       Resume([workers[v] EXCEPT !.batch = workers[v].batch \ {e}])]
          \/ workers' = [workers EXCEPT ![v].pc = "mark_error"]
          \/ workers' = [workers EXCEPT ![v] = Resume(workers[v])]
      BY <2>4 DEF BookkeepingFails
    <3> QED BY <2>1, <2>2, <3>1, <3>2, OnwardResume DEF Claimed
  <2>5. ASSUME NEW v \in Workers, DispatcherCrashes(v) PROVE Goes
    BY <2>2, <2>5, OnwardIdle DEF DispatcherCrashes
  <2> QED BY <2>3, <2>4, <2>5, OnwardSame, OnwardIdle DEF Failure, CallFails, Restart
<1> QED BY <1>1, <1>2, <1>3, OutFrame

LEMMA ListOut ==
  ASSUME OutInv, TypeInv', NEW w \in Workers, ListPending(w)
  PROVE  OutStep
<1> DEFINE listed == Oldest(Eligible(Oldest(Pending, 5 * BatchSize)), BatchSize)
           batch  == {[op |-> o, attempts |-> ops[o].attempts] : o \in listed}
<1>1. listed \subseteq Pending
  BY DEF Oldest, Eligible
<1> HIDE DEF listed
<1>2. \A e \in batch : /\ ops[e.op].status = "pending"
                       /\ ops[e.op].attempts = e.attempts
  BY <1>1 DEF Pending
<1> HIDE DEF batch
<1>3. workers' = [workers EXCEPT ![w] = Resume([IdleWorker EXCEPT !.batch = batch])]
      /\ UNCHANGED <<ops, calls>>
  BY DEF ListPending, batch, listed
<1>4. Resume([IdleWorker EXCEPT !.batch = batch]).batch = batch
      /\ Resume([IdleWorker EXCEPT !.batch = batch]).pc \notin Claimed
  BY DEF Resume, IdleWorker, Claimed
<1>5. ASSUME NEW v \in Workers PROVE WorkerOut(workers[v])'
  BY <1>2, <1>3, <1>4 DEF OutInv, WorkerOut, TypeInv, TypeOK
<1>6. ASSUME NEW o \in Calls PROVE OpOut(o)'
  BY <1>3 DEF OutInv, OpOut
<1>7. UNCHANGED Outbox!outboxVars
  BY <1>3 DEF Outbox!outboxVars
<1> QED BY <1>5, <1>6, <1>7 DEF OutInv, OutStep

\* The operation in hand moves, and the rest of the batch is about others.
LEMMA BatchOut ==
  ASSUME OneDispatcher, OutInv, TypeInv', NEW w \in Workers,
         NEW o \in Calls, NEW new, workers' = [workers EXCEPT ![w] = new],
         new.batch \subseteq workers[w].batch,
         \A e \in new.batch : e.op # o,
         \A p \in Calls \ {o} : ops'[p] = ops[p],
         new.pc \in Claimed => /\ new.op = o
                               /\ ops'[o].status = "processing"
                               /\ ops'[o].attempts = new.attempts
                               /\ new.attempts <= MaxAttempts
  PROVE  \A v \in Workers : WorkerOut(workers[v])'
<1>1. workers'[w] = new
  BY DEF OutInv, TypeInv, TypeOK
<1>2. \A e \in new.batch : /\ ops'[e.op].status = "pending"
                           /\ ops'[e.op].attempts = e.attempts
  BY DEF OutInv, WorkerOut, TypeInv, TypeOK, Worker
<1>3. WorkerOut(workers[w])'
  BY <1>1, <1>2 DEF WorkerOut
<1> QED BY <1>3 DEF OneDispatcher

LEMMA ClaimOut ==
  ASSUME OneDispatcher, OutInv, TypeInv', NEW w \in Workers, MarkProcessing(w)
  PROVE  OutStep
<1>claim. PICK e \in workers[w].batch :
       /\ ops' = [ops EXCEPT ![e.op].status = "processing",
                             ![e.op].attempts = e.attempts + 1,
                             ![e.op].due = TRUE]
       /\ workers' = [workers EXCEPT ![w] =
             [IdleWorker EXCEPT !.pc = "fetch", !.batch = workers[w].batch \ {e},
                                !.op = e.op, !.attempts = e.attempts + 1,
                                !.bot = ops[e.op].bot]]
       /\ UNCHANGED calls
  BY DEF MarkProcessing
<1>new. PICK new :
       new = [IdleWorker EXCEPT !.pc = "fetch", !.batch = workers[w].batch \ {e},
                                !.op = e.op, !.attempts = e.attempts + 1,
                                !.bot = ops[e.op].bot]
  OBVIOUS
<1>0. workers' = [workers EXCEPT ![w] = new]
  BY <1>claim, <1>new
<1>1. e \in [op : Calls, attempts : Nat] /\ ops[e.op] \in Operation
  BY DEF OutInv, TypeInv, TypeOK, Worker
<1>2. ops[e.op].status = "pending" /\ ops[e.op].attempts = e.attempts
      /\ e.attempts < MaxAttempts
  BY <1>1 DEF OutInv, WorkerOut, OpOut
<1>3. /\ ops'[e.op].status = "processing" /\ ops'[e.op].attempts = e.attempts + 1
      /\ \A p \in Calls \ {e.op} : ops'[p] = ops[p]
  BY <1>claim, <1>1 DEF OutInv, TypeInv, TypeOK, Operation
<1>4. \A f \in new.batch : f \in workers[w].batch /\ f.op # e.op
  <2>1. ASSUME NEW f \in workers[w].batch, f.op = e.op PROVE f = e
    <3>1. f \in [op : Calls, attempts : Nat] /\ f.attempts = e.attempts
      BY <1>2, <2>1 DEF OutInv, WorkerOut, TypeInv, TypeOK, Worker
    <3> QED BY <1>1, <2>1, <3>1
  <2> QED BY <1>new, <2>1 DEF IdleWorker
<1>5. new.pc = "fetch" /\ new.op = e.op /\ new.attempts = e.attempts + 1
      /\ e.attempts + 1 <= MaxAttempts
  BY <1>new, <1>1, <1>2, ControlPlaneAssumption DEF IdleWorker
<1>6. \A v \in Workers : WorkerOut(workers[v])'
  <2>1. /\ e.op \in Calls
        /\ new.batch \subseteq workers[w].batch
        /\ \A f \in new.batch : f.op # e.op
    BY <1>1, <1>4
  <2>2. /\ new.op = e.op /\ ops'[e.op].status = "processing"
        /\ ops'[e.op].attempts = new.attempts /\ new.attempts <= MaxAttempts
    BY <1>3, <1>5
  <2> QED BY <1>0, <1>3, <2>1, <2>2, BatchOut
<1>7. OpOut(e.op)'
  BY <1>claim, <1>1, <1>2, <1>3 DEF OutInv, OpOut
<1> QED BY <1>claim, <1>1, <1>2, <1>3, <1>6, <1>7, OutMove

\* MarkDispatched, and a requeue or the last failure of HandleFailure.
LEMMA SettleOut ==
  ASSUME OneDispatcher, OutInv, TypeInv', NEW w \in Workers,
         workers[w].pc \in Claimed, NEW to, NEW due, NEW new,
         \/ to = "dispatched"
         \/ to = "pending" /\ workers[w].attempts < MaxAttempts
         \/ to = "failed" /\ workers[w].attempts >= MaxAttempts,
         ops' = [ops EXCEPT ![workers[w].op].status = to,
                            ![workers[w].op].due = due],
         workers' = [workers EXCEPT ![w] = new],
         new.batch = workers[w].batch, new.pc \notin Claimed,
         UNCHANGED calls
  PROVE  OutStep
<1> PICK o \in Calls : o = workers[w].op
  BY DEF OutInv, TypeInv, Holds, Claimed
<1>1. ops[o] \in Operation /\ workers[w] \in Worker
  BY DEF OutInv, TypeInv, TypeOK
<1>2. ops[o].status = "processing" /\ ops[o].attempts = workers[w].attempts
      /\ workers[w].attempts <= MaxAttempts /\ workers[w].attempts \in Nat
  BY <1>1 DEF OutInv, WorkerOut, Worker
<1>3. /\ ops'[o].status = to /\ ops'[o].attempts = ops[o].attempts
      /\ \A p \in Calls \ {o} : ops'[p] = ops[p]
  BY <1>1 DEF OutInv, TypeInv, TypeOK, Operation
<1>4. \A e \in new.batch : e.op # o
  BY <1>2 DEF OutInv, WorkerOut
<1>5. \A v \in Workers : WorkerOut(workers[v])'
  BY <1>1, <1>3, <1>4, BatchOut
<1>6. OpOut(o)'
  BY <1>1, <1>2, <1>3 DEF OutInv, OpOut
<1>7. to = "failed" => ops[o].attempts = MaxAttempts
  BY <1>2, ControlPlaneAssumption
<1> QED BY <1>1, <1>2, <1>3, <1>5, <1>6, <1>7, OutMove

LEMMA WorkerOutStep ==
  ASSUME OneDispatcher, OutInv, TypeInv', NEW w \in Workers, WorkerStep(w)
  PROVE  OutStep
<1> DEFINE worker == workers[w]
<1> worker \in Worker
  BY DEF OutInv, TypeInv, TypeOK
<1>0. ASSUME NEW new, workers' = [workers EXCEPT ![w] = new], Onward(worker, new),
             UNCHANGED <<ops, calls>>
      PROVE  OutStep
  <2>1. \A v \in Workers : Onward(workers[v], workers'[v])
    BY <1>0, OnwardSame DEF OutInv, TypeInv, TypeOK
  <2> QED BY <1>0, <2>1, OutFrame
<1>1. ASSUME NEW pc, worker.pc \in Claimed, workers' = [workers EXCEPT ![w].pc = pc],
             UNCHANGED <<ops, calls>>
      PROVE  OutStep
  <2>1. Onward(worker, [worker EXCEPT !.pc = pc])
    BY <1>1 DEF Onward, Worker
  <2> QED BY <1>0, <1>1, <2>1
<1>2. CASE FetchAndReconcile(w)
  <2>1. Onward(worker, [worker EXCEPT !.pc = "upsert", !.row = bots[worker.bot]])
    BY <1>2 DEF FetchAndReconcile, Onward, Worker, Claimed
  <2>2. \/ workers' = [workers EXCEPT ![w] =
              [worker EXCEPT !.pc = "upsert", !.row = bots[worker.bot]]]
        \/ \E pc : workers' = [workers EXCEPT ![w].pc = pc]
        \/ workers' = [workers EXCEPT ![w] = IdleWorker]
    BY <1>2 DEF FetchAndReconcile
  <2>3. worker.pc \in Claimed /\ UNCHANGED <<ops, calls>>
    BY <1>2 DEF FetchAndReconcile, Claimed
  <2> QED BY <1>0, <1>1, <2>1, <2>2, <2>3, OnwardIdle
<1>3. CASE PersistControllerContract(w) \/ ApplyBotUpdates(w)
  <2>1. \E pc : workers' = [workers EXCEPT ![w].pc = pc]
    BY <1>3 DEF PersistControllerContract, ApplyBotUpdates
  <2>2. worker.pc \in Claimed /\ UNCHANGED <<ops, calls>>
    BY <1>3 DEF PersistControllerContract, ApplyBotUpdates, Claimed
  <2> QED BY <1>1, <2>1, <2>2
<1>4. CASE MarkDispatched(w)
  <2>1. Resume(worker).batch = worker.batch /\ Resume(worker).pc \notin Claimed
    BY DEF Resume, IdleWorker, Claimed
  <2>2. /\ worker.pc \in Claimed
        /\ ops' = [ops EXCEPT ![worker.op].status = "dispatched",
                              ![worker.op].due = TRUE]
        /\ workers' = [workers EXCEPT ![w] = Resume(worker)]
        /\ UNCHANGED calls
    BY <1>4 DEF MarkDispatched, Claimed
  <2> QED BY <2>1, <2>2, SettleOut
<1>5. CASE HandleFailure(w)
  <2>1. worker.pc \in Claimed /\ UNCHANGED calls
    BY <1>5 DEF HandleFailure, Claimed
  <2>2. CASE worker.attempts >= MaxAttempts
    <3> DEFINE new == [worker EXCEPT !.pc = "mark_error"]
    <3>1. new.batch = worker.batch /\ new.pc \notin Claimed
      BY DEF Worker, Claimed
    <3>2. /\ ops' = [ops EXCEPT ![worker.op].status = "failed",
                                ![worker.op].due = TRUE]
          /\ workers' = [workers EXCEPT ![w] = new]
      BY <1>5, <2>2 DEF HandleFailure
    <3> HIDE DEF new
    <3> QED BY <2>1, <2>2, <3>1, <3>2, SettleOut
  <2>3. CASE ~(worker.attempts >= MaxAttempts)
    <3>1. Resume(worker).batch = worker.batch /\ Resume(worker).pc \notin Claimed
      BY DEF Resume, IdleWorker, Claimed
    <3>2. /\ ops' = [ops EXCEPT ![worker.op].status = "pending",
                                ![worker.op].due = FALSE]
          /\ workers' = [workers EXCEPT ![w] = Resume(worker)]
      BY <1>5, <2>3 DEF HandleFailure
    <3>3. worker.attempts < MaxAttempts
      BY <2>3, ControlPlaneAssumption DEF Worker
    <3> QED BY <2>1, <3>1, <3>2, <3>3, SettleOut
  <2> QED BY <2>2, <2>3
<1>6. CASE MaybeMarkBotError(w)
  <2> DEFINE new == [worker EXCEPT !.pc = "report_error", !.row = bots[worker.bot]]
  <2>1. Onward(worker, new)
    BY DEF Onward, Worker, Claimed
  <2>2. \/ workers' = [workers EXCEPT ![w] = new]
        \/ workers' = [workers EXCEPT ![w] = Resume(worker)]
    BY <1>6 DEF MaybeMarkBotError
  <2> HIDE DEF new
  <2>3. UNCHANGED <<ops, calls>>
    BY <1>6 DEF MaybeMarkBotError
  <2> QED BY <1>0, <2>1, <2>2, <2>3, OnwardResume
<1>7. CASE ReportBotError(w)
  BY <1>0, <1>7, OnwardResume DEF ReportBotError
<1> QED BY <1>2, <1>3, <1>4, <1>5, <1>6, <1>7, ListOut, ClaimOut DEF WorkerStep

LEMMA OutNext ==
  ASSUME OneDispatcher, OutInv, [Next]_vars
  PROVE  OutStep
<1>1. TypeInv'
  BY TypeStep DEF OutInv
<1>2. CASE UNCHANGED vars
  BY <1>1, <1>2, OutFrame, OnwardSame DEF vars
<1> QED BY <1>1, <1>2, RequestOut, ReportOut, CallOut, WorkerOutStep, BackoffOut,
           FailureOut DEF Next, Process

\* With one dispatcher no operation is claimed twice for a try, tried more
\* than MaxAttempts times or taken up after it has settled, whatever crashes.
THEOREM OutboxImplemented ==
  ASSUME OneDispatcher PROVE Spec => ImplementsOutbox
<1>1. OutInv /\ [Next]_vars => OutInv' /\ [Outbox!OutboxNext]_(Outbox!outboxVars)
  BY OutNext DEF OutStep
<1> QED BY OutInit, <1>1, PTL DEF Spec, ImplementsOutbox, Outbox!OutboxSpec

------------------------------------------------------------------------------
(* What is acknowledged is published.  A bot whose row says what no        *)
(* contract does yet is owed a publication: a request about it is under    *)
(* way or failed, or one of its operations is not settled and not beyond   *)
(* the read the document is made from.  Where nothing is owed, the copy in *)
(* the dispatcher's hand says what the row says, or else the contract does.*)

Owing == {"begin_delete", "request", "enqueue", "error"}
Open == {"pending", "processing", "failed"}
Beyond == {"upsert", "apply", "finish"}

InHand(o) == \E w \in Workers : workers[w].pc \in Beyond /\ workers[w].op = o

OwedByCall(b) == \E c \in Calls : calls[c].bot = b /\ calls[c].pc \in Owing
OwedByOp(b) ==
    \E o \in Calls : ops[o].bot = b /\ ops[o].status \in Open /\ ~InHand(o)

Publishes(w, b) == workers[w].pc = "upsert" /\ workers[w].bot = b
Says(document, row) == /\ document.desired = row.desired
                       /\ document.config = row.config

Matched(b) ==
    /\ \A w \in Workers : Publishes(w, b) => Says(workers[w].row, bots[b])
    /\ (\A w \in Workers : ~Publishes(w, b)) => Says(contracts[b], bots[b])

Settled(b) == Exists(bots[b]) => OwedByCall(b) \/ OwedByOp(b) \/ Matched(b)

\* Operations are about bots that exist; a dispatcher's is about the bot it
\* remembers, or that bot was destroyed in the meantime.
OpBot(o) == ops[o].bot \in Bots => Exists(bots[ops[o].bot])
WorkerBot(worker) ==
    worker.pc \in Claimed =>
        \/ ops[worker.op].bot = worker.bot
        \/ /\ ops[worker.op].bot = NoBot
           /\ worker.bot \in Bots
           /\ bots[worker.bot].status = "destroyed"

AckInv == /\ OutInv
          /\ \A o \in Calls : OpBot(o)
          /\ \A w \in Workers : WorkerBot(workers[w])
          /\ \A b \in Bots : Settled(b)

\* What most steps make of a row, and of a dispatcher.
Alike(row, new) ==
    \/ new = row
    \/ Exists(row) /\ Exists(new) /\ Says(new, row)
Back(worker, new) ==
    \/ new = worker
    \/ /\ worker.pc = "apply" /\ new.pc = "finish"
       /\ new.op = worker.op /\ new.bot = worker.bot
    \/ /\ new.pc \notin Beyond
       /\ new.pc \in Claimed => \/ /\ worker.pc \in Claimed
                                   /\ new.op = worker.op /\ new.bot = worker.bot
                                \/ new.bot = ops[new.op].bot

LEMMA AckInit == Init => AckInv
  BY OutInit, ControlPlaneAssumption
     DEF Init, AckInv, OpBot, WorkerBot, Settled, Exists, LiveStatuses, AbsentRow,
         NoOp, IdleWorker, Claimed

LEMMA SaveAlike ==
  ASSUME NEW stored, NEW read, NEW new, Exists(stored), Says(new, read),
         new.status = read.status \/ new.status \in LiveStatuses
  PROVE  Alike(stored, Save(stored, read, new))
  BY DEF Alike, Says, Save, Written, Exists

\* Steps that publish nothing, take up nothing and leave no row in another
\* state than it was asked for, unless the asking is still under way.
LEMMA AckFrame ==
  ASSUME OneDispatcher, AckInv, OutInv', UNCHANGED contracts,
         \A b \in Bots : \/ Alike(bots[b], bots'[b])
                         \/ /\ bots[b].status # "destroyed" /\ Exists(bots'[b])
                            /\ OwedByCall(b)',
         \A o \in Calls : ops'[o].bot = ops[o].bot,
         \A o \in Calls : ops[o].status \in Open =>
             \/ ops'[o].status \in Open
             \/ \E w \in Workers : workers[w].pc = "finish" /\ workers[w].op = o,
         \A c \in Calls : calls[c].pc \in Owing =>
             calls'[c].pc \in Owing /\ calls'[c].bot = calls[c].bot,
         \A w \in Workers : Back(workers[w], workers'[w])
  PROVE  AckInv'
<1>1. \A b \in Bots : bots[b].status = "destroyed" => bots'[b].status = "destroyed"
  BY DEF Alike, Exists, LiveStatuses
<1>2. ASSUME NEW o \in Calls PROVE OpBot(o)'
  BY DEF AckInv, OpBot, Alike
<1>3. ASSUME NEW w \in Workers PROVE WorkerBot(workers[w])'
  <2>1. workers'[w].pc \in Claimed =>
           /\ workers'[w].op \in Calls
           /\ workers[w].pc \in Claimed => workers[w].op \in Calls
    BY DEF AckInv, OutInv, TypeInv, Holds, Claimed
  <2> QED BY <1>1, <2>1 DEF AckInv, WorkerBot, Back, Claimed
<1>4. ASSUME NEW b \in Bots PROVE Settled(b)'
  <2>1. OwedByCall(b) => OwedByCall(b)'
    BY DEF OwedByCall
  <2>2. \A o \in Calls : InHand(o)' => InHand(o)
    BY DEF InHand, Back, Beyond
  <2>3. OwedByOp(b) => OwedByOp(b)'
    BY <2>2 DEF OwedByOp, InHand, Beyond
  <2>4. ASSUME NEW w \in Workers, Publishes(w, b), Exists(bots[b]), ~Publishes(w, b)'
        PROVE  OwedByOp(b)'
    <3>0. PICK o \in Calls : o = workers[w].op
      BY <2>4 DEF Publishes, AckInv, OutInv, TypeInv, Holds
    <3>1. ops[o].status = "processing"
      BY <2>4, <3>0 DEF Publishes, AckInv, OutInv, WorkerOut, Claimed
    <3>2. ops[o].bot = b
      BY <2>4, <3>0 DEF Publishes, AckInv, WorkerBot, Claimed, Exists, LiveStatuses
    <3>3. workers'[w].pc \notin Beyond
      BY <2>4 DEF Publishes, Back
    <3>4. ~InHand(o)'
      BY <3>3 DEF InHand, OneDispatcher
    <3>5. ops'[o].status \in Open
      BY <2>4, <3>1 DEF Publishes, Open, OneDispatcher
    <3>6. ops'[o].bot = b
      BY <3>2
    <3> QED BY <3>4, <3>5, <3>6 DEF OwedByOp
  <2>5. ASSUME Exists(bots'[b]), Alike(bots[b], bots'[b]), Matched(b),
               \A w \in Workers : Publishes(w, b) => Publishes(w, b)'
        PROVE  Matched(b)'
    <3>1. \A w \in Workers : Publishes(w, b)' => Publishes(w, b)
                                                  /\ workers'[w] = workers[w]
      BY DEF Publishes, Back, Beyond
    <3>2. Says(bots'[b], bots[b])
      BY <2>5 DEF Alike, Says
    <3> QED BY <2>5, <3>1, <3>2 DEF Matched, Says
  <2>6. Alike(bots[b], bots'[b]) /\ Exists(bots'[b]) => Exists(bots[b])
    BY DEF Alike
  <2> QED BY <2>1, <2>3, <2>4, <2>5, <2>6 DEF AckInv, Settled
<1> QED BY <1>2, <1>3, <1>4 DEF AckInv

LEMMA BackSame == ASSUME NEW worker PROVE Back(worker, worker)
  BY DEF Back

LEMMA BackIdle ==
  ASSUME NEW worker PROVE Back(worker, IdleWorker) /\ Back(worker, Resume(worker))
  BY DEF Back, Resume, IdleWorker, Beyond, Claimed

------------------------------------------------------------------------------
(* Requests.                                                               *)

LEMMA RequestAck ==
  ASSUME OneDispatcher, AckInv, OutInv', NEW c \in Calls, Request(c)
  PROVE  AckInv'
<1> DEFINE Sets(b) == /\ bots[b].status # "destroyed" /\ Exists(bots'[b])
                      /\ OwedByCall(b)'
<1> DEFINE Reads == /\ calls[c].pc = "ready"
                    /\ UNCHANGED contracts /\ UNCHANGED ops /\ UNCHANGED workers
                    /\ \A p \in Calls \ {c} : calls'[p] = calls[p]
<1>0. Reads /\ \A b \in Bots : bots'[b] = bots[b] \/ Sets(b)
  <2>1. ASSUME NEW b \in Bots, NEW d \in Requested, NEW f \in Configs,
               CreateBot(c, b, d, f)
        PROVE  Reads /\ \A a \in Bots : bots'[a] = bots[a] \/ Sets(a)
    <3>1. /\ bots[b].status = "absent"
          /\ bots' = [bots EXCEPT ![b] = [AbsentRow EXCEPT !.desired = d,
                                    !.status = "pending", !.config = f]]
      BY <2>1 DEF CreateBot
    <3>2. Exists(bots'[b]) /\ \A a \in Bots : a # b => bots'[a] = bots[a]
      BY <3>1 DEF AbsentRow, Exists, LiveStatuses, AckInv, OutInv, TypeInv, TypeOK
    <3>3. calls'[c].bot = b /\ calls'[c].pc = "request"
      BY <2>1 DEF CreateBot, ReadyCall, AckInv, OutInv, TypeInv, TypeOK
    <3>4. Sets(b)
      BY <3>1, <3>2, <3>3 DEF OwedByCall, Owing
    <3>5. Reads
      BY <2>1 DEF CreateBot, AckInv, OutInv, TypeInv, TypeOK
    <3> QED BY <3>2, <3>4, <3>5
  <2>2. ASSUME NEW b \in Bots, NEW kind, NEW d, NEW f, FetchBot(c, b, kind, d, f)
        PROVE  Reads /\ UNCHANGED bots
    BY <2>2 DEF FetchBot, AckInv, OutInv, TypeInv, TypeOK
  <2>3. ASSUME NEW b \in Bots, DriftReadBots(c, b) PROVE Reads /\ UNCHANGED bots
    BY <2>3 DEF DriftReadBots, AckInv, OutInv, TypeInv, TypeOK
  <2> HIDE DEF Reads, Sets
  <2> QED BY <2>1, <2>2, <2>3 DEF Request
<1>2. \A w \in Workers : Back(workers[w], workers'[w])
  BY <1>0, BackSame
<1> QED BY <1>0, <1>2, AckFrame DEF Owing, Alike

\* A save of a copy that leaves a row as it was asked for, or leaves a request
\* under way.
LEMMA SaveAck ==
  ASSUME OneDispatcher, AckInv, OutInv', NEW c \in Calls, Active(c),
         NEW permitted, NEW new, NEW next \in Owing,
         \/ next \in {"begin_delete", "request"} /\ new.status = calls[c].row.status
         \/ Says(new, calls[c].row) /\ new.status \in LiveStatuses,
         SaveCopy(c, permitted, new, next)
  PROVE  AckInv'
<1> PICK b \in Bots : b = calls[c].bot
  BY DEF AckInv, OutInv, TypeInv
<1>0. calls[c] \in Call
  BY DEF AckInv, OutInv, TypeInv, TypeOK
<1>1. /\ UNCHANGED <<contracts, ops, workers>>
      /\ calls'[c].pc \in Owing /\ calls'[c].bot = b
      /\ \A p \in Calls \ {c} : calls'[p] = calls[p]
  <2>1. calls' = [calls EXCEPT ![c].pc = next, ![c].row = new]
        \/ calls' = [calls EXCEPT ![c] = EndCall(c, "error")]
    BY DEF SaveCopy
  <2>2. EndCall(c, "error").pc = "error" /\ EndCall(c, "error").bot = b
    BY DEF EndCall, ReadyCall
  <2> QED BY <1>0, <2>1, <2>2 DEF SaveCopy, Owing, Call, AckInv, OutInv, TypeInv, TypeOK
<1>2. OwedByCall(b)'
  BY <1>1 DEF OwedByCall
<1>3. ASSUME NEW a \in Bots
      PROVE  \/ Alike(bots[a], bots'[a])
             \/ /\ bots[a].status # "destroyed" /\ Exists(bots'[a])
                /\ OwedByCall(a)'
  <2>1. CASE Exists(bots[b]) /\ bots' = [bots EXCEPT ![b] = Save(@, calls[c].row, new)]
    <3>1. CASE a # b
      BY <1>0, <2>1, <3>1 DEF Alike, AckInv, OutInv, TypeInv, TypeOK
    <3>2. CASE a = b
      <4>1. bots'[a] = Save(bots[a], calls[c].row, new)
        BY <1>0, <2>1, <3>2 DEF AckInv, OutInv, TypeInv, TypeOK
      <4>2. Exists(bots'[a]) /\ bots[a].status # "destroyed"
        BY <2>1, <3>2, <4>1 DEF Save, Written, Exists, LiveStatuses
      <4> QED BY <1>2, <3>2, <4>2
    <3> QED BY <3>1, <3>2
  <2>2. CASE UNCHANGED bots
    BY <2>2 DEF Alike
  <2> QED BY <2>1, <2>2 DEF SaveCopy
<1>4. \A w \in Workers : Back(workers[w], workers'[w])
  BY <1>1, BackSame
<1> QED BY <1>1, <1>3, <1>4, AckFrame

LEMMA EnqueueAck ==
  ASSUME OneDispatcher, AckInv, OutInv', NEW c \in Calls, EnqueueBotOperation(c)
  PROVE  AckInv'
<1> PICK b \in Bots : b = calls[c].bot
  BY DEF EnqueueBotOperation, Active, AckInv, OutInv, TypeInv
<1>0. calls[c].pc = "enqueue" /\ UNCHANGED <<bots, contracts, workers>>
  BY DEF EnqueueBotOperation
<1>1. CASE Exists(bots[b])
  <2>1. /\ ops'[c].status = "pending" /\ ops'[c].bot = b
        /\ \A p \in Calls \ {c} : ops'[p] = ops[p] /\ calls'[p] = calls[p]
    BY <1>1 DEF EnqueueBotOperation, AckInv, OutInv, TypeInv, TypeOK
  <2>2. ops[c].status = "none"
    BY <1>0 DEF AckInv, OutInv, OpOut
  <2>3. \A w \in Workers : workers[w].pc \in Claimed =>
                             workers[w].op \in Calls /\ workers[w].op # c
    BY <2>2 DEF AckInv, OutInv, TypeInv, Holds, WorkerOut, Claimed
  <2>4. OwedByOp(b)'
    BY <1>0, <2>1, <2>3 DEF OwedByOp, InHand, Beyond, Claimed, Open
  <2>5. ASSUME NEW a \in Bots, a # b PROVE Settled(a)'
    <3>1. OwedByCall(a) => OwedByCall(a)'
      BY <2>1, <2>5 DEF OwedByCall
    <3>2. OwedByOp(a) => OwedByOp(a)'
      BY <1>0, <2>1, <2>2 DEF OwedByOp, InHand, Open
    <3>3. Matched(a) => Matched(a)'
      BY <1>0 DEF Matched, Publishes
    <3> QED BY <1>0, <3>1, <3>2, <3>3 DEF AckInv, Settled
  <2>6. \A a \in Bots : Settled(a)'
    BY <2>4, <2>5 DEF Settled
  <2>7. ASSUME NEW o \in Calls PROVE OpBot(o)'
    BY <1>0, <1>1, <2>1 DEF AckInv, OpBot
  <2>8. ASSUME NEW w \in Workers PROVE WorkerBot(workers[w])'
    BY <1>0, <2>1, <2>3 DEF AckInv, WorkerBot
  <2> QED BY <2>6, <2>7, <2>8 DEF AckInv
<1>2. CASE ~Exists(bots[b])
  <2>1. UNCHANGED ops /\ calls' = [calls EXCEPT ![c] = EndCall(c, "error")]
    BY <1>2 DEF EnqueueBotOperation
  <2>2. EndCall(c, "error").pc = "error" /\ EndCall(c, "error").bot = b
    BY DEF EndCall, ReadyCall
  <2>3. \A p \in Calls : calls[p].pc \in Owing =>
           calls'[p].pc \in Owing /\ calls'[p].bot = calls[p].bot
    BY <2>1, <2>2 DEF Owing, AckInv, OutInv, TypeInv, TypeOK
  <2>4. \A w \in Workers : Back(workers[w], workers'[w])
    BY <1>0, BackSame
  <2> QED BY <1>0, <2>1, <2>3, <2>4, AckFrame DEF Alike
<1> QED BY <1>1, <1>2

LEMMA CallAck ==
  ASSUME OneDispatcher, AckInv, OutInv', NEW c \in Calls, CallStep(c)
  PROVE  AckInv'
<1> DEFINE row == calls[c].row
<1> row \in BotRow
  BY DEF AckInv, OutInv, TypeInv, TypeOK, Call
<1>1. CASE UpdateBot(c)
  <2> DEFINE set == [row EXCEPT !.desired = calls[c].desired,
                                !.config = calls[c].config]
             end == [row EXCEPT !.desired = "deleted"]
  <2>1. set.status = row.status /\ end.status = row.status
    BY DEF BotRow
  <2>2. SaveCopy(c, TRUE, set, "request") \/ SaveCopy(c, TRUE, end, "begin_delete")
    BY <1>1 DEF UpdateBot
  <2>3. Active(c) /\ "request" \in Owing /\ "begin_delete" \in Owing
    BY <1>1 DEF UpdateBot, Active, Owing
  <2> HIDE DEF set, end
  <2> QED BY <2>1, <2>2, <2>3, SaveAck
<1>2. CASE RequestBotReconcile(c)
  <2> DEFINE new == RequestReconcile(row)
  <2>1. Says(new, row) /\ new.status \in LiveStatuses
    BY DEF RequestReconcile, Says, BotRow, LiveStatuses
  <2>2. Active(c) /\ "enqueue" \in Owing
    BY <1>2 DEF RequestBotReconcile, Active, Owing
  <2> QED BY <1>2, <2>1, <2>2, SaveAck DEF RequestBotReconcile
<1>3. CASE BeginBotDelete(c)
  <2> DEFINE new == BeginDelete(row)
  <2>1. Says(new, row) /\ new.status \in LiveStatuses
    BY DEF BeginDelete, Says, BotRow, LiveStatuses
  <2>2. Active(c) /\ "enqueue" \in Owing
    BY <1>3 DEF BeginBotDelete, Active, Owing
  <2> QED BY <1>3, <2>1, <2>2, SaveAck DEF BeginBotDelete
<1>4. CASE DriftReadContracts(c) \/ DriftReadOperations(c)
  <2>1. /\ UNCHANGED <<bots, contracts, ops, workers>>
        /\ calls[c].pc \notin Owing
        /\ \A p \in Calls \ {c} : calls'[p] = calls[p]
    BY <1>4 DEF DriftReadContracts, DriftReadOperations, Owing, AckInv, OutInv,
       TypeInv, TypeOK
  <2>2. \A w \in Workers : Back(workers[w], workers'[w])
    BY <2>1, BackSame
  <2> QED BY <2>1, <2>2, AckFrame DEF Alike
<1> QED BY <1>1, <1>2, <1>3, <1>4, EnqueueAck DEF CallStep

------------------------------------------------------------------------------
(* Callbacks and observations.                                             *)

LEMMA DestroyAck ==
  ASSUME AckInv, OutInv', NEW r \in Reporters, NEW b \in Bots, b = reports[r].bot,
         Exists(bots[b]), DestroyBot(r)
  PROVE  AckInv'
<1>0. UNCHANGED <<calls, workers>>
  BY DEF DestroyBot
<1>1. /\ bots'[b].status = "destroyed"
      /\ \A a \in Bots : a # b => bots'[a] = bots[a] /\ contracts'[a] = contracts[a]
  BY DEF DestroyBot, DestroyedRow, AbsentRow, AckInv, OutInv, TypeInv, TypeOK
<1>2. \A o \in Calls : /\ ops'[o].status = ops[o].status
                       /\ ops[o].bot = b => ops'[o].bot = NoBot
                       /\ ops[o].bot # b => ops'[o].bot = ops[o].bot
  <2>1. \A o \in Calls : ops[o] \in Operation
    BY DEF AckInv, OutInv, TypeInv, TypeOK
  <2>2. \A o \in Calls : ops'[o] = IF ops[o].bot = b THEN [ops[o] EXCEPT !.bot = NoBot]
                                                     ELSE ops[o]
    BY DEF DestroyBot
  <2> QED BY <2>1, <2>2 DEF Operation
<1>3. ~Exists(bots'[b])
  BY <1>1 DEF Exists, LiveStatuses
<1>4. ASSUME NEW o \in Calls PROVE OpBot(o)'
  BY <1>1, <1>2, ControlPlaneAssumption DEF AckInv, OpBot
<1>5. ASSUME NEW w \in Workers PROVE WorkerBot(workers[w])'
  <2>1. workers[w].pc \in Claimed => workers[w].op \in Calls
    BY DEF AckInv, OutInv, TypeInv, Holds, Claimed
  <2> QED BY <1>0, <1>1, <1>2, <2>1, ControlPlaneAssumption DEF AckInv, WorkerBot
<1>6. ASSUME NEW a \in Bots PROVE Settled(a)'
  <2>1. CASE a = b
    BY <1>3, <2>1 DEF Settled
  <2>2. CASE a # b
    <3>1. OwedByCall(a) => OwedByCall(a)'
      BY <1>0 DEF OwedByCall
    <3>2. OwedByOp(a) => OwedByOp(a)'
      BY <1>0, <1>2, <2>2 DEF OwedByOp, InHand
    <3>3. Matched(a) => Matched(a)'
      BY <1>0, <1>1, <2>2 DEF Matched, Publishes
    <3> QED BY <1>1, <2>2, <3>1, <3>2, <3>3 DEF AckInv, Settled
  <2> QED BY <2>1, <2>2
<1> QED BY <1>4, <1>5, <1>6 DEF AckInv

LEMMA ReportAck ==
  ASSUME OneDispatcher, AckInv, OutInv', NEW r \in Reporters,
         Callback(r) \/ Observation(r) \/ ReportStep(r)
  PROVE  AckInv'
<1> DEFINE report == reports[r]
<1> report \in Report
  BY DEF AckInv, OutInv, TypeInv, TypeOK
<1>0. ASSUME \A b \in Bots : Alike(bots[b], bots'[b]),
             UNCHANGED <<contracts, ops, calls, workers>>
      PROVE  AckInv'
  <2>1. \A w \in Workers : Back(workers[w], workers'[w])
    BY <1>0, BackSame
  <2> QED BY <1>0, <2>1, AckFrame
<1>1. CASE Callback(r) \/ Observation(r)
  <2>1. UNCHANGED <<bots, contracts, ops, calls, workers>>
    BY <1>1 DEF Callback, FetchAndValidate, Observation, ObserveBot
  <2> QED BY <1>0, <2>1 DEF Alike
<1>2. CASE ApplyControllerBotStatus(r)
  <2> DEFINE new == ReportStatus(report.row, report.status, report.gen)
  <2>1. Says(new, report.row) /\ new.status \in LiveStatuses
    BY DEF ReportStatus, Says, Report, BotRow
  <2>2. UNCHANGED <<contracts, ops, calls, workers>>
    BY <1>2 DEF ApplyControllerBotStatus
  <2>3. \/ bots' = bots
        \/ /\ Exists(bots[report.bot])
           /\ bots' = [bots EXCEPT ![report.bot] = Save(@, report.row, new)]
    BY <1>2 DEF ApplyControllerBotStatus
  <2> HIDE DEF new
  <2>4. ASSUME NEW b \in Bots PROVE Alike(bots[b], bots'[b])
    <3>1. ASSUME b = report.bot, Exists(bots[b])
          PROVE  Alike(bots[b], Save(bots[b], report.row, new))
      BY <2>1, <3>1, SaveAlike
    <3> QED BY <2>3, <3>1 DEF Alike, AckInv, OutInv, TypeInv, TypeOK
  <2> QED BY <1>0, <2>2, <2>4
<1>3. CASE DestroyBot(r)
  <2>1. CASE UNCHANGED <<bots, contracts, ops>>
    <3>1. UNCHANGED <<calls, workers>>
      BY <1>3 DEF DestroyBot
    <3> QED BY <1>0, <2>1, <3>1 DEF Alike
  <2>2. CASE report.bot \in Bots /\ Exists(bots[report.bot])
    BY <1>3, <2>2, DestroyAck
  <2>3. CASE report.bot = NoBot
    <3>1. UNCHANGED <<bots, contracts>>
      BY <1>3, <2>3, ControlPlaneAssumption
         DEF DestroyBot, AckInv, OutInv, TypeInv, TypeOK
    <3>2. \A o \in Calls : ops[o] \in Operation
      BY DEF AckInv, OutInv, TypeInv, TypeOK
    <3>3. \A o \in Calls : ops[o].bot = NoBot => [ops[o] EXCEPT !.bot = NoBot] = ops[o]
      BY <3>2 DEF Operation
    <3>4. \/ ops' = ops
          \/ ops' = [o \in Calls |-> IF ops[o].bot = NoBot
                                     THEN [ops[o] EXCEPT !.bot = NoBot] ELSE ops[o]]
      BY <1>3, <2>3 DEF DestroyBot
    <3>5. UNCHANGED ops
      BY <3>3, <3>4 DEF AckInv, OutInv, TypeInv, TypeOK
    <3> QED BY <2>1, <3>1, <3>5
  <2> QED BY <1>3, <2>1, <2>2, <2>3 DEF DestroyBot, Report
<1> QED BY <1>1, <1>2, <1>3 DEF ReportStep

------------------------------------------------------------------------------
(* The dispatcher, and what fails.                                         *)

LEMMA FetchAck ==
  ASSUME OneDispatcher, AckInv, OutInv', NEW w \in Workers, FetchAndReconcile(w)
  PROVE  AckInv'
<1> DEFINE worker == workers[w]
<1> PICK o \in Calls : o = worker.op
  BY DEF FetchAndReconcile, AckInv, OutInv, TypeInv, Holds
<1>0. /\ worker.pc = "fetch" /\ worker \in Worker
      /\ UNCHANGED <<bots, ops, contracts, calls>>
  BY DEF FetchAndReconcile, AckInv, OutInv, TypeInv, TypeOK
<1>1. \A a \in Bots : ~\E v \in Workers : Publishes(v, a)
  BY <1>0 DEF Publishes, OneDispatcher
<1>2. \A a \in Bots : OwedByCall(a) => OwedByCall(a)'
  BY <1>0 DEF OwedByCall
<1>3. \A p \in Calls : OpBot(p)'
  BY <1>0 DEF AckInv, OpBot
<1>4. ASSUME NEW b \in Bots, b = worker.bot, Exists(bots[b]),
             workers' = [workers EXCEPT ![w].pc = "upsert", ![w].row = bots[b]]
      PROVE  AckInv'
  <2>1. /\ workers'[w].pc = "upsert" /\ workers'[w].row = bots[b]
        /\ workers'[w].bot = b /\ workers'[w].op = o
    BY <1>0, <1>4 DEF Worker, AckInv, OutInv, TypeInv, TypeOK
  <2>2. ops[o].bot = b
    BY <1>0, <1>4 DEF AckInv, WorkerBot, Claimed, Exists, LiveStatuses
  <2>3. \A v \in Workers : WorkerBot(workers[v])'
    BY <1>0, <2>1, <2>2 DEF WorkerBot, OneDispatcher
  <2>4. ASSUME NEW a \in Bots, a # b PROVE Settled(a)'
    <3>1. \A p \in Calls \ {o} : ~InHand(p)'
      BY <2>1 DEF InHand, OneDispatcher
    <3>2. OwedByOp(a) => OwedByOp(a)'
      BY <1>0, <2>2, <2>4, <3>1 DEF OwedByOp
    <3>3. Matched(a) => Matched(a)'
      BY <1>0, <1>1, <2>1, <2>4 DEF Matched, Publishes, OneDispatcher
    <3> QED BY <1>0, <1>2, <3>2, <3>3 DEF AckInv, Settled
  <2>5. Matched(b)'
    BY <1>0, <2>1 DEF Matched, Publishes, Says, OneDispatcher
  <2>6. \A a \in Bots : Settled(a)'
    BY <2>4, <2>5 DEF Settled
  <2> QED BY <1>3, <2>3, <2>6 DEF AckInv
<1>5. ASSUME ~(worker.bot \in Bots /\ Exists(bots[worker.bot])),
             workers' = [workers EXCEPT ![w].pc = "finish"]
      PROVE  AckInv'
  <2>1. /\ workers'[w].pc = "finish"
        /\ workers'[w].bot = worker.bot /\ workers'[w].op = o
    BY <1>0, <1>5 DEF Worker, AckInv, OutInv, TypeInv, TypeOK
  <2>2. ops[o].bot \notin Bots
    BY <1>0, <1>5, ControlPlaneAssumption DEF AckInv, WorkerBot, OpBot, Claimed
  <2>3. \A v \in Workers : WorkerBot(workers[v])'
    BY <1>0, <2>1 DEF AckInv, WorkerBot, OneDispatcher, Claimed
  <2>4. ASSUME NEW a \in Bots PROVE Settled(a)'
    <3>1. \A p \in Calls \ {o} : ~InHand(p)'
      BY <2>1 DEF InHand, OneDispatcher
    <3>2. OwedByOp(a) => OwedByOp(a)'
      BY <1>0, <2>2, <3>1 DEF OwedByOp
    <3>3. Matched(a) => Matched(a)'
      BY <1>0, <1>1, <2>1 DEF Matched, Publishes, OneDispatcher
    <3> QED BY <1>0, <1>2, <3>2, <3>3 DEF AckInv, Settled
  <2> QED BY <1>3, <2>3, <2>4 DEF AckInv
<1>6. ASSUME NEW new, workers' = [workers EXCEPT ![w] = new], Back(worker, new)
      PROVE  AckInv'
  <2>1. \A v \in Workers : Back(workers[v], workers'[v])
    BY <1>6, BackSame DEF AckInv, OutInv, TypeInv, TypeOK
  <2> QED BY <1>0, <2>1, AckFrame DEF Alike
<1>7. Back(worker, [worker EXCEPT !.pc = "fail"])
  BY <1>0 DEF Back, Worker, Beyond, Claimed
<1>8. \/ worker.bot \in Bots /\ Exists(bots[worker.bot])
         /\ workers' = [workers EXCEPT ![w].pc = "upsert", ![w].row = bots[worker.bot]]
      \/ /\ ~(worker.bot \in Bots /\ Exists(bots[worker.bot]))
         /\ \/ workers' = [workers EXCEPT ![w].pc = "finish"]
            \/ workers' = [workers EXCEPT ![w] = [worker EXCEPT !.pc = "fail"]]
            \/ workers' = [workers EXCEPT ![w] = IdleWorker]
  <2>1. worker.bot \in Bots \union {NoBot}
    BY <1>0 DEF Worker
  <2> QED BY <2>1, ControlPlaneAssumption DEF FetchAndReconcile
<1> QED BY <1>4, <1>5, <1>6, <1>7, <1>8, BackIdle

LEMMA PersistAck ==
  ASSUME OneDispatcher, AckInv, OutInv', NEW w \in Workers, PersistControllerContract(w)
  PROVE  AckInv'
<1> DEFINE worker == workers[w]
           contract == ContractFor(worker.row, ops[worker.op].kind)
<1> PICK b \in Bots : b = worker.bot
  BY DEF PersistControllerContract, AckInv, OutInv, TypeInv, Holds
<1>0. /\ worker.pc = "upsert" /\ worker \in Worker
      /\ UNCHANGED <<bots, ops, calls>>
  BY DEF PersistControllerContract, AckInv, OutInv, TypeInv, TypeOK
<1>1. CASE Exists(bots[b])
  <2>1. /\ contracts' = [contracts EXCEPT ![b] = contract]
        /\ workers' = [workers EXCEPT ![w].pc = "apply"]
    BY <1>1 DEF PersistControllerContract
  <2>2. Says(contract, worker.row)
    BY DEF Says, ContractFor
  <2> HIDE DEF contract
  <2>3. /\ contracts'[b] = contract
        /\ \A a \in Bots : a # b => contracts'[a] = contracts[a]
        /\ workers'[w].pc = "apply" /\ workers'[w].op = worker.op
        /\ workers'[w].bot = worker.bot
    BY <1>0, <2>1 DEF Worker, AckInv, OutInv, TypeInv, TypeOK
  <2>4. \A v \in Workers : WorkerBot(workers[v])'
    BY <1>0, <2>3 DEF AckInv, WorkerBot, Claimed, OneDispatcher
  <2>5. ASSUME NEW a \in Bots PROVE Settled(a)'
    <3>1. OwedByCall(a) => OwedByCall(a)'
      BY <1>0 DEF OwedByCall
    <3>2. \A o \in Calls : InHand(o)' => InHand(o)
      BY <1>0, <2>3 DEF InHand, OneDispatcher, Beyond
    <3>3. OwedByOp(a) => OwedByOp(a)'
      BY <1>0, <3>2 DEF OwedByOp
    <3>4. CASE a = b
      <4>1. Matched(a) => Says(worker.row, bots[a])
        BY <1>0, <3>4 DEF Matched, Publishes
      <4>2. Matched(a) => Matched(a)'
        BY <1>0, <2>2, <2>3, <3>4, <4>1 DEF Matched, Publishes, Says, OneDispatcher
      <4> QED BY <1>0, <3>1, <3>3, <4>2 DEF AckInv, Settled
    <3>5. CASE a # b
      <4>1. Matched(a) => Matched(a)'
        BY <1>0, <2>3, <3>5 DEF Matched, Publishes, OneDispatcher
      <4> QED BY <1>0, <3>1, <3>3, <4>1 DEF AckInv, Settled
    <3> QED BY <3>4, <3>5
  <2>6. \A o \in Calls : OpBot(o)'
    BY <1>0 DEF AckInv, OpBot
  <2> QED BY <2>4, <2>5, <2>6 DEF AckInv
<1>2. CASE ~Exists(bots[b])
  <2>1. UNCHANGED contracts /\ workers' = [workers EXCEPT ![w].pc = "fail"]
    BY <1>2 DEF PersistControllerContract
  <2>2. Back(worker, [worker EXCEPT !.pc = "fail"])
    BY <1>0 DEF Back, Worker, Beyond, Claimed
  <2>3. \A v \in Workers : Back(workers[v], workers'[v])
    BY <2>1, <2>2, BackSame DEF AckInv, OutInv, TypeInv, TypeOK
  <2> QED BY <1>0, <2>1, <2>3, AckFrame DEF Alike
<1> QED BY <1>1, <1>2

LEMMA WorkerAck ==
  ASSUME OneDispatcher, AckInv, OutInv', NEW w \in Workers, WorkerStep(w)
  PROVE  AckInv'
<1> DEFINE worker == workers[w]
<1> worker \in Worker
  BY DEF AckInv, OutInv, TypeInv, TypeOK
<1>0. ASSUME NEW new, workers' = [workers EXCEPT ![w] = new], Back(worker, new),
             \A b \in Bots : Alike(bots[b], bots'[b]),
             \A o \in Calls : /\ ops'[o].bot = ops[o].bot
                              /\ ops[o].status \in Open =>
                                    \/ ops'[o].status \in Open
                                    \/ worker.pc = "finish" /\ worker.op = o,
             UNCHANGED <<contracts, calls>>
      PROVE  AckInv'
  <2>1. \A v \in Workers : Back(workers[v], workers'[v])
    BY <1>0, BackSame DEF AckInv, OutInv, TypeInv, TypeOK
  <2> QED BY <1>0, <2>1, AckFrame
<1>1. ASSUME NEW new, workers' = [workers EXCEPT ![w] = new], Back(worker, new),
             UNCHANGED <<bots, ops, contracts, calls>>
      PROVE  AckInv'
  BY <1>0, <1>1 DEF Alike
<1>2. CASE ListPending(w)
  <2>1. PICK batch : workers' = [workers EXCEPT ![w] =
                         Resume([IdleWorker EXCEPT !.batch = batch])]
    BY <1>2 DEF ListPending
  <2>2. Back(worker, Resume([IdleWorker EXCEPT !.batch = batch]))
    BY DEF Back, Resume, IdleWorker, Beyond, Claimed
  <2> QED BY <1>1, <1>2, <2>1, <2>2 DEF ListPending
<1>3. CASE MarkProcessing(w)
  <2> PICK e \in worker.batch :
         /\ ops' = [ops EXCEPT ![e.op].status = "processing",
                               ![e.op].attempts = e.attempts + 1,
                               ![e.op].due = TRUE]
         /\ workers' = [workers EXCEPT ![w] =
               [IdleWorker EXCEPT !.pc = "fetch", !.batch = worker.batch \ {e},
                                  !.op = e.op, !.attempts = e.attempts + 1,
                                  !.bot = ops[e.op].bot]]
    BY <1>3, Zenon DEF MarkProcessing
  <2> DEFINE new == [IdleWorker EXCEPT !.pc = "fetch", !.batch = worker.batch \ {e},
                                       !.op = e.op, !.attempts = e.attempts + 1,
                                       !.bot = ops[e.op].bot]
  <2>1. Back(worker, new)
    BY DEF Back, IdleWorker, Beyond
  <2>2. \A o \in Calls : /\ ops'[o].bot = ops[o].bot
                         /\ ops[o].status \in Open => ops'[o].status \in Open
    BY DEF Open, Operation, AckInv, OutInv, TypeInv, TypeOK
  <2>3. UNCHANGED <<bots, contracts, calls>>
    BY <1>3 DEF MarkProcessing
  <2> HIDE DEF new
  <2>4. workers' = [workers EXCEPT ![w] = new]
    BY DEF new
  <2> QED BY <1>0, <2>1, <2>2, <2>3, <2>4 DEF Alike
<1>4. CASE ApplyBotUpdates(w)
  <2>1. worker.pc = "apply" /\ UNCHANGED <<contracts, ops, calls>>
    BY <1>4 DEF ApplyBotUpdates
  <2>2. ASSUME NEW b \in Bots PROVE Alike(bots[b], bots'[b])
    <3>1. \/ UNCHANGED bots
          \/ /\ Exists(bots[worker.bot])
             /\ bots' = [bots EXCEPT ![worker.bot].dgen = worker.row.dgen + 1]
      BY <1>4 DEF ApplyBotUpdates
    <3>2. bots[b] \in BotRow
      BY DEF AckInv, OutInv, TypeInv, TypeOK
    <3> QED BY <3>1, <3>2 DEF Alike, Exists, Says, BotRow, AckInv, OutInv, TypeInv, TypeOK
  <2>3. \/ workers' = [workers EXCEPT ![w] = [worker EXCEPT !.pc = "finish"]]
        \/ workers' = [workers EXCEPT ![w] = [worker EXCEPT !.pc = "fail"]]
    BY <1>4 DEF ApplyBotUpdates
  <2>4. /\ Back(worker, [worker EXCEPT !.pc = "finish"])
        /\ Back(worker, [worker EXCEPT !.pc = "fail"])
    BY <2>1 DEF Back, Worker, Beyond, Claimed
  <2> QED BY <1>0, <2>1, <2>2, <2>3, <2>4
<1>5. CASE MarkDispatched(w)
  <2>1. /\ worker.pc = "finish" /\ UNCHANGED <<bots, contracts, calls>>
        /\ workers' = [workers EXCEPT ![w] = Resume(worker)]
        /\ ops' = [ops EXCEPT ![worker.op].status = "dispatched",
                              ![worker.op].due = TRUE]
    BY <1>5 DEF MarkDispatched
  <2>2. \A o \in Calls : /\ ops'[o].bot = ops[o].bot
                         /\ o # worker.op => ops'[o].status = ops[o].status
    BY <2>1 DEF Operation, AckInv, OutInv, TypeInv, TypeOK
  <2> QED BY <1>0, <2>1, <2>2, BackIdle DEF Alike
<1>6. CASE HandleFailure(w)
  <2>1. /\ worker.pc = "fail" /\ UNCHANGED <<bots, contracts, calls>>
        /\ \/ workers' = [workers EXCEPT ![w] = Resume(worker)]
           \/ workers' = [workers EXCEPT ![w] = [worker EXCEPT !.pc = "mark_error"]]
        /\ \E status \in Open, due \in BOOLEAN :
              ops' = [ops EXCEPT ![worker.op].status = status, ![worker.op].due = due]
    BY <1>6 DEF HandleFailure, Open
  <2>2. \A o \in Calls : /\ ops'[o].bot = ops[o].bot
                         /\ ops[o].status \in Open => ops'[o].status \in Open
    BY <2>1 DEF Operation, AckInv, OutInv, TypeInv, TypeOK
  <2>3. Back(worker, [worker EXCEPT !.pc = "mark_error"])
    BY DEF Back, Worker, Beyond, Claimed
  <2> QED BY <1>0, <2>1, <2>2, <2>3, BackIdle DEF Alike
<1>7. CASE MaybeMarkBotError(w)
  <2> DEFINE new == [worker EXCEPT !.pc = "report_error", !.row = bots[worker.bot]]
  <2>1. Back(worker, new)
    BY DEF Back, Worker, Beyond, Claimed
  <2>2. \/ workers' = [workers EXCEPT ![w] = new]
        \/ workers' = [workers EXCEPT ![w] = Resume(worker)]
    BY <1>7 DEF MaybeMarkBotError
  <2> HIDE DEF new
  <2> QED BY <1>1, <1>7, <2>1, <2>2, BackIdle DEF MaybeMarkBotError
<1>8. CASE ReportBotError(w)
  <2> DEFINE new == [worker.row EXCEPT !.status = "error"]
  <2>1. Says(new, worker.row) /\ new.status \in LiveStatuses
    BY DEF Says, Worker, BotRow, LiveStatuses
  <2>2. \/ bots' = bots
        \/ /\ Exists(bots[worker.bot])
           /\ bots' = [bots EXCEPT ![worker.bot] = Save(@, worker.row, new)]
    BY <1>8 DEF ReportBotError
  <2> HIDE DEF new
  <2>3. ASSUME NEW b \in Bots PROVE Alike(bots[b], bots'[b])
    <3>1. ASSUME b = worker.bot, Exists(bots[b])
          PROVE  Alike(bots[b], Save(bots[b], worker.row, new))
      BY <2>1, <3>1, SaveAlike
    <3> QED BY <2>2, <3>1 DEF Alike, AckInv, OutInv, TypeInv, TypeOK
  <2> QED BY <1>0, <1>8, <2>3, BackIdle DEF ReportBotError
<1> QED BY <1>2, <1>3, <1>4, <1>5, <1>6, <1>7, <1>8, FetchAck, PersistAck DEF WorkerStep

LEMMA FailureAck ==
  ASSUME OneDispatcher, AckInv, OutInv', Failure
  PROVE  AckInv'
<1>1. UNCHANGED <<bots, ops, contracts>>
  BY DEF Failure, CallFails, AttemptFails, BookkeepingFails, DispatcherCrashes, Restart
<1>2. ASSUME NEW p \in Calls, calls[p].pc \in Owing
      PROVE  calls'[p].pc \in Owing /\ calls'[p].bot = calls[p].bot
  <2>1. EndCall(p, "error").pc = "error" /\ EndCall(p, "error").bot = calls[p].bot
    BY DEF EndCall, ReadyCall
  <2>2. ASSUME NEW c \in Calls, CallFails(c)
        PROVE  calls'[p] \in {calls[p], EndCall(p, "error")}
    BY <2>2 DEF CallFails, AckInv, OutInv, TypeInv, TypeOK
  <2>3. CASE Restart
    BY <1>2, <2>1, <2>3 DEF Restart, Owing
  <2> QED BY <1>2, <2>1, <2>2, <2>3
          DEF Failure, AttemptFails, BookkeepingFails, DispatcherCrashes, Owing
<1>3. ASSUME NEW w \in Workers PROVE Back(workers[w], workers'[w])
  <2> DEFINE Goes == Back(workers[w], workers'[w])
  <2>0. ASSUME NEW v \in Workers, NEW new, Back(workers[v], new),
               workers' = [workers EXCEPT ![v] = new]
        PROVE  Goes
    BY <2>0, BackSame DEF AckInv, OutInv, TypeInv, TypeOK
  <2>1. ASSUME NEW v \in Workers, NEW pc \in {"fail", "mark_error"},
               workers[v].pc \in Claimed,
               workers' = [workers EXCEPT ![v].pc = pc]
        PROVE  Goes
    <3>1. Back(workers[v], [workers[v] EXCEPT !.pc = pc])
      BY <2>1 DEF Back, Worker, Beyond, Claimed, AckInv, OutInv, TypeInv, TypeOK
    <3> QED BY <2>0, <2>1, <3>1
  <2>2. ASSUME NEW v \in Workers, AttemptFails(v) PROVE Goes
    BY <2>1, <2>2 DEF AttemptFails, Claimed
  <2>3. ASSUME NEW v \in Workers, BookkeepingFails(v) PROVE Goes
    <3>1. \A e : Back(workers[v],
                     Resume([workers[v] EXCEPT !.batch = workers[v].batch \ {e}]))
      BY DEF Back, Resume, IdleWorker, Beyond, Claimed
    <3>2. \/ \E e : workers' = [workers EXCEPT ![v] =
                       Resume([workers[v] EXCEPT !.batch = workers[v].batch \ {e}])]
          \/ workers[v].pc = "fail" /\ workers' = [workers EXCEPT ![v].pc = "mark_error"]
          \/ workers' = [workers EXCEPT ![v] = Resume(workers[v])]
      BY <2>3 DEF BookkeepingFails
    <3> QED BY <2>0, <2>1, <3>1, <3>2, BackIdle DEF Claimed
  <2>4. ASSUME NEW v \in Workers, DispatcherCrashes(v) PROVE Goes
    BY <2>0, <2>4, BackIdle DEF DispatcherCrashes
  <2> QED BY <2>2, <2>3, <2>4, BackSame, BackIdle DEF Failure, CallFails, Restart
<1> QED BY <1>1, <1>2, <1>3, AckFrame DEF Alike

LEMMA AckNext ==
  ASSUME OneDispatcher, AckInv, [Next]_vars
  PROVE  AckInv'
<1>1. OutInv'
  BY OutNext DEF AckInv, OutStep
<1>2. CASE UNCHANGED vars
  BY <1>1, <1>2, AckFrame, BackSame DEF vars, Alike
<1>3. ASSUME NEW o \in Calls, BackoffElapses(o) PROVE AckInv'
  <2>1. UNCHANGED <<bots, contracts, calls, workers>>
        /\ ops' = [ops EXCEPT ![o].due = TRUE]
    BY <1>3 DEF BackoffElapses
  <2>2. \A p \in Calls : /\ ops'[p].bot = ops[p].bot
                         /\ ops'[p].status = ops[p].status
    BY <2>1 DEF Operation, AckInv, OutInv, TypeInv, TypeOK
  <2> QED BY <1>1, <2>1, <2>2, AckFrame, BackSame DEF Alike
<1> QED BY <1>1, <1>2, <1>3, RequestAck, ReportAck, CallAck, WorkerAck, FailureAck
        DEF Next, Process

\* What was acknowledged and has been worked off is published: for any number of
\* bots, requests, retries and crashes, no request's change is overtaken by an
\* older copy of the row, as long as one dispatcher works the operations off.
THEOREM AcknowledgedArePublished ==
  ASSUME OneDispatcher PROVE Spec => []AcknowledgedIsPublished
<1>1. ASSUME AckInv PROVE AcknowledgedIsPublished
  <2> SUFFICES ASSUME NEW b \in Bots,
                      \A c \in Calls : calls[c].bot = b => calls[c].pc = "ok",
                      \A o \in Calls : ops[o].bot = b => ops[o].status = "dispatched",
                      NEW p \in Calls, ops[p].bot = b
               PROVE  Says(contracts[b], bots[b])
    BY DEF AcknowledgedIsPublished, Says
  <2>1. Exists(bots[b])
    BY <1>1 DEF AckInv, OpBot
  <2>2. ~OwedByCall(b) /\ ~OwedByOp(b)
    BY DEF OwedByCall, OwedByOp, Owing, Open
  <2>3. ASSUME NEW w \in Workers, Publishes(w, b) PROVE FALSE
    <3>1. workers[w].op \in Calls /\ ops[workers[w].op].status = "processing"
      BY <1>1, <2>3 DEF Publishes, AckInv, OutInv, TypeInv, Holds, WorkerOut, Claimed
    <3>2. ops[workers[w].op].bot = b
      BY <1>1, <2>1, <2>3 DEF Publishes, AckInv, WorkerBot, Claimed, Exists, LiveStatuses
    <3> QED BY <3>1, <3>2
  <2> QED BY <1>1, <2>1, <2>2, <2>3 DEF AckInv, Settled, Matched
<1>2. AckInv /\ [Next]_vars => AckInv'
  BY AckNext
<1> QED BY AckInit, <1>1, <1>2, PTL DEF Spec
==============================================================================
