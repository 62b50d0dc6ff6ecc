--------------------------- MODULE BotControlPlane ---------------------------
(***************************************************************************)
(* The control plane's bot lifecycle: three tables and the processes that  *)
(* read and write them without a transaction around what they do.          *)
(*                                                                         *)
(*   bots       one row per bot (BotRecord)                                *)
(*   ops        the outbox: one bot_reconcile_operations row per accepted  *)
(*              request, named here after the call that inserted it        *)
(*   contracts  the desired-state document last published for a bot        *)
(*                                                                         *)
(*   Calls      API requests and image-drift passes; each runs once and    *)
(*              inserts at most one operation                              *)
(*   Reporters  handlers of the status callback                            *)
(*   Workers    BotOperationDispatcher processes; the deployment runs one  *)
(*                                                                         *)
(* Every database statement is a step of its own, so any two processes     *)
(* interleave between two of them.  A fault is a statement that fails, a   *)
(* dispatcher that crashes, or a restart of the whole node.                *)
(***************************************************************************)
EXTENDS BotRecord, FiniteSets

CONSTANTS Bots, Calls, Reporters, Workers,
          Images,        \* default workload images a release can configure
          Pinned,        \* the configs that name an image of their own
          NoBot,         \* held by a process that is about no bot
          NoCall,        \* held by a worker that has no operation
          Kinds,         \* the kinds of calls made, of CallKinds
          Observations,  \* the statuses the operator reports
          MaxAttempts,   \* dispatcher setting max_attempts
          BatchSize,     \* dispatcher setting batch_size
          MaxErrors,     \* bound on the attempts that fail in a behaviour
          MaxFaults      \* bound on its other faults

ASSUME ControlPlaneAssumption ==
    /\ MaxAttempts \in Nat \ {0}
    /\ BatchSize \in Nat \ {0}
    /\ MaxErrors \in Nat
    /\ MaxFaults \in Nat
    /\ Kinds \subseteq {"create", "update", "delete", "drift"}
    /\ Pinned \subseteq Configs
    /\ Observations \subseteq ReportTargets \union {"deleted"}
    /\ NoBot \notin Bots
    /\ NoCall \notin Calls

VARIABLES bots, ops, contracts,
          calls, reports, workers,
          clock,     \* inserted_at of the next operation
          image,     \* the default image the running release configures
          errors,    \* attempts that failed so far
          faults     \* other faults so far

vars == <<bots, ops, contracts, calls, reports, workers, clock, image,
          errors, faults>>
\* What only faults and restarts change.
env == <<image, errors, faults>>

------------------------------------------------------------------------------
(* What the tables and the processes hold.                                 *)

OpKinds == {"apply", "delete"}
OpStatuses == {"none", "pending", "processing", "dispatched", "failed"}

\* An outbox row; `due` says whether its next_attempt_at has passed.
Operation == [status : OpStatuses, bot : Bots \union {NoBot}, kind : OpKinds,
              attempts : Nat, due : BOOLEAN, at : Nat]
NoOp == [status |-> "none", bot |-> NoBot, kind |-> "apply",
         attempts |-> 0, due |-> FALSE, at |-> 0]

WorkloadImages == Images \union Configs \union {NoConfig}

\* A published contract; generation 0 stands for none.
Contract == [gen : Nat, kind : OpKinds, desired : DesiredStates,
             config : Configs \union {NoConfig}, image : WorkloadImages]
NoContract == [gen |-> 0, kind |-> "apply", desired |-> "running",
               config |-> NoConfig, image |-> NoConfig]

\* The image the reconciler gives a bot's workload.
DesiredImage(row) == IF row.config \in Pinned THEN row.config ELSE image

CallKinds == {"create", "update", "delete", "drift"}

\* A request or drift pass: what it does next, the bot, its copy of the row,
\* what it is to set, and (drift only) the image of the contract it read.
Call == [pc : {"ready", "update", "begin_delete", "drift_contract",
               "drift_ops", "request", "enqueue", "ok", "error"},
         kind : CallKinds,
         bot : Bots \union {NoBot}, row : BotRow,
         desired : DesiredStates, config : Configs \union {NoConfig},
         image : WorkloadImages]
ReadyCall == [pc |-> "ready", kind |-> "create", bot |-> NoBot,
              row |-> AbsentRow, desired |-> "running", config |-> NoConfig,
              image |-> NoConfig]

\* A status callback: the row it validated against, the status and generation.
Report == [pc : {"idle", "save", "destroy", "ok", "error"},
           bot : Bots \union {NoBot}, row : BotRow,
           status : LiveStatuses, gen : Nat \union {NoGen}]
IdleReport == [pc |-> "idle", bot |-> NoBot, row |-> AbsentRow,
               status |-> "pending", gen |-> NoGen]

\* A dispatcher: the operations it listed and has not reached, each with the
\* attempts it read; the one in hand; the bot copy its document is built from
\* or, once the operation failed for good, the one "error" is reported on.
Worker == [pc : {"idle", "next", "fetch", "upsert", "apply", "finish",
                 "fail", "mark_error", "report_error"},
           batch : SUBSET [op : Calls, attempts : Nat],
           op : Calls \union {NoCall}, attempts : Nat,
           bot : Bots \union {NoBot}, row : BotRow]
IdleWorker == [pc |-> "idle", batch |-> {}, op |-> NoCall, attempts |-> 0,
               bot |-> NoBot, row |-> AbsentRow]

\* A call and a callback that ended forget everything but how, and (a call)
\* what they were about.
EndCall(c, result) ==
    [ReadyCall EXCEPT !.pc = result, !.kind = calls[c].kind,
                      !.bot = calls[c].bot]
EndReport(result) == [IdleReport EXCEPT !.pc = result]

Active(c) == calls[c].pc \notin {"ready", "ok", "error"}

Init ==
    /\ bots = [b \in Bots |-> AbsentRow]
    /\ ops = [c \in Calls |-> NoOp]
    /\ contracts = [b \in Bots |-> NoContract]
    /\ calls = [c \in Calls |-> ReadyCall]
    /\ reports = [r \in Reporters |-> IdleReport]
    /\ workers = [w \in Workers |-> IdleWorker]
    /\ clock = 0
    /\ image \in Images
    /\ errors = 0
    /\ faults = 0

------------------------------------------------------------------------------
(* API requests.  Each holds the row it fetched and goes on changing that  *)
(* copy; the rows written in between are not read again.                   *)

\* create_bot inserts the row; the next two statements are Request, Enqueue.
CreateBot(c, b, desired, config) ==
    LET row == [AbsentRow EXCEPT !.desired = desired, !.status = "pending",
                                 !.config = config]
    IN  /\ calls[c].pc = "ready"
        /\ bots[b].status = "absent"
        /\ bots' = [bots EXCEPT ![b] = row]
        /\ calls' = [calls EXCEPT ![c] =
               [ReadyCall EXCEPT !.pc = "request", !.bot = b, !.row = row]]
        /\ UNCHANGED <<ops, contracts, reports, workers, clock, env>>

\* update_bot_for_user and delete_bot_for_user fetch the bot.
FetchBot(c, b, kind, desired, config) ==
    /\ calls[c].pc = "ready"
    /\ Exists(bots[b])
    /\ calls' = [calls EXCEPT ![c] =
           [ReadyCall EXCEPT !.pc = "update", !.kind = kind, !.bot = b,
                             !.row = bots[b], !.desired = desired,
                             !.config = config]]
    /\ UNCHANGED <<bots, ops, contracts, reports, workers, clock, env>>

\* Mutant: every field of the copy is written, changed or not.
SaveWholeCopy(c, permitted, new, next) ==
    LET call == calls[c] IN
    /\ permitted /\ Exists(bots[call.bot])
    /\ bots' = [bots EXCEPT ![call.bot] = new]
    /\ calls' = [calls EXCEPT ![c].pc = next, ![c].row = new]
    /\ UNCHANGED <<ops, contracts, reports, workers, clock, env>>

\* One update of the bot row by call c: it goes through if the copy's status
\* permits it and the row is still there, and the call keeps the new copy.
SaveCopy(c, permitted, new, next) ==
    LET call == calls[c] IN
    /\ IF permitted /\ Exists(bots[call.bot])
       THEN /\ bots' = [bots EXCEPT ![call.bot] = Save(@, call.row, new)]
            /\ calls' = [calls EXCEPT ![c].pc = next, ![c].row = new]
       ELSE /\ calls' = [calls EXCEPT ![c] = EndCall(c, "error")]
            /\ UNCHANGED bots
    /\ UNCHANGED <<ops, contracts, reports, workers, clock, env>>

\* update_bot: the state machine does not look at this one.
UpdateBot(c) ==
    LET call == calls[c] IN
    /\ call.pc = "update"
    /\ \/ /\ call.kind = "update"
          /\ SaveCopy(c, TRUE, [call.row EXCEPT !.desired = call.desired,
                                                !.config = call.config],
                      "request")
       \/ /\ call.kind = "delete"
          /\ SaveCopy(c, TRUE, [call.row EXCEPT !.desired = "deleted"],
                      "begin_delete")

RequestBotReconcile(c) ==
    LET row == calls[c].row IN
    /\ calls[c].pc = "request"
    /\ SaveCopy(c, row.status \in Reconcilable, RequestReconcile(row), "enqueue")

BeginBotDelete(c) ==
    LET row == calls[c].row IN
    /\ calls[c].pc = "begin_delete"
    /\ SaveCopy(c, row.status \in Reconcilable, BeginDelete(row), "enqueue")

\* Mutant: a request is answered by an operation that is still under way.
EnqueueUnlessBusy(c) ==
    LET call == calls[c]
        busy == \E o \in Calls : /\ ops[o].bot = call.bot
                                 /\ ops[o].status \in {"pending", "processing"}
    IN  /\ call.pc = "enqueue"
        /\ ops' = IF busy THEN ops ELSE
              [ops EXCEPT ![c] = [NoOp EXCEPT !.status = "pending",
                                              !.bot = call.bot, !.due = TRUE]]
        /\ calls' = [calls EXCEPT ![c] = EndCall(c, "ok")]
        /\ UNCHANGED <<bots, contracts, reports, workers, clock, env>>

\* enqueue_bot_operation: the foreign key to the bot makes it fail when the
\* row is gone.
EnqueueBotOperation(c) ==
    LET call == calls[c] IN
    /\ call.pc = "enqueue"
    /\ IF Exists(bots[call.bot])
       THEN /\ ops' = [ops EXCEPT ![c] =
                  [status |-> "pending", bot |-> call.bot,
                   kind |-> IF call.kind = "delete" THEN "delete" ELSE "apply",
                   attempts |-> 0, due |-> TRUE, at |-> clock]]
            /\ clock' = clock + 1
            /\ calls' = [calls EXCEPT ![c] = EndCall(c, "ok")]
       ELSE /\ calls' = [calls EXCEPT ![c] = EndCall(c, "error")]
            /\ UNCHANGED <<ops, clock>>
    /\ UNCHANGED <<bots, contracts, reports, workers, env>>

------------------------------------------------------------------------------
(* The image-drift pass reads bots, contracts and operations one after the *)
(* other and asks for a reconcile of the bots whose contract names another *)
(* image than the one now wanted.  A call is what the pass does for a bot. *)

DriftReadBots(c, b) ==
    /\ calls[c].pc = "ready"
    /\ Exists(bots[b])
    /\ bots[b].desired # "deleted"
    /\ calls' = [calls EXCEPT ![c] =
           [ReadyCall EXCEPT !.pc = "drift_contract", !.kind = "drift",
                             !.bot = b, !.row = bots[b]]]
    /\ UNCHANGED <<bots, ops, contracts, reports, workers, clock, env>>

DriftReadContracts(c) ==
    /\ calls[c].pc = "drift_contract"
    /\ calls' = [calls EXCEPT ![c].pc = "drift_ops",
                              ![c].image = contracts[calls[c].bot].image]
    /\ UNCHANGED <<bots, ops, contracts, reports, workers, clock, env>>

DriftReadOperations(c) ==
    LET call == calls[c]
        busy == \E o \in Calls : /\ ops[o].bot = call.bot
                                 /\ ops[o].status \in {"pending", "processing"}
    IN  /\ call.pc = "drift_ops"
        /\ calls' = [calls EXCEPT ![c] =
               IF busy \/ call.image = DesiredImage(call.row)
               THEN EndCall(c, "ok") ELSE [call EXCEPT !.pc = "request"]]
        /\ UNCHANGED <<bots, ops, contracts, reports, workers, clock, env>>

CallStep(c) ==
    \/ UpdateBot(c)
    \/ RequestBotReconcile(c)
    \/ BeginBotDelete(c)
    \/ EnqueueBotOperation(c)
    \/ DriftReadContracts(c)
    \/ DriftReadOperations(c)

------------------------------------------------------------------------------
(* The status callback: fetch and validate, then write.                    *)

\* Mutant: the generation is not compared with the bot's.
FetchWithoutValidating(r, b, status, gen) ==
    /\ reports[r].pc \in {"idle", "ok", "error"}
    /\ Exists(bots[b])
    /\ reports' = [reports EXCEPT ![r] =
           [pc |-> "save", bot |-> b, row |-> bots[b],
            status |-> status, gen |-> gen]]
    /\ UNCHANGED <<bots, ops, contracts, calls, workers, clock, env>>

FetchAndValidate(r, b, status, gen) ==
    /\ reports[r].pc \in {"idle", "ok", "error"}
    /\ reports' = [reports EXCEPT ![r] =
           IF Exists(bots[b]) /\ gen \in {NoGen, bots[b].dgen}
           THEN [pc |-> "save", bot |-> b, row |-> bots[b],
                 status |-> status, gen |-> gen]
           ELSE EndReport("error")]
    /\ UNCHANGED <<bots, ops, contracts, calls, workers, clock, env>>

ApplyControllerBotStatus(r) ==
    LET report == reports[r]
        final  == report.status = "deleted"
        permitted == /\ Exists(bots[report.bot])
                     /\ IF final THEN report.row.status = "deleting"
                        ELSE /\ report.row.status \in Reportable
                             /\ report.status \in ReportTargets
    IN  /\ report.pc = "save"
        /\ IF permitted
           THEN /\ bots' = [bots EXCEPT ![report.bot] =
                      Save(@, report.row,
                           ReportStatus(report.row, report.status, report.gen))]
                /\ reports' = [reports EXCEPT ![r] =
                      IF final THEN [report EXCEPT !.pc = "destroy"]
                      ELSE EndReport("ok")]
           ELSE /\ reports' = [reports EXCEPT ![r] = EndReport("error")]
                /\ UNCHANGED bots
        /\ UNCHANGED <<ops, contracts, calls, workers, clock, env>>

\* Mutant: the contract stays published when its bot is destroyed.
DestroyRowOnly(r) ==
    LET b == reports[r].bot IN
    /\ reports[r].pc = "destroy"
    /\ Exists(bots[b])
    /\ bots' = [bots EXCEPT ![b] = DestroyedRow]
    /\ reports' = [reports EXCEPT ![r] = EndReport("ok")]
    /\ UNCHANGED <<ops, contracts, calls, workers, clock, env>>

\* The bot's contract goes with the row; its operations lose their bot_id.
DestroyBot(r) ==
    LET b == reports[r].bot IN
    /\ reports[r].pc = "destroy"
    /\ IF Exists(bots[b])
       THEN /\ bots' = [bots EXCEPT ![b] = DestroyedRow]
            /\ contracts' = [contracts EXCEPT ![b] = NoContract]
            /\ ops' = [c \in Calls |-> IF ops[c].bot = b
                                       THEN [ops[c] EXCEPT !.bot = NoBot]
                                       ELSE ops[c]]
            /\ reports' = [reports EXCEPT ![r] = EndReport("ok")]
       ELSE /\ reports' = [reports EXCEPT ![r] = EndReport("error")]
            /\ UNCHANGED <<bots, contracts, ops>>
    /\ UNCHANGED <<calls, workers, clock, env>>

ReportStep(r) == ApplyControllerBotStatus(r) \/ DestroyBot(r)

\* The status observer lists the bots that have a Deployment and are not to be
\* deleted, asks Kubernetes, and reports on its copy of the row: a callback that
\* has no generation to validate and none to write.
ObserverTargets == {"running", "stopped", "degraded", "reconciling", "deleting",
                    "error"}

ObserveBot(r, b, status) ==
    /\ reports[r].pc \in {"idle", "ok", "error"}
    /\ Exists(bots[b]) /\ bots[b].desired # "deleted"
    /\ reports' = [reports EXCEPT ![r] =
           [pc |-> "save", bot |-> b, row |-> bots[b],
            status |-> status, gen |-> bots[b].ogen]]
    /\ UNCHANGED <<bots, ops, contracts, calls, workers, clock, env>>

------------------------------------------------------------------------------
(* BotOperationDispatcher.                                                 *)

\* The n operations of S inserted first.
Oldest(S, n) == {o \in S : Cardinality({p \in S : ops[p].at < ops[o].at}) < n}

Pending == {o \in Calls : ops[o].status = "pending"}
Eligible(S) == {o \in S : ops[o].due}

\* What a worker does after an operation: take the next one it listed.
Resume(worker) ==
    [IdleWorker EXCEPT !.pc = IF worker.batch = {} THEN "idle" ELSE "next",
                       !.batch = worker.batch]

\* dispatch_pending lists the oldest pending operations, five batches of
\* them, and takes one batch of those whose backoff is over.
ListPending(w) ==
    LET listed == Oldest(Eligible(Oldest(Pending, 5 * BatchSize)), BatchSize)
        batch  == {[op |-> o, attempts |-> ops[o].attempts] : o \in listed}
    IN  /\ workers[w].pc = "idle"
        /\ workers' = [workers EXCEPT ![w] =
               Resume([IdleWorker EXCEPT !.batch = batch])]
        /\ UNCHANGED <<bots, ops, contracts, calls, reports, clock, env>>

\* mark_processing writes the row whatever became of it since it was listed.
MarkProcessing(w) ==
    \E e \in workers[w].batch :
        /\ workers[w].pc = "next"
        /\ \A f \in workers[w].batch : ops[e.op].at <= ops[f.op].at
        /\ ops' = [ops EXCEPT ![e.op].status = "processing",
                              ![e.op].attempts = e.attempts + 1,
                              ![e.op].due = TRUE]
        /\ workers' = [workers EXCEPT ![w] =
               [IdleWorker EXCEPT !.pc = "fetch", !.batch = workers[w].batch \ {e},
                                  !.op = e.op, !.attempts = e.attempts + 1,
                                  !.bot = ops[e.op].bot]]
        /\ UNCHANGED <<bots, contracts, calls, reports, clock, env>>

\* fetch_bot, and the reconciler's document built from it.  Without the bot's
\* row the copy in the payload stands in; it has no generation to add one to,
\* no contract can refer to it, and an operation without a bot writes none: the
\* dispatcher crashes, fails the operation or dispatches it as it is.
FetchAndReconcile(w) ==
    LET worker == workers[w]
        found  == worker.bot # NoBot /\ Exists(bots[worker.bot])
    IN  /\ worker.pc = "fetch"
        /\ \/ /\ found
              /\ workers' = [workers EXCEPT ![w].pc = "upsert",
                                            ![w].row = bots[worker.bot]]
           \/ /\ ~found
              /\ \/ \E pc \in {"finish", "fail"} :
                        workers' = [workers EXCEPT ![w].pc = pc]
                 \/ workers' = [workers EXCEPT ![w] = IdleWorker]
        /\ UNCHANGED <<bots, ops, contracts, calls, reports, clock, env>>

\* Mutants: the generation is not increased; the observed one is taken for it.
ContractUnbumped(row, kind) ==
    [gen |-> row.dgen, kind |-> kind, desired |-> row.desired,
     config |-> row.config, image |-> DesiredImage(row)]
ContractFromObserved(row, kind) ==
    [ContractUnbumped(row, kind) EXCEPT !.gen = row.ogen]

\* The document reconcile/2 makes of the copy it was given.
ContractFor(row, kind) ==
    [gen |-> row.dgen + 1, kind |-> kind, desired |-> row.desired,
     config |-> row.config, image |-> DesiredImage(row)]

PersistControllerContract(w) ==
    LET worker == workers[w] IN
    /\ worker.pc = "upsert"
    /\ IF Exists(bots[worker.bot])
       THEN /\ contracts' = [contracts EXCEPT ![worker.bot] =
                  ContractFor(worker.row, ops[worker.op].kind)]
            /\ workers' = [workers EXCEPT ![w].pc = "apply"]
       ELSE /\ workers' = [workers EXCEPT ![w].pc = "fail"]
            /\ UNCHANGED contracts
    /\ UNCHANGED <<bots, ops, calls, reports, clock, env>>

\* Mutant: the generation is increased once more when it is recorded.
ApplyAnotherGeneration(w) ==
    LET worker == workers[w] IN
    /\ worker.pc = "apply"
    /\ Exists(bots[worker.bot])
    /\ bots' = [bots EXCEPT ![worker.bot].dgen = worker.row.dgen + 2]
    /\ workers' = [workers EXCEPT ![w].pc = "finish"]
    /\ UNCHANGED <<ops, contracts, calls, reports, clock, env>>

\* apply_bot_updates reads the row again and writes the generation to it.  Only
\* dispatchers write that field, so nothing but the row's end can come between:
\* gone before the read the updates are skipped, after it the attempt fails.
ApplyBotUpdates(w) ==
    LET worker == workers[w] IN
    /\ worker.pc = "apply"
    /\ \/ /\ Exists(bots[worker.bot])
          /\ bots' = [bots EXCEPT ![worker.bot].dgen = worker.row.dgen + 1]
          /\ workers' = [workers EXCEPT ![w].pc = "finish"]
       \/ /\ ~Exists(bots[worker.bot])
          /\ \E pc \in {"finish", "fail"} :
                 workers' = [workers EXCEPT ![w].pc = pc]
          /\ UNCHANGED bots
    /\ UNCHANGED <<ops, contracts, calls, reports, clock, env>>

MarkDispatched(w) ==
    /\ workers[w].pc = "finish"
    /\ ops' = [ops EXCEPT ![workers[w].op].status = "dispatched",
                          ![workers[w].op].due = TRUE]
    /\ workers' = [workers EXCEPT ![w] = Resume(@)]
    /\ UNCHANGED <<bots, contracts, calls, reports, clock, env>>

\* Mutants: one try too many; a requeue that leaves the row "processing".
RetryOnceMore(w) ==
    LET worker == workers[w] IN
    /\ worker.pc = "fail"
    /\ ops' = [ops EXCEPT ![worker.op].status =
                 IF worker.attempts > MaxAttempts THEN "failed" ELSE "pending"]
    /\ workers' = [workers EXCEPT ![w] = Resume(@)]
    /\ UNCHANGED <<bots, contracts, calls, reports, clock, env>>
RequeueWithoutStatus(w) ==
    /\ workers[w].pc = "fail"
    /\ ops' = [ops EXCEPT ![workers[w].op].due = FALSE]
    /\ workers' = [workers EXCEPT ![w] = Resume(@)]
    /\ UNCHANGED <<bots, contracts, calls, reports, clock, env>>

\* handle_failure gives up on the last attempt and requeues before that.
HandleFailure(w) ==
    LET worker == workers[w] IN
    /\ worker.pc = "fail"
    /\ IF worker.attempts >= MaxAttempts
       THEN /\ ops' = [ops EXCEPT ![worker.op].status = "failed",
                                  ![worker.op].due = TRUE]
            /\ workers' = [workers EXCEPT ![w].pc = "mark_error"]
       ELSE /\ ops' = [ops EXCEPT ![worker.op].status = "pending",
                                  ![worker.op].due = FALSE]
            /\ workers' = [workers EXCEPT ![w] = Resume(@)]
    /\ UNCHANGED <<bots, contracts, calls, reports, clock, env>>

\* maybe_mark_bot_error reads the row, if there is one, and reports "error" on
\* the copy; nobody looks at what becomes of it.
MaybeMarkBotError(w) ==
    LET worker == workers[w] IN
    /\ worker.pc = "mark_error"
    /\ workers' = [workers EXCEPT ![w] =
           IF worker.bot # NoBot /\ Exists(bots[worker.bot])
           THEN [@ EXCEPT !.pc = "report_error", !.row = bots[worker.bot]]
           ELSE Resume(@)]
    /\ UNCHANGED <<bots, ops, contracts, calls, reports, clock, env>>

ReportBotError(w) ==
    LET worker == workers[w]
        copy   == worker.row
    IN  /\ worker.pc = "report_error"
        /\ workers' = [workers EXCEPT ![w] = Resume(@)]
        /\ bots' = IF copy.status \in Reportable /\ Exists(bots[worker.bot])
                   THEN [bots EXCEPT ![worker.bot] =
                            Save(@, copy, [copy EXCEPT !.status = "error"])]
                   ELSE bots
        /\ UNCHANGED <<ops, contracts, calls, reports, clock, env>>

WorkerStep(w) ==
    \/ ListPending(w)
    \/ MarkProcessing(w)
    \/ FetchAndReconcile(w)
    \/ PersistControllerContract(w)
    \/ ApplyBotUpdates(w)
    \/ MarkDispatched(w)
    \/ HandleFailure(w)
    \/ MaybeMarkBotError(w)
    \/ ReportBotError(w)

\* A requeued operation's next_attempt_at passes.
BackoffElapses(o) ==
    /\ ops[o].status = "pending" /\ ~ops[o].due
    /\ ops' = [ops EXCEPT ![o].due = TRUE]
    /\ UNCHANGED <<bots, contracts, calls, reports, workers, clock, env>>

------------------------------------------------------------------------------
(* Faults.                                                                 *)

Fault == faults < MaxFaults /\ faults' = faults + 1

\* A statement of a request fails, or the process serving it dies.
CallFails(c) ==
    /\ Fault
    /\ Active(c)
    /\ calls' = [calls EXCEPT ![c] = EndCall(c, "error")]
    /\ UNCHANGED <<bots, ops, contracts, reports, workers, clock, image,
                   errors>>

\* A statement of an attempt fails, and with it the attempt.
AttemptFails(w) ==
    /\ errors < MaxErrors
    /\ errors' = errors + 1
    /\ workers[w].pc \in {"fetch", "upsert", "apply", "finish"}
    /\ workers' = [workers EXCEPT ![w].pc = "fail"]
    /\ UNCHANGED <<bots, ops, contracts, calls, reports, clock, image, faults>>

\* A statement around the attempt fails: mark_processing, and the operation is
\* skipped, or one whose result nobody looks at, and the rows stay as they are.
BookkeepingFails(w) ==
    LET worker == workers[w] IN
    /\ Fault
    /\ \/ /\ worker.pc = "next"
          /\ \E e \in worker.batch :
                workers' = [workers EXCEPT ![w] =
                    Resume([worker EXCEPT !.batch = worker.batch \ {e}])]
       \/ /\ worker.pc = "fail" /\ worker.attempts >= MaxAttempts
          /\ workers' = [workers EXCEPT ![w].pc = "mark_error"]
       \/ /\ \/ worker.pc = "fail" /\ worker.attempts < MaxAttempts
             \/ worker.pc \in {"mark_error", "report_error"}
          /\ workers' = [workers EXCEPT ![w] = Resume(@)]
    /\ UNCHANGED <<bots, ops, contracts, calls, reports, clock, image,
                   errors>>

\* The dispatcher crashes; its supervisor starts a new one.
DispatcherCrashes(w) ==
    /\ Fault
    /\ workers[w].pc # "idle"
    /\ workers' = [workers EXCEPT ![w] = IdleWorker]
    /\ UNCHANGED <<bots, ops, contracts, calls, reports, clock, image,
                   errors>>

\* The node stops and starts, perhaps as a release with another image.
Restart ==
    /\ Fault
    /\ image' \in Images
    /\ calls' = [c \in Calls |-> IF Active(c)
                                 THEN EndCall(c, "error")
                                 ELSE calls[c]]
    /\ reports' = [r \in Reporters |-> IdleReport]
    /\ workers' = [w \in Workers |-> IdleWorker]
    /\ UNCHANGED <<bots, ops, contracts, clock, errors>>

------------------------------------------------------------------------------
\* The states a user may ask for.
Requested == {"running", "stopped"}

Request(c) ==
    \E b \in Bots :
        \/ /\ "create" \in Kinds
           /\ \E d \in Requested, f \in Configs : CreateBot(c, b, d, f)
        \/ /\ "update" \in Kinds
           /\ \E d \in Requested, f \in Configs :
                 FetchBot(c, b, "update", d, f)
        \/ /\ "delete" \in Kinds
           /\ FetchBot(c, b, "delete", "deleted", bots[b].config)
        \/ /\ "drift" \in Kinds
           /\ DriftReadBots(c, b)

\* The callback as the operator calls it: about a bot it has a contract for,
\* with a generation that has been published, or with none.
Callback(r) ==
    \E b \in Bots, status \in Observations :
        /\ contracts[b].gen > 0
        /\ \E gen \in {NoGen} \union 1..contracts[b].gen :
               FetchAndValidate(r, b, status, gen)

\* A bot's Deployment is named with its first contract.
Observation(r) ==
    \E b \in Bots, status \in Observations \intersect ObserverTargets :
        contracts[b].gen > 0 /\ ObserveBot(r, b, status)

Process ==
    \/ \E c \in Calls : CallStep(c)
    \/ \E r \in Reporters : ReportStep(r)
    \/ \E w \in Workers : WorkerStep(w)
    \/ \E o \in Calls : BackoffElapses(o)

Failure ==
    \/ \E c \in Calls : CallFails(c)
    \/ \E w \in Workers : AttemptFails(w) \/ BookkeepingFails(w)
                           \/ DispatcherCrashes(w)
    \/ Restart

Next ==
    \/ \E c \in Calls : Request(c)
    \/ \E r \in Reporters : Callback(r) \/ Observation(r)
    \/ Process
    \/ Failure

Spec == Init /\ [][Next]_vars

\* Requests and callbacks run to their end, the dispatcher polls and works
\* through what it listed, and a backoff is over at some time.
Fairness ==
    /\ \A c \in Calls : WF_vars(CallStep(c)) /\ WF_vars(BackoffElapses(c))
    /\ \A r \in Reporters : WF_vars(ReportStep(r))
    /\ \A w \in Workers : WF_vars(WorkerStep(w))

FairSpec == Spec /\ Fairness

------------------------------------------------------------------------------
(* The tables and the processes hold values of their types.                *)
TypeOK ==
    /\ bots \in [Bots -> BotRow]
    /\ ops \in [Calls -> Operation]
    /\ contracts \in [Bots -> Contract]
    /\ calls \in [Calls -> Call]
    /\ reports \in [Reporters -> Report]
    /\ workers \in [Workers -> Worker]
    /\ clock \in Nat
    /\ image \in Images
    /\ errors \in 0..MaxErrors
    /\ faults \in 0..MaxFaults

\* A bot's published generation is the one its row records, or the next: the
\* dispatcher publishes first and records after, and it may fail in between.
\* A callback that echoes the published generation is refused only then.
GenerationFence ==
    \A b \in Bots : contracts[b].gen > 0 =>
        contracts[b].gen \in {bots[b].dgen, bots[b].dgen + 1}

\* No callback, however late it is written, makes a row say that a generation
\* was observed that is not yet the bot's desired one.
ObservedNotAhead ==
    \A b \in Bots : Exists(bots[b]) => bots[b].ogen <= bots[b].dgen

\* With one dispatcher the outbox rows behave as OperationOutbox says: no
\* row is claimed twice for a try, and no settled row is taken up again.
Outbox == INSTANCE OperationOutbox
    WITH Ids <- Calls,
         status <- [o \in Calls |-> ops[o].status],
         attempts <- [o \in Calls |-> ops[o].attempts]

ImplementsOutbox == Outbox!OutboxSpec

\* With one dispatcher the contracts and the rows keep what the operator is
\* promised: every document is published under the generation after the recorded
\* one, is replaced only until it is recorded, and goes with its bot for good.
Feed == INSTANCE ContractFeed
    WITH NoDoc <- NoContract,
         published <- contracts,
         recorded <- [b \in Bots |-> bots[b].dgen],
         ended <- {b \in Bots : bots[b].status = "destroyed"}

ImplementsFeed == Feed!Spec

\* Acknowledged requests are published: once all that was asked about a bot
\* was answered "ok" and the operations it left are dispatched, the contract
\* says what the row says, in whatever order requests and retries ran.
AcknowledgedIsPublished ==
    \A b \in Bots :
        (/\ \A c \in Calls : calls[c].bot = b => calls[c].pc = "ok"
         /\ \A o \in Calls : ops[o].bot = b => ops[o].status = "dispatched"
         /\ \E o \in Calls : ops[o].bot = b)
        => /\ contracts[b].desired = bots[b].desired
           /\ contracts[b].config = bots[b].config

\* Until something fails, a published generation is one document: what the
\* operator did for it, and reported of it, is not of another.  It takes a
\* fault between publishing a generation and recording it to publish the number
\* again.
GenerationNamesDocument ==
    [][\A b \in Bots :
         (/\ errors' = 0 /\ faults' = 0
          /\ contracts[b].gen > 0 /\ contracts'[b].gen = contracts[b].gen)
         => contracts'[b] = contracts[b]]_vars

\* Generations count up: neither the row's nor the contract's goes back while
\* the bot exists.
GenerationsCountUp ==
    [][\A b \in Bots : (Exists(bots[b]) /\ Exists(bots'[b])) =>
         /\ bots'[b].dgen >= bots[b].dgen
         /\ contracts'[b].gen >= contracts[b].gen]_vars

\* The README: operations are durable and the dispatcher drains them.
EveryOperationSettles ==
    \A o \in Calls : ops[o].status = "pending"
        ~> ops[o].status \in {"dispatched", "failed"}

\* The API test of deletion: the contract a delete operation publishes has
\* desiredState "deleted".
DeletePublishesDeleted ==
    \A b \in Bots : contracts[b].kind = "delete" =>
        contracts[b].desired = "deleted"
==============================================================================
