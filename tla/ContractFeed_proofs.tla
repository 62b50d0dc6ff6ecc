------------------------- MODULE ContractFeed_proofs -------------------------
(***************************************************************************)
(* BotControlPlane with one dispatcher implements ContractFeed, for every  *)
(* number of bots, calls, callbacks and tries and whatever fails: the      *)
(* operator never meets contracts that its environment in BotOperator      *)
(* would not publish.  Until something fails, a generation is one document *)
(* at that.                                                                *)
(***************************************************************************)
EXTENDS BotControlPlane_proofs

------------------------------------------------------------------------------
(* A row that was not created yet has no generation.                       *)

AbsentGen == \A b \in Bots : bots[b].status = "absent" => bots[b].dgen = 0

FeedInv == GenInv /\ AbsentGen

\* A step preserves FeedInv and is one of ContractFeed, or a stutter.
FeedStep == AbsentGen' /\ [Feed!Next]_(Feed!vars)

\* What a step that is none of ContractFeed makes of a row.
Quiet(row, new) ==
    \/ new = row
    \/ /\ row.status # "destroyed"
       /\ Exists(new)
       /\ new.dgen = row.dgen

LEMMA FeedInit == Init => FeedInv /\ Feed!Init
<1> SUFFICES ASSUME Init PROVE FeedInv /\ Feed!Init
  OBVIOUS
<1>1. \A b \in Bots : bots[b].dgen = 0 /\ bots[b].status = "absent"
  BY DEF Init, AbsentRow
<1> QED BY <1>1, GenInit DEF Init, FeedInv, AbsentGen, Feed!Init

LEMMA FeedStutter ==
  ASSUME AbsentGen, UNCHANGED contracts,
         \A b \in Bots : Quiet(bots[b], bots'[b])
  PROVE  FeedStep
<1>1. ASSUME NEW b \in Bots
      PROVE  /\ bots'[b].dgen = bots[b].dgen
             /\ bots'[b].status = "destroyed" <=> bots[b].status = "destroyed"
             /\ bots'[b].status = "absent" => bots[b].status = "absent"
  BY DEF Quiet, Exists, LiveStatuses
<1>2. [b \in Bots |-> bots[b].dgen]' = [b \in Bots |-> bots[b].dgen]
  BY <1>1
<1>3. {b \in Bots : bots[b].status = "destroyed"}'
      = {b \in Bots : bots[b].status = "destroyed"}
  BY <1>1
<1>4. UNCHANGED Feed!vars
  BY <1>2, <1>3 DEF Feed!vars
<1>5. AbsentGen'
  BY <1>1 DEF AbsentGen
<1> QED BY <1>4, <1>5 DEF FeedStep

LEMMA KeptQuiet ==
  ASSUME NEW row, NEW new, Kept(row, new)
  PROVE  Quiet(row, new)
  BY DEF Kept, Quiet, Exists, LiveStatuses

------------------------------------------------------------------------------
(* The three steps of ContractFeed.                                        *)

LEMMA PersistFeed ==
  ASSUME FeedInv, NEW w \in Workers, PersistControllerContract(w)
  PROVE  FeedStep
<1> DEFINE worker == workers[w]
           b == worker.bot
           contract == ContractFor(worker.row, ops[worker.op].kind)
<1> USE DEF FeedInv
<1>0. worker.pc = "upsert" /\ UNCHANGED bots /\ b \in Bots
  BY DEF PersistControllerContract, GenInv, TypeInv, Holds
<1>1. CASE Exists(bots[b])
  <2>1. contracts' = [contracts EXCEPT ![b] = contract]
    BY <1>1 DEF PersistControllerContract
  <2>2. contract.gen = bots[b].dgen + 1
    BY <1>0, <1>1 DEF ContractFor, GenInv, WorkerGen
  <2>3. contracts'[b] = contract
    BY <1>0, <2>1 DEF GenInv, TypeInv, TypeOK
  <2>4. bots[b].status # "destroyed"
    BY <1>1 DEF Exists, LiveStatuses
  <2> HIDE DEF contract
  <2>5. contracts' = [contracts EXCEPT ![b] = contracts'[b]]
        /\ contracts'[b].gen = bots[b].dgen + 1
    BY <2>1, <2>2, <2>3
  <2>6. UNCHANGED <<[a \in Bots |-> bots[a].dgen],
                    {a \in Bots : bots[a].status = "destroyed"}>>
    BY <1>0
  <2>7. Feed!Publish(b, contracts'[b])
    BY <1>0, <2>4, <2>5, <2>6 DEF Feed!Publish
  <2>8. AbsentGen'
    BY <1>0 DEF AbsentGen
  <2> QED BY <1>0, <2>7, <2>8 DEF FeedStep, Feed!Next
<1>2. CASE ~Exists(bots[b])
  <2>1. UNCHANGED contracts
    BY <1>2 DEF PersistControllerContract
  <2> QED BY <1>0, <2>1, FeedStutter DEF Quiet
<1> QED BY <1>1, <1>2

LEMMA ApplyFeed ==
  ASSUME FeedInv, NEW w \in Workers, ApplyBotUpdates(w)
  PROVE  FeedStep
<1> DEFINE worker == workers[w]
           rec == [a \in Bots |-> bots[a].dgen]
           over == {a \in Bots : bots[a].status = "destroyed"}
<1> USE DEF FeedInv
<1> PICK b \in Bots : b = worker.bot
  BY DEF ApplyBotUpdates, GenInv, TypeInv, Holds
<1>0. worker.pc = "apply" /\ UNCHANGED contracts
  BY DEF ApplyBotUpdates
<1>1. CASE Exists(bots[b])
  <2>1. bots' = [bots EXCEPT ![b].dgen = worker.row.dgen + 1]
    BY <1>1 DEF ApplyBotUpdates
  <2>2. /\ bots[b].dgen = worker.row.dgen
        /\ contracts[b].gen = bots[b].dgen + 1
        /\ bots[b] \in BotRow
    BY <1>0, <1>1 DEF GenInv, TypeInv, TypeOK, WorkerGen
  <2>3. /\ bots'[b].dgen = bots[b].dgen + 1
        /\ bots'[b].status = bots[b].status
        /\ \A a \in Bots : a # b => bots'[a] = bots[a]
    BY <1>0, <2>1, <2>2 DEF GenInv, TypeInv, TypeOK, BotRow
  <2>4. bots[b].status \notin {"absent", "destroyed"}
    BY <1>1 DEF Exists, LiveStatuses
  <2>5. rec' = [rec EXCEPT ![b] = @ + 1]
    BY <1>0, <2>3
  <2>6. over' = over
    BY <2>3
  <2>7. b \notin over /\ contracts[b].gen = rec[b] + 1
    BY <1>0, <2>2, <2>4
  <2>8. Feed!Record(b)
    BY <1>0, <2>5, <2>6, <2>7 DEF Feed!Record
  <2>9. AbsentGen'
    BY <2>3, <2>4 DEF AbsentGen
  <2> QED BY <2>8, <2>9 DEF FeedStep, Feed!Next
<1>2. CASE ~Exists(bots[b])
  <2>1. UNCHANGED bots
    BY <1>2 DEF ApplyBotUpdates
  <2> QED BY <1>0, <2>1, FeedStutter DEF Quiet
<1> QED BY <1>1, <1>2

LEMMA DestroyFeed ==
  ASSUME FeedInv, NEW r \in Reporters, DestroyBot(r)
  PROVE  FeedStep
<1> DEFINE rec == [a \in Bots |-> bots[a].dgen]
           over == {a \in Bots : bots[a].status = "destroyed"}
<1> USE DEF FeedInv
<1>1. ASSUME NEW b \in Bots, b = reports[r].bot, Exists(bots[b])
      PROVE  FeedStep
  <2>1. /\ bots' = [bots EXCEPT ![b] = DestroyedRow]
        /\ contracts' = [contracts EXCEPT ![b] = NoContract]
    BY <1>1 DEF DestroyBot
  <2>2. /\ bots'[b].dgen = 0 /\ bots'[b].status = "destroyed"
        /\ \A a \in Bots : a # b => bots'[a] = bots[a]
    BY <2>1 DEF DestroyedRow, AbsentRow, GenInv, TypeInv, TypeOK
  <2>3. bots[b].status # "destroyed"
    BY <1>1 DEF Exists, LiveStatuses
  <2>4. rec' = [rec EXCEPT ![b] = 0]
    BY <2>2
  <2>5. over' = over \union {b}
    BY <2>2
  <2>6. b \notin over
    BY <2>3
  <2>7. Feed!Withdraw(b)
    BY <2>1, <2>4, <2>5, <2>6 DEF Feed!Withdraw
  <2>8. AbsentGen'
    BY <2>2 DEF AbsentGen
  <2> QED BY <2>7, <2>8 DEF FeedStep, Feed!Next
<1>2. CASE ~(reports[r].bot \in Bots /\ Exists(bots[reports[r].bot]))
  <2>1. UNCHANGED <<bots, contracts>>
    BY <1>2 DEF DestroyBot, GenInv, TypeInv, TypeOK
  <2> QED BY <2>1, FeedStutter DEF Quiet
<1> QED BY <1>1, <1>2

------------------------------------------------------------------------------
(* Every other step is a stutter.                                          *)

LEMMA RequestFeed ==
  ASSUME FeedInv, NEW c \in Calls, Request(c)
  PROVE  FeedStep
<1> USE DEF FeedInv
<1>1. ASSUME NEW b \in Bots, NEW d \in Requested, NEW f \in Configs,
             CreateBot(c, b, d, f)
      PROVE  FeedStep
  <2>1. /\ bots[b].status = "absent" /\ bots[b].dgen = 0
        /\ Exists(bots'[b]) /\ bots'[b].dgen = 0
        /\ \A a \in Bots : a # b => bots'[a] = bots[a]
        /\ UNCHANGED contracts
    BY <1>1 DEF CreateBot, AbsentRow, GenInv, TypeInv, TypeOK, AbsentGen,
                Exists, LiveStatuses
  <2> QED BY <2>1, FeedStutter DEF Quiet
<1>2. CASE UNCHANGED <<bots, contracts>>
  BY <1>2, FeedStutter DEF Quiet
<1> QED BY <1>1, <1>2 DEF Request, FetchBot, DriftReadBots, env

LEMMA ReportFeed ==
  ASSUME FeedInv, NEW r \in Reporters, ReportStep(r)
  PROVE  FeedStep
<1> USE DEF FeedInv
<1>1. CASE ApplyControllerBotStatus(r)
  <2>1. ASSUME NEW b \in Bots PROVE Quiet(bots[b], bots'[b])
    BY <1>1, ReportSaves DEF Quiet, Exists, LiveStatuses
  <2> QED BY <1>1, <2>1, ReportSaves, FeedStutter
<1> QED BY <1>1, DestroyFeed DEF ReportStep

LEMMA WorkerFeed ==
  ASSUME FeedInv, NEW w \in Workers, WorkerStep(w)
  PROVE  FeedStep
<1> USE DEF FeedInv
<1>1. CASE ReportBotError(w)
  BY <1>1, ErrorKept, KeptQuiet, FeedStutter DEF GenInv
<1>2. CASE UNCHANGED <<bots, contracts>>
  BY <1>2, FeedStutter DEF Quiet
<1> QED BY <1>1, <1>2, PersistFeed, ApplyFeed
        DEF WorkerStep, ListPending, MarkProcessing, FetchAndReconcile,
            MarkDispatched, HandleFailure, MaybeMarkBotError

LEMMA FeedNext ==
  ASSUME OneDispatcher, FeedInv, [Next]_vars
  PROVE  FeedInv' /\ FeedStep
<1> USE DEF FeedInv
<1>1. GenInv'
  BY GenStep
<1>2. CASE UNCHANGED <<bots, contracts>>
  BY <1>1, <1>2, FeedStutter DEF Quiet, FeedStep
<1>3. ASSUME NEW c \in Calls, CallStep(c) PROVE FeedStep
  BY <1>3, CallKept, KeptQuiet, FeedStutter DEF GenInv
<1>4. CASE \/ \E r \in Reporters : Callback(r) \/ Observation(r)
           \/ \E o \in Calls : BackoffElapses(o)
           \/ Failure \/ UNCHANGED vars
  BY <1>2, <1>4 DEF vars, Callback, FetchAndValidate, Observation, ObserveBot,
     BackoffElapses, Failure, CallFails, AttemptFails, BookkeepingFails,
     DispatcherCrashes, Restart
<1>5. FeedStep
  BY <1>3, <1>4, RequestFeed, ReportFeed, WorkerFeed DEF Next, Process
<1> QED BY <1>1, <1>5 DEF FeedStep

\* With one dispatcher the control plane keeps what the operator is promised,
\* whatever requests and callbacks race and wherever an attempt fails: a
\* document is published under the generation after the recorded one, replaced
\* only until it is recorded, and gone for good with its bot.
THEOREM FeedImplemented ==
  ASSUME OneDispatcher PROVE Spec => ImplementsFeed
<1>1. FeedInv /\ [Next]_vars => FeedInv' /\ [Feed!Next]_(Feed!vars)
  BY FeedNext DEF FeedStep
<1> QED BY FeedInit, <1>1, PTL DEF Spec, ImplementsFeed, Feed!Spec

------------------------------------------------------------------------------
(* One generation, one document.  A document that is ahead of the recorded *)
(* generation is about to be recorded, as long as nothing has failed: so   *)
(* its number is not published again before that, and never after.        *)

Ahead(b) == contracts[b].gen > bots[b].dgen
Recording(b) == \E w \in Workers : workers[w].pc = "apply" /\ workers[w].bot = b

NamesInv == (errors = 0 /\ faults = 0) => \A b \in Bots : Ahead(b) => Recording(b)

\* What a step does to documents while nothing fails.
NamesOne ==
    \A b \in Bots :
         (/\ errors' = 0 /\ faults' = 0
          /\ contracts[b].gen > 0 /\ contracts'[b].gen = contracts[b].gen)
         => contracts'[b] = contracts[b]

LEMMA NamesInit == Init => NamesInv
  BY DEF Init, NamesInv, Ahead, NoContract, AbsentRow

\* Steps that publish nothing, and leave a worker alone that records.
LEMMA NamesFrame ==
  ASSUME NamesInv, UNCHANGED <<contracts, errors, faults>>,
         \A b \in Bots : bots'[b].dgen = bots[b].dgen,
         \A w \in Workers : workers[w].pc = "apply" => workers'[w] = workers[w]
  PROVE  NamesInv' /\ NamesOne
  BY DEF NamesInv, Ahead, Recording, NamesOne

LEMMA PersistNames ==
  ASSUME OneDispatcher, FeedInv, NamesInv,
         NEW w \in Workers, PersistControllerContract(w)
  PROVE  NamesInv' /\ NamesOne
<1> DEFINE worker == workers[w]
           contract == ContractFor(worker.row, ops[worker.op].kind)
<1> USE DEF FeedInv
<1> PICK b \in Bots : b = worker.bot
  BY DEF PersistControllerContract, GenInv, TypeInv, Holds
<1>0. worker.pc = "upsert" /\ UNCHANGED <<bots, errors, faults>>
  BY DEF PersistControllerContract, env
<1>1. CASE Exists(bots[b])
  <2>1. /\ contracts' = [contracts EXCEPT ![b] = contract]
        /\ workers' = [workers EXCEPT ![w].pc = "apply"]
    BY <1>1 DEF PersistControllerContract
  <2>2. contract.gen = bots[b].dgen + 1
    BY <1>0, <1>1 DEF ContractFor, GenInv, WorkerGen
  <2> HIDE DEF contract
  <2>3. contracts'[b] = contract /\ \A a \in Bots : a # b => contracts'[a] = contracts[a]
    BY <2>1 DEF GenInv, TypeInv, TypeOK
  <2>4. workers'[w].pc = "apply" /\ workers'[w].bot = b
    BY <2>1 DEF GenInv, TypeInv, TypeOK, Worker
  <2>5. \A a \in Bots : ~Recording(a)
    BY <1>0 DEF OneDispatcher, Recording
  <2>6. (errors = 0 /\ faults = 0) => \A a \in Bots : ~Ahead(a)
    BY <2>5 DEF NamesInv
  <2>7. NamesInv'
    BY <1>0, <2>3, <2>4, <2>6 DEF NamesInv, Ahead, Recording
  <2>8. NamesOne
    <3>1. bots[b].dgen \in Nat
      BY DEF GenInv, TypeInv, TypeOK, BotRow
    <3>2. ASSUME errors = 0, faults = 0, contracts[b].gen = contract.gen
          PROVE  FALSE
      BY <2>2, <2>6, <3>1, <3>2 DEF Ahead
    <3> QED BY <1>0, <2>3, <3>2 DEF NamesOne
  <2> QED BY <2>7, <2>8
<1>2. CASE ~Exists(bots[b])
  <2>1. UNCHANGED contracts /\ workers' = [workers EXCEPT ![w].pc = "fail"]
    BY <1>2 DEF PersistControllerContract
  <2> QED BY <1>0, <2>1, NamesFrame DEF GenInv, TypeInv, TypeOK
<1> QED BY <1>1, <1>2

LEMMA ApplyNames ==
  ASSUME OneDispatcher, FeedInv, NamesInv, TypeOK',
         NEW w \in Workers, ApplyBotUpdates(w)
  PROVE  NamesInv' /\ NamesOne
<1> DEFINE worker == workers[w]
<1> USE DEF FeedInv
<1> PICK b \in Bots : b = worker.bot
  BY DEF ApplyBotUpdates, GenInv, TypeInv, Holds
<1>0. worker.pc = "apply" /\ UNCHANGED <<contracts, errors, faults>>
  BY DEF ApplyBotUpdates, env
<1>1. NamesOne
  BY <1>0 DEF NamesOne
<1>2. (errors = 0 /\ faults = 0) => \A a \in Bots : a # b => ~Ahead(a)
  BY DEF NamesInv, Recording, OneDispatcher
<1>3. /\ \A a \in Bots : a # b => bots'[a] = bots[a]
      /\ contracts[b].gen <= bots'[b].dgen
  <2>1. bots[b] \in BotRow /\ bots[b].dgen \in Nat
    BY DEF GenInv, TypeInv, TypeOK, BotRow
  <2>2. CASE Exists(bots[b])
    <3>1. bots' = [bots EXCEPT ![b].dgen = worker.row.dgen + 1]
      BY <2>2 DEF ApplyBotUpdates
    <3>2. contracts[b].gen = worker.row.dgen + 1 /\ worker.row.dgen \in Nat
      BY <1>0, <2>2, <2>1 DEF GenInv, WorkerGen
    <3>3. bots'[b].dgen = worker.row.dgen + 1
      BY <3>1, <2>1 DEF GenInv, TypeInv, TypeOK, BotRow
    <3> QED BY <3>1, <3>2, <3>3 DEF GenInv, TypeInv, TypeOK
  <2>3. CASE ~Exists(bots[b])
    <3>1. UNCHANGED bots /\ contracts[b].gen = 0
      BY <2>3 DEF ApplyBotUpdates, GenInv, RowGen
    <3> QED BY <3>1, <2>1
  <2> QED BY <2>2, <2>3
<1>4. \A a \in Bots : bots'[a].dgen \in Nat /\ contracts[a].gen \in Nat
  <2>1. bots' \in [Bots -> BotRow] /\ contracts \in [Bots -> Contract]
    BY DEF TypeOK, GenInv, TypeInv
  <2> QED BY <2>1 DEF BotRow, Contract
<1>5. NamesInv'
  BY <1>0, <1>2, <1>3, <1>4 DEF NamesInv, Ahead
<1> QED BY <1>1, <1>5

LEMMA DestroyNames ==
  ASSUME FeedInv, NamesInv, NEW r \in Reporters, DestroyBot(r)
  PROVE  NamesInv' /\ NamesOne
<1> USE DEF FeedInv
<1>0. UNCHANGED <<workers, errors, faults>>
  BY DEF DestroyBot, env
<1>1. ASSUME NEW b \in Bots, b = reports[r].bot, Exists(bots[b])
      PROVE  NamesInv' /\ NamesOne
  <2>1. /\ bots' = [bots EXCEPT ![b] = DestroyedRow]
        /\ contracts' = [contracts EXCEPT ![b] = NoContract]
    BY <1>1 DEF DestroyBot
  <2>2. /\ bots'[b].dgen = 0 /\ contracts'[b].gen = 0
        /\ \A a \in Bots : a # b => bots'[a] = bots[a] /\ contracts'[a] = contracts[a]
    BY <2>1 DEF DestroyedRow, AbsentRow, NoContract, GenInv, TypeInv, TypeOK
  <2> QED BY <1>0, <2>2 DEF NamesInv, NamesOne, Ahead, Recording
<1>2. CASE ~(reports[r].bot \in Bots /\ Exists(bots[reports[r].bot]))
  <2>1. UNCHANGED <<bots, contracts>>
    BY <1>2 DEF DestroyBot, GenInv, TypeInv, TypeOK
  <2> QED BY <1>0, <2>1, NamesFrame
<1> QED BY <1>1, <1>2

LEMMA NamesStep ==
  ASSUME OneDispatcher, FeedInv, NamesInv, [Next]_vars
  PROVE  NamesInv' /\ NamesOne
<1> USE DEF FeedInv
<1>1. ASSUME NEW c \in Calls, Request(c) PROVE NamesInv' /\ NamesOne
  <2>1. ASSUME NEW b \in Bots, NEW d \in Requested, NEW f \in Configs,
               CreateBot(c, b, d, f)
        PROVE  NamesInv' /\ NamesOne
    <3>1. /\ \A a \in Bots : bots'[a].dgen = bots[a].dgen
          /\ UNCHANGED <<contracts, workers, errors, faults>>
      <4>1. /\ bots[b].dgen = 0
            /\ bots' = [bots EXCEPT ![b] = [AbsentRow EXCEPT !.desired = d,
                                      !.status = "pending", !.config = f]]
        BY <2>1 DEF CreateBot, AbsentGen
      <4>2. bots'[b].dgen = 0 /\ \A a \in Bots : a # b => bots'[a] = bots[a]
        <5>1. bots'[b] = [AbsentRow EXCEPT !.desired = d, !.status = "pending",
                                           !.config = f]
          BY <4>1 DEF GenInv, TypeInv, TypeOK
        <5>2. \A a \in Bots : a # b => bots'[a] = bots[a]
          BY <4>1 DEF GenInv, TypeInv, TypeOK
        <5> QED BY <5>1, <5>2 DEF AbsentRow
      <4>3. \A a \in Bots : bots'[a].dgen = bots[a].dgen
        BY <4>1, <4>2
      <4>4. UNCHANGED contracts /\ UNCHANGED workers
            /\ UNCHANGED errors /\ UNCHANGED faults
        BY <2>1 DEF CreateBot, env
      <4> QED BY <4>3, <4>4
    <3> QED BY <3>1, NamesFrame
  <2>2. ASSUME NEW b \in Bots, NEW kind, NEW d, NEW f, FetchBot(c, b, kind, d, f)
        PROVE  NamesInv' /\ NamesOne
    <3>1. UNCHANGED <<bots, contracts, workers, errors, faults>>
      BY <2>2 DEF FetchBot, env
    <3> QED BY <3>1, NamesFrame
  <2>3. ASSUME NEW b \in Bots, DriftReadBots(c, b) PROVE NamesInv' /\ NamesOne
    <3>1. UNCHANGED <<bots, contracts, workers, errors, faults>>
      BY <2>3 DEF DriftReadBots, env
    <3> QED BY <3>1, NamesFrame
  <2> QED BY <1>1, <2>1, <2>2, <2>3 DEF Request
<1>2. ASSUME NEW c \in Calls, CallStep(c) PROVE NamesInv' /\ NamesOne
  <2>1. UNCHANGED <<contracts, workers>> /\ \A b \in Bots : Kept(bots[b], bots'[b])
    BY <1>2, CallKept DEF GenInv
  <2>2. UNCHANGED <<errors, faults>>
    BY <1>2 DEF CallStep, UpdateBot, RequestBotReconcile, BeginBotDelete, SaveCopy,
       EnqueueBotOperation, DriftReadContracts, DriftReadOperations, env
  <2> QED BY <2>1, <2>2, NamesFrame DEF Kept
<1>3. ASSUME NEW r \in Reporters, Callback(r) \/ Observation(r)
      PROVE  NamesInv' /\ NamesOne
  <2>1. UNCHANGED <<bots, contracts, workers, errors, faults>>
    BY <1>3 DEF Callback, FetchAndValidate, Observation, ObserveBot, env
  <2> QED BY <2>1, NamesFrame
<1>4. ASSUME NEW r \in Reporters, ReportStep(r) PROVE NamesInv' /\ NamesOne
  <2>1. CASE ApplyControllerBotStatus(r)
    <3>1. UNCHANGED <<contracts, workers, errors, faults>>
      BY <2>1 DEF ApplyControllerBotStatus, env
    <3>2. \A b \in Bots : bots'[b].dgen = bots[b].dgen
      BY <2>1, ReportSaves
    <3> QED BY <3>1, <3>2, NamesFrame
  <2> QED BY <1>4, <2>1, DestroyNames DEF ReportStep
<1>5. ASSUME NEW w \in Workers, WorkerStep(w) PROVE NamesInv' /\ NamesOne
  <2>1. CASE ReportBotError(w)
    <3>1. \A b \in Bots : Kept(bots[b], bots'[b])
      BY <2>1, ErrorKept DEF GenInv
    <3>2. /\ UNCHANGED <<contracts, errors, faults>>
          /\ workers[w].pc = "report_error"
          /\ workers' = [workers EXCEPT ![w] = Resume(@)]
      BY <2>1 DEF ReportBotError, env
    <3> QED BY <3>1, <3>2, NamesFrame DEF Kept, GenInv, TypeInv, TypeOK
  <2>2. CASE ListPending(w) \/ MarkProcessing(w) \/ FetchAndReconcile(w)
             \/ MarkDispatched(w) \/ HandleFailure(w) \/ MaybeMarkBotError(w)
    <3>1. /\ UNCHANGED <<bots, contracts, errors, faults>>
          /\ workers[w].pc # "apply"
          /\ \A v \in Workers : v # w => workers'[v] = workers[v]
      <4> DEFINE Elsewhere == /\ UNCHANGED <<bots, contracts, errors, faults>>
                             /\ workers[w].pc # "apply"
                             /\ \A v \in Workers : v # w => workers'[v] = workers[v]
      <4>1. ListPending(w) => Elsewhere
        BY DEF ListPending, env, GenInv, TypeInv, TypeOK
      <4>2. MarkProcessing(w) => Elsewhere
        BY DEF MarkProcessing, env, GenInv, TypeInv, TypeOK
      <4>3. FetchAndReconcile(w) => Elsewhere
        BY DEF FetchAndReconcile, env, GenInv, TypeInv, TypeOK
      <4>4. MarkDispatched(w) => Elsewhere
        BY DEF MarkDispatched, env, GenInv, TypeInv, TypeOK
      <4>5. HandleFailure(w) => Elsewhere
        BY DEF HandleFailure, env, GenInv, TypeInv, TypeOK
      <4>6. MaybeMarkBotError(w) => Elsewhere
        BY DEF MaybeMarkBotError, env, GenInv, TypeInv, TypeOK
      <4> QED BY <2>2, <4>1, <4>2, <4>3, <4>4, <4>5, <4>6
    <3> QED BY <3>1, NamesFrame
  <2>3. TypeOK'
    BY GenStep DEF GenInv, TypeInv
  <2> QED BY <1>5, <2>1, <2>2, <2>3, PersistNames, ApplyNames DEF WorkerStep
<1>6. ASSUME NEW o \in Calls, BackoffElapses(o) PROVE NamesInv' /\ NamesOne
  BY <1>6, NamesFrame DEF BackoffElapses, env
<1>7. CASE Failure
  <2>1. errors \in Nat /\ faults \in Nat
    BY ControlPlaneAssumption DEF GenInv, TypeInv, TypeOK
  <2>2. errors' = errors + 1 \/ faults' = faults + 1
    BY <1>7 DEF Failure, CallFails, AttemptFails, BookkeepingFails, DispatcherCrashes,
       Restart, Fault
  <2>3. ~(errors' = 0 /\ faults' = 0)
    BY <2>1, <2>2
  <2> QED BY <2>3 DEF NamesInv, NamesOne
<1>8. CASE UNCHANGED vars
  BY <1>8, NamesFrame DEF vars
<1> QED BY <1>1, <1>2, <1>3, <1>4, <1>5, <1>6, <1>7, <1>8 DEF Next, Process

\* Until a statement or a process fails, a generation names one document, for
\* any number of bots and requests: the operator that applied a generation has
\* nothing to learn from reading it again.
THEOREM OneDocumentPerGeneration ==
  ASSUME OneDispatcher PROVE Spec => GenerationNamesDocument
<1>1. FeedInv /\ [Next]_vars => FeedInv'
  BY FeedNext
<1>2. FeedInv /\ NamesInv /\ [Next]_vars => NamesInv' /\ NamesOne
  BY NamesStep
<1>3. NamesOne =>
        [\A b \in Bots :
         (/\ errors' = 0 /\ faults' = 0
          /\ contracts[b].gen > 0 /\ contracts'[b].gen = contracts[b].gen)
         => contracts'[b] = contracts[b]]_vars
  BY DEF NamesOne
<1> QED BY FeedInit, NamesInit, <1>1, <1>2, <1>3, PTL
        DEF Spec, GenerationNamesDocument
==============================================================================
