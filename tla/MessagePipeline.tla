--------------------------- MODULE MessagePipeline ---------------------------
(***************************************************************************)
(* How a tenant's events become rows.  A durable JetStream consumer hands  *)
(* messages to the batch processors of one or more pods.  A processor      *)
(* works through its batch one message at a time, each read and each write *)
(* of the database a step of its own and none in a transaction with the    *)
(* next, and acknowledges the batch at its end: the messages that went     *)
(* well are done with, the others are delivered again.  So is a message    *)
(* that was not acknowledged within the consumer's ack wait, even if it is *)
(* only waiting in a slow batch, and what a processor held when it died.   *)
(*                                                                         *)
(* A chat message finds or makes the rows of its author, channel, message, *)
(* mention and the observation of who mentions whom, and a new observation *)
(* adds one to the weight of that relationship.  The chats here are of one *)
(* author in one channel and mention the same actor, so that they meet in  *)
(* every row they can.  An ingest command is recorded, claimed, executed   *)
(* and marked as succeeded or failed.                                      *)
(***************************************************************************)
EXTENDS Naturals, Sequences, FiniteSets

CONSTANTS Chats, Commands,                 \* the messages of the stream
          ChatHandlers, CommandHandlers,   \* a pod has one of each
          NoMessage,
          BatchSize, MaxFaults             \* bounds

ASSUME PipelineAssumption ==
    /\ Chats \cap Commands = {} /\ ChatHandlers \cap CommandHandlers = {}
    /\ NoMessage \notin Chats \union Commands
    /\ BatchSize \in Nat \ {0}
    /\ MaxFaults \in Nat

VARIABLES stream,     \* where the consumer is with a message
          handlers,
          rows,       \* the rows that exist of the chats
          weight,     \* of the relationship; 0: no such row
          edge,       \* the weight its edge in the graph has
          commands,   \* the status of a command's row; "none": no such row
          ran,        \* how often a command was executed
          faults

tables == <<rows, weight, edge, commands, ran>>
vars == <<stream, handlers, rows, weight, edge, commands, ran, faults>>

Messages == Chats \union Commands
Handlers == ChatHandlers \union CommandHandlers
Kind(h) == IF h \in ChatHandlers THEN Chats ELSE Commands
------------------------------------------------------------------------------
(* Rows: of the author, the channel and the mentioned actor the chats have *)
(* the same.                                                               *)

Steps == <<"author", "channel", "message", "mentioned", "mention", "observation">>
SharedRows == {"author", "channel", "mentioned"}
RowOf(i, m) == [row |-> Steps[i],
                of  |-> IF Steps[i] \in SharedRows THEN NoMessage ELSE m]
RowsOf(m) == {RowOf(i, m) : i \in DOMAIN Steps}
Rows == UNION {RowsOf(m) : m \in Chats}
Observations == {r \in rows : r.row = "observation"}

CommandStatuses == {"none", "received", "claimed", "succeeded", "failed"}

\* A batch processor: the messages it still has to handle and those that went
\* well or failed; the message at hand, where it is with it, which row it is
\* at, and the weight it read or wrote.
PCs == {"idle", "read", "create", "weigh", "write", "sync",
        "find", "record", "claim", "run", "finish"}
Handler == [todo : Seq(Messages), good : SUBSET Messages, bad : SUBSET Messages,
            cur : Messages \union {NoMessage}, pc : PCs,
            at : DOMAIN Steps, seen : Nat]
NoBatch == [todo |-> <<>>, good |-> {}, bad |-> {}, cur |-> NoMessage,
            pc |-> "idle", at |-> 1, seen |-> 0]

Init ==
    /\ stream = [m \in Messages |-> "stored"]
    /\ handlers = [h \in Handlers |-> NoBatch]
    /\ rows = {}
    /\ weight = 0
    /\ edge = 0
    /\ commands = [c \in Commands |-> "none"]
    /\ ran = [c \in Commands |-> 0]
    /\ faults = 0

------------------------------------------------------------------------------
(* The consumer and the batches.                                           *)

\* A batch is handed over when it is full or its time is up, and only then.
Open(h) == /\ handlers[h].pc = "idle"
           /\ handlers[h].good \union handlers[h].bad = {}
           /\ Len(handlers[h].todo) < BatchSize

Deliver(h, m) ==
    /\ m \in Kind(h)
    /\ stream[m] = "stored"
    /\ Open(h)
    /\ stream' = [stream EXCEPT ![m] = "pending"]
    /\ handlers' = [handlers EXCEPT ![h].todo = Append(@, m)]
    /\ UNCHANGED <<tables, faults>>

\* The ack wait runs out, whatever became of the message.
AckWait(m) ==
    /\ stream[m] = "pending"
    /\ stream' = [stream EXCEPT ![m] = "stored"]
    /\ UNCHANGED <<handlers, tables, faults>>

Begin(h) ==
    /\ handlers[h].pc = "idle"
    /\ handlers[h].todo # <<>>
    /\ handlers' = [handlers EXCEPT
           ![h].todo = Tail(@),
           ![h].cur = Head(handlers[h].todo),
           ![h].pc = IF h \in ChatHandlers THEN "read" ELSE "find"]
    /\ UNCHANGED <<stream, tables, faults>>

\* How the handler h leaves the message at hand.
At(h, pc) == handlers[h].pc = pc
Leave(h, good, bad) ==
    handlers' = [handlers EXCEPT
        ![h] = [NoBatch EXCEPT !.todo = handlers[h].todo,
                               !.good = handlers[h].good \union good,
                               !.bad = handlers[h].bad \union bad]]
Good(h) == Leave(h, {handlers[h].cur}, {})
Bad(h)  == Leave(h, {}, {handlers[h].cur})
Goto(h, pc) == handlers' = [handlers EXCEPT ![h].pc = pc]

\* Mutant: a failed message is acknowledged with its batch.
AckWholeBatch(h) ==
    LET hd == handlers[h] IN
    /\ hd.pc = "idle" /\ hd.todo = <<>> /\ hd.good \union hd.bad # {}
    /\ stream' = [m \in Messages |->
           IF m \in hd.good \union hd.bad THEN "acked" ELSE stream[m]]
    /\ handlers' = [handlers EXCEPT ![h] = NoBatch]
    /\ UNCHANGED <<tables, faults>>

\* A message is acknowledged whichever of its deliveries is.
EndBatch(h) ==
    LET hd == handlers[h] IN
    /\ hd.pc = "idle" /\ hd.todo = <<>> /\ hd.good \union hd.bad # {}
    /\ stream' = [m \in Messages |->
           IF m \in hd.good THEN "acked"
           ELSE IF m \in hd.bad /\ stream[m] # "acked" THEN "stored"
           ELSE stream[m]]
    /\ handlers' = [handlers EXCEPT ![h] = NoBatch]
    /\ UNCHANGED <<tables, faults>>

------------------------------------------------------------------------------
(* A chat message: persist_chat_message.                                   *)

\* Mutant: an observation counts whether or not it is new.
CountEveryTime(h, created) ==
    LET last == handlers[h].at = Len(Steps) IN
    handlers' = [handlers EXCEPT
        ![h].at = IF last THEN @ ELSE @ + 1,
        ![h].pc = IF last THEN "weigh" ELSE "read"]

\* Mutant: the handler moves on from its last row too.
PastTheLastRow(h, created) ==
    LET last == handlers[h].at = Len(Steps) IN
    handlers' = [handlers EXCEPT
        ![h].at = @ + 1,
        ![h].pc = IF ~last THEN "read" ELSE IF created THEN "weigh" ELSE "sync"]

\* The handler is done with the row it was at; a new observation counts.
NextRow(h, created) ==
    LET last == handlers[h].at = Len(Steps) IN
    handlers' = [handlers EXCEPT
        ![h].at = IF last THEN @ ELSE @ + 1,
        ![h].pc = IF ~last THEN "read" ELSE IF created THEN "weigh" ELSE "sync"]

Read(h) ==
    /\ At(h, "read")
    /\ IF RowOf(handlers[h].at, handlers[h].cur) \in rows
       THEN NextRow(h, FALSE)
       ELSE Goto(h, "create")
    /\ UNCHANGED <<stream, tables, faults>>

\* Every kind of row has a unique index: a row that someone else made since it
\* was looked for fails the message.
Create(h) ==
    LET row == RowOf(handlers[h].at, handlers[h].cur) IN
    /\ At(h, "create")
    /\ IF row \in rows
       THEN Bad(h) /\ UNCHANGED rows
       ELSE NextRow(h, TRUE) /\ rows' = rows \union {row}
    /\ UNCHANGED <<stream, weight, edge, commands, ran, faults>>

Weigh(h) ==
    /\ At(h, "weigh")
    /\ handlers' = [handlers EXCEPT ![h].pc = "write", ![h].seen = weight]
    /\ UNCHANGED <<stream, tables, faults>>

\* Mutant: the relationship handed on to the graph is the one that was read.
HandOnAsRead(h) ==
    LET seen == handlers[h].seen IN
    /\ At(h, "write")
    /\ IF seen = 0 /\ weight > 0
       THEN Bad(h) /\ UNCHANGED weight
       ELSE weight' = seen + 1 /\ Goto(h, "sync")
    /\ UNCHANGED <<stream, rows, edge, commands, ran, faults>>

\* upsert_relationship writes one more than it read.
WriteWeight(h) ==
    LET seen == handlers[h].seen IN
    /\ At(h, "write")
    /\ IF seen = 0 /\ weight > 0
       THEN Bad(h) /\ UNCHANGED weight
       ELSE /\ weight' = seen + 1
            /\ handlers' = [handlers EXCEPT ![h].pc = "sync", ![h].seen = seen + 1]
    /\ UNCHANGED <<stream, rows, edge, commands, ran, faults>>

\* The graph gets the relationships this delivery wrote.  What follows, from
\* embeddings to conversations, cannot fail the message.
Sync(h) ==
    /\ At(h, "sync")
    /\ edge' = IF handlers[h].seen > 0 THEN handlers[h].seen ELSE edge
    /\ Good(h)
    /\ UNCHANGED <<stream, rows, weight, commands, ran, faults>>

------------------------------------------------------------------------------
(* An ingest command: Commands.handle_envelope.                            *)

\* Mutant: a claimed command is taken for one that still has to run.
RunClaimed(h) ==
    LET status == commands[handlers[h].cur] IN
    /\ At(h, "find")
    /\ \/ status = "none" /\ Goto(h, "record")
       \/ status \in {"received", "claimed"} /\ Goto(h, "claim")
       \/ status \in {"succeeded", "failed"} /\ Good(h)
    /\ UNCHANGED <<stream, tables, faults>>

\* Mutant: a claimed command fails, to be tried again.
RefuseClaimed(h) ==
    LET status == commands[handlers[h].cur] IN
    /\ At(h, "find")
    /\ \/ status = "none" /\ Goto(h, "record")
       \/ status = "received" /\ Goto(h, "claim")
       \/ status = "claimed" /\ Bad(h)
       \/ status \in {"succeeded", "failed"} /\ Good(h)
    /\ UNCHANGED <<stream, tables, faults>>

\* Mutant: a failed command is tried again.
RetryFailed(h) ==
    LET status == commands[handlers[h].cur] IN
    /\ At(h, "find")
    /\ \/ status = "none" /\ Goto(h, "record")
       \/ status \in {"received", "failed"} /\ Goto(h, "claim")
       \/ status \in {"claimed", "succeeded"} /\ Good(h)
    /\ UNCHANGED <<stream, tables, faults>>

Find(h) ==
    LET status == commands[handlers[h].cur] IN
    /\ At(h, "find")
    /\ \/ status = "none" /\ Goto(h, "record")
       \/ status = "received" /\ Goto(h, "claim")
       \/ status \in {"claimed", "succeeded", "failed"} /\ Good(h)
    /\ UNCHANGED <<stream, tables, faults>>

Record(h) ==
    LET c == handlers[h].cur IN
    /\ At(h, "record")
    /\ IF commands[c] # "none"
       THEN Bad(h) /\ UNCHANGED commands
       ELSE Goto(h, "claim") /\ commands' = [commands EXCEPT ![c] = "received"]
    /\ UNCHANGED <<stream, rows, weight, edge, ran, faults>>

\* Mutant: who claims a command takes it for handled.
ClaimedIsHandled(h) ==
    /\ At(h, "claim")
    /\ Good(h)
    /\ commands' = [commands EXCEPT ![handlers[h].cur] = "claimed"]
    /\ UNCHANGED <<stream, rows, weight, edge, ran, faults>>

Claim(h) ==
    /\ At(h, "claim")
    /\ Goto(h, "run")
    /\ commands' = [commands EXCEPT ![handlers[h].cur] = "claimed"]
    /\ UNCHANGED <<stream, rows, weight, edge, ran, faults>>

Run(h) ==
    /\ At(h, "run")
    /\ Goto(h, "finish")
    /\ ran' = [ran EXCEPT ![handlers[h].cur] = @ + 1]
    /\ UNCHANGED <<stream, rows, weight, edge, commands, faults>>

Finish(h) ==
    /\ At(h, "finish")
    /\ \E status \in {"succeeded", "failed"} :
          commands' = [commands EXCEPT ![handlers[h].cur] = status]
    /\ Good(h)
    /\ UNCHANGED <<stream, rows, weight, edge, ran, faults>>

HandlerStep(h) ==
    \/ Begin(h) \/ EndBatch(h)
    \/ Read(h) \/ Create(h) \/ Weigh(h) \/ WriteWeight(h) \/ Sync(h)
    \/ Find(h) \/ Record(h) \/ Claim(h) \/ Run(h) \/ Finish(h)

------------------------------------------------------------------------------
(* Faults.                                                                 *)

Fault == faults < MaxFaults /\ faults' = faults + 1

\* A statement fails, and with it the message.
StatementFails(h) ==
    /\ Fault
    /\ handlers[h].pc # "idle"
    /\ Bad(h)
    /\ UNCHANGED <<stream, tables>>

\* The pod dies; the consumer learns of it when the ack wait runs out.  An
\* exception in a handler fails its batch likewise, but is known at once.
Crash(h) ==
    /\ Fault
    /\ handlers[h] # NoBatch
    /\ handlers' = [handlers EXCEPT ![h] = NoBatch]
    /\ UNCHANGED <<stream, tables>>

------------------------------------------------------------------------------
Next ==
    \/ \E h \in Handlers : HandlerStep(h) \/ StatementFails(h) \/ Crash(h)
    \/ \E h \in Handlers, m \in Messages : Deliver(h, m)
    \/ \E m \in Messages : AckWait(m)

Spec == Init /\ [][Next]_vars

\* A processor goes on with its batch, the consumer hands out what it has and
\* its ack waits run out.
Fairness ==
    /\ \A h \in Handlers : WF_vars(HandlerStep(h))
    /\ \A m \in Messages : /\ WF_vars(\E h \in Handlers : Deliver(h, m))
                           /\ WF_vars(AckWait(m))

FairSpec == Spec /\ Fairness

------------------------------------------------------------------------------
(* The stream, the tables and the processors hold values of their types.   *)
TypeOK ==
    /\ stream \in [Messages -> {"stored", "pending", "acked"}]
    /\ handlers \in [Handlers -> Handler]
    /\ rows \in SUBSET Rows
    /\ weight \in Nat
    /\ edge \in Nat
    /\ commands \in [Commands -> CommandStatuses]
    /\ ran \in [Commands -> Nat]
    /\ faults \in 0..MaxFaults

\* The smoke test: a duplicate delivery does not increment weights twice.  Not
\* even if it runs beside the first, or follows one that failed half way.
NoMessageCountsTwice ==
    /\ weight <= Cardinality(Observations)
    /\ edge <= Cardinality(Observations)

\* What is acknowledged is in the tables: nothing is lost between a failing
\* batch, a redelivery and an acknowledgement.
AckedIsPersisted ==
    /\ \A m \in Chats : stream[m] = "acked" => RowsOf(m) \subseteq rows
    /\ \A c \in Commands : stream[c] = "acked" => commands[c] # "none"

\* With one processor of commands, no command is executed twice, whatever is
\* delivered again and wherever it failed.
CommandRunsAtMostOnce == \A c \in Commands : ran[c] <= 1

Outcomes == {"succeeded", "failed"}

\* With one processor of commands, an outcome is that of the one run there
\* was, and a command that is acknowledged has one.  A fault may leave it
\* claimed and acknowledged: whoever finds it claimed takes it for done.
AckedIsExecuted == \A c \in Commands :
    /\ commands[c] \in Outcomes => ran[c] = 1
    /\ (faults = 0 /\ stream[c] = "acked") => commands[c] \in Outcomes

\* What came of a command is not rewritten, however often it is delivered and
\* wherever its processor died.
OutcomeIsFinal ==
    [][\A c \in Commands : commands[c] \in Outcomes => commands'[c] = commands[c]]_vars

\* With one processor of chats and no fault, redelivery alone neither loses
\* nor adds a count, neither in the table nor in the graph.
CountsAreExact ==
    (faults = 0 /\ \A h \in Handlers : handlers[h].pc = "idle")
    => weight = Cardinality(Observations) /\ edge = weight

\* Every message is acknowledged in the end.
EveryMessageIsAcked == \A m \in Messages : <>(stream[m] = "acked")
==============================================================================
