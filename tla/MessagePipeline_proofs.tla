----------------------- MODULE MessagePipeline_proofs -----------------------
(***************************************************************************)
(* Theorems of MessagePipeline for every stream of messages, every number  *)
(* of pods, every batch size and every number of faults.                   *)
(***************************************************************************)
EXTENDS MessagePipeline, FiniteSetTheorems, TLAPS

------------------------------------------------------------------------------
(* Types.  A processor that is with a message has one of its own kind, and *)
(* is at a step of that kind.                                              *)

ChatSteps == {"read", "create", "weigh", "write", "sync"}
CommandSteps == {"find", "record", "claim", "run", "finish"}

AtHome(h) ==
    LET hd == handlers[h] IN
    /\ hd.pc # "idle" => hd.cur \in Kind(h)
    /\ hd.pc \in ChatSteps => h \in ChatHandlers
    /\ hd.pc \in CommandSteps => h \in CommandHandlers
    /\ \A i \in 1..Len(hd.todo) : hd.todo[i] \in Kind(h)

TypeInv == TypeOK /\ \A h \in Handlers : AtHome(h)

LEMMA StepsDomain == DOMAIN Steps = 1..6 /\ Len(Steps) = 6
  BY DEF Steps

LEMMA NoBatchType == NoBatch \in Handler
  BY StepsDomain DEF NoBatch, Handler, PCs, Messages

LEMMA TypeInit == Init => TypeInv
  BY NoBatchType, PipelineAssumption
     DEF Init, TypeInv, TypeOK, AtHome, NoBatch, CommandStatuses, ChatSteps, CommandSteps,
         Messages, Handlers

LEMMA RowOfType ==
  ASSUME NEW m \in Chats, NEW i \in DOMAIN Steps
  PROVE  RowOf(i, m) \in Rows
  BY DEF Rows, RowsOf

\* A step that changes one processor only.
LEMMA TypeFrame ==
  ASSUME TypeInv, NEW h \in Handlers, NEW new \in Handler,
         handlers' = [handlers EXCEPT ![h] = new],
         AtHome(h)',
         stream' \in [Messages -> {"stored", "pending", "acked"}],
         rows' \in SUBSET Rows, weight' \in Nat, edge' \in Nat,
         commands' \in [Commands -> CommandStatuses],
         ran' \in [Commands -> Nat],
         faults' \in 0..MaxFaults
  PROVE  TypeInv'
<1>1. ASSUME NEW k \in Handlers PROVE AtHome(k)'
  <2>1. CASE k = h
    BY <2>1
  <2>2. CASE k # h
    BY <2>2 DEF TypeInv, TypeOK, AtHome
  <2> QED BY <2>1, <2>2
<1>2. handlers' \in [Handlers -> Handler]
  BY DEF TypeInv, TypeOK
<1> QED BY <1>1, <1>2 DEF TypeInv, TypeOK

\* The processor is done with the message at hand, or is given another step.
LEMMA DoneType ==
  ASSUME TypeInv, NEW h \in Handlers, handlers[h].pc # "idle", Good(h) \/ Bad(h)
  PROVE  /\ AtHome(h)'
         /\ \E new \in Handler : handlers' = [handlers EXCEPT ![h] = new]
<1>1. handlers[h] \in Handler /\ handlers[h].cur \in Messages
  BY DEF TypeInv, TypeOK, AtHome, Kind, Messages
<1>2. PICK good \in SUBSET Messages, bad \in SUBSET Messages : Leave(h, good, bad)
  BY <1>1 DEF Good, Bad
<1> DEFINE new == [NoBatch EXCEPT !.todo = handlers[h].todo,
                                  !.good = handlers[h].good \union good,
                                  !.bad = handlers[h].bad \union bad]
<1>3. new \in Handler
  BY <1>1, NoBatchType DEF Handler
<1>4. handlers' = [handlers EXCEPT ![h] = new]
  BY <1>2 DEF Leave
<1>5. AtHome(h)'
  <2>1. handlers[h]'.pc = "idle" /\ handlers[h]'.todo = handlers[h].todo
    BY <1>4 DEF TypeInv, TypeOK, NoBatch
  <2> QED BY <2>1 DEF TypeInv, AtHome, ChatSteps, CommandSteps
<1> QED BY <1>3, <1>4, <1>5

LEMMA GotoType ==
  ASSUME TypeInv, NEW h \in Handlers, NEW pc, handlers[h].pc # "idle", Goto(h, pc),
         \/ pc \in ChatSteps /\ h \in ChatHandlers
         \/ pc \in CommandSteps /\ h \in CommandHandlers
  PROVE  /\ AtHome(h)'
         /\ \E new \in Handler : handlers' = [handlers EXCEPT ![h] = new]
<1> DEFINE new == [handlers[h] EXCEPT !.pc = pc]
<1>1. handlers[h] \in Handler
  BY DEF TypeInv, TypeOK
<1>2. new \in Handler /\ handlers' = [handlers EXCEPT ![h] = new]
  BY <1>1 DEF Goto, Handler, PCs, ChatSteps, CommandSteps
<1>3. AtHome(h)'
  BY <1>1, <1>2, PipelineAssumption
     DEF TypeInv, TypeOK, AtHome, Handler, ChatSteps, CommandSteps
<1> QED BY <1>2, <1>3

LEMMA NextRowType ==
  ASSUME TypeInv, NEW h \in ChatHandlers, NEW created \in BOOLEAN,
         handlers[h].pc # "idle", NextRow(h, created)
  PROVE  /\ AtHome(h)'
         /\ \E new \in Handler : handlers' = [handlers EXCEPT ![h] = new]
<1> DEFINE last == handlers[h].at = Len(Steps)
           new == [handlers[h] EXCEPT
                      !.at = IF last THEN @ ELSE @ + 1,
                      !.pc = IF ~last THEN "read"
                             ELSE IF created THEN "weigh" ELSE "sync"]
<1>1. h \in Handlers /\ handlers[h] \in Handler
  BY DEF TypeInv, TypeOK, Handlers
<1>2. new \in Handler
  <2>1. handlers[h].at \in 1..6
    BY <1>1, StepsDomain DEF Handler
  <2>2. (IF last THEN handlers[h].at ELSE handlers[h].at + 1) \in 1..6
    BY <2>1, StepsDomain
  <2> QED BY <1>1, <2>2, StepsDomain DEF Handler, PCs
<1>3. handlers' = [handlers EXCEPT ![h] = new]
  BY DEF NextRow
<1>4. AtHome(h)'
  BY <1>1, <1>3, PipelineAssumption
     DEF TypeInv, TypeOK, AtHome, Handler, ChatSteps, CommandSteps
<1> QED BY <1>2, <1>3, <1>4

LEMMA DeliverType ==
  ASSUME TypeInv, NEW h \in Handlers, NEW m \in Messages, Deliver(h, m)
  PROVE  TypeInv'
<1> DEFINE new == [handlers[h] EXCEPT !.todo = Append(@, m)]
<1>1. handlers[h] \in Handler /\ handlers[h].todo \in Seq(Messages)
  BY DEF TypeInv, TypeOK, Handler
<1>2. new \in Handler /\ handlers' = [handlers EXCEPT ![h] = new]
  <2>1. Append(handlers[h].todo, m) \in Seq(Messages)
    BY <1>1
  <2> QED BY <1>1, <2>1 DEF Deliver, Handler
<1>3. AtHome(h)'
  <2>1. /\ handlers'[h].todo = Append(handlers[h].todo, m)
        /\ handlers'[h].pc = handlers[h].pc /\ handlers'[h].cur = handlers[h].cur
    BY <1>1, <1>2 DEF TypeInv, TypeOK, Handler
  <2>2. \A i \in 1..Len(handlers'[h].todo) : handlers'[h].todo[i] \in Kind(h)
    BY <1>1, <2>1 DEF Deliver, TypeInv, AtHome
  <2> QED BY <2>1, <2>2 DEF TypeInv, AtHome
<1>4. stream' \in [Messages -> {"stored", "pending", "acked"}]
  BY DEF Deliver, TypeInv, TypeOK
<1> QED BY <1>2, <1>3, <1>4, TypeFrame DEF Deliver, tables, TypeInv, TypeOK

LEMMA BeginType ==
  ASSUME TypeInv, NEW h \in Handlers, Begin(h)
  PROVE  TypeInv'
<1> DEFINE hd == handlers[h]
           new == [hd EXCEPT !.todo = Tail(hd.todo), !.cur = Head(hd.todo),
                             !.pc = IF h \in ChatHandlers THEN "read" ELSE "find"]
<1>1. hd \in Handler /\ hd.todo \in Seq(Messages) /\ hd.todo # <<>>
  BY DEF TypeInv, TypeOK, Handler, Begin
<1>2. Head(hd.todo) \in Messages /\ Tail(hd.todo) \in Seq(Messages)
  BY <1>1
<1>3. Head(hd.todo) \in Kind(h) /\ \A i \in 1..Len(Tail(hd.todo)) : Tail(hd.todo)[i] \in Kind(h)
  <2>1. Len(hd.todo) >= 1 /\ Head(hd.todo) = hd.todo[1]
        /\ Len(Tail(hd.todo)) = Len(hd.todo) - 1
        /\ \A i \in 1..Len(Tail(hd.todo)) : Tail(hd.todo)[i] = hd.todo[i + 1]
    BY <1>1
  <2> QED BY <1>1, <2>1 DEF TypeInv, AtHome
<1>4. new \in Handler
  BY <1>1, <1>2 DEF Handler, PCs
<1>5. handlers' = [handlers EXCEPT ![h] = new]
  BY DEF Begin
<1>6. AtHome(h)'
  BY <1>1, <1>3, <1>5 DEF TypeInv, TypeOK, AtHome, Handler, Handlers, ChatSteps, CommandSteps
<1> QED BY <1>4, <1>5, <1>6, TypeFrame DEF Begin, tables, TypeInv, TypeOK

\* A processor that gives up its batch, after its end or by a crash.
LEMMA DropType ==
  ASSUME TypeInv, NEW h \in Handlers, handlers' = [handlers EXCEPT ![h] = NoBatch],
         stream' \in [Messages -> {"stored", "pending", "acked"}],
         UNCHANGED tables, faults' \in 0..MaxFaults
  PROVE  TypeInv'
<1>1. AtHome(h)'
  BY DEF TypeInv, TypeOK, AtHome, NoBatch, ChatSteps, CommandSteps
<1> QED BY <1>1, NoBatchType, TypeFrame DEF tables, TypeInv, TypeOK

LEMMA HandlerType ==
  ASSUME TypeInv, NEW h \in Handlers, HandlerStep(h)
  PROVE  TypeInv'
<1> USE DEF At
<1>0. handlers[h] \in Handler /\ AtHome(h)
  BY DEF TypeInv, TypeOK
<1>1. CASE Begin(h)
  BY <1>1, BeginType
<1>2. CASE EndBatch(h)
  <2>1. stream' \in [Messages -> {"stored", "pending", "acked"}]
    BY <1>2 DEF EndBatch, TypeInv, TypeOK
  <2> QED BY <1>2, <2>1, DropType DEF EndBatch, TypeInv, TypeOK
<1>3. CASE Read(h)
  <2>1. h \in ChatHandlers
    BY <1>0, <1>3 DEF Read, AtHome, ChatSteps
  <2> QED BY <1>3, <2>1, NextRowType, GotoType, TypeFrame
          DEF Read, ChatSteps, tables, TypeInv, TypeOK
<1>4. CASE Create(h)
  <2>1. h \in ChatHandlers /\ handlers[h].cur \in Chats
    BY <1>0, <1>4 DEF Create, AtHome, ChatSteps, Kind
  <2>2. RowOf(handlers[h].at, handlers[h].cur) \in Rows
    BY <1>0, <2>1, RowOfType DEF Handler
  <2>3. rows' \in SUBSET Rows
    BY <1>4, <2>2 DEF Create, TypeInv, TypeOK
  <2> QED BY <1>4, <2>1, <2>3, NextRowType, DoneType, TypeFrame
          DEF Create, TypeInv, TypeOK
<1>5. CASE Weigh(h)
  <2> DEFINE new == [handlers[h] EXCEPT !.pc = "write", !.seen = weight]
  <2>1. h \in ChatHandlers
    BY <1>0, <1>5 DEF Weigh, AtHome, ChatSteps
  <2>2. new \in Handler /\ handlers' = [handlers EXCEPT ![h] = new]
    BY <1>0, <1>5 DEF Weigh, Handler, PCs, TypeInv, TypeOK
  <2>3. AtHome(h)'
    BY <1>0, <1>5, <2>1, <2>2 DEF Weigh, AtHome, Handler, TypeInv, TypeOK, CommandSteps
  <2> QED BY <1>5, <2>2, <2>3, TypeFrame DEF Weigh, tables, TypeInv, TypeOK
<1>6. CASE WriteWeight(h)
  <2> DEFINE seen == handlers[h].seen
             new == [handlers[h] EXCEPT !.pc = "sync", !.seen = seen + 1]
  <2>1. h \in ChatHandlers /\ seen \in Nat
    BY <1>0, <1>6 DEF WriteWeight, AtHome, ChatSteps, Handler
  <2>2. CASE seen = 0 /\ weight > 0
    BY <1>6, <2>2, DoneType, TypeFrame DEF WriteWeight, TypeInv, TypeOK
  <2>3. CASE ~(seen = 0 /\ weight > 0)
    <3>1. new \in Handler /\ handlers' = [handlers EXCEPT ![h] = new]
      <4>1. seen + 1 \in Nat
        BY <2>1
      <4>2. new \in Handler
        BY <1>0, <4>1 DEF Handler, PCs
      <4>3. handlers' = [handlers EXCEPT ![h] = new]
        BY <1>6, <2>3 DEF WriteWeight
      <4> QED BY <4>2, <4>3
    <3>2. AtHome(h)'
      BY <1>0, <1>6, <2>1, <3>1
         DEF WriteWeight, AtHome, Handler, TypeInv, TypeOK, CommandSteps
    <3>3. weight' \in Nat
      BY <1>6, <2>1, <2>3 DEF WriteWeight
    <3> QED BY <1>6, <3>1, <3>2, <3>3, TypeFrame DEF WriteWeight, TypeInv, TypeOK
  <2> QED BY <2>2, <2>3
<1>7. CASE Sync(h)
  <2>1. edge' \in Nat
    BY <1>0, <1>7 DEF Sync, Handler, TypeInv, TypeOK
  <2> QED BY <1>7, <2>1, DoneType, TypeFrame DEF Sync, TypeInv, TypeOK
<1>8. CASE Find(h)
  <2>1. h \in CommandHandlers
    BY <1>0, <1>8 DEF Find, AtHome, CommandSteps
  <2>2. /\ AtHome(h)'
        /\ \E new \in Handler : handlers' = [handlers EXCEPT ![h] = new]
    BY <1>8, <2>1, GotoType, DoneType DEF Find, CommandSteps
  <2> QED BY <1>8, <2>2, TypeFrame DEF Find, tables, TypeInv, TypeOK
<1>9. CASE Record(h)
  <2>1. h \in CommandHandlers /\ handlers[h].cur \in Messages
    BY <1>0, <1>9 DEF Record, AtHome, CommandSteps, Kind, Messages
  <2>2. commands' \in [Commands -> CommandStatuses]
    BY <1>9 DEF Record, TypeInv, TypeOK, CommandStatuses
  <2> QED BY <1>9, <2>1, <2>2, GotoType, DoneType, TypeFrame
          DEF Record, CommandSteps, TypeInv, TypeOK
<1>10. CASE Claim(h)
  <2>1. h \in CommandHandlers
    BY <1>0, <1>10 DEF Claim, AtHome, CommandSteps
  <2>2. commands' \in [Commands -> CommandStatuses]
    BY <1>10 DEF Claim, TypeInv, TypeOK, CommandStatuses
  <2> QED BY <1>10, <2>1, <2>2, GotoType, TypeFrame DEF Claim, CommandSteps, TypeInv, TypeOK
<1>11. CASE Run(h)
  <2>1. h \in CommandHandlers
    BY <1>0, <1>11 DEF Run, AtHome, CommandSteps
  <2>2. ran' \in [Commands -> Nat]
    <3>1. ran \in [Commands -> Nat]
          /\ ran' = [ran EXCEPT ![handlers[h].cur] = ran[handlers[h].cur] + 1]
      BY <1>11 DEF Run, TypeInv, TypeOK
    <3>2. handlers[h].cur \in Commands
      BY <1>0, <1>11, <2>1, PipelineAssumption DEF Run, AtHome, Kind
    <3> QED BY <3>1, <3>2
  <2> QED BY <1>11, <2>1, <2>2, GotoType, TypeFrame DEF Run, CommandSteps, TypeInv, TypeOK
<1>12. CASE Finish(h)
  <2>1. commands' \in [Commands -> CommandStatuses]
    BY <1>12 DEF Finish, TypeInv, TypeOK, CommandStatuses
  <2> QED BY <1>12, <2>1, DoneType, TypeFrame DEF Finish, TypeInv, TypeOK
<1> QED BY <1>1, <1>2, <1>3, <1>4, <1>5, <1>6, <1>7, <1>8, <1>9, <1>10, <1>11, <1>12
        DEF HandlerStep

LEMMA FaultType ==
  ASSUME TypeInv, NEW h \in Handlers, StatementFails(h) \/ Crash(h)
  PROVE  TypeInv'
<1>1. faults' \in 0..MaxFaults
  BY PipelineAssumption DEF StatementFails, Crash, Fault, TypeInv, TypeOK
<1>2. CASE StatementFails(h)
  BY <1>1, <1>2, DoneType, TypeFrame DEF StatementFails, tables, TypeInv, TypeOK
<1>3. CASE Crash(h)
  BY <1>1, <1>3, DropType DEF Crash, TypeInv, TypeOK
<1> QED BY <1>2, <1>3

LEMMA TypeStep == TypeInv /\ [Next]_vars => TypeInv'
<1> SUFFICES ASSUME TypeInv, [Next]_vars PROVE TypeInv'
  OBVIOUS
<1>1. CASE UNCHANGED vars
  BY <1>1 DEF vars, TypeInv, TypeOK, AtHome
<1>2. ASSUME NEW m \in Messages, AckWait(m) PROVE TypeInv'
  BY <1>2 DEF AckWait, tables, TypeInv, TypeOK, AtHome
<1> QED BY <1>1, <1>2, HandlerType, FaultType, DeliverType DEF Next

\* The stream, the tables and the processors hold values of their types, for
\* any number of messages, pods and faults.
THEOREM PipelineTypeCorrect == Spec => []TypeOK
<1>1. TypeInv => TypeOK
  BY DEF TypeInv
<1> QED BY TypeInit, TypeStep, <1>1, PTL DEF Spec

------------------------------------------------------------------------------
(* Acknowledged messages are in the tables.  What a processor counts as    *)
(* handled is there, and so is what it is past of the message at hand;     *)
(* nothing is ever taken out.                                              *)

Stored(m) == /\ m \in Chats => RowsOf(m) \subseteq rows
             /\ m \in Commands => commands[m] # "none"

WorkStored(h) ==
    LET hd == handlers[h] IN
    /\ \A m \in hd.good : Stored(m)
    /\ hd.pc = "idle" => hd.at = 1
    /\ hd.pc \in {"read", "create"} => \A i \in 1..(hd.at - 1) : RowOf(i, hd.cur) \in rows
    /\ hd.pc \in {"weigh", "write", "sync"} => RowsOf(hd.cur) \subseteq rows
    /\ hd.pc \in {"claim", "run", "finish"} => commands[hd.cur] # "none"

AckInv == /\ TypeInv
          /\ \A h \in Handlers : WorkStored(h)
          /\ \A m \in Messages : stream[m] = "acked" => Stored(m)

Grows == /\ rows \subseteq rows'
         /\ \A c \in Commands : commands[c] # "none" => commands'[c] # "none"

LEMMA AckInit == Init => AckInv
  BY TypeInit DEF Init, AckInv, WorkStored, NoBatch

LEMMA StoredStays ==
  ASSUME Grows, NEW m, Stored(m)
  PROVE  Stored(m)'
  BY DEF Grows, Stored

\* A step of one processor, or of none.
LEMMA AckFrame ==
  ASSUME AckInv, TypeInv', Grows, NEW h \in Handlers, WorkStored(h)',
         \A k \in Handlers \ {h} : handlers'[k] = handlers[k],
         \A m \in Messages : stream'[m] = "acked" => stream[m] = "acked" \/ Stored(m)
  PROVE  AckInv'
<1>1. ASSUME NEW k \in Handlers \ {h} PROVE WorkStored(k)'
  <2>1. WorkStored(k) /\ AtHome(k)
    BY DEF AckInv, TypeInv
  <2>2. \A m \in handlers'[k].good : Stored(m)'
    BY <2>1, StoredStays DEF WorkStored
  <2>3. handlers'[k].pc \in {"claim", "run", "finish"} => commands'[handlers'[k].cur] # "none"
    BY <2>1, PipelineAssumption DEF WorkStored, AtHome, CommandSteps, Grows, Kind
  <2> QED BY <2>1, <2>2, <2>3 DEF WorkStored, Grows
<1>2. ASSUME NEW m \in Messages, stream'[m] = "acked" PROVE Stored(m)'
  BY <1>2, StoredStays DEF AckInv
<1> QED BY <1>1, <1>2 DEF AckInv

\* The processor is done with the message at hand.
LEMMA LeaveStored ==
  ASSUME AckInv, Grows, NEW h \in Handlers, NEW good, NEW bad, Leave(h, good, bad),
         \A m \in good : Stored(m)'
  PROVE  /\ WorkStored(h)'
         /\ \A k \in Handlers \ {h} : handlers'[k] = handlers[k]
<1> DEFINE new == [NoBatch EXCEPT !.todo = handlers[h].todo,
                                  !.good = handlers[h].good \union good,
                                  !.bad = handlers[h].bad \union bad]
<1>1. handlers' = [handlers EXCEPT ![h] = new] /\ handlers \in [Handlers -> Handler]
  BY DEF Leave, AckInv, TypeInv, TypeOK
<1>2. /\ handlers'[h].good = handlers[h].good \union good
      /\ handlers'[h].pc = "idle" /\ handlers'[h].at = 1
  BY <1>1 DEF NoBatch
<1>3. \A m \in handlers'[h].good : Stored(m)'
  BY <1>2, StoredStays DEF AckInv, WorkStored
<1> QED BY <1>1, <1>2, <1>3 DEF WorkStored

\* ... or goes on with it.
LEMMA OnwardStored ==
  ASSUME AckInv, Grows, NEW h \in Handlers, NEW pc, Goto(h, pc),
         pc \in {"read", "create"} =>
             \A i \in 1..(handlers[h].at - 1) : RowOf(i, handlers[h].cur) \in rows',
         pc \in {"weigh", "write", "sync"} => RowsOf(handlers[h].cur) \subseteq rows',
         pc \in {"claim", "run", "finish"} => commands'[handlers[h].cur] # "none",
         pc # "idle"
  PROVE  /\ WorkStored(h)'
         /\ \A k \in Handlers \ {h} : handlers'[k] = handlers[k]
<1>1. handlers' = [handlers EXCEPT ![h] = [handlers[h] EXCEPT !.pc = pc]]
      /\ handlers \in [Handlers -> Handler]
  BY DEF Goto, AckInv, TypeInv, TypeOK
<1>2. /\ handlers'[h].good = handlers[h].good /\ handlers'[h].pc = pc
      /\ handlers'[h].at = handlers[h].at /\ handlers'[h].cur = handlers[h].cur
  BY <1>1 DEF Handler
<1>3. \A m \in handlers'[h].good : Stored(m)'
  BY <1>2, StoredStays DEF AckInv, WorkStored
<1> QED BY <1>1, <1>2, <1>3 DEF WorkStored

LEMMA NextRowStored ==
  ASSUME AckInv, Grows, NEW h \in ChatHandlers, NEW created, NextRow(h, created),
         handlers[h].pc \in {"read", "create"},
         RowOf(handlers[h].at, handlers[h].cur) \in rows'
  PROVE  /\ WorkStored(h)'
         /\ \A k \in Handlers \ {h} : handlers'[k] = handlers[k]
<1> DEFINE hd == handlers[h]
           last == hd.at = Len(Steps)
           new == [hd EXCEPT !.at = IF last THEN @ ELSE @ + 1,
                             !.pc = IF ~last THEN "read"
                                    ELSE IF created THEN "weigh" ELSE "sync"]
<1>1. /\ handlers' = [handlers EXCEPT ![h] = new] /\ handlers \in [Handlers -> Handler]
      /\ h \in Handlers /\ hd \in Handler
  BY DEF NextRow, AckInv, TypeInv, TypeOK, Handlers
<1>2. hd.at \in 1..6
  BY <1>1, StepsDomain DEF Handler
<1>3. \A i \in 1..hd.at : RowOf(i, hd.cur) \in rows'
  <2>1. \A i \in 1..(hd.at - 1) : RowOf(i, hd.cur) \in rows
    BY <1>1 DEF AckInv, WorkStored
  <2> QED BY <1>2, <2>1 DEF Grows
<1>4. /\ handlers'[h].good = hd.good /\ handlers'[h].cur = hd.cur
      /\ handlers'[h].at = (IF last THEN hd.at ELSE hd.at + 1)
      /\ handlers'[h].pc = (IF ~last THEN "read" ELSE IF created THEN "weigh" ELSE "sync")
  BY <1>1 DEF Handler
<1>5. \A m \in handlers'[h].good : Stored(m)'
  BY <1>1, <1>4, StoredStays DEF AckInv, WorkStored
<1>6. ~last => \A i \in 1..(handlers'[h].at - 1) : RowOf(i, hd.cur) \in rows'
  BY <1>2, <1>3, <1>4
<1>7. last => RowsOf(hd.cur) \subseteq rows'
  BY <1>2, <1>3, StepsDomain DEF RowsOf
<1> QED BY <1>1, <1>4, <1>5, <1>6, <1>7 DEF WorkStored

LEMMA HandlerAck ==
  ASSUME AckInv, TypeInv', NEW h \in Handlers, HandlerStep(h)
  PROVE  AckInv'
<1> USE DEF At
<1> DEFINE hd == handlers[h]
           OneMoves == /\ WorkStored(h)'
                       /\ \A k \in Handlers \ {h} : handlers'[k] = handlers[k]
<1>0. /\ hd \in Handler /\ AtHome(h) /\ WorkStored(h)
      /\ handlers \in [Handlers -> Handler]
  BY DEF AckInv, TypeInv, TypeOK
<1>1. ASSUME UNCHANGED <<rows, commands>> PROVE Grows
  BY <1>1 DEF Grows
<1>2. ASSUME Grows, OneMoves, UNCHANGED stream PROVE AckInv'
  BY <1>2, AckFrame
<1>3. ASSUME hd.cur \in Commands, commands[hd.cur] # "none" PROVE Stored(hd.cur)
  BY <1>3, PipelineAssumption DEF Stored
<1>4. hd.pc \in ChatSteps => h \in ChatHandlers /\ hd.cur \in Chats /\ hd.cur \notin Commands
  BY <1>0, PipelineAssumption DEF AtHome, Kind, ChatSteps
<1>5. hd.pc \in CommandSteps => hd.cur \in Commands
  BY <1>0, PipelineAssumption DEF AtHome, Kind, CommandSteps
<1>6. CASE Begin(h)
  <2>1. /\ handlers' = [handlers EXCEPT ![h] =
               [hd EXCEPT !.todo = Tail(hd.todo), !.cur = Head(hd.todo),
                          !.pc = IF h \in ChatHandlers THEN "read" ELSE "find"]]
        /\ UNCHANGED <<stream, rows, commands>>
    BY <1>6 DEF Begin, tables
  <2>2. /\ handlers'[h].good = hd.good /\ handlers'[h].at = hd.at
        /\ handlers'[h].pc \in {"read", "find"}
    BY <1>0, <2>1 DEF Handler
  <2>3. hd.at = 1
    BY <1>0, <1>6 DEF Begin, WorkStored
  <2>4. \A m \in handlers'[h].good : Stored(m)'
    BY <1>0, <1>1, <2>1, <2>2, StoredStays DEF WorkStored
  <2>5. OneMoves
    BY <1>0, <2>1, <2>2, <2>3, <2>4 DEF WorkStored
  <2> QED BY <1>1, <1>2, <2>1, <2>5
<1>7. CASE EndBatch(h)
  <2>1. /\ handlers' = [handlers EXCEPT ![h] = NoBatch]
        /\ UNCHANGED <<rows, commands>>
    BY <1>7 DEF EndBatch, tables
  <2>2. OneMoves
    BY <1>0, <2>1 DEF WorkStored, NoBatch
  <2>3. \A m \in Messages : stream'[m] = "acked" => stream[m] = "acked" \/ m \in hd.good
    BY <1>7 DEF EndBatch
  <2> QED BY <1>0, <1>1, <2>1, <2>2, <2>3, AckFrame DEF WorkStored
<1>8. CASE Read(h)
  <2>1. UNCHANGED <<stream, rows, commands>> /\ hd.pc = "read" /\ h \in ChatHandlers
    BY <1>4, <1>8 DEF Read, tables, ChatSteps
  <2>2. CASE RowOf(hd.at, hd.cur) \in rows
    BY <1>1, <1>2, <1>8, <2>1, <2>2, NextRowStored DEF Read
  <2>3. CASE RowOf(hd.at, hd.cur) \notin rows
    <3>1. \A i \in 1..(hd.at - 1) : RowOf(i, hd.cur) \in rows'
      BY <1>0, <2>1 DEF WorkStored
    <3>2. Goto(h, "create")
      BY <1>8, <2>3 DEF Read
    <3> QED BY <1>1, <1>2, <2>1, <3>1, <3>2, OnwardStored
  <2> QED BY <2>2, <2>3
<1>9. CASE Create(h)
  <2>1. UNCHANGED <<stream, commands>> /\ hd.pc = "create" /\ h \in ChatHandlers
    BY <1>4, <1>9 DEF Create, ChatSteps
  <2>2. CASE RowOf(hd.at, hd.cur) \in rows
    <3>1. UNCHANGED rows /\ Leave(h, {}, {hd.cur})
      BY <1>9, <2>2 DEF Create, Bad
    <3> QED BY <1>1, <1>2, <2>1, <3>1, LeaveStored
  <2>3. CASE RowOf(hd.at, hd.cur) \notin rows
    <3>1. NextRow(h, TRUE) /\ rows' = rows \union {RowOf(hd.at, hd.cur)}
      BY <1>9, <2>3 DEF Create
    <3>2. Grows
      BY <2>1, <3>1 DEF Grows
    <3> QED BY <1>2, <2>1, <3>1, <3>2, NextRowStored
  <2> QED BY <2>2, <2>3
<1>10. CASE Weigh(h)
  <2>1. /\ handlers' = [handlers EXCEPT ![h] = [hd EXCEPT !.pc = "write", !.seen = weight]]
        /\ UNCHANGED <<stream, rows, commands>> /\ hd.pc = "weigh"
    BY <1>10 DEF Weigh, tables
  <2>2. /\ handlers'[h].good = hd.good /\ handlers'[h].cur = hd.cur
        /\ handlers'[h].pc = "write"
    BY <1>0, <2>1 DEF Handler
  <2>3. \A m \in handlers'[h].good : Stored(m)'
    BY <1>0, <1>1, <2>1, <2>2, StoredStays DEF WorkStored
  <2>4. OneMoves
    BY <1>0, <2>1, <2>2, <2>3 DEF WorkStored
  <2> QED BY <1>1, <1>2, <2>1, <2>4
<1>11. CASE WriteWeight(h)
  <2>1. UNCHANGED <<stream, rows, commands>> /\ hd.pc = "write"
    BY <1>11 DEF WriteWeight
  <2>2. CASE hd.seen = 0 /\ weight > 0
    <3>1. Leave(h, {}, {hd.cur})
      BY <1>11, <2>2 DEF WriteWeight, Bad
    <3> QED BY <1>1, <1>2, <2>1, <3>1, LeaveStored
  <2>3. CASE ~(hd.seen = 0 /\ weight > 0)
    <3>1. handlers' = [handlers EXCEPT ![h] =
                          [hd EXCEPT !.pc = "sync", !.seen = hd.seen + 1]]
      BY <1>11, <2>3 DEF WriteWeight
    <3>2. /\ handlers'[h].good = hd.good /\ handlers'[h].cur = hd.cur
          /\ handlers'[h].pc = "sync"
      BY <1>0, <3>1 DEF Handler
    <3>3. \A m \in handlers'[h].good : Stored(m)'
      BY <1>0, <1>1, <2>1, <3>2, StoredStays DEF WorkStored
    <3>4. OneMoves
      BY <1>0, <2>1, <3>1, <3>2, <3>3 DEF WorkStored
    <3> QED BY <1>1, <1>2, <2>1, <3>4
  <2> QED BY <2>2, <2>3
<1>12. CASE Sync(h)
  <2>1. UNCHANGED <<stream, rows, commands>> /\ hd.pc = "sync" /\ Leave(h, {hd.cur}, {})
    BY <1>12 DEF Sync, Good
  <2>2. \A m \in {hd.cur} : Stored(m)'
    BY <1>0, <1>4, <2>1 DEF WorkStored, Stored, ChatSteps
  <2> QED BY <1>1, <1>2, <2>1, <2>2, LeaveStored
<1>13. CASE Find(h)
  <2>1. UNCHANGED <<stream, rows, commands>> /\ hd.pc = "find"
    BY <1>13 DEF Find, tables
  <2>2. CASE commands[hd.cur] = "none" /\ Goto(h, "record")
    BY <1>1, <1>2, <2>1, <2>2, OnwardStored
  <2>3. CASE commands[hd.cur] = "received" /\ Goto(h, "claim")
    BY <1>1, <1>2, <2>1, <2>3, OnwardStored
  <2>4. CASE commands[hd.cur] \in {"claimed", "succeeded", "failed"} /\ Leave(h, {hd.cur}, {})
    <3>1. \A m \in {hd.cur} : Stored(m)'
      BY <1>1, <1>3, <1>5, <2>1, <2>4, StoredStays DEF CommandSteps
    <3> QED BY <1>1, <1>2, <2>1, <2>4, <3>1, LeaveStored
  <2> QED BY <1>13, <2>2, <2>3, <2>4 DEF Find, Good
<1>14. CASE Record(h)
  <2>1. UNCHANGED <<stream, rows>> /\ hd.pc = "record"
    BY <1>14 DEF Record
  <2>2. CASE commands[hd.cur] # "none"
    <3>1. UNCHANGED commands /\ Leave(h, {}, {hd.cur})
      BY <1>14, <2>2 DEF Record, Bad
    <3> QED BY <1>1, <1>2, <2>1, <3>1, LeaveStored
  <2>3. CASE commands[hd.cur] = "none"
    <3>1. Goto(h, "claim") /\ commands' = [commands EXCEPT ![hd.cur] = "received"]
      BY <1>14, <2>3 DEF Record
    <3>2. Grows /\ commands'[hd.cur] # "none"
      BY <1>5, <2>1, <3>1 DEF Grows, AckInv, TypeInv, TypeOK, CommandSteps
    <3> QED BY <1>2, <2>1, <3>1, <3>2, OnwardStored
  <2> QED BY <2>2, <2>3
<1>15. CASE Claim(h)
  <2>1. /\ Goto(h, "run") /\ commands' = [commands EXCEPT ![hd.cur] = "claimed"]
        /\ UNCHANGED <<stream, rows>> /\ hd.pc = "claim"
    BY <1>15 DEF Claim
  <2>2. Grows /\ commands'[hd.cur] # "none"
    BY <1>5, <2>1 DEF Grows, AckInv, TypeInv, TypeOK, CommandSteps
  <2> QED BY <1>2, <2>1, <2>2, OnwardStored
<1>16. CASE Run(h)
  <2>1. Goto(h, "finish") /\ UNCHANGED <<stream, rows, commands>> /\ hd.pc = "run"
    BY <1>16 DEF Run
  <2>2. commands'[hd.cur] # "none"
    BY <1>0, <2>1 DEF WorkStored
  <2> QED BY <1>1, <1>2, <2>1, <2>2, OnwardStored
<1>17. CASE Finish(h)
  <2>1. PICK status \in {"succeeded", "failed"} :
            commands' = [commands EXCEPT ![hd.cur] = status]
    BY <1>17 DEF Finish
  <2>2. Leave(h, {hd.cur}, {}) /\ UNCHANGED <<stream, rows>> /\ hd.pc = "finish"
    BY <1>17 DEF Finish, Good
  <2>3. Grows /\ commands'[hd.cur] # "none"
    BY <1>5, <2>1, <2>2 DEF Grows, AckInv, TypeInv, TypeOK, CommandSteps
  <2>4. \A m \in {hd.cur} : Stored(m)'
    BY <1>5, <2>2, <2>3, PipelineAssumption DEF Stored, CommandSteps
  <2> QED BY <1>2, <2>2, <2>3, <2>4, LeaveStored
<1> QED BY <1>6, <1>7, <1>8, <1>9, <1>10, <1>11, <1>12, <1>13, <1>14, <1>15, <1>16, <1>17
        DEF HandlerStep

LEMMA AckStep == AckInv /\ [Next]_vars => AckInv'
<1> SUFFICES ASSUME AckInv, [Next]_vars PROVE AckInv'
  OBVIOUS
<1>1. TypeInv'
  BY TypeStep DEF AckInv
<1>2. CASE UNCHANGED vars
  BY <1>1, <1>2 DEF vars, AckInv, WorkStored, Stored
<1>3. ASSUME NEW h \in Handlers, NEW m \in Messages, Deliver(h, m) PROVE AckInv'
  <2>1. /\ handlers' = [handlers EXCEPT ![h].todo = Append(@, m)]
        /\ stream' = [stream EXCEPT ![m] = "pending"]
        /\ UNCHANGED <<rows, commands>>
    BY <1>3 DEF Deliver, tables
  <2>2. /\ handlers'[h].good = handlers[h].good /\ handlers'[h].pc = handlers[h].pc
        /\ handlers'[h].at = handlers[h].at /\ handlers'[h].cur = handlers[h].cur
        /\ \A k \in Handlers \ {h} : handlers'[k] = handlers[k]
    BY <2>1 DEF AckInv, TypeInv, TypeOK, Handler
  <2>3. WorkStored(h)'
    BY <2>1, <2>2 DEF AckInv, WorkStored, Stored
  <2>4. Grows /\ \A n \in Messages : stream'[n] = "acked" => stream[n] = "acked"
    BY <2>1 DEF Grows, AckInv, TypeInv, TypeOK
  <2> QED BY <1>1, <2>2, <2>3, <2>4, AckFrame
<1>4. ASSUME NEW m \in Messages, AckWait(m) PROVE AckInv'
  <2>1. /\ UNCHANGED <<handlers, rows, commands>>
        /\ \A n \in Messages : stream'[n] = "acked" => stream[n] = "acked"
    BY <1>4 DEF AckWait, tables, AckInv, TypeInv, TypeOK
  <2> QED BY <1>1, <2>1 DEF AckInv, WorkStored, Stored
<1>5. ASSUME NEW h \in Handlers, StatementFails(h) PROVE AckInv'
  <2>1. UNCHANGED <<stream, rows, commands>> /\ Leave(h, {}, {handlers[h].cur}) /\ Grows
    BY <1>5 DEF StatementFails, Bad, tables, Grows
  <2> QED BY <1>1, <2>1, LeaveStored, AckFrame
<1>6. ASSUME NEW h \in Handlers, Crash(h) PROVE AckInv'
  <2>1. /\ handlers' = [handlers EXCEPT ![h] = NoBatch]
        /\ UNCHANGED <<stream, rows, commands>> /\ Grows
    BY <1>6 DEF Crash, tables, Grows
  <2>2. WorkStored(h)' /\ \A k \in Handlers \ {h} : handlers'[k] = handlers[k]
    BY <2>1 DEF WorkStored, NoBatch, AckInv, TypeInv, TypeOK
  <2> QED BY <1>1, <2>1, <2>2, AckFrame
<1> QED BY <1>1, <1>2, <1>3, <1>4, <1>5, <1>6, HandlerAck DEF Next

\* Whatever fails, is delivered again or runs on other pods, an acknowledged
\* message has all its rows and an acknowledged command its record.
THEOREM AcknowledgedArePersisted == Spec => []AckedIsPersisted
<1>1. AckInv => AckedIsPersisted
  BY DEF AckInv, AckedIsPersisted, Stored, Messages
<1> QED BY AckInit, AckStep, <1>1, PTL DEF Spec

------------------------------------------------------------------------------
(* With one processor of commands, a command runs at most once.  A command *)
(* that was not claimed has not run, and the processor that is about to    *)
(* run one has claimed it itself.  (Two processors may both find it        *)
(* received: then this is false.)                                          *)

OneCommandHandler == \A h, k \in CommandHandlers : h = k

Ready(h) ==
    LET hd == handlers[h] IN
    /\ hd.pc = "claim" => commands[hd.cur] = "received"
    /\ hd.pc = "run" => commands[hd.cur] = "claimed" /\ ran[hd.cur] = 0
    /\ hd.pc = "finish" => commands[hd.cur] = "claimed" /\ ran[hd.cur] = 1

RunInv == /\ TypeInv
          /\ \A c \in Commands : /\ ran[c] <= 1
                                 /\ commands[c] \in {"none", "received"} => ran[c] = 0
                                 /\ commands[c] \in Outcomes => ran[c] = 1
          /\ \A h \in CommandHandlers : Ready(h)

LEMMA RunInit == Init => RunInv
  BY TypeInit DEF Init, RunInv, Ready, NoBatch, Handlers, Outcomes

\* A step that neither runs nor changes a command, nor comes near it.
LEMMA RunFrame ==
  ASSUME RunInv, TypeInv', UNCHANGED <<commands, ran>>,
         \A k \in CommandHandlers :
             \/ handlers'[k] = handlers[k]
             \/ handlers'[k].pc \notin {"claim", "run", "finish"}
  PROVE  RunInv'
  BY DEF RunInv, Ready, Outcomes

LEMMA LeavePc ==
  ASSUME TypeInv, NEW h \in Handlers, NEW good, NEW bad, Leave(h, good, bad)
  PROVE  /\ handlers'[h].pc = "idle" /\ handlers'[h].seen = 0
         /\ \A k \in Handlers \ {h} : handlers'[k] = handlers[k]
  BY DEF Leave, TypeInv, TypeOK, NoBatch

LEMMA GotoPc ==
  ASSUME TypeInv, NEW h \in Handlers, NEW pc, Goto(h, pc)
  PROVE  /\ handlers'[h].pc = pc /\ handlers'[h].cur = handlers[h].cur
         /\ handlers'[h].seen = handlers[h].seen
         /\ \A k \in Handlers \ {h} : handlers'[k] = handlers[k]
  BY DEF Goto, TypeInv, TypeOK, Handler

LEMMA HandlerRun ==
  ASSUME OneCommandHandler, RunInv, TypeInv', NEW h \in Handlers, HandlerStep(h)
  PROVE  RunInv'
<1> USE DEF At
<1> DEFINE hd == handlers[h]
<1>0. /\ TypeInv /\ hd \in Handler /\ AtHome(h) /\ handlers \in [Handlers -> Handler]
      /\ CommandHandlers \subseteq Handlers /\ CommandHandlers \cap ChatHandlers = {}
  BY PipelineAssumption DEF RunInv, TypeInv, TypeOK, Handlers
<1>1. hd.pc \in CommandSteps =>
          /\ h \in CommandHandlers /\ hd.cur \in Commands
          /\ \A k \in CommandHandlers : k = h
  BY <1>0 DEF AtHome, Kind, CommandSteps, OneCommandHandler
<1>2. ASSUME Leave(h, {}, {hd.cur}) \/ Leave(h, {hd.cur}, {}), UNCHANGED <<commands, ran>>
      PROVE  RunInv'
  <2>1. handlers'[h].pc = "idle" /\ \A k \in Handlers \ {h} : handlers'[k] = handlers[k]
    BY <1>0, <1>2, LeavePc
  <2> QED BY <1>0, <1>2, <2>1, RunFrame
<1>3. CASE Begin(h) \/ EndBatch(h)
  <2>1. /\ handlers'[h].pc \in {"read", "find", "idle"}
        /\ \A k \in Handlers \ {h} : handlers'[k] = handlers[k]
        /\ UNCHANGED <<commands, ran>>
    BY <1>0, <1>3 DEF Begin, EndBatch, tables, Handler, NoBatch
  <2> QED BY <1>0, <2>1, RunFrame
<1>4. CASE Read(h) \/ Create(h) \/ Weigh(h) \/ WriteWeight(h) \/ Sync(h)
  <2>1. h \in ChatHandlers
    BY <1>0, <1>4 DEF Read, Create, Weigh, WriteWeight, Sync, AtHome, ChatSteps
  <2>2. UNCHANGED <<commands, ran>>
    BY <1>4 DEF Read, Create, Weigh, WriteWeight, Sync, tables
  <2>3. \E new : handlers' = [handlers EXCEPT ![h] = new]
    BY <1>4 DEF Read, Create, Weigh, WriteWeight, Sync, NextRow, Goto, Good, Bad, Leave
  <2> QED BY <1>0, <2>1, <2>2, <2>3, RunFrame
<1>5. CASE Find(h)
  <2>1. UNCHANGED <<commands, ran>> /\ hd.pc = "find"
    BY <1>5 DEF Find, tables
  <2>2. CASE Goto(h, "record")
    <3>1. handlers'[h].pc = "record" /\ \A k \in Handlers \ {h} : handlers'[k] = handlers[k]
      BY <1>0, <2>2, GotoPc
    <3> QED BY <1>0, <2>1, <3>1, RunFrame
  <2>3. CASE commands[hd.cur] = "received" /\ Goto(h, "claim")
    <3>1. handlers'[h].pc = "claim" /\ handlers'[h].cur = hd.cur
      BY <1>0, <2>3, GotoPc
    <3> QED BY <1>1, <2>1, <2>3, <3>1 DEF RunInv, Ready, CommandSteps, Outcomes
  <2> QED BY <1>2, <1>5, <2>1, <2>2, <2>3 DEF Find, Good
<1>6. CASE Record(h)
  <2>1. UNCHANGED ran /\ hd.pc = "record"
    BY <1>6 DEF Record
  <2>2. CASE commands[hd.cur] # "none"
    BY <1>2, <1>6, <2>1, <2>2 DEF Record, Bad
  <2>3. CASE commands[hd.cur] = "none"
    <3>1. Goto(h, "claim") /\ commands' = [commands EXCEPT ![hd.cur] = "received"]
      BY <1>6, <2>3 DEF Record
    <3>2. handlers'[h].pc = "claim" /\ handlers'[h].cur = hd.cur
      BY <1>0, <3>1, GotoPc
    <3> QED BY <1>1, <2>1, <2>3, <3>1, <3>2
            DEF RunInv, TypeInv, TypeOK, Ready, CommandSteps, Outcomes
  <2> QED BY <2>2, <2>3
<1>7. CASE Claim(h)
  <2>1. /\ Goto(h, "run") /\ commands' = [commands EXCEPT ![hd.cur] = "claimed"]
        /\ UNCHANGED ran /\ hd.pc = "claim"
    BY <1>7 DEF Claim
  <2>2. handlers'[h].pc = "run" /\ handlers'[h].cur = hd.cur
    BY <1>0, <2>1, GotoPc
  <2>3. ran[hd.cur] = 0
    BY <1>1, <2>1 DEF RunInv, Ready, CommandSteps, Outcomes
  <2> QED BY <1>1, <2>1, <2>2, <2>3 DEF RunInv, TypeInv, TypeOK, Ready, CommandSteps, Outcomes
<1>8. CASE Run(h)
  <2>1. /\ Goto(h, "finish") /\ ran' = [ran EXCEPT ![hd.cur] = @ + 1]
        /\ UNCHANGED commands /\ hd.pc = "run"
    BY <1>8 DEF Run
  <2>2. handlers'[h].pc = "finish" /\ handlers'[h].cur = hd.cur
    BY <1>0, <2>1, GotoPc
  <2>3. commands[hd.cur] = "claimed" /\ ran[hd.cur] = 0
    BY <1>1, <2>1 DEF RunInv, Ready, CommandSteps, Outcomes
  <2> QED BY <1>1, <2>1, <2>2, <2>3 DEF RunInv, TypeInv, TypeOK, Ready, CommandSteps, Outcomes
<1>9. CASE Finish(h)
  <2>1. PICK status \in {"succeeded", "failed"} :
            commands' = [commands EXCEPT ![hd.cur] = status]
    BY <1>9 DEF Finish
  <2>2. Leave(h, {hd.cur}, {}) /\ UNCHANGED ran /\ hd.pc = "finish"
    BY <1>9 DEF Finish, Good
  <2>3. handlers'[h].pc = "idle"
    BY <1>0, <2>2, LeavePc
  <2> QED BY <1>1, <2>1, <2>2, <2>3 DEF RunInv, TypeInv, TypeOK, Ready, CommandSteps, Outcomes
<1> QED BY <1>3, <1>4, <1>5, <1>6, <1>7, <1>8, <1>9 DEF HandlerStep

LEMMA RunStep == ASSUME OneCommandHandler PROVE RunInv /\ [Next]_vars => RunInv'
<1> SUFFICES ASSUME RunInv, [Next]_vars PROVE RunInv'
  OBVIOUS
<1>1. TypeInv' /\ TypeInv /\ CommandHandlers \subseteq Handlers
  BY TypeStep DEF RunInv, Handlers
<1>2. CASE UNCHANGED vars
  BY <1>1, <1>2, RunFrame DEF vars
<1>3. ASSUME NEW h \in Handlers, NEW m \in Messages, Deliver(h, m) PROVE RunInv'
  <2>1. /\ handlers'[h].pc = handlers[h].pc
        /\ \A k \in Handlers \ {h} : handlers'[k] = handlers[k]
        /\ UNCHANGED <<commands, ran>> /\ handlers[h].pc = "idle"
    BY <1>1, <1>3 DEF Deliver, Open, tables, TypeInv, TypeOK, Handler
  <2> QED BY <1>1, <2>1, RunFrame
<1>4. ASSUME NEW m \in Messages, AckWait(m) PROVE RunInv'
  BY <1>1, <1>4, RunFrame DEF AckWait, tables
<1>5. ASSUME NEW h \in Handlers, StatementFails(h) \/ Crash(h) PROVE RunInv'
  <2>1. /\ handlers'[h].pc = "idle"
        /\ \A k \in Handlers \ {h} : handlers'[k] = handlers[k]
        /\ UNCHANGED <<commands, ran>>
    BY <1>1, <1>5, LeavePc DEF StatementFails, Crash, Bad, tables, TypeInv, TypeOK, NoBatch
  <2> QED BY <1>1, <2>1, RunFrame
<1> QED BY <1>1, <1>2, <1>3, <1>4, <1>5, HandlerRun DEF Next

\* With one processor of commands no command is executed twice, whatever is
\* delivered again, and wherever the processor fails or crashes.
THEOREM CommandsRunOnce ==
  ASSUME OneCommandHandler PROVE Spec => []CommandRunsAtMostOnce
<1>1. RunInv => CommandRunsAtMostOnce
  BY DEF RunInv, CommandRunsAtMostOnce
<1> QED BY RunInit, RunStep, <1>1, PTL DEF Spec

LEMMA OutcomeStep ==
  ASSUME OneCommandHandler, RunInv, [Next]_vars
  PROVE  \A c \in Commands : commands[c] \in Outcomes => commands'[c] = commands[c]
<1>1. TypeInv /\ commands \in [Commands -> CommandStatuses] /\ CommandHandlers \subseteq Handlers
  BY DEF RunInv, TypeInv, TypeOK, Handlers
<1>2. ASSUME NEW h \in Handlers, Record(h) \/ Claim(h) \/ Finish(h)
      PROVE  \A c \in Commands : commands[c] \in Outcomes => commands'[c] = commands[c]
  <2>1. h \in CommandHandlers /\ handlers[h].cur \in Commands
    BY <1>1, <1>2, PipelineAssumption
       DEF Record, Claim, Finish, At, TypeInv, AtHome, CommandSteps, Kind
  <2>2. \/ UNCHANGED commands
        \/ \E status : commands' = [commands EXCEPT ![handlers[h].cur] = status]
    BY <1>2 DEF Record, Claim, Finish
  <2>3. commands[handlers[h].cur] \notin Outcomes \/ UNCHANGED commands
    BY <1>2, <2>1 DEF Record, Claim, Finish, At, RunInv, Ready, Outcomes
  <2> QED BY <1>1, <2>2, <2>3
<1>3. ASSUME NEW h \in Handlers, HandlerStep(h), ~(Record(h) \/ Claim(h) \/ Finish(h))
      PROVE  UNCHANGED commands
  BY <1>3 DEF HandlerStep, Begin, EndBatch, Read, Create, Weigh, WriteWeight, Sync, Find,
              Run, tables
<1>4. \/ \E h \in Handlers : HandlerStep(h)
      \/ UNCHANGED commands
  BY DEF Next, vars, StatementFails, Crash, Deliver, AckWait, tables
<1> QED BY <1>2, <1>3, <1>4

\* With one processor of commands the outcome of a command is final, however
\* often it is delivered again and wherever the processor fails.
THEOREM OutcomesAreFinal ==
  ASSUME OneCommandHandler PROVE Spec => OutcomeIsFinal
<1>1. RunInv /\ [Next]_vars =>
          [\A c \in Commands : commands[c] \in Outcomes => commands'[c] = commands[c]]_vars
  BY OutcomeStep
<1> QED BY RunInit, RunStep, <1>1, PTL DEF Spec, OutcomeIsFinal

------------------------------------------------------------------------------
(* An acknowledged command has an outcome.  Without a fault a claimed       *)
(* command is the one its processor is running, so that the processor never *)
(* finds one claimed and takes it for handled.                              *)

Executed(c) == commands[c] \in Outcomes

ExecInv ==
    /\ RunInv
    /\ faults = 0 =>
          /\ \A c \in Commands : commands[c] = "claimed" =>
                \E h \in CommandHandlers : /\ handlers[h].pc \in {"run", "finish"}
                                           /\ handlers[h].cur = c
          /\ \A h \in Handlers : \A c \in handlers[h].good \cap Commands : Executed(c)
          /\ \A c \in Commands : stream[c] = "acked" => Executed(c)

LEMMA ExecInit == Init => ExecInv
  BY RunInit DEF Init, ExecInv, NoBatch, Handlers, Messages

LEMMA FaultsStep ==
  ASSUME TypeInv, [Next]_vars
  PROVE  faults' = 0 => faults = 0
<1>1. faults \in Nat
  BY PipelineAssumption DEF TypeInv, TypeOK
<1>2. ASSUME NEW h \in Handlers, HandlerStep(h) PROVE UNCHANGED faults
  BY <1>2 DEF HandlerStep, Begin, EndBatch, Read, Create, Weigh, WriteWeight, Sync, Find,
              Record, Claim, Run, Finish
<1>3. ASSUME NEW h \in Handlers, StatementFails(h) \/ Crash(h) PROVE faults' = faults + 1
  BY <1>3 DEF StatementFails, Crash, Fault
<1>4. ASSUME NEW h \in Handlers, NEW m \in Messages, Deliver(h, m) PROVE UNCHANGED faults
  BY <1>4 DEF Deliver
<1>5. ASSUME NEW m \in Messages, AckWait(m) PROVE UNCHANGED faults
  BY <1>5 DEF AckWait
<1>6. CASE UNCHANGED vars
  BY <1>6 DEF vars
<1> QED BY <1>1, <1>2, <1>3, <1>4, <1>5, <1>6 DEF Next

\* What is claimed after a step is being run, and what it takes for handled,
\* or the stream for acknowledged, has its outcome.
LEMMA ExecFrame ==
  ASSUME OneCommandHandler, ExecInv, RunInv', [Next]_vars,
         \A h \in Handlers : \A c \in handlers'[h].good \cap Commands :
            c \in handlers[h].good \/ (faults' = 0 => Executed(c)'),
         \A c \in Commands : (faults' = 0 /\ commands'[c] = "claimed") =>
            \E h \in CommandHandlers : /\ handlers'[h].pc \in {"run", "finish"}
                                       /\ handlers'[h].cur = c,
         \A c \in Commands : stream'[c] = "acked" =>
            stream[c] = "acked" \/ \E h \in Handlers : c \in handlers[h].good
  PROVE  ExecInv'
<1>1. \A c \in Commands : Executed(c) => Executed(c)'
  BY OutcomeStep DEF ExecInv, Executed
<1>2. faults' = 0 => faults = 0
  BY FaultsStep DEF ExecInv, RunInv
<1> QED BY <1>1, <1>2 DEF ExecInv

\* A step that leaves the commands alone, and nobody who is running one.
LEMMA ExecQuiet ==
  ASSUME OneCommandHandler, ExecInv, RunInv', [Next]_vars, UNCHANGED <<commands, stream>>,
         NEW h \in Handlers, \A k \in Handlers \ {h} : handlers'[k] = handlers[k],
         \/ handlers[h].pc \notin {"run", "finish"}
         \/ handlers'[h].pc = "finish" /\ handlers'[h].cur = handlers[h].cur
         \/ faults' # 0,
         \A c \in handlers'[h].good \cap Commands :
            c \in handlers[h].good \/ (faults' = 0 => Executed(c))
  PROVE  ExecInv'
<1>1. faults' = 0 => faults = 0
  BY FaultsStep DEF ExecInv, RunInv
<1>2. CommandHandlers \subseteq Handlers
  BY DEF Handlers
<1>3. ASSUME NEW c \in Commands, faults' = 0, commands'[c] = "claimed"
      PROVE  \E k \in CommandHandlers : /\ handlers'[k].pc \in {"run", "finish"}
                                        /\ handlers'[k].cur = c
  BY <1>1, <1>2, <1>3 DEF ExecInv
<1>4. \A k \in Handlers : \A c \in handlers'[k].good \cap Commands :
          c \in handlers[k].good \/ (faults' = 0 => Executed(c)')
  BY DEF Executed
<1> QED BY <1>3, <1>4, ExecFrame

LEMMA NextRowPc ==
  ASSUME TypeInv, NEW h \in Handlers, NEW created, NextRow(h, created)
  PROVE  /\ handlers'[h].pc = IF handlers[h].at # Len(Steps) THEN "read"
                              ELSE IF created THEN "weigh" ELSE "sync"
         /\ handlers'[h].seen = handlers[h].seen
         /\ \A k \in Handlers \ {h} : handlers'[k] = handlers[k]
  BY DEF NextRow, TypeInv, TypeOK, Handler

LEMMA GoodAfter ==
  ASSUME TypeInv, NEW h \in Handlers
  PROVE  /\ Good(h) => handlers'[h].good = handlers[h].good \union {handlers[h].cur}
         /\ Bad(h) => handlers'[h].good = handlers[h].good
         /\ \A pc : Goto(h, pc) => handlers'[h].good = handlers[h].good
         /\ \A created : NextRow(h, created) => handlers'[h].good = handlers[h].good
<1>1. handlers \in [Handlers -> Handler]
  BY DEF TypeInv, TypeOK
<1>2. ASSUME NEW good, NEW bad, Leave(h, good, bad)
      PROVE  handlers'[h].good = handlers[h].good \union good
  BY <1>1, <1>2 DEF Leave, NoBatch
<1>3. ASSUME NEW pc, Goto(h, pc) PROVE handlers'[h].good = handlers[h].good
  BY <1>1, <1>3 DEF Goto, Handler
<1>4. ASSUME NEW created, NextRow(h, created) PROVE handlers'[h].good = handlers[h].good
  BY <1>1, <1>4 DEF NextRow, Handler
<1> QED BY <1>2, <1>3, <1>4 DEF Good, Bad

LEMMA HandlerExec ==
  ASSUME OneCommandHandler, ExecInv, RunInv', NEW h \in Handlers, HandlerStep(h)
  PROVE  ExecInv'
<1> USE DEF At
<1> DEFINE hd == handlers[h]
<1>0. /\ RunInv /\ TypeInv /\ hd \in Handler /\ AtHome(h) /\ [Next]_vars
      /\ handlers \in [Handlers -> Handler] /\ commands \in [Commands -> CommandStatuses]
      /\ Chats \cap Commands = {}
  BY PipelineAssumption DEF ExecInv, RunInv, TypeInv, TypeOK, Next
<1>1. hd.pc \in CommandSteps =>
          h \in CommandHandlers /\ hd.cur \in Commands /\ \A k \in CommandHandlers : k = h
  BY <1>0, PipelineAssumption DEF AtHome, Kind, CommandSteps, OneCommandHandler
<1>2. hd.pc \in ChatSteps => hd.cur \notin Commands
  BY <1>0 DEF AtHome, Kind, ChatSteps
<1>3. CASE Begin(h)
  <2>1. /\ handlers'[h].good = hd.good /\ hd.pc = "idle" /\ UNCHANGED <<commands, stream>>
        /\ \A k \in Handlers \ {h} : handlers'[k] = handlers[k]
    BY <1>0, <1>3 DEF Begin, tables, Handler
  <2> QED BY <1>0, <2>1, ExecQuiet
<1>4. CASE EndBatch(h)
  <2>1. /\ handlers'[h].good = {} /\ hd.pc = "idle" /\ UNCHANGED <<commands, faults>>
        /\ \A k \in Handlers \ {h} : handlers'[k] = handlers[k]
    BY <1>0, <1>4 DEF EndBatch, tables, NoBatch
  <2>2. \A c \in Commands : stream'[c] = "acked" => stream[c] = "acked" \/ c \in hd.good
    BY <1>0, <1>4 DEF EndBatch, Messages
  <2>3. ASSUME NEW c \in Commands, faults' = 0, commands'[c] = "claimed"
        PROVE  \E k \in CommandHandlers : /\ handlers'[k].pc \in {"run", "finish"}
                                          /\ handlers'[k].cur = c
    BY <2>1, <2>3 DEF ExecInv, Handlers
  <2> QED BY <1>0, <2>1, <2>2, <2>3, ExecFrame
<1>5. CASE Read(h) \/ Create(h) \/ Weigh(h) \/ WriteWeight(h) \/ Sync(h)
  <2>1. hd.pc \in ChatSteps /\ UNCHANGED <<commands, stream>>
    BY <1>5 DEF Read, Create, Weigh, WriteWeight, Sync, tables, ChatSteps
  <2>2. hd.pc \notin {"run", "finish"}
    BY <2>1 DEF ChatSteps
  <2>3. ASSUME handlers'[h].good \subseteq hd.good \union {hd.cur},
               \A k \in Handlers \ {h} : handlers'[k] = handlers[k]
        PROVE  ExecInv'
    BY <1>0, <1>2, <2>1, <2>2, <2>3, ExecQuiet
  <2>4. CASE Weigh(h)
    <3>1. handlers'[h].good = hd.good /\ \A k \in Handlers \ {h} : handlers'[k] = handlers[k]
      BY <1>0, <2>4 DEF Weigh, Handler
    <3> QED BY <2>3, <3>1
  <2>5. CASE WriteWeight(h) /\ ~Bad(h)
    <3>1. handlers' = [handlers EXCEPT ![h] = [hd EXCEPT !.pc = "sync", !.seen = hd.seen + 1]]
      BY <2>5 DEF WriteWeight
    <3>2. handlers'[h].good = hd.good /\ \A k \in Handlers \ {h} : handlers'[k] = handlers[k]
      BY <1>0, <3>1 DEF Handler
    <3> QED BY <2>3, <3>2
  <2>6. ASSUME Good(h) \/ Bad(h) \/ (\E pc : Goto(h, pc)) \/ \E created : NextRow(h, created)
        PROVE  ExecInv'
    <3>1. /\ handlers'[h].good \subseteq hd.good \union {hd.cur}
          /\ \A k \in Handlers \ {h} : handlers'[k] = handlers[k]
      BY <1>0, <2>6, GoodAfter, LeavePc, GotoPc, NextRowPc DEF Good, Bad
    <3> QED BY <2>3, <3>1
  <2> QED BY <1>5, <2>4, <2>5, <2>6 DEF Read, Create, WriteWeight, Sync
<1>6. CASE Find(h)
  <2>1. /\ UNCHANGED <<commands, stream>> /\ hd.pc = "find"
        /\ h \in CommandHandlers /\ hd.cur \in Commands /\ \A k \in CommandHandlers : k = h
    BY <1>1, <1>6 DEF Find, tables, CommandSteps
  <2>2. faults' = 0 => commands[hd.cur] # "claimed"
    BY <1>6, <2>1 DEF ExecInv, Find
  <2>3. \A k \in Handlers \ {h} : handlers'[k] = handlers[k]
    BY <1>0, <1>6 DEF Find, Good, Leave, Goto
  <2>4. \A c \in handlers'[h].good \cap Commands :
            c \in hd.good \/ (faults' = 0 => Executed(c))
    BY <1>0, <1>6, <2>2, GoodAfter DEF Find, Executed, Outcomes
  <2> QED BY <1>0, <2>1, <2>3, <2>4, ExecQuiet
<1>7. CASE Record(h)
  <2>1. /\ UNCHANGED stream /\ hd.pc = "record" /\ handlers'[h].good = hd.good
        /\ \A k \in Handlers \ {h} : handlers'[k] = handlers[k]
        /\ \A c \in Commands : commands'[c] = "claimed" => commands[c] = "claimed"
    BY <1>0, <1>7, GoodAfter DEF Record, Bad, Leave, Goto
  <2>2. ASSUME NEW c \in Commands, faults' = 0, commands'[c] = "claimed"
        PROVE  \E k \in CommandHandlers : /\ handlers'[k].pc \in {"run", "finish"}
                                          /\ handlers'[k].cur = c
    BY <1>7, <2>1, <2>2 DEF ExecInv, Handlers, Record
  <2> QED BY <1>0, <2>1, <2>2, ExecFrame
<1>8. CASE Claim(h)
  <2>1. /\ UNCHANGED <<stream, faults>> /\ hd.pc = "claim" /\ handlers'[h].good = hd.good
        /\ handlers'[h].pc = "run" /\ handlers'[h].cur = hd.cur
        /\ \A k \in Handlers \ {h} : handlers'[k] = handlers[k]
        /\ \A c \in Commands : commands'[c] = "claimed" => commands[c] = "claimed" \/ c = hd.cur
    BY <1>0, <1>8, GoodAfter, GotoPc DEF Claim
  <2>2. h \in CommandHandlers
    BY <1>1, <2>1 DEF CommandSteps
  <2>3. ASSUME NEW c \in Commands, faults' = 0, commands'[c] = "claimed"
        PROVE  \E k \in CommandHandlers : /\ handlers'[k].pc \in {"run", "finish"}
                                          /\ handlers'[k].cur = c
    BY <2>1, <2>2, <2>3 DEF ExecInv, Handlers
  <2> QED BY <1>0, <2>1, <2>3, ExecFrame
<1>9. CASE Run(h)
  <2>1. /\ UNCHANGED <<commands, stream>> /\ handlers'[h].good = hd.good
        /\ handlers'[h].pc = "finish" /\ handlers'[h].cur = hd.cur
        /\ \A k \in Handlers \ {h} : handlers'[k] = handlers[k]
    BY <1>0, <1>9, GoodAfter, GotoPc DEF Run
  <2> QED BY <1>0, <2>1, ExecQuiet
<1>10. CASE Finish(h)
  <2>1. /\ UNCHANGED <<stream, faults>> /\ hd.pc = "finish"
        /\ handlers'[h].good = hd.good \union {hd.cur}
        /\ \A k \in Handlers \ {h} : handlers'[k] = handlers[k]
    BY <1>0, <1>10, GoodAfter DEF Finish, Good, Leave
  <2>2. h \in CommandHandlers /\ hd.cur \in Commands /\ \A k \in CommandHandlers : k = h
    BY <1>1, <2>1 DEF CommandSteps
  <2>3. /\ commands'[hd.cur] \in Outcomes
        /\ \A c \in Commands \ {hd.cur} : commands'[c] = commands[c]
    BY <1>0, <1>10, <2>2 DEF Finish, Outcomes
  <2>4. ASSUME NEW c \in Commands, faults' = 0, commands'[c] = "claimed"
        PROVE  FALSE
    <3>1. c # hd.cur
      BY <2>3, <2>4 DEF Outcomes
    <3>2. commands[c] = "claimed" /\ faults = 0
      BY <2>1, <2>3, <2>4, <3>1
    <3>3. PICK k \in CommandHandlers : handlers[k].cur = c
      BY <3>2 DEF ExecInv
    <3> QED BY <2>2, <3>1, <3>3
  <2>5. \A k \in Handlers : \A c \in handlers'[k].good \cap Commands :
            c \in handlers[k].good \/ Executed(c)'
    BY <2>1, <2>3 DEF Executed
  <2> QED BY <1>0, <2>1, <2>4, <2>5, ExecFrame
<1> QED BY <1>3, <1>4, <1>5, <1>6, <1>7, <1>8, <1>9, <1>10 DEF HandlerStep

LEMMA ExecStep == ASSUME OneCommandHandler PROVE ExecInv /\ [Next]_vars => ExecInv'
<1> SUFFICES ASSUME ExecInv, [Next]_vars PROVE ExecInv'
  OBVIOUS
<1>1. RunInv' /\ TypeInv
  BY RunStep DEF ExecInv, RunInv
<1>2. CASE UNCHANGED vars
  BY <1>1, <1>2 DEF vars, ExecInv, Executed
<1>3. ASSUME NEW h \in Handlers, NEW m \in Messages, Deliver(h, m) PROVE ExecInv'
  <2>1. /\ handlers'[h].good = handlers[h].good /\ handlers[h].pc = "idle"
        /\ \A k \in Handlers \ {h} : handlers'[k] = handlers[k]
        /\ UNCHANGED <<commands, faults>>
    BY <1>1, <1>3 DEF Deliver, Open, tables, TypeInv, TypeOK, Handler
  <2>2. \A c \in Commands : stream'[c] = "acked" => stream[c] = "acked"
    BY <1>1, <1>3 DEF Deliver, TypeInv, TypeOK, Messages
  <2>3. ASSUME NEW c \in Commands, faults' = 0, commands'[c] = "claimed"
        PROVE  \E k \in CommandHandlers : /\ handlers'[k].pc \in {"run", "finish"}
                                          /\ handlers'[k].cur = c
    BY <2>1, <2>3 DEF ExecInv, Handlers
  <2> QED BY <1>1, <2>1, <2>2, <2>3, ExecFrame
<1>4. ASSUME NEW m \in Messages, AckWait(m) PROVE ExecInv'
  <2>1. UNCHANGED <<handlers, commands, faults>>
    BY <1>4 DEF AckWait, tables
  <2>2. \A c \in Commands : stream'[c] = "acked" => stream[c] = "acked"
    BY <1>1, <1>4 DEF AckWait, TypeInv, TypeOK, Messages
  <2> QED BY <1>1, <2>1, <2>2, ExecFrame DEF ExecInv
<1>5. ASSUME NEW h \in Handlers, StatementFails(h) \/ Crash(h) PROVE ExecInv'
  <2>1. /\ handlers'[h].good \subseteq handlers[h].good
        /\ \A k \in Handlers \ {h} : handlers'[k] = handlers[k]
        /\ UNCHANGED <<commands, stream>>
    BY <1>1, <1>5, LeavePc, GoodAfter
       DEF StatementFails, Crash, Bad, tables, TypeInv, TypeOK, NoBatch
  <2>2. faults' # 0
    BY <1>1, <1>5, PipelineAssumption DEF StatementFails, Crash, Fault, TypeInv, TypeOK
  <2> QED BY <1>1, <2>1, <2>2, ExecQuiet
<1> QED BY <1>1, <1>2, <1>3, <1>4, <1>5, HandlerExec DEF Next

\* With one processor of commands, an outcome is that of the one run there was,
\* and without faults an acknowledged command has one: no redelivery takes the
\* command its processor is running for one that is handled.
THEOREM AcknowledgedAreExecuted ==
  ASSUME OneCommandHandler PROVE Spec => []AckedIsExecuted
<1>1. ExecInv => AckedIsExecuted
  BY DEF ExecInv, RunInv, AckedIsExecuted, Executed
<1> QED BY ExecInit, ExecStep, <1>1, PTL DEF Spec

------------------------------------------------------------------------------
(* No message counts twice.  The weight leaves room for every processor    *)
(* that made an observation and has not counted it yet; so do the edge and *)
(* the weight a processor read or wrote, however old they are.             *)

Counting == {h \in Handlers : handlers[h].pc \in {"weigh", "write"}}

Room(n) == n + Cardinality(Counting) <= Cardinality(Observations)

CountInv == /\ TypeInv
            /\ IsFiniteSet(rows) /\ IsFiniteSet(Counting)
            /\ Room(weight) /\ Room(edge)
            /\ \A h \in Handlers : Room(handlers[h].seen)

LEMMA CountInit == Init => CountInv
<1> SUFFICES ASSUME Init PROVE CountInv
  OBVIOUS
<1>1. rows = {} /\ Counting = {} /\ Observations = {} /\ weight = 0 /\ edge = 0
  BY DEF Init, Counting, Observations, NoBatch
<1>2. \A h \in Handlers : handlers[h].seen = 0
  BY DEF Init, NoBatch
<1> QED BY <1>1, <1>2, TypeInit, FS_EmptySet DEF CountInv, Room

LEMMA ObservationsFinite ==
  ASSUME IsFiniteSet(rows)
  PROVE  IsFiniteSet(Observations) /\ Cardinality(Observations) \in Nat
  BY FS_Subset, FS_CardinalityType DEF Observations

\* A step that makes nobody count, and after which no weight is about that
\* there was no room for.
LEMMA CountFrame ==
  ASSUME CountInv, TypeInv', rows \subseteq rows', IsFiniteSet(rows'), Counting' \subseteq Counting,
         Room(weight'), Room(edge'), \A h \in Handlers : Room(handlers'[h].seen)
  PROVE  CountInv'
<1>1. /\ IsFiniteSet(Counting') /\ Cardinality(Counting') <= Cardinality(Counting)
      /\ Cardinality(Counting) \in Nat /\ Cardinality(Counting') \in Nat
  BY FS_Subset, FS_CardinalityType DEF CountInv
<1>2. /\ Cardinality(Observations) \in Nat /\ Cardinality(Observations') \in Nat
      /\ Cardinality(Observations) <= Cardinality(Observations')
  <2>1. Observations \subseteq Observations'
    BY DEF Observations
  <2>2. IsFiniteSet(Observations') /\ Cardinality(Observations') \in Nat
    BY FS_Subset, FS_CardinalityType DEF Observations
  <2> QED BY <2>1, <2>2, ObservationsFinite, FS_Subset DEF CountInv
<1>3. ASSUME NEW n \in Nat, Room(n)
      PROVE  n + Cardinality(Counting') <= Cardinality(Observations')
  BY <1>1, <1>2, <1>3 DEF Room
<1>4. weight' \in Nat /\ edge' \in Nat /\ \A h \in Handlers : handlers'[h].seen \in Nat
  BY DEF TypeInv, TypeOK, Handler
<1>5. Room(weight)' /\ Room(edge)'
  BY <1>3, <1>4 DEF Room
<1>6. \A h \in Handlers : handlers'[h].seen + Cardinality(Counting') <= Cardinality(Observations')
  BY <1>3, <1>4
<1> QED BY <1>1, <1>5, <1>6 DEF CountInv, Room

LEMMA RoomForNothing == CountInv => Room(0)
<1> SUFFICES ASSUME CountInv PROVE Room(0)
  OBVIOUS
<1>1. /\ weight \in Nat /\ Cardinality(Counting) \in Nat
      /\ Cardinality(Observations) \in Nat
  BY ObservationsFinite, FS_CardinalityType DEF CountInv, TypeInv, TypeOK
<1> QED BY <1>1 DEF CountInv, Room

\* The processor h is at a step that does not count, or goes on to one.
LEMMA CountQuiet ==
  ASSUME CountInv, TypeInv', UNCHANGED weight, rows \subseteq rows', IsFiniteSet(rows'),
         NEW h \in Handlers, \A k \in Handlers \ {h} : handlers'[k] = handlers[k],
         handlers'[h].pc \notin {"weigh", "write"},
         handlers'[h].seen \in {0, handlers[h].seen},
         edge' \in {edge, handlers[h].seen}
  PROVE  CountInv'
<1>1. Counting' \subseteq Counting
  BY DEF Counting
<1>2. Room(weight') /\ Room(edge') /\ \A k \in Handlers : Room(handlers'[k].seen)
  BY RoomForNothing DEF CountInv
<1> QED BY <1>1, <1>2, CountFrame

\* A new observation, and a processor that is to count it.
LEMMA CreateCount ==
  ASSUME CountInv, TypeInv', NEW h \in Handlers, Create(h)
  PROVE  CountInv'
<1> DEFINE hd == handlers[h]
           row == RowOf(hd.at, hd.cur)
<1>0. TypeInv /\ hd \in Handler /\ hd.pc = "create" /\ UNCHANGED <<weight, edge>>
      /\ handlers \in [Handlers -> Handler]
  BY DEF CountInv, TypeInv, TypeOK, Create, At
<1>1. CASE row \in rows
  <2>1. UNCHANGED rows /\ Leave(h, {}, {hd.cur})
    BY <1>1 DEF Create, Bad
  <2> QED BY <1>0, <2>1, LeavePc, CountQuiet DEF CountInv
<1>2. CASE row \notin rows
  <2>1. NextRow(h, TRUE) /\ rows' = rows \union {row}
    BY <1>2 DEF Create
  <2>2. IsFiniteSet(rows') /\ rows \subseteq rows'
    BY <2>1, FS_AddElement DEF CountInv
  <2>3. CASE hd.at # Len(Steps)
    BY <1>0, <2>1, <2>2, <2>3, NextRowPc, CountQuiet
  <2>4. CASE hd.at = Len(Steps)
    <3>1. /\ handlers'[h].pc = "weigh" /\ handlers'[h].seen = hd.seen
          /\ \A k \in Handlers \ {h} : handlers'[k] = handlers[k]
      BY <1>0, <2>1, <2>4, NextRowPc
    <3>2. Counting' = Counting \union {h} /\ h \notin Counting
      BY <1>0, <3>1 DEF Counting
    <3>3. Observations' = Observations \union {row} /\ row \notin Observations
      <4>1. row.row = "observation"
        BY <2>4, StepsDomain DEF RowOf, Steps
      <4> QED BY <1>2, <2>1, <4>1 DEF Observations
    <3>4. /\ IsFiniteSet(Counting')
          /\ Cardinality(Counting') = Cardinality(Counting) + 1
          /\ Cardinality(Counting) \in Nat
      BY <3>2, FS_AddElement, FS_CardinalityType DEF CountInv
    <3>5. /\ Cardinality(Observations') = Cardinality(Observations) + 1
          /\ Cardinality(Observations) \in Nat
      BY <3>3, ObservationsFinite, FS_AddElement DEF CountInv
    <3>6. ASSUME NEW n \in Nat, Room(n)
          PROVE  n + Cardinality(Counting') <= Cardinality(Observations')
      BY <3>4, <3>5, <3>6 DEF Room
    <3>7. weight \in Nat /\ edge \in Nat /\ \A k \in Handlers : handlers[k].seen \in Nat
      BY <1>0 DEF TypeInv, TypeOK, Handler
    <3>8. Room(weight)' /\ Room(edge)'
      BY <1>0, <3>6, <3>7 DEF CountInv, Room
    <3>9. ASSUME NEW k \in Handlers
          PROVE  handlers'[k].seen + Cardinality(Counting') <= Cardinality(Observations')
      <4>1. handlers'[k].seen = handlers[k].seen
        BY <3>1
      <4> QED BY <3>6, <3>7, <4>1 DEF CountInv
    <3> QED BY <2>2, <3>4, <3>8, <3>9 DEF CountInv, Room
  <2> QED BY <2>3, <2>4
<1> QED BY <1>1, <1>2

\* A processor that has counted its observation.
LEMMA WriteCount ==
  ASSUME CountInv, TypeInv', NEW h \in Handlers, WriteWeight(h)
  PROVE  CountInv'
<1> DEFINE hd == handlers[h]
<1>0. /\ TypeInv /\ hd \in Handler /\ hd.pc = "write" /\ UNCHANGED <<rows, edge>>
      /\ handlers \in [Handlers -> Handler] /\ IsFiniteSet(rows)
  BY DEF CountInv, TypeInv, TypeOK, WriteWeight, At
<1>1. CASE hd.seen = 0 /\ weight > 0
  <2>1. UNCHANGED weight /\ Leave(h, {}, {hd.cur})
    BY <1>1 DEF WriteWeight, Bad
  <2> QED BY <1>0, <2>1, LeavePc, CountQuiet
<1>2. CASE ~(hd.seen = 0 /\ weight > 0)
  <2>1. /\ weight' = hd.seen + 1
        /\ handlers' = [handlers EXCEPT ![h] = [hd EXCEPT !.pc = "sync", !.seen = hd.seen + 1]]
    BY <1>2 DEF WriteWeight
  <2>2. /\ handlers'[h].pc = "sync" /\ handlers'[h].seen = hd.seen + 1
        /\ \A k \in Handlers \ {h} : handlers'[k] = handlers[k]
    BY <1>0, <2>1 DEF Handler
  <2>3. Counting' = Counting \ {h} /\ h \in Counting
    BY <1>0, <2>2 DEF Counting
  <2>4. /\ IsFiniteSet(Counting')
        /\ Cardinality(Counting') = Cardinality(Counting) - 1
        /\ Cardinality(Counting) \in Nat
    BY <2>3, FS_RemoveElement, FS_CardinalityType DEF CountInv
  <2>5. Observations' = Observations /\ Cardinality(Observations) \in Nat
    BY <1>0, ObservationsFinite DEF Observations
  <2>6. edge \in Nat /\ \A k \in Handlers : handlers[k].seen \in Nat
    BY <1>0 DEF TypeInv, TypeOK, Handler
  <2>7. hd.seen + 1 + Cardinality(Counting') <= Cardinality(Observations')
    BY <1>0, <2>4, <2>5, <2>6 DEF CountInv, Room
  <2>8. ASSUME NEW k \in Handlers
        PROVE  handlers'[k].seen + Cardinality(Counting') <= Cardinality(Observations')
    <3>1. CASE k = h
      BY <2>2, <2>7, <3>1
    <3>2. CASE k # h
      <4>1. handlers'[k] = handlers[k]
        BY <2>2, <3>2
      <4> QED BY <2>4, <2>5, <2>6, <4>1 DEF CountInv, Room
    <3> QED BY <3>1, <3>2
  <2>9. edge + Cardinality(Counting') <= Cardinality(Observations')
    BY <2>4, <2>5, <2>6 DEF CountInv, Room
  <2> QED BY <1>0, <2>1, <2>4, <2>7, <2>8, <2>9 DEF CountInv, Room
<1> QED BY <1>1, <1>2

LEMMA HandlerCount ==
  ASSUME CountInv, TypeInv', NEW h \in Handlers, HandlerStep(h)
  PROVE  CountInv'
<1> USE DEF At
<1> DEFINE hd == handlers[h]
<1>0. /\ TypeInv /\ hd \in Handler /\ handlers \in [Handlers -> Handler]
      /\ IsFiniteSet(rows)
  BY DEF CountInv, TypeInv, TypeOK
<1>1. CASE Create(h)
  BY <1>1, CreateCount
<1>2. CASE WriteWeight(h)
  BY <1>2, WriteCount
<1>3. CASE Weigh(h)
  <2>1. /\ handlers' = [handlers EXCEPT ![h] = [hd EXCEPT !.pc = "write", !.seen = weight]]
        /\ UNCHANGED <<rows, weight, edge>> /\ hd.pc = "weigh"
    BY <1>3 DEF Weigh, tables
  <2>2. /\ handlers'[h].pc = "write" /\ handlers'[h].seen = weight
        /\ \A k \in Handlers \ {h} : handlers'[k] = handlers[k]
    BY <1>0, <2>1 DEF Handler
  <2>3. Counting' \subseteq Counting
    BY <2>1, <2>2 DEF Counting
  <2>4. Room(weight') /\ Room(edge') /\ \A k \in Handlers : Room(handlers'[k].seen)
    BY <2>1, <2>2 DEF CountInv
  <2> QED BY <1>0, <2>1, <2>3, <2>4, CountFrame
<1>4. CASE Read(h)
  <2>1. UNCHANGED <<rows, weight, edge>>
    BY <1>4 DEF Read, tables
  <2>2. NextRow(h, FALSE) \/ Goto(h, "create")
    BY <1>4 DEF Read
  <2>3. /\ handlers'[h].pc \in {"read", "sync", "create"}
        /\ handlers'[h].seen = hd.seen
        /\ \A k \in Handlers \ {h} : handlers'[k] = handlers[k]
    BY <1>0, <2>2, NextRowPc, GotoPc
  <2> QED BY <1>0, <2>1, <2>3, CountQuiet
<1>5. CASE Begin(h) \/ EndBatch(h)
  <2>1. /\ handlers'[h].pc \in {"read", "find", "idle"}
        /\ handlers'[h].seen \in {0, hd.seen}
        /\ \A k \in Handlers \ {h} : handlers'[k] = handlers[k]
        /\ UNCHANGED <<rows, weight, edge>>
    BY <1>0, <1>5 DEF Begin, EndBatch, tables, Handler, NoBatch
  <2> QED BY <1>0, <2>1, CountQuiet
<1>6. CASE Sync(h) \/ Find(h) \/ Record(h) \/ Claim(h) \/ Run(h) \/ Finish(h)
  <2>1. UNCHANGED <<rows, weight>> /\ edge' \in {edge, hd.seen}
    BY <1>6 DEF Sync, Find, Record, Claim, Run, Finish, tables
  <2>2. \/ Leave(h, {hd.cur}, {}) \/ Leave(h, {}, {hd.cur})
        \/ \E pc \in {"record", "claim", "run", "finish"} : Goto(h, pc)
    BY <1>6 DEF Sync, Find, Record, Claim, Run, Finish, Good, Bad
  <2>3. /\ handlers'[h].pc \in {"idle", "record", "claim", "run", "finish"}
        /\ handlers'[h].seen \in {0, hd.seen}
        /\ \A k \in Handlers \ {h} : handlers'[k] = handlers[k]
    BY <1>0, <2>2, LeavePc, GotoPc
  <2> QED BY <1>0, <2>1, <2>3, CountQuiet
<1> QED BY <1>1, <1>2, <1>3, <1>4, <1>5, <1>6 DEF HandlerStep

LEMMA CountStep == CountInv /\ [Next]_vars => CountInv'
<1> SUFFICES ASSUME CountInv, [Next]_vars PROVE CountInv'
  OBVIOUS
<1>1. TypeInv' /\ TypeInv /\ IsFiniteSet(rows)
  BY TypeStep DEF CountInv
<1>2. CASE UNCHANGED vars
  <2>1. Counting' = Counting /\ UNCHANGED <<handlers, rows, weight, edge>>
    BY <1>2 DEF vars, Counting
  <2> QED BY <1>1, <2>1, CountFrame DEF CountInv
<1>3. ASSUME NEW h \in Handlers, NEW m \in Messages, Deliver(h, m) PROVE CountInv'
  <2>1. /\ handlers'[h].pc = "idle" /\ handlers'[h].seen \in {0, handlers[h].seen}
        /\ \A k \in Handlers \ {h} : handlers'[k] = handlers[k]
        /\ UNCHANGED <<rows, weight, edge>>
    BY <1>1, <1>3 DEF Deliver, Open, tables, TypeInv, TypeOK, Handler
  <2> QED BY <1>1, <2>1, CountQuiet
<1>4. ASSUME NEW m \in Messages, AckWait(m) PROVE CountInv'
  <2>1. Counting' = Counting /\ UNCHANGED <<handlers, rows, weight, edge>>
    BY <1>4 DEF AckWait, tables, Counting
  <2> QED BY <1>1, <2>1, CountFrame DEF CountInv
<1>5. ASSUME NEW h \in Handlers, StatementFails(h) \/ Crash(h) PROVE CountInv'
  <2>1. /\ handlers'[h].pc = "idle" /\ handlers'[h].seen \in {0, handlers[h].seen}
        /\ \A k \in Handlers \ {h} : handlers'[k] = handlers[k]
        /\ UNCHANGED <<rows, weight, edge>>
    BY <1>1, <1>5, LeavePc DEF StatementFails, Crash, Bad, tables, TypeInv, TypeOK, NoBatch
  <2> QED BY <1>1, <2>1, CountQuiet
<1> QED BY <1>1, <1>2, <1>3, <1>4, <1>5, HandlerCount DEF Next

\* A relationship never weighs more than the observations there are of it, in
\* the table or in the graph, for any number of pods, deliveries and faults.
THEOREM MessagesCountOnce == Spec => []NoMessageCountsTwice
<1>1. CountInv => NoMessageCountsTwice
  <2> SUFFICES ASSUME CountInv PROVE NoMessageCountsTwice
    OBVIOUS
  <2>1. /\ weight \in Nat /\ edge \in Nat /\ Cardinality(Counting) \in Nat
        /\ Cardinality(Observations) \in Nat
    BY ObservationsFinite, FS_CardinalityType DEF CountInv, TypeInv, TypeOK
  <2> QED BY <2>1 DEF CountInv, Room, NoMessageCountsTwice
<1> QED BY CountInit, CountStep, <1>1, PTL DEF Spec

------------------------------------------------------------------------------
(* Counts are exact.  With one processor of chats and no fault, who made an *)
(* observation and has not counted it yet is that processor: until it has   *)
(* written the weight, the weight is one less than the observations, and    *)
(* until it has synced the relationship it wrote, the edge is behind.       *)

OneChatHandler == \E h : ChatHandlers = {h}

ExactAt(h) ==
    LET hd == handlers[h] IN
    /\ hd.pc \in {"idle", "read", "create", "weigh"} => hd.seen = 0
    /\ weight + (IF hd.pc \in {"weigh", "write"} THEN 1 ELSE 0)
          = Cardinality(Observations)
    /\ hd.pc = "write" => hd.seen = weight
    /\ IF hd.pc = "sync" /\ hd.seen > 0 THEN hd.seen = weight ELSE edge = weight

ExactInv == CountInv /\ (faults = 0 => \A h \in ChatHandlers : ExactAt(h))

LEMMA ExactInit == Init => ExactInv
<1> SUFFICES ASSUME Init PROVE ExactInv
  OBVIOUS
<1>1. Observations = {} /\ ChatHandlers \subseteq Handlers
  BY DEF Init, Observations, Handlers
<1>2. \A h \in ChatHandlers : handlers[h] = NoBatch
  BY <1>1 DEF Init
<1> QED BY <1>1, <1>2, CountInit, FS_EmptySet DEF Init, ExactInv, ExactAt, NoBatch

LEMMA ExactUntouched ==
  ASSUME NEW h, ExactAt(h), UNCHANGED <<rows, weight, edge>>,
         handlers'[h].pc = handlers[h].pc, handlers'[h].seen = handlers[h].seen
  PROVE  ExactAt(h)'
  BY DEF ExactAt, Observations

LEMMA NextRowSeen ==
  ASSUME TypeInv, NEW h \in Handlers, NEW created, NextRow(h, created)
  PROVE  handlers'[h].seen = handlers[h].seen
  BY DEF NextRow, TypeInv, TypeOK, Handler

LEMMA CreateExact ==
  ASSUME CountInv, NEW h \in Handlers, ExactAt(h), Create(h)
  PROVE  ExactAt(h)'
<1> DEFINE hd == handlers[h]
           row == RowOf(hd.at, hd.cur)
<1>0. /\ TypeInv /\ hd \in Handler /\ hd.pc = "create" /\ UNCHANGED <<weight, edge>>
      /\ handlers \in [Handlers -> Handler] /\ hd.seen = 0 /\ edge = weight
      /\ weight = Cardinality(Observations) /\ weight \in Nat
  BY ObservationsFinite DEF CountInv, TypeInv, TypeOK, Create, At, ExactAt
<1>1. CASE row \in rows
  <2>1. UNCHANGED rows /\ handlers' = [handlers EXCEPT ![h] = handlers'[h]]
        /\ handlers'[h].pc = "idle" /\ handlers'[h].seen = 0
    BY <1>0, <1>1 DEF Create, Bad, Leave, NoBatch
  <2> QED BY <1>0, <2>1 DEF ExactAt, Observations
<1>2. CASE row \notin rows
  <2>1. NextRow(h, TRUE) /\ rows' = rows \union {row}
    BY <1>2 DEF Create
  <2>2. handlers'[h].seen = 0
        /\ handlers'[h].pc = IF hd.at # Len(Steps) THEN "read" ELSE "weigh"
    BY <1>0, <2>1, NextRowPc, NextRowSeen
  <2>3. CASE hd.at # Len(Steps)
    <3>1. row.row # "observation"
      <4>1. hd.at \in 1..5
        BY <1>0, <2>3, StepsDomain DEF Handler
      <4>2. \A i \in 1..5 : Steps[i] # "observation"
        BY DEF Steps
      <4> QED BY <4>1, <4>2 DEF RowOf
    <3>2. Observations' = Observations
      BY <2>1, <3>1 DEF Observations
    <3> QED BY <1>0, <2>2, <2>3, <3>2 DEF ExactAt
  <2>4. CASE hd.at = Len(Steps)
    <3>1. row.row = "observation"
      BY <2>4, StepsDomain DEF RowOf, Steps
    <3>2. Observations' = Observations \union {row} /\ row \notin Observations
      BY <1>2, <2>1, <3>1 DEF Observations
    <3>3. Cardinality(Observations') = Cardinality(Observations) + 1
      BY <3>2, ObservationsFinite, FS_AddElement DEF CountInv
    <3> QED BY <1>0, <2>2, <2>4, <3>3 DEF ExactAt
  <2> QED BY <2>3, <2>4
<1> QED BY <1>1, <1>2

LEMMA HandlerExact ==
  ASSUME CountInv, NEW h \in ChatHandlers, h \in Handlers, ExactAt(h),
         HandlerStep(h)
  PROVE  ExactAt(h)'
<1> USE DEF At
<1> DEFINE hd == handlers[h]
<1>0. /\ TypeInv /\ hd \in Handler /\ handlers \in [Handlers -> Handler]
      /\ weight \in Nat /\ Cardinality(Observations) \in Nat /\ hd.seen \in Nat
  BY ObservationsFinite DEF CountInv, TypeInv, TypeOK, Handler
<1>1. CASE Create(h)
  BY <1>1, CreateExact
<1>2. CASE WriteWeight(h)
  <2>1. /\ hd.pc = "write" /\ UNCHANGED <<rows, edge>> /\ hd.seen = weight
        /\ weight + 1 = Cardinality(Observations)
    BY <1>2 DEF WriteWeight, ExactAt
  <2>2. /\ weight' = hd.seen + 1
        /\ handlers' = [handlers EXCEPT ![h] = [hd EXCEPT !.pc = "sync", !.seen = hd.seen + 1]]
    <3>1. ~(hd.seen = 0 /\ weight > 0)
      BY <1>0, <2>1
    <3> QED BY <1>2, <3>1 DEF WriteWeight
  <2>3. handlers'[h].pc = "sync" /\ handlers'[h].seen = weight + 1
    BY <1>0, <2>1, <2>2 DEF Handler
  <2> QED BY <1>0, <2>1, <2>2, <2>3 DEF ExactAt, Observations
<1>3. CASE Weigh(h)
  <2>1. /\ hd.pc = "weigh" /\ UNCHANGED <<rows, weight, edge>>
        /\ handlers'[h].pc = "write" /\ handlers'[h].seen = weight
    BY <1>0, <1>3 DEF Weigh, tables, Handler
  <2> QED BY <1>0, <2>1 DEF ExactAt, Observations
<1>4. CASE Read(h)
  <2>1. UNCHANGED <<rows, weight, edge>> /\ hd.pc = "read" /\ hd.seen = 0
    BY <1>4 DEF Read, tables, ExactAt
  <2>2. NextRow(h, FALSE) \/ Goto(h, "create")
    BY <1>4 DEF Read
  <2>3. handlers'[h].pc \in {"read", "sync", "create"} /\ handlers'[h].seen = 0
    BY <1>0, <2>1, <2>2, NextRowPc, NextRowSeen, GotoPc
  <2> QED BY <1>0, <2>1, <2>3 DEF ExactAt, Observations
<1>5. CASE Begin(h) \/ EndBatch(h)
  <2>1. /\ handlers'[h].pc \in {"read", "idle"} /\ handlers'[h].seen = 0
        /\ hd.pc = "idle" /\ UNCHANGED <<rows, weight, edge>>
    BY <1>0, <1>5 DEF Begin, EndBatch, tables, Handler, NoBatch, ExactAt
  <2> QED BY <1>0, <2>1 DEF ExactAt, Observations
<1>6. CASE Sync(h)
  <2>1. /\ hd.pc = "sync" /\ UNCHANGED <<rows, weight>>
        /\ edge' = IF hd.seen > 0 THEN hd.seen ELSE edge
        /\ handlers'[h].pc = "idle" /\ handlers'[h].seen = 0
    BY <1>0, <1>6 DEF Sync, Good, Leave, NoBatch
  <2> QED BY <1>0, <2>1 DEF ExactAt, Observations
<1>7. CASE Find(h) \/ Record(h) \/ Claim(h) \/ Run(h) \/ Finish(h)
  <2>1. h \notin CommandHandlers
    BY PipelineAssumption
  <2> QED BY <1>0, <1>7, <2>1
          DEF Find, Record, Claim, Run, Finish, TypeInv, AtHome, CommandSteps
<1> QED BY <1>1, <1>2, <1>3, <1>4, <1>5, <1>6, <1>7 DEF HandlerStep

LEMMA ExactStep ==
  ASSUME OneChatHandler PROVE ExactInv /\ [Next]_vars => ExactInv'
<1> SUFFICES ASSUME ExactInv, [Next]_vars, faults' = 0, NEW h \in ChatHandlers
             PROVE  ExactAt(h)'
  BY CountStep DEF ExactInv
<1>1. /\ CountInv /\ TypeInv /\ h \in Handlers /\ (\A k \in ChatHandlers : k = h)
      /\ handlers \in [Handlers -> Handler] /\ faults \in Nat
      /\ ChatHandlers \subseteq Handlers
  BY PipelineAssumption
     DEF ExactInv, CountInv, TypeInv, TypeOK, OneChatHandler, Handlers
<1>2. faults = 0
  <2>1. ASSUME NEW k \in Handlers, HandlerStep(k) PROVE UNCHANGED faults
    BY <2>1 DEF HandlerStep, Begin, EndBatch, Read, Create, Weigh, WriteWeight,
       Sync, Find, Record, Claim, Run, Finish
  <2>2. ASSUME NEW k \in Handlers, StatementFails(k) \/ Crash(k)
        PROVE  faults' = faults + 1
    BY <2>2 DEF StatementFails, Crash, Fault
  <2>3. ASSUME NEW m \in Messages, AckWait(m) \/ \E k \in Handlers : Deliver(k, m)
        PROVE  UNCHANGED faults
    BY <2>3 DEF AckWait, Deliver
  <2>4. faults' = faults \/ faults' = faults + 1
    BY <2>1, <2>2, <2>3 DEF Next, vars
  <2> QED BY <1>1, <2>4
<1>3. ExactAt(h)
  BY <1>2 DEF ExactInv
<1>4. CASE UNCHANGED vars
  BY <1>3, <1>4, ExactUntouched DEF vars, tables
<1>5. ASSUME NEW k \in Handlers, HandlerStep(k) PROVE ExactAt(h)'
  <2>1. CASE k = h
    BY <1>1, <1>3, <1>5, <2>1, HandlerExact
  <2>2. CASE k # h
    <3>1. k \notin ChatHandlers /\ AtHome(k)
      BY <1>1, <2>2 DEF TypeInv
    <3>2. handlers[k].pc \notin ChatSteps
      BY <3>1 DEF AtHome
    <3>3. \/ Begin(k) \/ EndBatch(k)
          \/ Find(k) \/ Record(k) \/ Claim(k) \/ Run(k) \/ Finish(k)
      BY <1>5, <3>2 DEF HandlerStep, Read, Create, Weigh, WriteWeight, Sync, At,
         ChatSteps
    <3>4. UNCHANGED <<rows, weight, edge>>
      BY <3>3 DEF Begin, EndBatch, Find, Record, Claim, Run, Finish, tables
    <3>5. \E new : handlers' = [handlers EXCEPT ![k] = new]
      BY <3>3 DEF Begin, EndBatch, Find, Record, Claim, Run, Finish, Goto, Good,
         Bad, Leave
    <3>6. handlers'[h] = handlers[h]
      BY <1>1, <2>2, <3>5
    <3> QED BY <1>3, <3>4, <3>6, ExactUntouched
  <2> QED BY <2>1, <2>2
<1>6. ASSUME NEW k \in Handlers, NEW m \in Messages, Deliver(k, m) PROVE ExactAt(h)'
  <2>1. /\ UNCHANGED <<rows, weight, edge>>
        /\ handlers'[h].pc = handlers[h].pc /\ handlers'[h].seen = handlers[h].seen
    BY <1>1, <1>6 DEF Deliver, tables, Handler
  <2> QED BY <1>3, <2>1, ExactUntouched
<1>7. ASSUME NEW m \in Messages, AckWait(m) PROVE ExactAt(h)'
  BY <1>3, <1>7, ExactUntouched DEF AckWait, tables
<1>8. ASSUME NEW k \in Handlers, StatementFails(k) \/ Crash(k) PROVE ExactAt(h)'
  <2>1. faults' = faults + 1
    BY <1>8 DEF StatementFails, Crash, Fault
  <2> QED BY <1>2, <2>1
<1> QED BY <1>4, <1>5, <1>6, <1>7, <1>8 DEF Next

\* With one processor of chats and no fault redelivery neither loses nor adds a
\* count: whenever the processor is idle, weight and edge are the observations.
THEOREM CountsStayExact ==
  ASSUME OneChatHandler PROVE Spec => []CountsAreExact
<1>1. ExactInv => CountsAreExact
  <2> SUFFICES ASSUME ExactInv, faults = 0, \A h \in Handlers : handlers[h].pc = "idle"
               PROVE  weight = Cardinality(Observations) /\ edge = weight
    BY DEF CountsAreExact
  <2>1. PICK h : ChatHandlers = {h}
    BY DEF OneChatHandler
  <2>2. ExactAt(h) /\ handlers[h].pc = "idle" /\ weight \in Nat
    BY <2>1 DEF ExactInv, CountInv, TypeInv, TypeOK, Handlers
  <2> QED BY <2>2 DEF ExactAt
<1> QED BY ExactInit, ExactStep, <1>1, PTL DEF Spec
=============================================================================
