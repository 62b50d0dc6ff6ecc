--------------------------- MODULE OperationOutbox ---------------------------
(***************************************************************************)
(* What the outbox of bot operations promises, one row at a time: a row is *)
(* inserted pending, claimed for one more try, and then dispatched, put    *)
(* back for another try, or failed once its tries are used up.  Nothing    *)
(* happens to a settled row.  A claimed row may stay claimed for ever: the *)
(* promise says nothing of dispatchers that stop.                          *)
(***************************************************************************)
EXTENDS Naturals

CONSTANTS Ids, MaxAttempts

VARIABLES status, attempts   \* functions of Ids

outboxVars == <<status, attempts>>

OutboxInit ==
    /\ status = [o \in Ids |-> "none"]
    /\ attempts = [o \in Ids |-> 0]

Move(o, from, to) ==
    /\ status[o] = from
    /\ status' = [status EXCEPT ![o] = to]

Insert(o)   == Move(o, "none", "pending") /\ UNCHANGED attempts
Claim(o)    == /\ Move(o, "pending", "processing")
               /\ attempts[o] < MaxAttempts
               /\ attempts' = [attempts EXCEPT ![o] = @ + 1]
Dispatch(o) == Move(o, "processing", "dispatched") /\ UNCHANGED attempts
Requeue(o)  == /\ Move(o, "processing", "pending")
               /\ attempts[o] < MaxAttempts
               /\ UNCHANGED attempts
GiveUp(o)   == /\ Move(o, "processing", "failed")
               /\ attempts[o] = MaxAttempts
               /\ UNCHANGED attempts

OutboxNext == \E o \in Ids :
    Insert(o) \/ Claim(o) \/ Dispatch(o) \/ Requeue(o) \/ GiveUp(o)

OutboxSpec == OutboxInit /\ [][OutboxNext]_outboxVars
==============================================================================
