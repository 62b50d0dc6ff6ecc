------------------------------ MODULE BotRecord ------------------------------
(***************************************************************************)
(* The row a bot has in the control-plane table `bots`, the state machine  *)
(* its `status` obeys, and what one update of the row writes.              *)
(*                                                                         *)
(* Rows are read into memory, changed there and saved.  A save compares    *)
(* every field with the value that was READ, and writes the fields that    *)
(* differ; the state machine, too, looks at the status that was READ.  No  *)
(* lock is held and no version is compared, so a save from a stale copy    *)
(* goes through and leaves alone only what the copy did not change.        *)
(***************************************************************************)
EXTENDS Integers

CONSTANTS Configs,   \* the channels-and-settings a user can give a bot
          NoConfig   \* what a row that does not exist has in their place

\* No generation was observed, or none was reported (a nil).
NoGen == -1

DesiredStates == {"running", "stopped", "deleted"}

LiveStatuses == {"pending", "reconciling", "running", "stopped", "degraded",
                 "error", "deleting", "deleted"}

\* "absent": the row is not created yet.  "destroyed": the row is gone.
BotStatuses == LiveStatuses \union {"absent", "destroyed"}

BotRow == [desired : DesiredStates,
           status  : BotStatuses,
           config  : Configs \union {NoConfig},
           dgen    : Nat,                      \* desired_generation
           ogen    : Nat \union {NoGen}]       \* observed_generation

AbsentRow == [desired |-> "running", status |-> "absent", config |-> NoConfig,
              dgen |-> 0, ogen |-> NoGen]
DestroyedRow == [AbsentRow EXCEPT !.status = "destroyed"]

Exists(row) == row.status \in LiveStatuses
------------------------------------------------------------------------------
(* The state machine: from which statuses an action may start.             *)

Reconcilable == LiveStatuses \ {"deleting", "deleted"}
Reportable   == LiveStatuses \ {"deleted"}
ReportTargets == LiveStatuses \ {"pending", "deleted"}

\* What each action makes of the copy it is given.
RequestReconcile(row) == [row EXCEPT !.status = "reconciling"]
BeginDelete(row)      == [row EXCEPT !.status = "deleting"]
ReportStatus(row, target, gen) ==
    [row EXCEPT !.status = target, !.ogen = gen]
FinalizeDelete(row, gen) == ReportStatus(row, "deleted", gen)

------------------------------------------------------------------------------
(* Saving a copy.  `stored` is the row in the table, `read` the copy the   *)
(* update started from and `new` the changed copy.                         *)

Written(stored, read, new) == IF new = read THEN stored ELSE new

Save(stored, read, new) ==
    [desired |-> Written(stored.desired, read.desired, new.desired),
     status  |-> Written(stored.status, read.status, new.status),
     config  |-> Written(stored.config, read.config, new.config),
     dgen    |-> Written(stored.dgen, read.dgen, new.dgen),
     ogen    |-> Written(stored.ogen, read.ogen, new.ogen)]
==============================================================================
