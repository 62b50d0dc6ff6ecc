-------------------------- MODULE MCBotControlPlane --------------------------
(* Instances of BotControlPlane for TLC.                                    *)
EXTENDS BotControlPlane, TLC

CallSymmetry == Permutations(Calls)

\* A later start, which saves the calls that lead to it: every bot was created
\* with the same config, and its first generation is published and running.
Running(f) == [desired |-> "running", status |-> "running", config |-> f,
               dgen |-> 1, ogen |-> 1]

ProvisionedInit ==
    /\ \E f \in Configs :
          /\ bots = [b \in Bots |-> Running(f)]
          /\ image \in Images
          /\ contracts = [b \in Bots |->
                 [gen |-> 1, kind |-> "apply", desired |-> "running",
                  config |-> f, image |-> DesiredImage(Running(f))]]
    /\ ops = [c \in Calls |-> NoOp]
    /\ calls = [c \in Calls |-> ReadyCall]
    /\ reports = [r \in Reporters |-> IdleReport]
    /\ workers = [w \in Workers |-> IdleWorker]
    /\ clock = 0
    /\ errors = 0
    /\ faults = 0

ProvisionedSpec == ProvisionedInit /\ [][Next]_vars
ProvisionedFairSpec == ProvisionedSpec /\ Fairness
==============================================================================
