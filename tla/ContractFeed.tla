---------------------------- MODULE ContractFeed ----------------------------
(***************************************************************************)
(* What the control plane and the operator agree on.  The control plane    *)
(* publishes one document per bot; its generation is the one after the     *)
(* generation the bot's row records, and the row records it afterwards.    *)
(* Until then the document may be replaced by another of the same          *)
(* generation, and a report about that generation is refused; once it is   *)
(* recorded it names one document for good.  A bot that was withdrawn does *)
(* not come back.  Nothing says that what is published is ever recorded.   *)
(*                                                                         *)
(* BotControlPlane implements this; it is the environment of BotOperator.  *)
(***************************************************************************)
EXTENDS Naturals

CONSTANTS Bots,
          NoDoc   \* what a bot has that nothing is published for

VARIABLES published,   \* the document in the feed
          recorded,    \* the generation the bot's row records; 0: none yet
          ended        \* the bots whose rows are gone

vars == <<published, recorded, ended>>

Init ==
    /\ published = [b \in Bots |-> NoDoc]
    /\ recorded = [b \in Bots |-> 0]
    /\ ended = {}

Publish(b, doc) ==
    /\ b \notin ended
    /\ doc.gen = recorded[b] + 1
    /\ published' = [published EXCEPT ![b] = doc]
    /\ UNCHANGED <<recorded, ended>>

Record(b) ==
    /\ b \notin ended
    /\ published[b].gen = recorded[b] + 1
    /\ recorded' = [recorded EXCEPT ![b] = @ + 1]
    /\ UNCHANGED <<published, ended>>

Withdraw(b) ==
    /\ b \notin ended
    /\ published' = [published EXCEPT ![b] = NoDoc]
    /\ recorded' = [recorded EXCEPT ![b] = 0]
    /\ ended' = ended \union {b}

Next == \E b \in Bots : Publish(b, published'[b]) \/ Record(b) \/ Withdraw(b)

Spec == Init /\ [][Next]_vars

\* The control plane takes a report about the generation it has recorded.
Accepts(b, gen) == b \notin ended /\ gen = recorded[b]
==============================================================================
