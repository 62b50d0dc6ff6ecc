--------------------------- MODULE MCIRCBotOperator ---------------------------
(* Instances of IRCBotOperator for TLC.                                     *)
EXTENDS IRCBotOperator, TLC
==============================================================================
