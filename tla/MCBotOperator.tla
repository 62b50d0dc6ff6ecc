---------------------------- MODULE MCBotOperator ----------------------------
(* Instances of BotOperator for TLC.                                        *)
EXTENDS BotOperator, TLC
==============================================================================
