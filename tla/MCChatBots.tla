------------------------------ MODULE MCChatBots ------------------------------
(* Instances of ChatBots for TLC.                                           *)
EXTENDS ChatBots, TLC

\* One text that is sent whole, and one that is cut at a space, at a second
\* space in a row, within a word, and at a space short of the full length.
MCTexts == {[len |-> 3, spaces |-> {1}], [len |-> 11, spaces |-> {2, 3, 9}]}
==============================================================================
