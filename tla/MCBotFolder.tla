----------------------------- MODULE MCBotFolder -----------------------------
(* Instances of BotFolder for TLC.                                         *)
EXTENDS BotFolder
=============================================================================
