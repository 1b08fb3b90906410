----------------------------- MODULE MCCmdSlot -----------------------------
(* Instance of CmdSlot for TLC: two commands that fit, one that does not.  *)
EXTENDS CmdSlot

CONSTANTS wardrive, info, tooLong

MCCmd == {wardrive, info, tooLong}
MCFits == {wardrive, info}
=============================================================================
