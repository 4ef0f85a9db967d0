------------------------------ MODULE MCCmdPipe ------------------------------
(***************************************************************************)
(* The instance of CmdPipe for TLC: one sender sends two commands, the     *)
(* other one, beside the CMD_STOP of the main thread.                      *)
(***************************************************************************)
EXTENDS CmdPipe, TLC

CONSTANTS s1, s2

TwoAndOne == (s1 :> 2) @@ (s2 :> 1)
=============================================================================
