---------------------------- MODULE MCExitManager ----------------------------
(***************************************************************************)
(* Instances of ExitManager for TLC.                                       *)
(***************************************************************************)
EXTENDS ExitManager

CONSTANT p1
=============================================================================
