---------------------------- MODULE MCCmdManager ----------------------------
(***************************************************************************)
(* Instances of CmdManager for TLC.                                        *)
(***************************************************************************)
EXTENDS CmdManager
=============================================================================
