------------------------------- MODULE MCCli -------------------------------
(***************************************************************************)
(* An instance of Cli for TLC.                                             *)
(***************************************************************************)
EXTENDS Cli

TwoBytes == {{}, FirstPad}
=============================================================================
