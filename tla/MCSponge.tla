------------------------------ MODULE MCSponge ------------------------------
(***************************************************************************)
(* Instances of Sponge for TLC.                                            *)
(***************************************************************************)
EXTENDS Sponge

TwoBytes == {{}, FirstPad}
=============================================================================
