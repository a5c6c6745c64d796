---------------------------- MODULE MCHashCalls ----------------------------
(***************************************************************************)
(* Instances of HashCalls for TLC.                                         *)
(***************************************************************************)
EXTENDS HashCalls

\* Bytes that look like padding: 0, 0x0b, 0x80 and 0x8b.
PadBytes == {{}, FirstPad, LastPad, Xor(FirstPad, LastPad)}
=============================================================================
