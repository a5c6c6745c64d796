------------------------------ MODULE MCHash4 ------------------------------
(***************************************************************************)
(* An instance of Hash4 for TLC.  The hash is ideal: a byte of a digest is *)
(* the message and the byte's place; the bytes before the call are all     *)
(* different.                                                              *)
(***************************************************************************)
EXTENDS Hash4

IdealByte(message, k) == [of |-> message, at |-> k]
FreshBytes == {[a \in Address |-> [of |-> [k \in {} |-> 0], at |-> -1 - a]]}
AnyByte == UNION {{m[a] : a \in Address} : m \in FreshBytes}
=============================================================================
