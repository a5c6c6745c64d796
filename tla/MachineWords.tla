---------------------------- MODULE MachineWords ----------------------------
(***************************************************************************)
(* The words of src/src/frogbard.c, uint64_t, as numbers below 2^w, w      *)
(* being 64 in the code: what + and - do at the end of the range, the      *)
(* exclusive or by bits, and rotl64 and rotr64.                            *)
(***************************************************************************)
EXTENDS Integers

WordsOf(w) == 0 .. 2 ^ w - 1

Added(w, a, b)      == (a + b) % 2 ^ w
Subtracted(w, a, b) == (a - b + 2 ^ w) % 2 ^ w

\* The places of the one bits.
Ones(w, a) == {k \in 0 .. w - 1 : (a \div 2 ^ k) % 2 = 1}

Differing(x, y) == (x \ y) \cup (y \ x)
Xored(w, a, b)  == CHOOSE c \in WordsOf(w) : Ones(w, c) = Differing(Ones(w, a), Ones(w, b))

\* x << n | x >> (64 - n) and x >> n | x << (64 - n), n masked to 0 .. 63 by the caller;
\* the parts have no bit in common.
TurnedLeft(w, a, n)  == ((a * 2 ^ n) % 2 ^ w) + (a \div 2 ^ (w - n))
TurnedRight(w, a, n) == (a \div 2 ^ n) + ((a * 2 ^ (w - n)) % 2 ^ w)
=============================================================================
