----------------------------- MODULE SmallWords -----------------------------
(***************************************************************************)
(* Words of a few bits, with S-boxes and round constants for them, for the *)
(* instances TLC checks.                                                   *)
(***************************************************************************)
EXTENDS MachineWords, Bitwise

CONSTANT Bits

Radix == 2 ^ Bits
Words == WordsOf(Bits)

AddWords(a, b) == Added(Bits, a, b)
SubWords(a, b) == Subtracted(Bits, a, b)
XorWords(a, b) == a ^^ b
RotlWord(a, n) == TurnedLeft(Bits, a, n % Bits)
RotrWord(a, n) == TurnedRight(Bits, a, n % Bits)

\* The operator of the community module is the exclusive or of MachineWords.
ASSUME XorAssumption ==
    \A a, b \in Words :
        XorWords(a, b) \in Words /\ Ones(Bits, XorWords(a, b)) = Differing(Ones(Bits, a), Ones(Bits, b))

\* A permutation polynomial for each box, and its inverse.
SmallBox    == [k \in 0 .. 3 |-> [a \in Words |-> (a * (2 * a + 1) + 5 * k + 1) % Radix]]
SmallBoxInv == [k \in 0 .. 3 |-> [a \in Words |-> CHOOSE b \in Words : SmallBox[k][b] = a]]
BoxWord(k, a)    == SmallBox[k][a]
BoxInvWord(k, a) == SmallBoxInv[k][a]
RoundConstant(r, voice, lane) == (r * 7 + voice * 11 + lane * 13 + 3) % Radix
=============================================================================
