---------------------------- MODULE MCCroackBox ----------------------------
(***************************************************************************)
(* An instance of CroackBox for TLC: bytes of four bits, two to a word.    *)
(***************************************************************************)
EXTENDS CroackBox

\* A box of four bits that is differentially 4-uniform, as the AES box is.
SmallTable == <<12, 5, 6, 11, 9, 0, 10, 13, 3, 14, 15, 8, 4, 7, 1, 2>>
SmallAes == [x \in Byte |-> ByteOf(SmallTable[1 + CHOOSE n \in 0 .. 15 : ByteOf(n) = x])]

SomeShuffles == {[k \in Bits |-> (k + 1) % 4], [k \in Bits |-> <<2, 0, 3, 1>>[k + 1]]}
SomeMasks == {{1, 3}, {0, 1, 2}}

\* The self-test's voices turned by some bytes, and one byte everywhere.
SomeVoices == {Batch(n) : n \in {3, 5, 8}}
              \cup {[i \in Bits |-> {a \in Plane : a % 4 \in x}] : x \in {{}, {0}, {1, 2, 3}}}
=============================================================================
