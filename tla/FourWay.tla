------------------------------ MODULE FourWay ------------------------------
(***************************************************************************)
(* The AVX2 frogbard_hash4_equal (src/src/frogbard_avx2.c) beside four     *)
(* scalar sponges (src/src/frogbard.c), with the permutation computed: its *)
(* state has a vector of four words in every lane, one for each message.   *)
(* The layers of its permutation are those of the scalar one, written out  *)
(* again over vectors: an instance of Permutation whose words are vectors. *)
(***************************************************************************)
EXTENDS Integers, Sequences

CONSTANTS
    Word64,        \* the scalar word with its operators, S-boxes and constants
    Add(_, _), Sub(_, _), Xor64(_, _), Left(_, _), Right(_, _),
    Box(_, _), BoxInv(_, _), RoundWord(_, _, _),
    MaxRounds,     \* FROGBARD_ROUNDS
    WordBytes,     \* 8
    ByteBits,      \* 8
    FirstPad, LastPad,      \* 0x0b and 0x80
    IV(_, _),      \* FROGBARD_IV[voice][lane]
    LastWords,     \* the two constants injected at the end
    FinalMark(_),  \* 0x21 << 8 i
    FinalPermutations,      \* FROGBARD_FINAL_PERMUTATIONS
    Lists          \* the lists of four messages of equal length a caller may pass

Messages == 1 .. 4
Voices == 0 .. 3
Lanes  == 0 .. 7
BlockBytes == 16 * WordBytes
Byte == 0 .. 2 ^ ByteBits - 1      \* uint8_t

ASSUME SizesAssumption ==
    /\ WordBytes \in Nat \ {0} /\ ByteBits \in Nat \ {0}
    /\ Word64 = 0 .. 2 ^ (ByteBits * WordBytes) - 1
    /\ MaxRounds \in Nat /\ FinalPermutations \in 0 .. 8

ASSUME ScalarAssumption ==
    /\ \A a, b \in Word64 : Add(a, b) \in Word64 /\ Xor64(a, b) \in Word64
    /\ \A a \in Word64 : Xor64(a, 0) = a
    /\ \A a \in Word64, n \in 1 .. 63 : Left(a, n) \in Word64
    /\ \A a \in Word64, box \in Voices : Box(box, a) \in Word64
    /\ \A a, b \in Byte : Xor64(a, b) \in Byte

ASSUME TablesAssumption ==
    /\ \A voice \in Voices, lane \in Lanes :
          /\ IV(voice, lane) \in Word64
          /\ \A r \in 0 .. MaxRounds - 1 : RoundWord(r, voice, lane) \in Word64
    /\ LastWords \in Word64 \X Word64
    /\ \A n \in Lanes : FinalMark(n) \in Word64
    /\ FirstPad \in Byte /\ LastPad \in Byte

ASSUME ListsAssumption ==
    /\ Lists \subseteq [Messages -> Seq(Byte)]
    /\ \A l \in Lists, j \in Messages : Len(l[j]) = Len(l[1]) /\ Len(l[j]) \in Word64

-----------------------------------------------------------------------------
(* fb_v4u64 and its operators; splat64.                                    *)

Vector == [Messages -> Word64]
Each(Op(_)) == <<Op(1), Op(2), Op(3), Op(4)>>
Splat(x) == <<x, x, x, x>>
VPlus(x, y)  == Each(LAMBDA j : Add(x[j], y[j]))
VXor(x, y)   == Each(LAMBDA j : Xor64(x[j], y[j]))
VRotl(x, n)  == Each(LAMBDA j : Left(x[j], n))
VSbox(box, x)    == Each(LAMBDA j : Box(box, x[j]))
VRC(round, voice, lane) == Splat(RoundWord(round, voice, lane))
\* The inverse has no vector form; these complete the instance.
VMinus(x, y) == Each(LAMBDA j : Sub(x[j], y[j]))
VRotr(x, n)  == Each(LAMBDA j : Right(x[j], n))
VSboxInv(box, x) == Each(LAMBDA j : BoxInv(box, x[j]))

S == INSTANCE Permutation WITH
        Word <- Word64, Plus <- Add, Minus <- Sub, BitXor <- Xor64,
        Rotl <- Left, Rotr <- Right, Sbox <- Box, SboxInv <- BoxInv, RC <- RoundWord
V == INSTANCE Permutation WITH
        Word <- Vector, Plus <- VPlus, Minus <- VMinus, BitXor <- VXor,
        Rotl <- VRotl, Rotr <- VRotr, Sbox <- VSbox, SboxInv <- VSboxInv, RC <- VRC

-----------------------------------------------------------------------------
(* What the two builds compute, the scalar one on a state s of one message,*)
(* the vector one on v.                                                    *)

Permute(s)   == LET f[n \in 0 .. MaxRounds] == IF n = 0 THEN s ELSE S!ApplyRound(f[n - 1], n - 1)
                IN  f[MaxRounds]
PermuteV4(v) == LET f[n \in 0 .. MaxRounds] == IF n = 0 THEN v ELSE V!ApplyRound(f[n - 1], n - 1)
                IN  f[MaxRounds]

\* load64_le and store64_le.
Load(bytes, at) == LET f[k \in 0 .. WordBytes] ==
                          IF k = 0 THEN 0 ELSE f[k - 1] + bytes[at + k] * 2 ^ (ByteBits * (k - 1))
                   IN  f[WordBytes]
StoredByte(x, k) == (x \div 2 ^ (ByteBits * k)) % 2 ^ ByteBits

\* Faulty: the third message is taken for the second too.
Load4Twice(p, at) == Each(LAMBDA j : Load(p[IF j = 2 THEN 3 ELSE j], at))
Load4(p, at)      == Each(LAMBDA j : Load(p[j], at))

Absorb(s, block) ==
    Permute([voice \in Voices |-> [lane \in Lanes |->
        IF voice \in {0, 1}
        THEN Xor64(s[voice][lane], Load(block, 8 * WordBytes * voice + WordBytes * lane))
        ELSE s[voice][lane]]])
Absorb4(v, p) ==
    PermuteV4([voice \in Voices |-> [lane \in Lanes |->
        IF voice \in {0, 1}
        THEN VXor(v[voice][lane], Load4(p, 8 * WordBytes * voice + WordBytes * lane))
        ELSE v[voice][lane]]])

\* The last block: the rest of the message, zeroes, and two pad bytes XORed in.
LastBlock(message, at) ==
    [k \in 1 .. BlockBytes |->
        LET rest == IF at + k <= Len(message) THEN message[at + k] ELSE 0
            one  == IF at + k = Len(message) + 1 THEN Xor64(rest, FirstPad) ELSE rest
        IN  IF k = BlockBytes THEN Xor64(one, LastPad) ELSE one]

\* Faulty: no length.
Inject4NoLength(v, len) ==
    [v EXCEPT ![3][6] = VXor(@, Splat(LastWords[1])), ![3][7] = VXor(@, Splat(LastWords[2]))]

\* The scalar build injects a count of two words, the high one 0 here.
Inject(s, len)  == [s EXCEPT ![2][6] = Xor64(@, len), ![2][7] = Xor64(@, 0),
                             ![3][6] = Xor64(@, LastWords[1]), ![3][7] = Xor64(@, LastWords[2])]
Inject4(v, len) == [v EXCEPT ![2][6] = VXor(@, Splat(len)),
                             ![3][6] = VXor(@, Splat(LastWords[1])),
                             ![3][7] = VXor(@, Splat(LastWords[2]))]

\* One turn of the loop of final permutations.
Finish(s, i)  == Permute([s EXCEPT ![3][i] = Xor64(@, FinalMark(i))])
Finish4(v, i) == PermuteV4([v EXCEPT ![3][i] = VXor(@, Splat(FinalMark(i)))])

DigestOf(s) == [n \in 1 .. 8 * WordBytes |->
                  StoredByte(s[0][(n - 1) \div WordBytes], (n - 1) % WordBytes)]
Out4(v) == [j \in Messages |-> [n \in 1 .. 8 * WordBytes |->
              StoredByte(v[0][(n - 1) \div WordBytes][j], (n - 1) % WordBytes)]]

-----------------------------------------------------------------------------
VARIABLES
    data,          \* the four messages
    pc,            \* "start", "blocks", "final" or "returned"
    at,            \* bytes of each absorbed in whole blocks
    i,             \* final permutations done
    v,             \* the vector state
    scalar,        \* the states of four calls of frogbard_hash at the same point
    out, outScalar \* the digests of the two

vars == <<data, pc, at, i, v, scalar, out, outScalar>>

NoDigests == [j \in Messages |-> << >>]

Init ==
    /\ data \in Lists /\ pc = "start" /\ at = 0 /\ i = 0
    /\ v = [voice \in Voices |-> [lane \in Lanes |-> Splat(0)]]
    /\ scalar = [j \in Messages |-> [voice \in Voices |-> [lane \in Lanes |-> 0]]]
    /\ out = NoDigests /\ outScalar = NoDigests

Start ==
    /\ pc = "start" /\ pc' = "blocks"
    /\ v' = PermuteV4([voice \in Voices |-> [lane \in Lanes |-> Splat(IV(voice, lane))]])
    /\ scalar' = [j \in Messages |->
                    Permute([voice \in Voices |-> [lane \in Lanes |-> IV(voice, lane)]])]
    /\ UNCHANGED <<data, at, i, out, outScalar>>

AbsorbBlock ==
    /\ pc = "blocks" /\ Len(data[1]) - at >= BlockBytes
    /\ LET block(j) == SubSeq(data[j], at + 1, at + BlockBytes)
       IN  /\ v' = Absorb4(v, [j \in Messages |-> block(j)])
           /\ scalar' = [j \in Messages |-> Absorb(scalar[j], block(j))]
    /\ at' = at + BlockBytes
    /\ UNCHANGED <<data, pc, i, out, outScalar>>

AbsorbTail ==
    /\ pc = "blocks" /\ Len(data[1]) - at < BlockBytes
    /\ pc' = "final"
    /\ v' = Inject4(Absorb4(v, [j \in Messages |-> LastBlock(data[j], at)]), Len(data[1]))
    /\ scalar' = [j \in Messages |->
                    Inject(Absorb(scalar[j], LastBlock(data[j], at)), Len(data[j]))]
    /\ UNCHANGED <<data, at, i, out, outScalar>>

FinalPermutation ==
    /\ pc = "final" /\ i < FinalPermutations
    /\ v' = Finish4(v, i)
    /\ scalar' = [j \in Messages |-> Finish(scalar[j], i)]
    /\ i' = i + 1
    /\ UNCHANGED <<data, pc, at, out, outScalar>>

Return ==
    /\ pc = "final" /\ i = FinalPermutations
    /\ pc' = "returned"
    /\ out' = Out4(v)
    /\ outScalar' = [j \in Messages |-> DigestOf(scalar[j])]
    /\ UNCHANGED <<data, at, i, v, scalar>>

Returned == pc = "returned" /\ UNCHANGED vars

Next == Start \/ AbsorbBlock \/ AbsorbTail \/ FinalPermutation \/ Return \/ Returned

Spec == Init /\ [][Next]_vars

-----------------------------------------------------------------------------
(* Properties.                                                             *)

\* The state of message j.
Column(j) == [voice \in Voices |-> [lane \in Lanes |-> v[voice][lane][j]]]

\* The four messages of the AVX2 build never mix (frogbard_avx2.c:177-210): at
\* every point of the call the words of each are those of a scalar call on it.
ColumnsAreScalar == \A j \in Messages : Column(j) = scalar[j]

\* The two builds return the same digests (frogbard_avx2.c:212, frogbard.c:667),
\* at every length and wherever the padding falls.
SameDigests == out = outScalar
=============================================================================
