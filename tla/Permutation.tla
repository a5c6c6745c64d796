---------------------------- MODULE Permutation ----------------------------
(***************************************************************************)
(* The permutation of src/src/frogbard.c and its inverse: four voices of   *)
(* eight lanes, each lane a word.  What a word is, how words are added,    *)
(* XORed and rotated, the S-boxes and the round constants are parameters:  *)
(* the modules say which words meet where, in which order, and by how far  *)
(* they are rotated, which is what the inverse has to retrace.             *)
(***************************************************************************)
EXTENDS Integers

CONSTANTS
    Word,              \* uint64_t
    Plus(_, _), Minus(_, _), BitXor(_, _),
    Rotl(_, _), Rotr(_, _),
    Sbox(_, _),        \* sbox_word_table with FROGBARD_SBOX[box]
    SboxInv(_, _),     \* and with FROGBARD_SBOX_INV[box]
    RC(_, _, _),       \* FROGBARD_RC[round][voice][lane]
    MaxRounds          \* FROGBARD_ROUNDS

Voices  == 0 .. 3
Lanes   == 0 .. 7
Amounts == 1 .. 63
State   == [Voices -> [Lanes -> Word]]

ASSUME RoundsAssumption == MaxRounds \in Nat

ASSUME WordAssumption ==
    /\ \A a, b \in Word :
          /\ Plus(a, b) \in Word /\ Minus(a, b) \in Word /\ BitXor(a, b) \in Word
          /\ Minus(Plus(a, b), b) = a /\ Plus(Minus(a, b), b) = a
          /\ BitXor(BitXor(a, b), b) = a
    /\ \A a \in Word, n \in Amounts :
          /\ Rotl(a, n) \in Word /\ Rotr(a, n) \in Word
          /\ Rotr(Rotl(a, n), n) = a /\ Rotl(Rotr(a, n), n) = a

ASSUME TableAssumption ==
    /\ \A box \in Voices, a \in Word :
          /\ Sbox(box, a) \in Word /\ SboxInv(box, a) \in Word
          /\ SboxInv(box, Sbox(box, a)) = a /\ Sbox(box, SboxInv(box, a)) = a
    /\ \A r \in 0 .. MaxRounds - 1, voice \in Voices, lane \in Lanes :
          RC(r, voice, lane) \in Word

-----------------------------------------------------------------------------
(* quarter_round on lanes i[1] .. i[4] (a, b, c, d) of a voice x.  A half  *)
(* is a += b; d = rotl(d ^ a, r); c += d; b = rotl(b ^ c, s).              *)

AddLane(x, to, from)      == [x EXCEPT ![to] = Plus(@, x[from])]
SubLane(x, to, from)      == [x EXCEPT ![to] = Minus(@, x[from])]
XorTurn(x, to, from, n)   == [x EXCEPT ![to] = Rotl(BitXor(@, x[from]), n)]
UnturnXor(x, to, from, n) == [x EXCEPT ![to] = BitXor(Rotr(@, n), x[from])]

Half(x, i, r, s) ==
    XorTurn(AddLane(XorTurn(AddLane(x, i[1], i[2]), i[4], i[1], r), i[3], i[4]), i[2], i[3], s)
InverseHalf(x, i, r, s) ==
    SubLane(UnturnXor(SubLane(UnturnXor(x, i[2], i[3], s), i[3], i[4]), i[4], i[1], r), i[1], i[2])

QuarterRound(x, i, rr)        == Half(Half(x, i, rr[1], rr[2]), i, rr[3], rr[4])
InverseQuarterRound(x, i, rr) == InverseHalf(InverseHalf(x, i, rr[3], rr[4]), i, rr[1], rr[2])

-----------------------------------------------------------------------------
(* mix_voice.                                                              *)

Rotations == << <<17, 29, 41, 53>>, <<23, 31, 47, 59>>,
                <<11, 37, 43, 57>>, <<19, 27, 45, 61>> >>
VoiceRotations(voice, round) == Rotations[((voice + round) % 4) + 1]

\* rr starting at its k-th number.
From(rr, k) == [m \in 1 .. 4 |-> rr[((k + m - 2) % 4) + 1]]

MixVoice(x, rr) ==
    LET x1 == QuarterRound(x,  <<0, 1, 2, 3>>, From(rr, 1))
        x2 == QuarterRound(x1, <<4, 5, 6, 7>>, From(rr, 2))
        x3 == QuarterRound(x2, <<0, 5, 2, 7>>, From(rr, 3))
    IN  QuarterRound(x3, <<4, 1, 6, 3>>, From(rr, 4))

InverseMixVoice(x, rr) ==
    LET x3 == InverseQuarterRound(x,  <<4, 1, 6, 3>>, From(rr, 4))
        x2 == InverseQuarterRound(x3, <<0, 5, 2, 7>>, From(rr, 3))
        x1 == InverseQuarterRound(x2, <<4, 5, 6, 7>>, From(rr, 2))
    IN  InverseQuarterRound(x1, <<0, 1, 2, 3>>, From(rr, 1))

-----------------------------------------------------------------------------
(* cross_voice_braid: eight steps of four assignments, each to lane i of   *)
(* one voice from a rotated lane of another.                               *)

RA == <<7, 13, 19, 29, 37, 43, 53, 61>>
RB == <<11, 17, 23, 31, 41, 47, 55, 59>>

AddFrom(v, to, i, from, k, n) == [v EXCEPT ![to][i] = Plus(@, Rotl(v[from][(i + k) % 8], n))]
SubFrom(v, to, i, from, k, n) == [v EXCEPT ![to][i] = Minus(@, Rotl(v[from][(i + k) % 8], n))]
XorFrom(v, to, i, from, k, n) == [v EXCEPT ![to][i] = BitXor(@, Rotl(v[from][(i + k) % 8], n))]

\* ra[(i + k) & 7], of arrays that start at 0.
At(table, i, k) == table[((i + k) % 8) + 1]

BraidStep(v, i, round) ==
    IF round % 2 = 0
    THEN XorFrom(AddFrom(XorFrom(AddFrom(v,
            0, i, 1, 1, At(RA, i, 0)), 2, i, 0, 3, At(RB, i, 0)),
            3, i, 2, 5, At(RA, i, 2)), 1, i, 3, 7, At(RB, i, 4))
    ELSE XorFrom(AddFrom(XorFrom(AddFrom(v,
            3, i, 2, 2, At(RB, i, 0)), 1, i, 3, 4, At(RA, i, 0)),
            0, i, 1, 6, At(RB, i, 3)), 2, i, 0, 1, At(RA, i, 5))

InverseBraidStep(v, i, round) ==
    IF round % 2 = 0
    THEN SubFrom(XorFrom(SubFrom(XorFrom(v,
            1, i, 3, 7, At(RB, i, 4)), 3, i, 2, 5, At(RA, i, 2)),
            2, i, 0, 3, At(RB, i, 0)), 0, i, 1, 1, At(RA, i, 0))
    ELSE SubFrom(XorFrom(SubFrom(XorFrom(v,
            2, i, 0, 1, At(RA, i, 5)), 0, i, 1, 6, At(RB, i, 3)),
            1, i, 3, 4, At(RA, i, 0)), 3, i, 2, 2, At(RB, i, 0))

Braid(v, round) ==
    LET s(w, i) == BraidStep(w, i, round)
    IN  s(s(s(s(s(s(s(s(v, 0), 1), 2), 3), 4), 5), 6), 7)

\* Faulty: the inverse walks the lanes in the order of the braid.
InverseBraidUpwards(v, round) ==
    LET s(w, i) == InverseBraidStep(w, i, round)
    IN  s(s(s(s(s(s(s(s(v, 0), 1), 2), 3), 4), 5), 6), 7)

InverseBraid(v, round) ==
    LET s(w, i) == InverseBraidStep(w, i, round)
    IN  s(s(s(s(s(s(s(s(v, 7), 6), 5), 4), 3), 2), 1), 0)

-----------------------------------------------------------------------------
(* permute_lanes, a gather, and its inverse, a scatter.  The code has the  *)
(* orders twice, as macro arguments and as tables.                         *)

EvenOrder == << <<0, 3, 6, 1, 4, 7, 2, 5>>, <<5, 0, 3, 6, 1, 4, 7, 2>>,
                <<2, 5, 0, 3, 6, 1, 4, 7>>, <<7, 2, 5, 0, 3, 6, 1, 4>> >>
OddOrder  == << <<1, 6, 3, 0, 5, 2, 7, 4>>, <<4, 1, 6, 3, 0, 5, 2, 7>>,
                <<7, 4, 1, 6, 3, 0, 5, 2>>, <<2, 7, 4, 1, 6, 3, 0, 5>> >>
even == << <<0, 3, 6, 1, 4, 7, 2, 5>>, <<5, 0, 3, 6, 1, 4, 7, 2>>,
           <<2, 5, 0, 3, 6, 1, 4, 7>>, <<7, 2, 5, 0, 3, 6, 1, 4>> >>
odd  == << <<1, 6, 3, 0, 5, 2, 7, 4>>, <<4, 1, 6, 3, 0, 5, 2, 7>>,
           <<7, 4, 1, 6, 3, 0, 5, 2>>, <<2, 7, 4, 1, 6, 3, 0, 5>> >>

Gather(x, order)  == [lane \in Lanes |-> x[order[lane + 1]]]
Scatter(x, order) == [lane \in Lanes |->
                        x[CHOOSE out \in Lanes : order[out + 1] = lane]]

PermuteLanes(v, round) ==
    [voice \in Voices |->
        Gather(v[voice], IF round % 2 = 0 THEN EvenOrder[voice + 1] ELSE OddOrder[voice + 1])]
InversePermuteLanes(v, round) ==
    [voice \in Voices |->
        Scatter(v[voice], IF round % 2 = 0 THEN even[voice + 1] ELSE odd[voice + 1])]

-----------------------------------------------------------------------------
(* apply_round and apply_inverse_round.                                    *)

Voice(x, voice, round) ==
    MixVoice([lane \in Lanes |-> Sbox((voice + round) % 4, BitXor(x[lane], RC(round, voice, lane)))],
             VoiceRotations(voice, round))

InverseVoice(x, voice, round) ==
    LET y == InverseMixVoice(x, VoiceRotations(voice, round))
    IN  [lane \in Lanes |-> BitXor(SboxInv((voice + round) % 4, y[lane]), RC(round, voice, lane))]

ApplyRound(v, round) ==
    PermuteLanes(Braid([voice \in Voices |-> Voice(v[voice], voice, round)], round), round)

ApplyInverseRound(v, round) ==
    LET w == InverseBraid(InversePermuteLanes(v, round), round)
    IN  [voice \in Voices |-> InverseVoice(w[voice], voice, round)]
=============================================================================
