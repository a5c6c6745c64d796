------------------------- MODULE PermutationProofs -------------------------
(***************************************************************************)
(* The inverse undoes the permutation and the permutation undoes the       *)
(* inverse, for every word, S-box and table that satisfy the assumptions.  *)
(*                                                                         *)
(* Each layer is a composition of small steps, each of which changes one   *)
(* word by another that it leaves alone; a step and its inverse cancel in  *)
(* both orders, and so do the layers, the rounds and the calls.  Of the    *)
(* S-boxes: what the generator writes and what a self-test that passes     *)
(* says of the tables, from which the assumption on them follows; and that *)
(* words of 64 bits are words in this sense.                               *)
(***************************************************************************)
EXTENDS PermuteCalls, CroackBox, NaturalLemmas

VoiceState == [Lanes -> Word]

-----------------------------------------------------------------------------
(* One assignment to a lane of a voice.                                    *)

\* Changing one entry of a function and changing it back.
LEMMA PutBack ==
    ASSUME NEW D, NEW R, NEW f \in [D -> R], NEW to \in D, NEW w \in R
    PROVE  /\ [f EXCEPT ![to] = w] \in [D -> R]
           /\ [f EXCEPT ![to] = w][to] = w
           /\ \A e \in D : e # to => [f EXCEPT ![to] = w][e] = f[e]
           /\ [[f EXCEPT ![to] = w] EXCEPT ![to] = f[to]] = f
  OBVIOUS

\* x[to] += x[from] and x[to] -= x[from] cancel.
LEMMA AddSub ==
    ASSUME NEW x \in VoiceState, NEW to \in Lanes, NEW from \in Lanes, to # from
    PROVE  /\ AddLane(x, to, from) \in VoiceState /\ SubLane(x, to, from) \in VoiceState
           /\ SubLane(AddLane(x, to, from), to, from) = x
           /\ AddLane(SubLane(x, to, from), to, from) = x
<1>1. x[to] \in Word /\ x[from] \in Word
  BY DEF VoiceState
<1>2. PICK w : w = Plus(x[to], x[from])
  OBVIOUS
<1>3. PICK u : u = Minus(x[to], x[from])
  OBVIOUS
<1>4. /\ w \in Word /\ u \in Word
      /\ Minus(w, x[from]) = x[to] /\ Plus(u, x[from]) = x[to]
  BY <1>1, <1>2, <1>3, WordAssumption
<1>5. AddLane(x, to, from) = [x EXCEPT ![to] = w] /\ SubLane(x, to, from) = [x EXCEPT ![to] = u]
  BY <1>2, <1>3 DEF AddLane, SubLane
<1> QED
  BY SMTT(30), <1>4, <1>5, PutBack DEF AddLane, SubLane, VoiceState

\* x[to] = rotl(x[to] ^ x[from], n) and x[to] = rotr(x[to], n) ^ x[from] cancel.
LEMMA TurnUnturn ==
    ASSUME NEW x \in VoiceState, NEW to \in Lanes, NEW from \in Lanes, to # from,
           NEW n \in Amounts
    PROVE  /\ XorTurn(x, to, from, n) \in VoiceState /\ UnturnXor(x, to, from, n) \in VoiceState
           /\ UnturnXor(XorTurn(x, to, from, n), to, from, n) = x
           /\ XorTurn(UnturnXor(x, to, from, n), to, from, n) = x
<1>1. x[to] \in Word /\ x[from] \in Word
  BY DEF VoiceState
<1>2. PICK w : w = Rotl(BitXor(x[to], x[from]), n)
  OBVIOUS
<1>3. PICK u : u = BitXor(Rotr(x[to], n), x[from])
  OBVIOUS
<1>4. /\ w \in Word /\ u \in Word
      /\ BitXor(Rotr(w, n), x[from]) = x[to] /\ Rotl(BitXor(u, x[from]), n) = x[to]
  BY <1>1, <1>2, <1>3, WordAssumption
<1>5. /\ XorTurn(x, to, from, n) = [x EXCEPT ![to] = w]
      /\ UnturnXor(x, to, from, n) = [x EXCEPT ![to] = u]
  BY <1>2, <1>3 DEF XorTurn, UnturnXor
<1> QED
  BY <1>4, <1>5, PutBack DEF XorTurn, UnturnXor, VoiceState

\* Four different lanes.
Quad(i) == /\ i[1] \in Lanes /\ i[2] \in Lanes /\ i[3] \in Lanes /\ i[4] \in Lanes
           /\ i[1] # i[2] /\ i[1] # i[4] /\ i[3] # i[4] /\ i[2] # i[3]

\* Half a quarter round and its inverse cancel.
LEMMA Halves ==
    ASSUME NEW x \in VoiceState, NEW i, Quad(i), NEW r \in Amounts, NEW s \in Amounts
    PROVE  /\ Half(x, i, r, s) \in VoiceState /\ InverseHalf(x, i, r, s) \in VoiceState
           /\ InverseHalf(Half(x, i, r, s), i, r, s) = x
           /\ Half(InverseHalf(x, i, r, s), i, r, s) = x
<1> DEFINE a == i[1] b == i[2] c == i[3] d == i[4]
<1>0. /\ a \in Lanes /\ b \in Lanes /\ c \in Lanes /\ d \in Lanes
      /\ a # b /\ d # a /\ c # d /\ b # c
  BY DEF Quad
<1> HIDE DEF a, b, c, d
<1>1. /\ Half(x, i, r, s) \in VoiceState
      /\ InverseHalf(Half(x, i, r, s), i, r, s) = x
  <2> DEFINE x1 == AddLane(x, a, b)
             x2 == XorTurn(x1, d, a, r)
             x3 == AddLane(x2, c, d)
             x4 == XorTurn(x3, b, c, s)
  <2>1. x1 \in VoiceState /\ SubLane(x1, a, b) = x
    BY <1>0, AddSub
  <2> HIDE DEF x1
  <2>2. x2 \in VoiceState /\ UnturnXor(x2, d, a, r) = x1
    BY <1>0, <2>1, TurnUnturn
  <2> HIDE DEF x2
  <2>3. x3 \in VoiceState /\ SubLane(x3, c, d) = x2
    BY <1>0, <2>2, AddSub
  <2> HIDE DEF x3
  <2>4. x4 \in VoiceState /\ UnturnXor(x4, b, c, s) = x3
    BY <1>0, <2>3, TurnUnturn
  <2>5. Half(x, i, r, s) = x4
    BY DEF Half, x1, x2, x3, a, b, c, d
  <2> HIDE DEF x4
  <2>6. InverseHalf(x4, i, r, s) = SubLane(UnturnXor(SubLane(UnturnXor(x4, b, c, s), c, d), d, a, r), a, b)
    BY DEF InverseHalf, a, b, c, d
  <2> QED
    BY <2>1, <2>2, <2>3, <2>4, <2>5, <2>6
<1>2. /\ InverseHalf(x, i, r, s) \in VoiceState
      /\ Half(InverseHalf(x, i, r, s), i, r, s) = x
  <2> DEFINE x1 == UnturnXor(x, b, c, s)
             x2 == SubLane(x1, c, d)
             x3 == UnturnXor(x2, d, a, r)
             x4 == SubLane(x3, a, b)
  <2>1. x1 \in VoiceState /\ XorTurn(x1, b, c, s) = x
    BY <1>0, TurnUnturn
  <2> HIDE DEF x1
  <2>2. x2 \in VoiceState /\ AddLane(x2, c, d) = x1
    BY <1>0, <2>1, AddSub
  <2> HIDE DEF x2
  <2>3. x3 \in VoiceState /\ XorTurn(x3, d, a, r) = x2
    BY <1>0, <2>2, TurnUnturn
  <2> HIDE DEF x3
  <2>4. x4 \in VoiceState /\ AddLane(x4, a, b) = x3
    BY <1>0, <2>3, AddSub
  <2>5. InverseHalf(x, i, r, s) = x4
    BY DEF InverseHalf, x1, x2, x3, a, b, c, d
  <2> HIDE DEF x4
  <2>6. Half(x4, i, r, s) = XorTurn(AddLane(XorTurn(AddLane(x4, a, b), d, a, r), c, d), b, c, s)
    BY DEF Half, a, b, c, d
  <2> QED
    BY <2>1, <2>2, <2>3, <2>4, <2>5, <2>6
<1> QED
  BY <1>1, <1>2

\* Four rotation amounts.
Turns(rr) == rr[1] \in Amounts /\ rr[2] \in Amounts /\ rr[3] \in Amounts /\ rr[4] \in Amounts

\* A quarter round and its inverse cancel.
LEMMA Quarters ==
    ASSUME NEW x \in VoiceState, NEW i, Quad(i), NEW rr, Turns(rr)
    PROVE  /\ QuarterRound(x, i, rr) \in VoiceState /\ InverseQuarterRound(x, i, rr) \in VoiceState
           /\ InverseQuarterRound(QuarterRound(x, i, rr), i, rr) = x
           /\ QuarterRound(InverseQuarterRound(x, i, rr), i, rr) = x
<1>1. /\ Half(x, i, rr[1], rr[2]) \in VoiceState
      /\ InverseHalf(Half(x, i, rr[1], rr[2]), i, rr[1], rr[2]) = x
      /\ InverseHalf(x, i, rr[3], rr[4]) \in VoiceState
      /\ Half(InverseHalf(x, i, rr[3], rr[4]), i, rr[3], rr[4]) = x
  BY Halves DEF Turns
<1> QED
  BY <1>1, Halves DEF Turns, QuarterRound, InverseQuarterRound

\* The rotation amounts of every voice and round, from any of them on.
LEMMA RotationAmounts ==
    ASSUME NEW voice \in Voices, NEW r \in Nat
    PROVE  \A k \in 1 .. 4 : Turns(From(VoiceRotations(voice, r), k))
<1>1. (voice + r) % 4 \in 0 .. 3
  BY DEF Voices
<1>2. ASSUME NEW m \in 0 .. 3, NEW k \in 1 .. 4, NEW j \in 1 .. 4
      PROVE  Rotations[m + 1][((k + j - 2) % 4) + 1] \in Amounts
  <2>1. (k + j - 2) % 4 \in 0 .. 3
    OBVIOUS
  <2>2. \A q \in 0 .. 3 : Rotations[m + 1][q + 1] \in Amounts
    BY DEF Rotations, Amounts
  <2> QED
    BY <2>1, <2>2
<1> QED
  BY <1>1, <1>2 DEF Turns, From, VoiceRotations

\* mix_voice and its inverse cancel.
LEMMA Mixes ==
    ASSUME NEW x \in VoiceState, NEW rr, \A k \in 1 .. 4 : Turns(From(rr, k))
    PROVE  /\ MixVoice(x, rr) \in VoiceState /\ InverseMixVoice(x, rr) \in VoiceState
           /\ InverseMixVoice(MixVoice(x, rr), rr) = x
           /\ MixVoice(InverseMixVoice(x, rr), rr) = x
<1>0. Quad(<<0, 1, 2, 3>>) /\ Quad(<<4, 5, 6, 7>>) /\ Quad(<<0, 5, 2, 7>>) /\ Quad(<<4, 1, 6, 3>>)
  BY DEF Quad, Lanes
<1>a. Turns(From(rr, 1)) /\ Turns(From(rr, 2)) /\ Turns(From(rr, 3)) /\ Turns(From(rr, 4))
  OBVIOUS
<1>1. /\ MixVoice(x, rr) \in VoiceState
      /\ InverseMixVoice(MixVoice(x, rr), rr) = x
  <2> DEFINE x1 == QuarterRound(x,  <<0, 1, 2, 3>>, From(rr, 1))
             x2 == QuarterRound(x1, <<4, 5, 6, 7>>, From(rr, 2))
             x3 == QuarterRound(x2, <<0, 5, 2, 7>>, From(rr, 3))
             x4 == QuarterRound(x3, <<4, 1, 6, 3>>, From(rr, 4))
  <2>1. x1 \in VoiceState /\ InverseQuarterRound(x1, <<0, 1, 2, 3>>, From(rr, 1)) = x
    BY <1>0, <1>a, Quarters
  <2> HIDE DEF x1
  <2>2. x2 \in VoiceState /\ InverseQuarterRound(x2, <<4, 5, 6, 7>>, From(rr, 2)) = x1
    BY <1>0, <1>a, <2>1, Quarters
  <2> HIDE DEF x2
  <2>3. x3 \in VoiceState /\ InverseQuarterRound(x3, <<0, 5, 2, 7>>, From(rr, 3)) = x2
    BY <1>0, <1>a, <2>2, Quarters
  <2> HIDE DEF x3
  <2>4. x4 \in VoiceState /\ InverseQuarterRound(x4, <<4, 1, 6, 3>>, From(rr, 4)) = x3
    BY <1>0, <1>a, <2>3, Quarters
  <2>5. MixVoice(x, rr) = x4
    BY DEF MixVoice, x1, x2, x3
  <2> HIDE DEF x4
  <2> QED
    BY <2>1, <2>2, <2>3, <2>4, <2>5 DEF InverseMixVoice
<1>2. /\ InverseMixVoice(x, rr) \in VoiceState
      /\ MixVoice(InverseMixVoice(x, rr), rr) = x
  <2> DEFINE x1 == InverseQuarterRound(x,  <<4, 1, 6, 3>>, From(rr, 4))
             x2 == InverseQuarterRound(x1, <<0, 5, 2, 7>>, From(rr, 3))
             x3 == InverseQuarterRound(x2, <<4, 5, 6, 7>>, From(rr, 2))
             x4 == InverseQuarterRound(x3, <<0, 1, 2, 3>>, From(rr, 1))
  <2>1. x1 \in VoiceState /\ QuarterRound(x1, <<4, 1, 6, 3>>, From(rr, 4)) = x
    BY <1>0, <1>a, Quarters
  <2> HIDE DEF x1
  <2>2. x2 \in VoiceState /\ QuarterRound(x2, <<0, 5, 2, 7>>, From(rr, 3)) = x1
    BY <1>0, <1>a, <2>1, Quarters
  <2> HIDE DEF x2
  <2>3. x3 \in VoiceState /\ QuarterRound(x3, <<4, 5, 6, 7>>, From(rr, 2)) = x2
    BY <1>0, <1>a, <2>2, Quarters
  <2> HIDE DEF x3
  <2>4. x4 \in VoiceState /\ QuarterRound(x4, <<0, 1, 2, 3>>, From(rr, 1)) = x3
    BY <1>0, <1>a, <2>3, Quarters
  <2>5. InverseMixVoice(x, rr) = x4
    BY DEF InverseMixVoice, x1, x2, x3
  <2> HIDE DEF x4
  <2> QED
    BY <2>1, <2>2, <2>3, <2>4, <2>5 DEF MixVoice
<1> QED
  BY <1>1, <1>2

-----------------------------------------------------------------------------
(* The braid.                                                              *)

\* From one voice to another, k lanes away.
Crossing(to, from, k) == to \in Voices /\ from \in Voices /\ to # from /\ k \in Nat

\* An assignment to lane i of one voice from a lane of another voice, and back.
LEMMA Across ==
    ASSUME NEW v0 \in State, NEW to, NEW from, NEW k, Crossing(to, from, k),
           NEW i \in Lanes, NEW n \in Amounts
    PROVE  /\ AddFrom(v0, to, i, from, k, n) \in State
           /\ SubFrom(v0, to, i, from, k, n) \in State
           /\ XorFrom(v0, to, i, from, k, n) \in State
           /\ SubFrom(AddFrom(v0, to, i, from, k, n), to, i, from, k, n) = v0
           /\ AddFrom(SubFrom(v0, to, i, from, k, n), to, i, from, k, n) = v0
           /\ XorFrom(XorFrom(v0, to, i, from, k, n), to, i, from, k, n) = v0
<1>0. to \in Voices /\ from \in Voices /\ to # from /\ k \in Nat
  BY DEF Crossing
<1> DEFINE j == (i + k) % 8
<1>1. j \in Lanes
  BY <1>0 DEF Lanes
<1> HIDE DEF j
<1>2. PICK t : t = Rotl(v0[from][j], n)
  OBVIOUS
<1>3. v0[to] \in VoiceState /\ v0[to][i] \in Word /\ t \in Word
  BY <1>0, <1>1, <1>2, WordAssumption DEF State, VoiceState
<1>4. \A w \in Word : /\ [v0 EXCEPT ![to][i] = w] \in State
                      /\ [v0 EXCEPT ![to][i] = w][from] = v0[from]
                      /\ [v0 EXCEPT ![to][i] = w][to][i] = w
                      /\ [[v0 EXCEPT ![to][i] = w] EXCEPT ![to][i] = v0[to][i]] = v0
  <2> SUFFICES ASSUME NEW w \in Word
               PROVE  /\ [v0 EXCEPT ![to][i] = w] \in State
                      /\ [v0 EXCEPT ![to][i] = w][from] = v0[from]
                      /\ [v0 EXCEPT ![to][i] = w][to][i] = w
                      /\ [[v0 EXCEPT ![to][i] = w] EXCEPT ![to][i] = v0[to][i]] = v0
    OBVIOUS
  <2>1. PICK x : x = [v0[to] EXCEPT ![i] = w]
    OBVIOUS
  <2>2. x \in VoiceState /\ x[i] = w /\ [x EXCEPT ![i] = v0[to][i]] = v0[to]
    BY <1>3, <2>1, PutBack DEF VoiceState
  <2>3. [v0 EXCEPT ![to][i] = w] = [v0 EXCEPT ![to] = x]
    BY <1>0, <2>1
  <2>4. PICK y : y = [v0 EXCEPT ![to] = x]
    OBVIOUS
  <2>5. y \in State /\ y[to] = x /\ y[from] = v0[from] /\ [y EXCEPT ![to] = v0[to]] = v0
    <3>1. v0 \in [Voices -> VoiceState]
      BY DEF State, VoiceState
    <3>2. /\ y \in [Voices -> VoiceState] /\ y[to] = x /\ [y EXCEPT ![to] = v0[to]] = v0
          /\ \A e \in Voices : e # to => y[e] = v0[e]
      BY ZenonT(30), <1>0, <2>2, <2>4, <3>1, PutBack
    <3> QED
      BY <1>0, <3>2 DEF State, VoiceState
  <2>6. [y EXCEPT ![to][i] = v0[to][i]] = [y EXCEPT ![to] = v0[to]]
    BY <1>0, <2>2, <2>5
  <2> QED
    BY <1>0, <2>2, <2>3, <2>4, <2>5, <2>6
<1>5. /\ AddFrom(v0, to, i, from, k, n) = [v0 EXCEPT ![to][i] = Plus(v0[to][i], t)]
      /\ SubFrom(v0, to, i, from, k, n) = [v0 EXCEPT ![to][i] = Minus(v0[to][i], t)]
      /\ XorFrom(v0, to, i, from, k, n) = [v0 EXCEPT ![to][i] = BitXor(v0[to][i], t)]
  BY <1>2 DEF AddFrom, SubFrom, XorFrom, j
<1>6. ASSUME NEW w \in Word
      PROVE  LET y == [v0 EXCEPT ![to][i] = w]
             IN  /\ AddFrom(y, to, i, from, k, n) = [y EXCEPT ![to][i] = Plus(w, t)]
                 /\ SubFrom(y, to, i, from, k, n) = [y EXCEPT ![to][i] = Minus(w, t)]
                 /\ XorFrom(y, to, i, from, k, n) = [y EXCEPT ![to][i] = BitXor(w, t)]
  <2>1. PICK y : y = [v0 EXCEPT ![to][i] = w]
    OBVIOUS
  <2>2. y[from] = v0[from] /\ y[to][i] = w
    BY <1>4, <2>1
  <2>3. /\ AddFrom(y, to, i, from, k, n) = [y EXCEPT ![to][i] = Plus(w, t)]
        /\ SubFrom(y, to, i, from, k, n) = [y EXCEPT ![to][i] = Minus(w, t)]
        /\ XorFrom(y, to, i, from, k, n) = [y EXCEPT ![to][i] = BitXor(w, t)]
    BY <1>2, <2>2 DEF AddFrom, SubFrom, XorFrom, j
  <2> QED
    BY <2>1, <2>3
<1>7. PICK p \in Word : p = Plus(v0[to][i], t) /\ Minus(p, t) = v0[to][i]
  BY <1>3, WordAssumption
<1>8. PICK m \in Word : m = Minus(v0[to][i], t) /\ Plus(m, t) = v0[to][i]
  BY <1>3, WordAssumption
<1>9. PICK x \in Word : x = BitXor(v0[to][i], t) /\ BitXor(x, t) = v0[to][i]
  BY <1>3, WordAssumption
<1>10. /\ AddFrom(v0, to, i, from, k, n) \in State
       /\ SubFrom(AddFrom(v0, to, i, from, k, n), to, i, from, k, n) = v0
  <2>1. PICK y : y = [v0 EXCEPT ![to][i] = p]
    OBVIOUS
  <2>2. AddFrom(v0, to, i, from, k, n) = y
    BY <1>5, <1>7, <2>1
  <2>3. y \in State /\ [y EXCEPT ![to][i] = v0[to][i]] = v0
    BY <1>4, <2>1
  <2>4. SubFrom(y, to, i, from, k, n) = [y EXCEPT ![to][i] = Minus(p, t)]
    BY <1>6, <2>1
  <2>5. SubFrom(y, to, i, from, k, n) = v0
    BY <1>7, <2>3, <2>4
  <2> QED
    BY <2>2, <2>3, <2>5
<1>11. /\ SubFrom(v0, to, i, from, k, n) \in State
       /\ AddFrom(SubFrom(v0, to, i, from, k, n), to, i, from, k, n) = v0
  <2>1. PICK y : y = [v0 EXCEPT ![to][i] = m]
    OBVIOUS
  <2>2. SubFrom(v0, to, i, from, k, n) = y
    BY <1>5, <1>8, <2>1
  <2>3. y \in State /\ [y EXCEPT ![to][i] = v0[to][i]] = v0
    BY <1>4, <2>1
  <2>4. AddFrom(y, to, i, from, k, n) = [y EXCEPT ![to][i] = Plus(m, t)]
    BY <1>6, <2>1
  <2>5. AddFrom(y, to, i, from, k, n) = v0
    BY <1>8, <2>3, <2>4
  <2> QED
    BY <2>2, <2>3, <2>5
<1>12. /\ XorFrom(v0, to, i, from, k, n) \in State
       /\ XorFrom(XorFrom(v0, to, i, from, k, n), to, i, from, k, n) = v0
  <2>1. PICK y : y = [v0 EXCEPT ![to][i] = x]
    OBVIOUS
  <2>2. XorFrom(v0, to, i, from, k, n) = y
    BY <1>5, <1>9, <2>1
  <2>3. y \in State /\ [y EXCEPT ![to][i] = v0[to][i]] = v0
    BY <1>4, <2>1
  <2>4. XorFrom(y, to, i, from, k, n) = [y EXCEPT ![to][i] = BitXor(x, t)]
    BY <1>6, <2>1
  <2>5. XorFrom(y, to, i, from, k, n) = v0
    BY <1>9, <2>3, <2>4
  <2> QED
    BY <2>2, <2>3, <2>5
<1> QED
  BY <1>10, <1>11, <1>12

\* The amounts a braid rotates by.
LEMMA BraidAmounts ==
    ASSUME NEW i \in Lanes, NEW k \in Nat
    PROVE  At(RA, i, k) \in Amounts /\ At(RB, i, k) \in Amounts
<1>1. (i + k) % 8 \in 0 .. 7
  BY DEF Lanes
<1>2. \A q \in 0 .. 7 : RA[q + 1] \in Amounts /\ RB[q + 1] \in Amounts
  BY DEF RA, RB, Amounts
<1> QED
  BY <1>1, <1>2 DEF At

\* A step of the braid and its inverse cancel: the four assignments are undone
\* from the last to the first.
LEMMA BraidSteps ==
    ASSUME NEW v0 \in State, NEW i \in Lanes, NEW r \in Nat
    PROVE  /\ BraidStep(v0, i, r) \in State /\ InverseBraidStep(v0, i, r) \in State
           /\ InverseBraidStep(BraidStep(v0, i, r), i, r) = v0
           /\ BraidStep(InverseBraidStep(v0, i, r), i, r) = v0
<1>0. /\ Crossing(0, 1, 1) /\ Crossing(2, 0, 3) /\ Crossing(3, 2, 5) /\ Crossing(1, 3, 7)
      /\ Crossing(3, 2, 2) /\ Crossing(1, 3, 4) /\ Crossing(0, 1, 6) /\ Crossing(2, 0, 1)
  BY DEF Crossing, Voices
<1>a. /\ At(RA, i, 0) \in Amounts /\ At(RA, i, 2) \in Amounts /\ At(RA, i, 5) \in Amounts
      /\ At(RB, i, 0) \in Amounts /\ At(RB, i, 3) \in Amounts /\ At(RB, i, 4) \in Amounts
  BY BraidAmounts
<1>1. CASE r % 2 = 0
  <2>1. PICK n1 \in Amounts : n1 = At(RA, i, 0)
    BY <1>a
  <2>2. PICK n2 \in Amounts : n2 = At(RB, i, 0)
    BY <1>a
  <2>3. PICK n3 \in Amounts : n3 = At(RA, i, 2)
    BY <1>a
  <2>4. PICK n4 \in Amounts : n4 = At(RB, i, 4)
    BY <1>a
  <2>5. PICK x1 \in State : x1 = AddFrom(v0, 0, i, 1, 1, n1) /\ SubFrom(x1, 0, i, 1, 1, n1) = v0
    BY <1>0, Across
  <2>6. PICK x2 \in State : x2 = XorFrom(x1, 2, i, 0, 3, n2) /\ XorFrom(x2, 2, i, 0, 3, n2) = x1
    BY <1>0, Across
  <2>7. PICK x3 \in State : x3 = AddFrom(x2, 3, i, 2, 5, n3) /\ SubFrom(x3, 3, i, 2, 5, n3) = x2
    BY <1>0, Across
  <2>8. PICK x4 \in State : x4 = XorFrom(x3, 1, i, 3, 7, n4) /\ XorFrom(x4, 1, i, 3, 7, n4) = x3
    BY <1>0, Across
  <2>9. BraidStep(v0, i, r) = x4 /\ InverseBraidStep(x4, i, r) = v0
    BY <1>1, <2>1, <2>2, <2>3, <2>4, <2>5, <2>6, <2>7, <2>8 DEF BraidStep, InverseBraidStep
  <2>10. PICK y4 \in State : y4 = XorFrom(v0, 1, i, 3, 7, n4) /\ XorFrom(y4, 1, i, 3, 7, n4) = v0
    BY <1>0, Across
  <2>11. PICK y3 \in State : y3 = SubFrom(y4, 3, i, 2, 5, n3) /\ AddFrom(y3, 3, i, 2, 5, n3) = y4
    BY <1>0, Across
  <2>12. PICK y2 \in State : y2 = XorFrom(y3, 2, i, 0, 3, n2) /\ XorFrom(y2, 2, i, 0, 3, n2) = y3
    BY <1>0, Across
  <2>13. PICK y1 \in State : y1 = SubFrom(y2, 0, i, 1, 1, n1) /\ AddFrom(y1, 0, i, 1, 1, n1) = y2
    BY <1>0, Across
  <2>14. InverseBraidStep(v0, i, r) = y1 /\ BraidStep(y1, i, r) = v0
    BY <1>1, <2>1, <2>2, <2>3, <2>4, <2>10, <2>11, <2>12, <2>13 DEF BraidStep, InverseBraidStep
  <2> QED
    BY <2>9, <2>14
<1>2. CASE r % 2 # 0
  <2>1. PICK n1 \in Amounts : n1 = At(RB, i, 0)
    BY <1>a
  <2>2. PICK n2 \in Amounts : n2 = At(RA, i, 0)
    BY <1>a
  <2>3. PICK n3 \in Amounts : n3 = At(RB, i, 3)
    BY <1>a
  <2>4. PICK n4 \in Amounts : n4 = At(RA, i, 5)
    BY <1>a
  <2>5. PICK x1 \in State : x1 = AddFrom(v0, 3, i, 2, 2, n1) /\ SubFrom(x1, 3, i, 2, 2, n1) = v0
    BY <1>0, Across
  <2>6. PICK x2 \in State : x2 = XorFrom(x1, 1, i, 3, 4, n2) /\ XorFrom(x2, 1, i, 3, 4, n2) = x1
    BY <1>0, Across
  <2>7. PICK x3 \in State : x3 = AddFrom(x2, 0, i, 1, 6, n3) /\ SubFrom(x3, 0, i, 1, 6, n3) = x2
    BY <1>0, Across
  <2>8. PICK x4 \in State : x4 = XorFrom(x3, 2, i, 0, 1, n4) /\ XorFrom(x4, 2, i, 0, 1, n4) = x3
    BY <1>0, Across
  <2>9. BraidStep(v0, i, r) = x4 /\ InverseBraidStep(x4, i, r) = v0
    BY <1>2, <2>1, <2>2, <2>3, <2>4, <2>5, <2>6, <2>7, <2>8 DEF BraidStep, InverseBraidStep
  <2>10. PICK y4 \in State : y4 = XorFrom(v0, 2, i, 0, 1, n4) /\ XorFrom(y4, 2, i, 0, 1, n4) = v0
    BY <1>0, Across
  <2>11. PICK y3 \in State : y3 = SubFrom(y4, 0, i, 1, 6, n3) /\ AddFrom(y3, 0, i, 1, 6, n3) = y4
    BY <1>0, Across
  <2>12. PICK y2 \in State : y2 = XorFrom(y3, 1, i, 3, 4, n2) /\ XorFrom(y2, 1, i, 3, 4, n2) = y3
    BY <1>0, Across
  <2>13. PICK y1 \in State : y1 = SubFrom(y2, 3, i, 2, 2, n1) /\ AddFrom(y1, 3, i, 2, 2, n1) = y2
    BY <1>0, Across
  <2>14. InverseBraidStep(v0, i, r) = y1 /\ BraidStep(y1, i, r) = v0
    BY <1>2, <2>1, <2>2, <2>3, <2>4, <2>10, <2>11, <2>12, <2>13 DEF BraidStep, InverseBraidStep
  <2> QED
    BY <2>9, <2>14
<1> QED
  BY <1>1, <1>2

\* The braid and its inverse cancel: the steps are undone from the last to the first.
LEMMA Braids ==
    ASSUME NEW v0 \in State, NEW r \in Nat
    PROVE  /\ Braid(v0, r) \in State /\ InverseBraid(v0, r) \in State
           /\ InverseBraid(Braid(v0, r), r) = v0
           /\ Braid(InverseBraid(v0, r), r) = v0
<1>0. \A i \in 0 .. 7 : i \in Lanes
  BY DEF Lanes
<1> DEFINE Up(w, i, u)   == u \in State /\ u = BraidStep(w, i, r) /\ InverseBraidStep(u, i, r) = w
           Down(w, i, u) == u \in State /\ u = InverseBraidStep(w, i, r) /\ BraidStep(u, i, r) = w
<1>1. \A w \in State : \A i \in 0 .. 7 : (\E u : Up(w, i, u)) /\ (\E u : Down(w, i, u))
  <2> SUFFICES ASSUME NEW w \in State, NEW i \in 0 .. 7
               PROVE  (\E u : Up(w, i, u)) /\ (\E u : Down(w, i, u))
    OBVIOUS
  <2>1. Up(w, i, BraidStep(w, i, r)) /\ Down(w, i, InverseBraidStep(w, i, r))
    BY <1>0, BraidSteps
  <2> QED
    BY <2>1
<1>2. PICK a1 : Up(v0, 0, a1)
  BY <1>1
<1>3. PICK a2 : Up(a1, 1, a2)
  BY <1>1, <1>2
<1>4. PICK a3 : Up(a2, 2, a3)
  BY <1>1, <1>3
<1>5. PICK a4 : Up(a3, 3, a4)
  BY <1>1, <1>4
<1>6. PICK a5 : Up(a4, 4, a5)
  BY <1>1, <1>5
<1>7. PICK a6 : Up(a5, 5, a6)
  BY <1>1, <1>6
<1>8. PICK a7 : Up(a6, 6, a7)
  BY <1>1, <1>7
<1>9. PICK a8 : Up(a7, 7, a8)
  BY <1>1, <1>8
<1>10. Braid(v0, r) = a8
  BY <1>2, <1>3, <1>4, <1>5, <1>6, <1>7, <1>8, <1>9 DEF Braid
<1>11. a8 \in State /\ InverseBraid(a8, r) = v0
  BY <1>2, <1>3, <1>4, <1>5, <1>6, <1>7, <1>8, <1>9 DEF InverseBraid
<1>12. PICK b1 : Down(v0, 7, b1)
  BY <1>1
<1>13. PICK b2 : Down(b1, 6, b2)
  BY <1>1, <1>12
<1>14. PICK b3 : Down(b2, 5, b3)
  BY <1>1, <1>13
<1>15. PICK b4 : Down(b3, 4, b4)
  BY <1>1, <1>14
<1>16. PICK b5 : Down(b4, 3, b5)
  BY <1>1, <1>15
<1>17. PICK b6 : Down(b5, 2, b6)
  BY <1>1, <1>16
<1>18. PICK b7 : Down(b6, 1, b7)
  BY <1>1, <1>17
<1>19. PICK b8 : Down(b7, 0, b8)
  BY <1>1, <1>18
<1>20. InverseBraid(v0, r) = b8
  BY <1>12, <1>13, <1>14, <1>15, <1>16, <1>17, <1>18, <1>19 DEF InverseBraid
<1>21. b8 \in State /\ Braid(b8, r) = v0
  BY <1>12, <1>13, <1>14, <1>15, <1>16, <1>17, <1>18, <1>19 DEF Braid
<1> QED
  BY <1>10, <1>11, <1>20, <1>21

-----------------------------------------------------------------------------
(* The lanes of a voice.                                                   *)

\* Every lane once.
Shuffle(order) == /\ \A out \in Lanes : order[out + 1] \in Lanes
                  /\ \A a, b \in Lanes : order[a + 1] = order[b + 1] => a = b
                  /\ \A lane \in Lanes : \E out \in Lanes : order[out + 1] = lane

\* A gather and the scatter in the same order cancel.
LEMMA GatherScatter ==
    ASSUME NEW x \in VoiceState, NEW order, Shuffle(order)
    PROVE  /\ Gather(x, order) \in VoiceState /\ Scatter(x, order) \in VoiceState
           /\ Scatter(Gather(x, order), order) = x
           /\ Gather(Scatter(x, order), order) = x
<1> DEFINE Out(lane) == CHOOSE out \in Lanes : order[out + 1] = lane
<1>1. \A lane \in Lanes : Out(lane) \in Lanes /\ order[Out(lane) + 1] = lane
  BY DEF Shuffle
<1>2. \A a \in Lanes : order[a + 1] \in Lanes /\ Out(order[a + 1]) = a
  BY <1>1 DEF Shuffle
<1>3. /\ \A y : Gather(y, order) = [lane \in Lanes |-> y[order[lane + 1]]]
      /\ \A y : Scatter(y, order) = [lane \in Lanes |-> y[Out(lane)]]
  BY DEF Gather, Scatter
<1> HIDE DEF Out
<1>4. /\ Gather(x, order) \in VoiceState /\ Scatter(x, order) \in VoiceState
  BY <1>1, <1>2, <1>3 DEF VoiceState
<1>5. Scatter(Gather(x, order), order) = x
  BY <1>1, <1>2, <1>3 DEF VoiceState
<1>6. Gather(Scatter(x, order), order) = x
  BY <1>1, <1>2, <1>3 DEF VoiceState
<1> QED
  BY <1>4, <1>5, <1>6

\* Each order of the permutation has every lane once, and the inverse has the same orders.
LEMMA Orders ==
    \A voice \in Voices : /\ Shuffle(EvenOrder[voice + 1]) /\ even[voice + 1] = EvenOrder[voice + 1]
                          /\ Shuffle(OddOrder[voice + 1]) /\ odd[voice + 1] = OddOrder[voice + 1]
<1>1. Shuffle(EvenOrder[1]) /\ Shuffle(EvenOrder[2]) /\ Shuffle(EvenOrder[3]) /\ Shuffle(EvenOrder[4])
  BY DEF Shuffle, EvenOrder, Lanes
<1>2. Shuffle(OddOrder[1]) /\ Shuffle(OddOrder[2]) /\ Shuffle(OddOrder[3]) /\ Shuffle(OddOrder[4])
  BY DEF Shuffle, OddOrder, Lanes
<1>3. \A voice \in Voices : voice + 1 \in {1, 2, 3, 4}
  BY DEF Voices
<1>4. even = EvenOrder /\ odd = OddOrder
  BY DEF even, odd, EvenOrder, OddOrder
<1> QED
  BY <1>1, <1>2, <1>3, <1>4

\* permute_lanes and its inverse cancel.
LEMMA LanesCancel ==
    ASSUME NEW v0 \in State, NEW r \in Nat
    PROVE  /\ PermuteLanes(v0, r) \in State /\ InversePermuteLanes(v0, r) \in State
           /\ InversePermuteLanes(PermuteLanes(v0, r), r) = v0
           /\ PermuteLanes(InversePermuteLanes(v0, r), r) = v0
<1> DEFINE Order(voice) == IF r % 2 = 0 THEN EvenOrder[voice + 1] ELSE OddOrder[voice + 1]
<1>1. \A voice \in Voices : Shuffle(Order(voice))
  BY Orders
<1>2. /\ \A y : PermuteLanes(y, r) = [voice \in Voices |-> Gather(y[voice], Order(voice))]
      /\ \A y : InversePermuteLanes(y, r) = [voice \in Voices |-> Scatter(y[voice], Order(voice))]
  BY Orders DEF PermuteLanes, InversePermuteLanes
<1> HIDE DEF Order
<1>3. \A voice \in Voices :
         /\ Gather(v0[voice], Order(voice)) \in VoiceState
         /\ Scatter(v0[voice], Order(voice)) \in VoiceState
         /\ Scatter(Gather(v0[voice], Order(voice)), Order(voice)) = v0[voice]
         /\ Gather(Scatter(v0[voice], Order(voice)), Order(voice)) = v0[voice]
  <2> TAKE voice \in Voices
  <2>1. v0[voice] \in VoiceState
    BY DEF State, VoiceState
  <2> QED
    BY <1>1, <2>1, GatherScatter
<1>4. PermuteLanes(v0, r) \in State /\ InversePermuteLanes(v0, r) \in State
  BY <1>2, <1>3 DEF State, VoiceState
<1>5. InversePermuteLanes(PermuteLanes(v0, r), r) = v0
  BY <1>2, <1>3 DEF State
<1>6. PermuteLanes(InversePermuteLanes(v0, r), r) = v0
  BY <1>2, <1>3 DEF State
<1> QED
  BY <1>4, <1>5, <1>6

-----------------------------------------------------------------------------
(* A round.                                                                *)

\* The constants, the S-boxes and the mixing of one voice, and their inverse.
LEMMA VoicesCancel ==
    ASSUME NEW x \in VoiceState, NEW voice \in Voices, NEW r \in 0 .. MaxRounds - 1
    PROVE  /\ Voice(x, voice, r) \in VoiceState /\ InverseVoice(x, voice, r) \in VoiceState
           /\ InverseVoice(Voice(x, voice, r), voice, r) = x
           /\ Voice(InverseVoice(x, voice, r), voice, r) = x
<1>0. r \in Nat /\ (voice + r) % 4 \in Voices
  BY RoundsAssumption DEF Voices
<1>1. PICK layer \in Voices : layer = (voice + r) % 4
  BY <1>0
<1>2. PICK rr : rr = VoiceRotations(voice, r) /\ \A k \in 1 .. 4 : Turns(From(rr, k))
  BY <1>0, RotationAmounts
<1> DEFINE Subst(y)   == [lane \in Lanes |-> Sbox(layer, BitXor(y[lane], RC(r, voice, lane)))]
           Unsubst(y) == [lane \in Lanes |-> BitXor(SboxInv(layer, y[lane]), RC(r, voice, lane))]
<1>3. /\ \A y : Voice(y, voice, r) = MixVoice(Subst(y), rr)
      /\ \A y : InverseVoice(y, voice, r) = Unsubst(InverseMixVoice(y, rr))
  BY <1>1, <1>2 DEF Voice, InverseVoice
<1>4. \A y \in VoiceState : /\ Subst(y) \in VoiceState /\ Unsubst(y) \in VoiceState
                            /\ Unsubst(Subst(y)) = y /\ Subst(Unsubst(y)) = y
  <2> TAKE y \in VoiceState
  <2>1. \A lane \in Lanes : y[lane] \in Word /\ RC(r, voice, lane) \in Word
    BY TableAssumption DEF VoiceState
  <2>2. \A lane \in Lanes :
           /\ Sbox(layer, BitXor(y[lane], RC(r, voice, lane))) \in Word
           /\ BitXor(SboxInv(layer, y[lane]), RC(r, voice, lane)) \in Word
           /\ BitXor(SboxInv(layer, Sbox(layer, BitXor(y[lane], RC(r, voice, lane)))), RC(r, voice, lane)) = y[lane]
           /\ Sbox(layer, BitXor(BitXor(SboxInv(layer, y[lane]), RC(r, voice, lane)), RC(r, voice, lane))) = y[lane]
    BY <2>1, WordAssumption, TableAssumption
  <2> QED
    BY <2>2 DEF VoiceState
<1> HIDE DEF Subst, Unsubst
<1>5. /\ Voice(x, voice, r) \in VoiceState
      /\ InverseVoice(Voice(x, voice, r), voice, r) = x
  BY <1>2, <1>3, <1>4, Mixes
<1>6. /\ InverseVoice(x, voice, r) \in VoiceState
      /\ Voice(InverseVoice(x, voice, r), voice, r) = x
  <2>1. InverseMixVoice(x, rr) \in VoiceState /\ MixVoice(InverseMixVoice(x, rr), rr) = x
    BY <1>2, Mixes
  <2> QED
    BY <1>3, <1>4, <2>1
<1> QED
  BY <1>5, <1>6

\* apply_round and apply_inverse_round cancel.
LEMMA Rounds ==
    ASSUME NEW v0 \in State, NEW r \in 0 .. MaxRounds - 1
    PROVE  /\ ApplyRound(v0, r) \in State /\ ApplyInverseRound(v0, r) \in State
           /\ ApplyInverseRound(ApplyRound(v0, r), r) = v0
           /\ ApplyRound(ApplyInverseRound(v0, r), r) = v0
<1>0. r \in Nat
  BY RoundsAssumption
<1> DEFINE All(w)   == [voice \in Voices |-> Voice(w[voice], voice, r)]
           Unall(w) == [voice \in Voices |-> InverseVoice(w[voice], voice, r)]
<1>1. /\ \A w : ApplyRound(w, r) = PermuteLanes(Braid(All(w), r), r)
      /\ \A w : ApplyInverseRound(w, r) = Unall(InverseBraid(InversePermuteLanes(w, r), r))
  BY DEF ApplyRound, ApplyInverseRound
<1>2. \A w \in State : /\ All(w) \in State /\ Unall(w) \in State
                       /\ Unall(All(w)) = w /\ All(Unall(w)) = w
  <2> TAKE w \in State
  <2>1. \A voice \in Voices :
           /\ Voice(w[voice], voice, r) \in VoiceState /\ InverseVoice(w[voice], voice, r) \in VoiceState
           /\ InverseVoice(Voice(w[voice], voice, r), voice, r) = w[voice]
           /\ Voice(InverseVoice(w[voice], voice, r), voice, r) = w[voice]
    <3> TAKE voice \in Voices
    <3>1. w[voice] \in VoiceState
      BY DEF State, VoiceState
    <3> QED
      BY <3>1, VoicesCancel
  <2> QED
    BY <2>1 DEF State, VoiceState
<1> HIDE DEF All, Unall
<1>3. /\ ApplyRound(v0, r) \in State
      /\ ApplyInverseRound(ApplyRound(v0, r), r) = v0
  <2>1. PICK x1 \in State : x1 = All(v0) /\ Unall(x1) = v0
    BY <1>2
  <2>2. PICK x2 \in State : x2 = Braid(x1, r) /\ InverseBraid(x2, r) = x1
    BY <1>0, Braids
  <2>3. PICK x3 \in State : x3 = PermuteLanes(x2, r) /\ InversePermuteLanes(x3, r) = x2
    BY <1>0, LanesCancel
  <2> QED
    BY <1>1, <2>1, <2>2, <2>3
<1>4. /\ ApplyInverseRound(v0, r) \in State
      /\ ApplyRound(ApplyInverseRound(v0, r), r) = v0
  <2>1. PICK x1 \in State : x1 = InversePermuteLanes(v0, r) /\ PermuteLanes(x1, r) = v0
    BY <1>0, LanesCancel
  <2>2. PICK x2 \in State : x2 = InverseBraid(x1, r) /\ Braid(x2, r) = x1
    BY <1>0, Braids
  <2>3. PICK x3 \in State : x3 = Unall(x2) /\ All(x3) = x2
    BY <1>2
  <2> QED
    BY <1>1, <2>1, <2>2, <2>3
<1> QED
  BY <1>3, <1>4

-----------------------------------------------------------------------------
(* The calls.  The ghost trace holds the states at every round the first   *)
(* call has reached, each linked to the next by that round; v is the one   *)
(* of them at the current round.                                           *)

Reached ==
    IF calls = 0 THEN {}
    ELSE IF calls = 2 THEN 0 .. Clamp(asked)
    ELSE IF running = "permute" THEN 0 .. round ELSE round .. Clamp(asked)

Linked(t) == \A r \in Nat : (r \in DOMAIN t /\ r + 1 \in DOMAIN t) =>
                /\ t[r + 1] = ApplyRound(t[r], r)
                /\ t[r] = ApplyInverseRound(t[r + 1], r)

IInv ==
    /\ TypeOK
    /\ running = "none" <=> calls = 0
    /\ calls = 0 => round = 0
    /\ round \in 0 .. Clamp(asked)
    /\ DOMAIN trace = Reached
    /\ Linked(trace)
    /\ calls # 0 => v = trace[round]

\* A clamped number of rounds has constants for every round.
LEMMA Clamped ==
    ASSUME NEW n \in Nat
    PROVE  /\ Clamp(n) \in 0 .. MaxRounds
           /\ \A call : StartOf(call, n) \in 0 .. Clamp(n) /\ EndOf(call, n) \in 0 .. Clamp(n)
  BY RoundsAssumption DEF Clamp, StartOf, EndOf

\* The invariant holds before the first call.
LEMMA InitInv == Init => IInv
<1> SUFFICES ASSUME Init PROVE IInv
  OBVIOUS
<1>1. v \in State /\ asked \in RoundArgs /\ asked \in Nat
  BY CallerAssumption DEF Init
<1>2. Clamp(asked) \in 0 .. MaxRounds
  BY <1>1, Clamped
<1>3. DOMAIN trace = {}
  BY DEF Init
<1> QED
  BY <1>1, <1>2, <1>3, RoundsAssumption DEF Init, IInv, TypeOK, Reached, Linked

\* A call's beginning, a round of either function and a call's end preserve it.
LEMMA StepInv == IInv /\ [Next]_vars => IInv'
<1> SUFFICES ASSUME IInv, [Next]_vars PROVE IInv'
  OBVIOUS
<1> USE DEF IInv
<1>0. asked \in Nat /\ Clamp(asked) \in 0 .. MaxRounds /\ MaxRounds \in Nat
  BY CallerAssumption, Clamped, RoundsAssumption DEF TypeOK
<1>1. CASE CallFirst
  <2>1. PICK call \in {"permute", "inverse"} :
           /\ running' = call /\ round' = StartOf(call, asked)
           /\ trace' = [r \in {StartOf(call, asked)} |-> v]
    BY <1>1 DEF CallFirst
  <2>2. calls' = 1 /\ v' = v /\ asked' = asked
    BY <1>1 DEF CallFirst
  <2>3. round' \in 0 .. Clamp(asked)
    BY <1>0, <2>1, Clamped
  <2>4. DOMAIN trace' = {round'} /\ trace'[round'] = v
    BY <2>1
  <2>5. Reached' = {round'}
    BY <1>0, <2>1, <2>2, <2>3 DEF Reached, StartOf
  <2>6. Linked(trace')
    <3>1. \A r \in Nat : ~ (r = round' /\ r + 1 = round')
      OBVIOUS
    <3> QED
      BY <2>4, <3>1 DEF Linked
  <2>7. TypeOK'
    BY <1>0, <2>1, <2>2, <2>3, <2>4 DEF TypeOK
  <2> QED
    BY <2>1, <2>2, <2>3, <2>4, <2>5, <2>6, <2>7
<1>2. CASE Round
  <2>1. /\ running = "permute" /\ round < Clamp(asked)
        /\ v' = ApplyRound(v, round) /\ round' = round + 1
        /\ asked' = asked /\ running' = running /\ calls' = calls
    BY <1>2 DEF Round
  <2>2. round \in 0 .. MaxRounds - 1 /\ v \in State /\ calls \in {1, 2}
    BY <1>0, <2>1 DEF TypeOK
  <2>3. v' \in State /\ ApplyInverseRound(v', round) = v
    BY <2>1, <2>2, Rounds
  <2>4. round' \in 0 .. Clamp(asked) /\ round' \in 0 .. MaxRounds
    BY <1>0, <2>1, <2>2
  <2>5. CASE calls = 1
    <3>1. trace' = [r \in DOMAIN trace \cup {round + 1} |-> IF r = round + 1 THEN v' ELSE trace[r]]
      BY <1>2, <2>5 DEF Round
    <3>2. DOMAIN trace = 0 .. round /\ v = trace[round]
      BY <2>1, <2>5 DEF Reached
    <3>3. DOMAIN trace' = 0 .. round + 1
      BY <2>2, <3>1, <3>2
    <3>4. trace'[round + 1] = v' /\ \A r \in 0 .. round : trace'[r] = trace[r]
      BY <2>2, <3>1, <3>2
    <3>5. Linked(trace')
      <4> SUFFICES ASSUME NEW r \in Nat, r \in 0 .. round + 1, r + 1 \in 0 .. round + 1
                   PROVE  /\ trace'[r + 1] = ApplyRound(trace'[r], r)
                          /\ trace'[r] = ApplyInverseRound(trace'[r + 1], r)
        BY <3>3 DEF Linked
      <4>1. CASE r = round
        BY <2>1, <2>2, <2>3, <3>2, <3>4, <4>1
      <4>2. CASE r # round
        <5>1. r \in 0 .. round /\ r + 1 \in 0 .. round
          BY <2>2, <4>2
        <5> QED
          BY <3>2, <3>4, <5>1 DEF Linked
      <4> QED
        BY <4>1, <4>2
    <3>6. TypeOK'
      <4>1. \A r \in DOMAIN trace' : trace'[r] \in State
        BY <2>2, <2>3, <3>2, <3>3, <3>4 DEF TypeOK
      <4>2. DOMAIN trace' \subseteq 0 .. MaxRounds
        BY <2>1, <2>4, <2>2, <1>0, <3>3
      <4> QED
        BY <2>1, <2>3, <2>4, <4>1, <4>2 DEF TypeOK
    <3>7. Reached' = 0 .. round'
      BY <2>1, <2>5 DEF Reached
    <3> QED
      BY <2>1, <2>2, <2>4, <2>5, <3>3, <3>4, <3>5, <3>6, <3>7
  <2>6. CASE calls = 2
    <3>1. trace' = trace
      BY <1>2, <2>6 DEF Round
    <3>2. DOMAIN trace = 0 .. Clamp(asked) /\ Reached' = 0 .. Clamp(asked)
      BY <2>1, <2>6 DEF Reached
    <3>3. round \in DOMAIN trace /\ round + 1 \in DOMAIN trace /\ round \in Nat
      BY <2>1, <2>2, <2>4, <3>2
    <3>4. v' = trace[round + 1]
      BY <2>1, <2>6, <3>3 DEF Linked
    <3>5. Linked(trace)
      OBVIOUS
    <3>6. TypeOK'
      BY <2>1, <2>3, <2>4, <3>1 DEF TypeOK
    <3> QED
      BY <2>1, <2>4, <2>6, <3>1, <3>2, <3>4, <3>5, <3>6
  <2> QED
    BY <2>2, <2>5, <2>6
<1>3. CASE InverseRound
  <2>1. /\ running = "inverse" /\ round > 0
        /\ v' = ApplyInverseRound(v, round - 1) /\ round' = round - 1
        /\ asked' = asked /\ running' = running /\ calls' = calls
    BY <1>3 DEF InverseRound
  <2>2. /\ round - 1 \in 0 .. MaxRounds - 1 /\ round - 1 \in Nat /\ v \in State
        /\ calls \in {1, 2}
    BY <1>0, <2>1 DEF TypeOK
  <2>3. v' \in State /\ ApplyRound(v', round - 1) = v
    BY <2>1, <2>2, Rounds
  <2>4. round' \in 0 .. Clamp(asked) /\ round' \in 0 .. MaxRounds
    BY <1>0, <2>1, <2>2
  <2>5. CASE calls = 1
    <3>1. trace' = [r \in DOMAIN trace \cup {round - 1} |-> IF r = round - 1 THEN v' ELSE trace[r]]
      BY <1>3, <2>5 DEF InverseRound
    <3>2. DOMAIN trace = round .. Clamp(asked) /\ v = trace[round]
      BY <2>1, <2>5 DEF Reached
    <3>3. DOMAIN trace' = round - 1 .. Clamp(asked)
      BY <1>0, <2>2, <2>4, <3>1, <3>2
    <3>4. trace'[round - 1] = v' /\ \A r \in round .. Clamp(asked) : trace'[r] = trace[r]
      BY <2>2, <3>1, <3>2
    <3>5. Linked(trace')
      <4> SUFFICES ASSUME NEW r \in Nat, r \in round - 1 .. Clamp(asked),
                          r + 1 \in round - 1 .. Clamp(asked)
                   PROVE  /\ trace'[r + 1] = ApplyRound(trace'[r], r)
                          /\ trace'[r] = ApplyInverseRound(trace'[r + 1], r)
        BY <3>3 DEF Linked
      <4>1. CASE r = round - 1
        <5>1. r + 1 = round /\ round \in round .. Clamp(asked)
          BY <1>0, <2>2, <4>1
        <5> QED
          BY <2>1, <2>3, <3>2, <3>4, <4>1, <5>1
      <4>2. CASE r # round - 1
        <5>1. r \in round .. Clamp(asked) /\ r + 1 \in round .. Clamp(asked)
          BY <1>0, <2>2, <4>2
        <5> QED
          BY <3>2, <3>4, <5>1 DEF Linked
      <4> QED
        BY <4>1, <4>2
    <3>6. TypeOK'
      <4>1. \A r \in DOMAIN trace' : trace'[r] \in State
        <5> SUFFICES ASSUME NEW r \in round - 1 .. Clamp(asked) PROVE trace'[r] \in State
          BY <3>3
        <5>1. r = round - 1 \/ r \in round .. Clamp(asked)
          BY <1>0, <2>2
        <5> QED
          BY <2>3, <3>2, <3>4, <5>1 DEF TypeOK
      <4>2. DOMAIN trace' \subseteq 0 .. MaxRounds
        BY <1>0, <2>2, <3>3
      <4> QED
        BY <2>1, <2>3, <2>4, <4>1, <4>2 DEF TypeOK
    <3>7. Reached' = round' .. Clamp(asked)
      BY <2>1, <2>5 DEF Reached
    <3> QED
      BY <2>1, <2>2, <2>4, <2>5, <3>3, <3>4, <3>5, <3>6, <3>7
  <2>6. CASE calls = 2
    <3>1. trace' = trace
      BY <1>3, <2>6 DEF InverseRound
    <3>2. DOMAIN trace = 0 .. Clamp(asked) /\ Reached' = 0 .. Clamp(asked)
      BY <2>1, <2>6 DEF Reached
    <3>3. round - 1 \in DOMAIN trace /\ (round - 1) + 1 \in DOMAIN trace /\ (round - 1) + 1 = round
      BY <2>1, <2>2, <2>4, <3>2
    <3>4. v' = trace[round - 1]
      BY <2>1, <2>2, <2>6, <3>3 DEF Linked
    <3>5. Linked(trace)
      OBVIOUS
    <3>6. TypeOK'
      BY <2>1, <2>3, <2>4, <3>1 DEF TypeOK
    <3> QED
      BY <2>1, <2>4, <2>6, <3>1, <3>2, <3>4, <3>5, <3>6
  <2> QED
    BY <2>2, <2>5, <2>6
<1>4. CASE CallSecond
  <2>1. /\ calls = 1 /\ round = EndOf(running, asked) /\ calls' = 2
        /\ running' = IF running = "permute" THEN "inverse" ELSE "permute"
        /\ round' = StartOf(running', asked)
        /\ v' = v /\ asked' = asked /\ trace' = trace
    BY <1>4 DEF CallSecond
  <2>2. running \in {"permute", "inverse"}
    BY <2>1 DEF TypeOK
  <2>3. round' = round /\ DOMAIN trace = 0 .. Clamp(asked)
    BY <2>1, <2>2 DEF Reached, StartOf, EndOf
  <2>4. Reached' = 0 .. Clamp(asked)
    BY <2>1 DEF Reached
  <2>5. TypeOK'
    BY <2>1, <2>3 DEF TypeOK
  <2>6. Linked(trace)
    OBVIOUS
  <2> QED
    BY <2>1, <2>3, <2>4, <2>5, <2>6
<1>5. CASE Returned \/ UNCHANGED vars
  BY <1>5 DEF Returned, vars, TypeOK, Reached, Linked
<1> QED
  BY <1>1, <1>2, <1>3, <1>4, <1>5 DEF Next

\* The rounds of every call are rounds there are constants for, whatever number
\* the caller asks for (frogbard_permute_reduced and its inverse clamp it).
THEOREM PermuteTypes == Spec => []TypeOK
<1>1. IInv => TypeOK
  BY DEF IInv
<1> QED
  BY <1>1, InitInv, StepInv, PTL DEF Spec

\* The call that undoes another passes through the same states backwards
\* (apply_inverse_round against apply_round), for every word, S-box and table.
THEOREM PermuteRetraces == Spec => []Retraces
<1>1. IInv => Retraces
  BY DEF IInv, Retraces, Reached
<1> QED
  BY <1>1, InitInv, StepInv, PTL DEF Spec

-----------------------------------------------------------------------------
(* A call of a number of rounds, as a function of the state.               *)

\* x is what a call of n rounds that begins with s passes through, round by round.
IsRun(x, s, n) == /\ DOMAIN x = 0 .. n /\ x[0] = s
                  /\ \A k \in 0 .. n : x[k] \in State
                  /\ \A k \in 0 .. n - 1 : x[k + 1] = ApplyRound(x[k], k)

\* The state that n rounds make of s.
Permuted(s, n) == (CHOOSE x : IsRun(x, s, n))[n]

\* A run goes on by one more round.
LEMMA RunExtends ==
    ASSUME NEW n \in Nat, n + 1 <= MaxRounds, NEW s, NEW x, IsRun(x, s, n)
    PROVE  \E y : IsRun(y, s, n + 1) /\ y[n + 1] = ApplyRound(x[n], n)
<1> DEFINE y == [k \in 0 .. n + 1 |-> IF k = n + 1 THEN ApplyRound(x[n], n) ELSE x[k]]
<1>0. \A k \in 0 .. n + 1 : k = n + 1 \/ (k \in 0 .. n /\ k # n + 1)
  OBVIOUS
<1>1. DOMAIN y = 0 .. n + 1 /\ y[n + 1] = ApplyRound(x[n], n) /\ \A k \in 0 .. n : y[k] = x[k]
  BY <1>0
<1> HIDE DEF y
<1>2. ApplyRound(x[n], n) \in State
  <2>1. n \in 0 .. MaxRounds - 1
    BY RoundsAssumption
  <2>2. x[n] \in State
    BY DEF IsRun
  <2> QED
    BY <2>1, <2>2, Rounds
<1>3. \A k \in 0 .. n + 1 : y[k] \in State
  BY <1>0, <1>1, <1>2 DEF IsRun
<1>4. ASSUME NEW k \in 0 .. n PROVE y[k + 1] = ApplyRound(y[k], k)
  <2>1. CASE k = n
    BY <1>1, <2>1
  <2>2. CASE k # n
    <3>1. k \in 0 .. n - 1 /\ k + 1 \in 0 .. n
      BY <2>2
    <3> QED
      BY <1>1, <3>1 DEF IsRun
  <2> QED
    BY <2>1, <2>2
<1>5. y[0] = s
  <2>1. 0 \in 0 .. n
    OBVIOUS
  <2> QED
    BY <1>1, <2>1 DEF IsRun
<1>6. (n + 1) - 1 = n
  OBVIOUS
<1> QED
  BY <1>1, <1>3, <1>4, <1>5, <1>6 DEF IsRun

\* Every state is the end of a run, and the beginning of one.
LEMMA RunsExist ==
    ASSUME NEW n \in 0 .. MaxRounds
    PROVE  \A s \in State : /\ \E x : IsRun(x, s, n)
                            /\ \E u \in State : \E x : IsRun(x, u, n) /\ x[n] = s
<1> DEFINE Both(k) == \A s \in State : /\ \E x : IsRun(x, s, k)
                                       /\ \E u \in State : \E x : IsRun(x, u, k) /\ x[k] = s
           T == {k \in 0 .. MaxRounds : ~Both(k)}
<1>1. Both(0)
  <2> SUFFICES ASSUME NEW s \in State PROVE \E x : IsRun(x, s, 0) /\ x[0] = s
    OBVIOUS
  <2>1. PICK x : x = [k \in {0} |-> s]
    OBVIOUS
  <2>2. DOMAIN x = 0 .. 0 /\ x[0] = s
    BY <2>1
  <2>3. \A k \in 0 .. 0 : k = 0
    OBVIOUS
  <2>4. 0 .. 0 - 1 = {}
    OBVIOUS
  <2> QED
    BY <2>2, <2>3, <2>4 DEF IsRun
<1>2. ASSUME NEW k \in Nat, k + 1 <= MaxRounds, Both(k) PROVE Both(k + 1)
  <2> TAKE s \in State
  <2>1. \E x : IsRun(x, s, k + 1)
    BY <1>2, RunExtends
  <2>2. \E u \in State : \E x : IsRun(x, u, k + 1) /\ x[k + 1] = s
    <3>1. k \in 0 .. MaxRounds - 1
      BY <1>2, RoundsAssumption
    <3>2. PICK w \in State : w = ApplyInverseRound(s, k) /\ ApplyRound(w, k) = s
      BY <3>1, Rounds
    <3>3. PICK u \in State : \E x : IsRun(x, u, k) /\ x[k] = w
      BY <1>2
    <3>4. PICK x : IsRun(x, u, k) /\ x[k] = w
      BY <3>3
    <3>5. PICK y : IsRun(y, u, k + 1) /\ y[k + 1] = ApplyRound(x[k], k)
      BY <1>2, <3>4, RunExtends
    <3> QED
      BY <3>2, <3>4, <3>5
  <2> QED
    BY <2>1, <2>2
<1> HIDE DEF Both
<1>3. T = {}
  <2> SUFFICES ASSUME T # {} PROVE FALSE
    OBVIOUS
  <2>1. T \subseteq Nat
    BY RoundsAssumption
  <2> PICK k \in T : \A m \in T : k <= m
    BY <2>1, Smallest
  <2>2. k # 0
    BY <1>1
  <2>3. PICK m \in Nat : k = m + 1 /\ m + 1 <= MaxRounds
    <3>1. k \in Nat /\ k <= MaxRounds
      BY RoundsAssumption
    <3>2. k - 1 \in Nat /\ k = (k - 1) + 1
      BY <2>2, <3>1
    <3> QED
      BY <3>1, <3>2
  <2>4. Both(m)
    <3>1. m \notin T /\ m \in 0 .. MaxRounds
      BY <2>3, RoundsAssumption
    <3> QED
      BY <3>1
  <2> QED
    BY <1>2, <2>3, <2>4
<1> QED
  BY <1>3 DEF Both

\* Two runs that meet at one round are the same, before and after it.
LEMMA RunsTell ==
    ASSUME NEW n \in 0 .. MaxRounds, NEW s, NEW w, NEW x, NEW y,
           IsRun(x, s, n), IsRun(y, w, n)
    PROVE  /\ s = w => \A k \in 0 .. n : x[k] = y[k]
           /\ x[n] = y[n] => \A k \in 0 .. n : x[k] = y[k]
<1>0. n \in Nat /\ n <= MaxRounds /\ MaxRounds \in Nat
  BY RoundsAssumption
<1>1. ASSUME NEW k \in 0 .. n - 1 PROVE x[k] = y[k] <=> x[k + 1] = y[k + 1]
  <2>1. k \in 0 .. MaxRounds - 1 /\ x[k] \in State /\ y[k] \in State
    BY <1>0 DEF IsRun
  <2>2. x[k + 1] = ApplyRound(x[k], k) /\ y[k + 1] = ApplyRound(y[k], k)
    BY DEF IsRun
  <2>3. /\ ApplyInverseRound(x[k + 1], k) = x[k]
        /\ ApplyInverseRound(y[k + 1], k) = y[k]
    BY <2>1, <2>2, Rounds
  <2> QED
    BY <2>2, <2>3
<1>2. ASSUME s = w PROVE \A k \in 0 .. n : x[k] = y[k]
  <2> DEFINE T == {k \in 0 .. n : x[k] # y[k]}
  <2> SUFFICES ASSUME T # {} PROVE FALSE
    OBVIOUS
  <2>0. T \subseteq Nat
    BY <1>0
  <2> PICK k \in T : \A m \in T : k <= m
    BY <2>0, Smallest
  <2>1. k # 0
    BY <1>2 DEF IsRun
  <2>2. k - 1 \in 0 .. n - 1 /\ (k - 1) + 1 = k /\ k - 1 \notin T
    BY <2>1
  <2>3. x[k - 1] = y[k - 1]
    BY <2>2
  <2> QED
    BY <1>1, <2>2, <2>3
<1>3. ASSUME x[n] = y[n] PROVE \A k \in 0 .. n : x[k] = y[k]
  <2> DEFINE T == {m \in 0 .. n : x[n - m] # y[n - m]}
  <2>1. T = {}
    <3> SUFFICES ASSUME T # {} PROVE FALSE
      OBVIOUS
    <3>0. T \subseteq Nat
      BY <1>0
    <3> PICK k \in T : \A m \in T : k <= m
      BY <3>0, Smallest
    <3>1. k # 0
      BY <1>0, <1>3
    <3>2. k - 1 \in 0 .. n /\ k - 1 \notin T
      BY <3>1
    <3>3. x[n - (k - 1)] = y[n - (k - 1)]
      BY <3>2
    <3>4. n - k \in 0 .. n - 1 /\ n - (k - 1) = (n - k) + 1
      BY <1>0, <3>1
    <3> QED
      BY <1>1, <3>3, <3>4
  <2> TAKE k \in 0 .. n
  <2>2. n - k \in 0 .. n /\ n - (n - k) = k
    BY <1>0
  <2> QED
    BY <2>1, <2>2
<1> QED
  BY <1>2, <1>3

\* So n rounds are a function of the state they begin with.
LEMMA PermutedByRun ==
    ASSUME NEW n \in 0 .. MaxRounds, NEW s \in State, NEW x, IsRun(x, s, n)
    PROVE  x[n] = Permuted(s, n)
<1>1. IsRun(CHOOSE y : IsRun(y, s, n), s, n)
  OBVIOUS
<1>2. n \in 0 .. n
  BY RoundsAssumption
<1> QED
  BY <1>1, <1>2, RunsTell DEF Permuted

\* For every number of rounds the permutation is one: no two states become the same, and
\* every state is reached (frogbard_permute_reduced).
THEOREM PermutedOneToOne ==
    \A n \in 0 .. MaxRounds :
        /\ \A s \in State : Permuted(s, n) \in State
        /\ \A s, w \in State : Permuted(s, n) = Permuted(w, n) => s = w
        /\ \A w \in State : \E s \in State : Permuted(s, n) = w
<1> TAKE n \in 0 .. MaxRounds
<1>0. n \in 0 .. n /\ 0 \in 0 .. n
  BY RoundsAssumption
<1>1. \A s \in State : \E x : IsRun(x, s, n) /\ x[n] = Permuted(s, n)
  BY RunsExist, PermutedByRun
<1>2. \A s \in State : Permuted(s, n) \in State
  BY <1>0, <1>1 DEF IsRun
<1>3. ASSUME NEW s \in State, NEW w \in State, Permuted(s, n) = Permuted(w, n)
      PROVE  s = w
  <2> PICK x : IsRun(x, s, n) /\ x[n] = Permuted(s, n)
    BY <1>1
  <2> PICK y : IsRun(y, w, n) /\ y[n] = Permuted(w, n)
    BY <1>1
  <2>1. x[0] = y[0]
    BY <1>0, <1>3, RunsTell
  <2> QED
    BY <2>1 DEF IsRun
<1>4. ASSUME NEW w \in State PROVE \E s \in State : Permuted(s, n) = w
  BY <1>4, RunsExist, PermutedByRun
<1> QED
  BY <1>2, <1>3, <1>4

\* The state that the caller holds is the one that the rounds between make of the one at
\* round 0, whichever of the two functions it calls first: the first call permutes, or it
\* finds the state that so many rounds would turn into what it was given.
PassesPermuted ==
    calls # 0 /\ 0 \in DOMAIN trace =>
        /\ trace[0] \in State
        /\ \A r \in DOMAIN trace : trace[r] = Permuted(trace[0], r)
        /\ v = Permuted(trace[0], round)

THEOREM CallsPermute == Spec => []PassesPermuted
<1>1. IInv => PassesPermuted
  <2> SUFFICES ASSUME IInv, calls # 0, 0 \in DOMAIN trace
               PROVE  /\ trace[0] \in State
                      /\ \A r \in DOMAIN trace : trace[r] = Permuted(trace[0], r)
                      /\ v = Permuted(trace[0], round)
    BY DEF PassesPermuted
  <2>0. /\ TypeOK /\ DOMAIN trace = Reached /\ Linked(trace) /\ v = trace[round]
        /\ round \in 0 .. Clamp(asked) /\ Clamp(asked) \in 0 .. MaxRounds
        /\ MaxRounds \in Nat
    BY CallerAssumption, Clamped, RoundsAssumption DEF IInv, TypeOK
  <2>1. PICK m \in 0 .. MaxRounds : DOMAIN trace = 0 .. m /\ round \in 0 .. m
    <3>1. CASE calls = 2
      BY <2>0, <3>1 DEF Reached
    <3>2. CASE calls # 2 /\ running = "permute"
      BY <2>0, <3>2 DEF Reached
    <3>3. CASE calls # 2 /\ running # "permute"
      <4>1. DOMAIN trace = round .. Clamp(asked)
        BY <2>0, <3>3 DEF Reached
      <4>2. round = 0
        BY <2>0, <4>1
      <4> QED
        BY <2>0, <4>1, <4>2
    <3> QED
      BY <3>1, <3>2, <3>3
  <2>2. \A r \in 0 .. m : trace[r] \in State
    BY <2>0, <2>1 DEF TypeOK
  <2>3. \A r \in 0 .. m - 1 : trace[r + 1] = ApplyRound(trace[r], r)
    <3> TAKE r \in 0 .. m - 1
    <3>1. r \in Nat /\ r \in DOMAIN trace /\ r + 1 \in DOMAIN trace
      BY <2>1
    <3> QED
      BY <2>0, <3>1 DEF Linked
  <2>4. ASSUME NEW r \in 0 .. m PROVE trace[r] = Permuted(trace[0], r)
    <3>1. PICK x : x = [k \in 0 .. r |-> trace[k]]
      OBVIOUS
    <3>2. r \in 0 .. MaxRounds /\ 0 \in 0 .. r /\ r \in 0 .. r /\ 0 .. r \subseteq 0 .. m
          /\ \A k \in 0 .. r - 1 : k \in 0 .. m - 1 /\ k \in 0 .. r /\ k + 1 \in 0 .. r
      BY <2>0, <2>1
    <3>3. IsRun(x, trace[0], r)
      BY <2>2, <2>3, <3>1, <3>2 DEF IsRun
    <3>4. trace[0] \in State
      BY <2>2, <3>2
    <3> QED
      BY <3>1, <3>2, <3>3, <3>4, PermutedByRun
  <2>5. trace[0] \in State
    BY <2>1, <2>2
  <2> QED
    BY <2>0, <2>1, <2>4, <2>5
<1> QED
  BY <1>1, InitInv, StepInv, PTL DEF Spec

-----------------------------------------------------------------------------
(* The words of the code: numbers of 64 bits, with the operators that the  *)
(* instances for TLC use at smaller widths.                                *)

U64          == WordsOf(64)
Plus64(a, b)  == Added(64, a, b)
Minus64(a, b) == Subtracted(64, a, b)
Xor64(a, b)   == Xored(64, a, b)
Rotl64(a, n)  == TurnedLeft(64, a, n)
Rotr64(a, n)  == TurnedRight(64, a, n)

\* The permutation over them; S-boxes, constants and rounds stay parameters.
Code == INSTANCE Permutation WITH
            Word <- U64, Plus <- Plus64, Minus <- Minus64, BitXor <- Xor64,
            Rotl <- Rotl64, Rotr <- Rotr64

\* What the permutation takes for granted of its words holds of uint64_t: addition and
\* subtraction that wrap undo each other, so do the two rotations of frogbard.c:29-47 at
\* every amount, and the exclusive or undoes itself.
THEOREM WordsOfTheCode == Code!WordAssumption
<1>1. 64 \in Nat
  OBVIOUS
<1>2. ASSUME NEW a \in U64, NEW b \in U64
      PROVE  /\ Plus64(a, b) \in U64 /\ Minus64(a, b) \in U64 /\ Xor64(a, b) \in U64
             /\ Minus64(Plus64(a, b), b) = a /\ Plus64(Minus64(a, b), b) = a
             /\ Xor64(Xor64(a, b), b) = a
  BY <1>1, SumsCancel, XorsCancel DEF U64, Plus64, Minus64, Xor64
<1>3. ASSUME NEW a \in U64, NEW n \in 1 .. 63
      PROVE  /\ Rotl64(a, n) \in U64 /\ Rotr64(a, n) \in U64
             /\ Rotr64(Rotl64(a, n), n) = a /\ Rotl64(Rotr64(a, n), n) = a
  <2>1. n \in 0 .. 64
    OBVIOUS
  <2> QED
    BY <1>1, <2>1, TurnsCancel DEF U64, Rotl64, Rotr64
<1> QED
  BY <1>2, <1>3 DEF Code!WordAssumption, Code!Amounts

\* A state as the analyzer's model has it, each lane the set of its one bits, and the
\* call on it: the lanes are read as words, permuted, and shown as bits again.
BitState(w) == [Voices -> [Lanes -> SUBSET (0 .. w - 1)]]
Shown(w, s) == [voice \in Voices |-> [lane \in Lanes |-> Ones(w, s[voice][lane])]]
Read(w, b)  == CHOOSE s \in State : Shown(w, s) = b
PermutedBits(w, b, n) == Shown(w, Permuted(Read(w, b), n))

LEMMA ShownTypes ==
    ASSUME NEW w \in Nat, Word = WordsOf(w), NEW s \in State
    PROVE  /\ Shown(w, s) \in BitState(w)
           /\ \A voice \in Voices, lane \in Lanes :
                 Shown(w, s)[voice][lane] = Ones(w, s[voice][lane])
BY DEF Shown, BitState, Ones

\* States and states of bits correspond one to one.
LEMMA ShownOneToOne ==
    ASSUME NEW w \in Nat, Word = WordsOf(w)
    PROVE  /\ \A s, t \in State : Shown(w, s) = Shown(w, t) => s = t
           /\ \A b \in BitState(w) : Read(w, b) \in State /\ Shown(w, Read(w, b)) = b
<1>1. ASSUME NEW s \in State, NEW t \in State, Shown(w, s) = Shown(w, t) PROVE s = t
  <2>1. ASSUME NEW voice \in Voices, NEW lane \in Lanes PROVE s[voice][lane] = t[voice][lane]
    <3>1. s[voice][lane] \in WordsOf(w) /\ t[voice][lane] \in WordsOf(w)
      BY DEF State
    <3>2. Ones(w, s[voice][lane]) = Ones(w, t[voice][lane])
      BY <1>1, ShownTypes
    <3> QED
      BY <3>1, <3>2, OnesTell
  <2>2. \A voice \in Voices : s[voice] = t[voice]
    BY <2>1 DEF State
  <2> QED
    BY <2>2 DEF State
<1>2. ASSUME NEW b \in BitState(w) PROVE \E s \in State : Shown(w, s) = b
  <2> DEFINE number(x) == CHOOSE a \in WordsOf(w) : Ones(w, a) = x
             s == [voice \in Voices |-> [lane \in Lanes |-> number(b[voice][lane])]]
  <2>1. ASSUME NEW x \in SUBSET (0 .. w - 1)
        PROVE  number(x) \in WordsOf(w) /\ Ones(w, number(x)) = x
    <3>1. \E a \in WordsOf(w) : Ones(w, a) = x
      BY Numbers DEF WordsOf, Ones
    <3> QED
      BY <3>1
  <2> HIDE DEF number
  <2>2. \A voice \in Voices, lane \in Lanes : b[voice][lane] \in SUBSET (0 .. w - 1)
    BY DEF BitState
  <2>3. s \in State
    BY <2>1, <2>2 DEF State
  <2>4. \A voice \in Voices, lane \in Lanes : s[voice][lane] = number(b[voice][lane])
    OBVIOUS
  <2> HIDE DEF s
  <2>5. \A voice \in Voices, lane \in Lanes : Shown(w, s)[voice][lane] = b[voice][lane]
    BY <2>1, <2>2, <2>3, <2>4, ShownTypes
  <2>6. Shown(w, s) \in BitState(w)
    BY <2>3, ShownTypes
  <2>7. \A voice \in Voices : Shown(w, s)[voice] = b[voice]
    BY <2>5, <2>6 DEF BitState
  <2>8. Shown(w, s) = b
    BY <2>6, <2>7 DEF BitState
  <2> QED
    BY <2>3, <2>8
<1> QED
  BY <1>1, <1>2 DEF Read

\* What the analyzer's model takes for granted of frogbard_permute_reduced (PermuteAssumption
\* in Scans): on states of bits, over words of any width, it gives states of bits, and never
\* the same one for two.
THEOREM BitsOneToOne ==
    ASSUME NEW w \in Nat, Word = WordsOf(w), NEW n \in 0 .. MaxRounds
    PROVE  \A b \in BitState(w) :
              /\ PermutedBits(w, b, n) \in BitState(w)
              /\ \A c \in BitState(w) : PermutedBits(w, b, n) = PermutedBits(w, c, n) => b = c
<1> TAKE b \in BitState(w)
<1>1. Read(w, b) \in State /\ Shown(w, Read(w, b)) = b
  BY ShownOneToOne
<1>2. \A s \in State : Permuted(s, n) \in State
  BY PermutedOneToOne
<1>3. PermutedBits(w, b, n) \in BitState(w)
  BY <1>1, <1>2, ShownTypes DEF PermutedBits
<1>4. ASSUME NEW c \in BitState(w), PermutedBits(w, b, n) = PermutedBits(w, c, n)
      PROVE  b = c
  <2>1. Read(w, c) \in State /\ Shown(w, Read(w, c)) = c
    BY ShownOneToOne
  <2>2. Permuted(Read(w, b), n) = Permuted(Read(w, c), n)
    BY <1>1, <1>2, <1>4, <2>1, ShownOneToOne DEF PermutedBits
  <2>3. Read(w, b) = Read(w, c)
    BY <1>1, <2>1, <2>2, PermutedOneToOne
  <2> QED
    BY <1>1, <2>1, <2>3
<1> QED
  BY <1>3, <1>4

-----------------------------------------------------------------------------
(* CroackBox.                                                              *)

Injective(f, S) == \A x, y \in S : f[x] = f[y] => x = y

BoxInv ==
    /\ pc \in {"derive", "header", "tested"} /\ damaged \in BOOLEAN
    /\ pin \in [Bits -> Bits] /\ pout \in [Bits -> Bits] /\ inxor \in Byte /\ outxor \in Byte
    /\ box \in [Byte -> Byte] /\ inv \in [Byte -> Byte]
    /\ code = IF pc = "tested" THEN SelfTestCode ELSE -1
    /\ (pc # "derive" /\ ~damaged) =>
          /\ pin \in Shuffles /\ pout \in Shuffles /\ inxor \in Masks /\ outxor \in Masks
          /\ box = Candidate(pin, pout, inxor, outxor)
          /\ Inverts /\ ~Forbidden(box)

-----------------------------------------------------------------------------
(* Functions on a finite set.                                              *)

LEMMA Pigeonhole ==
    ASSUME NEW S, IsFiniteSet(S), NEW f \in [S -> S], Injective(f, S)
    PROVE  \A y \in S : \E x \in S : f[x] = y
<1>1. f \in Injection(S, S)
  BY DEF Injective, Injection, IsInjective
<1>2. f \in Surjection(S, S)
  BY <1>1, FS_Injection
<1> QED
  BY <1>2 DEF Surjection

LEMMA WidthType == Width \in Nat \ {0}
BY BoxAssumption, PowerPositive DEF Width

LEMMA Finite == IsFiniteSet(Bits) /\ IsFiniteSet(Byte)
<1>1. IsFiniteSet(Bits)
  <2>1. 0 \in Int /\ Width - 1 \in Int
    BY WidthType
  <2> QED
    BY <2>1, FS_Interval DEF Bits
<1> QED
  BY <1>1, FS_SUBSET DEF Byte

\* If the box hits every byte and the inverse undoes the box, the box undoes the inverse.
LEMMA InvertsFromOneSide ==
    ASSUME NEW b \in [Byte -> Byte], NEW c \in [Byte -> Byte], Injective(b, Byte),
           \A x \in Byte : c[b[x]] = x
    PROVE  \A x \in Byte : c[b[x]] = x /\ b[c[x]] = x
<1>1. ASSUME NEW y \in Byte PROVE b[c[y]] = y
  <2>1. PICK x \in Byte : b[x] = y
    BY Pigeonhole, Finite
  <2> QED
    BY <2>1
<1> QED
  BY <1>1

-----------------------------------------------------------------------------
(* derive_sbox.                                                            *)

LEMMA XorCancels ==
    ASSUME NEW a \in Byte, NEW b \in Byte, NEW m \in Byte
    PROVE  Xor(a, m) \in Byte /\ (Xor(a, m) = Xor(b, m) => a = b)
BY DEF Xor, Byte

LEMMA BitPermInjective ==
    ASSUME NEW p \in [Bits -> Bits], Injective(p, Bits), NEW x \in Byte, NEW y \in Byte
    PROVE  BitPerm(x, p) \in Byte /\ (BitPerm(x, p) = BitPerm(y, p) => x = y)
<1>1. BitPerm(x, p) \in Byte
  BY DEF BitPerm, Byte
<1>2. \A a \in Bits : \E k \in Bits : p[k] = a
  BY Pigeonhole, Finite
<1>3. ASSUME BitPerm(x, p) = BitPerm(y, p), NEW a \in Bits PROVE a \in x <=> a \in y
  <2>1. PICK k \in Bits : p[k] = a
    BY <1>2
  <2> QED
    BY <2>1, <1>3 DEF BitPerm
<1> QED
  BY <1>1, <1>3 DEF Byte

LEMMA CandidateFits ==
    ASSUME NEW p \in Shuffles, NEW q \in Shuffles, NEW in \in Masks, NEW end \in Masks
    PROVE  /\ Candidate(p, q, in, end) \in [Byte -> Byte]
           /\ Injective(Candidate(p, q, in, end), Byte)
<1> DEFINE step(x) == Xor(x, in)
           first(x) == BitPerm(step(x), p)
           last(x) == BitPerm(Aes[first(x)], q)
<1>1. /\ p \in [Bits -> Bits] /\ Injective(p, Bits)
      /\ q \in [Bits -> Bits] /\ Injective(q, Bits)
      /\ in \in Byte /\ end \in Byte
  BY BoxAssumption DEF Injective
<1>2. Aes \in [Byte -> Byte] /\ Injective(Aes, Byte)
  BY BoxAssumption DEF Injective
<1>3. \A x, y \in Byte : first(x) \in Byte /\ (first(x) = first(y) => x = y)
  <2>1. \A x, y \in Byte : step(x) \in Byte /\ (step(x) = step(y) => x = y)
    BY <1>1, XorCancels
  <2> HIDE DEF step
  <2> QED
    BY <2>1, <1>1, BitPermInjective
<1>4. \A x, y \in Byte : last(x) \in Byte /\ (last(x) = last(y) => x = y)
  <2> HIDE DEF first
  <2>1. \A x \in Byte : Aes[first(x)] \in Byte
    BY <1>2, <1>3
  <2>2. \A x, y \in Byte : Aes[first(x)] = Aes[first(y)] => x = y
    BY <1>2, <1>3 DEF Injective
  <2> QED
    BY <2>1, <2>2, <1>1, BitPermInjective
<1>5. Candidate(p, q, in, end) = [x \in Byte |-> Xor(last(x), end)]
  BY DEF Candidate
<1> HIDE DEF last
<1>6. \A x, y \in Byte : Xor(last(x), end) \in Byte
                         /\ (Xor(last(x), end) = Xor(last(y), end) => x = y)
  BY <1>4, <1>1, XorCancels
<1> QED
  BY <1>5, <1>6 DEF Injective

\* The table written as the inverse undoes the box, and the box undoes it.
LEMMA InverseTableInverts ==
    ASSUME NEW b \in [Byte -> Byte], Injective(b, Byte)
    PROVE  /\ InverseTable(b) \in [Byte -> Byte]
           /\ \A x \in Byte : InverseTable(b)[b[x]] = x /\ b[InverseTable(b)[x]] = x
<1>1. \A y \in Byte : \E x \in Byte : b[x] = y
  BY Pigeonhole, Finite
<1>2. \A y \in Byte : InverseTable(b)[y] \in Byte /\ b[InverseTable(b)[y]] = y
  BY <1>1 DEF InverseTable
<1>3. InverseTable(b) \in [Byte -> Byte]
  BY <1>2 DEF InverseTable
<1>4. \A x \in Byte : InverseTable(b)[b[x]] = x
  BY <1>2 DEF Injective
<1> QED
  BY <1>2, <1>3, <1>4

-----------------------------------------------------------------------------
(* Differential uniformity.  Permuting the bits before and after, and      *)
(* adding a mask, only renames the differences.                            *)

LEMMA PermutedXor ==
    ASSUME NEW p \in [Bits -> Bits], NEW x \in Byte, NEW y \in Byte
    PROVE  BitPerm(Xor(x, y), p) = Xor(BitPerm(x, p), BitPerm(y, p))
BY DEF BitPerm, Xor

LEMMA PermutedBytes ==
    ASSUME NEW p \in [Bits -> Bits], Injective(p, Bits)
    PROVE  /\ \A x \in Byte : BitPerm(x, p) \in Byte /\ (BitPerm(x, p) = {} <=> x = {})
           /\ \A x, y \in Byte : BitPerm(x, p) = BitPerm(y, p) => x = y
           /\ \A y \in Byte : \E x \in Byte : BitPerm(x, p) = y
<1> DEFINE f == [x \in Byte |-> BitPerm(x, p)]
<1>1. \A x, y \in Byte : BitPerm(x, p) \in Byte /\ (BitPerm(x, p) = BitPerm(y, p) => x = y)
  BY BitPermInjective
<1>2. f \in [Byte -> Byte] /\ Injective(f, Byte)
  BY <1>1 DEF Injective
<1>3. \A y \in Byte : \E x \in Byte : f[x] = y
  BY <1>2, Pigeonhole, Finite
<1>4. {} \in Byte /\ BitPerm({}, p) = {}
  BY DEF Byte, BitPerm
<1> QED
  BY <1>1, <1>3, <1>4

\* Sets that a function maps onto each other one to one have as many elements.
LEMMA SameCount ==
    ASSUME NEW S, NEW U, NEW f \in [S -> U], \A x, y \in S : f[x] = f[y] => x = y,
           \A z \in U : \E x \in S : f[x] = z, IsFiniteSet(S)
    PROVE  Cardinality(S) = Cardinality(U)
<1>1. f \in Bijection(S, U)
  BY DEF Bijection, Injection, Surjection, IsInjective
<1>2. ExistsBijection(S, U)
  BY <1>1 DEF ExistsBijection
<1> QED
  BY <1>2, FS_Bijection

LEMMA RenamedCount ==
    ASSUME NEW p \in Shuffles, NEW q \in Shuffles, NEW in \in Masks, NEW end \in Masks,
           NEW dx \in Byte, NEW dy \in Byte
    PROVE  Count(Candidate(p, q, in, end), dx, BitPerm(dy, q)) = Count(Aes, BitPerm(dx, p), dy)
<1>1. /\ p \in [Bits -> Bits] /\ Injective(p, Bits)
      /\ q \in [Bits -> Bits] /\ Injective(q, Bits)
      /\ in \in Byte /\ end \in Byte /\ Aes \in [Byte -> Byte]
  BY BoxAssumption DEF Injective
<1>2. PICK b : b = Candidate(p, q, in, end)
  OBVIOUS
<1> DEFINE first(x) == BitPerm(Xor(x, in), p)
           S == {x \in Byte : Xor(b[x], b[Xor(x, dx)]) = BitPerm(dy, q)}
           U == {u \in Byte : Xor(Aes[u], Aes[Xor(u, BitPerm(dx, p))]) = dy}
           f == [x \in S |-> first(x)]
<1>3. BitPerm(dx, p) \in Byte
  BY <1>1, PermutedBytes
<1>4. \A x, y \in Byte : Xor(x, y) \in Byte
  BY DEF Xor, Byte
<1>5. \A x \in Byte : first(x) \in Byte
  BY <1>1, <1>4, PermutedBytes
<1>6. \A x \in Byte : first(Xor(x, dx)) = Xor(first(x), BitPerm(dx, p))
  <2> SUFFICES ASSUME NEW x \in Byte
               PROVE  first(Xor(x, dx)) = Xor(first(x), BitPerm(dx, p))
    OBVIOUS
  <2>1. Xor(Xor(x, dx), in) = Xor(Xor(x, in), dx)
    BY DEF Xor
  <2>2. BitPerm(Xor(Xor(x, in), dx), p) = Xor(BitPerm(Xor(x, in), p), BitPerm(dx, p))
    BY <1>1, <1>4, PermutedXor
  <2> QED
    BY <2>1, <2>2
<1>7. \A x \in Byte : b[x] = Xor(BitPerm(Aes[first(x)], q), end)
  BY <1>2 DEF Candidate
<1>8. ASSUME NEW x \in Byte
      PROVE  x \in S <=> first(x) \in U
  <2>1. PICK u \in Byte, w \in Byte : u = first(x) /\ w = Xor(u, BitPerm(dx, p))
    BY <1>3, <1>4, <1>5
  <2>2. first(Xor(x, dx)) = w /\ Xor(x, dx) \in Byte
    BY <1>4, <1>6, <2>1
  <2> HIDE DEF first
  <2>3. b[x] = Xor(BitPerm(Aes[u], q), end) /\ b[Xor(x, dx)] = Xor(BitPerm(Aes[w], q), end)
    BY <1>7, <2>1, <2>2
  <2>4. PICK g \in Byte, h \in Byte : g = Aes[u] /\ h = Aes[w]
    BY <1>1
  <2>5. Xor(b[x], b[Xor(x, dx)]) = Xor(BitPerm(g, q), BitPerm(h, q))
    BY <2>3, <2>4 DEF Xor
  <2>6. Xor(b[x], b[Xor(x, dx)]) = BitPerm(Xor(g, h), q)
    BY <1>1, <2>5, PermutedXor
  <2>7. Xor(g, h) \in Byte
    BY <1>4
  <2>8. BitPerm(Xor(g, h), q) = BitPerm(dy, q) <=> Xor(g, h) = dy
    BY <1>1, <2>7, PermutedBytes
  <2> QED
    BY <2>1, <2>4, <2>6, <2>8
<1>9. f \in [S -> U]
  BY <1>5, <1>8
<1>10. \A x, y \in Byte : first(x) = first(y) => x = y
  <2> SUFFICES ASSUME NEW x \in Byte, NEW y \in Byte, first(x) = first(y) PROVE x = y
    OBVIOUS
  <2>1. Xor(x, in) = Xor(y, in)
    BY <1>1, <1>4, PermutedBytes
  <2> QED
    BY <1>1, <2>1, XorCancels
<1>11. \A u \in Byte : \E x \in Byte : first(x) = u
  <2> SUFFICES ASSUME NEW u \in Byte PROVE \E x \in Byte : first(x) = u
    OBVIOUS
  <2>1. PICK z \in Byte : BitPerm(z, p) = u
    BY <1>1, PermutedBytes
  <2>2. Xor(z, in) \in Byte /\ Xor(Xor(z, in), in) = z
    BY <1>1, <1>4 DEF Xor
  <2> QED
    BY <2>1, <2>2
<1>12. IsFiniteSet(S)
  BY Finite, FS_Subset
<1>13. Cardinality(S) = Cardinality(U)
  <2>1. \A x, y \in S : f[x] = f[y] => x = y
    BY <1>10
  <2>2. \A z \in U : \E x \in S : f[x] = z
    BY <1>8, <1>11
  <2> HIDE DEF f, S, U
  <2> QED
    BY <1>9, <1>12, <2>1, <2>2, SameCount
<1>14. Count(b, dx, BitPerm(dy, q)) = Cardinality(S)
  BY DEF Count
<1>15. Count(Aes, BitPerm(dx, p), dy) = Cardinality(U)
  BY DEF Count
<1> QED
  BY <1>2, <1>13, <1>14, <1>15

\* selftest_sbox_du finds the uniformity of the AES box in any box the generator makes.
LEMMA CandidateUniform ==
    ASSUME NEW p \in Shuffles, NEW q \in Shuffles, NEW in \in Masks, NEW end \in Masks
    PROVE  DuIs(Candidate(p, q, in, end), Uniformity)
<1>1. /\ p \in [Bits -> Bits] /\ Injective(p, Bits)
      /\ q \in [Bits -> Bits] /\ Injective(q, Bits)
  BY BoxAssumption DEF Injective
<1>2. PICK b : b = Candidate(p, q, in, end)
  OBVIOUS
<1> DEFINE C == {Count(b, dx, dy) : dx \in Byte \ {{}}, dy \in Byte}
           D == {Count(Aes, dx, dy) : dx \in Byte \ {{}}, dy \in Byte}
<1>3. \A dx, dy \in Byte : Count(b, dx, BitPerm(dy, q)) = Count(Aes, BitPerm(dx, p), dy)
  BY <1>2, RenamedCount
<1>4. ASSUME NEW dx \in Byte \ {{}}, NEW dy \in Byte PROVE Count(b, dx, dy) \in D
  <2>1. PICK e \in Byte : BitPerm(e, q) = dy
    BY <1>1, PermutedBytes
  <2>2. BitPerm(dx, p) \in Byte \ {{}}
    BY <1>1, PermutedBytes
  <2>3. Count(b, dx, dy) = Count(Aes, BitPerm(dx, p), e)
    BY <1>3, <2>1
  <2> QED
    BY <2>2, <2>3
<1>5. ASSUME NEW dx \in Byte \ {{}}, NEW dy \in Byte PROVE Count(Aes, dx, dy) \in C
  <2>1. PICK e \in Byte : BitPerm(e, p) = dx
    BY <1>1, PermutedBytes
  <2>2. e # {}
    BY <1>1, <2>1, PermutedBytes
  <2>3. BitPerm(dy, q) \in Byte
    BY <1>1, PermutedBytes
  <2>4. Count(Aes, dx, dy) = Count(b, e, BitPerm(dy, q))
    BY <1>3, <2>1
  <2> QED
    BY <2>2, <2>3, <2>4
<1>6. C = D
  <2>1. ASSUME NEW n \in C PROVE n \in D
    <3>1. PICK dx \in Byte \ {{}}, dy \in Byte : n = Count(b, dx, dy)
      OBVIOUS
    <3> HIDE DEF C, D
    <3> QED
      BY <1>4, <3>1
  <2>2. ASSUME NEW n \in D PROVE n \in C
    <3>1. PICK dx \in Byte \ {{}}, dy \in Byte : n = Count(Aes, dx, dy)
      OBVIOUS
    <3> HIDE DEF C, D
    <3> QED
      BY <1>5, <3>1
  <2> HIDE DEF C, D
  <2> QED
    BY <2>1, <2>2
<1>7. Uniformity \in D /\ \A n \in D : n <= Uniformity
  BY AesAssumption DEF DuIs
<1>8. Uniformity \in C /\ \A n \in C : n <= Uniformity
  BY <1>6, <1>7
<1>9. DuIs(b, Uniformity) <=> Uniformity \in C /\ \A n \in C : n <= Uniformity
  BY DEF DuIs
<1> QED
  BY <1>2, <1>8, <1>9

-----------------------------------------------------------------------------
(* Words.                                                                   *)

\* Bit k of byte c of a word stands at place c * Width + k, and nowhere else.
LEMMA Places ==
    /\ \A c \in Column, k \in Bits :
          LET a == c * Width + k IN a \in Plane /\ a \div Width = c /\ a % Width = k
    /\ \A a \in Plane : /\ a \div Width \in Column /\ a % Width \in Bits
                        /\ (a \div Width) * Width + (a % Width) = a
<1>1. PICK W \in Nat \ {0} : W = Width
  BY WidthType
<1>2. PICK N \in Nat \ {0} : N = Columns
  BY BoxAssumption
<1>3. ASSUME NEW c \in 0 .. N - 1, NEW k \in 0 .. W - 1
      PROVE  c * W + k \in 0 .. N * W - 1 /\ (c * W + k) \div W = c /\ (c * W + k) % W = k
  <2>1. c * W + k \in Nat /\ N * W \in Nat /\ c * W + W <= N * W
    BY <1>3
  <2> QED
    BY <2>1
<1>4. ASSUME NEW a \in 0 .. N * W - 1
      PROVE  a \div W \in 0 .. N - 1 /\ a % W \in 0 .. W - 1 /\ (a \div W) * W + (a % W) = a
  OBVIOUS
<1> QED
  BY <1>1, <1>2, <1>3, <1>4 DEF Column, Bits, Plane

LEMMA TableByte ==
    ASSUME NEW b \in [Byte -> Byte], NEW word \in SUBSET Plane, NEW c \in Column
    PROVE  /\ WordTable(word, b) \in SUBSET Plane
           /\ ByteAt(word, c) \in Byte
           /\ ByteAt(WordTable(word, b), c) = b[ByteAt(word, c)]
<1>1. WordTable(word, b) \in SUBSET Plane /\ ByteAt(word, c) \in Byte
  BY DEF ByteAt, Byte, WordTable
<1>2. b[ByteAt(word, c)] \subseteq Bits
  BY <1>1 DEF Byte
<1>3. ASSUME NEW k \in Bits
      PROVE  c * Width + k \in WordTable(word, b) <=> k \in b[ByteAt(word, c)]
  BY Places DEF WordTable
<1>4. ByteAt(WordTable(word, b), c) = b[ByteAt(word, c)]
  BY <1>2, <1>3 DEF ByteAt
<1> QED
  BY <1>1, <1>4

\* Two words with the same bytes are the same.
LEMMA SameBytes ==
    ASSUME NEW w \in SUBSET Plane, NEW u \in SUBSET Plane,
           \A c \in Column : ByteAt(w, c) = ByteAt(u, c)
    PROVE  w = u
<1>1. ASSUME NEW a \in Plane PROVE a \in w <=> a \in u
  <2>1. a \div Width \in Column /\ a % Width \in Bits
        /\ (a \div Width) * Width + (a % Width) = a
    BY Places
  <2>2. a \in w <=> a % Width \in ByteAt(w, a \div Width)
    BY <2>1 DEF ByteAt
  <2>3. a \in u <=> a % Width \in ByteAt(u, a \div Width)
    BY <2>1 DEF ByteAt
  <2> QED
    BY <2>1, <2>2, <2>3
<1> QED
  BY <1>1

\* sbox_word_table (frogbard.c:138) with the inverse undoes sbox_word_table with the
\* box on every word: what the module Permutation assumes of its S-boxes.
THEOREM WordTablesInvert ==
    ASSUME NEW b \in [Byte -> Byte], NEW c \in [Byte -> Byte], NEW word \in SUBSET Plane,
           \A x \in Byte : c[b[x]] = x
    PROVE  WordTable(word, b) \in SUBSET Plane /\ WordTable(WordTable(word, b), c) = word
<1>1. PICK sub \in SUBSET Plane : sub = WordTable(word, b)
  BY DEF WordTable
<1>2. WordTable(sub, c) \in SUBSET Plane
  BY DEF WordTable
<1>3. ASSUME NEW n \in Column PROVE ByteAt(WordTable(sub, c), n) = ByteAt(word, n)
  <2>1. ByteAt(sub, n) = b[ByteAt(word, n)] /\ ByteAt(word, n) \in Byte
    BY <1>1, TableByte
  <2>2. ByteAt(WordTable(sub, c), n) = c[ByteAt(sub, n)]
    BY TableByte
  <2> QED
    BY <2>1, <2>2
<1> QED
  BY <1>1, <1>2, <1>3, SameBytes

-----------------------------------------------------------------------------
(* ortho_u64: bit i of the byte at a place of word k goes to bit k of word *)
(* i.  A swap by s exchanges bit number log s of the word's number and of  *)
(* the place in it.                                                        *)

BitOf(k, s) == (k \div s) % 2

\* The number whose digit of weight s is changed.
LEMMA DigitChanged ==
    ASSUME NEW k \in Nat, NEW s \in Nat \ {0}
    PROVE  /\ BitOf(k, s) \in {0, 1}
           /\ k % (2 * s) = (k % s) + s * BitOf(k, s)
           /\ BitOf(k, s) = 0 => (k + s) % s = k % s /\ BitOf(k + s, s) = 1
           /\ BitOf(k, s) = 1 => k - s \in Nat /\ (k - s) % s = k % s /\ BitOf(k - s, s) = 0
<1> DEFINE h == k \div s
           r == k % s
           g == h \div 2
           b == h % 2
<1>1. h \in Nat /\ r \in Nat /\ r < s /\ k = s * h + r
  BY Divided
<1> HIDE DEF h, r
<1>2. g \in Nat /\ b \in {0, 1} /\ h = 2 * g + b
  BY <1>1
<1>3. BitOf(k, s) = b
  BY DEF BitOf, h
<1> HIDE DEF g, b
<1>4. k % (2 * s) = r + s * b
  <2>1. 2 * s \in Nat \ {0} /\ s * b + r \in Nat /\ s * b + r < 2 * s
    BY <1>1, <1>2
  <2>2. k = (2 * s) * g + (s * b + r)
    <3>1. /\ s * (2 * g + b) = s * (2 * g) + s * b /\ s * (2 * g) = (2 * s) * g
          /\ s * (2 * g) \in Nat /\ s * b \in Nat
      BY <1>2
    <3>2. k = s * (2 * g + b) + r
      BY <1>1, <1>2
    <3>3. PICK y \in Nat, z \in Nat : y = s * (2 * g) /\ z = s * b
      BY <3>1
    <3>4. k = (y + z) + r
      BY <3>1, <3>2, <3>3, Zenon
    <3>5. (2 * s) * g + (s * b + r) = y + (z + r)
      BY <3>1, <3>3, Zenon
    <3>6. (y + z) + r = y + (z + r)
      BY <1>1
    <3> QED
      BY <3>4, <3>5, <3>6, Zenon
  <2>3. ((2 * s) * g + (s * b + r)) % (2 * s) = s * b + r
    BY <1>2, <2>1, DividedOnly
  <2>4. s * b \in Nat
    BY <1>2
  <2>5. s * b + r = r + s * b
    BY <1>1, <2>4
  <2> QED
    BY <2>2, <2>3, <2>5, Zenon
<1>5. ASSUME b = 0 PROVE (k + s) % s = r /\ BitOf(k + s, s) = 1
  <2>1. k + s = s * (h + 1) + r
    BY <1>1
  <2>2. (k + s) \div s = h + 1 /\ (k + s) % s = r
    BY <1>1, <2>1, DividedOnly, h + 1 \in Nat
  <2>3. (h + 1) % 2 = 1
    BY <1>2, <1>5
  <2> QED
    BY <2>2, <2>3 DEF BitOf
<1>6. ASSUME b = 1 PROVE k - s \in Nat /\ (k - s) % s = r /\ BitOf(k - s, s) = 0
  <2>0. h - 1 \in Nat
    BY <1>2, <1>6
  <2>1. k - s = s * (h - 1) + r
    BY <1>1
  <2>2. (k - s) \div s = h - 1 /\ (k - s) % s = r
    BY <1>1, <2>0, <2>1, DividedOnly
  <2>3. (h - 1) % 2 = 0
    BY <1>2, <1>6
  <2>4. k - s \in Nat
    <3>1. s * (h - 1) \in Nat
      BY <2>0
    <3> QED
      BY <1>1, <2>1, <3>1
  <2> QED
    BY <2>2, <2>3, <2>4 DEF BitOf
<1> QED
  BY <1>1, <1>2, <1>3, <1>4, <1>5, <1>6 DEF r

\* A digit that is 0 may be set below a multiple of its weight's double.
LEMMA RoomAbove ==
    ASSUME NEW k \in Nat, NEW s \in Nat \ {0}, NEW m \in Nat, k < (2 * s) * m, BitOf(k, s) = 0
    PROVE  k + s < (2 * s) * m
<1> DEFINE t == 2 * s
           h == k \div t
           r == k % t
<1>0. t \in Nat \ {0}
  OBVIOUS
<1>1. h \in Nat /\ r \in Nat /\ r < t /\ k = t * h + r
  BY <1>0, Divided
<1>2. r < s
  <2>1. r = (k % s) + s * BitOf(k, s)
    BY DigitChanged
  <2>2. k % s \in Nat /\ k % s < s
    BY Divided
  <2> QED
    BY <2>1, <2>2
<1> HIDE DEF h, r
<1>3. h + 1 <= m
  <2>1. CASE m <= h
    <3>1. t * (h - m) \in Nat
      BY <1>0, <1>1, <2>1
    <3>2. t * (h - m) = t * h - t * m /\ t * h \in Nat /\ t * m \in Nat
      BY <1>0, <1>1
    <3> HIDE DEF t
    <3>3. k < t * m
      BY DEF t
    <3> QED
      BY <1>1, <3>1, <3>2, <3>3
  <2> QED
    BY <1>1, <2>1
<1>4. t * h + t <= t * m
  <2>1. m - (h + 1) \in Nat
    BY <1>1, <1>3
  <2>2. t * (m - (h + 1)) \in Nat /\ t * (m - (h + 1)) = t * m - t * h - t
    BY <1>0, <1>1, <2>1
  <2>3. t * h \in Nat /\ t * m \in Nat
    BY <1>0, <1>1
  <2> HIDE DEF t
  <2> QED
    BY <1>0, <2>2, <2>3
<1>5. t * h \in Nat /\ t * m \in Nat
  BY <1>0, <1>1
<1> QED
  BY <1>1, <1>2, <1>4, <1>5

\* i with its last digits, below weight s, those of a.
Exchange(i, a, s) == i - (i % s) + (a % s)

LEMMA OneMore ==
    ASSUME NEW i \in Nat, NEW a \in Nat, NEW s \in Nat \ {0}
    PROVE  /\ BitOf(i, s) = BitOf(a, s) => Exchange(i, a, 2 * s) = Exchange(i, a, s)
           /\ BitOf(i, s) = 0 /\ BitOf(a, s) = 1
                => Exchange(i, a, 2 * s) = Exchange(i + s, a - s, s)
           /\ BitOf(i, s) = 1 /\ BitOf(a, s) = 0
                => Exchange(i, a, 2 * s) = Exchange(i - s, a + s, s)
<1>1. /\ i % (2 * s) = (i % s) + s * BitOf(i, s) /\ a % (2 * s) = (a % s) + s * BitOf(a, s)
      /\ BitOf(i, s) = 0 => (i + s) % s = i % s
      /\ BitOf(i, s) = 1 => (i - s) % s = i % s
      /\ BitOf(a, s) = 0 => (a + s) % s = a % s
      /\ BitOf(a, s) = 1 => (a - s) % s = a % s
      /\ BitOf(i, s) \in {0, 1} /\ BitOf(a, s) \in {0, 1}
  BY DigitChanged
<1>2. i % s \in Nat /\ a % s \in Nat
  BY Divided
<1>3. PICK x \in Nat, y \in Nat : x = i % s /\ y = a % s
  BY <1>2
<1>4. ASSUME BitOf(i, s) = BitOf(a, s) PROVE Exchange(i, a, 2 * s) = Exchange(i, a, s)
  <2>1. PICK z \in Nat : z = s * BitOf(i, s)
    BY <1>1
  <2>2. i % (2 * s) = x + z /\ a % (2 * s) = y + z
    BY <1>1, <1>3, <1>4, <2>1
  <2>3. Exchange(i, a, 2 * s) = i - (x + z) + (y + z) /\ Exchange(i, a, s) = i - x + y
    BY <1>3, <2>2 DEF Exchange
  <2> QED
    BY <2>3
<1>5. ASSUME BitOf(i, s) = 0, BitOf(a, s) = 1
      PROVE  Exchange(i, a, 2 * s) = Exchange(i + s, a - s, s)
  <2>1. i % (2 * s) = x /\ a % (2 * s) = y + s /\ (i + s) % s = x /\ (a - s) % s = y
    BY <1>1, <1>3, <1>5
  <2>2. Exchange(i, a, 2 * s) = i - x + (y + s) /\ Exchange(i + s, a - s, s) = (i + s) - x + y
    BY <2>1 DEF Exchange
  <2> QED
    BY <2>2
<1>6. ASSUME BitOf(i, s) = 1, BitOf(a, s) = 0
      PROVE  Exchange(i, a, 2 * s) = Exchange(i - s, a + s, s)
  <2>1. i % (2 * s) = x + s /\ a % (2 * s) = y /\ (i - s) % s = x /\ (a + s) % s = y
    BY <1>1, <1>3, <1>6
  <2>2. Exchange(i, a, 2 * s) = i - (x + s) + y /\ Exchange(i - s, a + s, s) = (i - s) - x + y
    BY <2>1 DEF Exchange
  <2> QED
    BY <2>2
<1> QED
  BY <1>4, <1>5, <1>6

LEMMA Swapped ==
    ASSUME NEW r \in [Bits -> SUBSET Plane], NEW s \in Nat \ {0}, NEW m \in Nat,
           Width = (2 * s) * m
    PROVE  /\ Swap(r, s) \in [Bits -> SUBSET Plane]
           /\ \A k \in Bits, a \in Plane :
                 /\ BitOf(k, s) = BitOf(a, s) => (a \in Swap(r, s)[k] <=> a \in r[k])
                 /\ BitOf(k, s) = 0 /\ BitOf(a, s) = 1
                      => /\ k + s \in Bits /\ a - s \in Plane
                         /\ a \in Swap(r, s)[k] <=> a - s \in r[k + s]
                 /\ BitOf(k, s) = 1 /\ BitOf(a, s) = 0
                      => /\ k - s \in Bits /\ a + s \in Plane
                         /\ a \in Swap(r, s)[k] <=> a + s \in r[k - s]
<1>1. PICK W \in Nat \ {0} : W = Width
  BY WidthType
<1>2. PICK N \in Nat \ {0} : N = Columns
  BY BoxAssumption
<1>3. ASSUME NEW k \in Bits
      PROVE  /\ k \in Nat /\ BitOf(k, s) \in {0, 1}
             /\ BitOf(k, s) = 0 => k + s \in Bits /\ BitOf(k + s, s) = 1
             /\ BitOf(k, s) = 1 => k - s \in Bits /\ BitOf(k - s, s) = 0
  <2>1. k \in Nat /\ k < W
    BY <1>1 DEF Bits
  <2>2. /\ BitOf(k, s) \in {0, 1}
        /\ BitOf(k, s) = 0 => BitOf(k + s, s) = 1
        /\ BitOf(k, s) = 1 => k - s \in Nat /\ BitOf(k - s, s) = 0
    BY <2>1, DigitChanged
  <2>3. BitOf(k, s) = 0 => k + s < W
    BY <1>1, <2>1, RoomAbove
  <2> QED
    BY <1>1, <2>1, <2>2, <2>3 DEF Bits
<1>4. ASSUME NEW a \in Plane
      PROVE  /\ a \in Nat /\ BitOf(a, s) \in {0, 1}
             /\ BitOf(a, s) = 0 => a + s \in Plane /\ BitOf(a + s, s) = 1
             /\ BitOf(a, s) = 1 => a - s \in Plane /\ BitOf(a - s, s) = 0
  <2>1. N * W \in Nat /\ N * W = (2 * s) * (m * N) /\ m * N \in Nat
    <3>1. N * ((2 * s) * m) = (2 * s) * (m * N)
      OBVIOUS
    <3> QED
      BY <1>1, <3>1
  <2>2. a \in Nat /\ a < N * W
    BY <1>1, <1>2, <2>1 DEF Plane
  <2>3. /\ BitOf(a, s) \in {0, 1}
        /\ BitOf(a, s) = 0 => BitOf(a + s, s) = 1
        /\ BitOf(a, s) = 1 => a - s \in Nat /\ BitOf(a - s, s) = 0
    BY <2>2, DigitChanged
  <2>4. BitOf(a, s) = 0 => a + s < N * W
    <3>1. a < (2 * s) * (m * N)
      BY <2>1, <2>2
    <3>2. BitOf(a, s) = 0 => a + s < (2 * s) * (m * N)
      BY <2>1, <2>2, <3>1, RoomAbove
    <3> QED
      BY <2>1, <3>2
  <2>5. Plane = 0 .. N * W - 1
    BY <1>1, <1>2 DEF Plane
  <2> QED
    BY <2>1, <2>2, <2>3, <2>4, <2>5
<1> DEFINE lo(word) == {k \in word : BitOf(k, s) = 0}
           new(k) == IF BitOf(k, s) = 0 THEN lo(r[k]) \cup {n + s : n \in lo(r[k + s])}
                     ELSE {n - s : n \in r[k - s] \ lo(r[k - s])} \cup (r[k] \ lo(r[k]))
<1>5. Swap(r, s) = [k \in Bits |-> new(k)]
  BY DEF Swap, BitOf
<1>6. ASSUME NEW k \in Bits, NEW a \in Plane
      PROVE  /\ BitOf(k, s) = BitOf(a, s) => (a \in new(k) <=> a \in r[k])
             /\ BitOf(k, s) = 0 /\ BitOf(a, s) = 1 => (a \in new(k) <=> a - s \in r[k + s])
             /\ BitOf(k, s) = 1 /\ BitOf(a, s) = 0 => (a \in new(k) <=> a + s \in r[k - s])
  <2>1. CASE BitOf(k, s) = 0
    <3>1. k + s \in Bits
      BY <1>3, <2>1
    <3>2. \A n \in lo(r[k + s]) : n \in Plane /\ BitOf(n + s, s) = 1
      BY <1>4, <3>1
    <3>3. BitOf(a, s) = 0 => (a \in new(k) <=> a \in r[k])
      BY <2>1, <3>2
    <3>4. BitOf(a, s) = 1 => (a \in new(k) <=> a - s \in r[k + s])
      <4> SUFFICES ASSUME BitOf(a, s) = 1 PROVE a \in new(k) <=> a - s \in r[k + s]
        OBVIOUS
      <4>1. a \in Int /\ BitOf(a - s, s) = 0 /\ (a - s) + s = a /\ a \notin lo(r[k])
        BY <1>4
      <4>2. a - s \in r[k + s] => a \in new(k)
        BY <2>1, <4>1
      <4>3. ASSUME a \in new(k) PROVE a - s \in r[k + s]
        <5>1. PICK n \in lo(r[k + s]) : a = n + s
          BY <2>1, <4>1, <4>3
        <5>2. n \in Int
          BY <3>2, <1>4
        <5>3. n = a - s
          BY <5>1, <5>2
        <5> QED
          BY <5>1, <5>3
      <4> QED
        BY <4>2, <4>3
    <3> QED
      BY <2>1, <3>3, <3>4
  <2>2. CASE BitOf(k, s) = 1
    <3>1. k - s \in Bits
      BY <1>3, <2>2
    <3>2. \A n \in r[k - s] \ lo(r[k - s]) : n \in Plane /\ BitOf(n, s) = 1 /\ BitOf(n - s, s) = 0
      BY <1>4, <3>1
    <3>3. BitOf(a, s) = 1 => (a \in new(k) <=> a \in r[k])
      BY <2>2, <3>2
    <3>4. BitOf(a, s) = 0 => (a \in new(k) <=> a + s \in r[k - s])
      <4> SUFFICES ASSUME BitOf(a, s) = 0 PROVE a \in new(k) <=> a + s \in r[k - s]
        OBVIOUS
      <4>1. a \in Int /\ BitOf(a + s, s) = 1 /\ (a + s) - s = a /\ a \notin r[k] \ lo(r[k])
        BY <1>4
      <4>2. a + s \in r[k - s] => a \in new(k)
        BY <2>2, <4>1
      <4>3. ASSUME a \in new(k) PROVE a + s \in r[k - s]
        <5>1. PICK n \in r[k - s] \ lo(r[k - s]) : a = n - s
          BY <2>2, <4>1, <4>3
        <5>2. n \in Int
          BY <3>2, <1>4
        <5>3. n = a + s
          BY <5>1, <5>2
        <5> QED
          BY <5>1, <5>3
      <4> QED
        BY <4>2, <4>3
    <3> QED
      BY <2>2, <3>3, <3>4
  <2> QED
    BY <1>3, <2>1, <2>2
<1>7. ASSUME NEW k \in Bits PROVE new(k) \subseteq Plane
  <2>1. CASE BitOf(k, s) = 0
    <3>1. \A n \in lo(r[k + s]) : n + s \in Plane
      BY <1>3, <1>4, <2>1
    <3> QED
      BY <2>1, <3>1
  <2>2. CASE BitOf(k, s) = 1
    <3>1. \A n \in r[k - s] \ lo(r[k - s]) : n - s \in Plane
      BY <1>3, <1>4, <2>2
    <3> QED
      BY <2>2, <3>1
  <2> QED
    BY <1>3, <2>1, <2>2
<1> HIDE DEF new
<1> QED
  BY <1>3, <1>4, <1>5, <1>6, <1>7

\* The turns of ortho_u64's loop.
LEMMA OrthoTurns ==
    ASSUME NEW r
    PROVE  \E f : /\ f = [n \in 0 .. Log |-> IF n = 0 THEN r ELSE Swap(f[n - 1], 2 ^ (n - 1))]
                  /\ Ortho(r) = f[Log]
<1> DEFINE Is(g, m) == g = [n \in 0 .. m |-> IF n = 0 THEN r ELSE Swap(g[n - 1], 2 ^ (n - 1))]
           T == {m \in Nat : ~ \E g : Is(g, m)}
<1>1. ASSUME T # {} PROVE FALSE
  <2>1. PICK m \in T : \A n \in T : m <= n
    BY <1>1, Smallest
  <2>2. CASE m = 0
    <3> DEFINE g == [n \in 0 .. 0 |-> r]
    <3>1. Is(g, 0)
      OBVIOUS
    <3> QED
      BY <2>1, <2>2, <3>1
  <2>3. CASE m # 0
    <3>1. m \in Nat /\ m - 1 \in Nat /\ ~(m <= m - 1)
      <4>1. m \in Nat
        BY <2>1
      <4> QED
        BY <2>3, <4>1
    <3>2. m - 1 \notin T
      BY <2>1, <3>1, Zenon
    <3>3. PICK g : Is(g, m - 1)
      BY <3>1, <3>2
    <3> DEFINE h == [n \in 0 .. m |-> IF n = m THEN Swap(g[m - 1], 2 ^ (m - 1)) ELSE g[n]]
    <3>4. \A n \in 0 .. m : n # m => n \in 0 .. m - 1 /\ (n # 0 => n - 1 \in 0 .. m - 1 /\ n - 1 # m)
      BY <3>1
    <3>5. m - 1 \in 0 .. m /\ m \in 0 .. m /\ m - 1 # m
      BY <3>1
    <3>6. ASSUME NEW n \in 0 .. m
          PROVE  h[n] = IF n = 0 THEN r ELSE Swap(h[n - 1], 2 ^ (n - 1))
      <4>1. CASE n = m
        <5>1. h[m - 1] = g[m - 1] /\ h[m] = Swap(g[m - 1], 2 ^ (m - 1))
          BY <3>5
        <5> HIDE DEF h
        <5> QED
          BY <4>1, <2>3, <5>1, Zenon
      <4>2. CASE n # m
        <5>1. n \in 0 .. m - 1 /\ h[n] = g[n]
          BY <3>4, <4>2
        <5>2. g[n] = IF n = 0 THEN r ELSE Swap(g[n - 1], 2 ^ (n - 1))
          BY <3>3, <5>1, Zenon
        <5>3. n # 0 => n - 1 \in 0 .. m /\ h[n - 1] = g[n - 1]
          BY <3>4, <4>2, <3>1
        <5> HIDE DEF h
        <5> QED
          BY <5>1, <5>2, <5>3, Zenon
      <4> QED
        BY <4>1, <4>2
    <3>7. h = [n \in 0 .. m |-> h[n]]
      OBVIOUS
    <3> HIDE DEF h
    <3>8. Is(h, m)
      BY <3>6, <3>7
    <3> QED
      BY <2>1, <3>8
  <2> QED
    BY <2>2, <2>3
<1>2. Log \in Nat
  BY BoxAssumption
<1>3. \E g : Is(g, Log)
  BY <1>1, <1>2
<1> DEFINE f == CHOOSE g : Is(g, Log)
<1>4. Is(f, Log)
  BY <1>3, Zenon
<1>5. Ortho(r) = f[Log]
  BY DEF Ortho
<1> HIDE DEF f
<1> QED
  BY <1>4, <1>5

\* After n turns the n lowest digits of word and place are exchanged.
LEMMA OrthoPartly ==
    ASSUME NEW r \in [Bits -> SUBSET Plane], NEW f,
           f = [n \in 0 .. Log |-> IF n = 0 THEN r ELSE Swap(f[n - 1], 2 ^ (n - 1))],
           NEW n \in 0 .. Log
    PROVE  /\ f[n] \in [Bits -> SUBSET Plane]
           /\ \A k \in Bits, a \in Plane :
                 a \in f[n][k] <=> Exchange(a, k, 2 ^ n) \in r[Exchange(k, a, 2 ^ n)]
<1> DEFINE Exchanged(d) ==
             /\ f[d] \in [Bits -> SUBSET Plane]
             /\ \A k \in Bits, a \in Plane :
                   a \in f[d][k] <=> Exchange(a, k, 2 ^ d) \in r[Exchange(k, a, 2 ^ d)]
           T == {d \in 0 .. Log : ~ Exchanged(d)}
<1>0. Log \in Nat /\ Bits \subseteq Nat /\ Plane \subseteq Nat
  <2>1. PICK W \in Nat \ {0} : W = Width
    BY WidthType
  <2>2. PICK N \in Nat \ {0} : N = Columns
    BY BoxAssumption
  <2>3. N * W \in Nat
    OBVIOUS
  <2> QED
    BY <2>1, <2>2, <2>3, BoxAssumption DEF Bits, Plane
<1>1. ASSUME T # {} PROVE FALSE
  <2>1. T \subseteq Nat
    BY <1>0
  <2>2. PICK m \in T : \A d \in T : m <= d
    BY <1>1, <2>1, Smallest
  <2>3. CASE m = 0
    <3>1. f[0] = r
      BY <1>0
    <3>2. \A k, a \in Nat : Exchange(a, k, 1) = a
      BY DEF Exchange
    <3>3. Exchanged(0)
      BY <1>0, <3>1, <3>2, PowerZero
    <3> QED
      BY <2>2, <2>3, <3>3
  <2>4. CASE m # 0
    <3>1. /\ m \in 1 .. Log /\ m - 1 \in 0 .. Log /\ m - 1 \in Nat /\ ~(m <= m - 1)
          /\ (m - 1) + 1 = m /\ Log - m \in Nat /\ m + (Log - m) = Log /\ m \in Nat
      BY <1>0, <2>2, <2>4
    <3>2. Exchanged(m - 1)
      <4>1. m - 1 \notin T
        BY <2>2, <3>1, Zenon
      <4> QED
        BY <3>1, <4>1, Zenon
    <3> DEFINE s == 2 ^ (m - 1)
               g == f[m - 1]
    <3>3. s \in Nat \ {0} /\ 2 ^ m = 2 * s
      BY <3>1, PowerPositive, PowerStep
    <3>4. \E z \in Nat : Width = (2 * s) * z
      <4>1. 2 ^ (m + (Log - m)) = 2 ^ m * 2 ^ (Log - m)
        BY <3>1, PowerSum
      <4>2. 2 ^ (Log - m) \in Nat
        BY <3>1, PowerStep
      <4> QED
        BY <3>1, <3>3, <4>1, <4>2, Zenon DEF Width
    <3>5. f[m] = Swap(g, s)
      BY <3>1
    <3>6. g \in [Bits -> SUBSET Plane]
      BY <3>2
    <3>7. /\ f[m] \in [Bits -> SUBSET Plane]
          /\ \A k \in Bits, a \in Plane :
                 /\ BitOf(k, s) = BitOf(a, s) => (a \in f[m][k] <=> a \in g[k])
                 /\ BitOf(k, s) = 0 /\ BitOf(a, s) = 1
                      => /\ k + s \in Bits /\ a - s \in Plane
                         /\ a \in f[m][k] <=> a - s \in g[k + s]
                 /\ BitOf(k, s) = 1 /\ BitOf(a, s) = 0
                      => /\ k - s \in Bits /\ a + s \in Plane
                         /\ a \in f[m][k] <=> a + s \in g[k - s]
      <4> HIDE DEF s, g
      <4>1. PICK z \in Nat : Width = (2 * s) * z
        BY <3>4
      <4>2. PICK t : t = Swap(g, s)
        OBVIOUS
      <4>3. /\ t \in [Bits -> SUBSET Plane]
            /\ \A k \in Bits, a \in Plane :
                 /\ BitOf(k, s) = BitOf(a, s) => (a \in t[k] <=> a \in g[k])
                 /\ BitOf(k, s) = 0 /\ BitOf(a, s) = 1
                      => /\ k + s \in Bits /\ a - s \in Plane
                         /\ a \in t[k] <=> a - s \in g[k + s]
                 /\ BitOf(k, s) = 1 /\ BitOf(a, s) = 0
                      => /\ k - s \in Bits /\ a + s \in Plane
                         /\ a \in t[k] <=> a + s \in g[k - s]
        BY ONLY <3>3, <3>6, <4>1, <4>2, z \in Nat, Swapped, Zenon
      <4>4. f[m] = t
        BY <3>5, <4>2
      <4> QED
        BY <4>3, <4>4, Zenon
    <3>8. \A k \in Bits, a \in Plane : a \in g[k] <=> Exchange(a, k, s) \in r[Exchange(k, a, s)]
      BY <3>2
    <3> HIDE DEF s, g
    <3>9. ASSUME NEW k \in Bits, NEW a \in Plane
          PROVE  a \in f[m][k] <=> Exchange(a, k, 2 * s) \in r[Exchange(k, a, 2 * s)]
      <4>0. k \in Nat /\ a \in Nat
        BY <1>0
      <4>1. BitOf(k, s) \in {0, 1} /\ BitOf(a, s) \in {0, 1}
        BY <3>3, <4>0, DigitChanged
      <4>2. CASE BitOf(k, s) = BitOf(a, s)
        <5>1. Exchange(a, k, 2 * s) = Exchange(a, k, s) /\ Exchange(k, a, 2 * s) = Exchange(k, a, s)
          BY <3>3, <4>0, <4>2, OneMore
        <5> QED
          BY <3>7, <3>8, <4>2, <5>1
      <4>3. CASE BitOf(k, s) = 0 /\ BitOf(a, s) = 1
        <5>1. /\ Exchange(a, k, 2 * s) = Exchange(a - s, k + s, s)
              /\ Exchange(k, a, 2 * s) = Exchange(k + s, a - s, s)
          BY <3>3, <4>0, <4>3, OneMore
        <5>2. /\ k + s \in Bits /\ a - s \in Plane
              /\ a \in f[m][k] <=> a - s \in g[k + s]
          BY <3>7, <4>3
        <5> QED
          BY <3>8, <5>1, <5>2
      <4>4. CASE BitOf(k, s) = 1 /\ BitOf(a, s) = 0
        <5>1. /\ Exchange(a, k, 2 * s) = Exchange(a + s, k - s, s)
              /\ Exchange(k, a, 2 * s) = Exchange(k - s, a + s, s)
          BY <3>3, <4>0, <4>4, OneMore
        <5>2. /\ k - s \in Bits /\ a + s \in Plane
              /\ a \in f[m][k] <=> a + s \in g[k - s]
          BY <3>7, <4>4
        <5> QED
          BY <3>8, <5>1, <5>2
      <4> QED
        BY <4>1, <4>2, <4>3, <4>4
    <3>10. Exchanged(m)
      BY <3>3, <3>7, <3>9
    <3> QED
      BY <2>2, <3>10
  <2> QED
    BY <2>3, <2>4
<1> HIDE DEF Exchanged
<1>2. Exchanged(n)
  BY <1>1
<1> QED
  BY <1>2 DEF Exchanged

\* All turns: bit k of the byte in column c of word i is bit i of that of word k.
LEMMA OrthoExchanges ==
    ASSUME NEW r \in [Bits -> SUBSET Plane]
    PROVE  /\ Ortho(r) \in [Bits -> SUBSET Plane]
           /\ \A i \in Bits, k \in Bits, c \in Column :
                 c * Width + k \in Ortho(r)[i] <=> c * Width + i \in r[k]
<1>1. PICK f : /\ f = [n \in 0 .. Log |-> IF n = 0 THEN r ELSE Swap(f[n - 1], 2 ^ (n - 1))]
               /\ Ortho(r) = f[Log]
  BY OrthoTurns
<1>2. Log \in 0 .. Log
  BY BoxAssumption
<1>3. /\ f[Log] \in [Bits -> SUBSET Plane]
      /\ \A k \in Bits, a \in Plane :
            a \in f[Log][k] <=> Exchange(a, k, Width) \in r[Exchange(k, a, Width)]
  BY <1>1, <1>2, OrthoPartly DEF Width
<1>4. ASSUME NEW i \in Bits, NEW k \in Bits, NEW c \in Column
      PROVE  c * Width + k \in Ortho(r)[i] <=> c * Width + i \in r[k]
  <2> DEFINE a == c * Width + k
  <2>1. a \in Plane /\ a % Width = k
    BY Places
  <2>2. PICK W \in Nat \ {0} : W = Width
    BY WidthType
  <2>3. i \in Nat /\ i < W /\ k \in Nat /\ i % W = i /\ c \in Nat /\ c * W \in Nat
    <3>1. i \in 0 .. W - 1 /\ k \in 0 .. W - 1 /\ c \in 0 .. Columns - 1 /\ Columns \in Nat
      BY <2>2, BoxAssumption DEF Bits, Column
    <3>2. c \in Nat /\ i \in Nat /\ i < W
      BY <3>1
    <3> QED
      BY <3>1, <3>2
  <2>4. Exchange(a, i, Width) = c * Width + i /\ Exchange(i, a, Width) = k
    BY <2>1, <2>2, <2>3 DEF Exchange
  <2> HIDE DEF a
  <2>5. a \in Ortho(r)[i] <=> c * Width + i \in r[k]
    BY <1>1, <1>3, <2>1, <2>4
  <2> QED
    BY <2>5 DEF a
<1> QED
  BY <1>1, <1>3, <1>4

-----------------------------------------------------------------------------
(* The circuit, and the voices the self-test compares it on.              *)

LEMMA CandidateType ==
    ASSUME NEW p \in [Bits -> Bits], NEW q \in [Bits -> Bits], NEW in \in Byte, NEW end \in Byte
    PROVE  Candidate(p, q, in, end) \in [Byte -> Byte]
  BY DEF Candidate, Xor, BitPerm, Byte

\* What derived_sbox_bitslice computes: whatever numbers the header has, it applies to
\* every byte of every word the box that the generator makes of these numbers.
LEMMA CircuitApplies ==
    ASSUME NEW x \in [Bits -> SUBSET Plane],
           pin \in [Bits -> Bits], pout \in [Bits -> Bits], NEW b,
           b = Candidate(pin, pout, inxor, outxor), b \in [Byte -> Byte], Aes \in [Byte -> Byte]
    PROVE  Bitsliced(x) = [i \in Bits |-> WordTable(x[i], b)]
<1> DEFINE t == Ortho(x)
           p == Pinned(t)
           s == AesPlanes(p)
           u == [k \in Bits |-> Flip(s[pout[k]], k \in outxor)]
           y == Ortho(u)
           first(z) == BitPerm(Xor(z, inxor), pin)
<1>1. /\ t \in [Bits -> SUBSET Plane]
      /\ \A i \in Bits, k \in Bits, c \in Column :
            c * Width + i \in t[k] <=> k \in ByteAt(x[i], c)
  BY OrthoExchanges DEF ByteAt
<1> HIDE DEF t
<1>2. ASSUME NEW i \in Bits, NEW c \in Column
      PROVE  {k \in Bits : c * Width + i \in p[k]} = first(ByteAt(x[i], c))
  <2>1. c * Width + i \in Plane
    BY Places
  <2>2. \A k \in Bits : c * Width + i \in t[pin[k]] <=> pin[k] \in ByteAt(x[i], c)
    BY <1>1
  <2>3. ASSUME NEW k \in Bits
        PROVE  c * Width + i \in p[k] <=> pin[k] \in Xor(ByteAt(x[i], c), inxor)
    <3>1. p[k] = Flip(t[pin[k]], pin[k] \in inxor)
      BY DEF Pinned
    <3>2. CASE pin[k] \in inxor
      BY <2>1, <2>2, <3>1, <3>2 DEF Flip, Xor
    <3>3. CASE pin[k] \notin inxor
      BY <2>1, <2>2, <3>1, <3>3 DEF Flip, Xor
    <3> QED
      BY <3>2, <3>3
  <2> HIDE DEF p
  <2> QED
    BY <2>3 DEF BitPerm
<1> HIDE DEF p
<1>3. ASSUME NEW i \in Bits, NEW c \in Column, NEW k \in Bits
      PROVE  c * Width + i \in s[k] <=> k \in Aes[first(ByteAt(x[i], c))]
  <2>1. c * Width + i \in Plane
    BY Places
  <2>2. s[k] = {a \in Plane : k \in Aes[{n \in Bits : a \in p[n]}]}
    BY DEF AesPlanes
  <2> HIDE DEF s, first
  <2> QED
    BY <1>2, <2>1, <2>2
<1>4. s \in [Bits -> SUBSET Plane]
  BY DEF AesPlanes
<1> HIDE DEF s
<1>5. u \in [Bits -> SUBSET Plane]
  BY <1>4 DEF Flip
<1>6. \A z \in Byte : b[z] = Xor(BitPerm(Aes[first(z)], pout), outxor)
  BY DEF Candidate
<1>7. ASSUME NEW i \in Bits, NEW c \in Column, NEW k \in Bits
      PROVE  c * Width + i \in u[k] <=> k \in b[ByteAt(x[i], c)]
  <2>1. c * Width + i \in Plane /\ ByteAt(x[i], c) \in Byte
    BY Places, TableByte
  <2>2. c * Width + i \in s[pout[k]] <=> pout[k] \in Aes[first(ByteAt(x[i], c))]
    BY <1>3
  <2>3. b[ByteAt(x[i], c)] = Xor(BitPerm(Aes[first(ByteAt(x[i], c))], pout), outxor)
    BY <1>6, <2>1
  <2>4. pout[k] \in Aes[first(ByteAt(x[i], c))] <=> k \in BitPerm(Aes[first(ByteAt(x[i], c))], pout)
    BY DEF BitPerm
  <2>5. u[k] = Flip(s[pout[k]], k \in outxor)
    OBVIOUS
  <2> HIDE DEF u, first
  <2>6. CASE k \in outxor
    BY <2>1, <2>2, <2>3, <2>4, <2>5, <2>6 DEF Flip, Xor
  <2>7. CASE k \notin outxor
    BY <2>1, <2>2, <2>3, <2>4, <2>5, <2>7 DEF Flip, Xor
  <2> QED
    BY <2>6, <2>7
<1>8. Bitsliced(x) = y
  BY DEF Bitsliced, t, p, s
<1> HIDE DEF u
<1>9. /\ y \in [Bits -> SUBSET Plane]
      /\ \A i \in Bits, k \in Bits, c \in Column :
            c * Width + k \in y[i] <=> c * Width + i \in u[k]
  BY <1>5, OrthoExchanges
<1> HIDE DEF y
<1>10. ASSUME NEW i \in Bits PROVE y[i] = WordTable(x[i], b)
  <2>1. y[i] \in SUBSET Plane /\ x[i] \in SUBSET Plane
    BY <1>9
  <2>2. ASSUME NEW c \in Column PROVE ByteAt(y[i], c) = ByteAt(WordTable(x[i], b), c)
    <3>1. ByteAt(WordTable(x[i], b), c) = b[ByteAt(x[i], c)] /\ ByteAt(x[i], c) \in Byte
      BY <2>1, TableByte
    <3>2. \A k \in Bits : c * Width + k \in y[i] <=> k \in b[ByteAt(x[i], c)]
      BY <1>7, <1>9
    <3>3. b[ByteAt(x[i], c)] \subseteq Bits
      BY <3>1 DEF Byte
    <3> QED
      BY <3>1, <3>2, <3>3 DEF ByteAt
  <2>3. WordTable(x[i], b) \in SUBSET Plane
    BY DEF WordTable
  <2> QED
    BY <2>1, <2>2, <2>3, SameBytes
<1>11. y = [i \in Bits |-> y[i]]
  BY <1>9
<1> QED
  BY <1>8, <1>10, <1>11

\* Every byte stands somewhere in one of the self-test's voices.
LEMMA BatchesHaveAll ==
    ASSUME NEW x \in Byte
    PROVE  \E base \in Bases, i \in Bits, c \in Column :
              /\ Batch(base) \in [Bits -> SUBSET Plane]
              /\ ByteAt(Batch(base)[i], c) = x
<1>1. PICK W \in Nat \ {0} : W = Width
  BY WidthType
<1>2. PICK N \in Nat \ {0} : N = Columns
  BY BoxAssumption
<1>3. PICK n \in 0 .. 2 ^ W - 1 : {k \in 0 .. W - 1 : (n \div 2 ^ k) % 2 = 1} = x
  BY <1>1, Numbers DEF Byte, Bits
<1>4. ByteOf(n) = x
  BY <1>1, <1>3 DEF ByteOf, Bits
<1>5. PICK M \in Nat \ {0} : M = N * W
  OBVIOUS
<1>6. PICK z \in Nat : z = 2 ^ W
  BY PowerPositive
<1>7. n \in Nat /\ n < z
  BY <1>3, <1>6
<1> DEFINE base == M * (n \div M)
           r == n % M
           i == r \div N
           c == r % N
<1>8. base \in Nat /\ r \in Nat /\ r < M /\ n = base + r /\ n \div M \in Nat
  <2>1. n \div M \in Nat
    BY <1>7
  <2>2. base \in Nat
    BY <2>1
  <2> QED
    BY <1>7, <2>1, <2>2, Divided
<1>9. base % M = 0
  <2>1. (M * (n \div M) + 0) % M = 0
    BY <1>8, DividedOnly, 0 \in Nat, 0 < M
  <2>2. M * (n \div M) + 0 = base
    BY <1>8
  <2> QED
    BY <2>1, <2>2, Zenon
<1>10. base \in Bases
  <2>1. Bases = {b \in 0 .. z - 1 : b % M = 0}
    BY <1>1, <1>2, <1>5, <1>6 DEF Bases
  <2> HIDE DEF base, r
  <2> QED
    BY <1>7, <1>8, <1>9, <2>1
<1> HIDE DEF r, base
<1>11. i \in Nat /\ c \in Nat /\ c < N /\ r = N * i + c
  BY <1>8, Divided
<1> HIDE DEF i, c
<1>12. i < W
  <2>1. CASE W <= i
    <3>1. N * (i - W) \in Nat
      BY <1>11, <2>1
    <3>2. N * (i - W) = N * i - N * W /\ N * i \in Nat /\ N * W \in Nat
      BY <1>11
    <3> QED
      BY <1>5, <1>8, <1>11, <3>1, <3>2
  <2> QED
    BY <1>11, <2>1
<1>13. i \in Bits /\ c \in Column
  BY <1>1, <1>2, <1>11, <1>12 DEF Bits, Column
<1>14. base + i * Columns + c = n
  <2>1. i * N = N * i /\ N * i \in Nat
    BY <1>11
  <2> QED
    BY <1>2, <1>8, <1>11, <2>1
<1>15. Batch(base) \in [Bits -> SUBSET Plane]
  BY DEF Batch
<1>16. ASSUME NEW k \in Bits
       PROVE  c * Width + k \in Batch(base)[i] <=> k \in ByteOf(n)
  <2>1. PICK a \in Plane : a = c * Width + k /\ a \div Width = c /\ a % Width = k
    BY <1>13, Places
  <2>2. Batch(base)[i] = {d \in Plane : d % Width \in ByteOf(base + i * Columns + d \div Width)}
    BY <1>13 DEF Batch
  <2>3. a \in Batch(base)[i] <=> k \in ByteOf(base + i * Columns + c)
    BY <2>1, <2>2
  <2> QED
    BY <1>14, <2>1, <2>3
<1>17. ByteAt(Batch(base)[i], c) = x
  <2>1. ByteOf(n) \subseteq Bits
    BY DEF ByteOf
  <2> QED
    BY <1>4, <1>16, <2>1 DEF ByteAt
<1> QED
  BY <1>10, <1>13, <1>15, <1>17

\* The self-test's voices together hold every byte: where table and circuit agree on
\* them, the table is the box that the circuit computes.
LEMMA TablesAgree ==
    ASSUME pin \in [Bits -> Bits], pout \in [Bits -> Bits], inxor \in Byte, outxor \in Byte,
           box \in [Byte -> Byte], \A base \in Bases : Bitsliced(Batch(base)) = ByTable(Batch(base))
    PROVE  box = Candidate(pin, pout, inxor, outxor)
<1>1. PICK b : b = Candidate(pin, pout, inxor, outxor)
  OBVIOUS
<1>2. b \in [Byte -> Byte]
  BY <1>1, CandidateType
<1>3. ASSUME NEW x \in Byte PROVE box[x] = b[x]
  <2>1. PICK base \in Bases, i \in Bits, c \in Column :
              /\ Batch(base) \in [Bits -> SUBSET Plane]
              /\ ByteAt(Batch(base)[i], c) = x
    BY BatchesHaveAll
  <2>2. PICK y \in [Bits -> SUBSET Plane] : y = Batch(base)
    BY <2>1
  <2>3. Bitsliced(y) = [k \in Bits |-> WordTable(y[k], b)]
    BY <1>1, <1>2, CircuitApplies, BoxAssumption
  <2>4. Bitsliced(y) = [k \in Bits |-> WordTable(y[k], box)]
    BY <2>2 DEF ByTable
  <2>5. WordTable(y[i], b) = WordTable(y[i], box)
    BY <2>3, <2>4
  <2>6. /\ ByteAt(WordTable(y[i], b), c) = b[x] 
        /\ ByteAt(WordTable(y[i], box), c) = box[x]
    BY <1>2, <2>1, <2>2, TableByte
  <2> QED
    BY <2>5, <2>6
<1> QED
  BY <1>1, <1>2, <1>3

-----------------------------------------------------------------------------
(* The steps.                                                              *)

LEMMA InitBoxInv == BoxInit => BoxInv
<1> SUFFICES ASSUME BoxInit PROVE BoxInv
  OBVIOUS
<1>1. {} \in Byte
  BY DEF Byte
<1>2. box \in [Byte -> Byte] /\ inv \in [Byte -> Byte]
  BY <1>1 DEF BoxInit
<1>3. pin \in [Bits -> Bits] /\ pout \in [Bits -> Bits] /\ inxor \in Byte /\ outxor \in Byte
  BY <1>1 DEF BoxInit
<1>4. pc = "derive" /\ damaged = FALSE /\ code = -1
  BY DEF BoxInit
<1> QED
  BY <1>2, <1>3, <1>4 DEF BoxInv

LEMMA DeriveKeeps == BoxInv /\ Derive => BoxInv'
<1> SUFFICES ASSUME BoxInv, Derive PROVE BoxInv'
  OBVIOUS
<1>1. PICK p \in Shuffles, q \in Shuffles, in \in Masks, end \in Masks :
        LET b == Candidate(p, q, in, end)
        IN  \/ UNCHANGED <<pc, meta, box, inv>>
            \/ /\ ~Forbidden(b) /\ pc' = "header"
               /\ pin' = p /\ pout' = q /\ inxor' = in /\ outxor' = end
               /\ box' = b /\ inv' = InverseTable(b)
  BY DEF Derive
<1>2. pc = "derive" /\ code = -1 /\ UNCHANGED <<code, damaged>>
  BY DEF Derive, BoxInv
<1>3. CASE UNCHANGED <<pc, meta, box, inv>>
  BY <1>2, <1>3 DEF BoxInv, meta
<1>4. CASE /\ ~Forbidden(Candidate(p, q, in, end)) /\ pc' = "header"
           /\ pin' = p /\ pout' = q /\ inxor' = in /\ outxor' = end
           /\ box' = Candidate(p, q, in, end) /\ inv' = InverseTable(box')
  <2>1. box' \in [Byte -> Byte] /\ Injective(box', Byte)
    BY <1>4, CandidateFits
  <2>2. inv' \in [Byte -> Byte] /\ Inverts'
    BY <1>4, <2>1, InverseTableInverts DEF Inverts
  <2>3. ~Forbidden(box)'
    BY <1>4 DEF Forbidden
  <2>4. /\ pin' \in Shuffles /\ pout' \in Shuffles /\ inxor' \in Masks /\ outxor' \in Masks
        /\ pin' \in [Bits -> Bits] /\ pout' \in [Bits -> Bits]
        /\ inxor' \in Byte /\ outxor' \in Byte
        /\ box' = Candidate(pin, pout, inxor, outxor)'
    BY <1>4, BoxAssumption DEF Candidate
  <2>5. pc' = "header" /\ pc' # "tested" /\ damaged' \in BOOLEAN
    BY <1>2, <1>4 DEF BoxInv
  <2> QED
    BY <1>2, <2>1, <2>2, <2>3, <2>4, <2>5 DEF BoxInv
<1> QED
  BY <1>1, <1>3, <1>4

LEMMA DamageKeeps == BoxInv /\ Damage => BoxInv'
<1> SUFFICES ASSUME BoxInv, Damage PROVE BoxInv'
  OBVIOUS
<1>1. pc = "header" /\ damaged' = TRUE /\ UNCHANGED <<pc, code>>
  BY DEF Damage
<1>2. box' \in [Byte -> Byte] /\ inv' \in [Byte -> Byte]
  BY DEF Damage, BoxInv, meta
<1>3. /\ pin' \in [Bits -> Bits] /\ pout' \in [Bits -> Bits]
      /\ inxor' \in Byte /\ outxor' \in Byte
  BY BoxAssumption DEF Damage, BoxInv, meta
<1> QED
  BY <1>1, <1>2, <1>3 DEF BoxInv

LEMMA SelfTestKeeps == BoxInv /\ SelfTest => BoxInv'
<1> SUFFICES ASSUME BoxInv, SelfTest PROVE BoxInv'
  OBVIOUS
<1>1. /\ pc = "header" /\ pc' = "tested" /\ code' = SelfTestCode
      /\ UNCHANGED <<pin, pout, inxor, outxor, box, inv, damaged>>
  BY DEF SelfTest, meta
<1>2. SelfTestCode' = SelfTestCode
  BY <1>1 DEF SelfTestCode, EntryRight, Bitsliced, Pinned, ByTable
<1>3. /\ (Inverts <=> Inverts') /\ (Forbidden(box) <=> Forbidden(box)')
      /\ Candidate(pin, pout, inxor, outxor)' = Candidate(pin, pout, inxor, outxor)
  BY <1>1 DEF Inverts, Forbidden, Candidate
<1> QED
  BY <1>1, <1>2, <1>3 DEF BoxInv

LEMMA StepKeeps == BoxInv /\ [BoxNext]_boxVars => BoxInv'
<1> SUFFICES ASSUME BoxInv, [BoxNext]_boxVars PROVE BoxInv'
  OBVIOUS
<1>1. CASE UNCHANGED boxVars
  <2>1. UNCHANGED <<pc, pin, pout, inxor, outxor, box, inv, code, damaged>>
    BY <1>1 DEF boxVars, meta
  <2>2. SelfTestCode' = SelfTestCode
    BY <2>1 DEF SelfTestCode, EntryRight, Bitsliced, Pinned, ByTable
  <2>3. /\ (Inverts <=> Inverts') /\ (Forbidden(box) <=> Forbidden(box)')
        /\ Candidate(pin, pout, inxor, outxor)' = Candidate(pin, pout, inxor, outxor)
    BY <2>1 DEF Inverts, Forbidden, Candidate
  <2> QED
    BY <2>1, <2>2, <2>3 DEF BoxInv
<1> QED
  BY <1>1, DeriveKeeps, DamageKeeps, SelfTestKeeps DEF BoxNext, Tested

LEMMA AlwaysBoxInv == BoxSpec => []BoxInv
BY InitBoxInv, StepKeeps, PTL DEF BoxSpec

-----------------------------------------------------------------------------
(* What the self-test says.                                                *)

\* It finds nothing in a header as the generator wrote it.
LEMMA DerivedPasses ==
    ASSUME BoxInv, pc # "derive", ~damaged
    PROVE  SelfTestCode = 0
<1>1. /\ pin \in Shuffles /\ pout \in Shuffles /\ inxor \in Masks /\ outxor \in Masks
      /\ box = Candidate(pin, pout, inxor, outxor) /\ Inverts /\ ~Forbidden(box)
  BY DEF BoxInv
<1>2. Bijective(box)
  BY <1>1, CandidateFits DEF Bijective, Injective
<1>3. DuIs(box, Uniformity)
  BY <1>1, CandidateUniform
<1>4. \A x \in Byte : EntryRight(x)
  BY <1>1 DEF EntryRight, Inverts, Forbidden
<1>5. ASSUME NEW base \in Bases PROVE Bitsliced(Batch(base)) = ByTable(Batch(base))
  <2>1. PICK y \in [Bits -> SUBSET Plane] : y = Batch(base)
    BY DEF Batch
  <2>2. pin \in [Bits -> Bits] /\ pout \in [Bits -> Bits] /\ box \in [Byte -> Byte]
    BY DEF BoxInv
  <2>3. Bitsliced(y) = [i \in Bits |-> WordTable(y[i], box)]
    BY <1>1, <2>2, CircuitApplies, BoxAssumption
  <2> QED
    BY <2>1, <2>3 DEF ByTable
<1> QED
  BY <1>2, <1>3, <1>4, <1>5 DEF SelfTestCode

\* Where it finds nothing the inverse undoes the box in both directions, and the table
\* is the box that the circuit computes with the numbers in the header.
LEMMA PassedTables ==
    ASSUME BoxInv, code = 0
    PROVE  Inverts /\ box = Candidate(pin, pout, inxor, outxor)
<1>1. SelfTestCode = 0
  BY DEF BoxInv
<1>2. /\ Bijective(box) /\ \A x \in Byte : EntryRight(x)
      /\ \A base \in Bases : Bitsliced(Batch(base)) = ByTable(Batch(base))
  BY <1>1 DEF SelfTestCode
<1>3. Injective(box, Byte) /\ \A x \in Byte : inv[box[x]] = x
  BY <1>2 DEF Bijective, Injective, EntryRight
<1>4. Inverts
  BY <1>3, InvertsFromOneSide DEF BoxInv, Inverts
<1>5. box = Candidate(pin, pout, inxor, outxor)
  BY <1>2, TablesAgree DEF BoxInv
<1> QED
  BY <1>4, <1>5

\* Whatever the generator draws (gen_tables.py:81), the box and the inverse it writes
\* undo each other, no byte is mapped to itself or to its complement, and the self-test
\* does not object: its bound on the differences holds of every box made this way.
THEOREM DerivedTablesFit == BoxSpec => []DerivedFit
<1>1. BoxInv => DerivedFit
  <2> SUFFICES ASSUME BoxInv, pc # "derive", ~damaged
               PROVE  Inverts /\ ~Forbidden(box) /\ code \in {-1, 0}
    BY DEF DerivedFit
  <2> QED
    BY DerivedPasses DEF BoxInv
<1> QED
  BY <1>1, AlwaysBoxInv, PTL

\* A self-test that passes (frogbard.c:535) vouches for the inverse table in both
\* directions, though it applies the inverse to the box only, on any header.
THEOREM PassedTablesInvert == BoxSpec => []PassMeansInverts
<1>1. BoxInv => PassMeansInverts
  BY PassedTables DEF PassMeansInverts
<1> QED
  BY <1>1, AlwaysBoxInv, PTL

\* It vouches for the circuit too (frogbard.c:109), on every voice and not only on the
\* voices it tried: whatever numbers the header has, and in whatever place a byte stands.
THEOREM PassedTablesSliced == BoxSpec => []PassMeansSliced
<1>1. BoxInv => PassMeansSliced
  <2> SUFFICES ASSUME BoxInv, code = 0, NEW x \in Samples PROVE Bitsliced(x) = ByTable(x)
    BY DEF PassMeansSliced
  <2>1. x \in [Bits -> SUBSET Plane] /\ Aes \in [Byte -> Byte]
    BY BoxAssumption
  <2>2. pin \in [Bits -> Bits] /\ pout \in [Bits -> Bits] /\ box \in [Byte -> Byte]
    BY DEF BoxInv
  <2>3. box = Candidate(pin, pout, inxor, outxor)
    BY PassedTables
  <2>4. Bitsliced(x) = [i \in Bits |-> WordTable(x[i], box)]
    BY <2>1, <2>2, <2>3, CircuitApplies
  <2> QED
    BY <2>4 DEF ByTable
<1> QED
  BY <1>1, AlwaysBoxInv, PTL
=============================================================================
