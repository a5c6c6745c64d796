--------------------------- MODULE FourWayProofs ---------------------------
(***************************************************************************)
(* FourWay for every word, table, message list and number of rounds: layer *)
(* by layer, what the vector code does to a state it does to the four      *)
(* columns of the state as the scalar code does it.                        *)
(***************************************************************************)
EXTENDS FourWay, NaturalLemmas

VectorVoice == [Lanes -> Vector]
VectorState == [Voices -> VectorVoice]

\* By how much a word is rotated.
Amount == 1 .. 63

\* The part of a voice and of a state that belongs to message j.
Part(x, j)    == [lane \in Lanes |-> x[lane][j]]
StateOf(w, j) == [voice \in Voices |-> Part(w[voice], j)]

-----------------------------------------------------------------------------
(* Vectors.                                                                *)

LEMMA VectorOps ==
    ASSUME NEW x \in Vector, NEW y \in Vector, NEW j \in Messages
    PROVE  /\ VPlus(x, y) \in Vector /\ VPlus(x, y)[j] = Add(x[j], y[j])
           /\ VXor(x, y) \in Vector /\ VXor(x, y)[j] = Xor64(x[j], y[j])
<1>1. \A k \in Messages : x[k] \in Word64 /\ y[k] \in Word64
  BY DEF Vector
<1>2. \A k \in Messages : Add(x[k], y[k]) \in Word64 /\ Xor64(x[k], y[k]) \in Word64
  BY <1>1, ScalarAssumption
<1>3. 1 \in Messages /\ 2 \in Messages /\ 3 \in Messages /\ 4 \in Messages
  BY DEF Messages
<1>4. VPlus(x, y) = <<Add(x[1], y[1]), Add(x[2], y[2]), Add(x[3], y[3]), Add(x[4], y[4])>>
  BY DEF VPlus, Each
<1>5. VXor(x, y) = <<Xor64(x[1], y[1]), Xor64(x[2], y[2]), Xor64(x[3], y[3]), Xor64(x[4], y[4])>>
  BY DEF VXor, Each
<1>6. VPlus(x, y) \in Vector /\ VPlus(x, y)[j] = Add(x[j], y[j])
  BY <1>2, <1>3, <1>4 DEF Vector, Messages
<1>7. VXor(x, y) \in Vector /\ VXor(x, y)[j] = Xor64(x[j], y[j])
  BY <1>2, <1>3, <1>5 DEF Vector, Messages
<1> QED
  BY <1>6, <1>7

LEMMA VectorTurn ==
    ASSUME NEW x \in Vector, NEW n \in Amount, NEW j \in Messages
    PROVE  VRotl(x, n) \in Vector /\ VRotl(x, n)[j] = Left(x[j], n)
<1>1. \A k \in Messages : Left(x[k], n) \in Word64
  BY ScalarAssumption DEF Vector, Amount
<1>2. VRotl(x, n) = <<Left(x[1], n), Left(x[2], n), Left(x[3], n), Left(x[4], n)>>
  BY DEF VRotl, Each
<1> QED
  BY <1>1, <1>2 DEF Vector, Messages

LEMMA VectorBox ==
    ASSUME NEW x \in Vector, NEW box \in Voices, NEW j \in Messages
    PROVE  VSbox(box, x) \in Vector /\ VSbox(box, x)[j] = Box(box, x[j])
<1>1. \A k \in Messages : Box(box, x[k]) \in Word64
  BY ScalarAssumption DEF Vector
<1>2. VSbox(box, x) = <<Box(box, x[1]), Box(box, x[2]), Box(box, x[3]), Box(box, x[4])>>
  BY DEF VSbox, Each
<1> QED
  BY <1>1, <1>2 DEF Vector, Messages

LEMMA Splatted ==
    ASSUME NEW a \in Word64, NEW j \in Messages
    PROVE  Splat(a) \in Vector /\ Splat(a)[j] = a
BY DEF Splat, Vector, Messages

LEMMA Parted ==
    ASSUME NEW x \in VectorVoice, NEW j \in Messages
    PROVE  Part(x, j) \in [Lanes -> Word64]
BY DEF VectorVoice, Vector, Part

-----------------------------------------------------------------------------
(* quarter_round_v and mix_voice_v.                                        *)

LEMMA AddedLane ==
    ASSUME NEW x \in VectorVoice, NEW to \in Lanes, NEW from \in Lanes, NEW j \in Messages
    PROVE  /\ V!AddLane(x, to, from) \in VectorVoice
           /\ Part(V!AddLane(x, to, from), j) = S!AddLane(Part(x, j), to, from)
<1>1. x[to] \in Vector /\ x[from] \in Vector
  BY DEF VectorVoice
<1> DEFINE y == VPlus(x[to], x[from])
<1>2. y \in Vector /\ y[j] = Add(x[to][j], x[from][j])
  BY <1>1, VectorOps
<1>3. V!AddLane(x, to, from) = [x EXCEPT ![to] = y]
  BY DEF V!AddLane
<1>4. S!AddLane(Part(x, j), to, from) = [Part(x, j) EXCEPT ![to] = Add(x[to][j], x[from][j])]
  BY DEF S!AddLane, Part
<1> HIDE DEF y
<1>5. [x EXCEPT ![to] = y] \in VectorVoice
  BY <1>2 DEF VectorVoice
<1>6. Part([x EXCEPT ![to] = y], j) = [Part(x, j) EXCEPT ![to] = y[j]]
  BY <1>2 DEF VectorVoice, Part
<1> QED
  BY <1>2, <1>3, <1>4, <1>5, <1>6

LEMMA TurnedLane ==
    ASSUME NEW x \in VectorVoice, NEW to \in Lanes, NEW from \in Lanes, NEW n \in Amount,
           NEW j \in Messages
    PROVE  /\ V!XorTurn(x, to, from, n) \in VectorVoice
           /\ Part(V!XorTurn(x, to, from, n), j) = S!XorTurn(Part(x, j), to, from, n)
<1>1. x[to] \in Vector /\ x[from] \in Vector
  BY DEF VectorVoice
<1> DEFINE z == VXor(x[to], x[from])
           y == VRotl(z, n)
<1>2. z \in Vector /\ z[j] = Xor64(x[to][j], x[from][j])
  BY <1>1, VectorOps
<1>3. V!XorTurn(x, to, from, n) = [x EXCEPT ![to] = y]
  BY DEF V!XorTurn
<1> HIDE DEF z
<1>4. y \in Vector /\ y[j] = Left(z[j], n)
  BY <1>2, VectorTurn
<1>5. S!XorTurn(Part(x, j), to, from, n)
         = [Part(x, j) EXCEPT ![to] = Left(Xor64(x[to][j], x[from][j]), n)]
  BY DEF S!XorTurn, Part
<1> HIDE DEF y
<1>6. [x EXCEPT ![to] = y] \in VectorVoice
  BY <1>4 DEF VectorVoice
<1>7. Part([x EXCEPT ![to] = y], j) = [Part(x, j) EXCEPT ![to] = y[j]]
  BY <1>4 DEF VectorVoice, Part
<1> QED
  BY <1>2, <1>3, <1>4, <1>5, <1>6, <1>7

\* Lanes a, b, c, d of a voice.
FourLanes(q) == q[1] \in Lanes /\ q[2] \in Lanes /\ q[3] \in Lanes /\ q[4] \in Lanes

LEMMA Halved ==
    ASSUME NEW x \in VectorVoice, NEW q, FourLanes(q), NEW r \in Amount, NEW s \in Amount,
           NEW j \in Messages
    PROVE  /\ V!Half(x, q, r, s) \in VectorVoice
           /\ Part(V!Half(x, q, r, s), j) = S!Half(Part(x, j), q, r, s)
<1> DEFINE x1 == V!AddLane(x, q[1], q[2])
           x2 == V!XorTurn(x1, q[4], q[1], r)
           x3 == V!AddLane(x2, q[3], q[4])
           x4 == V!XorTurn(x3, q[2], q[3], s)
           y1 == S!AddLane(Part(x, j), q[1], q[2])
           y2 == S!XorTurn(y1, q[4], q[1], r)
           y3 == S!AddLane(y2, q[3], q[4])
           y4 == S!XorTurn(y3, q[2], q[3], s)
<1>0. q[1] \in Lanes /\ q[2] \in Lanes /\ q[3] \in Lanes /\ q[4] \in Lanes
  BY DEF FourLanes
<1>1. x1 \in VectorVoice /\ Part(x1, j) = y1
  BY <1>0, AddedLane
<1> HIDE DEF x1, y1
<1>2. x2 \in VectorVoice /\ Part(x2, j) = y2
  BY <1>0, <1>1, TurnedLane
<1> HIDE DEF x2, y2
<1>3. x3 \in VectorVoice /\ Part(x3, j) = y3
  BY <1>0, <1>2, AddedLane
<1> HIDE DEF x3, y3
<1>4. x4 \in VectorVoice /\ Part(x4, j) = y4
  BY <1>0, <1>3, TurnedLane
<1> QED
  BY <1>4, Zenon DEF V!Half, S!Half, x1, x2, x3, y1, y2, y3

FourTurns(rr) == rr[1] \in Amount /\ rr[2] \in Amount /\ rr[3] \in Amount /\ rr[4] \in Amount

LEMMA Quartered ==
    ASSUME NEW x \in VectorVoice, NEW q, FourLanes(q), NEW rr, FourTurns(rr), NEW j \in Messages
    PROVE  /\ V!QuarterRound(x, q, rr) \in VectorVoice
           /\ Part(V!QuarterRound(x, q, rr), j) = S!QuarterRound(Part(x, j), q, rr)
<1> DEFINE x1 == V!Half(x, q, rr[1], rr[2])
           y1 == S!Half(Part(x, j), q, rr[1], rr[2])
<1>1. rr[1] \in Amount /\ rr[2] \in Amount /\ rr[3] \in Amount /\ rr[4] \in Amount
  BY DEF FourTurns
<1>2. x1 \in VectorVoice /\ Part(x1, j) = y1
  BY <1>1, Halved
<1> HIDE DEF x1, y1
<1>3. /\ V!Half(x1, q, rr[3], rr[4]) \in VectorVoice
      /\ Part(V!Half(x1, q, rr[3], rr[4]), j) = S!Half(y1, q, rr[3], rr[4])
  BY <1>1, <1>2, Halved
<1> QED
  BY <1>3, Zenon DEF V!QuarterRound, S!QuarterRound, x1, y1

\* The rotation numbers of a voice are between 1 and 63, from wherever they start.
LEMMA Turns ==
    ASSUME NEW rr \in [1 .. 4 -> Amount], NEW k \in 1 .. 4
    PROVE  /\ FourTurns(V!From(rr, k)) /\ V!From(rr, k) = S!From(rr, k)
<1>1. \A m \in 1 .. 4 : ((k + m - 2) % 4) + 1 \in 1 .. 4
  OBVIOUS
<1> QED
  BY <1>1 DEF FourTurns, V!From, S!From

LEMMA Mixed ==
    ASSUME NEW x \in VectorVoice, NEW rr \in [1 .. 4 -> Amount], NEW j \in Messages
    PROVE  /\ V!MixVoice(x, rr) \in VectorVoice
           /\ Part(V!MixVoice(x, rr), j) = S!MixVoice(Part(x, j), rr)
<1> DEFINE x1 == V!QuarterRound(x, <<0, 1, 2, 3>>, V!From(rr, 1))
           x2 == V!QuarterRound(x1, <<4, 5, 6, 7>>, V!From(rr, 2))
           x3 == V!QuarterRound(x2, <<0, 5, 2, 7>>, V!From(rr, 3))
           x4 == V!QuarterRound(x3, <<4, 1, 6, 3>>, V!From(rr, 4))
           y1 == S!QuarterRound(Part(x, j), <<0, 1, 2, 3>>, S!From(rr, 1))
           y2 == S!QuarterRound(y1, <<4, 5, 6, 7>>, S!From(rr, 2))
           y3 == S!QuarterRound(y2, <<0, 5, 2, 7>>, S!From(rr, 3))
           y4 == S!QuarterRound(y3, <<4, 1, 6, 3>>, S!From(rr, 4))
<1>1. /\ FourLanes(<<0, 1, 2, 3>>) /\ FourLanes(<<4, 5, 6, 7>>)
      /\ FourLanes(<<0, 5, 2, 7>>) /\ FourLanes(<<4, 1, 6, 3>>)
  BY DEF FourLanes, Lanes
<1>2. \A k \in 1 .. 4 : FourTurns(V!From(rr, k)) /\ V!From(rr, k) = S!From(rr, k)
  BY Turns
<1>3. x1 \in VectorVoice /\ Part(x1, j) = y1
  BY <1>1, <1>2, 1 \in 1 .. 4, Quartered
<1> HIDE DEF x1, y1
<1>4. x2 \in VectorVoice /\ Part(x2, j) = y2
  BY <1>1, <1>2, <1>3, 2 \in 1 .. 4, Quartered
<1> HIDE DEF x2, y2
<1>5. x3 \in VectorVoice /\ Part(x3, j) = y3
  BY <1>1, <1>2, <1>4, 3 \in 1 .. 4, Quartered
<1> HIDE DEF x3, y3
<1>6. x4 \in VectorVoice /\ Part(x4, j) = y4
  BY <1>1, <1>2, <1>5, 4 \in 1 .. 4, Quartered
<1> QED
  BY <1>6, Zenon DEF V!MixVoice, S!MixVoice, x1, x2, x3, y1, y2, y3

LEMMA VoiceTurns ==
    ASSUME NEW voice \in Voices, NEW round \in Nat
    PROVE  /\ V!VoiceRotations(voice, round) \in [1 .. 4 -> Amount]
           /\ V!VoiceRotations(voice, round) = S!VoiceRotations(voice, round)
<1>1. (voice + round) % 4 \in 0 .. 3
  BY DEF Voices
<1>2. ((voice + round) % 4) + 1 \in 1 .. 4
  BY <1>1
<1>3. \A k \in 1 .. 4 : V!Rotations[k] \in [1 .. 4 -> Amount]
  BY DEF V!Rotations, Amount
<1>4. V!Rotations = S!Rotations
  BY DEF V!Rotations, S!Rotations
<1> QED
  BY <1>2, <1>3, <1>4 DEF V!VoiceRotations, S!VoiceRotations

-----------------------------------------------------------------------------
(* cross_voice_braid_v and permute_lanes_v.                                *)

LEMMA StateParted ==
    ASSUME NEW w \in VectorState, NEW j \in Messages
    PROVE  /\ \A voice \in Voices : w[voice] \in VectorVoice
           /\ \A voice \in Voices : StateOf(w, j)[voice] = Part(w[voice], j)
BY DEF VectorState, StateOf

\* One assignment of the braid: lane l of voice to takes something from a rotated lane.
LEMMA Assigned ==
    ASSUME NEW w \in VectorState, NEW to \in Voices, NEW l \in Lanes, NEW y \in Vector,
           NEW j \in Messages
    PROVE  /\ [w EXCEPT ![to][l] = y] \in VectorState
           /\ StateOf([w EXCEPT ![to][l] = y], j) = [StateOf(w, j) EXCEPT ![to][l] = y[j]]
<1>1. w[to] \in VectorVoice
  BY DEF VectorState
<1>2. [w[to] EXCEPT ![l] = y] \in VectorVoice
  BY <1>1 DEF VectorVoice
<1>3. [w EXCEPT ![to][l] = y] = [w EXCEPT ![to] = [w[to] EXCEPT ![l] = y]]
  OBVIOUS
<1>4. [w EXCEPT ![to][l] = y] \in VectorState
  BY <1>2, <1>3 DEF VectorState
<1>5. Part([w[to] EXCEPT ![l] = y], j) = [Part(w[to], j) EXCEPT ![l] = y[j]]
  BY <1>1 DEF VectorVoice, Part
<1>6. StateOf([w EXCEPT ![to] = [w[to] EXCEPT ![l] = y]], j)
         = [StateOf(w, j) EXCEPT ![to] = Part([w[to] EXCEPT ![l] = y], j)]
  <2> DEFINE y1 == [w[to] EXCEPT ![l] = y]
  <2> HIDE DEF y1
  <2>1. StateOf([w EXCEPT ![to] = y1], j) = [StateOf(w, j) EXCEPT ![to] = Part(y1, j)]
    BY DEF StateOf, VectorState
  <2> QED
    BY <2>1 DEF y1
<1>7. [StateOf(w, j) EXCEPT ![to][l] = y[j]]
         = [StateOf(w, j) EXCEPT ![to] = [Part(w[to], j) EXCEPT ![l] = y[j]]]
  BY StateParted
<1> QED
  BY <1>3, <1>4, <1>5, <1>6, <1>7

Put(w, to, l, y) == [w EXCEPT ![to][l] = y]

LEMMA AllAssigned ==
    ASSUME NEW w \in VectorState, NEW to \in Voices, NEW l \in Lanes, NEW y \in Vector
    PROVE  /\ Put(w, to, l, y) \in VectorState
           /\ \A j \in Messages : StateOf(Put(w, to, l, y), j) = Put(StateOf(w, j), to, l, y[j])
<1>1. \A j \in Messages :
         /\ [w EXCEPT ![to][l] = y] \in VectorState
         /\ StateOf([w EXCEPT ![to][l] = y], j) = [StateOf(w, j) EXCEPT ![to][l] = y[j]]
  BY Assigned
<1>2. 1 \in Messages
  BY DEF Messages
<1> QED
  BY <1>1, <1>2 DEF Put

\* The rotated lane.
LEMMA Rotated ==
    ASSUME NEW w \in VectorState, NEW from \in Voices, NEW l \in Lanes, NEW k \in Nat,
           NEW n \in Amount, NEW j \in Messages
    PROVE  LET y == VRotl(w[from][(l + k) % 8], n)
           IN  y \in Vector /\ y[j] = Left(StateOf(w, j)[from][(l + k) % 8], n)
<1>1. (l + k) % 8 \in Lanes
  BY DEF Lanes
<1>2. w[from][(l + k) % 8] \in Vector
  BY <1>1 DEF VectorState, VectorVoice
<1>3. StateOf(w, j)[from][(l + k) % 8] = w[from][(l + k) % 8][j]
  BY <1>1 DEF StateOf, Part
<1> QED
  BY <1>2, <1>3, VectorTurn

LEMMA AddedFrom ==
    ASSUME NEW w \in VectorState, NEW to \in Voices, NEW from \in Voices, NEW l \in Lanes,
           NEW k \in Nat, NEW n \in Amount, NEW j \in Messages
    PROVE  /\ V!AddFrom(w, to, l, from, k, n) \in VectorState
           /\ StateOf(V!AddFrom(w, to, l, from, k, n), j)
                = S!AddFrom(StateOf(w, j), to, l, from, k, n)
<1> DEFINE r == VRotl(w[from][(l + k) % 8], n)
           y == VPlus(w[to][l], r)
<1>1. r \in Vector /\ r[j] = Left(StateOf(w, j)[from][(l + k) % 8], n)
  BY Rotated
<1>2. w[to][l] \in Vector /\ StateOf(w, j)[to][l] = w[to][l][j]
  BY DEF VectorState, VectorVoice, StateOf, Part
<1>3. V!AddFrom(w, to, l, from, k, n) = [w EXCEPT ![to][l] = y]
  BY DEF V!AddFrom
<1>4. S!AddFrom(StateOf(w, j), to, l, from, k, n)
         = [StateOf(w, j) EXCEPT ![to][l] = Add(w[to][l][j], r[j])]
  BY <1>1, <1>2 DEF S!AddFrom
<1> HIDE DEF r
<1>5. y \in Vector /\ y[j] = Add(w[to][l][j], r[j])
  BY <1>1, <1>2, VectorOps
<1> HIDE DEF y
<1>6. /\ [w EXCEPT ![to][l] = y] \in VectorState
      /\ StateOf([w EXCEPT ![to][l] = y], j) = [StateOf(w, j) EXCEPT ![to][l] = y[j]]
  BY <1>5, Assigned
<1>7. y[j] = Add(w[to][l][j], r[j])
  BY <1>5
<1> QED
  BY <1>3, <1>4, <1>6, <1>7, Zenon

LEMMA XoredFrom ==
    ASSUME NEW w \in VectorState, NEW to \in Voices, NEW from \in Voices, NEW l \in Lanes,
           NEW k \in Nat, NEW n \in Amount, NEW j \in Messages
    PROVE  /\ V!XorFrom(w, to, l, from, k, n) \in VectorState
           /\ StateOf(V!XorFrom(w, to, l, from, k, n), j)
                = S!XorFrom(StateOf(w, j), to, l, from, k, n)
<1> DEFINE r == VRotl(w[from][(l + k) % 8], n)
           y == VXor(w[to][l], r)
<1>1. r \in Vector /\ r[j] = Left(StateOf(w, j)[from][(l + k) % 8], n)
  BY Rotated
<1>2. w[to][l] \in Vector /\ StateOf(w, j)[to][l] = w[to][l][j]
  BY DEF VectorState, VectorVoice, StateOf, Part
<1>3. V!XorFrom(w, to, l, from, k, n) = [w EXCEPT ![to][l] = y]
  BY DEF V!XorFrom
<1>4. S!XorFrom(StateOf(w, j), to, l, from, k, n)
         = [StateOf(w, j) EXCEPT ![to][l] = Xor64(w[to][l][j], r[j])]
  BY <1>1, <1>2 DEF S!XorFrom
<1> HIDE DEF r
<1>5. y \in Vector /\ y[j] = Xor64(w[to][l][j], r[j])
  BY <1>1, <1>2, VectorOps
<1> HIDE DEF y
<1>6. /\ [w EXCEPT ![to][l] = y] \in VectorState
      /\ StateOf([w EXCEPT ![to][l] = y], j) = [StateOf(w, j) EXCEPT ![to][l] = y[j]]
  BY <1>5, Assigned
<1>7. y[j] = Xor64(w[to][l][j], r[j])
  BY <1>5
<1> QED
  BY <1>3, <1>4, <1>6, <1>7, Zenon

LEMMA Amounts ==
    ASSUME NEW l \in Lanes, NEW k \in Nat
    PROVE  /\ V!At(V!RA, l, k) \in Amount /\ V!At(V!RB, l, k) \in Amount
           /\ V!At(V!RA, l, k) = S!At(S!RA, l, k) /\ V!At(V!RB, l, k) = S!At(S!RB, l, k)
<1>1. ((l + k) % 8) + 1 \in 1 .. 8
  BY DEF Lanes
<1>2. \A n \in 1 .. 8 : V!RA[n] \in Amount /\ V!RB[n] \in Amount
  BY DEF V!RA, V!RB, Amount
<1>3. V!RA = S!RA /\ V!RB = S!RB
  BY DEF V!RA, S!RA, V!RB, S!RB
<1> QED
  BY <1>1, <1>2, <1>3 DEF V!At, S!At

LEMMA BraidStepped ==
    ASSUME NEW w \in VectorState, NEW l \in Lanes, NEW round \in Nat, NEW j \in Messages
    PROVE  /\ V!BraidStep(w, l, round) \in VectorState
           /\ StateOf(V!BraidStep(w, l, round), j) = S!BraidStep(StateOf(w, j), l, round)
<1> DEFINE a(k) == V!At(V!RA, l, k)
           b(k) == V!At(V!RB, l, k)
<1>1. \A k \in Nat : /\ a(k) \in Amount /\ b(k) \in Amount
                     /\ a(k) = S!At(S!RA, l, k) /\ b(k) = S!At(S!RB, l, k)
  BY Amounts
<1>2. 0 \in Voices /\ 1 \in Voices /\ 2 \in Voices /\ 3 \in Voices
  BY DEF Voices
<1>3. 0 \in Nat /\ 1 \in Nat /\ 2 \in Nat /\ 3 \in Nat /\ 4 \in Nat /\ 5 \in Nat /\ 6 \in Nat /\ 7 \in Nat
  OBVIOUS
<1> HIDE DEF a, b
<1>4. CASE round % 2 = 0
  <2> DEFINE w1 == V!AddFrom(w, 0, l, 1, 1, a(0))
             w2 == V!XorFrom(w1, 2, l, 0, 3, b(0))
             w3 == V!AddFrom(w2, 3, l, 2, 5, a(2))
             w4 == V!XorFrom(w3, 1, l, 3, 7, b(4))
             s1 == S!AddFrom(StateOf(w, j), 0, l, 1, 1, a(0))
             s2 == S!XorFrom(s1, 2, l, 0, 3, b(0))
             s3 == S!AddFrom(s2, 3, l, 2, 5, a(2))
             s4 == S!XorFrom(s3, 1, l, 3, 7, b(4))
  <2>1. w1 \in VectorState /\ StateOf(w1, j) = s1
    BY SMTT(30), <1>1, <1>2, <1>3, AddedFrom
  <2> HIDE DEF w1, s1
  <2>2. w2 \in VectorState /\ StateOf(w2, j) = s2
    BY SMTT(30), <2>1, <1>1, <1>2, <1>3, XoredFrom
  <2> HIDE DEF w2, s2
  <2>3. w3 \in VectorState /\ StateOf(w3, j) = s3
    BY SMTT(30), <2>2, <1>1, <1>2, <1>3, AddedFrom
  <2> HIDE DEF w3, s3
  <2>4. w4 \in VectorState /\ StateOf(w4, j) = s4
    BY SMTT(30), <2>3, <1>1, <1>2, <1>3, XoredFrom
  <2>5. V!BraidStep(w, l, round) = w4
    BY <1>4 DEF V!BraidStep, w1, w2, w3, a, b
  <2>6. S!BraidStep(StateOf(w, j), l, round) = s4
    BY <1>1, <1>3, <1>4 DEF S!BraidStep, s1, s2, s3
  <2> QED
    BY <2>4, <2>5, <2>6
<1>5. CASE round % 2 # 0
  <2> DEFINE w1 == V!AddFrom(w, 3, l, 2, 2, b(0))
             w2 == V!XorFrom(w1, 1, l, 3, 4, a(0))
             w3 == V!AddFrom(w2, 0, l, 1, 6, b(3))
             w4 == V!XorFrom(w3, 2, l, 0, 1, a(5))
             s1 == S!AddFrom(StateOf(w, j), 3, l, 2, 2, b(0))
             s2 == S!XorFrom(s1, 1, l, 3, 4, a(0))
             s3 == S!AddFrom(s2, 0, l, 1, 6, b(3))
             s4 == S!XorFrom(s3, 2, l, 0, 1, a(5))
  <2>1. w1 \in VectorState /\ StateOf(w1, j) = s1
    BY SMTT(30), <1>1, <1>2, <1>3, AddedFrom
  <2> HIDE DEF w1, s1
  <2>2. w2 \in VectorState /\ StateOf(w2, j) = s2
    BY SMTT(30), <2>1, <1>1, <1>2, <1>3, XoredFrom
  <2> HIDE DEF w2, s2
  <2>3. w3 \in VectorState /\ StateOf(w3, j) = s3
    BY SMTT(30), <2>2, <1>1, <1>2, <1>3, AddedFrom
  <2> HIDE DEF w3, s3
  <2>4. w4 \in VectorState /\ StateOf(w4, j) = s4
    BY SMTT(30), <2>3, <1>1, <1>2, <1>3, XoredFrom
  <2>5. V!BraidStep(w, l, round) = w4
    BY <1>5 DEF V!BraidStep, w1, w2, w3, a, b
  <2>6. S!BraidStep(StateOf(w, j), l, round) = s4
    BY <1>1, <1>3, <1>5 DEF S!BraidStep, s1, s2, s3
  <2> QED
    BY <2>4, <2>5, <2>6
<1> QED
  BY <1>4, <1>5

LEMMA Braided ==
    ASSUME NEW w \in VectorState, NEW round \in Nat, NEW j \in Messages
    PROVE  /\ V!Braid(w, round) \in VectorState
           /\ StateOf(V!Braid(w, round), j) = S!Braid(StateOf(w, j), round)
<1> DEFINE w0 == V!BraidStep(w, 0, round)      s0 == S!BraidStep(StateOf(w, j), 0, round)
           w1 == V!BraidStep(w0, 1, round)     s1 == S!BraidStep(s0, 1, round)
           w2 == V!BraidStep(w1, 2, round)     s2 == S!BraidStep(s1, 2, round)
           w3 == V!BraidStep(w2, 3, round)     s3 == S!BraidStep(s2, 3, round)
           w4 == V!BraidStep(w3, 4, round)     s4 == S!BraidStep(s3, 4, round)
           w5 == V!BraidStep(w4, 5, round)     s5 == S!BraidStep(s4, 5, round)
           w6 == V!BraidStep(w5, 6, round)     s6 == S!BraidStep(s5, 6, round)
           w7 == V!BraidStep(w6, 7, round)     s7 == S!BraidStep(s6, 7, round)
<1>l. /\ 0 \in Lanes /\ 1 \in Lanes /\ 2 \in Lanes /\ 3 \in Lanes
      /\ 4 \in Lanes /\ 5 \in Lanes /\ 6 \in Lanes /\ 7 \in Lanes
  BY DEF Lanes
<1>0. w0 \in VectorState /\ StateOf(w0, j) = s0
  BY <1>l, BraidStepped
<1> HIDE DEF w0, s0
<1>1. w1 \in VectorState /\ StateOf(w1, j) = s1
  BY <1>l, <1>0, BraidStepped
<1> HIDE DEF w1, s1
<1>2. w2 \in VectorState /\ StateOf(w2, j) = s2
  BY <1>l, <1>1, BraidStepped
<1> HIDE DEF w2, s2
<1>3. w3 \in VectorState /\ StateOf(w3, j) = s3
  BY <1>l, <1>2, BraidStepped
<1> HIDE DEF w3, s3
<1>4. w4 \in VectorState /\ StateOf(w4, j) = s4
  BY <1>l, <1>3, BraidStepped
<1> HIDE DEF w4, s4
<1>5. w5 \in VectorState /\ StateOf(w5, j) = s5
  BY <1>l, <1>4, BraidStepped
<1> HIDE DEF w5, s5
<1>6. w6 \in VectorState /\ StateOf(w6, j) = s6
  BY <1>l, <1>5, BraidStepped
<1> HIDE DEF w6, s6
<1>7. w7 \in VectorState /\ StateOf(w7, j) = s7
  BY <1>l, <1>6, BraidStepped
<1>8. V!Braid(w, round) = w7
  BY DEF V!Braid, w0, w1, w2, w3, w4, w5, w6
<1>9. S!Braid(StateOf(w, j), round) = s7
  BY DEF S!Braid, s0, s1, s2, s3, s4, s5, s6
<1> QED
  BY <1>7, <1>8, <1>9

\* An order of the lanes.
Order(o) == \A lane \in Lanes : o[lane + 1] \in Lanes

LEMMA Gathered ==
    ASSUME NEW x \in VectorVoice, NEW o, Order(o), NEW j \in Messages
    PROVE  /\ V!Gather(x, o) \in VectorVoice
           /\ Part(V!Gather(x, o), j) = S!Gather(Part(x, j), o)
<1>1. V!Gather(x, o) = [lane \in Lanes |-> x[o[lane + 1]]]
  BY DEF V!Gather, V!Lanes, Lanes
<1>2. S!Gather(Part(x, j), o) = [lane \in Lanes |-> Part(x, j)[o[lane + 1]]]
  BY DEF S!Gather, S!Lanes, Lanes
<1> QED
  BY <1>1, <1>2 DEF Order, VectorVoice, Part

OrderOf(voice, round) ==
    IF round % 2 = 0 THEN V!EvenOrder[voice + 1] ELSE V!OddOrder[voice + 1]

LEMMA Orders ==
    ASSUME NEW voice \in Voices, NEW round \in Nat
    PROVE  Order(OrderOf(voice, round))
<1>1. \A n \in 1 .. 4, k \in 1 .. 8 : V!EvenOrder[n][k] \in Lanes /\ V!OddOrder[n][k] \in Lanes
  BY DEF V!EvenOrder, V!OddOrder, Lanes
<1>2. voice + 1 \in 1 .. 4 /\ \A lane \in Lanes : lane + 1 \in 1 .. 8
  BY DEF Voices, Lanes
<1> QED
  BY <1>1, <1>2 DEF Order, OrderOf

LEMMA LanesPermuted ==
    ASSUME NEW w \in VectorState, NEW round \in Nat, NEW j \in Messages
    PROVE  /\ V!PermuteLanes(w, round) \in VectorState
           /\ StateOf(V!PermuteLanes(w, round), j) = S!PermuteLanes(StateOf(w, j), round)
<1> DEFINE y == [voice \in Voices |-> V!Gather(w[voice], OrderOf(voice, round))]
           z == [voice \in Voices |-> S!Gather(Part(w[voice], j), OrderOf(voice, round))]
<1>1. V!PermuteLanes(w, round) = y
  BY DEF V!PermuteLanes, V!Voices, Voices, OrderOf
<1>2. S!PermuteLanes(StateOf(w, j), round) = z
  BY DEF S!PermuteLanes, S!Voices, Voices, OrderOf, StateOf,
         S!EvenOrder, V!EvenOrder, S!OddOrder, V!OddOrder
<1>3. \A voice \in Voices :
         /\ V!Gather(w[voice], OrderOf(voice, round)) \in VectorVoice
         /\ Part(V!Gather(w[voice], OrderOf(voice, round)), j)
              = S!Gather(Part(w[voice], j), OrderOf(voice, round))
  BY StateParted, Orders, Gathered
<1>4. y \in VectorState /\ StateOf(y, j) = z
  BY <1>3 DEF VectorState, StateOf
<1> QED
  BY <1>1, <1>2, <1>4

-----------------------------------------------------------------------------
(* apply_round_v4.                                                         *)

LEMMA Voiced ==
    ASSUME NEW x \in VectorVoice, NEW voice \in Voices, NEW round \in 0 .. MaxRounds - 1,
           NEW j \in Messages
    PROVE  /\ V!Voice(x, voice, round) \in VectorVoice
           /\ Part(V!Voice(x, voice, round), j) = S!Voice(Part(x, j), voice, round)
<1> DEFINE rc(lane) == RoundWord(round, voice, lane)
           box  == (voice + round) % 4
           t    == [lane \in Lanes |-> VSbox(box, VXor(x[lane], Splat(rc(lane))))]
           u    == [lane \in Lanes |-> Box(box, Xor64(x[lane][j], rc(lane)))]
           rr   == V!VoiceRotations(voice, round)
<1>1. MaxRounds \in Nat
  BY SizesAssumption
<1>2. round \in Nat
  BY <1>1
<1>3. box \in Voices
  BY <1>2 DEF Voices
<1>4. rr \in [1 .. 4 -> Amount] /\ rr = S!VoiceRotations(voice, round)
  BY <1>2, VoiceTurns
<1>5. V!Voice(x, voice, round) = V!MixVoice(t, rr)
  BY DEF V!Voice, V!Lanes, Lanes, VRC
<1>6. S!Voice(Part(x, j), voice, round) = S!MixVoice(u, rr)
  BY <1>4 DEF S!Voice, S!Lanes, Lanes, Part
<1> HIDE DEF box, rr
<1>7. ASSUME NEW lane \in Lanes
      PROVE  /\ VSbox(box, VXor(x[lane], Splat(rc(lane)))) \in Vector
             /\ VSbox(box, VXor(x[lane], Splat(rc(lane))))[j] = Box(box, Xor64(x[lane][j], rc(lane)))
  <2>1. rc(lane) \in Word64 /\ x[lane] \in Vector
    BY TablesAssumption DEF VectorVoice
  <2> HIDE DEF rc
  <2>2. Splat(rc(lane)) \in Vector /\ Splat(rc(lane))[j] = rc(lane)
    BY <2>1, Splatted
  <2> DEFINE y == VXor(x[lane], Splat(rc(lane)))
  <2>3. y \in Vector /\ y[j] = Xor64(x[lane][j], rc(lane))
    BY <2>1, <2>2, VectorOps
  <2> HIDE DEF y
  <2>4. VSbox(box, y) \in Vector /\ VSbox(box, y)[j] = Box(box, y[j])
    BY <1>3, <2>3, VectorBox
  <2> QED
    BY <2>3, <2>4 DEF y
<1>8. t \in VectorVoice /\ Part(t, j) = u
  BY <1>7 DEF VectorVoice, Part
<1> HIDE DEF t, u
<1>9. V!MixVoice(t, rr) \in VectorVoice /\ Part(V!MixVoice(t, rr), j) = S!MixVoice(Part(t, j), rr)
  BY <1>4, <1>8, Mixed
<1> QED
  BY <1>5, <1>6, <1>8, <1>9

LEMMA RoundApplied ==
    ASSUME NEW w \in VectorState, NEW round \in 0 .. MaxRounds - 1, NEW j \in Messages
    PROVE  /\ V!ApplyRound(w, round) \in VectorState
           /\ StateOf(V!ApplyRound(w, round), j) = S!ApplyRound(StateOf(w, j), round)
<1> DEFINE t == [voice \in Voices |-> V!Voice(w[voice], voice, round)]
           u == [voice \in Voices |-> S!Voice(Part(w[voice], j), voice, round)]
<1>1. MaxRounds \in Nat
  BY SizesAssumption
<1>2. round \in Nat
  BY <1>1
<1>3. V!ApplyRound(w, round) = V!PermuteLanes(V!Braid(t, round), round)
  BY DEF V!ApplyRound, V!Voices, Voices
<1>4. S!ApplyRound(StateOf(w, j), round) = S!PermuteLanes(S!Braid(u, round), round)
  BY DEF S!ApplyRound, S!Voices, Voices, StateOf
<1>5. \A voice \in Voices : /\ V!Voice(w[voice], voice, round) \in VectorVoice
                            /\ Part(V!Voice(w[voice], voice, round), j)
                                 = S!Voice(Part(w[voice], j), voice, round)
  BY StateParted, Voiced
<1>6. t \in VectorState /\ StateOf(t, j) = u
  BY <1>5 DEF VectorState, StateOf
<1> HIDE DEF t, u
<1>7. V!Braid(t, round) \in VectorState /\ StateOf(V!Braid(t, round), j) = S!Braid(u, round)
  BY <1>2, <1>6, Braided
<1> QED
  BY <1>2, <1>3, <1>4, <1>7, LanesPermuted

LEMMA ScalarRounds ==
    ASSUME NEW s
    PROVE  \E f : /\ f = [n \in 0 .. MaxRounds |->
                           IF n = 0 THEN s ELSE S!ApplyRound(f[n - 1], n - 1)]
                  /\ Permute(s) = f[MaxRounds]
<1> DEFINE Is(g, m) == g = [n \in 0 .. m |-> IF n = 0 THEN s ELSE S!ApplyRound(g[n - 1], n - 1)]
           T == {m \in Nat : ~ \E g : Is(g, m)}
<1>1. ASSUME T # {} PROVE FALSE
  <2>1. PICK m \in T : \A n \in T : m <= n
    BY <1>1, Smallest
  <2>2. CASE m = 0
    <3> DEFINE g == [n \in 0 .. 0 |-> s]
    <3>1. Is(g, 0)
      OBVIOUS
    <3> QED
      BY <2>1, <2>2, <3>1
  <2>3. CASE m # 0
    <3>0. m \in Nat
      BY <2>1
    <3>a. m - 1 \in Nat /\ ~(m <= m - 1)
      BY <3>0, <2>3
    <3>1. m - 1 \in Nat /\ m - 1 \notin T
      BY <2>1, <3>a, Zenon
    <3>2. PICK g : Is(g, m - 1)
      BY <3>1
    <3> DEFINE h == [n \in 0 .. m |-> IF n = m THEN S!ApplyRound(g[m - 1], m - 1) ELSE g[n]]
    <3>3. \A n \in 0 .. m : n # m => n \in 0 .. m - 1 /\ (n # 0 => n - 1 \in 0 .. m - 1 /\ n - 1 # m)
      BY <2>1
    <3>4. m - 1 \in 0 .. m /\ m \in 0 .. m
      BY <2>1, <3>1
    <3>5. ASSUME NEW n \in 0 .. m
          PROVE  h[n] = IF n = 0 THEN s ELSE S!ApplyRound(h[n - 1], n - 1)
      <4>1. CASE n = m
        <5>1. h[m - 1] = g[m - 1]
          BY <2>1, <3>4
        <5> QED
          BY <4>1, <2>3, <5>1
      <4>2. CASE n # m
        <5>1. n \in 0 .. m - 1 /\ h[n] = g[n]
          BY <3>3, <4>2
        <5>2. g[n] = IF n = 0 THEN s ELSE S!ApplyRound(g[n - 1], n - 1)
          BY <3>2, <5>1
        <5>3. n # 0 => n - 1 \in 0 .. m /\ h[n - 1] = g[n - 1]
          BY <3>3, <4>2, <3>1
        <5> QED
          BY <5>1, <5>2, <5>3
      <4> QED
        BY <4>1, <4>2
    <3>6. h = [n \in 0 .. m |-> h[n]]
      OBVIOUS
    <3> HIDE DEF h
    <3>7. Is(h, m)
      BY <3>5, <3>6
    <3> QED
      BY <2>1, <3>7
  <2> QED
    BY <2>2, <2>3
<1>2. MaxRounds \in Nat
  BY SizesAssumption
<1>3. \E g : Is(g, MaxRounds)
  BY <1>1, <1>2
<1> DEFINE f == CHOOSE g : Is(g, MaxRounds)
<1>4. Is(f, MaxRounds)
  BY <1>3
<1>5. Permute(s) = f[MaxRounds]
  BY DEF Permute
<1> HIDE DEF f
<1> QED
  BY <1>4, <1>5


LEMMA VectorRounds ==
    ASSUME NEW s
    PROVE  \E f : /\ f = [n \in 0 .. MaxRounds |->
                           IF n = 0 THEN s ELSE V!ApplyRound(f[n - 1], n - 1)]
                  /\ PermuteV4(s) = f[MaxRounds]
<1> DEFINE Is(g, m) == g = [n \in 0 .. m |-> IF n = 0 THEN s ELSE V!ApplyRound(g[n - 1], n - 1)]
           T == {m \in Nat : ~ \E g : Is(g, m)}
<1>1. ASSUME T # {} PROVE FALSE
  <2>1. PICK m \in T : \A n \in T : m <= n
    BY <1>1, Smallest
  <2>2. CASE m = 0
    <3> DEFINE g == [n \in 0 .. 0 |-> s]
    <3>1. Is(g, 0)
      OBVIOUS
    <3> QED
      BY <2>1, <2>2, <3>1
  <2>3. CASE m # 0
    <3>0. m \in Nat
      BY <2>1
    <3>a. m - 1 \in Nat /\ ~(m <= m - 1)
      BY <3>0, <2>3
    <3>1. m - 1 \in Nat /\ m - 1 \notin T
      BY <2>1, <3>a, Zenon
    <3>2. PICK g : Is(g, m - 1)
      BY <3>1
    <3> DEFINE h == [n \in 0 .. m |-> IF n = m THEN V!ApplyRound(g[m - 1], m - 1) ELSE g[n]]
    <3>3. \A n \in 0 .. m : n # m => n \in 0 .. m - 1 /\ (n # 0 => n - 1 \in 0 .. m - 1 /\ n - 1 # m)
      BY <2>1
    <3>4. m - 1 \in 0 .. m /\ m \in 0 .. m
      BY <2>1, <3>1
    <3>5. ASSUME NEW n \in 0 .. m
          PROVE  h[n] = IF n = 0 THEN s ELSE V!ApplyRound(h[n - 1], n - 1)
      <4>1. CASE n = m
        <5>1. h[m - 1] = g[m - 1]
          BY <2>1, <3>4
        <5> QED
          BY <4>1, <2>3, <5>1
      <4>2. CASE n # m
        <5>1. n \in 0 .. m - 1 /\ h[n] = g[n]
          BY <3>3, <4>2
        <5>2. g[n] = IF n = 0 THEN s ELSE V!ApplyRound(g[n - 1], n - 1)
          BY <3>2, <5>1
        <5>3. n # 0 => n - 1 \in 0 .. m /\ h[n - 1] = g[n - 1]
          BY <3>3, <4>2, <3>1
        <5> QED
          BY <5>1, <5>2, <5>3
      <4> QED
        BY <4>1, <4>2
    <3>6. h = [n \in 0 .. m |-> h[n]]
      OBVIOUS
    <3> HIDE DEF h
    <3>7. Is(h, m)
      BY <3>5, <3>6
    <3> QED
      BY <2>1, <3>7
  <2> QED
    BY <2>2, <2>3
<1>2. MaxRounds \in Nat
  BY SizesAssumption
<1>3. \E g : Is(g, MaxRounds)
  BY <1>1, <1>2
<1> DEFINE f == CHOOSE g : Is(g, MaxRounds)
<1>4. Is(f, MaxRounds)
  BY <1>3
<1>5. PermuteV4(s) = f[MaxRounds]
  BY DEF PermuteV4
<1> HIDE DEF f
<1> QED
  BY <1>4, <1>5

\* permute_v4 is the scalar permute of each column.
LEMMA Permuted ==
    ASSUME NEW w \in VectorState
    PROVE  /\ PermuteV4(w) \in VectorState
           /\ \A j \in Messages : StateOf(PermuteV4(w), j) = Permute(StateOf(w, j))
<1>1. MaxRounds \in Nat
  BY SizesAssumption
<1>2. PICK f : /\ f = [n \in 0 .. MaxRounds |->
                         IF n = 0 THEN w ELSE V!ApplyRound(f[n - 1], n - 1)]
               /\ PermuteV4(w) = f[MaxRounds]
  BY VectorRounds
<1>3. ASSUME NEW j \in Messages
      PROVE  f[MaxRounds] \in VectorState /\ StateOf(f[MaxRounds], j) = Permute(StateOf(w, j))
  <2>1. PICK g : /\ g = [n \in 0 .. MaxRounds |->
                           IF n = 0 THEN StateOf(w, j) ELSE S!ApplyRound(g[n - 1], n - 1)]
                 /\ Permute(StateOf(w, j)) = g[MaxRounds]
    BY ScalarRounds
  <2> DEFINE T == {n \in 0 .. MaxRounds : ~(f[n] \in VectorState /\ StateOf(f[n], j) = g[n])}
  <2>2. ASSUME T # {} PROVE FALSE
    <3>1. T \subseteq Nat
      OBVIOUS
    <3>2. PICK m \in T : \A n \in T : m <= n
      BY <2>2, <3>1, Smallest
    <3>3. CASE m = 0
      <4>1. f[0] = w /\ g[0] = StateOf(w, j)
        BY <1>1, <1>2, <2>1
      <4> QED
        BY <3>2, <3>3, <4>1
    <3>4. CASE m # 0
      <4>1. m - 1 \in 0 .. MaxRounds - 1 /\ m - 1 \in 0 .. MaxRounds /\ m - 1 \notin T
        BY <1>1, <3>2, <3>4
      <4>2. f[m - 1] \in VectorState /\ StateOf(f[m - 1], j) = g[m - 1]
        BY <4>1
      <4>3. f[m] = V!ApplyRound(f[m - 1], m - 1) /\ g[m] = S!ApplyRound(g[m - 1], m - 1)
        BY <1>2, <2>1, <3>4
      <4> QED
        BY <3>2, <4>1, <4>2, <4>3, RoundApplied
    <3> QED
      BY <3>3, <3>4
  <2>3. MaxRounds \in 0 .. MaxRounds /\ MaxRounds \notin T
    BY <1>1, <2>2
  <2> QED
    BY <2>1, <2>3
<1>4. 1 \in Messages
  BY DEF Messages
<1> QED
  BY <1>2, <1>3, <1>4

-----------------------------------------------------------------------------
(* load64_le, the blocks and the words XORed into a state.                 *)

LEMMA ZeroByte == 0 \in Byte /\ 0 \in Word64 /\ 2 ^ ByteBits \in Nat \ {0}
<1>1. ByteBits \in Nat /\ ByteBits * WordBytes \in Nat
  BY SizesAssumption
<1>2. 2 ^ ByteBits \in Nat \ {0} /\ 2 ^ (ByteBits * WordBytes) \in Nat \ {0}
  BY <1>1, PowerPositive
<1>3. 0 \in 0 .. 2 ^ ByteBits - 1 /\ 0 \in 0 .. 2 ^ (ByteBits * WordBytes) - 1
  BY <1>2
<1> QED
  BY <1>2, <1>3, SizesAssumption DEF Byte

\* Eight bytes make a word, whatever they are.
LEMMA Loaded ==
    ASSUME NEW b, NEW p \in Nat, \A k \in 1 .. WordBytes : b[p + k] \in Byte
    PROVE  Load(b, p) \in Word64
<1> DEFINE M == WordBytes
           top(k) == 2 ^ (ByteBits * k)
           Is(g, m) == g = [k \in 0 .. m |->
                              IF k = 0 THEN 0 ELSE g[k - 1] + b[p + k] * 2 ^ (ByteBits * (k - 1))]
           T == {m \in 0 .. M : ~ \E g : Is(g, m)}
<1>0. M \in Nat \ {0} /\ ByteBits \in Nat \ {0}
  BY SizesAssumption
<1>1. \A k \in Nat : top(k) \in Nat \ {0} /\ top(k + 1) = top(k) * 2 ^ ByteBits
  <2> TAKE k \in Nat
  <2>1. ByteBits * k \in Nat /\ ByteBits * (k + 1) = ByteBits * k + ByteBits
    BY <1>0
  <2> QED
    BY <1>0, <2>1, PowerPositive, PowerSum
<1>2. ASSUME T # {} PROVE FALSE
  <2>0. T \subseteq Nat
    BY <1>0
  <2>1. PICK m \in T : \A n \in T : m <= n
    BY <1>2, <2>0, Smallest
  <2>2. CASE m = 0
    <3> DEFINE g == [k \in 0 .. 0 |-> 0]
    <3>1. Is(g, 0)
      OBVIOUS
    <3> QED
      BY <2>1, <2>2, <3>1
  <2>3. CASE m # 0
    <3>0. m \in 1 .. M /\ m - 1 \in 0 .. M /\ ~(m <= m - 1) /\ m - 1 \in Nat /\ m \in Nat
      BY <1>0, <2>1, <2>3
    <3>1. m - 1 \notin T
      BY <2>1, <3>0, Zenon
    <3>2. PICK g : Is(g, m - 1)
      BY <3>0, <3>1, Zenon
    <3> DEFINE new == g[m - 1] + b[p + m] * top(m - 1)
               h == [k \in 0 .. m |-> IF k = m THEN new ELSE g[k]]
    <3>4. \A k \in 0 .. m : k # m => k \in 0 .. m - 1 /\ (k # 0 => k - 1 \in 0 .. m - 1 /\ k - 1 # m)
      BY <3>0
    <3>5. m - 1 \in 0 .. m /\ m \in 0 .. m /\ m - 1 # m
      BY <3>0
    <3> HIDE DEF new
    <3>7. ASSUME NEW k \in 0 .. m
          PROVE  h[k] = IF k = 0 THEN 0 ELSE h[k - 1] + b[p + k] * 2 ^ (ByteBits * (k - 1))
      <4>1. CASE k = m
        <5>1. h[m - 1] = g[m - 1] /\ h[m] = new
          BY <3>5
        <5>2. new = g[m - 1] + b[p + m] * 2 ^ (ByteBits * (m - 1))
          BY Zenon DEF new
        <5> HIDE DEF h
        <5> QED
          BY <2>3, <4>1, <5>1, <5>2, Zenon
      <4>2. CASE k # m
        <5>1. k \in 0 .. m - 1 /\ h[k] = g[k]
          BY <3>4, <4>2
        <5>2. g[k] = IF k = 0 THEN 0 ELSE g[k - 1] + b[p + k] * 2 ^ (ByteBits * (k - 1))
          BY <3>2, <5>1, Zenon
        <5>3. k # 0 => k - 1 \in 0 .. m /\ h[k - 1] = g[k - 1]
          BY <3>4, <4>2, <3>0
        <5> HIDE DEF h
        <5> QED
          BY <5>1, <5>2, <5>3, Zenon
      <4> QED
        BY <4>1, <4>2
    <3>8. h = [k \in 0 .. m |-> h[k]]
      OBVIOUS
    <3> HIDE DEF h
    <3>9. Is(h, m)
      BY <3>7, <3>8
    <3> QED
      BY <2>1, <3>9
  <2> QED
    BY <2>2, <2>3
<1>3. \E g : Is(g, M)
  <2>1. M \in 0 .. M
    BY <1>0
  <2> QED
    BY <1>2, <2>1, Zenon
<1> DEFINE f == CHOOSE g : Is(g, M)
<1>4. Is(f, M)
  BY <1>3, Zenon
<1>5. Load(b, p) = f[M]
  BY DEF Load
<1> HIDE DEF f
<1> DEFINE U == {k \in 0 .. M : ~(f[k] \in Nat /\ f[k] < top(k))}
<1>6. ASSUME U # {} PROVE FALSE
  <2>0. U \subseteq Nat
    BY <1>0
  <2>1. PICK m \in U : \A n \in U : m <= n
    BY <1>6, <2>0, Smallest
  <2>2. CASE m = 0
    <3>1. f[0] = 0
      BY <1>0, <1>4
    <3>2. 0 < top(0)
      BY <1>1
    <3> HIDE DEF top
    <3> QED
      BY <2>1, <2>2, <3>1, <3>2
  <2>3. CASE m # 0
    <3>0. m \in 1 .. M /\ m - 1 \in 0 .. M /\ ~(m <= m - 1) /\ m - 1 \in Nat /\ (m - 1) + 1 = m
      BY <1>0, <2>1, <2>3
    <3>1. f[m - 1] \in Nat /\ f[m - 1] < top(m - 1)
      <4>1. m - 1 \notin U
        BY <2>1, <3>0, Zenon
      <4> QED
        BY <3>0, <4>1, Zenon
    <3>2. PICK x \in Nat : x = top(m - 1)
      BY <1>1, <3>0
    <3>3. PICK c \in Nat : c = b[p + m] /\ c <= 2 ^ ByteBits - 1
      BY <3>0, ZeroByte DEF Byte
    <3>4. PICK q \in Nat : q = 2 ^ ByteBits
      BY ZeroByte
    <3>5. top(m) = x * q
      <4>1. top((m - 1) + 1) = top(m - 1) * 2 ^ ByteBits
        BY <1>1, <3>0
      <4> HIDE DEF top
      <4> QED
        BY <3>0, <3>2, <3>4, <4>1
    <3>6. f[m] = f[m - 1] + c * x
      <4>1. f[m] = f[m - 1] + b[p + m] * 2 ^ (ByteBits * (m - 1))
        BY <1>4, <2>3, <3>0
      <4> QED
        BY <3>2, <3>3, <4>1
    <3>7. (q - 1 - c) * x \in Nat /\ (q - 1 - c) * x = x * q - x - c * x /\ c * x \in Nat
      <4>1. q - 1 - c \in Nat
        BY <3>3, <3>4
      <4> QED
        BY <4>1
    <3> HIDE DEF top
    <3>8. f[m] \in Nat /\ f[m] < top(m)
      BY <3>1, <3>2, <3>5, <3>6, <3>7
    <3> QED
      BY <2>1, <3>8
  <2> QED
    BY <2>2, <2>3
<1>7. f[M] \in Nat /\ f[M] < top(M)
  <2>1. M \in 0 .. M
    BY <1>0
  <2> QED
    BY <1>6, <2>1, Zenon
<1> QED
  BY <1>0, <1>5, <1>7, SizesAssumption

Block == [1 .. BlockBytes -> Byte]

\* The words of a block, one vector of them for four blocks.
LEMMA BlockLoaded ==
    ASSUME NEW p \in [Messages -> Block], NEW voice \in {0, 1}, NEW lane \in Lanes, NEW j \in Messages
    PROVE  LET n == 8 * WordBytes * voice + WordBytes * lane
           IN  Load4(p, n) \in Vector /\ Load4(p, n)[j] = Load(p[j], n)
<1> DEFINE n == 8 * WordBytes * voice + WordBytes * lane
<1>1. PICK W \in Nat \ {0} : W = WordBytes
  BY SizesAssumption
<1>2. n \in Nat /\ \A k \in 1 .. WordBytes : n + k \in 1 .. BlockBytes
  <2>1. lane \in 0 .. 7 /\ W * lane \in Nat /\ W * lane <= 7 * W
    <3>1. lane \in 0 .. 7 /\ 7 - lane \in Nat
      BY DEF Lanes
    <3>2. W * (7 - lane) \in Nat /\ W * (7 - lane) = 7 * W - W * lane /\ W * lane \in Nat
      BY <3>1
    <3> QED
      BY <3>1, <3>2
  <2>2. CASE voice = 0
    <3>1. n = W * lane
      BY <1>1, <2>1, <2>2
    <3> HIDE DEF n
    <3> QED
      BY <1>1, <2>1, <3>1 DEF BlockBytes
  <2>3. CASE voice = 1
    <3>1. n = 8 * W + W * lane
      BY <1>1, <2>1, <2>3
    <3> HIDE DEF n
    <3> QED
      BY <1>1, <2>1, <3>1 DEF BlockBytes
  <2> QED
    BY <2>2, <2>3
<1> HIDE DEF n
<1>3. \A m \in Messages : Load(p[m], n) \in Word64
  <2> TAKE m \in Messages
  <2>1. \A k \in 1 .. WordBytes : p[m][n + k] \in Byte
    BY <1>2 DEF Block
  <2> QED
    BY <1>2, <2>1, Loaded
<1>4. Load4(p, n) = <<Load(p[1], n), Load(p[2], n), Load(p[3], n), Load(p[4], n)>>
  BY DEF Load4, Each
<1>5. Load4(p, n) \in Vector /\ Load4(p, n)[j] = Load(p[j], n)
  BY <1>3, <1>4 DEF Vector, Messages
<1> QED
  BY <1>5 DEF n

LEMMA Absorbed ==
    ASSUME NEW w \in VectorState, NEW p \in [Messages -> Block]
    PROVE  /\ Absorb4(w, p) \in VectorState
           /\ \A j \in Messages : StateOf(Absorb4(w, p), j) = Absorb(StateOf(w, j), p[j])
<1> DEFINE n(voice, lane) == 8 * WordBytes * voice + WordBytes * lane
           t == [voice \in Voices |-> [lane \in Lanes |->
                  IF voice \in {0, 1} THEN VXor(w[voice][lane], Load4(p, n(voice, lane)))
                                      ELSE w[voice][lane]]]
           u(j) == [voice \in Voices |-> [lane \in Lanes |->
                  IF voice \in {0, 1}
                  THEN Xor64(StateOf(w, j)[voice][lane], Load(p[j], n(voice, lane)))
                  ELSE StateOf(w, j)[voice][lane]]]
<1>1. Absorb4(w, p) = PermuteV4(t)
  BY DEF Absorb4
<1>2. \A j \in Messages : Absorb(StateOf(w, j), p[j]) = Permute(u(j))
  BY DEF Absorb
<1>3. ASSUME NEW voice \in Voices, NEW lane \in Lanes, NEW j \in Messages
      PROVE  t[voice][lane] \in Vector /\ t[voice][lane][j] = u(j)[voice][lane]
  <2>1. w[voice][lane] \in Vector /\ StateOf(w, j)[voice][lane] = w[voice][lane][j]
    BY DEF VectorState, VectorVoice, StateOf, Part
  <2>2. CASE voice \in {0, 1}
    <3> DEFINE y == Load4(p, n(voice, lane))
    <3>1. y \in Vector /\ y[j] = Load(p[j], n(voice, lane))
      BY <2>2, BlockLoaded
    <3> HIDE DEF y, n
    <3>2. VXor(w[voice][lane], y) \in Vector /\ VXor(w[voice][lane], y)[j] = Xor64(w[voice][lane][j], y[j])
      BY <2>1, <3>1, VectorOps
    <3>3. t[voice][lane] = VXor(w[voice][lane], y)
      BY <2>2 DEF y
    <3>4. u(j)[voice][lane] = Xor64(StateOf(w, j)[voice][lane], Load(p[j], n(voice, lane)))
      BY <2>2
    <3> QED
      BY <2>1, <3>1, <3>2, <3>3, <3>4
  <2>3. CASE voice \notin {0, 1}
    BY <2>1, <2>3
  <2> QED
    BY <2>2, <2>3
<1>4. t = [voice \in Voices |-> [lane \in Lanes |-> t[voice][lane]]]
  OBVIOUS
<1>5. \A j \in Messages : u(j) = [voice \in Voices |-> [lane \in Lanes |-> u(j)[voice][lane]]]
  OBVIOUS
<1> HIDE DEF t, u
<1>6. t \in VectorState
  BY <1>3, <1>4, 1 \in Messages DEF VectorState, VectorVoice, Messages
<1>7. ASSUME NEW j \in Messages PROVE StateOf(t, j) = u(j)
  BY <1>3, <1>4, <1>5 DEF StateOf, Part
<1> QED
  BY <1>1, <1>2, <1>6, <1>7, Permuted

LEMMA XoredWord ==
    ASSUME NEW w \in VectorState, NEW to \in Voices, NEW l \in Lanes, NEW a \in Word64
    PROVE  /\ VXor(w[to][l], Splat(a)) \in Vector
           /\ \A j \in Messages : VXor(w[to][l], Splat(a))[j] = Xor64(StateOf(w, j)[to][l], a)
<1>1. \A j \in Messages : /\ w[to][l] \in Vector /\ StateOf(w, j)[to][l] = w[to][l][j]
                          /\ Splat(a) \in Vector /\ Splat(a)[j] = a
  BY Splatted DEF VectorState, VectorVoice, StateOf, Part
<1>2. \A j \in Messages : /\ VXor(w[to][l], Splat(a)) \in Vector
                          /\ VXor(w[to][l], Splat(a))[j] = Xor64(w[to][l][j], a)
  BY <1>1, VectorOps
<1>3. 1 \in Messages
  BY DEF Messages
<1> QED
  BY <1>1, <1>2, <1>3

\* The vector build writes no high word of the length: the scalar one XORs in 0.
LEMMA Injected ==
    ASSUME NEW w \in VectorState, NEW len \in Word64
    PROVE  /\ Inject4(w, len) \in VectorState
           /\ \A j \in Messages : StateOf(Inject4(w, len), j) = Inject(StateOf(w, j), len)
<1> DEFINE y1 == VXor(w[2][6], Splat(len))
           y2 == VXor(w[3][6], Splat(LastWords[1]))
           y3 == VXor(w[3][7], Splat(LastWords[2]))
           w1 == Put(w, 2, 6, y1)
           w2 == Put(w1, 3, 6, y2)
           w3 == Put(w2, 3, 7, y3)
           z1(j) == Xor64(StateOf(w, j)[2][6], len)
           z2(j) == Xor64(StateOf(w, j)[3][6], LastWords[1])
           z3(j) == Xor64(StateOf(w, j)[3][7], LastWords[2])
<1>0. LastWords[1] \in Word64 /\ LastWords[2] \in Word64
  BY TablesAssumption
<1>n. 2 \in Voices /\ 3 \in Voices /\ 6 \in Lanes /\ 7 \in Lanes
  BY DEF Voices, Lanes
<1>1. /\ y1 \in Vector /\ y2 \in Vector /\ y3 \in Vector
      /\ \A j \in Messages : y1[j] = z1(j) /\ y2[j] = z2(j) /\ y3[j] = z3(j)
  BY <1>0, <1>n, XoredWord
<1>2. Inject4(w, len) = w3
  BY DEF Inject4, Put
<1>3. ASSUME NEW j \in Messages
      PROVE  Inject(StateOf(w, j), len)
               = Put(Put(Put(StateOf(w, j), 2, 6, z1(j)), 3, 6, z2(j)), 3, 7, z3(j))
  <2> DEFINE s == StateOf(w, j)
             x1 == z1(j)
             x2 == z2(j)
             x3 == z3(j)
  <2>1. s \in [Voices -> [Lanes -> Word64]]
    BY DEF StateOf, Part, VectorState, VectorVoice, Vector
  <2>2. Inject(s, len) = [[[[s EXCEPT ![2][6] = x1] EXCEPT ![2][7] = Xor64(s[2][7], 0)]
                             EXCEPT ![3][6] = x2] EXCEPT ![3][7] = x3]
    BY DEF Inject
  <2>3. Xor64(s[2][7], 0) = s[2][7]
    BY <1>n, <2>1, ScalarAssumption
  <2> HIDE DEF s, x1, x2, x3
  <2>4. [[s EXCEPT ![2][6] = x1] EXCEPT ![2][7] = s[2][7]] = [s EXCEPT ![2][6] = x1]
    <3> DEFINE t == [s EXCEPT ![2][6] = x1]
    <3>1. t = [s EXCEPT ![2] = [s[2] EXCEPT ![6] = x1]]
      OBVIOUS
    <3>2. t[2] = [s[2] EXCEPT ![6] = x1] /\ 2 \in DOMAIN t
      BY <1>n, <2>1, <3>1
    <3>3. [t[2] EXCEPT ![7] = s[2][7]] = t[2]
      BY <1>n, <2>1, <3>2
    <3>4. t \in [Voices -> [Lanes -> {x1} \cup Word64]]
      BY <1>n, <2>1
    <3> HIDE DEF t
    <3>5. [t EXCEPT ![2][7] = s[2][7]] = [t EXCEPT ![2] = [t[2] EXCEPT ![7] = s[2][7]]]
      OBVIOUS
    <3>6. [t EXCEPT ![2] = t[2]] = t
      BY <3>4
    <3> QED
      BY <3>3, <3>5, <3>6 DEF t
  <2>5. Inject(s, len) = [[[s EXCEPT ![2][6] = x1] EXCEPT ![3][6] = x2] EXCEPT ![3][7] = x3]
    BY <2>2, <2>3, <2>4
  <2> QED
    BY <2>5 DEF s, x1, x2, x3, Put
<1> HIDE DEF y1, y2, y3
<1>4. w1 \in VectorState /\ \A j \in Messages : StateOf(w1, j) = Put(StateOf(w, j), 2, 6, y1[j])
  BY <1>n, <1>1, AllAssigned
<1> HIDE DEF w1
<1>5. w2 \in VectorState /\ \A j \in Messages : StateOf(w2, j) = Put(StateOf(w1, j), 3, 6, y2[j])
  BY <1>n, <1>1, <1>4, AllAssigned
<1> HIDE DEF w2
<1>6. w3 \in VectorState /\ \A j \in Messages : StateOf(w3, j) = Put(StateOf(w2, j), 3, 7, y3[j])
  BY <1>n, <1>1, <1>5, AllAssigned
<1> HIDE DEF w3, z1, z2, z3
<1>7. ASSUME NEW j \in Messages PROVE StateOf(w3, j) = Inject(StateOf(w, j), len)
  BY <1>1, <1>3, <1>4, <1>5, <1>6
<1> QED
  BY <1>2, <1>6, <1>7

LEMMA Finished ==
    ASSUME NEW w \in VectorState, NEW n \in Lanes
    PROVE  /\ Finish4(w, n) \in VectorState
           /\ \A j \in Messages : StateOf(Finish4(w, n), j) = Finish(StateOf(w, j), n)
<1> DEFINE y == VXor(w[3][n], Splat(FinalMark(n)))
           w1 == Put(w, 3, n, y)
           z(j) == Xor64(StateOf(w, j)[3][n], FinalMark(n))
<1>1. FinalMark(n) \in Word64 /\ 3 \in Voices /\ 1 \in Messages
  BY TablesAssumption DEF Voices, Messages
<1>2. y \in Vector /\ \A j \in Messages : y[j] = z(j)
  BY <1>1, XoredWord
<1>3. Finish4(w, n) = PermuteV4(w1)
  BY DEF Finish4, Put
<1>4. \A j \in Messages : Finish(StateOf(w, j), n) = Permute(Put(StateOf(w, j), 3, n, z(j)))
  BY DEF Finish, Put
<1> HIDE DEF y, z
<1>5. w1 \in VectorState /\ \A j \in Messages : StateOf(w1, j) = Put(StateOf(w, j), 3, n, y[j])
  BY <1>1, <1>2, AllAssigned
<1> HIDE DEF w1
<1> QED
  BY <1>2, <1>3, <1>4, <1>5, Permuted

\* out0 .. out3 are written from the lanes of voice 0 of each column.
LEMMA Written ==
    ASSUME NEW w \in VectorState, NEW j \in Messages
    PROVE  Out4(w)[j] = DigestOf(StateOf(w, j))
<1>1. PICK W \in Nat \ {0} : W = WordBytes
  BY SizesAssumption
<1>2. ASSUME NEW n \in 1 .. 8 * WordBytes
      PROVE  StateOf(w, j)[0][(n - 1) \div WordBytes] = w[0][(n - 1) \div WordBytes][j]
  <2>1. n - 1 \in Nat /\ n - 1 < 8 * W
    BY <1>1
  <2>2. (n - 1) \div W \in 0 .. 7
    BY <2>1
  <2>3. (n - 1) \div WordBytes \in Lanes /\ 0 \in Voices
    BY <1>1, <2>2 DEF Lanes, Voices
  <2> QED
    BY <2>3 DEF StateOf, Part
<1>3. Out4(w)[j] = [n \in 1 .. 8 * WordBytes |->
                      StoredByte(w[0][(n - 1) \div WordBytes][j], (n - 1) % WordBytes)]
  BY DEF Out4
<1>4. DigestOf(StateOf(w, j)) = [n \in 1 .. 8 * WordBytes |->
             StoredByte(StateOf(w, j)[0][(n - 1) \div WordBytes], (n - 1) % WordBytes)]
  BY DEF DigestOf
<1> QED
  BY <1>2, <1>3, <1>4

-----------------------------------------------------------------------------
(* The loop over the blocks and the final permutations.                    *)

\* Inductive: the vector state is made of words, its columns are the states of the
\* four scalar calls, and what was returned is the same.
IInv ==
    /\ data \in Lists /\ at \in Nat /\ i \in 0 .. FinalPermutations
    /\ v \in VectorState
    /\ ColumnsAreScalar
    /\ SameDigests

LEMMA ColumnIsPart ==
    ASSUME NEW j \in Messages
    PROVE  Column(j) = StateOf(v, j) /\ Column(j)' = StateOf(v', j)
BY DEF Column, StateOf, Part

LEMMA Rest ==
    ASSUME NEW l \in Lists, NEW p \in Nat
    PROVE  /\ [j \in Messages |-> LastBlock(l[j], p)] \in [Messages -> Block]
           /\ Len(l[1]) - p >= BlockBytes
                => [j \in Messages |-> SubSeq(l[j], p + 1, p + BlockBytes)] \in [Messages -> Block]
<1>1. BlockBytes \in Nat /\ FirstPad \in Byte /\ LastPad \in Byte
  BY SizesAssumption, TablesAssumption DEF BlockBytes
<1>2. ASSUME NEW j \in Messages PROVE l[j] \in Seq(Byte) /\ Len(l[j]) = Len(l[1])
  BY ListsAssumption
<1>3. ASSUME NEW j \in Messages PROVE LastBlock(l[j], p) \in Block
  <2> DEFINE rest(k) == IF p + k <= Len(l[j]) THEN l[j][p + k] ELSE 0
             one(k)  == IF p + k = Len(l[j]) + 1 THEN Xor64(rest(k), FirstPad) ELSE rest(k)
             byte(k) == IF k = BlockBytes THEN Xor64(one(k), LastPad) ELSE one(k)
  <2>1. LastBlock(l[j], p) = [k \in 1 .. BlockBytes |-> byte(k)]
    BY DEF LastBlock
  <2>2. ASSUME NEW k \in 1 .. BlockBytes PROVE byte(k) \in Byte
    <3>1. rest(k) \in Byte
      <4>1. CASE p + k <= Len(l[j])
        <5>1. p + k \in 1 .. Len(l[j])
          BY <1>1, <1>2, <4>1
        <5> QED
          BY <1>2, <4>1, <5>1
      <4>2. CASE ~(p + k <= Len(l[j]))
        BY <4>2, ZeroByte
      <4> QED
        BY <4>1, <4>2
    <3> HIDE DEF rest
    <3>2. one(k) \in Byte
      BY <1>1, <3>1, ScalarAssumption
    <3> HIDE DEF one
    <3> QED
      BY <1>1, <3>2, ScalarAssumption
  <2> HIDE DEF byte
  <2> QED
    BY <2>1, <2>2 DEF Block
<1>4. ASSUME Len(l[1]) - p >= BlockBytes, NEW j \in Messages
      PROVE  SubSeq(l[j], p + 1, p + BlockBytes) \in Block
  <2> DEFINE q == l[j]
  <2>1. q \in Seq(Byte) /\ Len(q) - p >= BlockBytes
    BY <1>2, <1>4
  <2> HIDE DEF q
  <2>2. SubSeq(q, p + 1, p + BlockBytes) \in [1 .. BlockBytes -> Byte]
    <3>1. /\ SubSeq(q, p + 1, p + BlockBytes) \in Seq(Byte)
          /\ Len(SubSeq(q, p + 1, p + BlockBytes)) = BlockBytes
      BY <1>1, <2>1
    <3>2. PICK s \in Seq(Byte) : s = SubSeq(q, p + 1, p + BlockBytes) /\ Len(s) = BlockBytes
      BY <3>1
    <3>3. s \in [1 .. BlockBytes -> Byte]
      <4>1. s \in [1 .. Len(s) -> Byte]
        OBVIOUS
      <4> QED
        BY <3>2, <4>1, Zenon
    <3> QED
      BY <3>2, <3>3, Zenon
  <2> QED
    BY <2>2 DEF q, Block
<1> QED
  BY <1>3, <1>4

LEMMA InitHolds == Init => IInv
<1> SUFFICES ASSUME Init PROVE IInv
  OBVIOUS
<1>1. data \in Lists /\ at = 0 /\ i = 0 /\ 0 \in 0 .. FinalPermutations /\ out = outScalar
  BY SizesAssumption DEF Init
<1>2. \A j \in Messages : Splat(0) \in Vector /\ Splat(0)[j] = 0
  BY ZeroByte, Splatted
<1>3. v = [voice \in Voices |-> [lane \in Lanes |-> Splat(0)]]
  BY DEF Init
<1>4. 1 \in Messages
  BY DEF Messages
<1>5. v \in VectorState
  BY <1>2, <1>3, <1>4 DEF VectorState, VectorVoice
<1>6. ColumnsAreScalar
  BY <1>2, <1>3 DEF Init, ColumnsAreScalar, Column
<1> QED
  BY <1>1, <1>5, <1>6 DEF IInv, SameDigests

LEMMA NextKeeps == IInv /\ [Next]_vars => IInv'
<1> SUFFICES ASSUME IInv, [Next]_vars PROVE IInv'
  OBVIOUS
<1>0. /\ data \in Lists /\ at \in Nat /\ i \in 0 .. FinalPermutations /\ v \in VectorState
      /\ \A j \in Messages : StateOf(v, j) = scalar[j]
      /\ out = outScalar
  BY ColumnIsPart DEF IInv, ColumnsAreScalar, SameDigests
<1>q. ASSUME data' \in Lists, at' \in Nat, i' \in 0 .. FinalPermutations, v' \in VectorState,
             \A j \in Messages : StateOf(v', j) = scalar'[j], out' = outScalar'
      PROVE  IInv'
  BY <1>q, ColumnIsPart DEF IInv, ColumnsAreScalar, SameDigests
<1>1. CASE Start
  <2> DEFINE w == [voice \in Voices |-> [lane \in Lanes |-> Splat(IV(voice, lane))]]
             s == [voice \in Voices |-> [lane \in Lanes |-> IV(voice, lane)]]
  <2>1. ASSUME NEW j \in Messages, NEW voice \in Voices, NEW lane \in Lanes
        PROVE  Splat(IV(voice, lane)) \in Vector /\ Splat(IV(voice, lane))[j] = IV(voice, lane)
    BY TablesAssumption, Splatted
  <2>2. 1 \in Messages
    BY DEF Messages
  <2>3. w \in VectorState
    BY <2>1, <2>2 DEF VectorState, VectorVoice
  <2>4. \A j \in Messages : StateOf(w, j) = s
    BY <2>1 DEF StateOf, Part
  <2>5. /\ v' = PermuteV4(w) /\ \A j \in Messages : scalar'[j] = Permute(s)
        /\ UNCHANGED <<data, at, i, out, outScalar>>
    BY <1>1 DEF Start
  <2> HIDE DEF w, s
  <2>6. v' \in VectorState /\ \A j \in Messages : StateOf(v', j) = scalar'[j]
    BY <2>3, <2>4, <2>5, Permuted
  <2> QED
    BY <1>0, <1>q, <2>5, <2>6
<1>2. CASE AbsorbBlock
  <2> DEFINE b == [j \in Messages |-> SubSeq(data[j], at + 1, at + BlockBytes)]
  <2>1. /\ Len(data[1]) - at >= BlockBytes
        /\ v' = Absorb4(v, b)
        /\ \A j \in Messages : scalar'[j] = Absorb(scalar[j], b[j])
        /\ at' = at + BlockBytes
        /\ UNCHANGED <<data, i, out, outScalar>>
    BY <1>2 DEF AbsorbBlock
  <2>2. b \in [Messages -> Block]
    BY <1>0, <2>1, Rest
  <2> HIDE DEF b
  <2>3. v' \in VectorState /\ \A j \in Messages : StateOf(v', j) = scalar'[j]
    BY <1>0, <2>1, <2>2, Absorbed
  <2>4. at' \in Nat
    BY <1>0, <2>1, SizesAssumption DEF BlockBytes
  <2> QED
    BY <1>0, <1>q, <2>1, <2>3, <2>4
<1>3. CASE AbsorbTail
  <2> DEFINE b == [j \in Messages |-> LastBlock(data[j], at)]
             w == Absorb4(v, b)
  <2>1. /\ v' = Inject4(Absorb4(v, b), Len(data[1]))
        /\ \A j \in Messages : scalar'[j] = Inject(Absorb(scalar[j], b[j]), Len(data[j]))
        /\ UNCHANGED <<data, at, i, out, outScalar>>
    BY <1>3 DEF AbsorbTail
  <2>2. b \in [Messages -> Block]
    BY <1>0, Rest
  <2> HIDE DEF b
  <2>3. w \in VectorState /\ \A j \in Messages : StateOf(w, j) = Absorb(scalar[j], b[j])
    BY <1>0, <2>2, Absorbed
  <2> HIDE DEF w
  <2>4. Len(data[1]) \in Word64 /\ \A j \in Messages : Len(data[j]) = Len(data[1])
    BY <1>0, ListsAssumption, 1 \in Messages DEF Messages
  <2>5. v' \in VectorState /\ \A j \in Messages : StateOf(v', j) = scalar'[j]
    BY <2>1, <2>3, <2>4, Injected DEF w
  <2> QED
    BY <1>0, <1>q, <2>1, <2>5
<1>4. CASE FinalPermutation
  <2>1. /\ i < FinalPermutations /\ v' = Finish4(v, i) /\ i' = i + 1
        /\ \A j \in Messages : scalar'[j] = Finish(scalar[j], i)
        /\ UNCHANGED <<data, at, out, outScalar>>
    BY <1>4 DEF FinalPermutation
  <2>2. i \in Lanes /\ i' \in 0 .. FinalPermutations
    BY <1>0, <2>1, SizesAssumption DEF Lanes
  <2>3. v' \in VectorState /\ \A j \in Messages : StateOf(v', j) = scalar'[j]
    BY <1>0, <2>1, <2>2, Finished
  <2> QED
    BY <1>0, <1>q, <2>1, <2>2, <2>3
<1>5. CASE Return
  <2>1. /\ out' = Out4(v) /\ outScalar' = [j \in Messages |-> DigestOf(scalar[j])]
        /\ UNCHANGED <<data, at, i, v, scalar>>
    BY <1>5 DEF Return
  <2>2. \A j \in Messages : Out4(v)[j] = DigestOf(scalar[j])
    BY <1>0, Written
  <2>3. Out4(v) = [j \in Messages |-> Out4(v)[j]]
    BY DEF Out4
  <2>4. out' = outScalar'
    BY <2>1, <2>2, <2>3
  <2> QED
    BY <1>0, <1>q, <2>1, <2>4
<1>6. CASE UNCHANGED vars
  BY <1>0, <1>6, <1>q DEF vars
<1>7. CASE Returned
  BY <1>6, <1>7 DEF Returned
<1> QED
  BY <1>1, <1>2, <1>3, <1>4, <1>5, <1>6, <1>7 DEF Next

\* At every point of frogbard_hash4_equal each column of the vector state is the
\* state of a scalar call on that message: the four never mix (frogbard_avx2.c:177).
THEOREM MessagesNeverMix == Spec => []ColumnsAreScalar
<1>1. Spec => []IInv
  BY InitHolds, NextKeeps, PTL DEF Spec
<1>2. IInv => ColumnsAreScalar
  BY DEF IInv
<1> QED
  BY <1>1, <1>2, PTL

\* The vector and the scalar build return the same four digests, at every length
\* and wherever the padding falls (frogbard_avx2.c:212, frogbard.c:667).
THEOREM BuildsAgree == Spec => []SameDigests
<1>1. Spec => []IInv
  BY InitHolds, NextKeeps, PTL DEF Spec
<1>2. IInv => SameDigests
  BY DEF IInv
<1> QED
  BY <1>1, <1>2, PTL

-----------------------------------------------------------------------------
(* The words of the code: numbers of 64 bits, and bytes.                   *)

CodeAdd(a, b)  == Added(64, a, b)
CodeXor(a, b)  == Xored(64, a, b)
CodeLeft(a, n) == TurnedLeft(64, a, n)

\* The sponge over them; the S-boxes and the other constants stay parameters.
Code == INSTANCE FourWay WITH
            Word64 <- WordsOf(64), Add <- CodeAdd, Xor64 <- CodeXor, Left <- CodeLeft,
            WordBytes <- 8, ByteBits <- 8

\* What the four-way sponge takes for granted of its scalars holds of uint64_t, given
\* S-boxes on it: the operators stay in a word, the exclusive or stays in a byte when the
\* padding is XORed into the buffer (frogbard_avx2.c:243), and zero changes nothing.
THEOREM ScalarsOfTheCode ==
    ASSUME \A a \in WordsOf(64), box \in Voices : Box(box, a) \in WordsOf(64)
    PROVE  Code!ScalarAssumption
<1>1. 64 \in Nat /\ 8 \in 0 .. 64
  OBVIOUS
<1>2. \A a, b \in WordsOf(64) : CodeAdd(a, b) \in WordsOf(64) /\ CodeXor(a, b) \in WordsOf(64)
  BY <1>1, SumsCancel, XorsCancel DEF CodeAdd, CodeXor
<1>3. \A a \in WordsOf(64) : CodeXor(a, 0) = a
  BY <1>1, XorShort DEF CodeXor
<1>4. ASSUME NEW a \in WordsOf(64), NEW n \in 1 .. 63 PROVE CodeLeft(a, n) \in WordsOf(64)
  <2>1. n \in 0 .. 64
    OBVIOUS
  <2> QED
    BY <1>1, <2>1, TurnsCancel DEF CodeLeft
<1>5. \A a, b \in WordsOf(8) : CodeXor(a, b) \in WordsOf(8)
  BY <1>1, XorShort DEF CodeXor
<1>6. WordsOf(8) = Code!Byte
  BY DEF WordsOf, Code!Byte
<1> QED
  BY <1>2, <1>3, <1>4, <1>5, <1>6 DEF Code!ScalarAssumption, Code!Voices, Voices
=============================================================================
