------------------------------- MODULE Scans -------------------------------
(***************************************************************************)
(* The sampled statistics of src/tools/frogbard_analyze.c: --linear-scan,  *)
(* --differential-scan and the rounds of --all, with the arguments of      *)
(* main; --collision is in CollisionSmoke, and Analyzer has them all.  A   *)
(* lane is the set of its one bits.  A bias is kept as twice the distance  *)
(* of its count from half of the samples, which orders counts as the       *)
(* quotient does.                                                          *)
(***************************************************************************)
EXTENDS Integers, Sequences, FiniteSets

CONSTANTS
    Voices, Lanes, Width,      \* 4, 8 and 64
    Permute(_, _),             \* frogbard_permute_reduced
    MaxRounds,
    DefaultSamples,            \* 512
    IntRadix, LongRadix,       \* 2^32 and 2^64
    Texts,                     \* argument texts, [negative, digits, trailing]
    States, Masks,             \* what random_state may draw
    Drawn                      \* bit numbers the scans may draw

Voice == 0 .. Voices - 1
Lane  == 0 .. Lanes - 1
Bit   == 0 .. Width - 1
Index == 0 .. Voices * Lanes * Width - 1
State == [Voice -> [Lane -> SUBSET Bit]]

ASSUME ScanAssumption ==
    /\ Voices \in Nat \ {0} /\ Lanes \in Nat \ {0} /\ Width \in Nat \ {0, 1}
    /\ Drawn \subseteq Index
    /\ IntRadix \in Nat /\ LongRadix \in Nat \ {0} /\ DefaultSamples \in Nat
    /\ Texts \subseteq [negative : BOOLEAN, digits : Nat, trailing : BOOLEAN]

\* The permutation has an inverse at every number of rounds.
ASSUME PermuteAssumption ==
    /\ States \cup Masks \subseteq State
    /\ MaxRounds \in Nat \ {0}
    /\ \A r \in 1 .. MaxRounds, s \in State :
          /\ Permute(s, r) \in State
          /\ \A t \in State : Permute(s, r) = Permute(t, r) => s = t

VARIABLES
    pc,                \* "main", "draw", "sample", "collision", "done"
    command, rounds, samples, turns,   \* as parsed; of --all, rounds and turns its loop
    turn, sample,
    input, output,     \* input_bit, output_bit
    counts,            \* flips of each state bit; ones of a linear relation
    best,              \* best_bias, best_input, best_output, and its count
    masks, sums,       \* measure_round's masks and what it adds up
    status,            \* what main returns; Running before
    drawn              \* ghost: the bits and states of every turn of a scan

args == <<command, rounds, samples, turns>>
scan == <<input, output, counts, best>>
scanVars == <<pc, args, turn, sample, scan, masks, sums, status, drawn>>

Running == -1
Xor(a, b) == (a \ b) \cup (b \ a)

-----------------------------------------------------------------------------
(* Bits by number, and distances.                                          *)

VoiceOf(bit) == bit \div (Lanes * Width)
LaneOf(bit)  == (bit \div Width) % Lanes

Flip(s, bit)  == [s EXCEPT ![VoiceOf(bit)][LaneOf(bit)] = Xor(@, {bit % Width})]
Value(s, bit) == IF bit % Width \in s[VoiceOf(bit)][LaneOf(bit)] THEN 1 ELSE 0

\* The bits of the differences, lane by lane.
Flipped(a, b) ==
    {p[1] * (Lanes * Width) + p[2] * Width + p[3] : p \in
        {p \in Voice \X Lane \X Bit : p[3] \in Xor(a[p[1]][p[2]], b[p[1]][p[2]])}}

Popcount(a, b) == Cardinality(Flipped(a, b))

Parity(s, mask) ==
    Cardinality({p \in Voice \X Lane \X Bit :
                    p[3] \in s[p[1]][p[2]] \cap mask[p[1]][p[2]]}) % 2

\* Faulty: only the first voice is rotated.
RotateVoice(s, n) == [s EXCEPT ![0] = [lane \in Lane |-> {(k + n) % Width : k \in @[lane]}]]
Rotate(s, n) == [voice \in Voice |-> [lane \in Lane |-> {(k + n) % Width : k \in s[voice][lane]}]]

Bias(count) == IF 2 * count > samples THEN 2 * count - samples ELSE samples - 2 * count

-----------------------------------------------------------------------------
\* parse_unsigned.
Parse(text, fallback) ==
    LET value == IF text.negative THEN (LongRadix - text.digits) % LongRadix ELSE text.digits
    IN  IF text.digits >= LongRadix \/ text.trailing \/ value >= IntRadix
        THEN fallback ELSE value

NoSums == [avalanche |-> 0, minimum |-> Voices * Lanes * Width, maximum |-> 0,
           rotational |-> 0, ones |-> 0]

ScanInit ==
    /\ pc = "main"
    /\ command \in {"linear", "differential", "all", "collision", "inverse", "invariants", "usage"}
    /\ rounds = 0 /\ samples = 0 /\ turns = 0 /\ turn = 0 /\ sample = 0
    /\ input = 0 /\ output = 0 /\ counts = [i \in Index |-> 0]
    /\ best = [bias |-> 0, input |-> 0, output |-> 0, count |-> 0]
    /\ masks = << >> /\ sums = NoSums
    /\ status = Running /\ drawn = << >>

Return(code) == pc' = "done" /\ status' = code

\* The arguments.  calloc may fail.  inverse_test, of --inverse and --all, passes or
\* fails; what --invariants prints is left out.
Main ==
    /\ pc = "main" /\ command # "collision"
    /\ \E r, s, m \in Texts :
          IF command = "all"
          THEN rounds' = 0 /\ samples' = Parse(s, DefaultSamples) /\ turns' = MaxRounds
          ELSE rounds' = Parse(r, 0) /\ samples' = Parse(s, 0) /\ turns' = Parse(m, 0)
    /\ LET outside == command # "all" /\ rounds' \notin 1 .. MaxRounds
           refused == outside \/ samples' = 0 \/ turns' = 0
       IN  \/ command = "usage" /\ Return(2)
           \/ command = "inverse" /\ \E code \in {0, 1} : Return(code)
           \/ command = "invariants" /\ Return(IF outside THEN 2 ELSE 0)
           \/ command = "all" /\ Return(1)
           \/ command \in {"linear", "differential"} /\ refused /\ Return(2)
           \/ command = "differential" /\ Return(2)
           \/ /\ command \in {"linear", "differential", "all"} /\ ~refused
              /\ pc' = "draw" /\ UNCHANGED status
    /\ UNCHANGED <<command, turn, sample, scan, masks, sums, drawn>>

\* Faulty: the counts of the difference before are kept.
KeptCounts == counts
NewCounts  == [i \in Index |-> 0]

\* The next mask or difference of a scan; the end of the loop.
Draw ==
    /\ pc = "draw" /\ command # "all" /\ turn < turns
    /\ \E i \in Drawn, o \in IF command = "linear" THEN Drawn ELSE {output} :
          /\ input' = i /\ output' = o
          /\ drawn' = Append(drawn, [input |-> i, output |-> o, states |-> << >>])
    /\ pc' = "sample" /\ turn' = turn + 1 /\ sample' = 0 /\ counts' = NewCounts
    /\ UNCHANGED <<args, best, masks, sums, status>>

\* The next round of --all.
DrawMasks ==
    /\ pc = "draw" /\ command = "all" /\ turn < turns
    /\ rounds' = turn + 1
    /\ \E in, end \in Masks : masks' = [input |-> in, output |-> end]
    /\ pc' = "sample" /\ turn' = turn + 1 /\ sample' = 0 /\ sums' = NoSums
    /\ UNCHANGED <<command, samples, turns, scan, status, drawn>>

End ==
    /\ pc = "draw" /\ turn = turns
    /\ Return(0)
    /\ UNCHANGED <<args, turn, sample, scan, masks, sums, drawn>>

Sampling(c) ==
    /\ pc = "sample" /\ command = c /\ sample < samples
    /\ sample' = sample + 1
    /\ UNCHANGED <<pc, args, turn, status>>

SampleScan(s) ==
    /\ drawn' = [drawn EXCEPT ![turn].states = Append(@, s)]
    /\ UNCHANGED <<input, output, best, masks, sums>>

LinearSample ==
    /\ Sampling("linear")
    /\ \E s \in States :
          /\ counts' = [counts EXCEPT ![output] =
                @ + ((Value(s, input) + Value(Permute(s, rounds), output)) % 2)]
          /\ SampleScan(s)

DifferentialSample ==
    /\ Sampling("differential")
    /\ \E s \in States :
          LET diff == Flipped(Permute(s, rounds), Permute(Flip(s, input), rounds))
          IN  /\ counts' = [i \in Index |-> IF i \in diff THEN counts[i] + 1 ELSE counts[i]]
              /\ SampleScan(s)

Least(S) == CHOOSE n \in S : \A m \in S : n <= m

MeasureSample ==
    /\ Sampling("all")
    /\ \E s \in States, bit \in Drawn, n \in 1 .. Width - 1 :
          LET out      == Permute(s, rounds)
              distance == Popcount(out, Permute(Flip(s, bit), rounds))
              turned   == Popcount(Permute(Rotate(s, n), rounds), Rotate(out, n))
          IN  sums' = [avalanche  |-> sums.avalanche + distance,
                       minimum    |-> Least({distance, sums.minimum}),
                       maximum    |-> IF distance > sums.maximum THEN distance ELSE sums.maximum,
                       rotational |-> sums.rotational + turned,
                       ones       |-> sums.ones
                                      + ((Parity(s, masks.input) + Parity(out, masks.output)) % 2)]
    /\ UNCHANGED <<scan, masks, drawn>>

TurnOver == pc = "sample" /\ sample = samples /\ pc' = "draw"
            /\ UNCHANGED <<args, turn, sample, input, output, counts, masks, sums, status, drawn>>

Report(bit) == [bias |-> Bias(counts[bit]), input |-> input, output |-> bit,
                count |-> counts[bit]]

LinearTurn ==
    /\ command = "linear" /\ TurnOver
    /\ best' = IF Bias(counts[output]) > best.bias THEN Report(output) ELSE best

\* The output bits in order.  Counts as far below half as above it may round to
\* quotients of which either is the greater.
DifferentialTurn ==
    /\ command = "differential" /\ TurnOver
    /\ LET top   == CHOOSE b \in {Bias(counts[i]) : i \in Index} :
                       \A i \in Index : Bias(counts[i]) <= b
           first(c) == Least({i \in Index : counts[i] = c})
           tops  == {Report(first(c)) : c \in {counts[i] : i \in {j \in Index : Bias(counts[j]) = top}}}
       IN  \/ top > best.bias /\ best' \in tops
           \/ top <= best.bias /\ best' = best
           \/ top = best.bias /\ top > 0 /\ best' \in {t \in tops : t.count # best.count}

MeasureTurn ==
    /\ command = "all" /\ TurnOver
    /\ UNCHANGED best

ScanNext ==
    \/ Main \/ Draw \/ DrawMasks \/ End
    \/ LinearSample \/ DifferentialSample \/ MeasureSample
    \/ LinearTurn \/ DifferentialTurn \/ MeasureTurn

-----------------------------------------------------------------------------
(* Properties.                                                             *)

Place(i) == CHOOSE p \in Voice \X Lane \X Bit : (p[1] * Lanes + p[2]) * Width + p[3] = i
Has(s, i) == LET p == Place(i) IN p[3] \in s[p[1]][p[2]]
With(s, i) == [v \in Voice |-> [l \in Lane |->
                 {k \in Bit : (k \in s[v][l]) # (Place(i) = <<v, l, k>>)}]]

\* How often in a turn's states the event the scan counts came about.
Events(turnDrawn, o) ==
    Cardinality({k \in DOMAIN turnDrawn.states :
        LET s == turnDrawn.states[k]
            out == Permute(s, rounds)
        IN  IF command = "linear" THEN Has(s, turnDrawn.input) # Has(out, o)
            ELSE Has(out, o) # Has(Permute(With(s, turnDrawn.input), rounds), o)})

\* What a scan reports (frogbard_analyze.c:242, 295) is a pair of bits of one of its
\* turns, with the bias that turn's samples had, and no turn had a stronger one on any
\* output it looked at; bits are numbered alike where they are flipped, read and counted.
ReportTrue ==
    command \in {"linear", "differential"} /\ status = 0 =>
        LET claims == UNION {{[input |-> t.input, output |-> o, bias |-> Bias(Events(t, o))] :
                                o \in IF command = "linear" THEN {t.output} ELSE Index} :
                             t \in {drawn[k] : k \in DOMAIN drawn}}
        IN  /\ \A c \in claims : c.bias <= best.bias
            /\ best.bias > 0 =>
                  [input |-> best.input, output |-> best.output, bias |-> best.bias] \in claims

\* A permutation that commutes with rotations shows a rotational distance of zero
\* (frogbard_analyze.c:139): both sides are rotated alike, in every lane.
RotationSeen ==
    command = "all" /\ pc = "sample"
    /\ (\A s \in States, n \in 1 .. Width - 1 :
          \A v \in Voice, l \in Lane, k \in Bit :
             LET turned == [voice \in Voice |-> [lane \in Lane |->
                               {(b + n) % Width : b \in s[voice][lane]}]]
             IN  k \in Permute(s, rounds)[v][l]
                   <=> (k + n) % Width \in Permute(turned, rounds)[v][l])
        => sums.rotational = 0

\* A linear relation that always holds or never does is seen as such, over the parity of
\* all masked bits (frogbard_analyze.c:141).
RelationSeen ==
    command = "all" /\ pc = "sample" =>
        LET odd(s, m) == Cardinality({i \in Index : Has(s, i) /\ Has(m, i)}) % 2
        IN  \A r \in {0, 1} :
              (\A s \in States : (odd(s, masks.input) + odd(Permute(s, rounds), masks.output)) % 2 = r)
                  => sums.ones = r * sample

\* A permutation never takes two states to one: every distance is at least one bit
\* and at most the state, and the average lies between the extremes.
DistancesFit ==
    command = "all" /\ sample > 0 =>
        /\ 1 <= sums.minimum /\ sums.minimum <= sums.maximum
        /\ sums.maximum <= Voices * Lanes * Width
        /\ sums.minimum * sample <= sums.avalanche /\ sums.avalanche <= sums.maximum * sample

\* What a round of --all measures (frogbard_analyze.c:86), together.
MeasuresTrue == RotationSeen /\ RelationSeen /\ DistancesFit
=============================================================================
