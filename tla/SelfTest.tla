------------------------------ MODULE SelfTest ------------------------------
(***************************************************************************)
(* The two test programs of the hash: frogbard_self_test from its known    *)
(* answers on (src/src/frogbard.c; its look at the tables is in the module *)
(* CroackBox), and src/tools/fuzz_frogbard.c.  The code under test is      *)
(* right or has one fault, so that the properties can say which faults the *)
(* tests see.                                                              *)
(***************************************************************************)
EXTENDS SpongeCtx

CONSTANTS
    Faults,        \* of the code under test, "none" among them
    MessageBytes,  \* 257, the longest message of the self-test
    FuzzSizes,     \* sizes of a fuzzer's inputs; bound of the standalone main's draws
    FuzzRuns,      \* bound: inputs of the standalone main, 10000
    FuzzModulus,   \* 257, of the harness's cut
    LongSizes,     \* those of which one input tells
    Lens, Pieces   \* bounds: lengths and pieces the properties look at

ASSUME TestAssumption ==
    /\ MessageBytes \in Nat /\ FuzzSizes \subseteq Nat /\ FuzzModulus \in Nat \ {0}
    /\ \E longest \in FuzzSizes \cup {MessageBytes} :
          \A n \in FuzzSizes \cup {MessageBytes} : n <= longest
    /\ 3 < WordRadix /\ \A n \in FuzzSizes \cup {MessageBytes} : n < WordRadix
    /\ SUBSET (0 .. 7) \subseteq Bytes

\* What the verdict of a pass rests on: no piece of the cuts is as long as a block, a
\* block no longer than the longest message; the lengths looked at are within the data.
ASSUME ReachAssumption ==
    /\ 31 < BlockBytes /\ BlockBytes <= MessageBytes
    /\ Lens \subseteq Nat /\ Pieces \subseteq Nat
    /\ \A first \in Lens, second \in Pieces :
          \E n \in FuzzSizes \cup {MessageBytes} : first + second <= n

ByteValue == [n \in 0 .. 255 |-> {b \in 0 .. 7 : (n \div 2 ^ b) % 2 = 1}]
Letter == [a |-> ByteValue[97], b |-> ByteValue[98], c |-> ByteValue[99]]
Abc == <<Letter.a, Letter.b, Letter.c>>

\* message; an input of the fuzzer, any bytes, is taken to be filled the same way.
Filled(len, step, first) ==
    SubSeq([i \in 1 .. len |-> ByteValue[((i - 1) * step + first) % 256]], 1, len)
TestData == LET longest == CHOOSE n \in FuzzSizes \cup {MessageBytes} :
                              \A m \in FuzzSizes \cup {MessageBytes} : m <= n
            IN  Filled(longest, 131, 17)
Prefix(len) == SubSeq(TestData, 1, len)

\* batch_messages[j].
BatchData == [j \in 0 .. 3 |-> Filled(MessageBytes, 17 + 2 * j, 31 * j)]

-----------------------------------------------------------------------------
(* The code under test.  A build has at most one fault.                    *)

Builds == [hash4 : {"portable", "avx2"}, fault : Faults]

\* frogbard_update: a faulty one forgets what the buffer holds, does not count what only
\* fills it, or takes whole blocks behind a filled buffer from the start of data.
Restarted(c, data) ==
    LET take  == Take(c, Len(data))
        whole == (Len(data) - take) \div BlockBytes
        plain == UpdateCtx(c, data)
        done  == Len(plain.v.blocks) - whole
        block(i) == [k \in 1 .. BlockBytes |-> data[(i - 1) * BlockBytes + k]]
    IN  [plain EXCEPT !.v.blocks = SubSeq(@, 1, done) \o [i \in 1 .. whole |-> block(i)]]

Update(build, c, data) ==
    CASE build.fault = "forgets"   -> UpdateCtx([c EXCEPT !.buffer_len = 0], data)
      [] build.fault = "restarts"  -> Restarted(c, data)
      [] build.fault = "uncounted" /\ Take(c, Len(data)) = Len(data) ->
           [UpdateCtx(c, data) EXCEPT !.total_lo = c.total_lo]
      [] OTHER -> UpdateCtx(c, data)

\* frogbard_final: a faulty one takes the whole buffer, or stores its pad bytes.
Final(build, c) ==
    LET last == CASE build.fault = "stale"    -> FinalBlockStale(c.buffer, c.buffer_len)
                  [] build.fault = "replaced" -> FinalBlockReplaced(c.buffer, c.buffer_len)
                  [] OTHER -> FinalBlock(c.buffer, c.buffer_len)
    IN  Digest(c.v.rounds, Append(c.v.blocks, last), c.total_lo, c.total_hi)

OneShot(build, data) == Final(build, Update(build, InitCtx(MaxRounds), data))

\* One digest of frogbard_hash4_equal.
Hash4Equal(build, data) ==
    CASE build.hash4 = "portable" -> OneShot(build, data)
      [] build.fault = "lane_no_pad" -> HashLaneNoPadBlock(data)
      [] OTHER -> HashLane(data)

\* Whether a state comes back from rounds forward and rounds back: a faulty inverse
\* has a wrong constant in its first or in its last round.
ComesBack(build, rounds) ==
    /\ build.fault # "inverse_first"
    /\ build.fault = "inverse_last" => rounds < MaxRounds

-----------------------------------------------------------------------------
VARIABLES
    program,       \* "self_test" or "fuzz"
    build,         \* the code it is linked with
    stage,         \* "known", "cuts", "inverse", "batch"; "fuzz"
    turn,          \* len or rounds of the loop; run of the standalone main
    size, off, fed,    \* the message being hashed in pieces, and its context
    result         \* Running, what the program returned, or Trap

stream == <<size, off, fed>>
testVars == <<program, build, stage, turn, stream, result>>

Running == -1
Trap == -2         \* __builtin_trap

TestInit ==
    /\ build \in Builds /\ turn = 0 /\ off = 0 /\ fed = InitCtx(MaxRounds)
    /\ \/ program = "self_test" /\ stage = "known" /\ size = 0
       \/ program = "fuzz" /\ stage = "fuzz" /\ size \in FuzzSizes /\ build.hash4 = "portable"
    /\ result = Running

Return(code) == result' = code /\ UNCHANGED <<program, build, stage, turn, stream>>

\* From one stage of the self-test to the next.
Enter(next, first) ==
    /\ stage' = next /\ turn' = first /\ size' = 0 /\ off' = 0 /\ fed' = InitCtx(MaxRounds)
    /\ UNCHANGED <<program, build, result>>

\* The empty message, "abc", and "abc" in three updates.
KnownAnswers ==
    /\ stage = "known"
    /\ LET one(c, byte) == Update(build, c, <<byte>>)
           abc == one(one(one(InitCtx(MaxRounds), Letter.a), Letter.b), Letter.c)
       IN  \/ OneShot(build, << >>) # MessageDigest(<< >>, MaxRounds) /\ Return(4)
           \/ /\ OneShot(build, << >>) = MessageDigest(<< >>, MaxRounds)
              /\ \/ OneShot(build, Abc) # MessageDigest(Abc, MaxRounds) /\ Return(5)
                 \/ /\ OneShot(build, Abc) = MessageDigest(Abc, MaxRounds)
                    /\ IF Final(build, abc) # OneShot(build, Abc)
                       THEN Return(6) ELSE Enter("cuts", 0)

\* Faulty: the whole message in one piece.
WholeCut(offset, len) == len

\* Faulty: pieces of a block at most.
FuzzCutOfBlock(offset, len) == 1 + ((offset * 17 + len) % BlockBytes)

SelfTestCut(offset, len) == ((offset * 7 + 1) % 31) + 1
FuzzCut(offset, len) == 1 + ((offset * 17 + len) % FuzzModulus)

Piece ==
    /\ stage \in {"cuts", "fuzz"} /\ off < size
    /\ LET cut  == IF program = "fuzz" THEN FuzzCut(off, size) ELSE SelfTestCut(off, size)
           take == IF cut > size - off THEN size - off ELSE cut
       IN  /\ fed' = Update(build, fed, SubSeq(TestData, off + 1, off + take))
           /\ off' = off + take
    /\ UNCHANGED <<program, build, stage, turn, size, result>>

Agrees == Final(build, fed) = OneShot(build, Prefix(size))

Begin(len) == size' = len /\ off' = 0 /\ fed' = InitCtx(MaxRounds)

Compare ==
    /\ stage = "cuts" /\ off = size
    /\ \/ ~Agrees /\ Return(7)
       \/ /\ Agrees /\ size < MessageBytes
          /\ Begin(size + 1)
          /\ UNCHANGED <<program, build, stage, turn, result>>
       \/ Agrees /\ size = MessageBytes /\ Enter("inverse", 1)

FuzzCompare ==
    /\ stage = "fuzz" /\ off = size
    /\ \/ ~Agrees /\ Return(Trap)
       \/ /\ Agrees /\ turn + 1 < FuzzRuns
          /\ turn' = turn + 1
          /\ \E len \in FuzzSizes : Begin(len)
          /\ UNCHANGED <<program, build, stage, result>>
       \/ Agrees /\ turn + 1 = FuzzRuns /\ Return(0)

\* One number of rounds, eight samples: each shows a wrong inverse.
InverseTurn ==
    /\ stage = "inverse"
    /\ \/ ~ComesBack(build, turn) /\ Return(8)
       \/ /\ ComesBack(build, turn) /\ turn < MaxRounds
          /\ turn' = turn + 1
          /\ UNCHANGED <<program, build, stage, stream, result>>
       \/ ComesBack(build, turn) /\ turn = MaxRounds /\ Enter("batch", 0)

\* Four messages of one length; after the last length the function returns 0.
BatchTurn ==
    /\ stage = "batch"
    /\ LET alike == \A j \in 0 .. 3 :
              LET data == SubSeq(BatchData[j], 1, turn)
              IN  OneShot(build, data) = Hash4Equal(build, data)
       IN  \/ ~alike /\ Return(9)
           \/ /\ alike /\ turn < MessageBytes
              /\ turn' = turn + 1
              /\ UNCHANGED <<program, build, stage, stream, result>>
           \/ alike /\ turn = MessageBytes /\ Return(0)

TestNext ==
    /\ result = Running
    /\ KnownAnswers \/ Piece \/ Compare \/ FuzzCompare \/ InverseTurn \/ BatchTurn

TestSpec == TestInit /\ [][TestNext]_testVars

-----------------------------------------------------------------------------
(* Properties.                                                             *)

Passed == program = "self_test" /\ result = 0

\* A message fed in two pieces, the second of a length of seconds.
CutsAgree(seconds) ==
    \A first \in Lens, second \in seconds :
        LET data == Prefix(first + second)
            one  == Update(build, InitCtx(MaxRounds), Prefix(first))
            two  == Update(build, one, SubSeq(data, first + 1, first + second))
        IN  Final(build, two) = OneShot(build, data)

\* Neither program complains of the code as it is (frogbard.c:535, fuzz_frogbard.c:28),
\* whichever four-way hash is linked.
RightPasses == build.fault = "none" => result \in {Running, 0}

\* A self-test that passes vouches for every piece of at most 31 bytes behind any other,
\* not only for its own cuts (frogbard.c:608): they reach every part of the buffer.
PassMeansShortPieces == Passed => CutsAgree({n \in Pieces : n <= 31})

\* With the AVX2 four-way hash linked, it also vouches for the digests themselves at
\* every length it tries, of which it holds only two known ones (frogbard.c:652): the
\* two sponges pad on their own.
PassMeansDigests ==
    Passed /\ build.hash4 = "avx2" =>
        \A len \in Lens : len <= MessageBytes =>
            LET data == Prefix(len)
            IN  /\ OneShot(build, data) = MessageDigest(data, MaxRounds)
                /\ Hash4Equal(build, data) = MessageDigest(data, MaxRounds)

\* And for the inverse at every number of rounds (frogbard.c:622).
PassMeansInverse == Passed => \A r \in 1 .. MaxRounds : ComesBack(build, r)

\* What a pass of the self-test vouches for (frogbard.c:535), together.
PassVouches == PassMeansShortPieces /\ PassMeansDigests /\ PassMeansInverse

\* The self-test's pieces are too short to hold a whole block behind a part that fills
\* the buffer.  That the fuzzer sees (fuzz_frogbard.c:19): one long input that does not
\* trap vouches for every piece longer than a block.
LongInputTells ==
    program = "fuzz" /\ result = 0 /\ size \in LongSizes =>
        CutsAgree({n \in Pieces : n > BlockBytes})
=============================================================================
