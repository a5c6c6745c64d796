---------------------------- MODULE SpongeProofs ----------------------------
(***************************************************************************)
(* Sponge for every size of a block, every width of the counter, every     *)
(* message and every way to cut it: the context holds the message, counts  *)
(* it, and closing it gives the digest the specification defines; and      *)
(* HashCalls, whose three ways to hash a whole message give it too; and    *)
(* SelfTest, whose two programs do not complain of code that is right, and *)
(* whose pass excludes what its properties say it does; and                *)
(* Hash4, where a message that no earlier digest overlaps is read as it    *)
(* was when frogbard_hash4_equal was called.                               *)
(***************************************************************************)
EXTENDS Sponge, HashCalls, SelfTest, Hash4, SpongeCtxProofs

IInv ==
    /\ open \in BOOLEAN /\ message \in Seq(Bytes) /\ ctx \in Context
    /\ open => ctx.v.rounds = MaxRounds /\ Holds(ctx, message) /\ Counts(ctx, message)

LEMMA Invariant == Spec => []IInv
<1>1. Init => IInv
  <2> SUFFICES ASSUME Init PROVE IInv
    OBVIOUS
  <2>1. open = FALSE /\ message = << >> /\ ctx = Wiped
    BY DEF Init, StreamInit
  <2>2. ctx \in Context /\ message \in Seq(Bytes)
    BY <2>1, WipedContext
  <2> QED
    BY <2>1, <2>2, Zenon DEF IInv
<1>2. IInv /\ [Next]_vars => IInv'
  <2> SUFFICES ASSUME IInv, [Next]_vars PROVE IInv'
    OBVIOUS
  <2>1. CASE FrogbardInit
    BY <2>1, WipedContext DEF FrogbardInit, IInv
  <2>2. CASE FrogbardUpdate
    <3>1. PICK d \in Data : ctx' = UpdateCtx(ctx, d) /\ message' = message \o d
      BY <2>2 DEF FrogbardUpdate
    <3>2. d \in Seq(Bytes) /\ Len(d) < WordRadix
      BY SpongeAssumption, BlockAssumption DEF Data
    <3>3. /\ message \in Seq(Bytes) /\ ctx \in Context /\ open /\ open' = open
          /\ ctx.v.rounds = MaxRounds /\ Holds(ctx, message) /\ Counts(ctx, message)
      BY <2>2 DEF FrogbardUpdate, IInv
    <3>4. /\ ctx' \in Context /\ ctx'.v.rounds = MaxRounds
          /\ Holds(ctx', message') /\ Counts(ctx', message')
      BY <3>1, <3>2, <3>3, Updated
    <3>5. message' \in Seq(Bytes)
      BY <3>1, <3>2, <3>3
    <3> QED
      BY <3>3, <3>4, <3>5 DEF IInv
  <2>3. CASE FrogbardFinal
    BY <2>3, WipedContext DEF FrogbardFinal, IInv
  <2>4. CASE UNCHANGED vars
    BY <2>4 DEF vars, streamVars, IInv
  <2> QED
    BY <2>1, <2>2, <2>3, <2>4 DEF Next
<1> QED
  BY <1>1, <1>2, PTL DEF Spec

\* The buffer is never full between calls and the two words stay in range.
THEOREM ContextTyped == Spec => []TypeOK
<1>1. IInv => TypeOK
  <2> SUFFICES ASSUME IInv PROVE TypeOK
    OBVIOUS
  <2> QED
    BY DEF IInv, TypeOK, Context, Block
<1> QED
  BY <1>1, Invariant, PTL

\* The two words hold the number of bytes fed, whatever their width.
THEOREM CountHeld == Spec => []LengthAccounting
<1>1. IInv => LengthAccounting
  BY DEF IInv, LengthAccounting, Counts
<1> QED
  BY <1>1, Invariant, PTL

\* However a message is cut, the context holds each of its bytes once, in its place.
THEOREM MessageHeld == Spec => []ContextHoldsMessage
<1>1. IInv => ContextHoldsMessage
  BY DEF IInv, ContextHoldsMessage, Holds
<1> QED
  BY <1>1, Invariant, PTL

\* The streaming calls implement the one-shot hash: closing a context gives the digest the
\* specification defines for the whole message.
THEOREM StreamRefined == Spec => ImplementsStream
<1>1. Init => StreamInit
  BY DEF Init
<1>2. IInv /\ [Next]_vars => [StreamNext]_streamVars
  <2> SUFFICES ASSUME IInv, [Next]_vars PROVE [StreamNext]_streamVars
    OBVIOUS
  <2>1. CASE FrogbardInit
    BY <2>1 DEF FrogbardInit, StreamNext, OpenStream
  <2>2. CASE FrogbardUpdate
    <3>1. PICK d \in Data : message' = message \o d
      BY <2>2 DEF FrogbardUpdate
    <3>2. d \in Seq(Bytes) /\ message \in Seq(Bytes)
      BY SpongeAssumption DEF Data, IInv
    <3>3. /\ message' \in Seq(Bytes) /\ Len(message') >= Len(message)
          /\ SubSeq(message', 1, Len(message)) = message
      BY <3>1, <3>2
    <3> QED
      BY <2>2, <3>3 DEF FrogbardUpdate, StreamNext, Feed
  <2>3. CASE FrogbardFinal
    <3>1. /\ ctx \in Context /\ message \in Seq(Bytes) /\ ctx.v.rounds = MaxRounds
          /\ Holds(ctx, message) /\ Counts(ctx, message)
      BY <2>3 DEF FrogbardFinal, IInv
    <3>2. FinalDigest(ctx) = MessageDigest(message, MaxRounds)
      BY <3>1, Finished
    <3> QED
      BY <2>3, <3>2 DEF FrogbardFinal, StreamNext, Close
  <2>4. CASE UNCHANGED vars
    BY <2>4 DEF vars
  <2> QED
    BY <2>1, <2>2, <2>3, <2>4 DEF Next
<1> QED
  BY <1>1, <1>2, Invariant, PTL DEF Spec, ImplementsStream, StreamSpec

-----------------------------------------------------------------------------
(* The calls that hash a whole message.                                    *)

LEMMA MessagesTyped ==
    ASSUME NEW m \in Messages
    PROVE  m \in Seq(Bytes) /\ Len(m) < WordRadix
BY CallsAssumption, BlockAssumption DEF Messages

\* The lane's tail and counter are those of a context that was fed the message.
LEMMA LaneHolds ==
    ASSUME NEW m \in Seq(Bytes), Len(m) < WordRadix
    PROVE  HashLane(m) = MessageDigest(m, MaxRounds)
<1>1. PICK B \in Nat \ {0} : B = BlockBytes
  BY Positive
<1>2. PICK n \in Nat : n = Len(m)
  OBVIOUS
<1>3. PICK w \in Nat, r \in 0 .. B - 1 : w = n \div B /\ r = n % B /\ w * B + r = n
  BY <1>1, DivMod
<1> DEFINE rest == SubSeq(m, w * B + 1, n)
           tail == CopyTo(ZeroBlock, 0, rest)
           block(i) == [k \in 1 .. B |-> m[(i - 1) * B + k]]
           blocks == [i \in 1 .. w |-> block(i)]
           c == [v |-> [rounds |-> MaxRounds, blocks |-> blocks], buffer |-> tail,
                 buffer_len |-> r, total_lo |-> n, total_hi |-> 0]
<1>4. rest \in Seq(Bytes) /\ Len(rest) = r /\ \A k \in 1 .. r : rest[k] = m[w * B + k]
  <2>1. PICK x \in Nat : x = w * B
    OBVIOUS
  <2>2. x + r = n /\ r \in Nat
    BY <1>3, <2>1
  <2>3. \A k \in x + 1 .. n : k \in 1 .. Len(m)
    BY <1>2, <2>1
  <2>4. PICK t : t = SubSeq(m, x + 1, n)
    OBVIOUS
  <2>5. /\ t \in Seq(Bytes) /\ Len(t) = n - x
        /\ \A k \in 1 .. n - x : t[k] = m[x + k]
    <3>1. n - x \in Nat /\ Len(t) = n - x
      BY <1>2, <2>2, <2>3, <2>4
    <3>2. ASSUME NEW k \in 1 .. n - x PROVE t[k] = m[x + k] /\ m[x + k] \in Bytes
      <4>1. x + k \in 1 .. Len(m) /\ (x + 1) + k - 1 = x + k
        BY <1>2, <2>2, <3>1
      <4> QED
        BY SMTT(30), <1>2, <2>2, <2>4, <4>1
    <3>3. t \in Seq(Bytes)
      BY SMTT(30), <1>2, <2>2, <2>3, <2>4
    <3> QED
      BY <3>1, <3>2, <3>3
  <2>6. n - x = r
    BY <2>2
  <2>7. rest = t
    BY <2>1, <2>4
  <2> HIDE DEF rest
  <2> QED
    BY <2>1, <2>5, <2>6, <2>7, Zenon
<1>5. tail \in Block /\ \A k \in 1 .. r : tail[k] = m[w * B + k]
  <2>1. ZeroBlock \in Block
    BY DEF ZeroBlock, Block, AnyByte
  <2> HIDE DEF rest
  <2>2. /\ tail \in Block
        /\ \A k \in 1 .. BlockBytes :
              tail[k] = IF k \in 0 + 1 .. 0 + Len(rest) THEN rest[k - 0] ELSE ZeroBlock[k]
    BY ZenonT(30), <1>4, <2>1, 0 \in Nat, Copied
  <2> HIDE DEF tail
  <2>3. ASSUME NEW k \in 1 .. r PROVE tail[k] = m[w * B + k]
    <3>0. k \in Nat /\ 1 <= k /\ k <= r /\ r <= B - 1 /\ B \in Nat
      BY <1>1, <1>3
    <3>1. k \in 1 .. BlockBytes /\ k \in 0 + 1 .. 0 + Len(rest) /\ k - 0 = k
      <4>1. Len(rest) = r /\ r \in Nat
        BY <1>3, <1>4
      <4> QED
        BY <1>1, <3>0, <4>1
    <3> QED
      BY <1>4, <2>2, <3>1
  <2> QED
    BY <2>2, <2>3
<1>6. \A i \in 1 .. w : \A k \in 1 .. B : (i - 1) * B + k \in 1 .. n
  <2> SUFFICES ASSUME NEW i \in 1 .. w, NEW k \in 1 .. B PROVE (i - 1) * B + k \in 1 .. n
    OBVIOUS
  <2>1. 0 + w * B <= n
    <3>1. PICK x \in Nat : x = w * B
      OBVIOUS
    <3> QED
      BY <1>3, <3>1
  <2>2. 0 + (i - 1) * B + k \in 1 .. n
    BY <2>1, Reaches
  <2>3. PICK y \in Nat : y = (i - 1) * B
    OBVIOUS
  <2> QED
    BY <2>2, <2>3
<1>7. blocks \in Seq(Block) /\ Len(blocks) = w
      /\ \A i \in 1 .. w : \A k \in 1 .. B : blocks[i][k] = m[(i - 1) * B + k]
  <2>1. ASSUME NEW i \in 1 .. w
        PROVE  block(i) \in Block /\ \A k \in 1 .. B : block(i)[k] = m[(i - 1) * B + k]
    <3>1. ASSUME NEW k \in 1 .. B PROVE m[(i - 1) * B + k] \in AnyByte
      <4>1. PICK p \in 1 .. n : p = (i - 1) * B + k
        BY <1>6
      <4> QED
        BY <1>2, <4>1 DEF AnyByte
    <3> QED
      BY <1>1, <3>1 DEF Block
  <2> HIDE DEF block
  <2> QED
    BY <2>1
<1> HIDE DEF rest, tail, blocks, block
<1>8. c \in Context
  BY <1>1, <1>2, <1>5, <1>7, BlockAssumption DEF Context
<1>9. Holds(c, m)
  <2>1. /\ Len(c.v.blocks) = w /\ c.buffer_len = r
        /\ c.v.blocks = blocks /\ c.buffer = tail
    BY <1>7
  <2> HIDE DEF c
  <2> QED
    BY <1>1, <1>2, <1>3, <1>5, <1>7, <2>1 DEF Holds
<1>10. Counts(c, m)
  <2>1. PICK R \in Nat \ {0} : R = WordRadix
    BY Positive
  <2>2. n < R * R
    BY <1>2, <2>1
  <2>3. PICK s \in Nat \ {0} : s = R * R
    OBVIOUS
  <2> QED
    BY <1>2, <2>1, <2>2, <2>3 DEF Counts
<1>11. FinalDigest(c) = MessageDigest(m, MaxRounds)
  <2> HIDE DEF c
  <2>1. FinalDigest(c) = MessageDigest(m, c.v.rounds)
    BY <1>8, <1>9, <1>10, Finished
  <2> QED
    BY <2>1 DEF c
<1>12. FinalDigest(c) = Digest(MaxRounds, Append(blocks, FinalBlock(tail, r)), n, 0)
  BY DEF FinalDigest
<1> QED
  BY <1>1, <1>2, <1>3, <1>11, <1>12 DEF HashLane, blocks, block, tail, rest

\* What a call answered with is the digest of a message.
CallsInv == answer # NoDigest =>
    \E m \in Messages, r \in Nat, n \in 1 .. MaxRounds :
        Nearest(n, r) /\ answer = Answer(m, r, MessageDigest(m, n))

\* The two tests of frogbard_hash_reduced find the nearest number of rounds there is.
LEMMA ClampNearest ==
    ASSUME NEW r \in Nat
    PROVE  Clamp(r) \in 1 .. MaxRounds /\ Nearest(Clamp(r), r)
  BY BlockAssumption DEF Clamp, Nearest, Distance

LEMMA FullNearest == MaxRounds \in Nat /\ MaxRounds \in 1 .. MaxRounds /\ Nearest(MaxRounds, MaxRounds)
  BY BlockAssumption DEF Nearest, Distance

LEMMA CallsInvariant == CallsSpec => []CallsInv
<1>1. CallsInit => CallsInv
  BY DEF CallsInit, CallsInv
<1>2. CallsInv /\ [CallsNext]_answer => CallsInv'
  <2> SUFFICES ASSUME CallsInv, [CallsNext]_answer PROVE CallsInv'
    OBVIOUS
  <2>1. CASE FrogbardHash
    <3>1. PICK m \in Messages : answer' = Answer(m, MaxRounds, HashOneShot(m))
      BY <2>1 DEF FrogbardHash
    <3>2. MaxRounds \in Nat /\ MaxRounds \in 1 .. MaxRounds /\ Nearest(MaxRounds, MaxRounds)
      BY FullNearest
    <3>3. HashOneShot(m) = MessageDigest(m, MaxRounds)
      BY <3>2, MessagesTyped, OneCall DEF HashOneShot
    <3> QED
      BY <3>1, <3>2, <3>3 DEF CallsInv
  <2>2. CASE FrogbardHashReduced
    <3>1. PICK m \in Messages, a \in RoundArgs : answer' = Answer(m, a, HashReduced(m, a))
      BY <2>2 DEF FrogbardHashReduced
    <3>2. a \in Nat /\ Clamp(a) \in 1 .. MaxRounds /\ Nearest(Clamp(a), a)
      BY CallsAssumption, ClampNearest
    <3>3. Clamp(a) \in Nat
      BY <3>2
    <3>4. HashReduced(m, a) = MessageDigest(m, Clamp(a))
      BY <3>3, MessagesTyped, OneCall DEF HashReduced
    <3>5. (\E k \in Messages, r \in Nat, n \in 1 .. MaxRounds :
              Nearest(n, r) /\ answer = Answer(k, r, MessageDigest(k, n)))'
      BY <3>1, <3>2, <3>4 DEF Nearest
    <3> QED
      BY <3>5 DEF CallsInv
  <2>3. CASE FrogbardHash4Lane
    <3>1. PICK m \in Messages : answer' = Answer(m, MaxRounds, HashLane(m))
      BY <2>3 DEF FrogbardHash4Lane
    <3>2. MaxRounds \in Nat /\ MaxRounds \in 1 .. MaxRounds /\ Nearest(MaxRounds, MaxRounds)
      BY FullNearest
    <3>3. HashLane(m) = MessageDigest(m, MaxRounds)
      BY MessagesTyped, LaneHolds
    <3> QED
      BY <3>1, <3>2, <3>3 DEF CallsInv
  <2>4. CASE UNCHANGED answer
    BY <2>4 DEF CallsInv
  <2> QED
    BY <2>1, <2>2, <2>3, <2>4 DEF CallsNext
<1> QED
  BY <1>1, <1>2, PTL DEF CallsSpec

\* The one-shot, the reduced-round and the four-way code pad and count as the reference
\* does, at every length.
THEOREM CallsAnswerDigests == CallsSpec => []AnswersAreDigests
<1>1. CallsInv => AnswersAreDigests
  BY DEF CallsInv, AnswersAreDigests, Answer
<1> QED
  BY <1>1, CallsInvariant, PTL

\* The blocks a call absorbed tell its message from every other.
THEOREM CallsTellApart == CallsSpec => []PaddingTellsApart
<1>1. CallsInv => PaddingTellsApart
  <2> SUFFICES ASSUME CallsInv, answer # NoDigest, NEW n \in Messages,
                      PaddedBlocks(n) = answer.digest.blocks
               PROVE  n = answer.message
    BY DEF PaddingTellsApart
  <2>1. PICK m \in Messages, r \in Nat, n1 \in 1 .. MaxRounds :
           answer = Answer(m, r, MessageDigest(m, n1))
    BY DEF CallsInv
  <2>2. answer.message = m /\ answer.digest.blocks = PaddedBlocks(m)
    BY <2>1 DEF Answer, MessageDigest, Digest
  <2>3. m \in Seq(Bytes) /\ n \in Seq(Bytes)
    BY MessagesTyped
  <2> QED
    BY <2>2, <2>3, PaddingInjective
<1> QED
  BY <1>1, CallsInvariant, PTL

-----------------------------------------------------------------------------
(* The two test programs on the code as it is.                             *)

LEMMA ByteValues == \A n \in 0 .. 255 : ByteValue[n] \in Bytes
<1>1. \A n \in 0 .. 255 : ByteValue[n] \in SUBSET (0 .. 7)
  BY DEF ByteValue
<1> QED
  BY <1>1, TestAssumption

LEMMA FilledTyped ==
    ASSUME NEW n \in Nat, NEW step \in Nat, NEW first \in Nat
    PROVE  Filled(n, step, first) \in Seq(Bytes) /\ Len(Filled(n, step, first)) = n
<1> DEFINE f == [i \in 1 .. n |-> ByteValue[((i - 1) * step + first) % 256]]
<1>1. f \in Seq(Bytes) /\ Len(f) = n
  <2>1. ASSUME NEW i \in 1 .. n PROVE ByteValue[((i - 1) * step + first) % 256] \in Bytes
    <3>1. (i - 1) * step + first \in Nat
      OBVIOUS
    <3>2. ((i - 1) * step + first) % 256 \in 0 .. 255
      BY <3>1
    <3> QED
      BY <3>2, ByteValues
  <2> QED
    BY <2>1
<1> HIDE DEF f
<1> QED
  BY <1>1 DEF Filled, f

\* The longest message a program makes.
Longest == CHOOSE n \in FuzzSizes \cup {MessageBytes} :
              \A m \in FuzzSizes \cup {MessageBytes} : m <= n

LEMMA TestDataTyped ==
    /\ TestData \in Seq(Bytes) /\ Len(TestData) = Longest /\ Longest \in Nat
    /\ Longest < WordRadix /\ \A n \in FuzzSizes \cup {MessageBytes} : n <= Longest
<1>1. /\ Longest \in FuzzSizes \cup {MessageBytes}
      /\ \A n \in FuzzSizes \cup {MessageBytes} : n <= Longest
  BY TestAssumption DEF Longest
<1>2. Longest \in Nat /\ Longest < WordRadix
  BY <1>1, TestAssumption
<1>3. TestData = Filled(Longest, 131, 17)
  BY DEF TestData, Longest
<1> QED
  BY <1>1, <1>2, <1>3, FilledTyped

LEMMA PrefixTyped ==
    ASSUME NEW n \in 0 .. Longest
    PROVE  Prefix(n) \in Seq(Bytes) /\ Len(Prefix(n)) = n /\ n < WordRadix
BY TestDataTyped, BlockAssumption DEF Prefix

LEMMA PrefixGrows ==
    ASSUME NEW n \in 0 .. Longest, NEW take \in Nat, n + take <= Longest
    PROVE  LET piece == SubSeq(TestData, n + 1, n + take)
           IN  /\ piece \in Seq(Bytes) /\ Len(piece) < WordRadix
               /\ Prefix(n) \o piece = Prefix(n + take)
<1> DEFINE piece == SubSeq(TestData, n + 1, n + take)
<1>1. piece \in Seq(Bytes) /\ Len(piece) = take /\ \A k \in 1 .. take : piece[k] = TestData[n + k]
  BY TestDataTyped
<1>2. /\ Prefix(n) \in Seq(Bytes) /\ Len(Prefix(n)) = n
      /\ \A k \in 1 .. n : Prefix(n)[k] = TestData[k]
  BY TestDataTyped DEF Prefix
<1>3. /\ Prefix(n + take) \in Seq(Bytes) /\ Len(Prefix(n + take)) = n + take
      /\ \A k \in 1 .. n + take : Prefix(n + take)[k] = TestData[k]
  BY TestDataTyped DEF Prefix
<1> HIDE DEF piece
<1>4. Prefix(n) \o piece = Prefix(n + take)
  <2>1. /\ Prefix(n) \o piece \in Seq(Bytes) /\ Len(Prefix(n) \o piece) = n + take
        /\ \A k \in 1 .. n + take : (Prefix(n) \o piece)[k] = TestData[k]
    <3>1. ASSUME NEW k \in 1 .. n + take PROVE (Prefix(n) \o piece)[k] = TestData[k]
      <4>1. CASE k <= n
        <5>1. (Prefix(n) \o piece)[k] = Prefix(n)[k]
          BY <1>1, <1>2, <4>1, Kept
        <5> QED
          BY <1>2, <4>1, <5>1
      <4>2. CASE k > n
        <5>1. PICK p \in 1 .. take : k = n + p
          BY <4>2
        <5>2. (Prefix(n) \o piece)[n + p] = piece[p]
          BY <1>1, <1>2, Grown
        <5> QED
          BY <1>1, <5>1, <5>2
      <4>3. k <= n \/ k > n
        BY TestDataTyped
      <4> QED
        BY ONLY <4>1, <4>2, <4>3
    <3>2. Prefix(n) \o piece \in Seq(Bytes) /\ Len(Prefix(n) \o piece) = n + take
      BY <1>1, <1>2, Joined
    <3> QED
      BY <3>1, <3>2
  <2> QED
    <3> DEFINE q == Prefix(n) \o piece
               g == Prefix(n + take)
    <3> HIDE DEF q, g
    <3>1. q \in Seq(Bytes) /\ Len(q) = n + take /\ \A k \in 1 .. n + take : q[k] = TestData[k]
      BY <2>1 DEF q
    <3>2. g \in Seq(Bytes) /\ Len(g) = n + take /\ \A k \in 1 .. n + take : g[k] = TestData[k]
      BY <1>3 DEF g
    <3>3. q = g
      BY <3>1, <3>2
    <3> QED
      BY <3>3 DEF q, g
<1>5. take < WordRadix
  BY TestDataTyped, BlockAssumption
<1> QED
  BY <1>1, <1>4, <1>5 DEF piece

LEMMA RightCode ==
    ASSUME NEW b, b.fault = "none", NEW c, NEW d
    PROVE  Update(b, c, d) = UpdateCtx(c, d) /\ Final(b, c) = FinalDigest(c)
BY DEF Update, Final, FinalDigest

LEMMA RightDigest ==
    ASSUME NEW b, b.fault = "none", NEW d \in Seq(Bytes), Len(d) < WordRadix
    PROVE  /\ OneShot(b, d) = MessageDigest(d, MaxRounds)
           /\ Hash4Equal(b, d) = MessageDigest(d, MaxRounds)
<1>0. MaxRounds \in Nat
  BY BlockAssumption
<1>1. OneShot(b, d) = MessageDigest(d, MaxRounds)
  BY ZenonT(30), RightCode, OneCall, <1>0 DEF OneShot
<1>2. HashLane(d) = MessageDigest(d, MaxRounds)
  BY LaneHolds
<1> QED
  BY <1>1, <1>2 DEF Hash4Equal

\* With right code the context holds what has been fed of the message, and nothing has
\* been complained of.
TestInv ==
    build.fault = "none" =>
        /\ result \in {Running, 0}
        /\ turn \in Nat /\ (stage = "batch" => turn <= MessageBytes)
        /\ size \in 0 .. Longest /\ (stage = "cuts" => size <= MessageBytes)
        /\ off \in 0 .. size
        /\ fed \in Context /\ fed.v.rounds = MaxRounds
        /\ Holds(fed, Prefix(off)) /\ Counts(fed, Prefix(off))

LEMMA Empty == Prefix(0) = << >> /\ 0 \in 0 .. Longest
BY TestDataTyped DEF Prefix

LEMMA Entered ==
    ASSUME TestInv, NEW following, NEW first, Enter(following, first), first \in Nat,
           following = "batch" => first <= MessageBytes
    PROVE  TestInv'
<1> SUFFICES ASSUME build.fault = "none" PROVE TestInv'
  BY DEF TestInv, Enter
<1>1. /\ stage' = following /\ turn' = first /\ size' = 0 /\ off' = 0 /\ fed' = InitCtx(MaxRounds)
      /\ result' = result
  BY DEF Enter
<1>2. Prefix(off)' = << >>
  BY <1>1, Empty DEF Prefix
<1>3. MessageBytes \in Nat /\ 0 <= MessageBytes /\ 0 \in 0 .. 0
  BY TestAssumption
<1> QED
  BY <1>1, <1>2, <1>3, Empty, WipedContext DEF TestInv

LEMMA PieceFed ==
    ASSUME TestInv, Piece
    PROVE  TestInv'
<1>0. UNCHANGED <<program, build, stage, turn, size, result>>
  BY DEF Piece
<1> SUFFICES ASSUME build.fault = "none" PROVE TestInv'
  BY <1>0 DEF TestInv
<1> DEFINE cut == IF program = "fuzz" THEN FuzzCut(off, size) ELSE SelfTestCut(off, size)
           take == IF cut > size - off THEN size - off ELSE cut
           piece == SubSeq(TestData, off + 1, off + take)
<1>1. /\ off < size /\ off' = off + take /\ fed' = Update(build, fed, piece)
      /\ UNCHANGED <<program, build, stage, turn, size, result>>
  BY DEF Piece
<1>2. size \in 0 .. Longest /\ off \in 0 .. size /\ Longest \in Nat
  BY TestDataTyped DEF TestInv
<1>3. cut \in Nat
  <2>1. FuzzCut(off, size) \in Nat
    <3>1. off * 17 + size \in Nat
      BY <1>2
    <3>2. (off * 17 + size) % FuzzModulus \in Nat
      BY <3>1, TestAssumption
    <3> QED
      BY <3>2 DEF FuzzCut
  <2>2. SelfTestCut(off, size) \in Nat
    BY <1>2 DEF SelfTestCut
  <2> QED
    BY <2>1, <2>2
<1> HIDE DEF cut
<1>4. take \in Nat /\ off + take <= size
  BY <1>1, <1>2, <1>3
<1> HIDE DEF take
<1>5. /\ piece \in Seq(Bytes) /\ Len(piece) < WordRadix
      /\ Prefix(off) \o piece = Prefix(off + take)
  <2>1. off \in 0 .. Longest /\ off + take <= Longest
    BY <1>2, <1>4
  <2> QED
    BY <1>4, <2>1, PrefixGrows
<1> HIDE DEF piece
<1>6. Prefix(off) \in Seq(Bytes)
  BY <1>2, PrefixTyped
<1>7. /\ fed \in Context /\ fed.v.rounds = MaxRounds
      /\ Holds(fed, Prefix(off)) /\ Counts(fed, Prefix(off))
  BY DEF TestInv
<1>8. fed' = UpdateCtx(fed, piece)
  BY <1>1, RightCode
<1>9. /\ fed' \in Context /\ fed'.v.rounds = MaxRounds
      /\ Holds(fed', Prefix(off + take)) /\ Counts(fed', Prefix(off + take))
  BY <1>5, <1>6, <1>7, <1>8, Updated
<1>10. Prefix(off)' = Prefix(off + take)
  BY <1>1 DEF Prefix
<1>11. off' \in 0 .. size'
  BY <1>1, <1>2, <1>4
<1>12. /\ result \in {Running, 0}
       /\ turn \in Nat /\ (stage = "batch" => turn <= MessageBytes)
       /\ size \in 0 .. Longest /\ (stage = "cuts" => size <= MessageBytes)
  BY DEF TestInv
<1>13. /\ fed' \in Context /\ fed'.v.rounds = MaxRounds
       /\ Holds(fed', Prefix(off)') /\ Counts(fed', Prefix(off)')
  BY <1>9, <1>10
<1> QED
  BY <1>0, <1>11, <1>12, <1>13 DEF TestInv

\* The message fed in pieces and the message hashed at once have one digest.
LEMMA PiecesAgree ==
    ASSUME TestInv, build.fault = "none", off = size
    PROVE  Agrees
<1>1. /\ size \in 0 .. Longest /\ fed \in Context /\ fed.v.rounds = MaxRounds
      /\ Holds(fed, Prefix(size)) /\ Counts(fed, Prefix(size))
  BY DEF TestInv
<1>2. Prefix(size) \in Seq(Bytes) /\ Len(Prefix(size)) < WordRadix
  BY <1>1, PrefixTyped
<1>3. FinalDigest(fed) = MessageDigest(Prefix(size), MaxRounds)
  BY <1>1, <1>2, Finished
<1> QED
  BY <1>2, <1>3, RightCode, RightDigest DEF Agrees

LEMMA Begun ==
    ASSUME TestInv, NEW amount, Begin(amount), amount \in 0 .. Longest,
           UNCHANGED <<program, build, stage, result>>, turn' \in Nat,
           stage # "batch", stage = "cuts" => amount <= MessageBytes
    PROVE  TestInv'
<1> SUFFICES ASSUME build.fault = "none" PROVE TestInv'
  BY DEF TestInv
<1>1. size' = amount /\ off' = 0 /\ fed' = InitCtx(MaxRounds)
  BY DEF Begin
<1>2. Prefix(off)' = << >>
  BY <1>1, Empty DEF Prefix
<1>3. 0 \in 0 .. amount
  BY TestDataTyped
<1> QED
  BY <1>1, <1>2, <1>3, WipedContext DEF TestInv

\* A return that is not a complaint.
LEMMA ReturnedWell ==
    ASSUME TestInv, Return(0)
    PROVE  TestInv'
<1>1. UNCHANGED <<program, build, stage, turn, size, off, fed>> /\ result' = 0
  BY DEF Return, stream
<1>2. Prefix(off)' = Prefix(off)
  BY <1>1 DEF Prefix
<1> QED
  BY <1>1, <1>2 DEF TestInv

LEMMA Pushed ==
    ASSUME NEW a \in Bytes, NEW b \in Bytes, NEW c \in Bytes
    PROVE  <<a>> \o <<b>> = <<a, b>> /\ <<a, b>> \o <<c>> = <<a, b, c>>
<1>1. /\ <<a>> \in Seq(Bytes) /\ <<b>> \in Seq(Bytes) /\ <<c>> \in Seq(Bytes)
      /\ <<a, b>> \in Seq(Bytes) /\ <<a, b, c>> \in Seq(Bytes)
  OBVIOUS
<1>2. <<a>> \o <<b>> = <<a, b>>
  <2> DEFINE q == <<a>> \o <<b>>
  <2>1. q \in Seq(Bytes) /\ Len(q) = 2
    BY <1>1, Joined
  <2>2. q[1] = a /\ q[2] = b
    <3>1. 1 \in 1 .. Len(<<a>>) /\ 1 \in 1 .. Len(<<b>>) /\ Len(<<a>>) + 1 = 2
      OBVIOUS
    <3>2. q[1] = <<a>>[1]
      BY <1>1, <3>1, Kept
    <3>3. q[Len(<<a>>) + 1] = <<b>>[1]
      BY <1>1, <3>1, Grown
    <3> QED
      BY <3>1, <3>2, <3>3
  <2> HIDE DEF q
  <2>3. q = <<a, b>>
    BY <2>1, <2>2
  <2> QED
    BY <2>3 DEF q
<1>3. <<a, b>> \o <<c>> = <<a, b, c>>
  <2> DEFINE q == <<a, b>> \o <<c>>
  <2>1. q \in Seq(Bytes) /\ Len(q) = 3
    BY <1>1, Joined
  <2>2. q[1] = a /\ q[2] = b /\ q[3] = c
    <3>1. /\ 1 \in 1 .. Len(<<a, b>>) /\ 2 \in 1 .. Len(<<a, b>>)
          /\ 1 \in 1 .. Len(<<c>>) /\ Len(<<a, b>>) + 1 = 3
      OBVIOUS
    <3>2. q[1] = <<a, b>>[1] /\ q[2] = <<a, b>>[2]
      BY <1>1, <3>1, Kept
    <3>3. q[Len(<<a, b>>) + 1] = <<c>>[1]
      BY <1>1, <3>1, Grown
    <3> QED
      BY <3>1, <3>2, <3>3
  <2> HIDE DEF q
  <2>3. q = <<a, b, c>>
    BY <2>1, <2>2
  <2> QED
    BY <2>3 DEF q
<1> QED
  BY <1>2, <1>3

LEMMA KnownAnswersRight ==
    ASSUME TestInv, KnownAnswers
    PROVE  TestInv'
<1>1. CASE build.fault # "none"
  BY <1>1 DEF KnownAnswers, Return, Enter, TestInv
<1>2. CASE build.fault = "none"
  <2> DEFINE one(c, byte) == Update(build, c, <<byte>>)
             one_a == UpdateCtx(InitCtx(MaxRounds), <<Letter.a>>)
             two == UpdateCtx(one_a, <<Letter.b>>)
             abc == UpdateCtx(two, <<Letter.c>>)
  <2>1. /\ <<Letter.a>> \in Seq(Bytes) /\ <<Letter.b>> \in Seq(Bytes)
        /\ <<Letter.c>> \in Seq(Bytes)
        /\ <<Letter.a>> \o <<Letter.b>> = <<Letter.a, Letter.b>>
        /\ <<Letter.a, Letter.b>> \o <<Letter.c>> = Abc
    <3>1. PICK a \in Bytes, b \in Bytes, c \in Bytes :
             a = Letter.a /\ b = Letter.b /\ c = Letter.c
      BY ByteValues DEF Letter
    <3>2. /\ <<a>> \in Seq(Bytes) /\ <<b>> \in Seq(Bytes) /\ <<c>> \in Seq(Bytes)
      OBVIOUS
    <3>3. <<a>> \o <<b>> = <<a, b>>
      BY <3>2, Pushed
    <3>4. <<a, b>> \o <<c>> = <<a, b, c>>
      BY <3>2, Pushed
    <3> QED
      BY <3>1, <3>2, <3>3, <3>4 DEF Abc
  <2>2. 1 < WordRadix /\ 3 < WordRadix /\ 0 < WordRadix
    BY BlockAssumption, TestAssumption
  <2>3. << >> \in Seq(Bytes) /\ Abc \in Seq(Bytes) /\ Len(<< >>) < WordRadix
        /\ Len(Abc) < WordRadix
    <3>1. Len(Abc) = 3 /\ Len(<< >>) = 0 /\ << >> \in Seq(Bytes)
      BY DEF Abc
    <3>2. /\ <<Letter.a, Letter.b>> \in Seq(Bytes)
      BY ByteValues DEF Letter
    <3>3. Abc \in Seq(Bytes)
      BY <2>1, <3>2, Joined
    <3> QED
      BY <2>2, <3>1, <3>3
  <2>4. /\ OneShot(build, << >>) = MessageDigest(<< >>, MaxRounds)
        /\ OneShot(build, Abc) = MessageDigest(Abc, MaxRounds)
    BY <1>2, <2>3, RightDigest
  <2>5. one_a \in Context /\ one_a.v.rounds = MaxRounds
        /\ Holds(one_a, <<Letter.a>>) /\ Counts(one_a, <<Letter.a>>)
    <3>1. << >> \in Seq(Bytes) /\ << >> \o <<Letter.a>> = <<Letter.a>> /\ Len(<<Letter.a>>) = 1
      OBVIOUS
    <3> QED
      BY <2>1, <2>2, <3>1, WipedContext, Updated
  <2> HIDE DEF one_a
  <2>6. two \in Context /\ two.v.rounds = MaxRounds
        /\ Holds(two, <<Letter.a, Letter.b>>) /\ Counts(two, <<Letter.a, Letter.b>>)
    <3>1. Len(<<Letter.b>>) = 1
      OBVIOUS
    <3> QED
      BY <2>1, <2>2, <2>5, <3>1, Updated
  <2> HIDE DEF two
  <2>7. abc \in Context /\ abc.v.rounds = MaxRounds /\ Holds(abc, Abc) /\ Counts(abc, Abc)
    <3>1. Len(<<Letter.c>>) = 1 /\ <<Letter.a, Letter.b>> \in Seq(Bytes)
      BY <2>1
    <3> QED
      BY <2>1, <2>2, <2>6, <3>1, Updated
  <2> HIDE DEF abc
  <2>8. FinalDigest(abc) = MessageDigest(Abc, MaxRounds)
    BY <2>3, <2>7, Finished
  <2>9. one(one(one(InitCtx(MaxRounds), Letter.a), Letter.b), Letter.c) = abc
    BY <1>2, RightCode DEF abc, two, one_a
  <2>10. Final(build, abc) = OneShot(build, Abc)
    BY <1>2, <2>4, <2>8, RightCode
  <2>11. Enter("cuts", 0)
    BY <2>4, <2>9, <2>10 DEF KnownAnswers
  <2> QED
    BY <2>11, Entered
<1> QED
  BY <1>1, <1>2

LEMMA CompareRight ==
    ASSUME TestInv, Compare
    PROVE  TestInv'
<1>1. CASE build.fault # "none"
  BY <1>1 DEF Compare, Return, Enter, TestInv
<1>2. CASE build.fault = "none"
  <2>1. off = size /\ stage = "cuts"
    BY DEF Compare
  <2>2. Agrees
    BY <1>2, <2>1, PiecesAgree
  <2>3. CASE /\ size < MessageBytes /\ Begin(size + 1)
             /\ UNCHANGED <<program, build, stage, turn, result>>
    <3>1. size \in Nat /\ size + 1 <= MessageBytes /\ turn \in Nat
      BY <1>2, <2>3, TestAssumption, TestDataTyped DEF TestInv
    <3>2. size + 1 \in 0 .. Longest
      BY SMTT(30), <3>1, TestAssumption, TestDataTyped
    <3> QED
      BY <2>1, <2>3, <3>1, <3>2, Begun
  <2>4. CASE Enter("inverse", 1)
    BY <2>4, Entered
  <2> QED
    BY <2>2, <2>3, <2>4 DEF Compare
<1> QED
  BY <1>1, <1>2

LEMMA FuzzCompareRight ==
    ASSUME TestInv, FuzzCompare
    PROVE  TestInv'
<1>1. CASE build.fault # "none"
  BY <1>1 DEF FuzzCompare, Return, TestInv
<1>2. CASE build.fault = "none"
  <2>1. off = size /\ stage = "fuzz"
    BY DEF FuzzCompare
  <2>2. Agrees
    BY <1>2, <2>1, PiecesAgree
  <2>3. CASE /\ turn' = turn + 1 /\ \E amount \in FuzzSizes : Begin(amount)
             /\ UNCHANGED <<program, build, stage, result>>
    <3>1. PICK amount \in FuzzSizes : Begin(amount)
      BY <2>3
    <3>2. amount \in 0 .. Longest
      BY TestAssumption, TestDataTyped
    <3>3. turn' \in Nat
      BY <1>2, <2>3 DEF TestInv
    <3> QED
      BY <2>1, <2>3, <3>1, <3>2, <3>3, Begun
  <2>4. CASE Return(0)
    BY <2>4, ReturnedWell
  <2> QED
    BY <2>2, <2>3, <2>4 DEF FuzzCompare
<1> QED
  BY <1>1, <1>2

LEMMA InverseRight ==
    ASSUME TestInv, InverseTurn
    PROVE  TestInv'
<1>1. CASE build.fault # "none"
  BY <1>1 DEF InverseTurn, Return, Enter, TestInv
<1>2. CASE build.fault = "none"
  <2>1. ComesBack(build, turn)
    BY <1>2 DEF ComesBack
  <2>2. CASE /\ turn' = turn + 1
             /\ UNCHANGED <<program, build, stage, stream, result>>
    <3>1. UNCHANGED <<size, off, fed>> /\ stage = "inverse" /\ turn' \in Nat
      BY <1>2, <2>2 DEF stream, InverseTurn, TestInv
    <3> QED
      BY <2>2, <3>1 DEF TestInv, Prefix
  <2>3. CASE Enter("batch", 0)
    BY <2>3, Entered, TestAssumption
  <2> QED
    BY <2>1, <2>2, <2>3 DEF InverseTurn
<1> QED
  BY <1>1, <1>2

LEMMA BatchRight ==
    ASSUME TestInv, BatchTurn
    PROVE  TestInv'
<1>1. CASE build.fault # "none"
  BY <1>1 DEF BatchTurn, Return, TestInv
<1>2. CASE build.fault = "none"
  <2> DEFINE alike == \A j \in 0 .. 3 :
                LET piece == SubSeq(BatchData[j], 1, turn)
                IN  OneShot(build, piece) = Hash4Equal(build, piece)
  <2>1. stage = "batch" /\ turn \in Nat /\ turn <= MessageBytes
    BY <1>2 DEF BatchTurn, TestInv
  <2>2. alike
    <3> SUFFICES ASSUME NEW j \in 0 .. 3
                 PROVE  LET piece == SubSeq(BatchData[j], 1, turn)
                        IN  OneShot(build, piece) = Hash4Equal(build, piece)
      OBVIOUS
    <3>1. BatchData[j] \in Seq(Bytes) /\ Len(BatchData[j]) = MessageBytes
      <4>1. 17 + 2 * j \in Nat /\ 31 * j \in Nat /\ MessageBytes \in Nat
        BY TestAssumption
      <4> QED
        BY <4>1, FilledTyped DEF BatchData
    <3>2. /\ SubSeq(BatchData[j], 1, turn) \in Seq(Bytes)
          /\ Len(SubSeq(BatchData[j], 1, turn)) = turn
      BY <2>1, <3>1, TestAssumption
    <3>3. turn < WordRadix
      BY <2>1, TestAssumption, BlockAssumption
    <3> QED
      BY <1>2, <3>2, <3>3, RightDigest
  <2> HIDE DEF alike
  <2>3. CASE /\ turn < MessageBytes /\ turn' = turn + 1
             /\ UNCHANGED <<program, build, stage, stream, result>>
    <3>1. UNCHANGED <<size, off, fed>> /\ turn' \in Nat /\ turn' <= MessageBytes
      BY <2>1, <2>3, TestAssumption DEF stream
    <3> QED
      BY <2>3, <3>1 DEF TestInv, Prefix
  <2>4. CASE Return(0)
    BY <2>4, ReturnedWell
  <2> QED
    BY <2>2, <2>3, <2>4 DEF BatchTurn, alike
<1> QED
  BY <1>1, <1>2

\* Neither program complains of right code, whatever the sizes of blocks, messages and
\* fuzzer inputs, and whichever four-way hash is linked.
THEOREM RightCodePasses == TestSpec => []RightPasses
<1>1. TestInit => TestInv
  <2> SUFFICES ASSUME TestInit PROVE TestInv
    OBVIOUS
  <2>1. turn = 0 /\ off = 0 /\ fed = InitCtx(MaxRounds) /\ result = Running
        /\ stage \in {"known", "fuzz"} /\ size \in FuzzSizes \cup {0}
    BY DEF TestInit
  <2>2. size \in 0 .. Longest
    BY <2>1, TestAssumption, TestDataTyped
  <2>3. 0 \in 0 .. size /\ Prefix(off) = << >>
    BY <2>1, <2>2, Empty
  <2> QED
    BY <2>1, <2>2, <2>3, WipedContext DEF TestInv
<1>2. TestInv /\ [TestNext]_testVars => TestInv'
  <2> SUFFICES ASSUME TestInv, [TestNext]_testVars PROVE TestInv'
    OBVIOUS
  <2>1. CASE UNCHANGED testVars
    BY <2>1 DEF testVars, stream, TestInv, Prefix
  <2> QED
    BY <2>1, KnownAnswersRight, PieceFed, CompareRight, FuzzCompareRight, InverseRight,
       BatchRight DEF TestNext
<1>3. TestInv => RightPasses
  BY DEF TestInv, RightPasses
<1> QED
  BY <1>1, <1>2, <1>3, PTL DEF TestSpec

-----------------------------------------------------------------------------
(* What a pass of the self-test is worth.                                  *)

LEMMA LongerByOne ==
    ASSUME NEW S, NEW s \in Seq(S), NEW x
    PROVE  Len(Append(s, x)) = Len(s) + 1
OBVIOUS

\* Sequences that are equal with one more element are equal, and so are the elements.
LEMMA SameLast ==
    ASSUME NEW S, NEW s \in Seq(S), NEW q \in Seq(S), NEW x, NEW y, Append(s, x) = Append(q, y)
    PROVE  s = q /\ x = y
<1>1. Len(s) = Len(q)
  <2>1. Len(Append(s, x)) = Len(s) + 1 /\ Len(Append(q, y)) = Len(q) + 1
    OBVIOUS
  <2> QED
    BY <2>1
<1>2. Append(s, x)[Len(s) + 1] = x /\ Append(q, y)[Len(q) + 1] = y
  OBVIOUS
<1>3. \A k \in 1 .. Len(s) : s[k] = Append(s, x)[k] /\ q[k] = Append(q, y)[k]
  BY <1>1
<1> QED
  BY <1>1, <1>2, <1>3

\* A piece that is shorter than a block and does not go beyond the end of the buffer's.
LEMMA ShortUpdate ==
    ASSUME NEW c \in Context, NEW d \in Seq(Bytes), NEW n \in 1 .. BlockBytes - 1, n = Len(d),
           c.buffer_len + n <= BlockBytes
    PROVE  LET u == UpdateCtx(c, d)
           IN  /\ u \in Context
               /\ u.buffer_len = IF c.buffer_len + n = BlockBytes THEN 0 ELSE c.buffer_len + n
               /\ \A k \in 1 .. BlockBytes :
                     u.buffer[k] = IF k \in c.buffer_len + 1 .. c.buffer_len + n
                                   THEN d[k - c.buffer_len] ELSE c.buffer[k]
               /\ u.total_lo = LowTotal(c, n)
<1> DEFINE u == UpdateCtx(c, d)
<1>1. PICK B \in Nat \ {0} : B = BlockBytes
  BY Positive
<1>2. PICK b \in 0 .. B - 1 : b = c.buffer_len
  BY <1>1 DEF Context
<1>3. n \in 1 .. B - 1 /\ b + n <= B
  BY <1>1, <1>2
<1>4. Take(c, n) = IF b = 0 THEN 0 ELSE n
  BY <1>1, <1>2, <1>3 DEF Take
<1>5. Whole(c, n) = 0 /\ Behind(c, n) = IF b = 0 THEN n ELSE 0
  <2>1. CASE b = 0
    <3>1. n - 0 = n /\ n = 0 * B + n /\ n \in 0 .. B - 1
      BY <1>3
    <3>2. n \div B = 0 /\ n % B = n
      BY <1>3, <3>1, DivModUnique
    <3> QED
      BY <1>1, <1>4, <2>1, <3>1, <3>2 DEF Whole, Behind
  <2>2. CASE b # 0
    <3>1. n - n = 0 /\ 0 = 0 * B + 0 /\ 0 \in 0 .. B - 1
      BY <1>3
    <3>2. 0 \div B = 0 /\ 0 % B = 0
      BY <3>1, DivModUnique
    <3> QED
      BY <1>1, <1>4, <2>2, <3>1, <3>2 DEF Whole, Behind
  <2> QED
    BY <2>1, <2>2
<1>6. Fills(c, n) <=> b + n = B
  BY <1>1, <1>2, <1>3, <1>4 DEF Fills
<1>7. PICK t \in Nat : t = Take(c, n) /\ t <= n
  BY <1>3, <1>4
<1>8. /\ SubSeq(d, 1, t) \in Seq(Bytes) /\ Len(SubSeq(d, 1, t)) = t
      /\ \A k \in 1 .. t : SubSeq(d, 1, t)[k] = d[k]
  BY <1>7
<1>9. c.buffer \in Block /\ b \in Nat
  BY <1>2 DEF Context
<1>10. /\ Topped(c, d) \in Block
       /\ \A k \in 1 .. B : Topped(c, d)[k] = IF k \in b + 1 .. b + t THEN d[k - b] ELSE c.buffer[k]
  <2>1. Topped(c, d) = CopyTo(c.buffer, b, SubSeq(d, 1, t))
    BY <1>2, <1>7 DEF Topped
  <2>2. PICK e \in Seq(Bytes) : e = SubSeq(d, 1, t)
    BY <1>8
  <2>3. PICK y \in Block : y = c.buffer
    BY <1>9
  <2>4. /\ CopyTo(y, b, e) \in Block
        /\ \A k \in 1 .. BlockBytes : CopyTo(y, b, e)[k] =
              IF k \in b + 1 .. b + Len(e) THEN e[k - b] ELSE y[k]
    BY <1>9, Copied
  <2>5. \A k \in b + 1 .. b + t : e[k - b] = d[k - b]
    BY <1>8, <1>9, <2>2
  <2> QED
    BY <1>1, <1>8, <2>1, <2>2, <2>3, <2>4, <2>5
<1>11. u = [v |-> [c.v EXCEPT !.blocks =
                     @ \o (IF Fills(c, n) THEN <<Topped(c, d)>> ELSE << >>) \o Straight(c, d)],
            buffer |-> IF Behind(c, n) = 0 THEN Topped(c, d)
                       ELSE CopyTo(Topped(c, d), 0, SubSeq(d, n - Behind(c, n) + 1, n)),
            buffer_len |-> IF Behind(c, n) # 0 THEN Behind(c, n)
                           ELSE IF Fills(c, n) THEN 0 ELSE c.buffer_len + Take(c, n),
            total_lo |-> LowTotal(c, n), total_hi |-> HighTotal(c, n)]
  BY <1>3 DEF UpdateCtx
<1>12. /\ u.buffer \in Block
       /\ \A k \in 1 .. B : u.buffer[k] = IF k \in b + 1 .. b + n THEN d[k - b] ELSE c.buffer[k]
  <2>1. CASE b = 0
    <3>1. n - n + 1 = 1 /\ n # 0 /\ SubSeq(d, 1, n) = d
      <4>1. SubSeq(d, 1, Len(d)) = d
        OBVIOUS
      <4> QED
        BY <1>3, <4>1
    <3>2. u.buffer = CopyTo(Topped(c, d), 0, d)
      <4>1. Behind(c, n) = n
        BY <1>5, <2>1
      <4>2. u.buffer = CopyTo(Topped(c, d), 0, SubSeq(d, n - Behind(c, n) + 1, n))
        BY <1>11, <3>1, <4>1
      <4>3. SubSeq(d, n - Behind(c, n) + 1, n) = d
        BY <3>1, <4>1
      <4> QED
        BY <4>2, <4>3
    <3>3. PICK p \in Block : p = Topped(c, d)
      BY <1>10
    <3>4. /\ CopyTo(p, 0, d) \in Block
          /\ \A k \in 1 .. BlockBytes :
                CopyTo(p, 0, d)[k] = IF k \in 0 + 1 .. 0 + Len(d) THEN d[k - 0] ELSE p[k]
      BY ONLY d \in Seq(Bytes), 0 \in Nat, <3>3, Copied
    <3>5. \A k \in 1 .. B : p[k] = c.buffer[k]
      BY <1>4, <1>7, <1>10, <2>1, <3>3
    <3> QED
      BY <1>1, <2>1, <3>2, <3>3, <3>4, <3>5
  <2>2. CASE b # 0
    BY <1>4, <1>5, <1>7, <1>10, <1>11, <2>2
  <2> QED
    BY <2>1, <2>2
<1>13. u.buffer_len = (IF b + n = B THEN 0 ELSE b + n) /\ u.buffer_len \in 0 .. B - 1
  <2>1. u.buffer_len = IF b = 0 THEN n ELSE IF b + n = B THEN 0 ELSE b + n
    BY <1>2, <1>3, <1>4, <1>5, <1>6, <1>11
  <2> QED
    BY <1>2, <1>3, <2>1
<1>14. u.total_lo = LowTotal(c, n) /\ u.total_hi = HighTotal(c, n)
  BY <1>11
<1>15. u.v = [rounds |-> c.v.rounds, blocks |-> u.v.blocks] /\ u.v.blocks \in Seq(Block)
       /\ c.v.rounds \in Nat
  <2>1. u.v.blocks \in Seq(Block)
    BY <1>3, Appended
  <2>2. u.v = [c.v EXCEPT !.blocks =
                     @ \o (IF Fills(c, n) THEN <<Topped(c, d)>> ELSE << >>) \o Straight(c, d)]
    BY <1>11
  <2>3. c.v \in [rounds : Nat, blocks : Seq(Block)]
    BY DEF Context
  <2> QED
    BY <2>1, <2>2, <2>3
<1>16. u.total_lo \in 0 .. WordRadix - 1 /\ u.total_hi \in 0 .. WordRadix - 1
  <2>1. PICK R \in Nat \ {0} : R = WordRadix
    BY Positive
  <2>2. c.total_lo \in 0 .. R - 1 /\ c.total_hi \in 0 .. R - 1
    BY <2>1 DEF Context
  <2>3. (c.total_lo + n) % R \in 0 .. R - 1 /\ (c.total_hi + 1) % R \in 0 .. R - 1
    <3>1. PICK x \in Nat, y \in Nat : x = c.total_lo + n /\ y = c.total_hi + 1
      BY <1>3, <2>2
    <3> QED
      BY <2>1, <3>1, DivMod
  <2> QED
    BY <1>14, <2>1, <2>2, <2>3 DEF LowTotal, HighTotal
<1>17. u \in Context
  <2>1. u = [v |-> u.v, buffer |-> u.buffer, buffer_len |-> u.buffer_len,
             total_lo |-> u.total_lo, total_hi |-> u.total_hi]
    BY <1>11
  <2> HIDE DEF u
  <2>2. u.v \in [rounds : Nat, blocks : Seq(Block)]
    BY <1>15
  <2> QED
    BY <1>1, <1>12, <1>13, <1>16, <2>1, <2>2 DEF Context
<1> QED
  BY <1>1, <1>2, <1>12, <1>13, <1>14, <1>17

\* Bits that tell the bytes apart which the proofs look at: bit 1 of 'a' and 'c', bit 2 of
\* the second byte of the test data.
LEMMA BytesApart ==
    /\ Letter.a \in Bytes /\ Letter.b \in Bytes /\ Letter.c \in Bytes
    /\ Letter.a # Letter.c /\ ByteValue[148] # {}
<1>1. /\ 97 \in 0 .. 255 /\ 98 \in 0 .. 255 /\ 99 \in 0 .. 255 /\ 148 \in 0 .. 255
      /\ 1 \in 0 .. 7 /\ 2 \in 0 .. 7
  OBVIOUS
<1>2. 2 ^ 1 = 2 /\ 2 ^ 2 = 4
  <2>1. 2 ^ (0 + 1) = 2 * 2 ^ 0 /\ 2 ^ (1 + 1) = 2 * 2 ^ 1
    BY PowerStep
  <2>2. 0 + 1 = 1 /\ 1 + 1 = 2
    OBVIOUS
  <2> QED
    BY <2>1, <2>2, PowerZero
<1>3. (97 \div 2) % 2 = 0 /\ (99 \div 2) % 2 = 1 /\ (148 \div 4) % 2 = 1
  OBVIOUS
<1>4. 1 \notin ByteValue[97] /\ 1 \in ByteValue[99] /\ 2 \in ByteValue[148]
  BY <1>1, <1>2, <1>3 DEF ByteValue
<1>5. ByteValue[97] \in Bytes /\ ByteValue[98] \in Bytes /\ ByteValue[99] \in Bytes
  BY <1>1, ByteValues
<1> QED
  BY <1>4, <1>5 DEF Letter

LEMMA AbcTyped == Abc \in Seq(Bytes) /\ Len(Abc) = 3 /\ Abc[1] = Letter.a
BY BytesApart DEF Abc

\* The first bytes in an empty buffer.
LEMMA FirstBytes ==
    ASSUME NEW c \in Context, c.buffer_len = 0,
           NEW d \in Seq(Bytes), NEW n \in 1 .. BlockBytes - 1, n = Len(d)
    PROVE  LET u == UpdateCtx(c, d)
           IN  u \in Context /\ u.buffer_len = n /\ u.buffer[1] = d[1] /\ u.total_lo = LowTotal(c, n)
<1>1. BlockBytes \in Nat \ {0} /\ c.buffer_len + n <= BlockBytes /\ c.buffer_len + n = n /\ n # BlockBytes
  BY BlockAssumption
<1>2. 1 \in 1 .. BlockBytes /\ 1 \in 0 + 1 .. 0 + n /\ 1 - 0 = 1
  BY <1>1
<1>3. PICK u : u = UpdateCtx(c, d)
  OBVIOUS
<1>4. /\ u \in Context
      /\ u.buffer_len = IF c.buffer_len + n = BlockBytes THEN 0 ELSE c.buffer_len + n
      /\ \A k \in 1 .. BlockBytes :
            u.buffer[k] = IF k \in c.buffer_len + 1 .. c.buffer_len + n
                          THEN d[k - c.buffer_len] ELSE c.buffer[k]
      /\ u.total_lo = LowTotal(c, n)
  BY <1>1, <1>3, ShortUpdate
<1> QED
  BY <1>1, <1>2, <1>3, <1>4

LEMMA OneByte ==
    ASSUME NEW byte \in Bytes
    PROVE  <<byte>> \in Seq(Bytes) /\ Len(<<byte>>) = 1 /\ <<byte>>[1] = byte
OBVIOUS

LEMMA FewBytes ==
    /\ 1 \in 1 .. BlockBytes - 1 /\ 2 \in 1 .. BlockBytes - 1 /\ 3 \in 1 .. BlockBytes - 1
    /\ 0 \in 0 .. BlockBytes - 1 /\ BlockBytes > 31 /\ BlockBytes \in Nat \ {0}
BY ReachAssumption, BlockAssumption

\* A build that forgets what the buffer holds keeps only the last byte of "abc".
LEMMA Forgot ==
    ASSUME NEW c \in Context
    PROVE  [c EXCEPT !.buffer_len = 0] \in Context /\ [c EXCEPT !.buffer_len = 0].buffer_len = 0
BY FewBytes DEF Context

LEMMA Forgetting ==
    ASSUME NEW c \in Context, NEW byte \in Bytes
    PROVE  LET u == UpdateCtx([c EXCEPT !.buffer_len = 0], <<byte>>)
           IN  u \in Context /\ u.buffer_len = 1 /\ u.buffer[1] = byte
<1>1. PICK x \in Context : x = [c EXCEPT !.buffer_len = 0] /\ x.buffer_len = 0
  BY Forgot
<1>2. PICK d \in Seq(Bytes) : d = <<byte>> /\ Len(d) = 1 /\ d[1] = byte
  BY OneByte
<1>3. UpdateCtx(x, d) \in Context /\ UpdateCtx(x, d).buffer_len = 1 /\ UpdateCtx(x, d).buffer[1] = d[1]
  <2>1. PICK n \in 1 .. BlockBytes - 1 : n = 1 /\ n = Len(d)
    BY <1>2, FewBytes
  <2>2. LET u == UpdateCtx(x, d)
        IN  u \in Context /\ u.buffer_len = n /\ u.buffer[1] = d[1]
    BY <1>1, <2>1, FirstBytes
  <2> QED
    BY <2>1, <2>2
<1> QED
  BY <1>1, <1>2, <1>3

Stepwise(b) ==
    Update(b, Update(b, Update(b, InitCtx(MaxRounds), <<Letter.a>>), <<Letter.b>>), <<Letter.c>>)

\* Two digests of complete builds are equal only if their last blocks are.
LEMMA SameLastBlock ==
    ASSUME NEW c \in Context, NEW d \in Context, NEW x, NEW y, NEW l, NEW g, NEW h, NEW m,
           Digest(c.v.rounds, Append(c.v.blocks, x), l, g)
             = Digest(d.v.rounds, Append(d.v.blocks, y), h, m)
    PROVE  x = y /\ c.v.blocks = d.v.blocks /\ l = h
<1>1. c.v.blocks \in Seq(Block) /\ d.v.blocks \in Seq(Block)
  BY DEF Context
<1>2. Append(c.v.blocks, x) = Append(d.v.blocks, y) /\ l = h
  BY DEF Digest
<1>3. PICK s \in Seq(Block), q \in Seq(Block) : s = c.v.blocks /\ q = d.v.blocks
  BY <1>1
<1>4. Append(s, x) = Append(q, y)
  BY <1>2, <1>3
<1>5. s = q /\ x = y
  BY <1>4, SameLast
<1> QED
  BY <1>2, <1>3, <1>5

LEMMA ForgetsShows ==
    ASSUME NEW b, b.fault = "forgets"
    PROVE  Final(b, Stepwise(b)) # OneShot(b, Abc)
<1>1. \A c, d : Update(b, c, d) = UpdateCtx([c EXCEPT !.buffer_len = 0], d)
  BY DEF Update
<1>2. \A c : Final(b, c) = Digest(c.v.rounds, Append(c.v.blocks, FinalBlock(c.buffer, c.buffer_len)),
                                  c.total_lo, c.total_hi)
  BY DEF Final
<1>3. PICK p : p = Update(b, InitCtx(MaxRounds), <<Letter.a>>)
  OBVIOUS
<1>4. PICK q : q = Update(b, p, <<Letter.b>>)
  OBVIOUS
<1>5. PICK s : s = Update(b, q, <<Letter.c>>) /\ s = Stepwise(b)
  BY <1>3, <1>4 DEF Stepwise
<1>0. ASSUME NEW c \in Context, NEW byte \in Bytes
      PROVE  LET u == Update(b, c, <<byte>>)
             IN  u \in Context /\ u.buffer_len = 1 /\ u.buffer[1] = byte
  <2>1. PICK u : u = UpdateCtx([c EXCEPT !.buffer_len = 0], <<byte>>)
    OBVIOUS
  <2>2. u \in Context /\ u.buffer_len = 1 /\ u.buffer[1] = byte
    BY <2>1, Forgetting
  <2>3. u = Update(b, c, <<byte>>)
    BY <1>1, <2>1
  <2> QED
    BY <2>2, <2>3
<1>6. p \in Context
  BY <1>0, <1>3, WipedContext, BytesApart
<1>7. q \in Context
  BY <1>0, <1>4, <1>6, BytesApart
<1>8. s \in Context /\ s.buffer_len = 1 /\ s.buffer[1] = Letter.c
  <2>1. PICK byte \in Bytes : byte = Letter.c
    BY BytesApart
  <2>2. s = Update(b, q, <<byte>>)
    BY <1>5, <2>1
  <2>3. s \in Context /\ s.buffer_len = 1 /\ s.buffer[1] = byte
    BY <1>0, <1>7, <2>2
  <2> QED
    BY <2>1, <2>3
<1>9. PICK w : w = Update(b, InitCtx(MaxRounds), Abc)
  OBVIOUS
<1>10. w \in Context /\ w.buffer_len = 3 /\ w.buffer[1] = Letter.a
  <2>1. PICK i \in Context : i = InitCtx(MaxRounds)
    BY WipedContext
  <2>2. PICK x \in Context : x = [i EXCEPT !.buffer_len = 0] /\ x.buffer_len = 0
    BY Forgot
  <2>3. PICK d \in Seq(Bytes) : d = Abc /\ Len(d) = 3 /\ d[1] = Letter.a
    BY AbcTyped
  <2>4. UpdateCtx(x, d) \in Context /\ UpdateCtx(x, d).buffer_len = 3 /\ UpdateCtx(x, d).buffer[1] = d[1]
    <3>1. PICK n \in 1 .. BlockBytes - 1 : n = 3 /\ n = Len(d)
      BY <2>3, FewBytes
    <3>2. LET u == UpdateCtx(x, d)
          IN  u \in Context /\ u.buffer_len = n /\ u.buffer[1] = d[1]
      BY <2>2, <3>1, FirstBytes
    <3> QED
      BY <3>1, <3>2
  <2>5. w = UpdateCtx(x, d)
    BY <1>1, <1>9, <2>1, <2>2, <2>3
  <2> QED
    BY <2>3, <2>4, <2>5
<1>11. FinalBlock(s.buffer, 1)[1] = Letter.c /\ FinalBlock(w.buffer, 3)[1] = Letter.a
  <2>1. 1 \in 1 .. BlockBytes /\ 1 # BlockBytes
    BY ReachAssumption, BlockAssumption
  <2> QED
    BY <1>8, <1>10, <2>1 DEF FinalBlock
<1>12. ASSUME Final(b, s) = OneShot(b, Abc) PROVE FALSE
  <2>1. Final(b, s) = Final(b, w)
    BY <1>9, <1>12 DEF OneShot
  <2>2. Digest(s.v.rounds, Append(s.v.blocks, FinalBlock(s.buffer, s.buffer_len)), s.total_lo, s.total_hi)
        = Digest(w.v.rounds, Append(w.v.blocks, FinalBlock(w.buffer, w.buffer_len)), w.total_lo, w.total_hi)
    BY ONLY <1>2, <2>1
  <2>3. PICK x, y : x = FinalBlock(s.buffer, s.buffer_len) /\ y = FinalBlock(w.buffer, w.buffer_len)
    OBVIOUS
  <2>4. x = y
    BY <1>8, <1>10, <2>2, <2>3, SameLastBlock
  <2> QED
    BY <1>8, <1>10, <1>11, <2>3, <2>4, BytesApart
<1> QED
  BY <1>5, <1>12

\* A build that does not count what only fills the buffer counts one byte of "abc".
LEMMA Uncounting ==
    ASSUME NEW b, b.fault = "uncounted", NEW c \in Context, NEW byte \in Bytes,
           c.buffer_len > 0, c.buffer_len < 4
    PROVE  LET u == Update(b, c, <<byte>>)
           IN  u \in Context /\ u.buffer_len = c.buffer_len + 1 /\ u.total_lo = c.total_lo
<1>1. PICK d \in Seq(Bytes) : d = <<byte>> /\ Len(d) = 1
  BY OneByte
<1>2. PICK n \in 1 .. 3 : n = c.buffer_len
  BY DEF Context
<1>3. 1 \in 1 .. BlockBytes - 1 /\ n + 1 <= BlockBytes /\ n + 1 # BlockBytes /\ 1 < BlockBytes - n
  BY ReachAssumption, BlockAssumption
<1>4. Take(c, 1) = 1
  BY <1>2, <1>3 DEF Take
<1>5. Update(b, c, d) = [UpdateCtx(c, d) EXCEPT !.total_lo = c.total_lo]
  BY <1>1, <1>4 DEF Update
<1>6. LET u == UpdateCtx(c, d)
      IN  /\ u \in Context
          /\ u.buffer_len = IF c.buffer_len + 1 = BlockBytes THEN 0 ELSE c.buffer_len + 1
  <2>1. PICK m \in 1 .. BlockBytes - 1 : m = 1 /\ m = Len(d) /\ c.buffer_len + m <= BlockBytes
    BY <1>1, <1>2, <1>3
  <2>2. LET u == UpdateCtx(c, d)
        IN  /\ u \in Context
            /\ u.buffer_len = IF c.buffer_len + m = BlockBytes THEN 0 ELSE c.buffer_len + m
            /\ \A k \in 1 .. BlockBytes :
                  u.buffer[k] = IF k \in c.buffer_len + 1 .. c.buffer_len + m
                                THEN d[k - c.buffer_len] ELSE c.buffer[k]
            /\ u.total_lo = LowTotal(c, m)
    BY ONLY ZenonT(30), c \in Context, d \in Seq(Bytes), <2>1, ShortUpdate
  <2> QED
    BY <2>1, <2>2
<1>7. c.total_lo \in 0 .. WordRadix - 1
  BY DEF Context
<1>8. PICK u \in Context : u = UpdateCtx(c, d) /\ u.buffer_len = n + 1
  BY <1>2, <1>3, <1>6
<1> QED
  BY <1>1, <1>2, <1>5, <1>7, <1>8 DEF Context

LEMMA UncountedShows ==
    ASSUME NEW b, b.fault = "uncounted"
    PROVE  Final(b, Stepwise(b)) # OneShot(b, Abc)
<1>1. \A c : Final(b, c).lo = c.total_lo
  BY DEF Final, Digest
<1>2. PICK i \in Context : i = InitCtx(MaxRounds) /\ i.buffer_len = 0 /\ i.total_lo = 0
  BY WipedContext DEF InitCtx, Wiped
<1>3. \A d : Len(d) # 0 => Update(b, i, d) = UpdateCtx(i, d)
  BY <1>2 DEF Update, Take
<1>4. ASSUME NEW d \in Seq(Bytes), NEW n \in 1 .. BlockBytes - 1, n = Len(d)
      PROVE  LET u == UpdateCtx(i, d)
             IN  u \in Context /\ u.buffer_len = n /\ u.total_lo = LowTotal(i, n)
  BY <1>2, <1>4, FirstBytes
<1>5. 1 % WordRadix = 1 /\ 3 % WordRadix = 3
  <2>1. PICK R \in Nat \ {0} : R = WordRadix
    BY Positive
  <2>2. 1 \in 0 .. R - 1 /\ 3 \in 0 .. R - 1 /\ 1 = 0 * R + 1 /\ 3 = 0 * R + 3
    BY <2>1, TestAssumption
  <2>3. (0 * R + 1) % R = 1 /\ (0 * R + 3) % R = 3
    BY <2>2, DivModUnique
  <2> QED
    BY <2>1, <2>2, <2>3
<1>6. PICK p \in Context : p = Update(b, i, <<Letter.a>>) /\ p.buffer_len = 1 /\ p.total_lo = 1
  <2>1. PICK d \in Seq(Bytes) : d = <<Letter.a>> /\ Len(d) = 1
    BY BytesApart, OneByte
  <2>2. PICK u : u = UpdateCtx(i, d)
    OBVIOUS
  <2>3. u \in Context /\ u.buffer_len = 1 /\ u.total_lo = LowTotal(i, 1)
    BY <1>4, <2>1, <2>2, FewBytes
  <2>4. LowTotal(i, 1) = 1
    BY <1>2, <1>5 DEF LowTotal
  <2>5. u = Update(b, i, <<Letter.a>>)
    <3>1. Len(d) # 0
      BY <2>1
    <3> QED
      BY <1>3, <2>1, <2>2, <3>1
  <2> QED
    BY <2>3, <2>4, <2>5
<1>7. PICK q \in Context : q = Update(b, p, <<Letter.b>>) /\ q.buffer_len = 2 /\ q.total_lo = 1
  BY <1>6, BytesApart, Uncounting
<1>8. PICK s \in Context : s = Update(b, q, <<Letter.c>>) /\ s.total_lo = 1
  BY <1>7, BytesApart, Uncounting
<1>9. s = Stepwise(b)
  BY <1>2, <1>6, <1>7, <1>8 DEF Stepwise
<1>10. PICK w : w = Update(b, i, Abc) /\ w.total_lo = 3
  <2>1. PICK d \in Seq(Bytes) : d = Abc /\ Len(d) = 3
    BY AbcTyped
  <2>2. UpdateCtx(i, d).total_lo = LowTotal(i, 3)
    <3>1. PICK n \in 1 .. BlockBytes - 1 : n = 3 /\ n = Len(d)
      BY <2>1, FewBytes
    <3> QED
      BY <1>4, <3>1
  <2>3. LowTotal(i, 3) = 3
    BY <1>2, <1>5 DEF LowTotal
  <2>4. Update(b, i, d) = UpdateCtx(i, d)
    <3>1. Len(d) # 0
      BY <2>1
    <3> QED
      BY <1>3, <3>1
  <2> QED
    BY <2>1, <2>2, <2>3, <2>4
<1>11. OneShot(b, Abc) = Final(b, w)
  BY <1>2, <1>10 DEF OneShot
<1> QED
  BY <1>1, <1>8, <1>9, <1>10, <1>11

\* The updates of a build that passed the known answers, on a fresh context or with a piece
\* that holds no whole block behind what fills the buffer.
LEMMA PlainUpdate ==
    ASSUME NEW b, b.fault \notin {"forgets", "uncounted"}, NEW c \in Context, NEW d \in Seq(Bytes),
           Whole(c, Len(d)) = 0 \/ c = InitCtx(MaxRounds)
    PROVE  Update(b, c, d) = UpdateCtx(c, d)
<1>1. CASE b.fault # "restarts"
  BY <1>1 DEF Update
<1>2. CASE b.fault = "restarts"
  <2> DEFINE w == Whole(c, Len(d))
             u == UpdateCtx(c, d)
             block(i) == [k \in 1 .. BlockBytes |-> d[(i - 1) * BlockBytes + k]]
             again == SubSeq(u.v.blocks, 1, Len(u.v.blocks) - w) \o [i \in 1 .. w |-> block(i)]
  <2>1. Update(b, c, d) = [u EXCEPT !.v.blocks = again]
    BY <1>2 DEF Update, Restarted, Whole
  <2>2. u.v.blocks \in Seq(Block) /\ u = [u EXCEPT !.v.blocks = u.v.blocks]
    <3>1. CASE Len(d) = 0
      BY <3>1 DEF UpdateCtx, Context
    <3>2. CASE Len(d) # 0
      <4>1. u.v.blocks \in Seq(Block)
        BY <3>2, Appended
      <4>2. u = [v |-> u.v, buffer |-> u.buffer, buffer_len |-> u.buffer_len,
                 total_lo |-> u.total_lo, total_hi |-> u.total_hi]
        BY <3>2 DEF UpdateCtx
      <4>3. u.v = [rounds |-> c.v.rounds, blocks |-> u.v.blocks]
        <5>1. c.v \in [rounds : Nat, blocks : Seq(Block)]
          BY DEF Context
        <5>2. u.v = [c.v EXCEPT !.blocks =
                       @ \o (IF Fills(c, Len(d)) THEN <<Topped(c, d)>> ELSE << >>) \o Straight(c, d)]
          BY <3>2 DEF UpdateCtx
        <5> QED
          BY <5>1, <5>2
      <4> HIDE DEF u
      <4> QED
        BY <4>1, <4>2, <4>3
    <3> QED
      BY <3>1, <3>2
  <2>3. again = u.v.blocks
    <3>1. CASE w = 0
      <4>1. PICK s \in Seq(Block) : s = u.v.blocks
        BY <2>2
      <4>2. SubSeq(s, 1, Len(s) - 0) \o [i \in 1 .. 0 |-> block(i)] = s
        <5>1. SubSeq(s, 1, Len(s)) = s /\ Len(s) - 0 = Len(s)
          OBVIOUS
        <5>2. [i \in 1 .. 0 |-> block(i)] = << >> /\ s \o << >> = s
          OBVIOUS
        <5> QED
          BY <5>1, <5>2
      <4> QED
        BY <3>1, <4>1, <4>2
    <3>2. CASE w # 0 /\ c = InitCtx(MaxRounds)
      <4>1. c.buffer_len = 0 /\ c.v.blocks = << >>
        BY <3>2 DEF InitCtx, Wiped
      <4>2. Take(c, Len(d)) = 0 /\ ~Fills(c, Len(d))
        BY <4>1 DEF Take, Fills
      <4>3. Len(d) # 0
        <5>1. ASSUME Len(d) = 0 PROVE FALSE
          <6>1. PICK B \in Nat \ {0} : B = BlockBytes
            BY Positive
          <6>2. 0 - 0 = 0 /\ 0 * B + 0 = 0 /\ 0 \in 0 .. B - 1
            BY <6>1
          <6>3. (0 * B + 0) \div B = 0
            BY <6>2, DivModUnique
          <6> QED
            BY <3>2, <4>2, <5>1, <6>1, <6>2, <6>3 DEF Whole
        <5> QED
          BY <5>1
      <4>4. u.v.blocks = << >> \o << >> \o Straight(c, d)
        <5>1. u.v = [c.v EXCEPT !.blocks = @ \o << >> \o Straight(c, d)]
          BY <4>2, <4>3 DEF UpdateCtx
        <5>2. PICK x : x = c.v.blocks \o << >> \o Straight(c, d)
          OBVIOUS
        <5>3. u.v = [c.v EXCEPT !.blocks = x]
          BY <5>1, <5>2
        <5>4. c.v \in [rounds : Nat, blocks : Seq(Block)]
          BY DEF Context
        <5> HIDE DEF u
        <5>5. u.v.blocks = x
          BY <5>3, <5>4
        <5> QED
          BY <4>1, <5>2, <5>5
      <4>5. PICK n \in Nat : n = w
        <5>1. PICK B \in Nat \ {0} : B = BlockBytes
          BY Positive
        <5>2. PICK l \in Nat : l = Len(d) /\ l - 0 = l
          OBVIOUS
        <5>3. l \div B \in Nat
          BY <5>1, <5>2, DivMod
        <5> QED
          BY <4>2, <5>1, <5>2, <5>3 DEF Whole
      <4>6. Straight(c, d) = [i \in 1 .. n |-> block(i)]
        <5>1. \A i \in 1 .. n : \A k \in 1 .. BlockBytes :
                 0 + (i - 1) * BlockBytes + k = (i - 1) * BlockBytes + k
          <6>1. PICK B \in Nat \ {0} : B = BlockBytes
            BY Positive
          <6> SUFFICES ASSUME NEW i \in 1 .. n, NEW k \in 1 .. B
                       PROVE  0 + (i - 1) * B + k = (i - 1) * B + k
            BY <6>1
          <6>2. PICK x \in Nat : x = (i - 1) * B
            BY <6>1
          <6> QED
            BY <6>1, <6>2
        <5> QED
          BY <4>2, <4>5, <5>1 DEF Straight
      <4>7. PICK s : s = [i \in 1 .. n |-> block(i)] /\ s \in Seq({block(i) : i \in 1 .. n}) /\ Len(s) = n
        <5> HIDE DEF block
        <5>1. PICK s : s = [i \in 1 .. n |-> block(i)]
          OBVIOUS
        <5>2. s \in Seq({block(i) : i \in 1 .. n}) /\ Len(s) = n
          BY <5>1
        <5> QED
          BY <5>1, <5>2
      <4>8. << >> \o << >> \o s = s /\ SubSeq(s, 1, n - n) \o s = s
        <5>1. n - n = 0 /\ SubSeq(s, 1, 0) = << >>
          BY <4>5
        <5>2. << >> \o << >> = << >> /\ << >> \o s = s
          BY <4>7
        <5> QED
          BY <5>1, <5>2
      <4>9. u.v.blocks = s
        BY <4>4, <4>6, <4>7, <4>8
      <4> QED
        BY <4>5, <4>7, <4>8, <4>9
    <3> QED
      BY <3>1, <3>2
  <2> QED
    BY <2>1, <2>2, <2>3
<1> QED
  BY <1>1, <1>2

LEMMA ExactFinal ==
    ASSUME NEW b, b.fault \notin {"stale", "replaced"}, NEW c
    PROVE  Final(b, c) = FinalDigest(c)
BY DEF Final, FinalDigest

\* A fresh context holds a message after one update.
LEMMA FreshUpdate ==
    ASSUME NEW d \in Seq(Bytes), Len(d) < WordRadix
    PROVE  LET u == UpdateCtx(InitCtx(MaxRounds), d)
           IN  u \in Context /\ u.v.rounds = MaxRounds /\ Holds(u, d) /\ Counts(u, d)
<1>1. << >> \in Seq(Bytes) /\ << >> \o d = d
  OBVIOUS
<1>2. PICK i \in Context : /\ i = InitCtx(MaxRounds) /\ i.v.rounds = MaxRounds
                           /\ Holds(i, << >>) /\ Counts(i, << >>)
  BY WipedContext
<1>3. PICK m \in Seq(Bytes) : m = << >> /\ m \o d = d
  BY <1>1
<1>4. LET u == UpdateCtx(i, d)
      IN  u \in Context /\ u.v.rounds = i.v.rounds /\ Holds(u, m \o d) /\ Counts(u, m \o d)
  BY <1>2, <1>3, Updated
<1> QED
  BY <1>2, <1>3, <1>4

LEMMA SecondByte ==
    2 <= Longest => TestData[2] = ByteValue[148]
<1> SUFFICES ASSUME 2 <= Longest PROVE TestData[2] = ByteValue[148]
  OBVIOUS
<1>1. PICK n \in Nat : n = Longest /\ 2 <= n
  BY TestDataTyped
<1> DEFINE f == [i \in 1 .. n |-> ByteValue[((i - 1) * 131 + 17) % 256]]
<1>2. f \in Seq(Bytes) /\ Len(f) = n /\ f[2] = ByteValue[148]
  <2>1. ASSUME NEW i \in 1 .. n PROVE ByteValue[((i - 1) * 131 + 17) % 256] \in Bytes
    <3>1. ((i - 1) * 131 + 17) % 256 \in 0 .. 255
      OBVIOUS
    <3> QED
      BY <3>1, ByteValues
  <2>2. 2 \in 1 .. n /\ ((2 - 1) * 131 + 17) % 256 = 148
    BY <1>1
  <2> QED
    BY <2>1, <2>2
<1> HIDE DEF f
<1>3. TestData = SubSeq(f, 1, n)
  BY <1>1 DEF TestData, Filled, Longest, f
<1>4. SubSeq(f, 1, Len(f)) = f
  BY <1>2
<1> QED
  BY <1>2, <1>3, <1>4

\* One block that is hashed at once leaves the buffer as it was wiped.
LEMMA OneBlock ==
    ASSUME NEW d \in Seq(Bytes), Len(d) = BlockBytes
    PROVE  LET u == UpdateCtx(InitCtx(MaxRounds), d)
           IN  u \in Context /\ u.buffer_len = 0 /\ \A k \in 1 .. BlockBytes : u.buffer[k] = {}
<1>1. PICK B \in Nat \ {0} : B = BlockBytes
  BY Positive
<1>2. PICK i \in Context : i = InitCtx(MaxRounds) /\ i.buffer_len = 0 /\ i.buffer = ZeroBlock
  BY WipedContext DEF InitCtx, Wiped
<1>3. Take(i, B) = 0 /\ ~Fills(i, B)
  BY <1>2 DEF Take, Fills
<1>4. Behind(i, B) = 0
  <2>1. B - 0 = 1 * B + 0 /\ 0 \in 0 .. B - 1
    BY <1>1
  <2>2. (1 * B + 0) % B = 0
    BY <2>1, DivModUnique
  <2> QED
    BY <1>1, <1>3, <2>1, <2>2 DEF Behind
<1>5. PICK e \in Seq(Bytes) : e = SubSeq(d, 1, 0) /\ Len(e) = 0
  <2>1. SubSeq(d, 1, 0) = << >> /\ << >> \in Seq(Bytes) /\ Len(<< >>) = 0
    OBVIOUS
  <2> QED
    BY <2>1
<1>6. PICK z \in Block : z = ZeroBlock /\ \A k \in 1 .. BlockBytes : z[k] = {}
  <2>1. ZeroBlock \in Block
    BY DEF ZeroBlock, Block, AnyByte
  <2>2. \A k \in 1 .. BlockBytes : ZeroBlock[k] = {}
    BY DEF ZeroBlock
  <2> QED
    BY <2>1, <2>2
<1>7. CopyTo(z, 0, e) \in Block /\ \A k \in 1 .. BlockBytes : CopyTo(z, 0, e)[k] = z[k]
  <2>1. \A k \in 1 .. BlockBytes :
           CopyTo(z, 0, e)[k] = IF k \in 0 + 1 .. 0 + Len(e) THEN e[k - 0] ELSE z[k]
    BY ONLY z \in Block, e \in Seq(Bytes), 0 \in Nat, Copied
  <2>2. CopyTo(z, 0, e) \in Block
    BY ONLY z \in Block, e \in Seq(Bytes), 0 \in Nat, Copied
  <2>3. \A k \in 1 .. BlockBytes : ~(k \in 0 + 1 .. 0 + Len(e))
    BY <1>1, <1>5
  <2> QED
    BY <2>1, <2>2, <2>3
<1>8. Topped(i, d) = CopyTo(z, 0, e)
  BY <1>1, <1>2, <1>3, <1>5, <1>6 DEF Topped
<1>9. PICK u : u = UpdateCtx(i, d)
  OBVIOUS
<1>10. u.buffer = CopyTo(z, 0, e) /\ u.buffer_len = 0
  BY <1>1, <1>2, <1>3, <1>4, <1>8, <1>9 DEF UpdateCtx
<1>11. u \in Context
  <2>1. Len(d) < WordRadix
    BY ReachAssumption, TestAssumption, BlockAssumption
  <2> QED
    BY <1>2, <1>9, <2>1, FreshUpdate
<1> QED
  BY <1>2, <1>6, <1>7, <1>9, <1>10, <1>11

\* A build that pads the whole buffer shows what a block in pieces leaves behind in it.
LEMMA StaleShows ==
    ASSUME NEW b, b.fault = "stale", NEW c \in Context, c.buffer_len = 0,
           c.buffer[2] # {}, NEW d \in Seq(Bytes), Len(d) = BlockBytes
    PROVE  Final(b, c) # OneShot(b, d)
<1>1. PICK u : /\ u = UpdateCtx(InitCtx(MaxRounds), d) /\ u \in Context /\ u.buffer_len = 0
               /\ \A k \in 1 .. BlockBytes : u.buffer[k] = {}
  BY OneBlock
<1>2. OneShot(b, d) = Final(b, u)
  BY <1>1 DEF OneShot, Update
<1>3. \A x : Final(b, x) = Digest(x.v.rounds, Append(x.v.blocks, FinalBlockStale(x.buffer, x.buffer_len)),
                                  x.total_lo, x.total_hi)
  BY DEF Final
<1>4. ASSUME Final(b, c) = Final(b, u) PROVE FALSE
  <2>1. PICK x, y : x = FinalBlockStale(c.buffer, 0) /\ y = FinalBlockStale(u.buffer, 0)
    OBVIOUS
  <2>2. Digest(c.v.rounds, Append(c.v.blocks, x), c.total_lo, c.total_hi)
          = Digest(u.v.rounds, Append(u.v.blocks, y), u.total_lo, u.total_hi)
    BY <1>1, <1>3, <1>4, <2>1
  <2>3. x = y
    <3>1. PICK s \in Seq(Block), q \in Seq(Block) : s = c.v.blocks /\ q = u.v.blocks
      BY <1>1 DEF Context
    <3>2. Append(s, x) = Append(q, y)
      BY <2>2, <3>1 DEF Digest
    <3> QED
      BY ONLY s \in Seq(Block), q \in Seq(Block), <3>2, SameLast
  <2>4. 2 \in 1 .. BlockBytes /\ 2 # BlockBytes /\ 2 # 0 + 1
    BY FewBytes
  <2>5. x[2] = c.buffer[2] /\ y[2] = u.buffer[2]
    BY <2>1, <2>4 DEF FinalBlockStale
  <2> QED
    BY <1>1, <2>3, <2>4, <2>5
<1> QED
  BY <1>2, <1>4

\* A build that stores its pad bytes loses the first where both fall in one place.
LEMMA ReplacedShows ==
    ASSUME NEW b, b.fault = "replaced", NEW d \in Seq(Bytes), Len(d) = BlockBytes - 1
    PROVE  OneShot(b, d) # HashLane(d)
<1>1. Len(d) < WordRadix
  BY ReachAssumption, TestAssumption, BlockAssumption
<1>2. PICK B \in Nat \ {0} : B = BlockBytes /\ B > 31
  BY FewBytes
<1>3. PICK u \in Context : u = UpdateCtx(InitCtx(MaxRounds), d) /\ Holds(u, d)
  BY <1>1, FreshUpdate
<1>4. OneShot(b, d) = Final(b, u)
  BY <1>3 DEF OneShot, Update
<1>5. HashLane(d) = FinalDigest(u)
  BY <1>1, <1>3, LaneHolds, OneCall, BlockAssumption
<1>6. u.buffer_len = B - 1
  <2>1. PICK n \in Nat, q \in 0 .. B - 1 : n = Len(u.v.blocks) /\ q = u.buffer_len
    BY <1>2 DEF Context
  <2>2. B - 1 = n * B + q /\ B - 1 = 0 * B + (B - 1) /\ B - 1 \in 0 .. B - 1
    BY <1>2, <1>3, <2>1 DEF Holds
  <2>3. PICK e \in 0 .. B - 1 : e = B - 1
    BY <2>2
  <2>4. (n * B + q) % B = q
    BY ONLY n \in Nat, B \in Nat \ {0}, q \in 0 .. B - 1, DivModUnique
  <2>5. (0 * B + e) % B = e
    BY ONLY 0 \in Nat, B \in Nat \ {0}, e \in 0 .. B - 1, DivModUnique
  <2> QED
    BY <2>1, <2>2, <2>3, <2>4, <2>5
<1>7. ASSUME Final(b, u) = FinalDigest(u) PROVE FALSE
  <2>1. PICK x, y : x = FinalBlockReplaced(u.buffer, B - 1) /\ y = FinalBlock(u.buffer, B - 1)
    OBVIOUS
  <2>2. Append(u.v.blocks, x) = Append(u.v.blocks, y)
    BY <1>6, <1>7, <2>1 DEF Final, FinalDigest, Digest
  <2>3. PICK s \in Seq(Block) : s = u.v.blocks
    BY DEF Context
  <2>4. x = y
    BY <2>2, <2>3, SameLast
  <2>5. x[B] = LastPad
    BY <1>2, <2>1 DEF FinalBlockReplaced
  <2>6. y[B] = Xor(Xor({}, FirstPad), LastPad)
    <3>1. B \in 1 .. BlockBytes /\ B = (B - 1) + 1 /\ ~(B <= B - 1) /\ B = BlockBytes
      BY <1>2
    <3> QED
      BY <2>1, <3>1 DEF FinalBlock
  <2>7. 0 \notin LastPad /\ 0 \in Xor(Xor({}, FirstPad), LastPad)
    BY DEF LastPad, FirstPad, Xor
  <2> QED
    BY <2>4, <2>5, <2>6, <2>7
<1> QED
  BY <1>4, <1>5, <1>7

\* A four-way hash that does not pad full blocks has a block less.
LEMMA NoPadShows ==
    ASSUME NEW b, b.fault = "lane_no_pad", b.hash4 = "avx2",
           NEW d \in Seq(Bytes), Len(d) = BlockBytes
    PROVE  OneShot(b, d) # Hash4Equal(b, d)
<1>1. PICK B \in Nat \ {0} : B = BlockBytes
  BY Positive
<1>2. Len(d) < WordRadix
  BY ReachAssumption, TestAssumption, BlockAssumption
<1>3. OneShot(b, d) = HashLane(d)
  <2>1. OneShot(b, d) = FinalDigest(UpdateCtx(InitCtx(MaxRounds), d))
    BY DEF OneShot, Update, Final, FinalDigest
  <2> QED
    BY <1>2, <2>1, LaneHolds, OneCall, BlockAssumption
<1>4. B \div B = 1
  <2>1. B = 1 * B + 0 /\ 0 \in 0 .. B - 1
    BY <1>1
  <2>2. (1 * B + 0) \div B = 1
    BY <2>1, DivModUnique
  <2> QED
    BY <2>1, <2>2
<1>5. SubSeq(d, 1 * B + 1, B) = << >>
  BY <1>1
<1> DEFINE blocks == [i \in 1 .. 1 |-> [k \in 1 .. BlockBytes |-> d[(i - 1) * BlockBytes + k]]]
<1>6. Hash4Equal(b, d) = Digest(MaxRounds, blocks, B, 0)
  <2>1. Hash4Equal(b, d) = HashLaneNoPadBlock(d)
    BY DEF Hash4Equal
  <2> QED
    BY <1>1, <1>4, <1>5, <2>1 DEF HashLaneNoPadBlock
<1>7. PICK last : HashLane(d) = Digest(MaxRounds, Append(blocks, last), B, 0)
  BY <1>1, <1>4 DEF HashLane
<1>8. Len(blocks) = 1 /\ Len(Append(blocks, last)) = 2
  <2> DEFINE block(i) == [k \in 1 .. BlockBytes |-> d[(i - 1) * BlockBytes + k]]
  <2>1. blocks = [i \in 1 .. 1 |-> block(i)]
    OBVIOUS
  <2> HIDE DEF block, blocks
  <2>2. blocks \in Seq({block(1)}) /\ Len(blocks) = 1
    BY <2>1
  <2>3. Len(Append(blocks, last)) = Len(blocks) + 1
    BY <2>2, LongerByOne
  <2> QED
    BY <2>2, <2>3
<1> HIDE DEF blocks
<1>9. Append(blocks, last) # blocks
  <2>1. PICK more : more = Append(blocks, last)
    OBVIOUS
  <2>2. Len(more) # Len(blocks)
    BY <1>8, <2>1
  <2> QED
    BY <2>1, <2>2
<1> QED
  BY <1>3, <1>6, <1>7, <1>9 DEF Digest

-----------------------------------------------------------------------------
(* What the stages of the self-test know of the code they passed.          *)

\* While a whole block is fed in pieces, the first is of two bytes, and they stay.
Remains ==
    /\ fed \in Context
    /\ off = 0 => fed.buffer_len = 0
    /\ off # 0 => /\ off >= 2 /\ fed.buffer[2] = ByteValue[148]
                  /\ fed.buffer_len = IF off = BlockBytes THEN 0 ELSE off

LEMMA CutSizes ==
    ASSUME NEW o \in Nat, NEW bytes
    PROVE  SelfTestCut(o, bytes) \in 1 .. 31 /\ SelfTestCut(0, bytes) = 2
<1>1. PICK x \in Nat : x = (o * 7 + 1) % 31 /\ x <= 30
  OBVIOUS
<1>2. SelfTestCut(o, bytes) = x + 1
  BY <1>1 DEF SelfTestCut
<1>3. SelfTestCut(0, bytes) = 2
  BY DEF SelfTestCut
<1> QED
  BY <1>1, <1>2, <1>3

LEMMA RemainsFed ==
    ASSUME Remains, Piece, program = "self_test", build.fault = "stale",
           size = BlockBytes, off \in 0 .. size
    PROVE  Remains'
<1>1. PICK B \in Nat : B = BlockBytes /\ B > 31
  BY FewBytes
<1>2. PICK cut \in 1 .. 31 : cut = SelfTestCut(off, size) /\ (off = 0 => cut = 2)
  BY <1>1, CutSizes
<1>3. PICK take \in 1 .. 31 : /\ take = IF cut > size - off THEN size - off ELSE cut
                              /\ off + take <= size /\ (off = 0 => take = 2)
  BY <1>1, <1>2 DEF Piece
<1>4. PICK d : d = SubSeq(TestData, off + 1, off + take)
  OBVIOUS
<1>5. fed' = Update(build, fed, d) /\ off' = off + take
  BY <1>2, <1>3, <1>4 DEF Piece
<1>6. B <= Longest
  BY <1>1, ReachAssumption, TestAssumption, TestDataTyped
<1>7. d \in Seq(Bytes) /\ Len(d) = take /\ \A k \in 1 .. take : d[k] = TestData[off + k]
  BY <1>1, <1>3, <1>4, <1>6, TestDataTyped
<1>8. fed' = UpdateCtx(fed, d)
  BY <1>5 DEF Update
<1>9. off < B /\ fed.buffer_len = off /\ fed \in Context
  BY <1>1 DEF Remains, Piece
<1>10. PICK u : u = UpdateCtx(fed, d)
  OBVIOUS
<1>11. /\ u \in Context
       /\ u.buffer_len = IF off + take = B THEN 0 ELSE off + take
       /\ \A k \in 1 .. B : u.buffer[k] = IF k \in off + 1 .. off + take
                                         THEN d[k - off] ELSE fed.buffer[k]
  <2>1. take \in 1 .. BlockBytes - 1 /\ fed.buffer_len + take <= BlockBytes
    BY <1>1, <1>3, <1>9
  <2>2. /\ u \in Context
        /\ u.buffer_len = IF fed.buffer_len + take = BlockBytes THEN 0 ELSE fed.buffer_len + take
        /\ \A k \in 1 .. BlockBytes :
              u.buffer[k] = IF k \in fed.buffer_len + 1 .. fed.buffer_len + take
                            THEN d[k - fed.buffer_len] ELSE fed.buffer[k]
    BY <1>7, <1>9, <1>10, <2>1, ShortUpdate
  <2> QED
    BY <1>1, <1>9, <2>2
<1>12. u.buffer[2] = ByteValue[148]
  <2>1. CASE off = 0
    <3>1. 2 \in 1 .. B /\ 2 \in off + 1 .. off + take /\ 2 - off = 2 /\ 2 \in 1 .. take
      BY <1>1, <1>3, <2>1
    <3>2. TestData[2] = ByteValue[148]
      BY <1>1, <1>6, SecondByte, TestDataTyped
    <3> QED
      BY <1>7, <1>11, <2>1, <3>1, <3>2
  <2>2. CASE off # 0
    <3>1. 2 \in 1 .. B /\ ~(2 \in off + 1 .. off + take)
      BY <1>1, <2>2 DEF Remains
    <3> QED
      BY <1>11, <2>2, <3>1 DEF Remains
  <2> QED
    BY <2>1, <2>2
<1>13. off + take >= 2 /\ off + take # 0
  BY <1>1, <1>3 DEF Remains
<1> QED
  BY <1>1, <1>5, <1>8, <1>10, <1>11, <1>12, <1>13 DEF Remains

Vouched ==
    /\ stage \in {"known", "cuts", "inverse", "batch"}
    /\ turn \in Nat /\ size \in Nat /\ size <= MessageBytes /\ off \in 0 .. size
    /\ stage # "known" => build.fault \notin {"forgets", "uncounted"}
    /\ stage = "cuts" /\ build.fault = "stale" =>
          size <= BlockBytes /\ (size = BlockBytes => Remains)
    /\ stage \in {"inverse", "batch"} => build.fault # "stale"
    /\ stage = "inverse" => turn >= 1 /\ \A r \in 1 .. turn - 1 : ComesBack(build, r)
    /\ stage = "batch" =>
          /\ \A r \in 1 .. MaxRounds : ComesBack(build, r)
          /\ build.hash4 = "avx2" => /\ turn > BlockBytes - 1 => build.fault # "replaced"
                                     /\ turn > BlockBytes => build.fault # "lane_no_pad"

\* The faults that no pass has.
Caught ==
    /\ build.fault \notin {"forgets", "uncounted", "stale"}
    /\ \A r \in 1 .. MaxRounds : ComesBack(build, r)
    /\ build.hash4 = "avx2" => build.fault \notin {"replaced", "lane_no_pad"}

VouchInv == program = "self_test" => Vouched /\ (result = 0 => Caught)

\* A return is none of 0 but the last one.
LEMMA Complained ==
    ASSUME Vouched, NEW code, Return(code), code # 0
    PROVE  VouchInv'
<1>1. UNCHANGED <<program, build, stage, turn, size, off, fed>> /\ result' # 0
  BY DEF Return, stream
<1>2. Remains' <=> Remains
  BY <1>1 DEF Remains
<1>3. \A r : ComesBack(build, r)' <=> ComesBack(build, r)
  BY <1>1 DEF ComesBack
<1> QED
  BY <1>1, <1>2, <1>3 DEF VouchInv, Vouched

\* A new stage, with what the code has shown when it is reached.
LEMMA EnteredVouched ==
    ASSUME NEW following, NEW first \in Nat, Enter(following, first), result # 0,
           following \in {"cuts", "inverse", "batch"},
           build.fault \notin {"forgets", "uncounted"},
           following # "cuts" => build.fault # "stale",
           following = "inverse" => first = 1,
           following = "batch" => first = 0 /\ \A r \in 1 .. MaxRounds : ComesBack(build, r)
    PROVE  VouchInv'
<1>1. /\ UNCHANGED <<program, build, result>> /\ stage' = following /\ turn' = first
      /\ size' = 0 /\ off' = 0
  BY DEF Enter
<1>2. \A r : ComesBack(build, r)' <=> ComesBack(build, r)
  BY <1>1 DEF ComesBack
<1>3. MessageBytes \in Nat /\ 0 <= MessageBytes /\ 0 \in 0 .. 0 /\ 0 <= BlockBytes /\ 0 # BlockBytes
      /\ ~(0 > BlockBytes) /\ ~(0 > BlockBytes - 1)
  BY TestAssumption, FewBytes
<1>4. \A r \in 1 .. 1 - 1 : FALSE
  OBVIOUS
<1> QED
  BY <1>1, <1>2, <1>3, <1>4 DEF VouchInv, Vouched

LEMMA KnownAnswersVouched ==
    ASSUME Vouched, result = Running, KnownAnswers
    PROVE  VouchInv'
<1>1. CASE \E code \in {4, 5, 6} : Return(code)
  <2>1. PICK code \in {4, 5, 6} : Return(code)
    BY <1>1
  <2> QED
    BY <2>1, Complained
<1>2. CASE Final(build, Stepwise(build)) = OneShot(build, Abc) /\ Enter("cuts", 0)
  <2>1. build.fault \notin {"forgets", "uncounted"}
    BY <1>2, ForgetsShows, UncountedShows
  <2> QED
    BY <1>2, <2>1, EnteredVouched DEF Running
<1> QED
  BY <1>1, <1>2 DEF KnownAnswers, Stepwise

LEMMA PieceVouched ==
    ASSUME Vouched, program = "self_test", result = Running, Piece
    PROVE  VouchInv'
<1>1. UNCHANGED <<program, build, stage, turn, size, result>> /\ stage = "cuts" /\ off < size
  BY DEF Piece, Vouched
<1>2. off' \in 0 .. size
  <2>1. PICK cut \in 1 .. 31 : cut = SelfTestCut(off, size)
    BY CutSizes DEF Vouched
  <2>2. off' = off + (IF cut > size - off THEN size - off ELSE cut)
    BY <2>1 DEF Piece
  <2> QED
    BY <1>1, <2>1, <2>2 DEF Vouched
<1>3. build.fault = "stale" /\ size = BlockBytes => Remains'
  BY RemainsFed DEF Vouched, Piece
<1>4. \A r : ComesBack(build, r)' <=> ComesBack(build, r)
  BY <1>1 DEF ComesBack
<1> QED
  BY <1>1, <1>2, <1>3, <1>4 DEF VouchInv, Vouched, Running

LEMMA CompareVouched ==
    ASSUME Vouched, program = "self_test", result = Running, Compare
    PROVE  VouchInv'
<1>1. stage = "cuts" /\ off = size
  BY DEF Compare
<1>2. CASE Return(7)
  BY <1>2, Complained
<1>3. Agrees /\ build.fault = "stale" => size < BlockBytes
  <2> SUFFICES ASSUME Agrees, build.fault = "stale", size = BlockBytes PROVE FALSE
    BY <1>1, FewBytes DEF Vouched
  <2>1. Remains /\ off # 0
    BY <1>1, FewBytes DEF Vouched
  <2>2. PICK c \in Context : c = fed /\ c.buffer_len = 0 /\ c.buffer[2] # {}
    BY <1>1, <2>1, BytesApart DEF Remains
  <2>3. size \in 0 .. Longest
    BY FewBytes, ReachAssumption, TestAssumption, TestDataTyped
  <2>4. PICK d \in Seq(Bytes) : d = Prefix(size) /\ Len(d) = BlockBytes
    BY <2>3, PrefixTyped
  <2>5. Final(build, c) # OneShot(build, d)
    BY <2>2, <2>4, StaleShows
  <2> QED
    BY <2>2, <2>4, <2>5 DEF Agrees
<1>4. CASE /\ Agrees /\ size < MessageBytes
           /\ Begin(size + 1)
           /\ UNCHANGED <<program, build, stage, turn, result>>
  <2>1. size' = size + 1 /\ off' = 0 /\ fed' = InitCtx(MaxRounds)
    BY <1>4 DEF Begin
  <2>2. size' \in Nat /\ size' <= MessageBytes /\ off' \in 0 .. size'
    BY <1>4, <2>1, TestAssumption DEF Vouched
  <2>3. build.fault = "stale" => size' <= BlockBytes
    BY <1>3, <1>4, <2>1, FewBytes DEF Vouched
  <2>4. Remains'
    <3>1. InitCtx(MaxRounds) \in Context /\ InitCtx(MaxRounds).buffer_len = 0
      BY WipedContext DEF InitCtx, Wiped
    <3> QED
      BY <2>1, <3>1 DEF Remains
  <2> QED
    BY <1>1, <1>4, <2>2, <2>3, <2>4 DEF VouchInv, Vouched, Running
<1>5. CASE Agrees /\ size = MessageBytes /\ Enter("inverse", 1)
  <2>1. build.fault # "stale" /\ build.fault \notin {"forgets", "uncounted"}
    BY <1>1, <1>3, <1>5, FewBytes, ReachAssumption, TestAssumption DEF Vouched
  <2> QED
    BY <1>5, <2>1, EnteredVouched DEF Running
<1> QED
  BY <1>2, <1>4, <1>5 DEF Compare

LEMMA InverseVouched ==
    ASSUME Vouched, result = Running, InverseTurn
    PROVE  VouchInv'
<1>1. stage = "inverse" /\ turn \in Nat /\ turn >= 1
      /\ build.fault \notin {"forgets", "uncounted", "stale"}
      /\ \A r \in 1 .. turn - 1 : ComesBack(build, r)
  BY DEF InverseTurn, Vouched
<1>2. ComesBack(build, turn) => \A r \in 1 .. turn : ComesBack(build, r)
  BY <1>1
<1>3. CASE Return(8)
  BY <1>3, Complained
<1>4. CASE /\ ComesBack(build, turn) /\ turn' = turn + 1
           /\ UNCHANGED <<program, build, stage, stream, result>>
  <2>1. UNCHANGED <<size, off, fed>>
    BY <1>4 DEF stream
  <2>2. \A r : ComesBack(build, r)' <=> ComesBack(build, r)
    BY <1>4 DEF ComesBack
  <2>3. turn' - 1 = turn /\ turn' >= 1 /\ turn' \in Nat
    BY <1>1, <1>4
  <2> QED
    BY <1>1, <1>2, <1>4, <2>1, <2>2, <2>3 DEF VouchInv, Vouched, Running
<1>5. CASE ComesBack(build, turn) /\ turn = MaxRounds /\ Enter("batch", 0)
  BY <1>1, <1>2, <1>5, EnteredVouched DEF Running
<1> QED
  BY <1>3, <1>4, <1>5 DEF InverseTurn

LEMMA BatchTold ==
    ASSUME build.hash4 = "avx2", turn \in {BlockBytes - 1, BlockBytes},
           \A j \in 0 .. 3 : LET text == SubSeq(BatchData[j], 1, turn)
                             IN  OneShot(build, text) = Hash4Equal(build, text)
    PROVE  /\ turn = BlockBytes - 1 => build.fault # "replaced"
           /\ turn = BlockBytes => build.fault # "lane_no_pad"
<1>1. BatchData[0] \in Seq(Bytes) /\ Len(BatchData[0]) = MessageBytes
  <2>1. 17 + 2 * 0 \in Nat /\ 31 * 0 \in Nat /\ MessageBytes \in Nat /\ 0 \in 0 .. 3
    BY TestAssumption
  <2> QED
    BY <2>1, FilledTyped DEF BatchData
<1>2. PICK n \in Nat : n = turn /\ n <= MessageBytes
  BY FewBytes, ReachAssumption, TestAssumption
<1>3. PICK d \in Seq(Bytes) : d = SubSeq(BatchData[0], 1, turn) /\ Len(d) = turn
  <2>1. PICK q \in Seq(Bytes) : q = BatchData[0] /\ n <= Len(q)
    BY <1>1, <1>2
  <2>2. SubSeq(q, 1, n) \in Seq(Bytes) /\ Len(SubSeq(q, 1, n)) = n
    BY <2>1
  <2> QED
    BY <1>2, <2>1, <2>2
<1>4. OneShot(build, d) = Hash4Equal(build, d)
  BY <1>3
<1>5. ASSUME build.fault = "replaced", turn = BlockBytes - 1 PROVE FALSE
  <2>1. Hash4Equal(build, d) = HashLane(d)
    BY <1>5 DEF Hash4Equal
  <2> QED
    BY <1>3, <1>4, <1>5, <2>1, ReplacedShows
<1>6. ASSUME build.fault = "lane_no_pad", turn = BlockBytes PROVE FALSE
  BY <1>3, <1>4, <1>6, NoPadShows
<1> QED
  BY <1>5, <1>6

LEMMA BatchVouched ==
    ASSUME Vouched, result = Running, BatchTurn
    PROVE  VouchInv'
<1> DEFINE alike == \A j \in 0 .. 3 :
              LET text == SubSeq(BatchData[j], 1, turn)
              IN  OneShot(build, text) = Hash4Equal(build, text)
<1>1. stage = "batch" /\ turn \in Nat /\ size \in Nat /\ size <= MessageBytes /\ off \in 0 .. size
      /\ build.fault \notin {"forgets", "uncounted", "stale"}
      /\ \A r \in 1 .. MaxRounds : ComesBack(build, r)
  BY DEF BatchTurn, Vouched
<1>2. alike /\ build.hash4 = "avx2" =>
         /\ turn + 1 > BlockBytes - 1 => build.fault # "replaced"
         /\ turn + 1 > BlockBytes => build.fault # "lane_no_pad"
  <2> SUFFICES ASSUME alike, build.hash4 = "avx2"
               PROVE  /\ turn + 1 > BlockBytes - 1 => build.fault # "replaced"
                      /\ turn + 1 > BlockBytes => build.fault # "lane_no_pad"
    OBVIOUS
  <2>1. /\ turn > BlockBytes - 1 => build.fault # "replaced"
        /\ turn > BlockBytes => build.fault # "lane_no_pad"
    BY <1>1 DEF Vouched
  <2>2. /\ turn = BlockBytes - 1 => build.fault # "replaced"
        /\ turn = BlockBytes => build.fault # "lane_no_pad"
    BY BatchTold
  <2>3. PICK B \in Nat \ {0} : B = BlockBytes
    BY FewBytes
  <2>4. /\ turn + 1 > B - 1 => turn > B - 1 \/ turn = B - 1
        /\ turn + 1 > B => turn > B \/ turn = B
    BY <1>1, <2>3
  <2> QED
    BY <2>1, <2>2, <2>3, <2>4
<1> HIDE DEF alike
<1>3. CASE Return(9)
  BY <1>3, Complained
<1>4. CASE /\ alike /\ turn' = turn + 1
           /\ UNCHANGED <<program, build, stage, stream, result>>
  <2>1. UNCHANGED <<size, off, fed>> /\ turn' \in Nat
    BY <1>1, <1>4 DEF stream
  <2>2. \A r : ComesBack(build, r)' <=> ComesBack(build, r)
    BY <1>4 DEF ComesBack
  <2> QED
    BY <1>1, <1>2, <1>4, <2>1, <2>2 DEF VouchInv, Vouched, Running
<1>5. CASE alike /\ turn = MessageBytes /\ Return(0)
  <2>1. UNCHANGED <<program, build, stage, turn, size, off, fed>>
    BY <1>5 DEF Return, stream
  <2>2. \A r : ComesBack(build, r)' <=> ComesBack(build, r)
    BY <2>1 DEF ComesBack
  <2>3. Caught
    <3>1. turn + 1 > BlockBytes /\ turn + 1 > BlockBytes - 1
      BY <1>5, FewBytes, ReachAssumption, TestAssumption
    <3> QED
      BY <1>1, <1>2, <1>5, <3>1 DEF Caught
  <2>4. Vouched' /\ Caught'
    BY <1>1, <2>1, <2>2, <2>3 DEF Vouched, Caught
  <2> QED
    BY <2>4 DEF VouchInv
<1> QED
  BY <1>3, <1>4, <1>5 DEF BatchTurn, alike

\* Whatever the fault, but for one that pads the whole buffer, two contexts that hold and
\* count one message are closed alike.
LEMMA ClosedAlike ==
    ASSUME NEW b, b.fault # "stale", NEW c \in Context, NEW e \in Context, NEW m \in Seq(Bytes),
           Holds(c, m), Counts(c, m), Holds(e, m), Counts(e, m), c.v.rounds = e.v.rounds
    PROVE  Final(b, c) = Final(b, e)
<1>1. FinalDigest(c) = FinalDigest(e)
  BY Finished
<1>2. CASE b.fault # "replaced"
  BY <1>1, <1>2, ExactFinal
<1>3. CASE b.fault = "replaced"
  <2>1. c.total_lo = e.total_lo /\ c.total_hi = e.total_hi
    BY <1>1 DEF FinalDigest, Digest
  <2>2. PICK s \in Seq(Block), q \in Seq(Block) : s = c.v.blocks /\ q = e.v.blocks
    BY DEF Context
  <2>3. PICK x, y : x = FinalBlock(c.buffer, c.buffer_len) /\ y = FinalBlock(e.buffer, e.buffer_len)
    OBVIOUS
  <2>4. Append(s, x) = Append(q, y)
    BY <1>1, <2>2, <2>3 DEF FinalDigest, Digest
  <2>5. s = q
    BY ONLY SMTT(30), s \in Seq(Block), q \in Seq(Block), <2>4, SameLast
  <2>6. PICK B \in Nat \ {0}, n \in Nat, x1 \in Nat, l \in Nat, o \in Nat :
           /\ B = BlockBytes /\ n = Len(s) /\ x1 = n * B /\ l = c.buffer_len /\ o = e.buffer_len
    <3>1. PICK B \in Nat \ {0}, n \in Nat : B = BlockBytes /\ n = Len(s)
      BY FewBytes
    <3>2. n * B \in Nat /\ c.buffer_len \in Nat /\ e.buffer_len \in Nat
      BY <3>1 DEF Context
    <3> QED
      BY <3>1, <3>2
  <2>7. x1 + l = x1 + o
    <3>1. n * B + l = Len(m)
      BY <2>2, <2>6 DEF Holds
    <3>2. n * B + o = Len(m)
      BY <2>2, <2>5, <2>6 DEF Holds
    <3> QED
      BY <2>6, <3>1, <3>2
  <2>8. l = o
    BY ONLY SMT, x1 \in Nat, l \in Nat, o \in Nat, <2>7
  <2>9. \A k \in 1 .. l : c.buffer[k] = e.buffer[k]
    BY <2>2, <2>5, <2>6, <2>8 DEF Holds
  <2>10. FinalBlockReplaced(c.buffer, l) = FinalBlockReplaced(e.buffer, l)
    <3>1. \A k \in 1 .. B : k <= l => c.buffer[k] = e.buffer[k]
      <4> SUFFICES ASSUME NEW k \in 1 .. B, k <= l PROVE c.buffer[k] = e.buffer[k]
        OBVIOUS
      <4>1. k \in 1 .. l
        BY <2>6
      <4> QED
        BY <2>9, <4>1
    <3> QED
      BY <2>6, <3>1 DEF FinalBlockReplaced
  <2> QED
    BY <1>3, <2>1, <2>2, <2>5, <2>6, <2>8, <2>10 DEF Final
<1> QED
  BY <1>2, <1>3

LEMMA ShortPieces ==
    ASSUME Caught
    PROVE  CutsAgree({n \in Pieces : n <= 31})
<1> SUFFICES ASSUME NEW first \in Lens, NEW second \in Pieces, second <= 31
             PROVE  LET text == Prefix(first + second)
                        one  == Update(build, InitCtx(MaxRounds), Prefix(first))
                        two  == Update(build, one, SubSeq(text, first + 1, first + second))
                    IN  Final(build, two) = OneShot(build, text)
  BY DEF CutsAgree
<1>1. PICK n \in Nat, p \in Nat : n = first /\ p = second /\ p <= 31
  BY ReachAssumption
<1>2. n + p <= Longest /\ n \in 0 .. Longest /\ n + p \in 0 .. Longest
  <2>1. PICK most \in FuzzSizes \cup {MessageBytes} : n + p <= most
    BY <1>1, ReachAssumption
  <2>2. most <= Longest /\ most \in Nat /\ Longest \in Nat
    BY TestDataTyped, TestAssumption
  <2> QED
    BY <2>1, <2>2
<1>3. PICK text \in Seq(Bytes) : text = Prefix(n + p) /\ Len(text) = n + p /\ Len(text) < WordRadix
  BY <1>2, PrefixTyped
<1>4. PICK head \in Seq(Bytes) : head = Prefix(n) /\ Len(head) < WordRadix
  BY <1>2, PrefixTyped
<1>5. PICK piece \in Seq(Bytes) : /\ piece = SubSeq(text, n + 1, n + p) /\ Len(piece) = p
                                  /\ Len(piece) < WordRadix /\ head \o piece = text
  <2>1. PICK t \in Seq(Bytes) : /\ t = SubSeq(TestData, n + 1, n + p) /\ Len(t) < WordRadix
                                /\ Prefix(n) \o t = Prefix(n + p)
    BY <1>2, PrefixGrows
  <2>2. t = SubSeq(text, n + 1, n + p)
    <3>1. text = SubSeq(TestData, 1, n + p)
      BY <1>3 DEF Prefix
    <3> QED
      BY <1>2, <1>3, <2>1, <3>1, TestDataTyped
  <2>3. Len(t) = p
    BY <1>2, <2>1, TestDataTyped
  <2> QED
    BY <1>3, <1>4, <2>1, <2>2, <2>3
<1>6. build.fault \notin {"forgets", "uncounted"} /\ build.fault # "stale"
  BY DEF Caught
<1>7. PICK one \in Context : /\ one = UpdateCtx(InitCtx(MaxRounds), head) /\ one.v.rounds = MaxRounds
                             /\ Holds(one, head) /\ Counts(one, head)
  BY <1>4, FreshUpdate
<1>8. PICK w \in Context : /\ w = UpdateCtx(InitCtx(MaxRounds), text) /\ w.v.rounds = MaxRounds
                           /\ Holds(w, text) /\ Counts(w, text)
  BY <1>3, FreshUpdate
<1>9. PICK two \in Context : /\ two = UpdateCtx(one, piece) /\ two.v.rounds = MaxRounds
                             /\ Holds(two, text) /\ Counts(two, text)
  <2>0. one \in Context /\ Holds(one, head) /\ Counts(one, head) /\ Len(piece) < WordRadix
    BY <1>5, <1>7
  <2>1. LET u == UpdateCtx(one, piece)
        IN  /\ u \in Context /\ u.v.rounds = one.v.rounds
            /\ Holds(u, head \o piece) /\ Counts(u, head \o piece)
    BY ONLY head \in Seq(Bytes), piece \in Seq(Bytes), <2>0, Updated
  <2> QED
    BY <1>5, <1>7, <2>1
<1>10. one = Update(build, InitCtx(MaxRounds), head) /\ w = Update(build, InitCtx(MaxRounds), text)
  <2>1. PICK i \in Context : i = InitCtx(MaxRounds)
    BY WipedContext
  <2>2. Update(build, i, head) = UpdateCtx(i, head) /\ Update(build, i, text) = UpdateCtx(i, text)
    BY <1>6, <2>1, PlainUpdate
  <2> QED
    BY <1>7, <1>8, <2>1, <2>2
<1>11. two = Update(build, one, piece)
  <2>1. PICK B \in Nat : B = BlockBytes /\ B > 31
    BY FewBytes
  <2>2. PICK t \in 0 .. p : t = Take(one, p)
    <3>1. PICK l \in 0 .. B - 1 : l = one.buffer_len
      BY <1>7, <2>1 DEF Context
    <3>2. Take(one, p) = IF l = 0 THEN 0 ELSE IF p < B - l THEN p ELSE B - l
      BY <2>1, <3>1 DEF Take
    <3> QED
      BY <1>1, <2>1, <3>1, <3>2
  <2>3. PICK x \in 0 .. B - 1 : x = p - t
    BY <1>1, <2>1, <2>2
  <2>4. x = 0 * B + x
    BY <2>1, <2>3
  <2>5. (0 * B + x) \div B = 0
    <3>1. PICK D \in Nat \ {0} : D = B
      BY <2>1
    <3>2. 0 \in Nat /\ x \in 0 .. D - 1
      BY <2>3, <3>1
    <3>3. (0 * D + x) \div D = 0
      BY ONLY D \in Nat \ {0}, <3>2, DivModUnique
    <3> QED
      BY <3>1, <3>3
  <2>6. Whole(one, p) = 0
    BY <2>1, <2>2, <2>3, <2>4, <2>5 DEF Whole
  <2>7. Update(build, one, piece) = UpdateCtx(one, piece)
    BY <1>5, <1>6, <2>6, PlainUpdate
  <2> QED
    BY <1>9, <2>7
<1>12. Final(build, two) = Final(build, w)
  BY <1>6, <1>8, <1>9, ClosedAlike
<1> QED
  BY <1>1, <1>3, <1>4, <1>5, <1>8, <1>10, <1>11, <1>12 DEF OneShot

LEMMA DigestsVouched ==
    ASSUME Caught, build.hash4 = "avx2", NEW bytes \in Lens, bytes <= MessageBytes
    PROVE  LET text == Prefix(bytes)
           IN  /\ OneShot(build, text) = MessageDigest(text, MaxRounds)
               /\ Hash4Equal(build, text) = MessageDigest(text, MaxRounds)
<1>1. bytes \in 0 .. Longest
  <2>1. PICK n \in Nat, m \in Nat : n = bytes /\ m = MessageBytes /\ n <= m
    BY ReachAssumption, TestAssumption
  <2>2. m <= Longest /\ Longest \in Nat
    BY <2>1, TestDataTyped
  <2> QED
    BY <2>1, <2>2
<1>2. PICK d \in Seq(Bytes) : d = Prefix(bytes) /\ Len(d) < WordRadix
  BY <1>1, PrefixTyped
<1>3. build.fault \notin {"forgets", "uncounted", "stale", "replaced", "lane_no_pad"}
  BY DEF Caught
<1>4. OneShot(build, d) = MessageDigest(d, MaxRounds)
  <2>1. PICK i \in Context : i = InitCtx(MaxRounds)
    BY WipedContext
  <2>2. Update(build, i, d) = UpdateCtx(i, d)
    BY <1>3, <2>1, PlainUpdate
  <2>3. OneShot(build, d) = FinalDigest(UpdateCtx(i, d))
    BY <1>3, <2>1, <2>2, ExactFinal DEF OneShot
  <2>4. FinalDigest(UpdateCtx(InitCtx(MaxRounds), d)) = MessageDigest(d, MaxRounds)
    BY <1>2, OneCall, BlockAssumption
  <2> QED
    BY <2>1, <2>3, <2>4
<1>5. Hash4Equal(build, d) = MessageDigest(d, MaxRounds)
  <2>1. Hash4Equal(build, d) = HashLane(d)
    BY <1>3 DEF Hash4Equal
  <2> QED
    BY <1>2, <2>1, LaneHolds
<1> QED
  BY <1>2, <1>4, <1>5

\* A self-test that passes vouches for every short piece behind any other, with the AVX2
\* four-way hash for the digests at every length it tries, and for the inverse at every
\* number of rounds: whatever the sizes of blocks and messages, so long as a block is longer
\* than the longest cut and no longer than the longest message.
THEOREM PassedTestVouches == TestSpec => []PassVouches
<1>1. TestInit => VouchInv
  <2> SUFFICES ASSUME TestInit, program = "self_test" PROVE Vouched /\ result # 0
    BY DEF VouchInv
  <2>1. turn = 0 /\ off = 0 /\ result = Running /\ stage = "known" /\ size = 0
    BY DEF TestInit
  <2>2. 0 \in 0 .. 0 /\ 0 <= MessageBytes
    BY TestAssumption
  <2> QED
    BY <2>1, <2>2 DEF Vouched, Running
<1>2. VouchInv /\ [TestNext]_testVars => VouchInv'
  <2> SUFFICES ASSUME VouchInv, [TestNext]_testVars PROVE VouchInv'
    OBVIOUS
  <2>1. CASE UNCHANGED testVars
    BY <2>1 DEF testVars, stream, VouchInv, Vouched, Caught, Remains, ComesBack
  <2>2. CASE program # "self_test"
    <3>1. program' = program
      BY <2>2 DEF testVars, TestNext, KnownAnswers, Piece, Compare, FuzzCompare, InverseTurn,
                  BatchTurn, Return, Enter
    <3> QED
      BY <2>2, <3>1 DEF VouchInv
  <2>3. CASE program = "self_test" /\ TestNext
    <3>1. Vouched /\ result = Running
      BY <2>3 DEF VouchInv, TestNext
    <3>2. ~FuzzCompare
      BY <3>1 DEF FuzzCompare, Vouched
    <3> QED
      BY <2>3, <3>1, <3>2, KnownAnswersVouched, PieceVouched, CompareVouched, InverseVouched,
         BatchVouched DEF TestNext
  <2> QED
    BY <2>1, <2>2, <2>3
<1>3. VouchInv => PassVouches
  <2> SUFFICES ASSUME VouchInv, Passed
               PROVE  /\ CutsAgree({n \in Pieces : n <= 31})
                      /\ build.hash4 = "avx2" =>
                            \A bytes \in Lens : bytes <= MessageBytes =>
                                LET text == Prefix(bytes)
                                IN  /\ OneShot(build, text) = MessageDigest(text, MaxRounds)
                                    /\ Hash4Equal(build, text) = MessageDigest(text, MaxRounds)
                      /\ \A r \in 1 .. MaxRounds : ComesBack(build, r)
    BY DEF PassVouches, PassMeansShortPieces, PassMeansDigests, PassMeansInverse
  <2>1. Caught
    BY DEF VouchInv, Passed
  <2>2. CutsAgree({n \in Pieces : n <= 31})
    BY <2>1, ShortPieces
  <2>3. build.hash4 = "avx2" =>
           \A bytes \in Lens : bytes <= MessageBytes =>
               LET text == Prefix(bytes)
               IN  /\ OneShot(build, text) = MessageDigest(text, MaxRounds)
                   /\ Hash4Equal(build, text) = MessageDigest(text, MaxRounds)
    BY <2>1, DigestsVouched
  <2> QED
    BY <2>1, <2>2, <2>3 DEF Caught
<1> QED
  BY <1>1, <1>2, <1>3, PTL DEF TestSpec

-----------------------------------------------------------------------------
(* Hash4.                                                                  *)

\* Slots 1 .. n - 1 are stored; everything else is as at the call.
StoredUpTo(n) ==
    /\ \A j \in 1 .. n - 1 : Overwritten(j) \/ Right(j)
    /\ \A a \in Address : (\A j \in 1 .. n - 1 : a \notin Slot(j)) => memory[a] = before[a]

BatchInv ==
    /\ variant \in {"portable", "avx2"} /\ len \in Nat
    /\ data \in [Inputs -> Nat] /\ \A j \in Inputs : data[j] + len <= Size
    /\ out \in Nat /\ Start(5) <= Size
    /\ next \in 1 .. 5
    /\ DOMAIN memory = Address /\ DOMAIN before = Address
    /\ StoredUpTo(next)
    /\ variant = "avx2" =>
          next \in {1, 5} /\ taken \in {<< >>, [j \in Inputs |-> Message(before, j)]}

\* A slot lies in the memory, and no two slots have an address in common.
LEMMA SlotsApart ==
    ASSUME out \in Nat, Start(5) <= Size, NEW i \in Inputs
    PROVE  /\ Slot(i) \subseteq Address
           /\ \A j \in Inputs \ {i} : Slot(i) \cap Slot(j) = {}
<1>1. PICK D \in Nat \ {0} : D = DigestBytes
  BY MemoryAssumption
<1>2. /\ Start(1) = out /\ Start(2) = out + D /\ Start(3) = out + 2 * D
      /\ Start(4) = out + 3 * D /\ Start(5) = out + 4 * D
  BY <1>1 DEF Start
<1>3. \A j \in Inputs : Slot(j) = Start(j) .. Start(j) + D - 1
  BY <1>1 DEF Slot
<1>4. i \in {1, 2, 3, 4} /\ Inputs = {1, 2, 3, 4}
  BY DEF Inputs
<1>5. Slot(i) \subseteq Address
  <2>1. Start(i) \in Nat /\ Start(5) \in Nat /\ Start(i) + D <= Start(5)
    BY <1>2, <1>4
  <2>2. Size \in Nat /\ D \in Nat
    BY MemoryAssumption
  <2> QED
    BY <1>3, <2>1, <2>2 DEF Address
<1>6. ASSUME NEW j \in Inputs \ {i} PROVE Slot(i) \cap Slot(j) = {}
  <2>1. /\ Start(i) \in Nat /\ Start(j) \in Nat
        /\ Start(i) + D <= Start(j) \/ Start(j) + D <= Start(i)
    BY <1>2, <1>4
  <2> QED
    BY <2>1, <1>1, <1>3
<1> QED
  BY <1>5, <1>6

\* A message that lies in addresses where two memories agree is the same in both.
LEMMA SameMessage ==
    ASSUME NEW m, NEW n, NEW j \in Inputs, data \in [Inputs -> Nat], len \in Nat,
           data[j] + len <= Size, \A a \in Address \cap Source(j) : m[a] = n[a]
    PROVE  Message(m, j) = Message(n, j)
<1>1. \A k \in 0 .. len - 1 : data[j] + k \in Address \cap Source(j)
  BY MemoryAssumption DEF Address, Source
<1> QED
  BY <1>1 DEF Message

LEMMA InitInv == BatchInit => BatchInv
  BY MemoryAssumption DEF BatchInit, BatchInv, StoredUpTo, Inputs, Address

\* A call of frogbard_hash stores one more slot.
LEMMA HashOneInv == BatchInv /\ HashOne => BatchInv'
<1> SUFFICES ASSUME BatchInv, HashOne PROVE BatchInv'
  OBVIOUS
<1>1. /\ variant = "portable" /\ next \in Inputs /\ next' = next + 1
      /\ memory' = Store(memory, next, Message(memory, next))
      /\ UNCHANGED <<variant, len, data, out, taken, before>>
  BY DEF HashOne
<1>2. /\ \A j : Source(j)' = Source(j) /\ Start(j)' = Start(j) /\ Slot(j)' = Slot(j)
      /\ \A m, j : Message(m, j)' = Message(m, j)
      /\ \A j : Overwritten(j)' = Overwritten(j)
  BY <1>1 DEF Source, Start, Slot, Message, Overwritten
<1>3. /\ DOMAIN memory' = Address
      /\ \A a \in Address : memory'[a] = IF a \in Slot(next)
                                          THEN HashByte(Message(memory, next), a - Start(next))
                                          ELSE memory[a]
  BY <1>1 DEF Store
<1>4. ASSUME NEW j \in 1 .. next PROVE (Overwritten(j) \/ Right(j))'
  <2>1. CASE j = next
    <3>1. CASE \E i \in 1 .. j - 1 : Slot(i) \cap Source(j) # {}
      BY <3>1, <1>1, <1>2 DEF Overwritten
    <3>2. CASE \A i \in 1 .. j - 1 : Slot(i) \cap Source(j) = {}
      <4>1. \A a \in Address \cap Source(j) : memory[a] = before[a]
        BY <3>2, <2>1 DEF BatchInv, StoredUpTo
      <4>2. Message(memory, j) = Message(before, j)
        BY <4>1, <2>1, <1>1, SameMessage DEF BatchInv
      <4>3. Slot(j) \subseteq Address
        BY <2>1, <1>1, SlotsApart DEF BatchInv
      <4> QED
        BY <4>2, <4>3, <2>1, <1>1, <1>2, <1>3 DEF Right
    <3> QED
      BY <3>1, <3>2
  <2>2. CASE j # next
    <3>1. j \in 1 .. next - 1 /\ j \in Inputs
      BY <2>2, <1>1 DEF Inputs
    <3>2. CASE Overwritten(j)
      BY <3>2, <1>2
    <3>3. CASE Right(j)
      <4>1. Slot(j) \subseteq Address /\ Slot(j) \cap Slot(next) = {}
        BY <3>1, <2>2, <1>1, SlotsApart DEF BatchInv
      <4> QED
        BY <4>1, <3>3, <1>1, <1>2, <1>3 DEF Right
    <3> QED
      BY <3>1, <3>2, <3>3 DEF BatchInv, StoredUpTo
  <2> QED
    BY <2>1, <2>2
<1>5. ASSUME NEW a \in Address, \A j \in 1 .. next : a \notin Slot(j)'
      PROVE  memory'[a] = before'[a]
  BY <1>5, <1>1, <1>2, <1>3 DEF BatchInv, StoredUpTo, Inputs
<1>6. StoredUpTo(next)'
  BY <1>1, <1>4, <1>5 DEF StoredUpTo, Inputs
<1> QED
  BY <1>1, <1>2, <1>3, <1>6 DEF BatchInv, Inputs

\* The AVX2 build stores all four, of messages it read at the call.
LEMMA StoreAllInv == BatchInv /\ StoreAll => BatchInv'
<1> SUFFICES ASSUME BatchInv, StoreAll PROVE BatchInv'
  OBVIOUS
<1>1. /\ variant = "avx2" /\ next = 1 /\ next' = 5
      /\ taken = [j \in Inputs |-> Message(before, j)]
      /\ memory' = Store(Store(Store(Store(memory, 1, taken[1]), 2, taken[2]),
                               3, taken[3]), 4, taken[4])
      /\ UNCHANGED <<variant, len, data, out, taken, before>>
  BY DEF StoreAll, BatchInv
<1>2. /\ \A j : Start(j)' = Start(j) /\ Slot(j)' = Slot(j)
      /\ \A m, j : Message(m, j)' = Message(m, j)
  BY <1>1 DEF Start, Slot, Message
<1>3. \A j \in Inputs : Slot(j) \subseteq Address /\ \A i \in Inputs \ {j} : Slot(i) \cap Slot(j) = {}
  BY SlotsApart DEF BatchInv
<1>4. 1 \in Inputs /\ 2 \in Inputs /\ 3 \in Inputs /\ 4 \in Inputs /\ Inputs = {1, 2, 3, 4}
  BY DEF Inputs
<1>5. /\ DOMAIN memory' = Address
      /\ \A j \in Inputs : \A a \in Slot(j) : memory'[a] = HashByte(taken[j], a - Start(j))
      /\ \A a \in Address : (\A j \in Inputs : a \notin Slot(j)) => memory'[a] = memory[a]
  BY <1>1, <1>3, <1>4 DEF Store
<1>6. \A j \in Inputs : Right(j)'
  BY <1>1, <1>2, <1>5 DEF Right
<1>7. \A a \in Address : memory[a] = before[a]
  BY <1>1 DEF BatchInv, StoredUpTo
<1>8. StoredUpTo(next)'
  BY <1>1, <1>2, <1>5, <1>6, <1>7 DEF StoredUpTo, Inputs
<1> QED
  BY <1>1, <1>2, <1>5, <1>8 DEF BatchInv, Source

LEMMA StepInv == BatchInv /\ [BatchNext]_batchVars => BatchInv'
<1> SUFFICES ASSUME BatchInv, [BatchNext]_batchVars PROVE BatchInv'
  OBVIOUS
<1>1. CASE HashOne
  BY <1>1, HashOneInv
<1>2. CASE AbsorbAll
  <2>1. /\ variant = "avx2" /\ next = 1
        /\ taken' = [j \in Inputs |-> Message(memory, j)]
        /\ UNCHANGED <<variant, len, data, out, memory, next, before>>
    BY <1>2 DEF AbsorbAll
  <2>2. \A j \in Inputs : Message(memory, j) = Message(before, j)
    BY <2>1, SameMessage DEF BatchInv, StoredUpTo
  <2>3. /\ \A j : Start(j)' = Start(j) /\ Slot(j)' = Slot(j)
        /\ \A m, j : Message(m, j)' = Message(m, j)
    BY <2>1 DEF Start, Slot, Message
  <2>4. taken' = [j \in Inputs |-> Message(before, j)]'
    BY <2>1, <2>2, <2>3
  <2>5. StoredUpTo(next)'
    BY <2>1, <2>3 DEF BatchInv, StoredUpTo
  <2> QED
    BY <2>1, <2>3, <2>4, <2>5 DEF BatchInv
<1>3. CASE StoreAll
  BY <1>3, StoreAllInv
<1>4. CASE Returned \/ UNCHANGED batchVars
  BY ZenonT(30), <1>4
     DEF Returned, batchVars, BatchInv, StoredUpTo, Overwritten, Right, Source, Slot, Start, Message
<1> QED
  BY <1>1, <1>2, <1>3, <1>4 DEF BatchNext

\* Both builds of frogbard_hash4_equal store the digest of every message that no
\* earlier slot overlaps, and write nothing else, for every placement of messages
\* and output.
THEOREM DigestsUnlessOverwritten == BatchSpec => []RightUnlessOverwritten
<1>1. BatchInv => RightUnlessOverwritten
  BY DEF BatchInv, StoredUpTo, RightUnlessOverwritten, Inputs
<1> QED
  BY <1>1, InitInv, StepInv, PTL DEF BatchSpec
=============================================================================
