----------------------------- MODULE HashCalls -----------------------------
(***************************************************************************)
(* The calls that hash a whole message: frogbard_hash and                  *)
(* frogbard_hash_reduced through a streaming context of their own, and the *)
(* AVX2 frogbard_hash4_equal, which has a sponge of its own                *)
(* (src/src/frogbard_avx2.c), lane by lane.                                *)
(***************************************************************************)
EXTENDS SpongeCtx

CONSTANTS
    MaxLen,        \* bound: bytes of a message
    RoundArgs      \* values a caller may pass to frogbard_hash_reduced

ASSUME CallsAssumption ==
    /\ MaxLen \in Nat /\ MaxLen < WordRadix     \* len is a size_t
    /\ RoundArgs \subseteq Nat

VARIABLE
    answer         \* the last digest returned, with what it was asked for

Messages == UNION {[1 .. n -> Bytes] : n \in 0 .. MaxLen}

Answer(data, rounds, d) == [message |-> data, rounds |-> rounds, digest |-> d]

\* Faulty: only clamped from above, as frogbard_permute_reduced does.
ClampAbove(rounds) == IF rounds > MaxRounds THEN MaxRounds ELSE rounds

Clamp(rounds) == IF rounds = 0 THEN 1
                 ELSE IF rounds > MaxRounds THEN MaxRounds ELSE rounds

HashReduced(data, rounds) == FinalDigest(UpdateCtx(InitCtx(Clamp(rounds)), data))
HashOneShot(data) == FinalDigest(UpdateCtx(InitCtx(MaxRounds), data))

-----------------------------------------------------------------------------
CallsInit == answer = NoDigest

FrogbardHash == \E data \in Messages :
    answer' = Answer(data, MaxRounds, HashOneShot(data))

FrogbardHashReduced == \E data \in Messages, r \in RoundArgs :
    answer' = Answer(data, r, HashReduced(data, r))

FrogbardHash4Lane == \E data \in Messages :
    answer' = Answer(data, MaxRounds, HashLane(data))

CallsNext == FrogbardHash \/ FrogbardHashReduced \/ FrogbardHash4Lane

CallsSpec == CallsInit /\ [][CallsNext]_answer

-----------------------------------------------------------------------------
(* Properties.                                                             *)

Distance(m, n) == IF m < n THEN n - m ELSE m - n

\* Of the numbers of rounds there are constants for, none is nearer to what was asked.
Nearest(n, rounds) ==
    n \in 1 .. MaxRounds /\ \A m \in 1 .. MaxRounds : Distance(n, rounds) <= Distance(m, rounds)

\* One-shot, reduced-round and four-way hashing give the digest the
\* specification defines for the message, at every length: the three code paths
\* and the reference pad and count alike (frogbard.c:440, frogbard_avx2.c:236).
\* The rounds are the ones asked for, or the nearest number there is (frogbard.c:488-492).
AnswersAreDigests ==
    answer # NoDigest =>
        \E n \in 1 .. MaxRounds :
            /\ Nearest(n, answer.rounds)
            /\ answer.digest = MessageDigest(answer.message, n)

\* The padding alone, without the injected length, tells messages apart, also
\* those that end in bytes that look like padding and those where both pad bytes
\* fall together (frogbard.c:448-449): no other message pads to the same blocks.
PaddingTellsApart ==
    answer # NoDigest =>
        \A m \in Messages : PaddedBlocks(m) = answer.digest.blocks => m = answer.message
=============================================================================
