---------------------------- MODULE HashEncoding ----------------------------
(***************************************************************************)
(* The reference digest of a whole message (analyzes/SPEC.md section 7):   *)
(* pad it, cut it into blocks, count it.                                   *)
(*                                                                         *)
(* A byte is the set of its one bits, so that XOR is symmetric difference. *)
(* The permutation is ideal: a digest stands for what determines it, the   *)
(* rounds of the permutation, the blocks absorbed and the injected count.  *)
(***************************************************************************)
EXTENDS Integers, Sequences

CONSTANTS
    BlockBytes,    \* FROGBARD_BLOCK_BYTES
    WordRadix,     \* 2^64: the range of total_lo and of total_hi
    MaxRounds,     \* FROGBARD_MAX_ROUNDS
    Bytes,         \* the bytes of messages, sets of bit numbers
    NoDigest

ASSUME BlockAssumption ==
    BlockBytes \in Nat \ {0} /\ WordRadix \in Nat \ {0} /\ MaxRounds \in Nat \ {0}

Xor(a, b) == (a \ b) \cup (b \ a)
FirstPad == {0, 1, 3}       \* 0x0b, after the last byte of the message
LastPad  == {7}             \* 0x80, in the last byte of the last block

Digest(rounds, blocks, lo, hi) ==
    [rounds |-> rounds, blocks |-> blocks, lo |-> lo, hi |-> hi]

-----------------------------------------------------------------------------
(* The reference: pad the whole message, then cut it into blocks.          *)

BlocksOf(message) == Len(message) \div BlockBytes + 1

PaddedByte(message, p) ==
    LET raw  == IF p <= Len(message) THEN message[p] ELSE {}
        one  == IF p = Len(message) + 1 THEN Xor(raw, FirstPad) ELSE raw
    IN  IF p = BlocksOf(message) * BlockBytes THEN Xor(one, LastPad) ELSE one

PaddedBlocks(message) ==
    [i \in 1 .. BlocksOf(message) |->
        [k \in 1 .. BlockBytes |-> PaddedByte(message, (i - 1) * BlockBytes + k)]]

MessageDigest(message, rounds) ==
    Digest(rounds, PaddedBlocks(message),
           Len(message) % WordRadix, (Len(message) \div WordRadix) % WordRadix)
=============================================================================
