----------------------------- MODULE SpongeCtx -----------------------------
(***************************************************************************)
(* The streaming context of src/src/frogbard.c, frogbard_ctx, and what its *)
(* three calls compute.                                                    *)
(*                                                                         *)
(* The sponge state v is kept as what determines it when the permutation   *)
(* is ideal: the rounds it runs at and the blocks XORed into voices 0 and  *)
(* 1 so far.  The buffer keeps the bytes earlier blocks left in it.        *)
(***************************************************************************)
EXTENDS HashEncoding

ZeroBlock == [k \in 1 .. BlockBytes |-> {}]
Wiped == [v |-> [rounds |-> 0, blocks |-> << >>], buffer |-> ZeroBlock,
          buffer_len |-> 0, total_lo |-> 0, total_hi |-> 0]

-----------------------------------------------------------------------------
(* init_rounds, update_rounds and final_rounds, on a context c.            *)

\* memset, the IV and one permutation.
InitCtx(rounds) == [Wiped EXCEPT !.v.rounds = rounds]

\* Faulty: the data always go to the start of the buffer.
CopyToStart(buffer, at, data) ==
    [k \in 1 .. BlockBytes |-> IF k <= Len(data) THEN data[k] ELSE buffer[k]]

\* memcpy(buffer + at, data, Len(data)).
CopyTo(buffer, at, data) ==
    [k \in 1 .. BlockBytes |->
        IF k \in at + 1 .. at + Len(data) THEN data[k - at] ELSE buffer[k]]

\* add_total_bytes: a carry when the low word has wrapped.
LowTotal(c, len)  == (c.total_lo + len) % WordRadix
\* Faulty: no carry.
HighTotalNoCarry(c, len) == c.total_hi
HighTotal(c, len) == IF LowTotal(c, len) < c.total_lo
                     THEN (c.total_hi + 1) % WordRadix ELSE c.total_hi

\* Faulty: more than the buffer has room for.
TakeAll(c, len) == IF c.buffer_len = 0 THEN 0 ELSE len

\* How much of data goes to a buffer that already holds something.
Take(c, len) ==
    LET room == BlockBytes - c.buffer_len
    IN  IF c.buffer_len = 0 THEN 0 ELSE IF len < room THEN len ELSE room

\* What the buffer holds then, and whether that is a whole block.
Topped(c, data) == CopyTo(c.buffer, c.buffer_len, SubSeq(data, 1, Take(c, Len(data))))
Fills(c, len)   == c.buffer_len # 0 /\ c.buffer_len + Take(c, len) = BlockBytes

\* The blocks that are absorbed straight from data, and the bytes behind them.
Whole(c, len) == (len - Take(c, len)) \div BlockBytes
Behind(c, len) == (len - Take(c, len)) % BlockBytes
Straight(c, data) ==
    LET take == Take(c, Len(data))
    IN  [i \in 1 .. Whole(c, Len(data)) |->
            [k \in 1 .. BlockBytes |-> data[take + (i - 1) * BlockBytes + k]]]

UpdateCtx(c, data) ==
    LET len    == Len(data)
        behind == Behind(c, len)
        topped == Topped(c, data)
    IN  IF len = 0 THEN c
        ELSE [v |-> [c.v EXCEPT !.blocks =
                       @ \o (IF Fills(c, len) THEN <<topped>> ELSE << >>)
                         \o Straight(c, data)],
              buffer |-> IF behind = 0 THEN topped
                         ELSE CopyTo(topped, 0, SubSeq(data, len - behind + 1, len)),
              buffer_len |-> IF behind # 0 THEN behind
                             ELSE IF Fills(c, len) THEN 0
                             ELSE c.buffer_len + Take(c, len),
              total_lo |-> LowTotal(c, len),
              total_hi |-> HighTotal(c, len)]

\* Faulty: the whole buffer is copied, the bytes of earlier blocks included; the
\* last pad byte replaces what is there.
FinalBlockStale(buffer, buffer_len) ==
    [k \in 1 .. BlockBytes |->
        LET one == IF k = buffer_len + 1 THEN Xor(buffer[k], FirstPad) ELSE buffer[k]
        IN  IF k = BlockBytes THEN Xor(one, LastPad) ELSE one]
FinalBlockReplaced(buffer, buffer_len) ==
    [k \in 1 .. BlockBytes |->
        IF k = BlockBytes THEN LastPad
        ELSE IF k = buffer_len + 1 THEN FirstPad
        ELSE IF k <= buffer_len THEN buffer[k] ELSE {}]

\* The last block: what the buffer holds, zeroes, and the two pad bytes XORed in.
FinalBlock(buffer, buffer_len) ==
    [k \in 1 .. BlockBytes |->
        LET kept == IF k <= buffer_len THEN buffer[k] ELSE {}
            one  == IF k = buffer_len + 1 THEN Xor(kept, FirstPad) ELSE kept
        IN  IF k = BlockBytes THEN Xor(one, LastPad) ELSE one]

FinalDigest(c) ==
    Digest(c.v.rounds, Append(c.v.blocks, FinalBlock(c.buffer, c.buffer_len)),
           c.total_lo, c.total_hi)

-----------------------------------------------------------------------------
(* The sponge of src/src/frogbard_avx2.c, which has no context.            *)

\* Faulty: a last block is padded only when the message does not fill its blocks.
HashLaneNoPadBlock(data) ==
    LET whole == Len(data) \div BlockBytes
        blocks == [i \in 1 .. whole |->
                     [k \in 1 .. BlockBytes |-> data[(i - 1) * BlockBytes + k]]]
        rest == SubSeq(data, whole * BlockBytes + 1, Len(data))
    IN  Digest(MaxRounds,
               IF rest = << >> /\ whole > 0 THEN blocks
               ELSE Append(blocks, FinalBlock(CopyTo(ZeroBlock, 0, rest), Len(rest))),
               Len(data), 0)

\* One lane of the AVX2 frogbard_hash4_equal: blocks straight from the message,
\* a zeroed tail, and the length in the low word only.
HashLane(data) ==
    LET whole     == Len(data) \div BlockBytes
        remaining == Len(data) % BlockBytes
        tail == CopyTo(ZeroBlock, 0, SubSeq(data, whole * BlockBytes + 1, Len(data)))
    IN  Digest(MaxRounds,
               Append([i \in 1 .. whole |->
                         [k \in 1 .. BlockBytes |-> data[(i - 1) * BlockBytes + k]]],
                      FinalBlock(tail, remaining)),
               Len(data), 0)
=============================================================================
