------------------------------- MODULE Sponge -------------------------------
(***************************************************************************)
(* A caller of the streaming calls of src/src/frogbard.c and its context.  *)
(***************************************************************************)
EXTENDS StreamHash, SpongeCtx

CONSTANTS
    MaxData,       \* bound: bytes in one call
    MaxMessage     \* bound: bytes fed to one context

ASSUME SpongeAssumption ==
    /\ MaxData \in Nat /\ MaxData < WordRadix     \* len is a size_t
    /\ MaxMessage \in Nat

VARIABLES
    ctx            \* the caller's frogbard_ctx

vars == <<streamVars, ctx>>

Data == UNION {[1 .. n -> Bytes] : n \in 0 .. MaxData}

-----------------------------------------------------------------------------
Init == StreamInit /\ ctx = Wiped

\* frogbard_init, also on a context that is in use or was closed.
FrogbardInit ==
    /\ ctx' = InitCtx(MaxRounds)
    /\ open' = TRUE /\ message' = << >> /\ digest' = NoDigest

FrogbardUpdate ==
    /\ open
    /\ \E data \in Data :
          /\ Len(message) + Len(data) <= MaxMessage
          /\ ctx' = UpdateCtx(ctx, data)
          /\ message' = message \o data
    /\ UNCHANGED <<open, digest>>

\* The context is wiped: the caller opens it again before it is used again.
FrogbardFinal ==
    /\ open
    /\ digest' = FinalDigest(ctx)
    /\ ctx' = Wiped
    /\ open' = FALSE
    /\ UNCHANGED message

Next == FrogbardInit \/ FrogbardUpdate \/ FrogbardFinal

Spec == Init /\ [][Next]_vars

-----------------------------------------------------------------------------
(* Properties.                                                             *)

TypeOK ==
    /\ open \in BOOLEAN
    /\ message \in Seq(Bytes)
    /\ DOMAIN ctx.buffer = 1 .. BlockBytes
    /\ ctx.buffer_len \in 0 .. BlockBytes - 1
    /\ ctx.total_lo \in 0 .. WordRadix - 1 /\ ctx.total_hi \in 0 .. WordRadix - 1

\* add_total_bytes (frogbard.c:364): over any sequence of updates the two words
\* hold the number of bytes fed, modulo the square of the word, a carry included.
LengthAccounting ==
    open => ctx.total_lo + WordRadix * ctx.total_hi
              = Len(message) % (WordRadix * WordRadix)

\* However the message was cut, the context holds exactly it: each byte is once
\* either in its place of its block or in the part of the buffer that is in use.
ContextHoldsMessage ==
    open =>
        /\ Len(ctx.v.blocks) * BlockBytes + ctx.buffer_len = Len(message)
        /\ \A i \in 1 .. Len(ctx.v.blocks) : \A k \in 1 .. BlockBytes :
              ctx.v.blocks[i][k] = message[(i - 1) * BlockBytes + k]
        /\ \A k \in 1 .. ctx.buffer_len :
              ctx.buffer[k] = message[Len(ctx.v.blocks) * BlockBytes + k]

\* The digest is the one the specification defines for the whole message,
\* however the message was fed.
ImplementsStream == StreamSpec
=============================================================================
