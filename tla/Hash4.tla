------------------------------- MODULE Hash4 -------------------------------
(***************************************************************************)
(* frogbard_hash4_equal in its caller's memory.  The header asks that the  *)
(* four messages can be read, not that they lie apart from the output.     *)
(* The portable build (src/src/frogbard.c) makes four calls of             *)
(* frogbard_hash, each of which stores its digest before the next one      *)
(* reads; the AVX2 build (src/src/frogbard_avx2.c) reads all four messages *)
(* before it stores anything.                                              *)
(***************************************************************************)
EXTENDS Integers

CONSTANTS
    Size,              \* addresses of the caller's memory
    Byte,              \* uint8_t
    DigestBytes,       \* FROGBARD_DIGEST_BYTES
    HashByte(_, _),    \* a byte, by its place, of the digest of a message
    Memories,          \* what the memory may hold when the call is made
    Lengths               \* message lengths a caller may pass

Address == 0 .. Size - 1
Inputs  == 1 .. 4

ASSUME MemoryAssumption ==
    /\ Size \in Nat /\ DigestBytes \in Nat \ {0} /\ Lengths \subseteq Nat
    /\ Memories \subseteq [Address -> Byte]

VARIABLES
    variant,         \* "portable" or "avx2"
    len,           \* the length of each message
    data,          \* where each message starts: data0 .. data3
    out,           \* where the output starts
    memory,
    next,          \* the first message whose digest is not stored yet
    taken,         \* the messages the AVX2 build has in its registers
    before         \* ghost: the memory at the call

batchVars == <<variant, len, data, out, memory, next, taken, before>>

Source(j) == data[j] .. data[j] + len - 1
Start(j)  == out + (j - 1) * DigestBytes
Slot(j)   == Start(j) .. Start(j) + DigestBytes - 1

\* The message a memory m holds for input j.
Message(m, j) == [k \in 0 .. len - 1 |-> m[data[j] + k]]

\* memory with the digest of a message in slot j.
Store(m, j, message) ==
    [a \in Address |-> IF a \in Slot(j) THEN HashByte(message, a - Start(j)) ELSE m[a]]

-----------------------------------------------------------------------------
BatchInit ==
    /\ variant \in {"portable", "avx2"}
    /\ len \in Lengths
    /\ data \in [Inputs -> 0 .. Size] /\ \A j \in Inputs : data[j] + len <= Size
    /\ out \in 0 .. Size /\ Start(5) <= Size
    /\ memory \in Memories
    /\ next = 1 /\ taken = << >>
    /\ before = memory

\* Faulty: a message is hashed twice.
HashOneAgain ==
    /\ variant = "portable" /\ next \in Inputs
    /\ memory' = Store(memory, next, Message(memory, IF next = 4 THEN 3 ELSE next))
    /\ next' = next + 1
    /\ UNCHANGED <<variant, len, data, out, taken, before>>

\* One of the four calls of frogbard_hash: frogbard_update reads, frogbard_final
\* stores.
HashOne ==
    /\ variant = "portable" /\ next \in Inputs
    /\ memory' = Store(memory, next, Message(memory, next))
    /\ next' = next + 1
    /\ UNCHANGED <<variant, len, data, out, taken, before>>

\* All blocks and tails are loaded, four messages at a time.
AbsorbAll ==
    /\ variant = "avx2" /\ next = 1 /\ taken = << >>
    /\ taken' = [j \in Inputs |-> Message(memory, j)]
    /\ UNCHANGED <<variant, len, data, out, memory, next, before>>

\* The words of the four digests are stored.
StoreAll ==
    /\ variant = "avx2" /\ next = 1 /\ taken # << >>
    /\ memory' = Store(Store(Store(Store(memory, 1, taken[1]), 2, taken[2]),
                             3, taken[3]), 4, taken[4])
    /\ next' = 5
    /\ UNCHANGED <<variant, len, data, out, taken, before>>

Returned == next = 5 /\ UNCHANGED batchVars

BatchNext == HashOne \/ AbsorbAll \/ StoreAll \/ Returned

BatchSpec == BatchInit /\ [][BatchNext]_batchVars

-----------------------------------------------------------------------------
(* Properties.                                                             *)

\* Slot j holds the digest of the message the caller passed.
Right(j) == \A a \in Slot(j) : memory[a] = HashByte(Message(before, j), a - Start(j))

\* A slot that is stored before message j is read overlaps that message.
Overwritten(j) == variant = "portable" /\ \E i \in 1 .. j - 1 : Slot(i) \cap Source(j) # {}

\* Wherever the messages lie, over each other and over the output, both builds
\* return the digest of each message that no earlier slot overlaps
\* (frogbard.h:33-40, frogbard.c:671); nothing outside the output is written.
RightUnlessOverwritten ==
    /\ next = 5 => \A j \in Inputs : Overwritten(j) \/ Right(j)
    /\ \A a \in Address : (\A j \in Inputs : a \notin Slot(j)) => memory[a] = before[a]
=============================================================================
