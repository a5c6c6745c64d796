----------------------------- MODULE CroackBox -----------------------------
(***************************************************************************)
(* One S-box: how tools/gen_tables.py derives it from the AES box, the two *)
(* ways src/src/frogbard.c applies it to a voice, by table and bitsliced,  *)
(* and what frogbard_self_test says of the tables it was compiled with.    *)
(* A byte, a word and a bit plane are the sets of their one bits.          *)
(***************************************************************************)
EXTENDS Integers, FiniteSets

CONSTANTS
    Log,           \* 3: bytes of 2^Log bits, voices of 2^Log words
    Columns,       \* 8, the bytes of a word
    Aes,           \* the AES box
    Uniformity,    \* 4
    Shuffles,      \* permutations random_perm may return
    Masks,         \* inxor and outxor the generator may draw
    Samples,        \* the voices of 2^Log words the two ways are compared on
    MaxCounter     \* bound: candidates the generator draws

Width  == 2 ^ Log
Bits   == 0 .. Width - 1
Byte   == SUBSET Bits
Column == 0 .. Columns - 1
Plane  == 0 .. Columns * Width - 1

ASSUME BoxAssumption ==
    /\ Log \in Nat /\ Columns \in Nat \ {0} /\ Uniformity \in Nat
    /\ Shuffles \subseteq {p \in [Bits -> Bits] : \A a, b \in Bits : p[a] = p[b] => a = b}
    /\ Masks \subseteq Byte /\ Samples \subseteq [Bits -> SUBSET Plane]
    /\ Aes \in [Byte -> Byte] /\ \A x, y \in Byte : Aes[x] = Aes[y] => x = y

VARIABLES
    pc,            \* "derive", "header", "tested"
    counter,       \* the generator's
    pin, pout, inxor, outxor,      \* FROGBARD_SBOX_PIN, .. OUT_XOR
    box, inv,      \* FROGBARD_SBOX, FROGBARD_SBOX_INV
    code,          \* what frogbard_self_test returns of the tables; -1 before
    damaged        \* ghost: the header is not what the generator wrote

meta == <<pin, pout, inxor, outxor>>
boxVars == <<pc, counter, meta, box, inv, code, damaged>>

Xor(a, b) == (a \ b) \cup (b \ a)

-----------------------------------------------------------------------------
(* derive_sbox.                                                            *)

BitPerm(x, p) == {k \in Bits : p[k] \in x}

Candidate(p, q, in, end) ==
    [x \in Byte |-> Xor(BitPerm(Aes[BitPerm(Xor(x, in), p)], q), end)]

\* Faulty: opposite fixed points are let through.
FixedOnly(b) == \E x \in Byte : b[x] = x
Forbidden(b) == \E x \in Byte : b[x] \in {x, Xor(x, Bits)}

InverseTable(b) == [y \in Byte |-> CHOOSE x \in Byte : b[x] = y]

-----------------------------------------------------------------------------
(* sbox_word_table on the words x of a voice, and derived_sbox_bitslice.   *)

ByteAt(word, c) == {k \in Bits : c * Width + k \in word}
WordTable(word, b) == {a \in Plane : a % Width \in b[ByteAt(word, a \div Width)]}
ByTable(x) == [i \in Bits |-> WordTable(x[i], box)]

\* SWAPN on words that lie s apart: the bits where s is not in the place stay with
\* the first word, the others with the second.
Swap(q, s) ==
    LET first(k)  == (k \div s) % 2 = 0
        low(word) == {k \in word : first(k)}
    IN  [i \in Bits |->
           IF first(i) THEN low(q[i]) \cup {k + s : k \in low(q[i + s])}
           ELSE {k - s : k \in q[i - s] \ low(q[i - s])} \cup (q[i] \ low(q[i]))]

\* ortho_u64.
Ortho(q) == LET f[n \in 0 .. Log] == IF n = 0 THEN q ELSE Swap(f[n - 1], 2 ^ (n - 1))
            IN  f[Log]

\* The circuit applies the AES box at every place of its planes.
AesPlanes(t) == [k \in Bits |-> {a \in Plane : k \in Aes[{i \in Bits : a \in t[i]}]}]

Flip(plane, mask) == IF mask THEN Plane \ plane ELSE plane

Pinned(q)      == [k \in Bits |-> Flip(q[pin[k]], pin[k] \in inxor)]

Bitsliced(x) ==
    LET t == AesPlanes(Pinned(Ortho(x)))
    IN  Ortho([k \in Bits |-> Flip(t[pout[k]], k \in outxor)])

-----------------------------------------------------------------------------
(* frogbard_self_test, as far as it tests tables.                          *)

Bijective(b) == \A x, y \in Byte : b[x] = b[y] => x = y

\* selftest_sbox_du: how often a difference leads to one and the same difference.
Count(b, dx, dy) == Cardinality({x \in Byte : Xor(b[x], b[Xor(x, dx)]) = dy})
DuIs(b, n) == LET counts == {Count(b, dx, dy) : dx \in Byte \ {{}}, dy \in Byte}
              IN  n \in counts /\ \A c \in counts : c <= n

\* The AES box is as uniform as the self-test asks of the box made from it.
ASSUME AesAssumption == DuIs(Aes, Uniformity)

ByteOf(n) == {k \in Bits : (n \div 2 ^ k) % 2 = 1}
Batch(base) == [i \in Bits |->
                   {a \in Plane : a % Width \in ByteOf(base + i * Columns + a \div Width)}]
Bases == {n \in 0 .. 2 ^ Width - 1 : n % (Columns * Width) = 0}

\* Faulty: the inverse table is not looked at.
EntryRightForward(x) == box[x] \notin {x, Xor(x, Bits)}
EntryRight(x) == box[x] \notin {x, Xor(x, Bits)} /\ inv[box[x]] = x

\* Faulty: the bitsliced box is not run.
SelfTestUnsliced ==
    IF ~Bijective(box) \/ ~DuIs(box, Uniformity) THEN 1
    ELSE IF \E x \in Byte : ~EntryRight(x) THEN 2
    ELSE 0

SelfTestCode ==
    IF ~Bijective(box) \/ ~DuIs(box, Uniformity) THEN 1
    ELSE IF \E x \in Byte : ~EntryRight(x) THEN 2
    ELSE IF \E base \in Bases : Bitsliced(Batch(base)) # ByTable(Batch(base)) THEN 3
    ELSE 0

-----------------------------------------------------------------------------
BoxInit ==
    /\ pc = "derive" /\ counter = 0
    /\ pin = [k \in Bits |-> k] /\ pout = [k \in Bits |-> k] /\ inxor = {} /\ outxor = {}
    /\ box = [x \in Byte |-> {}] /\ inv = [x \in Byte |-> {}]
    /\ code = -1 /\ damaged = FALSE

\* One turn of derive_sbox's loop.  The draws are pseudorandom: any of them.
Derive ==
    /\ pc = "derive"
    /\ \E p, q \in Shuffles, in, end \in Masks :
          LET b == Candidate(p, q, in, end)
          IN  \/ /\ Forbidden(b) /\ counter < MaxCounter
                 /\ counter' = counter + 1
                 /\ UNCHANGED <<pc, meta, box, inv>>
              \/ /\ ~Forbidden(b)
                 /\ pc' = "header"
                 /\ pin' = p /\ pout' = q /\ inxor' = in /\ outxor' = end
                 /\ box' = b /\ inv' = InverseTable(b)
                 /\ UNCHANGED counter
    /\ UNCHANGED <<code, damaged>>

\* The header is edited, or comes from another run of another generator.
Damage ==
    /\ pc = "header" /\ ~damaged
    /\ damaged' = TRUE
    /\ \/ \E x, y \in Byte : box' = [box EXCEPT ![x] = y] /\ UNCHANGED <<inv, meta>>
       \/ \E x, y \in Byte : box' = [box EXCEPT ![x] = box[y], ![y] = box[x]]
                             /\ UNCHANGED <<inv, meta>>
       \/ \E x, y \in Byte : inv' = [inv EXCEPT ![x] = y] /\ UNCHANGED <<box, meta>>
       \/ \E p \in Shuffles : pin' = p /\ UNCHANGED <<box, inv, pout, inxor, outxor>>
       \/ \E p \in Shuffles : pout' = p /\ UNCHANGED <<box, inv, pin, inxor, outxor>>
       \/ \E x \in Byte : inxor' = x /\ UNCHANGED <<box, inv, pin, pout, outxor>>
       \/ \E x \in Byte : outxor' = x /\ UNCHANGED <<box, inv, pin, pout, inxor>>
    /\ UNCHANGED <<pc, counter, code>>

SelfTest ==
    /\ pc = "header"
    /\ code' = SelfTestCode
    /\ pc' = "tested"
    /\ UNCHANGED <<counter, meta, box, inv, damaged>>

Tested == pc = "tested" /\ UNCHANGED boxVars

BoxNext == Derive \/ Damage \/ SelfTest \/ Tested

BoxSpec == BoxInit /\ [][BoxNext]_boxVars

-----------------------------------------------------------------------------
(* Properties.                                                             *)

\* What the permutation needs of a box and its inverse.
Inverts == \A x \in Byte : inv[box[x]] = x /\ box[inv[x]] = x

\* Whatever the generator drew (gen_tables.py:85), box and inverse undo each other,
\* no byte is mapped to itself or its complement, and the self-test agrees.
DerivedFit ==
    (pc # "derive" /\ ~damaged) =>
        Inverts /\ ~Forbidden(box) /\ code \in {-1, 0}

\* A self-test that passes (frogbard.c:534) means that the tables may be used,
\* whatever happened to the header: whichever entry, permutation or mask of it is
\* wrong, box and inverse undo each other.
PassMeansInverts == code = 0 => Inverts

\* And that the two ways to apply the box agree on any voice (frogbard.c:109), also
\* where a byte stands in another place than in the self-test's voices.
PassMeansSliced == code = 0 => \A x \in Samples : Bitsliced(x) = ByTable(x)
=============================================================================
