--------------------------- MODULE CollisionSmoke ---------------------------
(***************************************************************************)
(* collision_smoke of src/tools/frogbard_analyze.c: the digests of         *)
(* successive messages, cut to a prefix, go into an open-addressing table  *)
(* until a prefix comes back.  A message's digest is arbitrary.            *)
(***************************************************************************)
EXTENDS Integers, Sequences

CONSTANTS
    WordBits,      \* 32, the bits of a digest the prefix is taken from
    MinBits,       \* 8
    Digests,       \* values those bits may have
    Spread(_)      \* the multiplication that spreads a key

Free == -1
Keys == 0 .. 2 ^ WordBits - 1

ASSUME SmokeAssumption ==
    /\ WordBits \in Nat /\ MinBits \in Nat /\ Digests \subseteq Keys
    /\ \A k \in Keys : Spread(k) \in Nat

VARIABLES
    smoke,         \* "idle", "start", "attempt", "probe" or "returned"
    limit, bits,   \* the parameters
    table,         \* keys and used: the key in each slot, or Free
    i,             \* attempts finished without a collision
    key, slot,     \* of the attempt that runs
    result,        \* -1 while it runs, -2 refused, 0 no collision; or at which attempt
    tried          \* ghost: the keys of all attempts

smokeVars == <<smoke, limit, bits, table, i, key, slot, result, tried>>

\* Faulty: room for half of the attempts.
CapacityShort(n) == CHOOSE c \in {2 ^ e : e \in 0 .. n} :
                       2 * c >= n /\ \A d \in {2 ^ e : e \in 0 .. n} : 2 * d >= n => c <= d

\* The least power of two with room for twice the attempts.
CapacityFor(n) == CHOOSE c \in {2 ^ e : e \in 0 .. n} :
                     c >= 2 * n /\ \A d \in {2 ^ e : e \in 0 .. n} : d >= 2 * n => c <= d

\* The slots are 0 .. capacity - 1.
Capacity == CapacityFor(limit)

\* digest_prefix.
DigestPrefix(digest, n) == IF n = WordBits THEN digest ELSE digest % 2 ^ n

Home(k) == Spread(k) % Capacity

\* Faulty: every other slot.
AfterNext(s) == (s + 2) % Capacity
After(s)     == (s + 1) % Capacity

\* Faulty: keys with one home are taken for equal.
SameHome(s) == Home(table[s]) = Home(key)
SameKey(s)  == table[s] = key

-----------------------------------------------------------------------------
SmokeInit ==
    /\ smoke = "idle" /\ limit = 0 /\ bits = 0
    /\ table = << >>
    /\ i = 0 /\ key = 0 /\ slot = 0 /\ result = -1
    /\ tried = << >>

Call(n, b) ==
    /\ smoke = "idle" /\ smoke' = "start"
    /\ limit' = n /\ bits' = b
    /\ UNCHANGED <<table, i, key, slot, result, tried>>

\* Parameters out of range, or no memory.
Refuse ==
    /\ smoke = "start"
    /\ smoke' = "returned" /\ result' = -2
    /\ UNCHANGED <<limit, bits, table, i, key, slot, tried>>

Allocate ==
    /\ smoke = "start" /\ bits \in MinBits .. WordBits
    /\ table' = [s \in 0 .. Capacity - 1 |-> Free]
    /\ smoke' = "attempt"
    /\ UNCHANGED <<limit, bits, i, key, slot, result, tried>>

\* The next message is hashed.
Attempt ==
    /\ smoke = "attempt" /\ i < limit
    /\ \E digest \in Digests : key' = DigestPrefix(digest, bits)
    /\ slot' = Home(key')
    /\ tried' = Append(tried, key')
    /\ smoke' = "probe"
    /\ UNCHANGED <<limit, bits, table, i, result>>

\* One turn of the probe loop.
Probe ==
    /\ smoke = "probe" /\ table[slot] # Free
    /\ \/ SameKey(slot) /\ smoke' = "returned" /\ result' = i + 1 /\ UNCHANGED slot
       \/ ~SameKey(slot) /\ slot' = After(slot) /\ UNCHANGED <<smoke, result>>
    /\ UNCHANGED <<limit, bits, table, i, key, tried>>

Insert ==
    /\ smoke = "probe" /\ table[slot] = Free
    /\ table' = [table EXCEPT ![slot] = key]
    /\ i' = i + 1
    /\ smoke' = "attempt"
    /\ UNCHANGED <<limit, bits, key, slot, result, tried>>

GiveUp ==
    /\ smoke = "attempt" /\ i = limit
    /\ smoke' = "returned" /\ result' = 0
    /\ UNCHANGED <<limit, bits, table, i, key, slot, tried>>

SmokeNext == Refuse \/ Allocate \/ Attempt \/ Probe \/ Insert \/ GiveUp

-----------------------------------------------------------------------------
(* Properties.                                                             *)

\* The attempt reported (frogbard_analyze.c:197) is the first whose prefix had
\* come up before, and "no collision" means that none had: no attempt is lost in
\* the table and no other key is taken for an equal one.
AnswerTrue ==
    LET repeats(n) == \E m \in 1 .. n - 1 : tried[m] = tried[n]
    IN  /\ result > 0 => /\ Len(tried) = result /\ repeats(result)
                         /\ \A n \in 1 .. result - 1 : ~repeats(n)
        /\ result = 0 => /\ Len(tried) = limit
                         /\ \A n \in 1 .. limit : ~repeats(n)

\* What linear probing rests on: between a key's home and its slot, going round
\* the end of the table, no slot is free, so a later search for it cannot stop
\* early; and it is in the table once.
Findable ==
    \A s \in DOMAIN table : table[s] # Free =>
        /\ \A n \in 0 .. (s - Home(table[s]) + Capacity) % Capacity :
              table[(Home(table[s]) + n) % Capacity] # Free
        /\ \A t \in DOMAIN table \ {s} : table[t] # table[s]
=============================================================================
