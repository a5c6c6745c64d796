--------------------------- MODULE AnalyzerProofs ---------------------------
(***************************************************************************)
(* The analyzer's answers are true of what it drew, for every size of a    *)
(* state, every permutation and every table.                               *)
(*                                                                         *)
(* collision_smoke: the table holds each key tried once, and no slot is    *)
(* free between a key's home and its slot, so a search that comes to a     *)
(* free slot has missed none.                                              *)
(* The scans: the counts are those of the samples drawn, turn by turn, and *)
(* the best pair so far is one of the turns before.                        *)
(* The rounds of --all: the sums are those of the samples drawn.           *)
(***************************************************************************)
EXTENDS Analyzer, NaturalLemmas

-----------------------------------------------------------------------------
(* The slots go round.                                                     *)

LEMMA Wrapped ==
    ASSUME NEW c \in Nat \ {0}, NEW x \in 0 .. c + c - 1
    PROVE  x % c = IF x < c THEN x ELSE x - c
OBVIOUS

LEMMA Cut ==
    ASSUME NEW c \in Nat \ {0}, NEW m \in Nat, NEW x \in 0 .. m - 1
    PROVE  x % c \in 0 .. m - 1
<1>1. x \div c \in Nat /\ x % c \in 0 .. c - 1 /\ (x \div c) * c + (x % c) = x
  <2>1. x \in Nat
    OBVIOUS
  <2> QED
    BY ONLY <2>1, c \in Nat \ {0}, DivMod, Zenon
<1>2. (x \div c) * c \in Nat
  BY <1>1
<1> QED
  BY <1>1, <1>2

\* The slot e behind h is e behind h, and so is no other; the slot after it is the next.
LEMMA Around ==
    ASSUME NEW c \in Nat \ {0}, NEW h \in 0 .. c - 1, NEW e \in 0 .. c - 1
    PROVE  /\ (h + e) % c \in 0 .. c - 1
           /\ (((h + e) % c) - h + c) % c = e
           /\ e + 1 < c => (((h + e) % c) + 1) % c = (h + (e + 1)) % c
           /\ e + 1 = c => (((h + e) % c) + 1) % c = (h + 0) % c
<1>1. PICK x \in 0 .. c + c - 1 : x = h + e
  OBVIOUS
<1>2. PICK s \in 0 .. c - 1 : s = x % c /\ s = IF x < c THEN x ELSE x - c
  BY Wrapped
<1>3. PICK y \in 0 .. c + c - 1 : y = s - h + c
  OBVIOUS
<1>4. y % c = e
  <2>1. y % c = IF y < c THEN y ELSE y - c
    BY Wrapped
  <2> QED
    BY <1>1, <1>2, <1>3, <2>1
<1>5. PICK z \in 0 .. c + c - 1 : z = s + 1
  OBVIOUS
<1>6. z % c = IF z < c THEN z ELSE z - c
  BY Wrapped
<1>7. ASSUME e + 1 < c PROVE z % c = (h + (e + 1)) % c
  <2>1. PICK w \in 0 .. c + c - 1 : w = h + (e + 1)
    BY <1>7
  <2>2. w % c = IF w < c THEN w ELSE w - c
    BY Wrapped
  <2> QED
    BY <1>1, <1>2, <1>5, <1>6, <2>1, <2>2
<1>8. ASSUME e + 1 = c PROVE z % c = (h + 0) % c
  <2>1. PICK w \in 0 .. c + c - 1 : w = h + 0
    OBVIOUS
  <2>2. w % c = IF w < c THEN w ELSE w - c
    BY Wrapped
  <2> QED
    BY <1>1, <1>2, <1>5, <1>6, <1>8, <2>1, <2>2
<1> QED
  BY <1>1, <1>2, <1>3, <1>4, <1>5, <1>7, <1>8

LEMMA Back ==
    ASSUME NEW c \in Nat \ {0}, NEW h \in 0 .. c - 1, NEW s \in 0 .. c - 1
    PROVE  \E d \in 0 .. c - 1 : d = (s - h + c) % c /\ (h + d) % c = s
<1>1. PICK y \in 0 .. c + c - 1 : y = s - h + c
  OBVIOUS
<1>2. PICK d \in 0 .. c - 1 : d = y % c /\ d = IF y < c THEN y ELSE y - c
  BY Wrapped
<1>3. PICK x \in 0 .. c + c - 1 : x = h + d
  OBVIOUS
<1>4. x % c = IF x < c THEN x ELSE x - c
  BY Wrapped
<1>5. x % c = s
  BY <1>1, <1>2, <1>3, <1>4
<1> QED
  BY <1>1, <1>2, <1>3, <1>5

\* The table always has a slot, also for a limit of zero.
LEMMA CapacityType == ASSUME NEW n \in Nat PROVE CapacityFor(n) \in Nat \ {0}
<1> DEFINE T == {c \in {2 ^ e : e \in 0 .. n} : c >= 2 * n}
<1>1. T \subseteq Nat
  BY PowerPositive
<1>2. 2 ^ n \in T
  <2>1. CASE n = 0
    <3>1. 1 >= 2 * 0
      OBVIOUS
    <3> QED
      BY <2>1, <3>1, PowerZero
  <2>2. CASE n # 0
    <3>1. n - 1 \in Nat /\ (n - 1) + 1 = n
      BY <2>2
    <3>2. PICK y \in Nat : y = 2 ^ (n - 1) /\ n - 1 < y /\ 2 ^ n = 2 * y
      BY <3>1, PowerPositive, PowerStep
    <3>3. 2 * y >= 2 * n
      BY <3>2
    <3> QED
      BY <3>2, <3>3
  <2> QED
    BY <2>1, <2>2
<1>3. PICK c \in T : \A d \in T : c <= d
  BY <1>1, <1>2, Smallest
<1>4. \E b \in {2 ^ e : e \in 0 .. n} :
          b >= 2 * n /\ \A d \in {2 ^ e : e \in 0 .. n} : d >= 2 * n => b <= d
  BY <1>3
<1>5. CapacityFor(n) \in {2 ^ e : e \in 0 .. n}
  BY <1>4 DEF CapacityFor
<1> QED
  BY <1>5, PowerPositive

-----------------------------------------------------------------------------
(* The table.                                                              *)

Slots == 0 .. Capacity - 1

\* How far behind its home a key stands.
Behind(s, k) == (s - Home(k) + Capacity) % Capacity

\* The table holds the keys of the attempts made so far, each once and where a search
\* for it comes before it comes to a free slot.
Stored ==
    /\ table \in [Slots -> Keys \cup {Free}]
    /\ \A k \in Keys : (\E s \in Slots : table[s] = k) <=> \E n \in 1 .. i : tried[n] = k
    /\ \A s, t \in Slots : table[s] = table[t] /\ table[s] # Free => s = t
    /\ \A s \in Slots : table[s] # Free =>
          \A n \in 0 .. Behind(s, table[s]) : table[(Home(table[s]) + n) % Capacity] # Free

\* Of the first n attempts no two had the same key.
Distinct(n) == \A m, j \in 1 .. n : tried[m] = tried[j] => m = j

\* The slots before the one that is looked at hold other keys.
Searched ==
    \E e \in Slots :
        /\ slot = (Home(key) + e) % Capacity
        /\ \A n \in 0 .. e - 1 : table[(Home(key) + n) % Capacity] \notin {Free, key}

SmokeInv ==
    /\ limit \in Nat /\ bits \in Nat
    /\ \/ smoke \in {"idle", "start"} /\ result = -1 /\ table = << >> /\ i = 0 /\ tried = << >>
       \/ smoke = "returned" /\ result = -2 /\ table = << >>
       \/ /\ tried \in Seq(Keys) /\ i \in 0 .. limit /\ Stored /\ Distinct(i)
          /\ \/ smoke = "attempt" /\ result = -1 /\ Len(tried) = i
             \/ /\ smoke = "probe" /\ result = -1 /\ i < limit /\ Searched
                /\ Len(tried) = i + 1 /\ key = tried[i + 1]
             \/ /\ smoke = "returned" /\ result = 0 /\ i = limit /\ Len(tried) = i
             \/ /\ smoke = "returned" /\ result = i + 1 /\ Len(tried) = i + 1
                /\ \E n \in 1 .. i : tried[n] = tried[i + 1]

LEMMA KeysType == Keys \subseteq Nat /\ Free \notin Keys /\ \A k \in Keys : k # Free
<1>1. PICK m \in Nat : m = 2 ^ WordBits
  BY SmokeAssumption, PowerPositive
<1> QED
  BY <1>1 DEF Keys, Free

LEMMA HomeType ==
    ASSUME limit \in Nat, NEW k \in Keys
    PROVE  Capacity \in Nat \ {0} /\ Home(k) \in Slots
<1>1. Capacity \in Nat \ {0}
  BY CapacityType DEF Capacity
<1>2. Spread(k) \in Nat
  BY SmokeAssumption
<1> QED
  BY <1>1, <1>2, DivMod DEF Home, Slots

LEMMA PrefixType ==
    ASSUME NEW d \in Digests, NEW n \in Nat
    PROVE  DigestPrefix(d, n) \in Keys
<1>1. PICK m \in Nat : m = 2 ^ WordBits
  BY SmokeAssumption, PowerPositive
<1>2. d \in 0 .. m - 1
  BY <1>1, SmokeAssumption DEF Keys
<1>3. PICK c \in Nat \ {0} : c = 2 ^ n
  BY PowerPositive
<1>4. d % c \in 0 .. m - 1
  BY <1>2, Cut
<1> QED
  BY <1>1, <1>2, <1>3, <1>4 DEF DigestPrefix, Keys

\* A search that comes to a free slot, or to the key's own, has not passed the key.
LEMMA NotPassed ==
    ASSUME limit \in Nat, Stored, Searched, key \in Keys, table[slot] = Free
    PROVE  \A s \in Slots : table[s] # key
<1> SUFFICES ASSUME NEW s \in Slots, table[s] = key PROVE FALSE
  OBVIOUS
<1>1. PICK c \in Nat \ {0} : c = Capacity
  BY CapacityType DEF Capacity
<1>2. PICK h \in 0 .. c - 1 : h = Home(key)
  BY <1>1, HomeType DEF Slots
<1>3. PICK e \in 0 .. c - 1 :
        /\ slot = (h + e) % c
        /\ \A n \in 0 .. e - 1 : table[(h + n) % c] \notin {Free, key}
  BY <1>1, <1>2 DEF Searched, Slots
<1>4. PICK d \in 0 .. c - 1 : d = (s - h + c) % c /\ (h + d) % c = s
  <2>1. s \in 0 .. c - 1
    BY <1>1 DEF Slots
  <2> QED
    BY ONLY <2>1, Back, c \in Nat \ {0}, h \in 0 .. c - 1, Zenon
<1>5. key # Free
  BY KeysType
<1>6. \A n \in 0 .. d : table[(h + n) % c] # Free
  BY <1>1, <1>2, <1>4, <1>5 DEF Stored, Behind
<1>7. CASE d < e
  <2>1. d \in 0 .. e - 1
    BY <1>7
  <2> QED
    BY <1>3, <1>4, <2>1
<1>8. CASE e <= d
  <2>1. e \in 0 .. d
    BY <1>8
  <2> QED
    BY <1>3, <1>6, <2>1
<1> QED
  BY <1>7, <1>8

-----------------------------------------------------------------------------
(* The steps.                                                              *)

LEMMA CallKeeps ==
    ASSUME SmokeInv, NEW n \in Nat, NEW b \in Nat, Call(n, b)
    PROVE  SmokeInv'
<1>1. /\ smoke = "idle" /\ smoke' = "start" /\ limit' = n /\ bits' = b
      /\ UNCHANGED <<table, i, result, tried>>
  BY DEF Call
<1>2. result = -1 /\ table = << >> /\ i = 0 /\ tried = << >>
  BY <1>1 DEF SmokeInv
<1> QED
  BY <1>1, <1>2 DEF SmokeInv

LEMMA RefuseKeeps == ASSUME SmokeInv, Refuse PROVE SmokeInv'
<1>1. /\ smoke = "start" /\ smoke' = "returned" /\ result' = -2
      /\ UNCHANGED <<limit, bits, table>>
  BY DEF Refuse
<1>2. table = << >>
  BY <1>1 DEF SmokeInv
<1> QED
  BY <1>1, <1>2 DEF SmokeInv

LEMMA AllocateKeeps == ASSUME SmokeInv, Allocate PROVE SmokeInv'
<1>1. /\ smoke = "start" /\ smoke' = "attempt"
      /\ table' = [s \in Slots |-> Free]
      /\ UNCHANGED <<limit, bits, i, result, tried>>
  BY DEF Allocate, Slots
<1>2. result = -1 /\ i = 0 /\ tried = << >> /\ limit \in Nat /\ bits \in Nat
  BY <1>1 DEF SmokeInv
<1>3. Slots' = Slots
  BY <1>1 DEF Slots, Capacity
<1>4. Stored'
  <2>1. table' \in [Slots -> Keys \cup {Free}] /\ \A s \in Slots : table'[s] = Free
    BY <1>1
  <2>2. \A k \in Keys : ~(\E s \in Slots : table'[s] = k) /\ ~(\E n \in 1 .. i' : tried'[n] = k)
    BY <1>1, <1>2, <2>1, KeysType
  <2> QED
    BY <1>3, <2>1, <2>2 DEF Stored
<1>5. Distinct(i)'
  BY <1>1, <1>2 DEF Distinct
<1>6. tried' \in Seq(Keys) /\ Len(tried') = i' /\ i' \in 0 .. limit'
  BY <1>1, <1>2
<1> QED
  BY <1>1, <1>2, <1>4, <1>5, <1>6 DEF SmokeInv

LEMMA AttemptKeeps == ASSUME SmokeInv, Attempt PROVE SmokeInv'
<1>1. /\ smoke = "attempt" /\ i < limit /\ smoke' = "probe" /\ slot' = Home(key')
      /\ tried' = Append(tried, key')
      /\ UNCHANGED <<limit, bits, table, i, result>>
  BY DEF Attempt
<1>2. /\ limit \in Nat /\ bits \in Nat /\ tried \in Seq(Keys) /\ i \in 0 .. limit /\ Stored
      /\ Distinct(i) /\ result = -1 /\ Len(tried) = i
  BY <1>1 DEF SmokeInv
<1>3. key' \in Keys
  BY <1>2, PrefixType DEF Attempt
<1>4. /\ tried' \in Seq(Keys) /\ Len(tried') = i + 1 /\ tried'[i + 1] = key'
      /\ \A n \in 1 .. i : tried'[n] = tried[n]
  BY <1>1, <1>2, <1>3
<1>5. Stored'
  <2>1. /\ Slots' = Slots /\ Capacity' = Capacity
        /\ \A k : Home(k)' = Home(k)
        /\ \A s, k : Behind(s, k)' = Behind(s, k)
    BY <1>1 DEF Slots, Capacity, Behind, Home
  <2>2. \A k \in Keys : (\E s \in Slots : table[s] = k) <=> \E n \in 1 .. i : tried'[n] = k
    BY <1>2, <1>4 DEF Stored
  <2> QED
    BY <1>1, <1>2, <2>1, <2>2 DEF Stored
<1>6. Distinct(i)'
  BY <1>1, <1>2, <1>4 DEF Distinct
<1>7. Searched'
  <2>1. PICK c \in Nat \ {0} : c = Capacity
    BY <1>2, CapacityType DEF Capacity
  <2>2. PICK h \in 0 .. c - 1 : h = Home(key') /\ Home(key)' = h
    BY <1>1, <1>2, <1>3, <2>1, HomeType DEF Slots, Home, Capacity
  <2>3. Capacity' = c /\ Slots' = 0 .. c - 1
    BY <1>1, <2>1 DEF Capacity, Slots
  <2>4. (h + 0) % c = h
    OBVIOUS
  <2>5. slot' = (h + 0) % c /\ 0 \in 0 .. c - 1 /\ 0 .. 0 - 1 = {}
    BY <1>1, <2>2, <2>4
  <2> QED
    BY <2>2, <2>3, <2>5 DEF Searched
<1> QED
  BY <1>1, <1>2, <1>4, <1>5, <1>6, <1>7 DEF SmokeInv

\* What holds while a slot is looked at.
LEMMA Probing ==
    ASSUME SmokeInv, smoke = "probe"
    PROVE  /\ limit \in Nat /\ bits \in Nat /\ tried \in Seq(Keys) /\ i \in 0 .. limit
           /\ Stored /\ Distinct(i) /\ result = -1 /\ i < limit /\ Searched
           /\ Len(tried) = i + 1 /\ key = tried[i + 1] /\ key \in Keys /\ slot \in Slots
<1>1. /\ limit \in Nat /\ bits \in Nat /\ tried \in Seq(Keys) /\ i \in 0 .. limit
      /\ Stored /\ Distinct(i) /\ result = -1 /\ i < limit /\ Searched
      /\ Len(tried) = i + 1 /\ key = tried[i + 1]
  BY DEF SmokeInv
<1>2. key \in Keys
  BY <1>1
<1>3. slot \in Slots
  <2>1. PICK c \in Nat \ {0} : c = Capacity
    BY <1>1, CapacityType DEF Capacity
  <2>2. PICK h \in 0 .. c - 1 : h = Home(key)
    BY <1>1, <1>2, <2>1, HomeType DEF Slots
  <2>3. PICK e \in 0 .. c - 1 : slot = (h + e) % c
    BY <1>1, <2>1, <2>2 DEF Searched, Slots
  <2>4. (h + e) % c \in 0 .. c - 1
    BY Around
  <2> QED
    BY <2>1, <2>3, <2>4 DEF Slots
<1> QED
  BY <1>1, <1>2, <1>3

LEMMA ProbeKeeps == ASSUME SmokeInv, Probe PROVE SmokeInv'
<1>1. /\ smoke = "probe" /\ table[slot] # Free /\ UNCHANGED <<limit, bits, table, i, key, tried>>
      /\ \/ table[slot] = key /\ smoke' = "returned" /\ result' = i + 1 /\ UNCHANGED slot
         \/ /\ table[slot] # key /\ slot' = (slot + 1) % Capacity
            /\ UNCHANGED <<smoke, result>>
  BY DEF Probe, SameKey, After
<1>2. /\ limit \in Nat /\ bits \in Nat /\ tried \in Seq(Keys) /\ i \in 0 .. limit
      /\ Stored /\ Distinct(i) /\ result = -1 /\ i < limit /\ Searched
      /\ Len(tried) = i + 1 /\ key = tried[i + 1] /\ key \in Keys /\ slot \in Slots
  BY <1>1, Probing
<1>3. Stored' /\ Distinct(i)'
  BY <1>1, <1>2 DEF Stored, Slots, Capacity, Behind, Home, Distinct
<1>4. CASE table[slot] = key /\ smoke' = "returned" /\ result' = i + 1
  <2>1. \E n \in 1 .. i : tried[n] = key
    BY <1>2, <1>4 DEF Stored
  <2> QED
    BY <1>1, <1>2, <1>3, <1>4, <2>1 DEF SmokeInv
<1>5. CASE /\ table[slot] # key /\ slot' = (slot + 1) % Capacity
           /\ UNCHANGED <<smoke, result>>
  <2>1. PICK c \in Nat \ {0} : c = Capacity
    BY <1>2, CapacityType DEF Capacity
  <2>2. PICK h \in 0 .. c - 1 : h = Home(key)
    BY <1>2, <2>1, HomeType DEF Slots
  <2>3. PICK e \in 0 .. c - 1 :
          /\ slot = (h + e) % c
          /\ \A n \in 0 .. e - 1 : table[(h + n) % c] \notin {Free, key}
    BY <1>2, <2>1, <2>2 DEF Searched, Slots
  <2>4. Capacity' = c /\ Slots' = 0 .. c - 1 /\ Home(key)' = h
    BY <1>1, <2>1, <2>2 DEF Capacity, Slots, Home
  <2>5. CASE e + 1 < c
    <3>1. slot' = (h + (e + 1)) % c
      BY <1>5, <2>1, <2>3, <2>5, Around
    <3>2. ASSUME NEW n \in 0 .. (e + 1) - 1 PROVE table'[(h + n) % c] \notin {Free, key'}
      <4>1. CASE n = e
        BY <1>1, <1>5, <2>3, <4>1
      <4>2. CASE n # e
        <5>1. n \in 0 .. e - 1
          BY <4>2
        <5> QED
          BY <1>1, <2>3, <5>1
      <4> QED
        BY <4>1, <4>2
    <3>3. e + 1 \in 0 .. c - 1
      BY <2>5
    <3> QED
      BY <1>1, <1>2, <1>3, <1>5, <2>4, <3>1, <3>2, <3>3 DEF SmokeInv, Searched
  <2>6. CASE e + 1 = c
    <3>1. slot' = (h + 0) % c
      <4>1. (((h + e) % c) + 1) % c = (h + 0) % c
        BY <2>6, Around
      <4> QED
        BY <1>5, <2>1, <2>3, <4>1, Zenon
    <3>2. 0 \in 0 .. c - 1 /\ 0 .. 0 - 1 = {}
      OBVIOUS
    <3> QED
      BY <1>1, <1>2, <1>3, <1>5, <2>4, <3>1, <3>2 DEF SmokeInv, Searched
  <2> QED
    BY <2>5, <2>6
<1> QED
  BY <1>1, <1>4, <1>5

LEMMA InsertKeeps == ASSUME SmokeInv, Insert PROVE SmokeInv'
<1>1. /\ smoke = "probe" /\ table[slot] = Free /\ table' = [table EXCEPT ![slot] = key]
      /\ i' = i + 1 /\ smoke' = "attempt" /\ UNCHANGED <<limit, bits, key, slot, result, tried>>
  BY DEF Insert
<1>2. /\ limit \in Nat /\ bits \in Nat /\ tried \in Seq(Keys) /\ i \in 0 .. limit
      /\ Stored /\ Distinct(i) /\ result = -1 /\ i < limit /\ Searched
      /\ Len(tried) = i + 1 /\ key = tried[i + 1] /\ key \in Keys /\ slot \in Slots
  BY <1>1, Probing
<1>3. \A s \in Slots : table[s] # key
  BY <1>1, <1>2, NotPassed
<1>4. /\ table' \in [Slots -> Keys \cup {Free}] /\ table'[slot] = key
      /\ \A s \in Slots : s # slot => table'[s] = table[s]
  BY <1>1, <1>2 DEF Stored
<1>5. /\ Slots' = Slots /\ Capacity' = Capacity
      /\ \A k : Home(k)' = Home(k)
      /\ \A s, k : Behind(s, k)' = Behind(s, k)
  BY <1>1 DEF Slots, Capacity, Behind, Home
<1>6. key # Free /\ \A k \in Keys : k # Free
  BY <1>2, KeysType
<1>7. \A n \in 1 .. i + 1 : n = i + 1 \/ n \in 1 .. i
  BY <1>2
<1>8. ASSUME NEW k \in Keys
      PROVE  (\E s \in Slots : table'[s] = k) <=> \E n \in 1 .. i + 1 : tried[n] = k
  <2>1. CASE k = key
    <3>1. i + 1 \in 1 .. i + 1
      BY <1>2
    <3> QED
      BY <1>2, <1>4, <2>1, <3>1
  <2>2. CASE k # key
    <3>1. (\E s \in Slots : table'[s] = k) <=> \E s \in Slots : table[s] = k
      BY <1>1, <1>2, <1>4, <1>6, <2>2
    <3>2. (\E n \in 1 .. i + 1 : tried[n] = k) <=> \E n \in 1 .. i : tried[n] = k
      BY <1>2, <1>7, <2>2
    <3> QED
      BY <1>2, <3>1, <3>2 DEF Stored
  <2> QED
    BY <2>1, <2>2
<1>9. ASSUME NEW s \in Slots, NEW t \in Slots, table'[s] = table'[t], table'[s] # Free
      PROVE  s = t
  BY <1>2, <1>3, <1>4, <1>9 DEF Stored
<1>10. \A s \in Slots : table[s] # Free => table'[s] # Free
  BY <1>4, <1>6
<1>11. ASSUME NEW s \in Slots, table'[s] # Free, NEW n \in 0 .. Behind(s, table'[s])
       PROVE  table'[(Home(table'[s]) + n) % Capacity] # Free
  <2>1. PICK c \in Nat \ {0} : c = Capacity
    BY <1>2, CapacityType DEF Capacity
  <2>2. table'[s] \in Keys
    BY <1>4, <1>11
  <2>3. PICK h \in 0 .. c - 1 : h = Home(table'[s])
    BY <1>2, <2>1, <2>2, HomeType DEF Slots
  <2>4. (h + n) % c \in Slots
    <3>1. s \in 0 .. c - 1 /\ Behind(s, table'[s]) = (s - h + c) % c
      BY <2>1, <2>3 DEF Slots, Behind
    <3>2. \E d \in 0 .. c - 1 : d = (s - h + c) % c
      BY ONLY <3>1, Back, c \in Nat \ {0}, h \in 0 .. c - 1, Zenon
    <3>3. n \in 0 .. c - 1
      BY <3>1, <3>2
    <3> QED
      BY <2>1, <3>3, Around DEF Slots
  <2>5. CASE s = slot
    <3>1. PICK e \in 0 .. c - 1 :
            /\ slot = (h + e) % c
            /\ \A m \in 0 .. e - 1 : table[(h + m) % c] \notin {Free, key}
      BY <1>2, <1>4, <2>1, <2>3, <2>5 DEF Searched, Slots
    <3>2. Behind(s, table'[s]) = e
      <4>1. (((h + e) % c) - h + c) % c = e
        BY Around
      <4>2. Behind(s, table'[s]) = (s - h + c) % c
        BY <2>1, <2>3 DEF Behind
      <4> QED
        BY <2>5, <3>1, <4>1, <4>2, Zenon
    <3>3. CASE n = e
      BY <1>4, <1>6, <2>1, <2>3, <3>1, <3>3
    <3>4. CASE n # e
      <4>1. n \in 0 .. e - 1
        BY <3>2, <3>4
      <4>2. table[(h + n) % c] # Free
        BY <3>1, <4>1
      <4> QED
        BY <1>10, <2>1, <2>3, <2>4, <4>2
    <3> QED
      BY <3>3, <3>4
  <2>6. CASE s # slot
    <3>1. table'[s] = table[s]
      BY <1>4, <2>6
    <3>2. table[(h + n) % c] # Free
      BY <1>2, <1>11, <2>1, <2>3, <3>1 DEF Stored
    <3> QED
      BY <1>10, <2>1, <2>3, <2>4, <3>2
  <2> QED
    BY <2>5, <2>6
<1>12. Stored'
  BY <1>1, <1>4, <1>5, <1>8, <1>9, <1>11 DEF Stored
<1>13. Distinct(i + 1)
  <2>1. \A n \in 1 .. i : tried[n] # tried[i + 1]
    BY <1>2, <1>3 DEF Stored
  <2> QED
    BY <1>2, <1>7, <2>1 DEF Distinct
<1>14. Distinct(i)'
  BY <1>1, <1>13 DEF Distinct
<1>15. i' \in 0 .. limit' /\ Len(tried') = i' /\ tried' \in Seq(Keys)
  BY <1>1, <1>2
<1> QED
  BY <1>1, <1>2, <1>12, <1>14, <1>15 DEF SmokeInv

LEMMA GiveUpKeeps == ASSUME SmokeInv, GiveUp PROVE SmokeInv'
<1>1. /\ smoke = "attempt" /\ i = limit /\ smoke' = "returned" /\ result' = 0
      /\ UNCHANGED <<limit, bits, table, i, key, slot, tried>>
  BY DEF GiveUp
<1>2. /\ limit \in Nat /\ bits \in Nat /\ tried \in Seq(Keys) /\ i \in 0 .. limit /\ Stored
      /\ Distinct(i) /\ Len(tried) = i
  BY <1>1 DEF SmokeInv
<1>3. Stored' /\ Distinct(i)'
  BY <1>1, <1>2 DEF Stored, Slots, Capacity, Behind, Home, Distinct
<1> QED
  BY <1>1, <1>2, <1>3 DEF SmokeInv

\* parse_unsigned gives a number.
LEMMA ParseType ==
    ASSUME NEW fallback \in Nat, NEW text \in [negative : BOOLEAN, digits : Nat, trailing : BOOLEAN]
    PROVE  Parse(text, fallback) \in Nat
<1>1. PICK m \in Nat \ {0} : m = LongRadix
  BY ScanAssumption
<1>2. text.digits \in Nat
  OBVIOUS
<1>3. (m - text.digits) % m \in Nat
  BY <1>2
<1> QED
  BY <1>1, <1>2, <1>3 DEF Parse

LEMMA SmokeSteps == SmokeInv /\ [Next]_vars => SmokeInv'
<1> SUFFICES ASSUME SmokeInv, [Next]_vars PROVE SmokeInv'
  OBVIOUS
<1>1. CASE UNCHANGED smokeVars
  <2>1. UNCHANGED <<smoke, limit, bits, table, i, key, slot, result, tried>>
    BY <1>1 DEF smokeVars
  <2>2. /\ Stored' <=> Stored
        /\ Distinct(i)' <=> Distinct(i)
        /\ Searched' <=> Searched
    BY <2>1 DEF Stored, Slots, Capacity, Behind, Home, Distinct, Searched
  <2> QED
    BY <2>1, <2>2 DEF SmokeInv
<1>2. CASE SmokeNext
  BY <1>2, RefuseKeeps, AllocateKeeps, AttemptKeeps, ProbeKeeps, InsertKeeps, GiveUpKeeps
  DEF SmokeNext
<1>3. ASSUME Collision PROVE SmokeInv'
  <2>1. PICK b \in CollisionTexts, n \in CollisionTexts :
           Call(Parse(n, 0), Parse(b, 0)) \/ UNCHANGED smokeVars
    BY <1>3 DEF Collision
  <2>2. Parse(n, 0) \in Nat /\ Parse(b, 0) \in Nat
    BY ParseType, CollisionAssumption, 0 \in Nat
  <2> QED
    BY <1>1, <2>1, <2>2, CallKeeps
<1> QED
  BY <1>1, <1>2, <1>3 DEF Next, vars, CollisionOver, Returned

LEMMA AlwaysSmokeInv == Spec => []SmokeInv
<1>1. Init => SmokeInv
  BY DEF Init, SmokeInit, SmokeInv
<1> QED
  BY <1>1, SmokeSteps, PTL DEF Spec

\* The attempt --collision reports (frogbard_analyze.c:197) is the first whose prefix had
\* come up before; it reports none only if there was none.  No digest is lost in the
\* table, nor another taken for it, whatever the digests and wherever keys are spread.
THEOREM CollisionsAreTrue == Spec => []AnswerTrue
<1>1. ASSUME SmokeInv PROVE AnswerTrue
  <2> DEFINE repeats(n) == \E m \in 1 .. n - 1 : tried[m] = tried[n]
  <2>1. CASE ~(result >= 0)
    BY <1>1, <2>1 DEF AnswerTrue, SmokeInv
  <2>2. CASE result >= 0
    <3>1. tried \in Seq(Keys) /\ i \in 0 .. limit /\ limit \in Nat /\ Distinct(i)
      BY <1>1, <2>2 DEF SmokeInv
    <3>2. \A n \in 1 .. i : ~repeats(n)
      <4> SUFFICES ASSUME NEW n \in 1 .. i, NEW m \in 1 .. n - 1, tried[m] = tried[n]
                   PROVE  FALSE
        OBVIOUS
      <4>1. m \in 1 .. i /\ m # n
        BY <3>1
      <4> QED
        BY <3>1, <4>1 DEF Distinct
    <3>3. CASE result = 0 /\ i = limit /\ Len(tried) = i
      BY <3>1, <3>2, <3>3 DEF AnswerTrue
    <3>4. CASE /\ result = i + 1 /\ Len(tried) = i + 1
               /\ \E n \in 1 .. i : tried[n] = tried[i + 1]
      <4>1. result \in Nat /\ result > 0 /\ result - 1 = i
        BY <3>1, <3>4
      <4>2. repeats(result)
        BY <3>4, <4>1
      <4>3. \A n \in 1 .. result - 1 : ~repeats(n)
        BY <3>2, <4>1
      <4> HIDE DEF repeats
      <4>4. result # 0 /\ Len(tried) = result
        BY <3>4, <4>1
      <4> QED
        BY <4>2, <4>3, <4>4 DEF AnswerTrue, repeats
    <3> QED
      BY <1>1, <2>2, <3>3, <3>4 DEF SmokeInv
  <2> QED
    BY <2>1, <2>2
<1> QED
  BY <1>1, AlwaysSmokeInv, PTL

\* A key can be found from its home, round the end of the table (frogbard_analyze.c:196),
\* and is stored once.
THEOREM KeysAreFindable == Spec => []Findable
<1>1. ASSUME SmokeInv PROVE Findable
  <2>1. CASE table = << >>
    BY <2>1 DEF Findable
  <2>2. CASE Stored
    <3>1. DOMAIN table = Slots
      BY <2>2 DEF Stored
    <3>2. ASSUME NEW s \in Slots, table[s] # Free
          PROVE  /\ \A n \in 0 .. (s - Home(table[s]) + Capacity) % Capacity :
                        table[(Home(table[s]) + n) % Capacity] # Free
                 /\ \A t \in Slots \ {s} : table[t] # table[s]
      BY <2>2, <3>2 DEF Stored, Behind
    <3> QED
      BY <3>1, <3>2 DEF Findable
  <2> QED
    BY <1>1, <2>1, <2>2 DEF SmokeInv
<1> QED
  BY <1>1, AlwaysSmokeInv, PTL

-----------------------------------------------------------------------------
(* The bits of a state by number.                                          *)

Spots == Voice \X Lane \X Bit
Number(p) == (p[1] * Lanes + p[2]) * Width + p[3]

LEMMA Sizes ==
    \E V \in Nat \ {0}, L \in Nat \ {0}, W \in Nat \ {0} :
        /\ V = Voices /\ L = Lanes /\ W = Width /\ L * W \in Nat \ {0}
        /\ V * L * W \in Nat \ {0}
        /\ Voice = 0 .. V - 1 /\ Lane = 0 .. L - 1 /\ Bit = 0 .. W - 1
        /\ Index = 0 .. V * L * W - 1
<1>1. PICK V \in Nat \ {0}, L \in Nat \ {0}, W \in Nat \ {0} :
        V = Voices /\ L = Lanes /\ W = Width
  BY ScanAssumption
<1>2. V * L \in Nat \ {0} /\ L * W \in Nat \ {0}
  OBVIOUS
<1>3. V * L * W \in Nat \ {0}
  BY <1>2
<1> QED
  BY <1>1, <1>2, <1>3 DEF Voice, Lane, Bit, Index

LEMMA NumberType ==
    ASSUME NEW p \in Spots
    PROVE  /\ Number(p) \in Index
           /\ Number(p) = p[1] * (Lanes * Width) + p[2] * Width + p[3]
<1>1. PICK V \in Nat \ {0}, L \in Nat \ {0}, W \in Nat \ {0} :
        /\ V = Voices /\ L = Lanes /\ W = Width
        /\ Voice = 0 .. V - 1 /\ Lane = 0 .. L - 1 /\ Bit = 0 .. W - 1
        /\ Index = 0 .. V * L * W - 1
  BY Sizes
<1>2. PICK v \in 0 .. V - 1, l \in 0 .. L - 1, k \in 0 .. W - 1 : p = <<v, l, k>>
  BY <1>1 DEF Spots
<1>3. PICK x \in Nat : x = v * L + l
  BY <1>2
<1>4. x + 1 <= V * L
  <2>1. v * L + L <= V * L
    BY LessTimes
  <2> QED
    BY <1>3, <2>1
<1>5. PICK M \in Nat : M = V * L
  OBVIOUS
<1>6. x * W + W <= M * W
  BY <1>4, <1>5, LessTimes
<1>7. x * W \in Nat /\ M * W \in Nat
  OBVIOUS
<1>8. x * W + k \in 0 .. M * W - 1
  BY <1>6, <1>7
<1>9. (v * L + l) * W = v * (L * W) + l * W
  OBVIOUS
<1>10. Number(p) = x * W + k
  BY <1>1, <1>2, <1>3 DEF Number
<1> QED
  BY <1>1, <1>2, <1>3, <1>5, <1>8, <1>9, <1>10

\* A number stands for one spot, the one that the code's quotients give.
LEMMA PlaceOf ==
    ASSUME NEW a \in Index
    PROVE  /\ VoiceOf(a) \in Voice /\ LaneOf(a) \in Lane /\ a % Width \in Bit
           /\ Place(a) = <<VoiceOf(a), LaneOf(a), a % Width>>
           /\ Place(a) \in Spots /\ Number(Place(a)) = a
           /\ \A p \in Spots : Number(p) = a => p = Place(a)
<1>1. PICK V \in Nat \ {0}, L \in Nat \ {0}, W \in Nat \ {0} :
        /\ V = Voices /\ L = Lanes /\ W = Width /\ L * W \in Nat \ {0}
        /\ Voice = 0 .. V - 1 /\ Lane = 0 .. L - 1 /\ Bit = 0 .. W - 1
        /\ Index = 0 .. V * L * W - 1
  BY Sizes
<1>0. a \in Nat
  BY <1>1
<1>2. PICK x \in Nat, k \in 0 .. W - 1 : x = a \div W /\ k = a % W /\ x * W + k = a
  <2>1. a \div W \in Nat /\ a % W \in 0 .. W - 1 /\ (a \div W) * W + (a % W) = a
    BY ONLY <1>0, W \in Nat \ {0}, DivMod, Zenon
  <2> QED
    BY ONLY <2>1, Zenon
<1>3. PICK v \in Nat, l \in 0 .. L - 1 : v = x \div L /\ l = x % L /\ v * L + l = x
  BY DivMod
<1>4. a \div (L * W) = v
  <2>1. a = v * (L * W) + (l * W + k)
    <3>1. (v * L + l) * W = v * (L * W) + l * W
      OBVIOUS
    <3>2. PICK y \in Nat, z \in Nat : y = v * (L * W) /\ z = l * W
      OBVIOUS
    <3>3. a = (y + z) + k
      BY <1>2, <1>3, <3>1, <3>2
    <3> QED
      BY <1>2, <3>2, <3>3
  <2>2. l * W + k \in 0 .. L * W - 1
    <3>1. l * W + W <= L * W
      BY LessTimes
    <3>2. l * W \in Nat
      OBVIOUS
    <3> QED
      BY <3>1, <3>2
  <2>3. PICK D \in Nat \ {0} : D = L * W
    BY <1>1
  <2>4. PICK z \in 0 .. D - 1 : z = l * W + k
    BY <2>2, <2>3
  <2>5. (v * D + z) \div D = v
    BY DivModUnique
  <2> QED
    BY <2>1, <2>3, <2>4, <2>5
<1>5. v < V
  <2>1. CASE V <= v
    <3>1. V * (L * W) <= v * (L * W)
      <4>1. PICK D \in Nat : D = L * W
        BY <1>1
      <4>2. CASE V = v
        BY <4>1, <4>2
      <4>3. CASE V < v
        <5>1. V * D + D <= v * D
          BY <4>3, LessTimes
        <5> QED
          BY <4>1, <5>1
      <4> QED
        BY <2>1, <4>2, <4>3
    <3>2. v * (L * W) <= a
      <4>1. PICK D \in Nat \ {0} : D = L * W
        BY <1>1
      <4>2. (a \div D) * D + (a % D) = a /\ a % D \in 0 .. D - 1 /\ a \div D \in Nat
        BY ONLY <1>0, D \in Nat \ {0}, DivMod, Zenon
      <4>3. (a \div D) * D \in Nat
        BY <4>2
      <4>4. (a \div D) * D <= a
        BY <1>0, <4>2, <4>3
      <4> QED
        BY <1>4, <4>1, <4>4
    <3>3. a < V * (L * W)
      <4>1. V * L * W = V * (L * W)
        OBVIOUS
      <4>2. V * L * W \in Nat
        OBVIOUS
      <4> QED
        BY <1>1, <4>1, <4>2
    <3>4. V * (L * W) \in Nat /\ v * (L * W) \in Nat /\ a \in Nat
      BY <1>1
    <3> QED
      BY <3>1, <3>2, <3>3, <3>4
  <2> QED
    BY <2>1
<1>6. VoiceOf(a) = v /\ LaneOf(a) = l /\ a % Width = k
  BY <1>1, <1>2, <1>3, <1>4 DEF VoiceOf, LaneOf
<1>7. /\ v \in Voice /\ l \in Lane /\ k \in Bit
      /\ <<v, l, k>> \in Spots /\ Number(<<v, l, k>>) = a
  <2>1. v \in Voice /\ l \in Lane /\ k \in Bit
    BY <1>1, <1>3, <1>5
  <2>2. Number(<<v, l, k>>) = (v * L + l) * W + k
    BY <1>1 DEF Number
  <2> QED
    BY <1>2, <1>3, <2>1, <2>2 DEF Spots
<1>8. ASSUME NEW p \in Spots, Number(p) = a PROVE p = <<v, l, k>>
  <2>1. PICK n \in 0 .. V - 1, m \in 0 .. L - 1, j \in 0 .. W - 1 : p = <<n, m, j>>
    BY <1>1 DEF Spots
  <2>2. PICK y \in Nat : y = n * L + m
    OBVIOUS
  <2>3. y * W + j = a
    BY <1>1, <1>8, <2>1, <2>2 DEF Number
  <2>4. (y * W + j) \div W = y /\ (y * W + j) % W = j
    BY DivModUnique
  <2>5. y = x /\ j = k
    BY <1>2, <2>3, <2>4
  <2>6. (n * L + m) \div L = n /\ (n * L + m) % L = m
    BY DivModUnique
  <2>7. n = v /\ m = l
    BY <1>3, <2>2, <2>5, <2>6
  <2> QED
    BY <2>1, <2>5, <2>7
<1>9. Place(a) \in Spots /\ Number(Place(a)) = a
  BY <1>7 DEF Place, Spots, Number
<1>10. Place(a) = <<v, l, k>>
  BY <1>8, <1>9
<1> QED
  BY <1>6, <1>7, <1>8, <1>10

-----------------------------------------------------------------------------
(* Reading, flipping and counting bits.                                    *)

LEMMA ValueHas ==
    ASSUME NEW s \in State, NEW a \in Index
    PROVE  Value(s, a) = IF Has(s, a) THEN 1 ELSE 0
<1>1. PICK p : p = Place(a) /\ p = <<VoiceOf(a), LaneOf(a), a % Width>>
  BY PlaceOf
<1>2. p[1] = VoiceOf(a) /\ p[2] = LaneOf(a) /\ p[3] = a % Width
  BY <1>1
<1> QED
  BY <1>1, <1>2, Zenon DEF Value, Has

LEMMA FlipWith ==
    ASSUME NEW s \in State, NEW a \in Index
    PROVE  /\ Flip(s, a) = With(s, a) /\ With(s, a) \in State
           /\ With(s, a) # s
<1>1. PICK v \in Voice, l \in Lane, k \in Bit :
        v = VoiceOf(a) /\ l = LaneOf(a) /\ k = a % Width /\ Place(a) = <<v, l, k>>
  BY PlaceOf
<1>2. s \in [Voice -> [Lane -> SUBSET Bit]]
  BY DEF State
<1> DEFINE w == With(s, a)
<1>3. w = [n \in Voice |-> [m \in Lane |->
              {j \in Bit : (j \in s[n][m]) # (<<v, l, k>> = <<n, m, j>>)}]]
  BY <1>1 DEF With
<1>4. w \in State
  <2>1. \A n \in Voice, m \in Lane :
          {j \in Bit : (j \in s[n][m]) # (<<v, l, k>> = <<n, m, j>>)} \in SUBSET Bit
    OBVIOUS
  <2> HIDE DEF w
  <2> QED
    BY ONLY <1>3, <2>1 DEF State
<1> HIDE DEF w
<1>5. PICK f : f = Flip(s, a)
  OBVIOUS
<1>6. f = [s EXCEPT ![v] = [s[v] EXCEPT ![l] = Xor(s[v][l], {k})]]
  BY <1>1, <1>5 DEF Flip
<1>7. f \in [Voice -> [Lane -> SUBSET Bit]]
  <2>1. Xor(s[v][l], {k}) \in SUBSET Bit
    BY <1>2 DEF Xor
  <2>2. [s[v] EXCEPT ![l] = Xor(s[v][l], {k})] \in [Lane -> SUBSET Bit]
    BY <1>2, <2>1
  <2> QED
    BY <1>2, <1>6, <2>2
<1>8. ASSUME NEW n \in Voice, NEW m \in Lane PROVE f[n][m] = w[n][m]
  <2>1. w[n][m] = {j \in Bit : (j \in s[n][m]) # (<<v, l, k>> = <<n, m, j>>)}
    BY <1>3
  <2>2. s[n][m] \subseteq Bit
    BY <1>2
  <2>3. CASE n = v /\ m = l
    <3>1. f[n][m] = Xor(s[v][l], {k})
      BY <1>2, <1>6, <2>3
    <3>2. \A j \in Bit : j \in w[n][m] <=> (j \in s[n][m]) # (k = j)
      BY <2>1, <2>3
    <3>3. \A j \in Bit : j \in f[n][m] <=> (j \in s[n][m]) # (k = j)
      BY <2>3, <3>1 DEF Xor
    <3>4. f[n][m] \subseteq Bit /\ w[n][m] \subseteq Bit
      BY <1>7, <2>1
    <3> QED
      BY <3>2, <3>3, <3>4
  <2>4. CASE ~(n = v /\ m = l)
    <3>1. f[n][m] = s[n][m]
      BY <1>2, <1>6, <2>4
    <3>2. \A j \in Bit : j \in w[n][m] <=> j \in s[n][m]
      <4>1. \A j \in Bit : <<v, l, k>> # <<n, m, j>>
        BY <2>4
      <4>2. \A j \in Bit : j \in w[n][m] <=> ((j \in s[n][m]) # (<<v, l, k>> = <<n, m, j>>))
        BY <2>1
      <4>3. ASSUME NEW j \in Bit PROVE j \in w[n][m] <=> j \in s[n][m]
        <5>1. (<<v, l, k>> = <<n, m, j>>) = FALSE
          BY <4>1
        <5>2. (j \in s[n][m]) \in BOOLEAN
          OBVIOUS
        <5>3. ((j \in s[n][m]) # (<<v, l, k>> = <<n, m, j>>)) <=> j \in s[n][m]
          BY <5>1, <5>2
        <5> QED
          BY <4>2, <5>3
      <4> QED
        BY <4>3
    <3>3. w[n][m] \subseteq Bit
      BY <2>1
    <3> QED
      BY <2>2, <3>1, <3>2, <3>3
  <2> QED
    BY <2>3, <2>4
<1>9. f = w
  <2>1. \A n \in Voice : f[n] = w[n]
    BY <1>4, <1>7, <1>8 DEF State
  <2> QED
    BY <1>4, <1>7, <2>1 DEF State
<1>10. w # s
  <2>1. k \in w[v][l] <=> ~(k \in s[v][l])
    BY <1>3
  <2> QED
    BY <2>1
<1> QED
  BY <1>4, <1>5, <1>9, <1>10 DEF w

LEMMA FlippedHas ==
    ASSUME NEW s \in State, NEW t \in State
    PROVE  /\ Flipped(s, t) \subseteq Index
           /\ \A a \in Index : a \in Flipped(s, t) <=> (Has(s, a) # Has(t, a))
<1> DEFINE P == {p \in Spots : p[3] \in Xor(s[p[1]][p[2]], t[p[1]][p[2]])}
<1>1. Flipped(s, t) = {p[1] * (Lanes * Width) + p[2] * Width + p[3] : p \in P}
  BY DEF Flipped, Spots
<1>2. \A p \in P : p[1] * (Lanes * Width) + p[2] * Width + p[3] = Number(p)
  BY NumberType
<1>3. Flipped(s, t) = {Number(p) : p \in P}
  BY <1>1, <1>2
<1>4. Flipped(s, t) \subseteq Index
  BY <1>3, NumberType
<1>5. ASSUME NEW a \in Index PROVE a \in Flipped(s, t) <=> Place(a) \in P
  BY <1>3, PlaceOf
<1>6. ASSUME NEW a \in Index PROVE Place(a) \in P <=> (Has(s, a) # Has(t, a))
  <2>1. PICK p \in Spots : p = Place(a)
    BY PlaceOf
  <2> QED
    BY <2>1 DEF Has, Xor
<1> HIDE DEF P
<1> QED
  BY <1>4, <1>5, <1>6

LEMMA IndexFinite == IsFiniteSet(Index) /\ Cardinality(Index) = Voices * Lanes * Width
<1>1. PICK M \in Nat : M = Voices * Lanes * Width /\ Index = 0 .. M - 1
  BY Sizes
<1>2. IsFiniteSet(0 .. M - 1) /\ Cardinality(0 .. M - 1) = M
  <2>1. 0 \in Int /\ M - 1 \in Int /\ (M - 1) - 0 + 1 = M
    OBVIOUS
  <2>2. IsFiniteSet(0 .. M - 1)
    BY <2>1, FS_Interval
  <2>3. Cardinality(0 .. M - 1) = IF 0 > M - 1 THEN 0 ELSE (M - 1) - 0 + 1
    BY <2>1, FS_Interval
  <2> QED
    BY <2>1, <2>2, <2>3
<1> QED
  BY <1>1, <1>2

LEMMA PopcountType ==
    ASSUME NEW s \in State, NEW t \in State
    PROVE  /\ Popcount(s, t) \in Nat /\ Popcount(s, t) <= Voices * Lanes * Width
           /\ s # t => Popcount(s, t) >= 1
           /\ s = t => Popcount(s, t) = 0
<1>1. Flipped(s, t) \subseteq Index /\ \A a \in Index : a \in Flipped(s, t) <=> (Has(s, a) # Has(t, a))
  BY FlippedHas
<1>2. IsFiniteSet(Flipped(s, t)) /\ Cardinality(Flipped(s, t)) <= Cardinality(Index)
  BY <1>1, IndexFinite, FS_Subset
<1>3. Popcount(s, t) \in Nat /\ Popcount(s, t) <= Voices * Lanes * Width
  BY <1>2, IndexFinite, FS_CardinalityType DEF Popcount
<1>4. ASSUME s = t PROVE Popcount(s, t) = 0
  <2>1. Flipped(s, t) = {}
    BY <1>1, <1>4
  <2> QED
    BY <2>1, FS_EmptySet DEF Popcount
<1>5. ASSUME s # t PROVE Popcount(s, t) >= 1
  <2>1. PICK v \in Voice, l \in Lane : s[v][l] # t[v][l]
    BY <1>5 DEF State
  <2>2. PICK k \in Bit : ~(k \in s[v][l] <=> k \in t[v][l])
    <3>1. s[v][l] \subseteq Bit /\ t[v][l] \subseteq Bit
      BY DEF State
    <3> QED
      BY <2>1, <3>1
  <2>3. <<v, l, k>> \in Spots
    BY DEF Spots
  <2>4. PICK a \in Index : a = Number(<<v, l, k>>)
    BY <2>3, NumberType
  <2>5. Place(a) = <<v, l, k>>
    BY <2>3, <2>4, PlaceOf
  <2>6. a \in Flipped(s, t)
    BY <1>1, <2>2, <2>5 DEF Has
  <2>7. Cardinality(Flipped(s, t)) # 0
    BY <1>2, <2>6, FS_EmptySet
  <2> QED
    BY <1>3, <2>7 DEF Popcount
<1> QED
  BY <1>3, <1>4, <1>5

\* The bits that a state and a mask have in common, counted by spot and by number.
LEMMA ParityOdd ==
    ASSUME NEW s \in State, NEW m \in State
    PROVE  /\ Parity(s, m) = Cardinality({a \in Index : Has(s, a) /\ Has(m, a)}) % 2
           /\ Parity(s, m) \in {0, 1}
<1> DEFINE P == {p \in Spots : p[3] \in s[p[1]][p[2]] \cap m[p[1]][p[2]]}
           A == {a \in Index : Has(s, a) /\ Has(m, a)}
           f == [a \in A |-> Place(a)]
<1>1. \A a \in Index : Place(a) \in Spots /\ Number(Place(a)) = a /\ (a \in A <=> Place(a) \in P)
  BY PlaceOf DEF Has
<1>2. f \in [A -> P]
  BY <1>1
<1>3. \A a, b \in A : f[a] = f[b] => a = b
  BY <1>1
<1>4. ASSUME NEW p \in P PROVE \E a \in A : f[a] = p
  <2>1. Number(p) \in Index /\ Place(Number(p)) = p
    BY NumberType, PlaceOf
  <2> QED
    BY <1>1, <2>1
<1>5. IsFiniteSet(A)
  BY IndexFinite, FS_Subset
<1> HIDE DEF f, A, P
<1>6. f \in Bijection(A, P)
  BY <1>2, <1>3, <1>4 DEF Bijection, Injection, Surjection, IsInjective
<1>7. Cardinality(A) = Cardinality(P) /\ Cardinality(A) \in Nat
  BY <1>5, <1>6, FS_Bijection, FS_CardinalityType DEF ExistsBijection
<1>8. Parity(s, m) = Cardinality(P) % 2
  BY DEF Parity, P, Spots
<1>9. PICK n \in Nat : n = Cardinality(A)
  BY <1>7
<1>10. n % 2 \in {0, 1}
  OBVIOUS
<1> QED
  BY <1>7, <1>8, <1>9, <1>10 DEF A

-----------------------------------------------------------------------------
(* The two scans.                                                          *)

Turn == [input : Index, output : Index, states : Seq(State)]

\* The output bits a turn of a scan looks at.
Outputs(t) == IF command = "linear" THEN {t.output} ELSE Index

\* Of the first n turns none had a stronger bias, and one had the best one.
BestOf(n) ==
    /\ \A m \in 1 .. n : \A o \in Outputs(drawn[m]) : Bias(Events(drawn[m], o)) <= best.bias
    /\ best.bias > 0 =>
          \E m \in 1 .. n : /\ best.input = drawn[m].input /\ best.output \in Outputs(drawn[m])
                            /\ best.bias = Bias(Events(drawn[m], best.output))

Scanning == command \in {"linear", "differential"}

\* The counts are those of the samples the turn has drawn.
Counted ==
    /\ turn > 0 /\ drawn[turn].input = input /\ drawn[turn].output = output
    /\ Len(drawn[turn].states) = sample
    /\ \A o \in Outputs(drawn[turn]) : counts[o] = Events(drawn[turn], o)

ScanTypes ==
    /\ samples \in Nat /\ turns \in Nat /\ turn \in Nat /\ sample \in Nat
    /\ input \in Index /\ output \in Index /\ counts \in [Index -> Nat]
    /\ best \in [bias : Nat, input : Index, output : Index, count : Nat]

ScanInv ==
    /\ ScanTypes
    /\ pc = "main" => best.bias = 0 /\ turn = 0 /\ drawn = << >> /\ status # 0
    /\ pc \in {"draw", "sample", "collision"} => status # 0
    /\ pc = "collision" => command = "collision"
    /\ Scanning /\ (pc \in {"draw", "sample"} \/ status = 0) =>
          /\ rounds \in 1 .. MaxRounds /\ drawn \in Seq(Turn) /\ Len(drawn) = turn
          /\ pc # "sample" => BestOf(turn)
          /\ pc = "sample" => BestOf(turn - 1) /\ Counted

\* A state for which the event that the scan counts comes about.
Hits(t, o) ==
    {s \in State :
        LET out == Permute(s, rounds)
        IN  IF command = "linear" THEN Has(s, t.input) # Has(out, o)
            ELSE Has(out, o) # Has(Permute(With(s, t.input), rounds), o)}

\* How many elements of a sequence are in H.
CountIn(q, H) == Cardinality({k \in DOMAIN q : q[k] \in H})

LEMMA AppendLonger ==
    ASSUME NEW S, NEW q \in Seq(S), NEW s \in S
    PROVE  Append(q, s) \in Seq(S) /\ Len(Append(q, s)) = Len(q) + 1
OBVIOUS

LEMMA CountGrows ==
    ASSUME NEW S, NEW H, NEW q \in Seq(S), NEW s \in S, NEW r, r = Append(q, s)
    PROVE  /\ CountIn(q, H) \in Nat
           /\ s \in H => CountIn(r, H) = CountIn(q, H) + 1
           /\ s \notin H => CountIn(r, H) = CountIn(q, H) + 0
<1>1. PICK n \in Nat : n = Len(q)
  OBVIOUS
<1> DEFINE A == {k \in DOMAIN q : q[k] \in H}
           B == {k \in DOMAIN r : r[k] \in H}
<1>2. /\ DOMAIN q = 1 .. n /\ DOMAIN r = 1 .. n + 1 /\ r[n + 1] = s
      /\ \A k \in 1 .. n : r[k] = q[k]
  BY <1>1
<1>3. IsFiniteSet(A) /\ Cardinality(A) \in Nat
  <2>1. IsFiniteSet(1 .. n)
    BY FS_Interval
  <2>2. A \subseteq 1 .. n
    BY <1>2
  <2> HIDE DEF A
  <2> QED
    BY <2>1, <2>2, FS_Subset, FS_CardinalityType
<1>4. n + 1 \notin A /\ \A k \in 1 .. n + 1 : k = n + 1 \/ k \in 1 .. n
  BY <1>2
<1>5. CASE s \in H
  <2>1. B = A \cup {n + 1}
    BY <1>2, <1>4, <1>5
  <2> HIDE DEF A, B
  <2>2. Cardinality(B) = Cardinality(A) + 1
    BY <1>3, <1>4, <2>1, FS_AddElement
  <2> QED
    BY <1>3, <1>5, <2>2 DEF A, B, CountIn
<1>6. CASE s \notin H
  <2>1. B = A
    BY <1>2, <1>4, <1>6
  <2>2. Cardinality(A) = Cardinality(A) + 0
    BY <1>3
  <2> QED
    BY <1>3, <1>6, <2>1, <2>2 DEF CountIn
<1> QED
  BY <1>3, <1>5, <1>6 DEF CountIn

LEMMA EventsHits ==
    ASSUME NEW t \in Turn, NEW o
    PROVE  Events(t, o) = CountIn(t.states, Hits(t, o))
<1>1. \A k \in DOMAIN t.states : t.states[k] \in State
  BY DEF Turn
<1> QED
  BY <1>1 DEF Events, Hits, CountIn

\* One more sample.
LEMMA EventsGrow ==
    ASSUME NEW t \in Turn, NEW s \in State, NEW u, NEW o,
           u = [t EXCEPT !.states = Append(t.states, s)]
    PROVE  /\ u \in Turn /\ u.input = t.input /\ u.output = t.output
           /\ Len(u.states) = Len(t.states) + 1
           /\ Events(t, o) \in Nat
           /\ s \in Hits(t, o) => Events(u, o) = Events(t, o) + 1
           /\ ~(s \in Hits(t, o)) => Events(u, o) = Events(t, o)
<1>1. t.states \in Seq(State) /\ t.input \in Index /\ t.output \in Index
  BY DEF Turn
<1>2. PICK q \in Seq(State) : q = t.states
  BY <1>1
<1>3. PICK r : r = Append(q, s) /\ r \in Seq(State) /\ Len(r) = Len(q) + 1
  BY <1>2, AppendLonger
<1>4. u.states = r /\ u.input = t.input /\ u.output = t.output /\ u \in Turn
  BY <1>1, <1>2, <1>3 DEF Turn
<1>5. Len(r) = Len(q) + 1
  BY <1>3
<1>6. Hits(u, o) = Hits(t, o)
  BY <1>4 DEF Hits
<1>7. PICK H : H = Hits(t, o)
  OBVIOUS
<1>8. /\ CountIn(q, H) \in Nat
      /\ s \in H => CountIn(r, H) = CountIn(q, H) + 1
      /\ s \notin H => CountIn(r, H) = CountIn(q, H) + 0
  BY <1>3, CountGrows, Zenon
<1>9. CountIn(q, H) + 0 = CountIn(q, H)
  BY <1>8
<1>10. Events(t, o) = CountIn(q, H)
  BY <1>2, <1>7, EventsHits
<1>11. Events(u, o) = CountIn(r, H)
  <2>1. u \in Turn
    BY <1>4
  <2>2. Events(u, o) = CountIn(u.states, Hits(u, o))
    BY ONLY <2>1, EventsHits
  <2> QED
    BY ONLY <1>4, <1>6, <1>7, <2>2
<1> QED
  BY <1>2, <1>4, <1>5, <1>7, <1>8, <1>9, <1>10, <1>11, Zenon

LEMMA EventsNone ==
    ASSUME NEW t \in Turn, t.states = << >>, NEW o
    PROVE  Events(t, o) = 0
<1>1. {k \in DOMAIN t.states : t.states[k] \in Hits(t, o)} = {}
  OBVIOUS
<1> QED
  BY <1>1, EventsHits, FS_EmptySet DEF CountIn

LEMMA EventsType == ASSUME NEW t \in Turn, NEW o PROVE Events(t, o) \in Nat
<1>1. PICK s \in State : TRUE
  <2>1. [v \in Voice |-> [l \in Lane |-> {}]] \in State
    BY DEF State
  <2> QED
    BY <2>1
<1> QED
  BY EventsGrow

LEMMA BiasType == ASSUME samples \in Nat, NEW n \in Nat PROVE Bias(n) \in Nat
BY DEF Bias

\* A finite table has a largest bias.
LEMMA Strongest ==
    ASSUME samples \in Nat, counts \in [Index -> Nat]
    PROVE  \E a \in Index : \A b \in Index : Bias(counts[b]) <= Bias(counts[a])
<1>1. PICK M \in Nat \ {0} : Index = 0 .. M - 1
  BY Sizes
<1> DEFINE f(n) == Bias(counts[n])
           Has1(n) == \E a \in 0 .. n : \A b \in 0 .. n : f(b) <= f(a)
           T == {n \in Nat : n < M /\ ~Has1(n)}
<1>2. \A a \in 0 .. M - 1 : f(a) \in Nat
  BY <1>1, BiasType
<1> HIDE DEF f
<1>3. ASSUME T # {} PROVE FALSE
  <2>1. PICK m \in T : \A n \in T : m <= n
    BY <1>3, Smallest
  <2>2. CASE m = 0
    <3>1. \A b \in 0 .. 0 : f(b) <= f(0)
      BY <1>2
    <3> QED
      BY <2>1, <2>2, <3>1
  <2>3. CASE m # 0
    <3>1. m \in Nat /\ m - 1 \in Nat /\ m < M /\ m - 1 < M /\ ~(m <= m - 1)
      <4>1. m \in Nat /\ m < M
        BY <2>1
      <4> QED
        BY <2>3, <4>1
    <3>2. m - 1 \notin T
      BY <2>1, <3>1, Zenon
    <3>3. PICK a \in 0 .. m - 1 : \A b \in 0 .. m - 1 : f(b) <= f(a)
      BY <3>1, <3>2
    <3>4. \A b \in 0 .. m : b \in 0 .. M - 1 /\ (b = m \/ b \in 0 .. m - 1)
      BY <3>1
    <3>5. a \in 0 .. m /\ m \in 0 .. m /\ f(a) \in Nat /\ f(m) \in Nat
      BY <1>2, <3>1, <3>4
    <3>6. CASE f(m) <= f(a)
      <4>1. \A b \in 0 .. m : f(b) <= f(a)
        BY <3>3, <3>4, <3>6
      <4> QED
        BY <2>1, <3>5, <4>1
    <3>7. CASE f(a) < f(m)
      <4>1. \A b \in 0 .. m : f(b) <= f(m)
        <5> SUFFICES ASSUME NEW b \in 0 .. m PROVE f(b) <= f(m)
          OBVIOUS
        <5>1. f(b) \in Nat
          BY <1>2, <3>4
        <5>2. CASE b = m
          BY <5>1, <5>2
        <5>3. CASE b \in 0 .. m - 1
          BY <3>3, <3>5, <3>7, <5>1, <5>3
        <5> QED
          BY <3>4, <5>2, <5>3
      <4> QED
        BY <2>1, <3>5, <4>1
    <3> QED
      BY <3>5, <3>6, <3>7
  <2> QED
    BY <2>2, <2>3
<1>4. M - 1 \in Nat /\ M - 1 < M
  OBVIOUS
<1>5. Has1(M - 1)
  BY <1>3, <1>4
<1> QED
  BY <1>1, <1>5 DEF f

-----------------------------------------------------------------------------
(* What the steps of a scan keep.                                          *)

LEMMA SameEvents ==
    ASSUME UNCHANGED <<command, rounds, samples>>, NEW t, NEW o, NEW n
    PROVE  /\ Events(t, o)' = Events(t, o)
           /\ Bias(n)' = Bias(n)
           /\ Outputs(t)' = Outputs(t)
BY DEF Events, Bias, Outputs

LEMMA SameBest ==
    ASSUME UNCHANGED <<command, rounds, samples, best>>, NEW n \in Nat,
           \A m \in 1 .. n : drawn'[m] = drawn[m], BestOf(n)
    PROVE  BestOf(n)'
<1>1. \A t, o : Events(t, o)' = Events(t, o) /\ Outputs(t)' = Outputs(t)
  BY SameEvents
<1>2. \A x : Bias(x)' = Bias(x)
  BY SameEvents
<1> QED
  BY <1>1, <1>2 DEF BestOf

LEMMA IdleKeeps == ASSUME ScanInv, UNCHANGED scanVars PROVE ScanInv'
<1>1. UNCHANGED <<pc, command, rounds, samples, turns, turn, sample, input, output, counts,
                  best, status, drawn>>
  BY DEF scanVars, args, scan
<1>2. ScanTypes' <=> ScanTypes
  BY <1>1 DEF ScanTypes
<1>3. Counted' <=> Counted
  <2>1. \A t, o : Events(t, o)' = Events(t, o) /\ Outputs(t)' = Outputs(t)
    BY <1>1, SameEvents
  <2> QED
    BY <1>1, <2>1 DEF Counted
<1>4. ASSUME NEW n \in Nat, BestOf(n) PROVE BestOf(n)'
  BY <1>1, <1>4, SameBest
<1>5. turn \in Nat
  BY DEF ScanInv, ScanTypes
<1>6. ASSUME Scanning, pc = "sample" PROVE BestOf(turn - 1)'
  <2>1. PICK n \in Nat : n = turn - 1
    BY <1>5, <1>6 DEF ScanInv, Counted
  <2>2. BestOf(n)
    BY <1>6, <2>1 DEF ScanInv
  <2> QED
    BY <1>1, <1>4, <2>1, <2>2
<1>7. ASSUME BestOf(turn) PROVE BestOf(turn)'
  <2>1. PICK n \in Nat : n = turn
    BY <1>5
  <2> QED
    BY <1>1, <1>4, <1>7, <2>1
<1> QED
  BY <1>1, <1>2, <1>3, <1>5, <1>6, <1>7 DEF ScanInv, Scanning

LEMMA MainKeeps == ASSUME ScanInv, Main PROVE ScanInv'
<1>1. /\ pc = "main" /\ command # "collision"
      /\ UNCHANGED <<command, turn, sample, input, output, counts, best, drawn>>
  BY DEF Main, scan
<1>2. samples' \in Nat /\ turns' \in Nat
  <2>1. PICK r \in Texts, s \in Texts, m \in Texts :
          IF command = "all"
          THEN samples' = Parse(s, DefaultSamples) /\ turns' = MaxRounds
          ELSE samples' = Parse(s, 0) /\ turns' = Parse(m, 0)
    BY DEF Main
  <2>2. \A x \in Texts : Parse(x, DefaultSamples) \in Nat /\ Parse(x, 0) \in Nat
    BY ParseType, ScanAssumption, 0 \in Nat
  <2> QED
    BY <2>1, <2>2, PermuteAssumption
<1>3. /\ Scanning => (pc' = "draw" /\ rounds' \in 1 .. MaxRounds) \/ (pc' = "done" /\ status' = 2)
      /\ pc' \in {"draw", "done"}
      /\ pc' = "draw" => status' = status
  BY <1>1 DEF Main, Return, Scanning
<1>4. best.bias = 0 /\ turn = 0 /\ drawn = << >> /\ status # 0 /\ ScanTypes
  BY <1>1 DEF ScanInv
<1>5. BestOf(0)'
  BY <1>1, <1>4 DEF BestOf
<1>6. drawn' \in Seq(Turn) /\ Len(drawn') = turn'
  BY <1>1, <1>4
<1>7. ScanTypes'
  BY <1>1, <1>2, <1>4 DEF ScanTypes
<1> QED
  BY <1>1, <1>3, <1>4, <1>5, <1>6, <1>7 DEF ScanInv, Scanning, BestOf

LEMMA DrawKeeps == ASSUME ScanInv, Draw PROVE ScanInv'
<1>1. /\ pc = "draw" /\ pc' = "sample" /\ turn' = turn + 1 /\ sample' = 0
      /\ counts' = [a \in Index |-> 0]
      /\ UNCHANGED <<command, rounds, samples, turns, best, status>>
  BY DEF Draw, args, NewCounts
<1>2. ScanTypes /\ status # 0 /\ turn \in Nat
  BY <1>1 DEF ScanInv, ScanTypes
<1>3. PICK t : /\ t = [input |-> input', output |-> output', states |-> << >>]
               /\ drawn' = Append(drawn, t)
               /\ input' \in Index /\ output' \in Index
  BY <1>2, ScanAssumption DEF Draw, ScanTypes
<1>4. t \in Turn /\ t.states = << >> /\ t.input = input' /\ t.output = output'
  BY <1>3 DEF Turn
<1>5. ScanTypes'
  BY <1>1, <1>2, <1>3 DEF ScanTypes
<1>6. CASE Scanning
  <2>1. rounds \in 1 .. MaxRounds /\ drawn \in Seq(Turn) /\ Len(drawn) = turn /\ BestOf(turn)
    BY <1>1, <1>6 DEF ScanInv
  <2>2. /\ drawn' \in Seq(Turn) /\ Len(drawn') = turn + 1 /\ drawn'[turn + 1] = t
        /\ \A m \in 1 .. turn : drawn'[m] = drawn[m]
    BY <1>2, <1>3, <1>4, <2>1
  <2>4. PICK n \in Nat : n = turn
    BY <1>2
  <2>5. BestOf(n)'
    BY <1>1, <2>1, <2>2, <2>4, SameBest
  <2>6. \A o \in Index : counts'[o] = Events(t, o)'
    BY <1>1, <1>4, EventsNone, SameEvents
  <2>7. Counted'
    BY <1>1, <1>2, <1>3, <1>4, <2>2, <2>6 DEF Counted, Outputs
  <2> QED
    BY <1>1, <1>2, <1>5, <2>1, <2>2, <2>4, <2>5, <2>7 DEF ScanInv
<1> QED
  BY <1>1, <1>2, <1>5, <1>6 DEF ScanInv, Scanning

\* Steps of the other commands, and the end of a scan.
LEMMA OtherKeeps ==
    ASSUME ScanInv, DrawMasks \/ MeasureSample \/ MeasureTurn PROVE ScanInv'
<1>1. /\ command = "all" /\ command' = command /\ pc' \in {"draw", "sample"}
      /\ UNCHANGED <<samples, turns, input, output, counts, best, status>>
      /\ turn' \in {turn, turn + 1} /\ sample' \in {sample, sample + 1, 0}
  BY DEF DrawMasks, MeasureSample, MeasureTurn, TurnOver, Sampling, args, scan
<1>2. ScanTypes
  BY DEF ScanInv
<1>3. ScanTypes'
  BY <1>1, <1>2 DEF ScanTypes
<1>4. status # 0
  BY <1>1, <1>2 DEF ScanInv, DrawMasks, MeasureSample, MeasureTurn, TurnOver, Sampling
<1> QED
  BY <1>1, <1>3, <1>4 DEF ScanInv, Scanning

LEMMA EndKeeps == ASSUME ScanInv, End PROVE ScanInv'
<1>1. /\ pc = "draw" /\ pc' = "done" /\ status' = 0
      /\ UNCHANGED <<command, rounds, samples, turns, turn, sample, input, output, counts,
                     best, drawn>>
  BY DEF End, Return, args, scan
<1>2. ScanTypes /\ ScanTypes'
  BY <1>1 DEF ScanInv, ScanTypes
<1>3. CASE Scanning
  <2>1. BestOf(turn) /\ turn \in Nat
    BY <1>1, <1>2, <1>3 DEF ScanInv, ScanTypes
  <2>2. BestOf(turn)'
    <3>1. PICK n \in Nat : n = turn
      BY <2>1
    <3>2. BestOf(n)'
      BY <1>1, <2>1, <3>1, SameBest
    <3> QED
      BY <1>1, <3>1, <3>2
  <2> QED
    BY <1>1, <1>2, <1>3, <2>2 DEF ScanInv
<1> QED
  BY <1>1, <1>2, <1>3 DEF ScanInv, Scanning

LEMMA CollisionKeeps == ASSUME ScanInv, Collision \/ CollisionOver PROVE ScanInv'
<1>1. /\ command' = command
      /\ UNCHANGED <<samples, turns, turn, sample, input, output, counts, best>>
      /\ pc' \in {"collision", "done"}
  BY DEF Collision, CollisionOver, Return, args, scan
<1>2. pc = "main" => status # 0
  BY DEF ScanInv
<1>3. ScanTypes /\ ScanTypes'
  BY <1>1 DEF ScanInv, ScanTypes
<1>4. pc' = "collision" => status' # 0
  BY <1>2 DEF Collision, CollisionOver, Return
<1>5. command = "collision"
  BY DEF ScanInv, Collision, CollisionOver
<1> QED
  BY <1>1, <1>3, <1>4, <1>5 DEF ScanInv, Scanning

-----------------------------------------------------------------------------
(* Samples: what is counted is what comes about.                           *)

\* A sample of a scan draws a state for the turn it is in.
LEMMA SampleDraws ==
    ASSUME ScanInv, Scanning, pc = "sample", sample' = sample + 1, turn' = turn,
           UNCHANGED <<command, rounds, samples, best, input, output>>,
           NEW s \in States, SampleScan(s)
    PROVE  /\ turn \in 1 .. Len(drawn) /\ drawn[turn] \in Turn /\ s \in State
           /\ drawn' \in Seq(Turn) /\ Len(drawn') = turn'
           /\ BestOf(turn - 1)'
           /\ (\A o \in Outputs(drawn[turn]) :
                  /\ s \in Hits(drawn[turn], o) => counts'[o] = counts[o] + 1
                  /\ ~(s \in Hits(drawn[turn], o)) => counts'[o] = counts[o])
                => Counted'
<1>1. /\ turn \in Nat /\ turn > 0 /\ drawn \in Seq(Turn) /\ Len(drawn) = turn /\ sample \in Nat
      /\ BestOf(turn - 1) /\ Counted
  BY DEF ScanInv, ScanTypes, Counted
<1>2. s \in State
  BY PermuteAssumption
<1>3. PICK t \in Turn : t = drawn[turn]
  BY <1>1
<1>4. PICK u : u = [t EXCEPT !.states = Append(t.states, s)]
  OBVIOUS
<1>5. /\ u \in Turn /\ u.input = t.input /\ u.output = t.output
      /\ Len(u.states) = Len(t.states) + 1
  BY <1>2, <1>4, EventsGrow
<1>6. drawn' = [drawn EXCEPT ![turn] = u]
  BY <1>1, <1>3, <1>4 DEF SampleScan
<1>7. /\ drawn' \in Seq(Turn) /\ Len(drawn') = turn' /\ drawn'[turn] = u
      /\ \A m \in 1 .. turn - 1 : drawn'[m] = drawn[m]
  BY <1>1, <1>5, <1>6
<1>8. BestOf(turn - 1)'
  <2>1. PICK n \in Nat : n = turn - 1
    BY <1>1
  <2>2. BestOf(n)'
    BY <1>1, <1>7, <2>1, SameBest
  <2> QED
    BY <2>1, <2>2
<1>9. ASSUME \A o \in Outputs(t) :
               /\ s \in Hits(t, o) => counts'[o] = counts[o] + 1
               /\ ~(s \in Hits(t, o)) => counts'[o] = counts[o]
      PROVE  Counted'
  <2>1. Outputs(u) = Outputs(t) /\ Outputs(u)' = Outputs(u)
    BY <1>5 DEF Outputs
  <2>2. ASSUME NEW o \in Outputs(t) PROVE counts'[o] = Events(u, o)'
    <3>1. counts[o] = Events(t, o)
      BY <1>1, <1>3, <2>2 DEF Counted
    <3>2. /\ s \in Hits(t, o) => Events(u, o) = Events(t, o) + 1
          /\ ~(s \in Hits(t, o)) => Events(u, o) = Events(t, o)
      BY <1>2, <1>4, EventsGrow
    <3>3. Events(u, o)' = Events(u, o)
      BY SameEvents
    <3> QED
      BY <1>9, <3>1, <3>2, <3>3
  <2>3. Len(u.states) = sample'
    BY <1>1, <1>3, <1>5 DEF Counted
  <2>4. u.input = input' /\ u.output = output' /\ turn' > 0
    BY <1>1, <1>3, <1>5 DEF Counted
  <2> QED
    BY <1>7, <2>1, <2>2, <2>3, <2>4 DEF Counted
<1> QED
  BY <1>1, <1>2, <1>3, <1>7, <1>8, <1>9

LEMMA LinearSampleKeeps == ASSUME ScanInv, LinearSample PROVE ScanInv'
<1>1. /\ pc = "sample" /\ command = "linear" /\ pc' = pc /\ Scanning
      /\ sample' = sample + 1 /\ turn' = turn
      /\ UNCHANGED <<command, rounds, samples, turns, best, input, output, status>>
  BY DEF LinearSample, Sampling, SampleScan, args, Scanning
<1>2. PICK s \in States :
        /\ counts' = [counts EXCEPT ![output] =
              counts[output] + ((Value(s, input) + Value(Permute(s, rounds), output)) % 2)]
        /\ SampleScan(s)
  BY DEF LinearSample
<1>3. ScanTypes /\ Counted /\ rounds \in 1 .. MaxRounds /\ status # 0
  BY <1>1 DEF ScanInv
<1>4. /\ input \in Index /\ output \in Index /\ counts \in [Index -> Nat]
      /\ samples \in Nat /\ turn \in Nat /\ turns \in Nat /\ sample \in Nat
  BY <1>3 DEF ScanTypes
<1>5. PICK out \in State : out = Permute(s, rounds) /\ s \in State
  BY <1>3, PermuteAssumption
<1>6. PICK was \in {0, 1}, is \in {0, 1} :
        /\ was = Value(s, input) /\ is = Value(out, output)
        /\ was = (IF Has(s, input) THEN 1 ELSE 0) /\ is = (IF Has(out, output) THEN 1 ELSE 0)
  BY <1>4, <1>5, ValueHas
<1>7. (was + is) % 2 = IF Has(s, input) = Has(out, output) THEN 0 ELSE 1
  <2>1. (was + is) % 2 = IF was = is THEN 0 ELSE 1
    BY <1>6
  <2>2. (was = is) <=> (Has(s, input) <=> Has(out, output))
    BY <1>6
  <2>3. Has(s, input) \in BOOLEAN /\ Has(out, output) \in BOOLEAN
    BY DEF Has
  <2> QED
    BY <2>1, <2>2, <2>3
<1>8. /\ turn \in 1 .. Len(drawn) /\ drawn[turn] \in Turn
      /\ drawn' \in Seq(Turn) /\ Len(drawn') = turn' /\ BestOf(turn - 1)'
      /\ (\A o \in Outputs(drawn[turn]) :
             /\ s \in Hits(drawn[turn], o) => counts'[o] = counts[o] + 1
             /\ ~(s \in Hits(drawn[turn], o)) => counts'[o] = counts[o])
           => Counted'
  BY <1>1, <1>2, SampleDraws
<1>9. Outputs(drawn[turn]) = {output} /\ drawn[turn].input = input
  BY <1>1, <1>3 DEF Counted, Outputs
<1>10. s \in Hits(drawn[turn], output) <=> (Has(s, input) # Has(out, output))
  BY <1>1, <1>5, <1>9 DEF Hits
<1>11. counts' = [counts EXCEPT ![output] = counts[output] + ((was + is) % 2)]
  BY <1>2, <1>5, <1>6
<1>12. /\ s \in Hits(drawn[turn], output) => counts'[output] = counts[output] + 1
       /\ ~(s \in Hits(drawn[turn], output)) => counts'[output] = counts[output]
  <2>1. (was + is) % 2 = IF s \in Hits(drawn[turn], output) THEN 1 ELSE 0
    BY <1>7, <1>10
  <2>2. counts'[output] = counts[output] + ((was + is) % 2) /\ counts[output] \in Nat
    BY <1>4, <1>11
  <2> QED
    BY <2>1, <2>2
<1>13. Counted'
  BY <1>8, <1>9, <1>12
<1>14. ScanTypes'
  <2>1. (was + is) % 2 \in Nat
    BY <1>6
  <2>2. counts' \in [Index -> Nat]
    BY <1>4, <1>11, <2>1
  <2> QED
    BY <1>1, <1>3, <1>4, <2>2 DEF ScanTypes
<1> QED
  BY <1>1, <1>3, <1>8, <1>13, <1>14 DEF ScanInv

LEMMA DifferentialSampleKeeps == ASSUME ScanInv, DifferentialSample PROVE ScanInv'
<1>1. /\ pc = "sample" /\ command = "differential" /\ pc' = pc /\ Scanning
      /\ sample' = sample + 1 /\ turn' = turn
      /\ UNCHANGED <<command, rounds, samples, turns, best, input, output, status>>
  BY DEF DifferentialSample, Sampling, SampleScan, args, Scanning
<1>2. PICK s, diff :
        /\ s \in States
        /\ diff = Flipped(Permute(s, rounds), Permute(Flip(s, input), rounds))
        /\ counts' = [a \in Index |-> IF a \in diff THEN counts[a] + 1 ELSE counts[a]]
        /\ SampleScan(s)
  BY DEF DifferentialSample
<1>3. ScanTypes /\ Counted /\ rounds \in 1 .. MaxRounds /\ status # 0
  BY <1>1 DEF ScanInv
<1>4. /\ input \in Index /\ output \in Index /\ counts \in [Index -> Nat]
      /\ samples \in Nat /\ turn \in Nat /\ turns \in Nat /\ sample \in Nat
  BY <1>3 DEF ScanTypes
<1>5. s \in State /\ Flip(s, input) = With(s, input) /\ With(s, input) \in State
  BY <1>2, <1>4, PermuteAssumption, FlipWith
<1>6. PICK out \in State, end \in State :
        out = Permute(s, rounds) /\ end = Permute(With(s, input), rounds)
  BY <1>3, <1>5, PermuteAssumption
<1>7. ASSUME NEW o \in Index PROVE o \in diff <=> (Has(out, o) # Has(end, o))
  BY <1>2, <1>5, <1>6, FlippedHas
<1>8. /\ turn \in 1 .. Len(drawn) /\ drawn[turn] \in Turn
      /\ drawn' \in Seq(Turn) /\ Len(drawn') = turn' /\ BestOf(turn - 1)'
      /\ (\A o \in Outputs(drawn[turn]) :
             /\ s \in Hits(drawn[turn], o) => counts'[o] = counts[o] + 1
             /\ ~(s \in Hits(drawn[turn], o)) => counts'[o] = counts[o])
           => Counted'
  BY <1>1, <1>2, SampleDraws
<1>9. Outputs(drawn[turn]) = Index /\ drawn[turn].input = input
  BY <1>1, <1>3 DEF Counted, Outputs
<1>10. ASSUME NEW o \in Index PROVE s \in Hits(drawn[turn], o) <=> o \in diff
  BY <1>1, <1>5, <1>6, <1>7, <1>9 DEF Hits
<1>11. ASSUME NEW o \in Index
       PROVE  /\ s \in Hits(drawn[turn], o) => counts'[o] = counts[o] + 1
              /\ ~(s \in Hits(drawn[turn], o)) => counts'[o] = counts[o]
  BY <1>2, <1>10
<1>12. Counted'
  BY <1>8, <1>9, <1>11
<1>13. ScanTypes'
  <2>1. counts' \in [Index -> Nat]
    BY <1>2, <1>4
  <2> QED
    BY <1>1, <1>3, <1>4, <2>1 DEF ScanTypes
<1> QED
  BY <1>1, <1>3, <1>8, <1>12, <1>13 DEF ScanInv

-----------------------------------------------------------------------------
(* The end of a turn: its best bias against the best so far.               *)

LEMMA TurnKeeps ==
    ASSUME ScanInv, Scanning, TurnOver,
           best' \in [bias : Nat, input : Index, output : Index, count : Nat],
           best'.bias >= best.bias,
           \A o \in Outputs(drawn[turn]) : Bias(counts[o]) <= best'.bias,
           \/ best' = best
           \/ \E o \in Outputs(drawn[turn]) :
                 best'.input = input /\ best'.output = o /\ best'.bias = Bias(counts[o])
    PROVE  ScanInv'
<1>1. /\ pc = "sample" /\ pc' = "draw"
      /\ UNCHANGED <<command, rounds, samples, turns, turn, sample, input, output, counts,
                     status, drawn>>
  BY DEF TurnOver, args
<1>2. /\ ScanTypes /\ status # 0 /\ rounds \in 1 .. MaxRounds /\ drawn \in Seq(Turn)
      /\ Len(drawn) = turn /\ turn \in Nat /\ turn > 0 /\ samples \in Nat
      /\ BestOf(turn - 1) /\ Counted
  BY <1>1 DEF ScanInv, ScanTypes, Counted
<1>3. ScanTypes'
  BY <1>1, <1>2 DEF ScanTypes
<1>4. \A o \in Outputs(drawn[turn]) : counts[o] = Events(drawn[turn], o)
  BY <1>2 DEF Counted
<1>5. best'.bias \in Nat /\ best.bias \in Nat
  BY <1>2 DEF ScanTypes
<1>6. \A m \in 1 .. turn : m = turn \/ m \in 1 .. turn - 1
  BY <1>2
<1>7. ASSUME NEW m \in 1 .. turn, NEW o \in Outputs(drawn[m])
      PROVE  Bias(Events(drawn[m], o)) <= best'.bias
  <2>1. CASE m = turn
    BY <1>4, <1>7, <2>1
  <2>2. CASE m \in 1 .. turn - 1
    <3>1. Bias(Events(drawn[m], o)) <= best.bias
      BY <1>2, <1>7, <2>2 DEF BestOf
    <3>2. Bias(Events(drawn[m], o)) \in Nat
      <4>1. drawn[m] \in Turn
        BY <1>2, <1>7
      <4>2. Events(drawn[m], o) \in Nat
        BY <4>1, EventsType
      <4> QED
        BY <1>2, <4>2, BiasType
    <3> QED
      BY <1>5, <3>1, <3>2
  <2> QED
    BY <1>6, <2>1, <2>2
<1>8. ASSUME best'.bias > 0
      PROVE  \E m \in 1 .. turn :
                /\ best'.input = drawn[m].input /\ best'.output \in Outputs(drawn[m])
                /\ best'.bias = Bias(Events(drawn[m], best'.output))
  <2>1. CASE best' = best
    <3>1. PICK m \in 1 .. turn - 1 :
            /\ best.input = drawn[m].input /\ best.output \in Outputs(drawn[m])
            /\ best.bias = Bias(Events(drawn[m], best.output))
      BY <1>2, <1>8, <2>1 DEF BestOf
    <3>2. m \in 1 .. turn
      BY <1>2
    <3> QED
      BY <2>1, <3>1, <3>2
  <2>2. CASE \E o \in Outputs(drawn[turn]) :
                best'.input = input /\ best'.output = o /\ best'.bias = Bias(counts[o])
    <3>1. turn \in 1 .. turn /\ drawn[turn].input = input
      BY <1>2 DEF Counted
    <3> QED
      BY <1>4, <2>2, <3>1
  <2> QED
    BY <2>1, <2>2
<1>9. BestOf(turn)'
  <2>1. \A t, o : Events(t, o)' = Events(t, o) /\ Outputs(t)' = Outputs(t)
    BY <1>1, SameEvents
  <2>2. \A x : Bias(x)' = Bias(x)
    BY <1>1, SameEvents
  <2> QED
    BY <1>1, <1>7, <1>8, <2>1, <2>2 DEF BestOf
<1> QED
  BY <1>1, <1>2, <1>3, <1>9 DEF ScanInv

LEMMA LinearTurnKeeps == ASSUME ScanInv, LinearTurn PROVE ScanInv'
<1>1. /\ command = "linear" /\ Scanning /\ TurnOver /\ pc = "sample"
      /\ best' = IF Bias(counts[output]) > best.bias THEN Report(output) ELSE best
  BY DEF LinearTurn, Scanning, TurnOver
<1>2. /\ ScanTypes /\ Counted /\ output \in Index /\ input \in Index
      /\ counts[output] \in Nat /\ samples \in Nat
      /\ best \in [bias : Nat, input : Index, output : Index, count : Nat]
  BY <1>1 DEF ScanInv, ScanTypes
<1>3. PICK b \in Nat : b = Bias(counts[output])
  BY <1>2, BiasType
<1>4. Outputs(drawn[turn]) = {output}
  BY <1>1, <1>2 DEF Outputs, Counted
<1>5. Report(output) = [bias |-> b, input |-> input, output |-> output, count |-> counts[output]]
  BY <1>3 DEF Report
<1>6. CASE b > best.bias
  BY <1>1, <1>2, <1>3, <1>4, <1>5, <1>6, TurnKeeps
<1>7. CASE ~(b > best.bias)
  BY <1>1, <1>2, <1>3, <1>4, <1>7, TurnKeeps
<1> QED
  BY <1>6, <1>7

LEMMA LeastIn ==
    ASSUME NEW T, T \subseteq Nat, T # {}
    PROVE  Least(T) \in T /\ \A y \in T : Least(T) <= y
BY Smallest DEF Least

LEMMA DifferentialTurnKeeps == ASSUME ScanInv, DifferentialTurn PROVE ScanInv'
<1>1. command = "differential" /\ Scanning /\ TurnOver /\ pc = "sample"
  BY DEF DifferentialTurn, Scanning, TurnOver
<1>2. /\ ScanTypes /\ Counted /\ input \in Index /\ counts \in [Index -> Nat] /\ samples \in Nat
      /\ best \in [bias : Nat, input : Index, output : Index, count : Nat]
  BY <1>1 DEF ScanInv, ScanTypes
<1>3. Outputs(drawn[turn]) = Index
  BY <1>1 DEF Outputs
<1> DEFINE biases == {Bias(counts[a]) : a \in Index}
           top == CHOOSE b \in biases : \A a \in Index : Bias(counts[a]) <= b
           tops == {Report(Least({a \in Index : counts[a] = c})) :
                      c \in {counts[a] : a \in {d \in Index : Bias(counts[d]) = top}}}
<1>4. top \in biases /\ \A a \in Index : Bias(counts[a]) <= top
  BY <1>2, Strongest
<1>5. \/ top > best.bias /\ best' \in tops
      \/ top <= best.bias /\ best' = best
      \/ top = best.bias /\ top > 0 /\ best' \in tops
  BY DEF DifferentialTurn
<1> HIDE DEF top
<1>6. top \in Nat
  BY <1>2, <1>4, BiasType
<1>7. ASSUME NEW r \in tops
      PROVE  \E o \in Index :
               /\ r = [bias |-> top, input |-> input, output |-> o, count |-> counts[o]]
               /\ Bias(counts[o]) = top
  <2>1. PICK d \in Index : /\ Bias(counts[d]) = top
                           /\ r = Report(Least({a \in Index : counts[a] = counts[d]}))
    BY <1>7
  <2>2. PICK T : T = {a \in Index : counts[a] = counts[d]}
    OBVIOUS
  <2>3. T \subseteq Nat /\ T # {}
    BY <2>2 DEF Index
  <2>4. PICK o : o = Least(T) /\ o \in T
    BY <2>3, LeastIn
  <2>5. o \in Index /\ counts[o] = counts[d]
    BY <2>2, <2>4
  <2>6. r = Report(o)
    BY <2>1, <2>2, <2>4
  <2> QED
    BY <2>1, <2>5, <2>6 DEF Report
<1> HIDE DEF tops
<1>8. best.bias \in Nat
  BY <1>2
<1>9. CASE best' = best /\ top <= best.bias
  <2>1. \A o \in Index : Bias(counts[o]) <= best'.bias
    BY <1>2, <1>4, <1>6, <1>8, <1>9, BiasType
  <2> QED
    BY <1>1, <1>2, <1>3, <1>8, <1>9, <2>1, TurnKeeps
<1>10. CASE best' \in tops /\ top >= best.bias
  <2>1. PICK o \in Index :
          /\ best' = [bias |-> top, input |-> input, output |-> o, count |-> counts[o]]
          /\ Bias(counts[o]) = top
    BY <1>7, <1>10
  <2>2. best' \in [bias : Nat, input : Index, output : Index, count : Nat]
    BY <1>2, <1>6, <2>1
  <2> QED
    BY <1>1, <1>3, <1>4, <1>10, <2>1, <2>2, TurnKeeps
<1> QED
  BY <1>5, <1>6, <1>8, <1>9, <1>10

LEMMA AlwaysScanInv == Spec => []ScanInv
<1>1. Init => ScanInv
  <2> SUFFICES ASSUME ScanInit PROVE ScanInv
    BY DEF Init
  <2>1. 0 \in Index
    BY Sizes
  <2> QED
    BY <2>1 DEF ScanInit, ScanInv, ScanTypes, Running
<1>2. ScanInv /\ [Next]_vars => ScanInv'
  <2> SUFFICES ASSUME ScanInv, [Next]_vars PROVE ScanInv'
    OBVIOUS
  <2>1. CASE ScanNext
    BY <2>1, MainKeeps, DrawKeeps, OtherKeeps, EndKeeps, LinearSampleKeeps,
       DifferentialSampleKeeps, LinearTurnKeeps, DifferentialTurnKeeps DEF ScanNext
  <2>2. CASE UNCHANGED scanVars
    BY <2>2, IdleKeeps
  <2>3. CASE Collision \/ CollisionOver
    BY <2>3, CollisionKeeps
  <2> QED
    BY <2>1, <2>2, <2>3 DEF Next, vars, Returned
<1> QED
  BY <1>1, <1>2, PTL DEF Spec

\* What a scan reports (frogbard_analyze.c:242, 295) is a pair of bits of one of its
\* turns, with the bias that turn's samples had, and no turn had a stronger one on any
\* output it looked at: for every size of a state, every permutation, every number of
\* turns and samples, and whichever of equal biases the rounding of quotients prefers.
THEOREM ReportsAreTrue == Spec => []ReportTrue
<1>1. ASSUME ScanInv PROVE ReportTrue
  <2> SUFFICES ASSUME Scanning, status = 0 PROVE ReportTrue
    BY DEF ReportTrue, Scanning
  <2> DEFINE claimsOf(t) == {[input |-> t.input, output |-> o, bias |-> Bias(Events(t, o))] :
                                o \in Outputs(t)}
             claims == UNION {claimsOf(t) : t \in {drawn[k] : k \in DOMAIN drawn}}
  <2>1. /\ drawn \in Seq(Turn) /\ Len(drawn) = turn /\ turn \in Nat /\ BestOf(turn)
        /\ DOMAIN drawn = 1 .. turn
    BY <1>1 DEF ScanInv, ScanTypes
  <2>2. ASSUME NEW c
        PROVE  c \in claims <=>
                 \E m \in 1 .. turn : \E o \in Outputs(drawn[m]) :
                    c = [input |-> drawn[m].input, output |-> o,
                         bias |-> Bias(Events(drawn[m], o))]
    BY <2>1
  <2> HIDE DEF claims, claimsOf
  <2>3. ASSUME NEW c \in claims PROVE c.bias <= best.bias
    BY <2>1, <2>2, <2>3 DEF BestOf
  <2>4. ASSUME best.bias > 0
        PROVE  [input |-> best.input, output |-> best.output, bias |-> best.bias] \in claims
    <3>1. PICK m \in 1 .. turn : /\ best.input = drawn[m].input
                                 /\ best.output \in Outputs(drawn[m])
                                 /\ best.bias = Bias(Events(drawn[m], best.output))
      BY <2>1, <2>4 DEF BestOf
    <3> QED
      BY <2>2, <3>1
  <2> QED
    BY <2>3, <2>4 DEF ReportTrue, claims, claimsOf, Outputs
<1> QED
  BY <1>1, AlwaysScanInv, PTL

-----------------------------------------------------------------------------
(* The rounds of --all.                                                    *)

LEMMA RotateType ==
    ASSUME NEW s \in State, NEW n \in 1 .. Width - 1
    PROVE  Rotate(s, n) \in State
<1>1. PICK W \in Nat \ {0} : W = Width /\ Bit = 0 .. W - 1
  BY Sizes
<1>2. ASSUME NEW k \in Bit PROVE (k + n) % Width \in Bit
  <2>1. k + n \in Nat
    BY <1>1
  <2>2. (k + n) % W \in 0 .. W - 1
    BY ONLY <2>1, W \in Nat \ {0}, DivMod, Zenon
  <2> QED
    BY <1>1, <2>2
<1>3. \A voice \in Voice, lane \in Lane : {(k + n) % Width : k \in s[voice][lane]} \in SUBSET Bit
  BY <1>2 DEF State
<1> QED
  BY <1>3 DEF Rotate, State

\* Every bit is another one, rotated.
LEMMA RotatedFrom ==
    ASSUME NEW n \in 1 .. Width - 1, NEW j \in Bit
    PROVE  \E k \in Bit : (k + n) % Width = j
<1>1. PICK W \in Nat \ {0} : W = Width /\ Bit = 0 .. W - 1
  BY Sizes
<1>2. n \in 0 .. W - 1 /\ j \in 0 .. W - 1
  BY <1>1
<1>3. PICK d \in 0 .. W - 1 : d = (j - n + W) % W /\ (n + d) % W = j
  BY ONLY <1>2, W \in Nat \ {0}, Back, Zenon
<1>4. n + d = d + n
  BY <1>2
<1> QED
  BY <1>1, <1>3, <1>4

Commutes ==
    \A s \in States, n \in 1 .. Width - 1 :
       \A v \in Voice, l \in Lane, k \in Bit :
          k \in Permute(s, rounds)[v][l]
             <=> (k + n) % Width \in Permute(Rotate(s, n), rounds)[v][l]

Odd(s, m) == Cardinality({a \in Index : Has(s, a) /\ Has(m, a)}) % 2

Related(r) ==
    \A s \in States : (Odd(s, masks.input) + Odd(Permute(s, rounds), masks.output)) % 2 = r

\* Rotating after the permutation is then what rotating before it is.
LEMMA RotatedAlike ==
    ASSUME rounds \in 1 .. MaxRounds, Commutes, NEW s \in States, NEW n \in 1 .. Width - 1
    PROVE  Permute(Rotate(s, n), rounds) = Rotate(Permute(s, rounds), n)
<1>1. s \in State /\ Rotate(s, n) \in State
  BY PermuteAssumption, RotateType
<1>2. PICK x \in State, y \in State :
        x = Permute(Rotate(s, n), rounds) /\ y = Permute(s, rounds)
  BY <1>1, PermuteAssumption
<1>3. PICK z \in State : z = Rotate(y, n)
  BY RotateType
<1>4. ASSUME NEW v \in Voice, NEW l \in Lane PROVE x[v][l] = z[v][l]
  <2>1. \A k \in Bit : k \in y[v][l] <=> (k + n) % Width \in x[v][l]
    BY <1>2 DEF Commutes
  <2>2. z[v][l] = {(k + n) % Width : k \in y[v][l]}
    BY <1>3 DEF Rotate
  <2>3. x[v][l] \subseteq Bit /\ y[v][l] \subseteq Bit
    BY DEF State
  <2>4. ASSUME NEW j \in x[v][l] PROVE j \in z[v][l]
    <3>1. PICK k \in Bit : (k + n) % Width = j
      BY <2>3, RotatedFrom
    <3> QED
      BY <2>1, <2>2, <3>1
  <2>5. ASSUME NEW j \in z[v][l] PROVE j \in x[v][l]
    BY <2>1, <2>2, <2>3
  <2> QED
    BY <2>4, <2>5
<1>5. \A v \in Voice : x[v] = z[v]
  BY <1>4 DEF State
<1>6. x = z
  BY <1>5 DEF State
<1> QED
  BY <1>2, <1>3, <1>6

SumsFit ==
    /\ sums \in [avalanche : Nat, minimum : Nat, maximum : Nat, rotational : Nat, ones : Nat]
    /\ 1 <= sums.minimum /\ sums.minimum <= Voices * Lanes * Width
    /\ sums.maximum <= Voices * Lanes * Width
    /\ sums.minimum * sample <= sums.avalanche /\ sums.avalanche <= sums.maximum * sample
    /\ sample > 0 => sums.minimum <= sums.maximum
    /\ sample = 0 => sums.rotational = 0 /\ sums.ones = 0

MeasureInv ==
    command = "all" =>
       /\ turn \in Nat /\ sample \in Nat /\ turns \in Nat /\ turns <= MaxRounds
       /\ pc = "main" => sample = 0 /\ turn = 0
       /\ SumsFit
       /\ pc = "sample" => /\ rounds \in 1 .. MaxRounds
                           /\ masks.input \in State /\ masks.output \in State
                           /\ Commutes => sums.rotational = 0
                           /\ \A r \in {0, 1} : Related(r) => sums.ones = r * sample

LEMMA MoreTimes ==
    ASSUME NEW x \in Nat, NEW y \in Nat, NEW n \in Nat, x <= y
    PROVE  x * n \in Nat /\ y * n \in Nat /\ x * n <= y * n
<1>1. x * n \in Nat /\ y * n \in Nat
  OBVIOUS
<1>2. CASE x = y
  BY <1>1, <1>2
<1>3. CASE x < y
  <2>1. x * n + n <= y * n
    BY <1>3, LessTimes
  <2> QED
    BY <1>1, <2>1
<1> QED
  BY <1>2, <1>3

\* What is counted for a mask and what the relation says is one parity.
LEMMA ParityType ==
    ASSUME NEW s \in State, NEW m \in State
    PROVE  Parity(s, m) = Odd(s, m) /\ Parity(s, m) \in {0, 1}
BY ParityOdd DEF Odd

LEMMA LeastOfTwo ==
    ASSUME NEW a \in Nat, NEW b \in Nat
    PROVE  Least({a, b}) = IF a < b THEN a ELSE b
<1>1. Least({a, b}) \in {a, b} /\ \A y \in {a, b} : Least({a, b}) <= y
  BY LeastIn
<1> QED
  BY <1>1

LEMMA MeasureSampleKeeps ==
    ASSUME ScanInv, MeasureInv, MeasureSample PROVE MeasureInv'
<1>1. /\ pc = "sample" /\ pc' = pc /\ command = "all" /\ command' = command /\ turn' = turn
      /\ sample' = sample + 1 /\ rounds' = rounds /\ turns' = turns /\ masks' = masks
  BY DEF MeasureSample, Sampling, args
<1>2. /\ turn \in Nat /\ sample \in Nat /\ turns \in Nat /\ turns <= MaxRounds /\ SumsFit
      /\ rounds \in 1 .. MaxRounds /\ masks.input \in State /\ masks.output \in State
      /\ Commutes => sums.rotational = 0
      /\ \A r \in {0, 1} : Related(r) => sums.ones = r * sample
  BY <1>1 DEF MeasureInv
<1>3. PICK s, bit, n, out :
        /\ s \in States /\ bit \in Drawn /\ n \in 1 .. Width - 1
        /\ out = Permute(s, rounds)
        /\ sums' = [avalanche  |-> sums.avalanche + Popcount(out, Permute(Flip(s, bit), rounds)),
                    minimum    |-> Least({Popcount(out, Permute(Flip(s, bit), rounds)), sums.minimum}),
                    maximum    |-> IF Popcount(out, Permute(Flip(s, bit), rounds)) > sums.maximum
                                   THEN Popcount(out, Permute(Flip(s, bit), rounds)) ELSE sums.maximum,
                    rotational |-> sums.rotational
                                   + Popcount(Permute(Rotate(s, n), rounds), Rotate(out, n)),
                    ones       |-> sums.ones
                                   + ((Parity(s, masks.input) + Parity(out, masks.output)) % 2)]
  BY DEF MeasureSample
<1>4. s \in State /\ out \in State /\ Rotate(s, n) \in State /\ Rotate(out, n) \in State
  BY <1>2, <1>3, PermuteAssumption, RotateType
<1>5. Flip(s, bit) \in State /\ Flip(s, bit) # s
  BY <1>3, <1>4, FlipWith, ScanAssumption
<1>6. PICK end \in State : end = Permute(Flip(s, bit), rounds) /\ end # out
  BY <1>2, <1>3, <1>4, <1>5, PermuteAssumption
<1>7. PICK size \in Nat : size = Voices * Lanes * Width
  BY Sizes
<1>8. PICK d \in Nat : d = Popcount(out, end) /\ 1 <= d /\ d <= size
  BY <1>4, <1>6, <1>7, PopcountType
<1>9. PICK turned \in Nat :
        /\ turned = Popcount(Permute(Rotate(s, n), rounds), Rotate(out, n))
        /\ Commutes => turned = 0
  <2>1. Permute(Rotate(s, n), rounds) \in State
    BY <1>2, <1>4, PermuteAssumption
  <2>2. PICK x \in State, y \in State :
          x = Permute(Rotate(s, n), rounds) /\ y = Rotate(out, n) /\ (Commutes => x = y)
    BY <1>2, <1>3, <1>4, <2>1, RotatedAlike
  <2> QED
    BY <2>2, PopcountType
<1>10. PICK one \in {0, 1} :
         /\ one = (Parity(s, masks.input) + Parity(out, masks.output)) % 2
         /\ \A r \in {0, 1} : Related(r) => one = r
  <2>1. PICK x \in {0, 1}, y \in {0, 1} :
          /\ x = Parity(s, masks.input) /\ x = Odd(s, masks.input)
          /\ y = Parity(out, masks.output) /\ y = Odd(out, masks.output)
    BY <1>2, <1>4, ParityType
  <2>2. (x + y) % 2 \in {0, 1}
    OBVIOUS
  <2>3. \A r \in {0, 1} : Related(r) => (x + y) % 2 = r
    BY <1>3, <2>1 DEF Related
  <2> QED
    BY <2>1, <2>2, <2>3
<1>11. PICK lo \in Nat, hi \in Nat, a \in Nat, rot \in Nat, was \in Nat :
         /\ lo = sums.minimum /\ hi = sums.maximum /\ a = sums.avalanche
         /\ rot = sums.rotational /\ was = sums.ones
         /\ 1 <= lo /\ lo <= size /\ hi <= size /\ lo * sample <= a /\ a <= hi * sample
         /\ Commutes => rot = 0
         /\ \A r \in {0, 1} : Related(r) => was = r * sample
  BY <1>2, <1>7 DEF SumsFit
<1>12. PICK lo1 \in {d, lo}, hi1 \in {d, hi} :
         /\ lo1 = (IF d < lo THEN d ELSE lo) /\ lo1 <= d /\ lo1 <= lo
         /\ hi1 = (IF d > hi THEN d ELSE hi) /\ d <= hi1 /\ hi <= hi1
  OBVIOUS
<1>13. sums' = [avalanche |-> a + d, minimum |-> lo1, maximum |-> hi1,
                rotational |-> rot + turned, ones |-> was + one]
  BY <1>3, <1>6, <1>8, <1>9, <1>10, <1>11, <1>12, LeastOfTwo
<1>14. /\ lo1 \in Nat /\ hi1 \in Nat /\ 1 <= lo1 /\ lo1 <= hi1 /\ hi1 <= size /\ lo1 <= size
       /\ lo1 * (sample + 1) <= a + d /\ a + d <= hi1 * (sample + 1)
  <2>1. PICK n1 \in Nat : n1 = sample
    BY <1>2
  <2>2. 1 <= lo /\ lo <= size /\ hi <= size /\ lo * n1 <= a /\ a <= hi * n1 /\ 1 <= d /\ d <= size
    BY <1>8, <1>11, <2>1
  <2>3. /\ lo1 * n1 <= lo * n1 /\ lo1 * n1 \in Nat /\ lo * n1 \in Nat
        /\ hi * n1 <= hi1 * n1 /\ hi * n1 \in Nat /\ hi1 * n1 \in Nat
    BY ONLY <1>12, <2>2, MoreTimes, n1 \in Nat, lo \in Nat, hi \in Nat, d \in Nat,
       lo1 \in {d, lo}, hi1 \in {d, hi}
  <2>4. lo1 * (n1 + 1) = lo1 * n1 + lo1 /\ hi1 * (n1 + 1) = hi1 * n1 + hi1
    OBVIOUS
  <2> QED
    BY <1>12, <2>1, <2>2, <2>3, <2>4
<1>15. SumsFit'
  <2>1. sums' \in [avalanche : Nat, minimum : Nat, maximum : Nat, rotational : Nat, ones : Nat]
    BY <1>13, <1>14
  <2>2. ~(sample' = 0)
    BY <1>1, <1>2
  <2> QED
    BY <1>1, <1>7, <1>13, <1>14, <2>1, <2>2 DEF SumsFit
<1>16. Commutes' => sums'.rotational = 0
  <2>1. Commutes' <=> Commutes
    BY <1>1 DEF Commutes
  <2> QED
    BY <1>9, <1>11, <1>13, <2>1
<1>17. ASSUME NEW r \in {0, 1}, Related(r)' PROVE sums'.ones = r * sample'
  <2>1. Related(r)
    BY <1>1, <1>17 DEF Related
  <2>2. was = r * sample /\ one = r
    BY <1>10, <1>11, <2>1
  <2>3. r * (sample + 1) = r * sample + r
    BY <1>2
  <2> QED
    BY <1>1, <1>13, <2>2, <2>3
<1> QED
  BY <1>1, <1>2, <1>15, <1>16, <1>17 DEF MeasureInv

\* Between rounds only the next round's start touches what was measured.
LEMMA MeasureFrame ==
    ASSUME MeasureInv,
           UNCHANGED <<command, rounds, turns, turn, sample, masks, sums>>,
           pc' # "main", pc' = "sample" => pc = "sample"
    PROVE  MeasureInv'
<1>1. SumsFit' <=> SumsFit
  BY DEF SumsFit
<1>2. (Commutes' <=> Commutes) /\ \A r \in {0, 1} : (Related(r)' <=> Related(r))
  BY DEF Commutes, Related
<1> QED
  BY <1>1, <1>2 DEF MeasureInv

LEMMA MeasureMainKeeps == ASSUME MeasureInv, Main PROVE MeasureInv'
<1>1. CASE command = "all"
  <2>1. /\ pc = "main" /\ command' = command /\ turns' = MaxRounds /\ turn' = turn
        /\ sample' = sample /\ sums' = sums /\ pc' \in {"draw", "done"}
    BY <1>1 DEF Main, Return
  <2>2. MaxRounds \in Nat
    BY PermuteAssumption
  <2>3. SumsFit'
    BY <1>1, <2>1 DEF MeasureInv, SumsFit
  <2> QED
    BY <1>1, <2>1, <2>2, <2>3 DEF MeasureInv
<1>2. CASE command # "all"
  BY <1>2 DEF Main, MeasureInv
<1> QED
  BY <1>1, <1>2

LEMMA DrawMasksKeeps == ASSUME MeasureInv, DrawMasks PROVE MeasureInv'
<1>1. /\ command = "all" /\ command' = command /\ turn < turns /\ rounds' = turn + 1
      /\ pc' = "sample" /\ turn' = turn + 1 /\ sample' = 0 /\ sums' = NoSums /\ turns' = turns
  BY DEF DrawMasks
<1>2. PICK in \in Masks, end \in Masks : masks' = [input |-> in, output |-> end]
  BY DEF DrawMasks
<1>3. masks'.input \in State /\ masks'.output \in State
  BY <1>2, PermuteAssumption
<1>4. turn \in Nat /\ turns \in Nat /\ turns <= MaxRounds /\ MaxRounds \in Nat
  BY <1>1, PermuteAssumption DEF MeasureInv
<1>5. rounds' \in 1 .. MaxRounds /\ turn' \in Nat
  BY <1>1, <1>4
<1>6. SumsFit' /\ sums'.rotational = 0 /\ sums'.ones = 0
  <2>1. PICK size \in Nat \ {0} : size = Voices * Lanes * Width
    BY Sizes
  <2>2. size * 0 = 0
    BY <2>1
  <2> QED
    BY <1>1, <2>1, <2>2 DEF SumsFit, NoSums
<1>7. \A r \in {0, 1} : 0 = r * 0
  OBVIOUS
<1> QED
  BY <1>1, <1>3, <1>4, <1>5, <1>6, <1>7 DEF MeasureInv

LEMMA AlwaysMeasureInv == Spec => []MeasureInv
<1>1. Init => MeasureInv
  <2> SUFFICES ASSUME ScanInit PROVE MeasureInv
    BY DEF Init
  <2>1. PICK size \in Nat \ {0} : size = Voices * Lanes * Width
    BY Sizes
  <2>2. size * 0 = 0 /\ MaxRounds \in Nat
    BY <2>1, PermuteAssumption
  <2>3. SumsFit
    BY <2>1, <2>2 DEF ScanInit, SumsFit, NoSums
  <2> QED
    BY <2>2, <2>3 DEF ScanInit, MeasureInv
<1>2. ScanInv /\ MeasureInv /\ [Next]_vars => MeasureInv'
  <2> SUFFICES ASSUME ScanInv, MeasureInv, [Next]_vars PROVE MeasureInv'
    OBVIOUS
  <2>1. CASE UNCHANGED scanVars
    <3>1. UNCHANGED <<pc, command, rounds, turns, turn, sample, masks, sums>>
      BY <2>1 DEF scanVars, args
    <3>2. (SumsFit' <=> SumsFit) /\ (Commutes' <=> Commutes)
          /\ \A r \in {0, 1} : (Related(r)' <=> Related(r))
      BY <3>1 DEF SumsFit, Commutes, Related
    <3> QED
      BY <3>1, <3>2 DEF MeasureInv
  <2>2. CASE Main
    BY <2>2, MeasureMainKeeps
  <2>3. CASE DrawMasks
    BY <2>3, DrawMasksKeeps
  <2>4. CASE MeasureSample
    BY <2>4, MeasureSampleKeeps
  <2>5. CASE End \/ MeasureTurn \/ CollisionOver
    <3>1. /\ UNCHANGED <<command, rounds, turns, turn, sample, masks, sums>>
          /\ pc' \in {"draw", "done"}
      BY <2>5 DEF End, MeasureTurn, TurnOver, CollisionOver, Return, args
    <3> QED
      BY <3>1, MeasureFrame
  <2>6. CASE Draw \/ LinearSample \/ DifferentialSample \/ LinearTurn \/ DifferentialTurn \/ Collision
    <3>1. command # "all" /\ command' = command
      BY <2>6 DEF Draw, LinearSample, DifferentialSample, LinearTurn, DifferentialTurn, Collision,
                  Sampling, TurnOver, args
    <3> QED
      BY <3>1 DEF MeasureInv
  <2> QED
    BY <2>1, <2>2, <2>3, <2>4, <2>5, <2>6 DEF Next, ScanNext, vars, Returned
<1> QED
  BY <1>1, <1>2, AlwaysScanInv, PTL DEF Spec

\* What a round of --all measures (frogbard_analyze.c:86): a permutation that commutes
\* with rotations shows no rotational distance, a linear relation that always holds or
\* never does is counted as such, and the distances are those of different outputs.
THEOREM MeasuresAreTrue == Spec => []MeasuresTrue
<1>1. ASSUME MeasureInv PROVE RotationSeen
  <2> SUFFICES ASSUME command = "all", pc = "sample", Commutes PROVE sums.rotational = 0
    BY DEF RotationSeen, Commutes, Rotate
  <2> QED
    BY <1>1 DEF MeasureInv
<1>2. ASSUME MeasureInv PROVE RelationSeen
  <2> SUFFICES ASSUME command = "all", pc = "sample", NEW r \in {0, 1}, Related(r)
               PROVE  sums.ones = r * sample
    BY DEF RelationSeen, Related, Odd
  <2> QED
    BY <1>2 DEF MeasureInv
<1>3. ASSUME MeasureInv PROVE DistancesFit
  BY <1>3 DEF MeasureInv, SumsFit, DistancesFit
<1> QED
  BY <1>1, <1>2, <1>3, AlwaysMeasureInv, PTL DEF MeasuresTrue
=============================================================================
