--------------------------- MODULE NaturalLemmas ---------------------------
(***************************************************************************)
(* Facts about natural numbers that the proofs about loops and tables      *)
(* share: a set of numbers has a smallest one, which is how what a loop    *)
(* computes is proved turn by turn; quotients; the powers of two; and the  *)
(* words of the code, numbers below such a power.                          *)
(***************************************************************************)
EXTENDS Integers, MachineWords, FiniteSetTheorems, TLAPS

\* Induction: the numbers for which something fails have a smallest one.
LEMMA Smallest ==
    ASSUME NEW T, T \subseteq Nat, T # {}
    PROVE  \E x \in T : \A y \in T : x <= y
<1> DEFINE Smaller == OpToRel(<, Nat)
<1>1. IsWellFoundedOn(Smaller, Nat)
  BY NatLessThanWellFounded
<1> HIDE DEF Smaller
<1>2. PICK x \in T : \A y \in T : ~ (<<y, x>> \in Smaller)
  BY ONLY <1>1, WFMin, T \subseteq Nat, T # {}
<1>3. ASSUME NEW y \in T PROVE x <= y
  <2>1. x \in Nat /\ y \in Nat
    OBVIOUS
  <2>2. y < x => <<y, x>> \in Smaller
    BY <2>1 DEF Smaller, OpToRel
  <2>3. ~(y < x)
    BY <1>2, <2>2
  <2> QED
    BY <2>1, <2>3
<1> QED
  BY <1>3

-----------------------------------------------------------------------------
(* Quotient and remainder.                                                 *)

LEMMA DivMod ==
    ASSUME NEW n \in Nat, NEW d \in Nat \ {0}
    PROVE  /\ n \div d \in Nat /\ n % d \in 0 .. d - 1
           /\ (n \div d) * d + (n % d) = n
OBVIOUS

LEMMA DivModUnique ==
    ASSUME NEW q \in Nat, NEW d \in Nat \ {0}, NEW r \in 0 .. d - 1
    PROVE  (q * d + r) \div d = q /\ (q * d + r) % d = r
OBVIOUS

LEMMA LessTimes ==
    ASSUME NEW a \in Nat, NEW b \in Nat, NEW d \in Nat, a < b
    PROVE  a * d + d <= b * d
OBVIOUS

\* The same with the divisor first.
LEMMA Divided ==
    ASSUME NEW k \in Nat, NEW d \in Nat \ {0}
    PROVE  /\ k \div d \in Nat /\ k % d \in Nat /\ k % d < d
           /\ k = d * (k \div d) + (k % d)
OBVIOUS

LEMMA DividedOnly ==
    ASSUME NEW d \in Nat \ {0}, NEW g \in Nat, NEW r \in Nat, r < d
    PROVE  (d * g + r) \div d = g /\ (d * g + r) % d = r
<1>1. d * g = g * d
  OBVIOUS
<1>2. r \in 0 .. d - 1
  OBVIOUS
<1>3. (g * d + r) \div d = g /\ (g * d + r) % d = r
  BY <1>2, DivModUnique
<1> QED
  BY <1>1, <1>3, Zenon

-----------------------------------------------------------------------------
(* The powers of two, from the number of subsets of 1 .. k.                *)

LEMMA PowerOfSubsets ==
    ASSUME NEW k \in Nat
    PROVE  /\ IsFiniteSet(SUBSET (1 .. k)) /\ Cardinality(SUBSET (1 .. k)) = 2 ^ k
           /\ 2 ^ k \in Nat
<1>1. IsFiniteSet(1 .. k) /\ Cardinality(1 .. k) = k
  BY FS_Interval
<1>2. IsFiniteSet(SUBSET (1 .. k)) /\ Cardinality(SUBSET (1 .. k)) = 2 ^ k
  BY <1>1, FS_SUBSET
<1> QED
  BY <1>2, FS_CardinalityType

LEMMA PowerZero == 2 ^ 0 = 1
BY Z3

LEMMA PowerStep ==
    ASSUME NEW k \in Nat
    PROVE  2 ^ k \in Nat /\ 2 ^ (k + 1) = 2 * 2 ^ k
<1> DEFINE S == SUBSET (1 .. k)
           grown(T) == T \cup {k + 1}
           f == [T \in S |-> grown(T)]
           W == {grown(T) : T \in S}
<1>1. f \in Bijection(S, W)
  <2>1. f \in [S -> W]
    OBVIOUS
  <2>2. ASSUME NEW A \in S, NEW B \in S, f[A] = f[B] PROVE A = B
    <3>1. k + 1 \notin A /\ k + 1 \notin B
      OBVIOUS
    <3> QED
      BY <2>2, <3>1
  <2>3. \A w \in W : \E T \in S : f[T] = w
    OBVIOUS
  <2> HIDE DEF f, W, S
  <2> QED
    BY <2>1, <2>2, <2>3 DEF Bijection, Injection, Surjection, IsInjective
<1>2. IsFiniteSet(S) /\ Cardinality(S) = 2 ^ k /\ 2 ^ k \in Nat
  BY PowerOfSubsets
<1>3. IsFiniteSet(W) /\ Cardinality(W) = 2 ^ k
  <2> HIDE DEF f, W, S
  <2>1. ExistsBijection(S, W)
    BY <1>1 DEF ExistsBijection
  <2> QED
    BY <1>2, <2>1, FS_Bijection
<1>4. SUBSET (1 .. k + 1) = S \cup W
  <2>1. ASSUME NEW T \in SUBSET (1 .. k + 1) PROVE T \in S \cup W
    <3>1. CASE k + 1 \in T
      <4>1. T \ {k + 1} \in S /\ T = grown(T \ {k + 1})
        BY <3>1
      <4> QED
        BY <4>1
    <3>2. CASE k + 1 \notin T
      BY <3>2
    <3> QED
      BY <3>1, <3>2
  <2>2. ASSUME NEW T \in S \cup W PROVE T \in SUBSET (1 .. k + 1)
    OBVIOUS
  <2> QED
    BY <2>1, <2>2
<1>5. S \cap W = {}
  OBVIOUS
<1> HIDE DEF S, W
<1>6. Cardinality(S \cup W) = 2 ^ k + 2 ^ k
  BY <1>2, <1>3, <1>5, FS_Union, FS_EmptySet
<1>7. k + 1 \in Nat
  OBVIOUS
<1>8. Cardinality(SUBSET (1 .. k + 1)) = 2 ^ (k + 1)
  BY <1>7, PowerOfSubsets
<1>9. PICK x \in Nat : x = 2 ^ k
  BY <1>2
<1>10. Cardinality(S \cup W) = x + x
  BY <1>6, <1>9, Zenon
<1>11. 2 ^ (k + 1) = x + x
  BY <1>4, <1>8, <1>10, Zenon
<1>12. x + x = 2 * x
  OBVIOUS
<1> QED
  BY <1>9, <1>11, <1>12, Zenon

LEMMA PowerPositive ==
    ASSUME NEW k \in Nat
    PROVE  2 ^ k \in Nat \ {0} /\ k < 2 ^ k
<1> DEFINE T == {n \in Nat : ~(n < 2 ^ n)}
<1>1. CASE T # {}
  <2>1. PICK m \in T : \A n \in T : m <= n
    BY <1>1, Smallest
  <2>2. m # 0
    <3>1. 0 < 1
      OBVIOUS
    <3>2. ~(m < 2 ^ m)
      BY <2>1
    <3> QED
      BY <3>1, <3>2, PowerZero, Zenon
  <2>3. m - 1 \in Nat /\ m - 1 < 2 ^ (m - 1)
    BY <2>1, <2>2
  <2>4. 2 ^ (m - 1) \in Nat /\ 2 ^ m = 2 * 2 ^ (m - 1)
    BY <2>3, PowerStep
  <2> QED
    BY <2>1, <2>3, <2>4
<1>2. CASE T = {}
  <2>1. k < 2 ^ k /\ 2 ^ k \in Nat
    BY <1>2, PowerStep
  <2> QED
    BY <2>1
<1> QED
  BY <1>1, <1>2

LEMMA PowerSum ==
    ASSUME NEW a \in Nat, NEW b \in Nat
    PROVE  2 ^ (a + b) = 2 ^ a * 2 ^ b
<1> DEFINE T == {n \in Nat : 2 ^ (a + n) # 2 ^ a * 2 ^ n}
<1>1. CASE T # {}
  <2>1. PICK m \in T : \A n \in T : m <= n
    BY <1>1, Smallest
  <2>2. m # 0
    <3>1. PICK x \in Nat : x = 2 ^ a
      BY PowerStep
    <3>2. a + 0 = a /\ x * 1 = x
      OBVIOUS
    <3>3. 2 ^ (a + 0) = 2 ^ a * 2 ^ 0
      BY <3>1, <3>2, PowerZero, Zenon
    <3>4. 2 ^ (a + m) # 2 ^ a * 2 ^ m
      BY <2>1
    <3> QED
      BY <3>3, <3>4, Zenon
  <2>3. m - 1 \in Nat /\ 2 ^ (a + (m - 1)) = 2 ^ a * 2 ^ (m - 1)
    BY <2>1, <2>2
  <2>4. /\ 2 ^ (m - 1) \in Nat /\ 2 ^ m = 2 * 2 ^ (m - 1)
        /\ 2 ^ a \in Nat /\ 2 ^ (a + m) = 2 * 2 ^ (a + (m - 1))
    <3>1. a + (m - 1) \in Nat /\ (a + (m - 1)) + 1 = a + m /\ (m - 1) + 1 = m
      BY <2>3
    <3> QED
      BY <2>3, <3>1, PowerStep
  <2>5. PICK x \in Nat, y \in Nat : x = 2 ^ a /\ y = 2 ^ (m - 1)
    BY <2>4
  <2>6. 2 * (x * y) = x * (2 * y)
    OBVIOUS
  <2> QED
    BY <2>1, <2>3, <2>4, <2>5, <2>6
<1>2. CASE T = {}
  BY <1>2
<1> QED
  BY <1>1, <1>2

-----------------------------------------------------------------------------
(* The bits of a number, and the words of the code.                        *)

\* A quotient by a power of two, of a number grown by a higher power of two.
LEMMA HigherDigit ==
    ASSUME NEW n \in Nat, NEW k \in Nat, NEW d \in Nat \ {0}
    PROVE  /\ ((n + 2 ^ (k + d)) \div 2 ^ k) % 2 = (n \div 2 ^ k) % 2
<1>1. PICK s \in Nat \ {0} : s = 2 ^ k
  BY PowerPositive
<1>2. d - 1 \in Nat /\ (d - 1) + 1 = d
  OBVIOUS
<1>3. PICK e \in Nat : e = 2 ^ (d - 1)
  BY <1>2, PowerPositive
<1>4. 2 ^ d = 2 * e
  BY <1>2, <1>3, PowerStep
<1>5. 2 ^ (k + d) = s * (2 * e)
  BY <1>1, <1>4, PowerSum
<1> DEFINE h == n \div s
           r == n % s
<1>6. h \in Nat /\ r \in Nat /\ r < s /\ n = s * h + r
  BY Divided
<1> HIDE DEF h, r
<1>7. n + s * (2 * e) = s * (h + 2 * e) + r
  <2>1. s * (h + 2 * e) = s * h + s * (2 * e) /\ s * h \in Nat /\ s * (2 * e) \in Nat
    BY <1>6
  <2>2. PICK y \in Nat, z \in Nat : y = s * h /\ z = s * (2 * e)
    BY <2>1
  <2>3. n + z = (y + z) + r
    BY <1>6, <2>2
  <2> QED
    BY <2>1, <2>2, <2>3, Zenon
<1>8. h + 2 * e \in Nat
  BY <1>6
<1>9. (s * (h + 2 * e) + r) \div s = h + 2 * e
  BY <1>6, <1>8, DividedOnly
<1>10. (n + 2 ^ (k + d)) \div 2 ^ k = h + 2 * e
  BY <1>1, <1>5, <1>7, <1>9, Zenon
<1>11. (h + 2 * e) % 2 = h % 2
  BY <1>6
<1>12. n \div 2 ^ k = h
  BY <1>1 DEF h
<1> QED
  BY <1>10, <1>11, <1>12, Zenon

\* Every set of places below w holds the one bits of a number below 2^w.
LEMMA Numbers ==
    ASSUME NEW w \in Nat, NEW x \in SUBSET (0 .. w - 1)
    PROVE  \E n \in 0 .. 2 ^ w - 1 : {k \in 0 .. w - 1 : (n \div 2 ^ k) % 2 = 1} = x
<1> DEFINE BitsOf(n, m) == {k \in 0 .. m - 1 : (n \div 2 ^ k) % 2 = 1}
           Hit(m) == \A y \in SUBSET (0 .. m - 1) : \E n \in 0 .. 2 ^ m - 1 : BitsOf(n, m) = y
           T == {m \in Nat : ~Hit(m)}
<1>1. ASSUME T # {} PROVE FALSE
  <2>1. PICK m \in T : \A d \in T : m <= d
    BY <1>1, Smallest
  <2>2. CASE m = 0
    <3>1. 0 .. 0 - 1 = {}
      OBVIOUS
    <3>2. BitsOf(0, 0) = {} /\ 0 \in 0 .. 2 ^ 0 - 1
      BY <3>1, PowerZero
    <3>3. \A y \in SUBSET (0 .. 0 - 1) : y = {}
      BY <3>1
    <3> HIDE DEF BitsOf
    <3>4. Hit(0)
      BY <3>2, <3>3
    <3> QED
      BY <2>1, <2>2, <3>4
  <2>3. CASE m # 0
    <3>1. m \in Nat /\ m - 1 \in Nat /\ ~(m <= m - 1) /\ (m - 1) + 1 = m
      <4>1. m \in Nat
        BY <2>1
      <4> QED
        BY <2>3, <4>1
    <3>2. m - 1 \notin T
      BY <2>1, <3>1, Zenon
    <3>3. Hit(m - 1)
      BY <3>1, <3>2, Zenon
    <3>4. PICK s \in Nat \ {0} : s = 2 ^ (m - 1) /\ 2 ^ m = 2 * s
      BY <3>1, PowerPositive, PowerStep
    <3>5. ASSUME NEW y \in SUBSET (0 .. m - 1)
          PROVE  \E n \in 0 .. 2 ^ m - 1 : BitsOf(n, m) = y
      <4>1. y \ {m - 1} \in SUBSET (0 .. (m - 1) - 1)
        BY <3>1
      <4>2. PICK n \in 0 .. 2 ^ (m - 1) - 1 : BitsOf(n, m - 1) = y \ {m - 1}
        BY <3>3, <4>1
      <4>3. n \in Nat /\ n < s
        BY <3>4, <4>2
      <4>4. \A k \in 0 .. m - 1 : k # m - 1 => k \in 0 .. (m - 1) - 1
        BY <3>1
      <4>5. \A k \in 0 .. (m - 1) - 1 : k \in 0 .. m - 1 /\ k # m - 1
        BY <3>1
      <4>6. \A k \in 0 .. m - 1 : k # m - 1 => ((n \div 2 ^ k) % 2 = 1 <=> k \in y)
        BY <4>2, <4>4
      <4>7. CASE m - 1 \notin y
        <5>1. n \div s = 0
          <6>1. s * 0 + n = n /\ 0 \in Nat
            BY <4>3
          <6> QED
            BY <3>4, <4>3, <6>1, DividedOnly
        <5>2. ~((n \div 2 ^ (m - 1)) % 2 = 1)
          BY <3>4, <5>1
        <5>3. \A k \in 0 .. m - 1 : (n \div 2 ^ k) % 2 = 1 <=> k \in y
          BY <4>6, <4>7, <5>2, Zenon
        <5>4. BitsOf(n, m) = y
          BY <5>3
        <5>5. n \in 0 .. 2 ^ m - 1
          BY <3>4, <4>3
        <5> QED
          BY <5>4, <5>5
      <4>8. CASE m - 1 \in y
        <5>1. (n + s) \div s = 1
          <6>1. s * 1 + n = n + s /\ 1 \in Nat
            BY <4>3
          <6> QED
            BY <3>4, <4>3, <6>1, DividedOnly
        <5>2. ((n + s) \div 2 ^ (m - 1)) % 2 = 1
          BY <3>4, <5>1
        <5>3. ASSUME NEW k \in 0 .. m - 1, k # m - 1
              PROVE  ((n + s) \div 2 ^ k) % 2 = (n \div 2 ^ k) % 2
          <6>1. k \in Nat /\ (m - 1) - k \in Nat \ {0} /\ k + ((m - 1) - k) = m - 1
            BY <3>1, <5>3
          <6>2. PICK d \in Nat \ {0} : k + d = m - 1
            BY <6>1
          <6>3. ((n + 2 ^ (k + d)) \div 2 ^ k) % 2 = (n \div 2 ^ k) % 2
            BY <4>3, <6>1, HigherDigit
          <6> QED
            BY <3>4, <6>2, <6>3, Zenon
        <5>4. \A k \in 0 .. m - 1 : ((n + s) \div 2 ^ k) % 2 = 1 <=> k \in y
          BY <4>6, <4>8, <5>2, <5>3, Zenon
        <5>5. BitsOf(n + s, m) = y
          BY <5>4
        <5>6. n + s \in 0 .. 2 ^ m - 1
          BY <3>4, <4>3
        <5> QED
          BY <5>5, <5>6
      <4> QED
        BY <4>7, <4>8
    <3> HIDE DEF BitsOf
    <3>6. Hit(m)
      BY <3>5
    <3> QED
      BY <2>1, <3>6
  <2> QED
    BY <2>2, <2>3
<1> HIDE DEF BitsOf
<1>2. Hit(w)
  <2> HIDE DEF Hit
  <2> QED
    BY <1>1
<1>3. \E n \in 0 .. 2 ^ w - 1 : BitsOf(n, w) = x
  BY <1>2
<1> QED
  BY <1>3 DEF BitsOf

\* Two numbers below 2^w with the same one bits are equal.
LEMMA OnesTell ==
    ASSUME NEW w \in Nat, NEW a \in WordsOf(w), NEW b \in WordsOf(w), Ones(w, a) = Ones(w, b)
    PROVE  a = b
<1> DEFINE Tells(m) == \A x, y \in 0 .. 2 ^ m - 1 : Ones(m, x) = Ones(m, y) => x = y
           T == {m \in Nat : ~Tells(m)}
<1>1. ASSUME T # {} PROVE FALSE
  <2>1. PICK m \in T : \A d \in T : m <= d
    BY <1>1, Smallest
  <2>2. m # 0
    <3>1. \A x, y \in 0 .. 2 ^ 0 - 1 : x = y
      BY PowerZero
    <3> QED
      BY <2>1, <3>1
  <2>3. m \in Nat /\ m - 1 \in Nat /\ ~(m <= m - 1) /\ (m - 1) + 1 = m
    <3>1. m \in Nat
      BY <2>1
    <3> QED
      BY <2>2, <3>1
  <2>4. m - 1 \notin T
    BY <2>1, <2>3, Zenon
  <2>5. Tells(m - 1)
    BY <2>3, <2>4, Zenon
  <2>6. PICK s \in Nat \ {0} : s = 2 ^ (m - 1) /\ 2 ^ m = 2 * s
    BY <2>3, PowerPositive, PowerStep
  <2>7. ASSUME NEW x \in 0 .. 2 ^ m - 1
        PROVE  \E d \in {0, 1}, r \in 0 .. s - 1 :
                  /\ x = d * s + r
                  /\ m - 1 \in Ones(m, x) <=> d = 1
                  /\ Ones(m - 1, r) = Ones(m, x) \ {m - 1}
    <3>1. x \in Nat /\ x < 2 * s
      BY <2>6
    <3>2. PICK d \in {0, 1}, r \in 0 .. s - 1 : x = d * s + r
      <4>1. CASE x < s
        <5>1. x = 0 * s + x /\ x \in 0 .. s - 1
          BY <3>1, <4>1
        <5> QED
          BY <5>1
      <4>2. CASE s <= x
        <5>1. x = 1 * s + (x - s) /\ x - s \in 0 .. s - 1
          BY <3>1, <4>2
        <5> QED
          BY <5>1
      <4> QED
        BY <3>1, <4>1, <4>2
    <3>3. x \div s = d
      BY <3>2, DivModUnique
    <3>4. (x \div 2 ^ (m - 1)) % 2 = 1 <=> d = 1
      BY <2>6, <3>2, <3>3
    <3>5. m - 1 \in Ones(m, x) <=> d = 1
      BY <2>3, <3>4 DEF Ones
    <3>6. ASSUME NEW k \in 0 .. (m - 1) - 1
          PROVE  (x \div 2 ^ k) % 2 = (r \div 2 ^ k) % 2
      <4>1. k \in Nat /\ (m - 1) - k \in Nat \ {0} /\ k + ((m - 1) - k) = m - 1
        BY <2>3
      <4>2. PICK e \in Nat \ {0} : k + e = m - 1
        BY <4>1
      <4>3. ((r + 2 ^ (k + e)) \div 2 ^ k) % 2 = (r \div 2 ^ k) % 2
        <5>1. r \in Nat /\ k \in Nat
          BY <4>1
        <5> QED
          BY <5>1, HigherDigit
      <4>4. ((r + s) \div 2 ^ k) % 2 = (r \div 2 ^ k) % 2
        BY <2>6, <4>2, <4>3, Zenon
      <4>5. x = r \/ x = r + s
        BY <3>2
      <4> QED
        BY <4>4, <4>5, Zenon
    <3>7. \A k : k \in 0 .. (m - 1) - 1 <=> k \in 0 .. m - 1 /\ k # m - 1
      BY <2>3
    <3>8. Ones(m - 1, r) = Ones(m, x) \ {m - 1}
      BY <3>6, <3>7 DEF Ones
    <3> QED
      BY <3>2, <3>5, <3>8
  <2>8. ASSUME NEW x \in 0 .. 2 ^ m - 1, NEW y \in 0 .. 2 ^ m - 1, Ones(m, x) = Ones(m, y)
        PROVE  x = y
    <3>1. PICK d \in {0, 1}, r \in 0 .. s - 1 :
            /\ x = d * s + r
            /\ m - 1 \in Ones(m, x) <=> d = 1
            /\ Ones(m - 1, r) = Ones(m, x) \ {m - 1}
      BY <2>7, Zenon
    <3>2. PICK f \in {0, 1}, q \in 0 .. s - 1 :
            /\ y = f * s + q
            /\ m - 1 \in Ones(m, y) <=> f = 1
            /\ Ones(m - 1, q) = Ones(m, y) \ {m - 1}
      BY <2>7, Zenon
    <3>3. d = f
      BY <2>8, <3>1, <3>2
    <3>4. Ones(m - 1, r) = Ones(m - 1, q)
      BY <2>8, <3>1, <3>2, Zenon
    <3>5. r = q
      BY <2>5, <2>6, <3>4
    <3> QED
      BY <3>1, <3>2, <3>3, <3>5, Zenon
  <2>9. Tells(m)
    BY <2>8
  <2> HIDE DEF Tells
  <2> QED
    BY <2>1, <2>9
<1>2. Tells(w)
  <2> HIDE DEF Tells
  <2> QED
    BY <1>1
<1> QED
  BY <1>2 DEF WordsOf

\* The exclusive or is a word, has the bits in which the two differ, and undoes itself.
LEMMA XorsCancel ==
    ASSUME NEW w \in Nat, NEW a \in WordsOf(w), NEW b \in WordsOf(w)
    PROVE  /\ Xored(w, a, b) \in WordsOf(w)
           /\ Ones(w, Xored(w, a, b)) = Differing(Ones(w, a), Ones(w, b))
           /\ Xored(w, Xored(w, a, b), b) = a
<1>1. ASSUME NEW c \in WordsOf(w)
      PROVE  /\ Xored(w, c, b) \in WordsOf(w)
             /\ Ones(w, Xored(w, c, b)) = Differing(Ones(w, c), Ones(w, b))
  <2>1. Differing(Ones(w, c), Ones(w, b)) \in SUBSET (0 .. w - 1)
    BY DEF Differing, Ones
  <2>2. \E n \in WordsOf(w) : Ones(w, n) = Differing(Ones(w, c), Ones(w, b))
    BY <2>1, Numbers DEF WordsOf, Ones
  <2> QED
    BY <2>2 DEF Xored
<1>2. Ones(w, Xored(w, Xored(w, a, b), b)) = Ones(w, a)
  BY <1>1 DEF Differing
<1>3. Xored(w, a, b) \in WordsOf(w) /\ Xored(w, Xored(w, a, b), b) \in WordsOf(w)
  BY <1>1
<1> QED
  BY <1>1, <1>2, <1>3, OnesTell

\* A number that has no bits above v is a word of v bits, and has the same ones in a wider word.
LEMMA OnesWider ==
    ASSUME NEW w \in Nat, NEW v \in 0 .. w, NEW a \in WordsOf(v)
    PROVE  a \in WordsOf(w) /\ Ones(w, a) = Ones(v, a)
<1>1. ASSUME NEW k \in Nat, v <= k PROVE a < 2 ^ k /\ a \in Nat
  <2>1. k - v \in Nat /\ v + (k - v) = k
    <3>1. v \in Nat
      OBVIOUS
    <3> QED
      BY <1>1, <3>1
  <2>2. PICK s \in Nat \ {0}, t \in Nat \ {0} : s = 2 ^ v /\ t = 2 ^ (k - v)
    BY <2>1, PowerPositive
  <2>3. 2 ^ (v + (k - v)) = s * t
    BY <2>1, <2>2, PowerSum
  <2>4. 2 ^ k = s * t
    BY <2>1, <2>3, Zenon
  <2>5. a \in Nat /\ a < s
    BY <2>2 DEF WordsOf
  <2>6. PICK q \in Nat : t = q + 1
    <3>1. t - 1 \in Nat /\ t = (t - 1) + 1
      OBVIOUS
    <3> QED
      BY <3>1
  <2>7. s * t = s * q + s /\ s * q \in Nat
    BY <2>6
  <2> QED
    BY <2>4, <2>5, <2>7
<1>2. a \in WordsOf(w)
  <2>1. PICK z \in Nat : z = 2 ^ w
    BY PowerPositive
  <2>2. a < z /\ a \in Nat
    BY <1>1, <2>1
  <2> QED
    BY <2>1, <2>2 DEF WordsOf
<1>3. ASSUME NEW k \in 0 .. w - 1, v <= k PROVE ~((a \div 2 ^ k) % 2 = 1)
  <2>1. PICK z \in Nat \ {0} : z = 2 ^ k
    BY PowerPositive
  <2>2. a < z /\ a \in Nat
    BY <1>1, <1>3, <2>1
  <2>3. a \div z = 0
    <3>1. z * 0 + a = a /\ 0 \in Nat
      BY <2>2
    <3> QED
      BY <2>2, <3>1, DividedOnly
  <2> QED
    BY <2>1, <2>3
<1>4. \A k : k \in 0 .. v - 1 <=> k \in 0 .. w - 1 /\ ~(v <= k)
  OBVIOUS
<1>5. Ones(w, a) = Ones(v, a)
  BY <1>3, <1>4 DEF Ones
<1> QED
  BY <1>2, <1>5

\* The exclusive or of two short words is short, in a word of any width; that of a word and
\* zero is the word.
LEMMA XorShort ==
    ASSUME NEW w \in Nat, NEW v \in 0 .. w
    PROVE  /\ \A a, b \in WordsOf(v) : Xored(w, a, b) \in WordsOf(v)
           /\ \A a \in WordsOf(w) : Xored(w, a, 0) = a
<1>1. ASSUME NEW a \in WordsOf(v), NEW b \in WordsOf(v) PROVE Xored(w, a, b) \in WordsOf(v)
  <2>1. /\ Xored(w, a, b) \in WordsOf(w)
        /\ Ones(w, Xored(w, a, b)) = Differing(Ones(v, a), Ones(v, b))
    BY OnesWider, XorsCancel
  <2>2. /\ Xored(v, a, b) \in WordsOf(v)
        /\ Ones(v, Xored(v, a, b)) = Differing(Ones(v, a), Ones(v, b))
    BY XorsCancel
  <2>3. Xored(v, a, b) \in WordsOf(w) /\ Ones(w, Xored(v, a, b)) = Ones(v, Xored(v, a, b))
    BY <2>2, OnesWider
  <2> QED
    BY <2>1, <2>2, <2>3, OnesTell
<1>2. ASSUME NEW a \in WordsOf(w) PROVE Xored(w, a, 0) = a
  <2>1. 0 \in WordsOf(0) /\ 0 \in 0 .. w /\ Ones(0, 0) = {}
    BY PowerZero DEF WordsOf, Ones
  <2>2. 0 \in WordsOf(w) /\ Ones(w, 0) = {}
    BY <2>1, OnesWider
  <2>3. /\ Xored(w, a, 0) \in WordsOf(w)
        /\ Ones(w, Xored(w, a, 0)) = Differing(Ones(w, a), {})
    <3>1. Ones(w, Xored(w, a, 0)) = Differing(Ones(w, a), Ones(w, 0))
      BY <2>2, XorsCancel
    <3> QED
      BY <2>2, <3>1, XorsCancel
  <2>4. Differing(Ones(w, a), {}) = Ones(w, a)
    BY DEF Differing
  <2> QED
    BY <2>3, <2>4, OnesTell
<1> QED
  BY <1>1, <1>2

\* Addition and subtraction that wrap undo each other.
LEMMA SumsCancel ==
    ASSUME NEW w \in Nat, NEW a \in WordsOf(w), NEW b \in WordsOf(w)
    PROVE  /\ Added(w, a, b) \in WordsOf(w) /\ Subtracted(w, a, b) \in WordsOf(w)
           /\ Subtracted(w, Added(w, a, b), b) = a /\ Added(w, Subtracted(w, a, b), b) = a
<1>1. PICK z \in Nat \ {0} : z = 2 ^ w
  BY PowerPositive
<1>2. a \in Nat /\ b \in Nat /\ a < z /\ b < z
  BY <1>1 DEF WordsOf
<1>3. (a + b) % z = IF a + b < z THEN a + b ELSE a + b - z
  BY <1>2
<1>4. (a - b + z) % z = IF a < b THEN a - b + z ELSE a - b
  BY <1>2
<1>5. (((a + b) % z) - b + z) % z = a
  BY <1>2, <1>3
<1>6. (((a - b + z) % z) + b) % z = a
  BY <1>2, <1>4
<1> QED
  BY <1>1, <1>2, <1>3, <1>4, <1>5, <1>6 DEF WordsOf, Added, Subtracted

\* A word of s * t values, turned so that what lies above t comes to lie below s.
LEMMA TurnBack ==
    ASSUME NEW s \in Nat \ {0}, NEW t \in Nat \ {0}, NEW a \in Nat, a < s * t
    PROVE  LET b == ((a * s) % (s * t)) + (a \div t)
           IN  /\ b \in Nat /\ b < s * t
               /\ (b \div s) + ((b * t) % (s * t)) = a
<1> DEFINE h == a \div t
           l == a % t
<1>1. h \in Nat /\ l \in Nat /\ l < t /\ a = t * h + l
  BY Divided
<1> HIDE DEF h, l
<1>2. PICK p \in Nat \ {0} : p = s * t
  OBVIOUS
<1>3. h < s
  <2>1. CASE s <= h
    <3>1. t * s <= t * h
      <4>1. h - s \in Nat /\ t * (h - s) \in Nat
        BY <1>1, <2>1
      <4>2. t * (h - s) = t * h - t * s /\ t * h \in Nat /\ t * s \in Nat
        BY <1>1
      <4> QED
        BY <4>1, <4>2
    <3>2. t * s = s * t /\ t * h \in Nat
      BY <1>1
    <3> QED
      BY <1>1, <1>2, <3>1, <3>2
  <2> QED
    BY <1>1, <2>1
<1>4. s * l \in Nat /\ s * l + s <= p
  <2>1. l * s + s <= t * s
    BY <1>1, LessTimes
  <2>2. l * s = s * l /\ t * s = s * t /\ s * l \in Nat
    BY <1>1
  <2> QED
    BY <1>2, <2>1, <2>2, Zenon
<1>5. t * h \in Nat /\ t * h + t <= p
  <2>1. h * t + t <= s * t
    BY <1>1, <1>3, LessTimes
  <2>2. h * t = t * h /\ t * h \in Nat
    BY <1>1
  <2> QED
    BY <1>2, <2>1, <2>2, Zenon
<1>6. a * s = p * h + s * l
  <2>1. (t * h + l) * s = (s * t) * h + s * l
    BY <1>1
  <2> QED
    BY <1>1, <1>2, <2>1, Zenon
<1>7. (a * s) % p = s * l
  <2>1. s * l < p
    BY <1>4
  <2>2. (p * h + s * l) % p = s * l
    BY <1>1, <1>4, <2>1, DividedOnly
  <2> QED
    BY <1>6, <2>2, Zenon
<1> DEFINE b == s * l + h
<1>8. b \in Nat /\ b < p
  BY <1>1, <1>3, <1>4
<1>9. b \div s = l
  BY <1>1, <1>3, DividedOnly
<1>10. b * t = p * l + t * h
  <2>1. (s * l + h) * t = (s * t) * l + t * h
    BY <1>1
  <2> QED
    BY <1>2, <2>1, Zenon
<1> HIDE DEF b
<1>11. (b * t) % p = t * h
  <2>1. t * h < p
    BY <1>5
  <2>2. (p * l + t * h) % p = t * h
    BY <1>1, <1>5, <2>1, DividedOnly
  <2> QED
    BY <1>10, <2>2, Zenon
<1>12. l + t * h = a
  BY <1>1, <1>5
<1>13. ((a * s) % (s * t)) + (a \div t) = b
  BY <1>2, <1>7 DEF b, h
<1> QED
  BY <1>2, <1>8, <1>9, <1>11, <1>12, <1>13

\* The two rotations undo each other, whatever the amount and the width.
LEMMA TurnsCancel ==
    ASSUME NEW w \in Nat, NEW a \in WordsOf(w), NEW n \in 0 .. w
    PROVE  /\ TurnedLeft(w, a, n) \in WordsOf(w) /\ TurnedRight(w, a, n) \in WordsOf(w)
           /\ TurnedRight(w, TurnedLeft(w, a, n), n) = a
           /\ TurnedLeft(w, TurnedRight(w, a, n), n) = a
<1>1. n \in Nat /\ w - n \in Nat /\ n + (w - n) = w
  OBVIOUS
<1>2. PICK s \in Nat \ {0}, t \in Nat \ {0} : s = 2 ^ n /\ t = 2 ^ (w - n) /\ 2 ^ w = s * t
  <2>1. 2 ^ (n + (w - n)) = 2 ^ n * 2 ^ (w - n)
    BY <1>1, PowerSum
  <2>2. 2 ^ w = 2 ^ n * 2 ^ (w - n)
    BY <1>1, <2>1, Zenon
  <2> QED
    BY <1>1, <2>2, PowerPositive
<1>3. s * t = t * s /\ s * t \in Nat
  OBVIOUS
<1>4. a \in Nat /\ a < s * t /\ a < t * s
  BY <1>2, <1>3 DEF WordsOf
<1> DEFINE l == ((a * s) % (s * t)) + (a \div t)
           r == ((a * t) % (t * s)) + (a \div s)
<1>5. l \in Nat /\ l < s * t /\ (l \div s) + ((l * t) % (s * t)) = a
  BY <1>4, TurnBack
<1>6. r \in Nat /\ r < t * s /\ (r \div t) + ((r * s) % (t * s)) = a
  BY <1>4, TurnBack
<1>7. TurnedLeft(w, a, n) = l
  BY <1>2 DEF TurnedLeft
<1>8. TurnedRight(w, a, n) = r
  <2>1. (a * t) % (t * s) \in Nat /\ a \div s \in Nat
    BY <1>3, <1>4
  <2>2. r = (a \div s) + ((a * t) % (s * t))
    BY <1>3, <2>1
  <2> QED
    BY <1>2, <2>2 DEF TurnedRight
<1> HIDE DEF l, r
<1>9. TurnedRight(w, l, n) = a
  BY <1>2, <1>5 DEF TurnedRight
<1>10. TurnedLeft(w, r, n) = a
  <2>1. (r * s) % (s * t) \in Nat /\ r \div t \in Nat
    BY <1>3, <1>6
  <2>2. ((r * s) % (s * t)) + (r \div t) = a
    BY <1>3, <1>6, <2>1
  <2> QED
    BY <1>2, <2>2 DEF TurnedLeft
<1> QED
  BY <1>2, <1>3, <1>5, <1>6, <1>7, <1>8, <1>9, <1>10 DEF WordsOf
=============================================================================
