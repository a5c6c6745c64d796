-------------------------- MODULE SpongeCtxProofs --------------------------
(***************************************************************************)
(* What the operators of SpongeCtx do, for every size of a block and every *)
(* width of the counter: a context that holds and counts a message holds   *)
(* and counts the longer one after an update, and closing it gives the     *)
(* digest HashEncoding defines; and no two messages pad to the same        *)
(* blocks.                                                                 *)
(***************************************************************************)
EXTENDS SpongeCtx, NaturalLemmas

AnyByte == Bytes \cup {{}}
Block   == [1 .. BlockBytes -> AnyByte]
Context == [v : [rounds : Nat, blocks : Seq(Block)], buffer : Block,
            buffer_len : 0 .. BlockBytes - 1,
            total_lo : 0 .. WordRadix - 1, total_hi : 0 .. WordRadix - 1]

\* A context holds a message.
Holds(c, m) ==
    /\ Len(c.v.blocks) * BlockBytes + c.buffer_len = Len(m)
    /\ \A i \in 1 .. Len(c.v.blocks) : \A k \in 1 .. BlockBytes :
          c.v.blocks[i][k] = m[(i - 1) * BlockBytes + k]
    /\ \A k \in 1 .. c.buffer_len : c.buffer[k] = m[Len(c.v.blocks) * BlockBytes + k]

Counts(c, m) == c.total_lo + WordRadix * c.total_hi = Len(m) % (WordRadix * WordRadix)

-----------------------------------------------------------------------------
(* Arithmetic.                                                             *)

LEMMA Reaches ==
    ASSUME NEW t \in Nat, NEW w \in Nat, NEW d \in Nat \ {0}, NEW len \in Nat,
           t + w * d <= len, NEW j \in 1 .. w, NEW k \in 1 .. d
    PROVE  t + (j - 1) * d + k \in 1 .. len
<1>1. j - 1 \in Nat /\ j - 1 < w
  OBVIOUS
<1>2. PICK a \in Nat : a = j - 1
  BY <1>1
<1>3. a * d + d <= w * d
  BY <1>1, <1>2, LessTimes
<1>4. PICK x \in Nat : x = a * d
  BY <1>2
<1>5. PICK y \in Nat : y = w * d
  OBVIOUS
<1>6. t + x + k \in 1 .. len
  BY <1>3, <1>4, <1>5
<1> QED
  BY <1>2, <1>4, <1>6

LEMMA Place ==
    ASSUME NEW d \in Nat \ {0}, NEW n \in Nat, NEW f \in Nat, NEW a \in Nat,
           NEW q \in Nat, NEW t \in Nat, q + t = f * d, NEW k \in Nat
    PROVE  (n + f + a) * d + k = (n * d + q) + (t + a * d + k)
<1>1. (n + f + a) * d = n * d + f * d + a * d
  OBVIOUS
<1>2. PICK x \in Nat : x = n * d
  OBVIOUS
<1>3. PICK y \in Nat : y = a * d
  OBVIOUS
<1>4. PICK z \in Nat : z = f * d
  OBVIOUS
<1>5. (n + f + a) * d = x + z + y /\ q + t = z
  BY <1>1, <1>2, <1>3, <1>4
<1>6. x + z + y + k = (x + q) + (t + y + k)
  BY <1>5
<1> QED
  BY <1>2, <1>3, <1>5, <1>6

\* add_total_bytes: the two words hold the count, modulo the square of the word.
Total(r, lo, hi, n) == lo + r * hi = n % (r * r)

LEMMA Carry ==
    ASSUME NEW r \in Nat \ {0}, NEW lo \in 0 .. r - 1, NEW hi \in 0 .. r - 1,
           NEW n \in Nat, NEW len \in Nat, len < r, Total(r, lo, hi, n)
    PROVE  LET low  == (lo + len) % r
               high == IF low < lo THEN (hi + 1) % r ELSE hi
           IN  low \in 0 .. r - 1 /\ high \in 0 .. r - 1 /\ Total(r, low, high, n + len)
<1>0. lo + r * hi = n % (r * r)
  BY DEF Total
<1> DEFINE low  == (lo + len) % r
           high == IF low < lo THEN (hi + 1) % r ELSE hi
<1>1. PICK s \in Nat \ {0} : s = r * r
  OBVIOUS
<1>2. PICK q \in Nat : n = q * s + (lo + r * hi)
  BY <1>0, <1>1, DivMod
<1>3. PICK x \in Nat : x = r * hi
  OBVIOUS
<1>4. PICK y \in Nat : y = q * s
  BY <1>1, <1>2
<1>5. n = y + lo + x
  BY <1>2, <1>3, <1>4
<1>6. x + r <= s
  BY <1>1, <1>3
<1>7. ASSUME NEW z \in 0 .. s - 1 PROVE (y + z) % s = z /\ (y + s + z) % s = z
  <2>1. \A p \in Nat : (p * s + z) % s = z
    BY DivModUnique
  <2>2. q + 1 \in Nat
    OBVIOUS
  <2>3. (q + 1) * s = q * s + s
    BY <1>1
  <2> QED
    BY <2>1, <2>2, <2>3, <1>4
<1>8. CASE lo + len < r
  <2>1. low = lo + len /\ high = hi
    BY <1>8
  <2>2. n + len = y + (low + x) /\ low + x \in 0 .. s - 1
    BY <1>5, <1>6, <1>8, <2>1
  <2>3. (n + len) % s = low + x
    BY <1>7, <2>2
  <2> QED
    BY <2>1, <2>3, <1>1, <1>3, <1>8 DEF Total
<1>9. CASE lo + len >= r
  <2>1. low = lo + len - r /\ low < lo /\ high = (hi + 1) % r
    BY <1>9
  <2>2. CASE hi + 1 < r
    <3>1. high = hi + 1 /\ r * high = x + r /\ x + r + r <= s
      BY <2>1, <2>2, <1>1, <1>3
    <3>2. n + len = y + (low + x + r) /\ low + x + r \in 0 .. s - 1
      BY <1>5, <2>1, <3>1
    <3>3. (n + len) % s = low + x + r
      BY <1>7, <3>2
    <3> QED
      BY <2>1, <2>2, <3>1, <3>3, <1>1 DEF Total
  <2>3. CASE hi + 1 = r
    <3>1. high = 0 /\ r * high = 0
      BY <2>1, <2>3
    <3>2. x + r = s
      <4>1. r * (hi + 1) = r * hi + r
        OBVIOUS
      <4> QED
        BY <4>1, <2>3, <1>1, <1>3
    <3>3. n + len = y + s + low /\ low \in 0 .. s - 1
      BY <1>5, <1>6, <2>1, <3>2
    <3>4. (n + len) % s = low
      BY <1>7, <3>3
    <3> QED
      BY <2>1, <3>1, <3>4, <1>1 DEF Total
  <2> QED
    BY <2>2, <2>3
<1> QED
  BY <1>8, <1>9

\* The words that hold a count are its lowest two digits.
LEMMA Digits ==
    ASSUME NEW r \in Nat \ {0}, NEW lo \in 0 .. r - 1, NEW hi \in 0 .. r - 1,
           NEW n \in Nat, Total(r, lo, hi, n)
    PROVE  lo = n % r /\ hi = (n \div r) % r
<1>0. lo + r * hi = n % (r * r)
  BY DEF Total
<1>1. PICK s \in Nat \ {0} : s = r * r
  OBVIOUS
<1>2. PICK q \in Nat : n = q * s + (lo + r * hi)
  BY <1>0, <1>1, DivMod
<1>3. PICK a \in Nat : a = q * r + hi
  OBVIOUS
<1>4. n = a * r + lo
  <2>1. q * (r * r) = (q * r) * r /\ r * hi = hi * r
    OBVIOUS
  <2>2. (q * r + hi) * r = (q * r) * r + hi * r
    OBVIOUS
  <2> QED
    BY <1>1, <1>2, <1>3, <2>1, <2>2
<1>5. a % r = hi
  BY <1>3, DivModUnique
<1>6. n \div r = a /\ n % r = lo
  BY <1>4, DivModUnique
<1> QED
  BY <1>5, <1>6

-----------------------------------------------------------------------------
(* frogbard_update.                                                        *)

LEMMA Positive == BlockBytes \in Nat \ {0} /\ WordRadix \in Nat \ {0}
BY BlockAssumption

\* What memcpy leaves, and that the bytes it copies are bytes.
LEMMA Copied ==
    ASSUME NEW b \in Block, NEW at \in Nat, NEW d \in Seq(Bytes)
    PROVE  /\ CopyTo(b, at, d) \in Block
           /\ \A k \in 1 .. BlockBytes :
                 CopyTo(b, at, d)[k] = IF k \in at + 1 .. at + Len(d) THEN d[k - at] ELSE b[k]
<1>1. ASSUME NEW k \in at + 1 .. at + Len(d) PROVE d[k - at] \in Bytes
  <2>1. k - at \in 1 .. Len(d)
    OBVIOUS
  <2> QED
    BY <2>1
<1> QED
  BY <1>1 DEF CopyTo, Block, AnyByte

\* How far an update takes the message: B - 1 bytes or fewer stay behind the last whole
\* block, and the buffer is a block when it is absorbed.
LEMMA Parts ==
    ASSUME NEW B \in Nat \ {0}, B = BlockBytes, NEW c \in Context,
           NEW len \in Nat \ {0}, NEW f \in {0, 1}, f = IF Fills(c, len) THEN 1 ELSE 0
    PROVE  /\ Take(c, len) \in 0 .. len /\ Whole(c, len) \in Nat
           /\ Behind(c, len) \in 0 .. B - 1
           /\ Take(c, len) + Whole(c, len) * B + Behind(c, len) = len
           /\ \/ c.buffer_len + Take(c, len) = f * B
              \/ /\ f = 0 /\ Take(c, len) = len /\ c.buffer_len # 0 /\ c.buffer_len + len < B
                 /\ Whole(c, len) = 0 /\ Behind(c, len) = 0
<1>1. c.buffer_len \in 0 .. B - 1
  BY DEF Context
<1>2. Take(c, len) \in 0 .. len
  BY <1>1 DEF Take
<1>3. len - Take(c, len) \in Nat
  BY <1>2
<1>4. /\ Whole(c, len) \in Nat /\ Behind(c, len) \in 0 .. B - 1
      /\ Whole(c, len) * B + Behind(c, len) = len - Take(c, len)
  BY <1>3, DivMod DEF Whole, Behind
<1>5. CASE c.buffer_len # 0 /\ c.buffer_len + len < B
  <2>1. Take(c, len) = len /\ f = 0
    BY <1>1, <1>5 DEF Take, Fills
  <2>2. len - Take(c, len) = 0
    BY <2>1
  <2>3. 0 * B + 0 = 0 /\ 0 \in 0 .. B - 1
    OBVIOUS
  <2>4. 0 \div B = 0 /\ 0 % B = 0
    BY <2>3, DivModUnique
  <2>5. Whole(c, len) = 0 /\ Behind(c, len) = 0
    BY <2>2, <2>4 DEF Whole, Behind
  <2>6. Take(c, len) + Whole(c, len) * B + Behind(c, len) = len
    BY <2>1, <2>3, <2>5
  <2> QED
    BY <2>1, <2>5, <2>6, <1>2, <1>4, <1>5
<1>6. CASE c.buffer_len = 0 \/ c.buffer_len + len >= B
  <2>1. c.buffer_len + Take(c, len) = f * B
    BY <1>1, <1>2, <1>6 DEF Take, Fills
  <2>2. PICK y \in Int : y = Whole(c, len) * B
    BY <1>4
  <2>3. Take(c, len) + Whole(c, len) * B + Behind(c, len) = len
    BY <2>2, <1>2, <1>4
  <2> QED
    BY <2>1, <2>3, <1>2, <1>4
<1> QED
  BY <1>1, <1>5, <1>6

\* Where the bytes of a message that has grown are.
LEMMA Joined ==
    ASSUME NEW m \in Seq(Bytes), NEW d \in Seq(Bytes)
    PROVE  m \o d \in Seq(Bytes) /\ Len(m \o d) = Len(m) + Len(d)
OBVIOUS

LEMMA Kept ==
    ASSUME NEW m \in Seq(Bytes), NEW d \in Seq(Bytes), NEW p \in 1 .. Len(m)
    PROVE  (m \o d)[p] = m[p]
OBVIOUS

LEMMA Grown ==
    ASSUME NEW m \in Seq(Bytes), NEW d \in Seq(Bytes), NEW p \in 1 .. Len(d)
    PROVE  (m \o d)[Len(m) + p] = d[p]
OBVIOUS

\* The blocks an update appends, and their bytes.
Topping(c, len) == IF Fills(c, len) THEN 1 ELSE 0

LEMMA Appended ==
    ASSUME NEW c \in Context, NEW d \in Seq(Bytes), Len(d) # 0
    PROVE  LET u == UpdateCtx(c, d)
               t == Take(c, Len(d))
               w == Whole(c, Len(d))
               f == Topping(c, Len(d))
               n == Len(c.v.blocks)
           IN  /\ u.v.blocks \in Seq(Block) /\ u.v.rounds = c.v.rounds
               /\ Len(u.v.blocks) = n + f + w
               /\ \A i \in 1 .. n : u.v.blocks[i] = c.v.blocks[i]
               /\ f = 1 => u.v.blocks[n + 1] = Topped(c, d)
               /\ \A j \in 1 .. w : \A k \in 1 .. BlockBytes :
                     u.v.blocks[n + f + j][k] = d[t + (j - 1) * BlockBytes + k]
<1> DEFINE B == BlockBytes
           u == UpdateCtx(c, d)
           t == Take(c, Len(d))
           w == Whole(c, Len(d))
           f == Topping(c, Len(d))
           n == Len(c.v.blocks)
           top == IF Fills(c, Len(d)) THEN <<Topped(c, d)>> ELSE << >>
<1>1. u.v.blocks = c.v.blocks \o top \o Straight(c, d) /\ u.v.rounds = c.v.rounds
  BY DEF UpdateCtx, Context
<1>0. f \in {0, 1} /\ B \in Nat \ {0} /\ Len(d) \in Nat \ {0}
  BY Positive DEF Topping
<1>2. /\ t \in 0 .. Len(d) /\ w \in Nat /\ t + w * B <= Len(d)
  <2>1. Len(d) \in Nat \ {0}
    OBVIOUS
  <2>2. t \in 0 .. Len(d) /\ w \in Nat /\ t + w * B + Behind(c, Len(d)) = Len(d)
        /\ Behind(c, Len(d)) \in 0 .. B - 1
    BY <2>1, <1>0, Parts DEF Topping
  <2>3. PICK y \in Nat : y = w * B
    BY <2>2, <1>0
  <2> QED
    BY <2>2, <2>3
<1>3. Topped(c, d) \in Block
  <2>1. SubSeq(d, 1, t) \in Seq(Bytes)
    BY <1>2
  <2>2. c.buffer \in Block /\ c.buffer_len \in Nat
    BY DEF Context
  <2> QED
    BY <2>1, <2>2, Copied DEF Topped
<1>4. top \in Seq(Block) /\ Len(top) = f /\ (f = 1 => top[1] = Topped(c, d))
  BY <1>3 DEF Topping
<1>5. ASSUME NEW j \in 1 .. w, NEW k \in 1 .. B
      PROVE  d[t + (j - 1) * B + k] \in Bytes
  <2>1. t \in Nat /\ w \in Nat /\ t + w * B <= Len(d) /\ Len(d) \in Nat
    BY <1>2
  <2>2. t + (j - 1) * B + k \in 1 .. Len(d)
    BY <2>1, <1>0, Reaches
  <2> QED
    BY <2>2
<1>6. /\ Straight(c, d) \in Seq(Block) /\ Len(Straight(c, d)) = w
      /\ \A j \in 1 .. w : \A k \in 1 .. B : Straight(c, d)[j][k] = d[t + (j - 1) * B + k]
  <2> DEFINE block(j) == [k \in 1 .. BlockBytes |-> d[t + (j - 1) * BlockBytes + k]]
  <2>1. \A j \in 1 .. w : block(j) \in Block
    BY <1>5 DEF Block, AnyByte
  <2>2. \A j \in 1 .. w : \A k \in 1 .. B : block(j)[k] = d[t + (j - 1) * B + k]
    OBVIOUS
  <2>3. Straight(c, d) = [j \in 1 .. w |-> block(j)]
    BY DEF Straight
  <2> DEFINE s == [j \in 1 .. w |-> block(j)]
  <2>4. s \in Seq(Block) /\ Len(s) = w /\ \A j \in 1 .. w : s[j] = block(j)
    <3> HIDE DEF block, w
    <3> QED
      BY <2>1, <1>2
  <2> HIDE DEF s, block, w, t
  <2>5. Straight(c, d) = s
    BY <2>3 DEF s
  <2>6. ASSUME NEW j \in 1 .. w, NEW k \in 1 .. B
        PROVE  Straight(c, d)[j][k] = d[t + (j - 1) * B + k]
    <3>1. s[j] = block(j) /\ block(j)[k] = d[t + (j - 1) * B + k]
      BY <2>2, <2>4
    <3> QED
      BY <2>5, <3>1
  <2> QED
    BY <2>4, <2>5, <2>6
<1>7. c.v.blocks \in Seq(Block)
  BY DEF Context
<1>8. /\ u.v.blocks \in Seq(Block) /\ Len(u.v.blocks) = n + f + w
      /\ \A i \in 1 .. n : u.v.blocks[i] = c.v.blocks[i]
      /\ f = 1 => u.v.blocks[n + 1] = Topped(c, d)
      /\ \A j \in 1 .. w : u.v.blocks[n + f + j] = Straight(c, d)[j]
  <2>1. PICK S \in Seq(Block) : S = Straight(c, d)
    BY <1>6
  <2>2. PICK T \in Seq(Block) : T = top /\ Len(T) = f
    BY <1>4
  <2>3. PICK C \in Seq(Block) : C = c.v.blocks
    BY <1>7
  <2>4. /\ C \o T \o S \in Seq(Block) /\ Len(C \o T \o S) = Len(C) + Len(T) + Len(S)
        /\ \A i \in 1 .. Len(C) : (C \o T \o S)[i] = C[i]
        /\ \A i \in 1 .. Len(T) : (C \o T \o S)[Len(C) + i] = T[i]
        /\ \A i \in 1 .. Len(S) : (C \o T \o S)[Len(C) + Len(T) + i] = S[i]
    OBVIOUS
  <2> HIDE DEF top, w, u, t, f, n
  <2>5. PICK U \in Seq(Block) : U = u.v.blocks /\ U = C \o T \o S
    BY <2>1, <2>2, <2>3, <2>4, <1>1
  <2>6. Len(C) = n /\ Len(T) = f /\ Len(S) = w
    BY <2>1, <2>2, <2>3, <1>6 DEF n
  <2>7. /\ Len(U) = n + f + w
        /\ \A i \in 1 .. n : U[i] = C[i]
        /\ \A i \in 1 .. f : U[n + i] = T[i]
        /\ \A i \in 1 .. w : U[n + f + i] = S[i]
    BY <2>4, <2>5, <2>6
  <2>8. ASSUME f = 1 PROVE U[n + 1] = Topped(c, d)
    <3>1. 1 \in 1 .. f /\ T[1] = Topped(c, d)
      BY <2>2, <2>8, <1>4
    <3> QED
      BY <2>7, <3>1
  <2> QED
    BY <2>1, <2>3, <2>5, <2>7, <2>8
<1> HIDE DEF top, w, u, t, f, n
<1>9. ASSUME NEW j \in 1 .. w, NEW k \in 1 .. B
      PROVE  u.v.blocks[n + f + j][k] = d[t + (j - 1) * B + k]
  <2>1. u.v.blocks[n + f + j] = Straight(c, d)[j]
    BY <1>8
  <2>2. Straight(c, d)[j][k] = d[t + (j - 1) * B + k]
    BY <1>6
  <2> QED
    BY <2>1, <2>2
<1>10. \A j \in 1 .. w : \A k \in 1 .. B :
          u.v.blocks[n + f + j][k] = d[t + (j - 1) * B + k]
  BY <1>9
<1> QED
  BY <1>1, <1>8, <1>10, Zenon DEF u, t, w, f, n

\* Every whole block of the message that has grown is the block the context absorbed.
LEMMA BlocksHeld ==
    ASSUME NEW c \in Context, NEW m \in Seq(Bytes), NEW d \in Seq(Bytes), Holds(c, m),
           Len(d) # 0, NEW i \in 1 .. Len(UpdateCtx(c, d).v.blocks), NEW k \in 1 .. BlockBytes
    PROVE  UpdateCtx(c, d).v.blocks[i][k] = (m \o d)[(i - 1) * BlockBytes + k]
<1> DEFINE u == UpdateCtx(c, d)
           t == Take(c, Len(d))
           w == Whole(c, Len(d))
<1>1. PICK B \in Nat \ {0} : B = BlockBytes
  BY Positive
<1>2. PICK n \in Nat : n = Len(c.v.blocks)
  BY DEF Context
<1>3. PICK q \in 0 .. B - 1 : q = c.buffer_len
  BY <1>1 DEF Context
<1>4. PICK f \in {0, 1} : f = Topping(c, Len(d))
  BY DEF Topping
<1>5. PICK len \in Nat \ {0} : len = Len(d)
  OBVIOUS
<1>6. PICK M \in Nat : M = Len(m) /\ M = n * B + q
  BY <1>1, <1>2, <1>3 DEF Holds
<1>7. /\ t \in 0 .. len /\ w \in Nat /\ t + w * B <= len
      /\ q + t = f * B \/ (f = 0 /\ w = 0)
  <2>1. /\ t \in 0 .. len /\ w \in Nat /\ Behind(c, len) \in 0 .. B - 1
        /\ t + w * B + Behind(c, len) = len
        /\ q + t = f * B \/ (f = 0 /\ w = 0)
    BY SMTT(30), <1>1, <1>3, <1>4, <1>5, Parts DEF Topping
  <2>2. PICK y \in Nat : y = w * B
    BY <2>1
  <2> QED
    BY <2>1, <2>2
<1>8. /\ Len(u.v.blocks) = n + f + w
      /\ \A h \in 1 .. n : u.v.blocks[h] = c.v.blocks[h]
      /\ f = 1 => u.v.blocks[n + 1] = Topped(c, d)
      /\ \A j \in 1 .. w : \A b \in 1 .. B : u.v.blocks[n + f + j][b] = d[t + (j - 1) * B + b]
  BY ZenonT(30), <1>1, <1>2, <1>4, Appended
<1> HIDE DEF u, t, w
<1> SUFFICES u.v.blocks[i][k] = (m \o d)[(i - 1) * B + k]
  BY <1>1 DEF u
<1>9. CASE i <= n
  <2>1. (i - 1) * B + k \in 1 .. M
    <3>1. 0 + n * B <= M
      <4>1. PICK x \in Nat : x = n * B
        OBVIOUS
      <4> QED
        BY <4>1, <1>6
    <3>2. i \in 1 .. n /\ k \in 1 .. B
      BY <1>1, <1>9
    <3>3. 0 + (i - 1) * B + k \in 1 .. M
      BY <3>1, <3>2, Reaches
    <3>4. PICK x \in Int : x = (i - 1) * B
      BY <3>2
    <3> QED
      BY <3>3, <3>4, <3>2
  <2>2. c.v.blocks[i][k] = m[(i - 1) * B + k]
    BY <1>1, <1>2, <1>9 DEF Holds
  <2>3. PICK p \in 1 .. M : p = (i - 1) * B + k
    BY <2>1
  <2>4. (m \o d)[p] = m[p]
    BY <1>6, Kept
  <2>5. u.v.blocks[i] = c.v.blocks[i]
    BY <1>8, <1>9
  <2> QED
    BY <2>2, <2>3, <2>4, <2>5
<1>10. CASE f = 1 /\ i = n + 1
  <2>1. u.v.blocks[i] = Topped(c, d)
    BY <1>8, <1>10
  <2>2. PICK x \in Nat : x = n * B
    OBVIOUS
  <2>3. (i - 1) * B + k = x + k
    BY <2>2, <1>10
  <2>4. q + t = B
    BY <1>7, <1>10
  <2>5. Topped(c, d)[k] = IF k \in q + 1 .. B THEN d[k - q] ELSE c.buffer[k]
    <3>1. SubSeq(d, 1, t) \in Seq(Bytes) /\ Len(SubSeq(d, 1, t)) = t
          /\ \A h \in 1 .. t : SubSeq(d, 1, t)[h] = d[h]
      BY <1>5, <1>7
    <3>2. c.buffer \in Block
      BY DEF Context
    <3>3. PICK s \in Seq(Bytes) : s = SubSeq(d, 1, t) /\ Len(s) = t /\ \A h \in 1 .. t : s[h] = d[h]
      BY <3>1
    <3>6. CopyTo(c.buffer, q, s)[k] = IF k \in q + 1 .. q + t THEN s[k - q] ELSE c.buffer[k]
      <4>1. q \in Nat /\ k \in 1 .. BlockBytes
        OBVIOUS
      <4>2. CopyTo(c.buffer, q, s)[k]
              = IF k \in q + 1 .. q + Len(s) THEN s[k - q] ELSE c.buffer[k]
        BY <4>1 DEF CopyTo
      <4> QED
        BY <4>2, <3>3
    <3>4. Topped(c, d) = CopyTo(c.buffer, q, SubSeq(d, 1, t))
      BY <1>3 DEF Topped, t
    <3>5. k \in q + 1 .. B => k - q \in 1 .. t
      BY <2>4, <1>1, <1>7
    <3> QED
      BY <3>3, <3>4, <3>5, <3>6, <2>4
  <2>6. CASE k <= q
    <3>1. c.buffer[k] = m[x + k]
      BY <1>1, <1>2, <1>3, <2>2, <2>6 DEF Holds
    <3>2. PICK p \in 1 .. M : p = x + k
      BY <1>1, <1>6, <2>2, <2>6
    <3>3. (m \o d)[p] = m[p]
      BY <1>6, Kept
    <3>4. Topped(c, d)[k] = c.buffer[k]
      BY <2>5, <2>6, <1>1, <1>3
    <3> QED
      BY <2>1, <2>3, <3>1, <3>2, <3>3, <3>4
  <2>7. CASE k > q
    <3>1. PICK p \in 1 .. len : p = k - q /\ x + k = M + p
      BY <1>1, <1>6, <1>7, <2>2, <2>4, <2>7
    <3>2. (m \o d)[M + p] = d[p]
      BY ZenonT(30), <1>5, <1>6, Grown
    <3>3. Topped(c, d)[k] = d[p]
      BY <2>5, <2>7, <3>1, <1>1, <1>3
    <3> QED
      BY <2>1, <2>3, <3>1, <3>2, <3>3
  <2>8. k <= q \/ k > q
    BY <1>1
  <2> QED
    BY <2>6, <2>7, <2>8, Zenon
<1>11. CASE i > n + f
  <2>1. PICK j \in 1 .. w : i = n + f + j
    <3>1. i - (n + f) \in 1 .. w /\ i = n + f + (i - (n + f))
      BY <1>7, <1>8, <1>11 DEF u
    <3> QED
      BY <3>1
  <2>2. u.v.blocks[i][k] = d[t + (j - 1) * B + k]
    BY <2>1, <1>1, <1>8
  <2>3. PICK a \in Nat : a = j - 1
    BY <1>7
  <2>4. q + t = f * B
    BY <1>7, <2>1
  <2>5. (n + f + a) * B + k = (n * B + q) + (t + a * B + k)
    BY <2>4, <1>1, <1>7, Place
  <2>6. i - 1 = n + f + a
    BY <2>1, <2>3
  <2>7. t + a * B + k \in 1 .. len
    BY <2>3, <1>1, <1>7, Reaches
  <2>8. PICK p \in 1 .. len : p = t + a * B + k
    BY <2>7
  <2>9. (i - 1) * B + k = M + p
    BY <2>5, <2>6, <2>8, <1>6
  <2>10. (m \o d)[M + p] = d[p]
    BY ZenonT(30), <1>5, <1>6, Grown
  <2> QED
    BY <2>2, <2>3, <2>8, <2>9, <2>10
<1>12. i \in 1 .. n + f + w
  BY <1>8 DEF u
<1>13. i <= n \/ (f = 1 /\ i = n + 1) \/ i > n + f
  BY <1>7, <1>12
<1> QED
  BY <1>9, <1>10, <1>11, <1>13, Zenon

\* What an update leaves in the buffer.
LEMMA Buffered ==
    ASSUME NEW c \in Context, NEW d \in Seq(Bytes), Len(d) # 0
    PROVE  LET u == UpdateCtx(c, d)
               r == Behind(c, Len(d))
           IN  /\ u.buffer \in Block
               /\ \/ /\ c.buffer_len + Take(c, Len(d)) = Topping(c, Len(d)) * BlockBytes
                     /\ u.buffer_len = r
                     /\ \A k \in 1 .. r : u.buffer[k] = d[Len(d) - r + k]
                  \/ /\ Topping(c, Len(d)) = 0 /\ Whole(c, Len(d)) = 0
                     /\ u.buffer_len = c.buffer_len + Len(d) /\ u.buffer_len < BlockBytes
                     /\ \A k \in 1 .. c.buffer_len : u.buffer[k] = c.buffer[k]
                     /\ \A k \in 1 .. Len(d) : u.buffer[c.buffer_len + k] = d[k]
<1> DEFINE u == UpdateCtx(c, d)
           t == Take(c, Len(d))
           f == Topping(c, Len(d))
           r == Behind(c, Len(d))
<1>1. PICK B \in Nat \ {0} : B = BlockBytes
  BY Positive
<1>2. PICK q \in 0 .. B - 1 : q = c.buffer_len
  BY <1>1 DEF Context
<1>3. PICK len \in Nat \ {0} : len = Len(d)
  OBVIOUS
<1>4. /\ t \in 0 .. len /\ Whole(c, len) \in Nat /\ r \in 0 .. B - 1 /\ f \in {0, 1}
      /\ t + Whole(c, len) * B + r = len
      /\ \/ q + t = f * B
         \/ f = 0 /\ t = len /\ q # 0 /\ q + len < B /\ Whole(c, len) = 0 /\ r = 0
  BY <1>1, <1>2, <1>3, Parts DEF Topping
<1> HIDE DEF t, r, f, u
<1>5. r <= len
  <2>1. PICK y \in Nat : y = Whole(c, len) * B
    BY <1>4
  <2> QED
    BY <2>1, <1>4
<1>6. PICK s \in Seq(Bytes) : s = SubSeq(d, 1, t) /\ Len(s) = t /\ \A k \in 1 .. t : s[k] = d[k]
  <2>1. SubSeq(d, 1, t) \in Seq(Bytes) /\ Len(SubSeq(d, 1, t)) = t
        /\ \A k \in 1 .. t : SubSeq(d, 1, t)[k] = d[k]
    BY <1>3, <1>4
  <2> QED
    BY <2>1
<1>7. c.buffer \in Block
  BY DEF Context
<1>8. Topped(c, d) = CopyTo(c.buffer, q, s) /\ Topped(c, d) \in Block
  <2>1. Topped(c, d) = CopyTo(c.buffer, q, s)
    BY <1>2, <1>6 DEF Topped, t
  <2>2. q \in Nat
    BY <1>1
  <2>3. CopyTo(c.buffer, q, s) \in Block
    BY <2>2, <1>7, Copied
  <2> QED
    BY <2>1, <2>3
<1>9. /\ u.buffer = IF r = 0 THEN Topped(c, d)
                    ELSE CopyTo(Topped(c, d), 0, SubSeq(d, len - r + 1, len))
      /\ u.buffer_len = IF r # 0 THEN r
                        ELSE IF Fills(c, Len(d)) THEN 0 ELSE q + t
  BY <1>2, <1>3 DEF UpdateCtx, u, r, t
<1>10. CASE r # 0
  <2>1. PICK z \in Seq(Bytes) : /\ z = SubSeq(d, len - r + 1, len) /\ Len(z) = r
                                /\ \A k \in 1 .. r : z[k] = d[len - r + k]
    <3>1. len - r + 1 \in 1 .. len
      BY <1>4, <1>5, <1>10
    <3>2. SubSeq(d, len - r + 1, len) \in Seq(Bytes)
          /\ Len(SubSeq(d, len - r + 1, len)) = r
      BY <1>3, <3>1, <1>4
    <3>3. ASSUME NEW k \in 1 .. r PROVE SubSeq(d, len - r + 1, len)[k] = d[len - r + k]
      BY SMTT(30), <1>3, <3>1, <1>4
    <3> QED
      BY <3>2, <3>3
  <2>2. u.buffer = CopyTo(Topped(c, d), 0, z) /\ u.buffer_len = r
    BY <2>1, <1>9, <1>10
  <2>3. u.buffer \in Block
    BY <2>2, <1>8, Copied
  <2>4. ASSUME NEW k \in 1 .. r PROVE u.buffer[k] = d[len - r + k]
    <3>1. k \in 1 .. BlockBytes /\ k \in 0 + 1 .. 0 + Len(z) /\ k - 0 = k
      <4>1. r \in Nat /\ r < B /\ Len(z) = r
        BY <2>1, <1>4
      <4>2. k \in Nat /\ 1 <= k /\ k <= r
        BY <4>1
      <4> QED
        BY <4>1, <4>2, <1>1
    <3>2. CopyTo(Topped(c, d), 0, z)[k] = z[k]
      BY <3>1 DEF CopyTo
    <3> QED
      BY <3>2, <2>1, <2>2
  <2>5. q + t = f * B
    BY <1>4, <1>10
  <2> QED
    BY <2>2, <2>3, <2>4, <2>5, <1>1, <1>2, <1>3 DEF u, r, t, f
<1>11. CASE r = 0 /\ q + t = f * B
  <2>1. u.buffer \in Block
    BY <1>8, <1>9, <1>11
  <2>2. u.buffer_len = 0
    BY <1>1, <1>4, <1>9, <1>11 DEF Topping, f
  <2> QED
    BY <2>1, <2>2, <1>1, <1>2, <1>3, <1>11 DEF u, r, t, f
<1>12. CASE r = 0 /\ f = 0 /\ t = len /\ q + len < B /\ Whole(c, len) = 0
  <2>1. u.buffer = CopyTo(c.buffer, q, s) /\ u.buffer \in Block
    BY <1>8, <1>9, <1>12
  <2>2. u.buffer_len = q + len
    BY <1>9, <1>12 DEF Topping, f
  <2>3. ASSUME NEW k \in 1 .. q PROVE u.buffer[k] = c.buffer[k]
    <3>1. k \in 1 .. BlockBytes /\ k \notin q + 1 .. q + Len(s)
      BY <1>1
    <3> QED
      BY <3>1, <2>1 DEF CopyTo
  <2>4. ASSUME NEW k \in 1 .. len PROVE u.buffer[q + k] = d[k]
    <3>1. q + k \in 1 .. BlockBytes /\ q + k \in q + 1 .. q + Len(s) /\ (q + k) - q = k
      BY <1>1, <1>6, <1>12
    <3>2. u.buffer[q + k] = s[(q + k) - q]
      BY <3>1, <2>1 DEF CopyTo
    <3> QED
      BY <3>1, <3>2, <1>6, <1>12
  <2> QED
    BY <2>1, <2>2, <2>3, <2>4, <1>1, <1>2, <1>3, <1>12 DEF u, r, t, f
<1> QED
  BY <1>4, <1>10, <1>11, <1>12

\* The length of the message and the place of its last bytes.
LEMMA TailHeld ==
    ASSUME NEW c \in Context, NEW m \in Seq(Bytes), NEW d \in Seq(Bytes), Holds(c, m), Len(d) # 0
    PROVE  LET u == UpdateCtx(c, d)
           IN  /\ u.buffer_len \in 0 .. BlockBytes - 1
               /\ Len(u.v.blocks) * BlockBytes + u.buffer_len = Len(m \o d)
               /\ \A k \in 1 .. u.buffer_len :
                     u.buffer[k] = (m \o d)[Len(u.v.blocks) * BlockBytes + k]
<1> DEFINE u == UpdateCtx(c, d)
           t == Take(c, Len(d))
           w == Whole(c, Len(d))
           f == Topping(c, Len(d))
           r == Behind(c, Len(d))
<1>1. PICK B \in Nat \ {0} : B = BlockBytes
  BY Positive
<1>2. PICK q \in 0 .. B - 1 : q = c.buffer_len
  BY <1>1 DEF Context
<1>3. PICK len \in Nat \ {0} : len = Len(d)
  OBVIOUS
<1>4. PICK n \in Nat : n = Len(c.v.blocks)
  BY DEF Context
<1>5. PICK M \in Nat : M = Len(m)
  OBVIOUS
<1>6. PICK x \in Nat : x = n * B /\ M = x + q
  BY <1>1, <1>2, <1>4, <1>5 DEF Holds
<1>7. Len(m \o d) = M + len
  BY <1>3, <1>5
<1>8. t \in 0 .. len /\ w \in Nat /\ r \in 0 .. B - 1 /\ f \in {0, 1} /\ t + w * B + r = len
  BY <1>1, <1>3, Parts DEF Topping
<1>9. Len(u.v.blocks) = n + f + w
  BY <1>4, Appended
<1>10. \/ /\ q + t = f * B /\ u.buffer_len = r
          /\ \A k \in 1 .. r : u.buffer[k] = d[len - r + k]
       \/ /\ f = 0 /\ w = 0 /\ u.buffer_len = q + len /\ q + len < B
          /\ \A k \in 1 .. q : u.buffer[k] = c.buffer[k]
          /\ \A k \in 1 .. len : u.buffer[q + k] = d[k]
  BY <1>1, <1>2, <1>3, Buffered
<1> HIDE DEF u, t, w, f, r
<1> SUFFICES /\ u.buffer_len \in 0 .. B - 1
             /\ Len(u.v.blocks) * B + u.buffer_len = M + len
             /\ \A k \in 1 .. u.buffer_len :
                   u.buffer[k] = (m \o d)[Len(u.v.blocks) * B + k]
  BY <1>1, <1>7 DEF u
<1>11. CASE /\ q + t = f * B /\ u.buffer_len = r
            /\ \A k \in 1 .. r : u.buffer[k] = d[len - r + k]
  <2>1. ASSUME NEW k \in Nat PROVE (n + f + w) * B + k = M + (t + w * B + k)
    <3>1. f \in Nat /\ w \in Nat /\ q \in Nat /\ t \in Nat /\ q + t = f * B
      BY <1>1, <1>8, <1>11
    <3>2. (n + f + w) * B + k = (n * B + q) + (t + w * B + k)
      BY <3>1, Place
    <3> QED
      BY <3>2, <1>6
  <2>2. PICK y \in Nat : y = (n + f + w) * B
    BY <1>8
  <2>3. PICK z \in Nat : z = w * B
    BY <1>8
  <2>4. y + r = M + len
    BY <2>1, <2>2, <2>3, <1>8
  <2>5. ASSUME NEW k \in 1 .. r PROVE u.buffer[k] = (m \o d)[y + k]
    <3>1. PICK p \in 1 .. len : p = len - r + k /\ y + k = M + p
      BY <2>3, <2>4, <1>8
    <3>2. (m \o d)[M + p] = d[p]
      BY <3>1, <1>3, <1>5, Grown
    <3> QED
      BY <3>1, <3>2, <1>11
  <2> QED
    BY <2>2, <2>4, <2>5, <1>8, <1>9, <1>11
<1>12. CASE /\ f = 0 /\ w = 0 /\ u.buffer_len = q + len /\ q + len < B
            /\ \A k \in 1 .. q : u.buffer[k] = c.buffer[k]
            /\ \A k \in 1 .. len : u.buffer[q + k] = d[k]
  <2>1. Len(u.v.blocks) * B = x
    BY <1>6, <1>9, <1>12
  <2>2. ASSUME NEW k \in 1 .. q + len PROVE u.buffer[k] = (m \o d)[x + k]
    <3>1. CASE k <= q
      <4>1. PICK p \in 1 .. M : p = x + k
        BY <1>6, <3>1
      <4>2. (m \o d)[p] = m[p]
        BY <1>5, Kept
      <4>3. c.buffer[k] = m[x + k]
        BY <1>1, <1>2, <1>4, <1>6, <3>1 DEF Holds
      <4> QED
        BY <4>1, <4>2, <4>3, <1>12, <3>1
    <3>2. CASE k > q
      <4>1. PICK p \in 1 .. len : p = k - q /\ x + k = M + p /\ k = q + p
        BY <1>6, <3>2
      <4>2. (m \o d)[M + p] = d[p]
        BY <1>3, <1>5, Grown
      <4> QED
        BY <4>1, <4>2, <1>12
    <3>3. k <= q \/ k > q
      OBVIOUS
    <3> QED
      BY <3>1, <3>2, <3>3, Zenon
  <2>3. x + (q + len) = M + len /\ q + len \in 0 .. B - 1
    BY <1>6, <1>12
  <2> QED
    BY <2>1, <2>2, <2>3, <1>12
<1> QED
  BY <1>10, <1>11, <1>12

LEMMA Updated ==
    ASSUME NEW c \in Context, NEW m \in Seq(Bytes), NEW d \in Seq(Bytes),
           Holds(c, m), Counts(c, m), Len(d) < WordRadix
    PROVE  LET u == UpdateCtx(c, d)
           IN  u \in Context /\ u.v.rounds = c.v.rounds /\ Holds(u, m \o d) /\ Counts(u, m \o d)
<1> DEFINE u == UpdateCtx(c, d)
<1>1. CASE Len(d) = 0
  <2>1. u = c /\ m \o d = m
    BY <1>1 DEF UpdateCtx
  <2> QED
    BY <2>1
<1>2. CASE Len(d) # 0
  <2>1. u.total_lo = LowTotal(c, Len(d)) /\ u.total_hi = HighTotal(c, Len(d))
    BY <1>2 DEF UpdateCtx
  <2>2. PICK R \in Nat \ {0} : R = WordRadix
    BY Positive
  <2>3. PICK lo \in 0 .. R - 1, hi \in 0 .. R - 1 : lo = c.total_lo /\ hi = c.total_hi
    BY <2>2 DEF Context
  <2>4. PICK M \in Nat, len \in Nat : M = Len(m) /\ len = Len(d)
    OBVIOUS
  <2>5. Total(R, lo, hi, M) /\ len < R
    BY <2>2, <2>3, <2>4 DEF Counts, Total
  <2>6. LET low  == (lo + len) % R
            high == IF low < lo THEN (hi + 1) % R ELSE hi
        IN  low \in 0 .. R - 1 /\ high \in 0 .. R - 1 /\ Total(R, low, high, M + len)
    BY <2>5, Carry
  <2>7. /\ u.total_lo \in 0 .. WordRadix - 1 /\ u.total_hi \in 0 .. WordRadix - 1
        /\ u.total_lo + WordRadix * u.total_hi = (M + len) % (WordRadix * WordRadix)
    BY <2>1, <2>2, <2>3, <2>4, <2>6 DEF LowTotal, HighTotal, Total
  <2>8. Len(m \o d) = M + len
    BY <2>4
  <2>9. Counts(u, m \o d)
    BY <2>7, <2>8 DEF Counts
  <2>10. Holds(u, m \o d)
    BY ZenonT(30), <1>2, BlocksHeld, TailHeld DEF Holds
  <2>11. u.v.rounds = c.v.rounds /\ u.v.blocks \in Seq(Block)
    BY <1>2, Appended
  <2>12. u.buffer \in Block /\ u.buffer_len \in 0 .. BlockBytes - 1
    BY <1>2, Buffered, TailHeld
  <2>13. u = [v |-> u.v, buffer |-> u.buffer, buffer_len |-> u.buffer_len,
              total_lo |-> u.total_lo, total_hi |-> u.total_hi]
         /\ u.v = [rounds |-> u.v.rounds, blocks |-> u.v.blocks]
    BY <1>2 DEF UpdateCtx, Context
  <2>14. u \in Context
    <3> HIDE DEF u
    <3>1. u.v.rounds \in Nat
      BY <2>11 DEF Context
    <3> QED
      BY <2>7, <2>11, <2>12, <2>13, <3>1 DEF Context
  <2> QED
    BY <2>9, <2>10, <2>11, <2>14
<1> QED
  BY <1>1, <1>2

-----------------------------------------------------------------------------
(* frogbard_final.                                                         *)

\* What the buffer holds, padded, is the last block of the padded message.
LEMMA LastBlock ==
    ASSUME NEW c \in Context, NEW m \in Seq(Bytes), Holds(c, m)
    PROVE  Append(c.v.blocks, FinalBlock(c.buffer, c.buffer_len)) = PaddedBlocks(m)
<1>1. PICK B \in Nat \ {0} : B = BlockBytes
  BY Positive
<1>2. PICK q \in 0 .. B - 1 : q = c.buffer_len
  BY <1>1 DEF Context
<1>3. PICK n \in Nat : n = Len(c.v.blocks)
  BY DEF Context
<1>4. PICK M \in Nat : M = Len(m) /\ M = n * B + q
  BY <1>1, <1>2, <1>3 DEF Holds
<1>5. BlocksOf(m) = n + 1
  <2>1. M \div B = n
    BY <1>4, DivModUnique
  <2> QED
    BY <2>1, <1>1, <1>4 DEF BlocksOf
<1>6. PICK x \in Nat : x = n * B /\ (n + 1) * B = x + B /\ M = x + q
  <2>1. (n + 1) * B = n * B + B
    OBVIOUS
  <2> QED
    BY <2>1, <1>4
<1>7. PICK C \in Seq(Block) : C = c.v.blocks /\ Len(C) = n
  BY <1>3 DEF Context
<1> DEFINE last == FinalBlock(c.buffer, c.buffer_len)
           padded(i) == [k \in 1 .. BlockBytes |-> PaddedByte(m, (i - 1) * BlockBytes + k)]
<1>8. last = padded(n + 1)
  <2>1. ASSUME NEW k \in 1 .. B PROVE last[k] = PaddedByte(m, x + k)
    <3>1. /\ k <= q <=> x + k <= M
          /\ k = q + 1 <=> x + k = M + 1
          /\ k = B <=> x + k = (n + 1) * B
      <4>1. k \in Nat /\ M = x + q /\ (n + 1) * B = x + B
        BY <1>6
      <4> HIDE DEF last, padded
      <4> QED
        BY <4>1
    <3>2. ASSUME k <= q PROVE c.buffer[k] = m[x + k]
      <4>1. k \in 1 .. c.buffer_len
        BY <1>2, <3>2
      <4>2. c.buffer[k] = m[Len(c.v.blocks) * BlockBytes + k]
        BY <4>1 DEF Holds
      <4> QED
        BY <4>2, <1>1, <1>3, <1>6
    <3>3. PaddedByte(m, x + k) =
            LET raw == IF k <= q THEN c.buffer[k] ELSE {}
                one == IF k = q + 1 THEN Xor(raw, FirstPad) ELSE raw
            IN  IF k = B THEN Xor(one, LastPad) ELSE one
      BY <3>1, <3>2, <1>1, <1>4, <1>5 DEF PaddedByte
    <3>4. last[k] =
            LET raw == IF k <= q THEN c.buffer[k] ELSE {}
                one == IF k = q + 1 THEN Xor(raw, FirstPad) ELSE raw
            IN  IF k = B THEN Xor(one, LastPad) ELSE one
      BY <1>1, <1>2 DEF FinalBlock
    <3> QED
      BY <3>3, <3>4
  <2>2. ASSUME NEW k \in 1 .. B PROVE padded(n + 1)[k] = PaddedByte(m, x + k)
    <3>1. ((n + 1) - 1) * BlockBytes + k = x + k
      BY <1>1, <1>6
    <3> QED
      BY <3>1, <1>1
  <2>3. last = [k \in 1 .. BlockBytes |-> last[k]]
    BY DEF FinalBlock
  <2> HIDE DEF last
  <2> QED
    BY <2>1, <2>2, <2>3, <1>1
<1>9. ASSUME NEW i \in 1 .. n PROVE C[i] = padded(i)
  <2>1. C[i] \in Block /\ C[i] = [k \in 1 .. BlockBytes |-> C[i][k]]
    <3>1. C[i] \in Block
      BY <1>7
    <3> QED
      BY <3>1 DEF Block
  <2>2. ASSUME NEW k \in 1 .. B PROVE C[i][k] = PaddedByte(m, (i - 1) * BlockBytes + k)
    <3>1. 0 + n * B <= M
      BY <1>6
    <3>2. 0 + (i - 1) * B + k \in 1 .. x
      <4>1. 0 + n * B <= x
        BY <1>6
      <4> QED
        BY <4>1, Reaches
    <3>3. PICK p \in 1 .. x : p = (i - 1) * B + k
      <4>1. PICK y \in Int : y = (i - 1) * B
        OBVIOUS
      <4> QED
        BY <4>1, <3>2
    <3>4. C[i][k] = m[p]
      BY <3>3, <1>1, <1>3, <1>7 DEF Holds
    <3>5. p <= M /\ p # M + 1 /\ p # (n + 1) * B
      BY <1>1, <1>6
    <3>6. PaddedByte(m, p) = m[p]
      BY <3>5, <1>1, <1>4, <1>5 DEF PaddedByte
    <3> QED
      BY <3>3, <3>4, <3>6, <1>1
  <2> QED
    BY <2>1, <2>2, <1>1
<1>10. PaddedBlocks(m) = [i \in 1 .. n + 1 |-> padded(i)]
  BY <1>5 DEF PaddedBlocks
<1> HIDE DEF last, padded
<1>11. Append(C, last) = [i \in 1 .. n + 1 |-> IF i <= n THEN C[i] ELSE last]
  BY <1>7
<1>12. ASSUME NEW i \in 1 .. n + 1 PROVE (IF i <= n THEN C[i] ELSE last) = padded(i)
  <2>1. i \in 1 .. n \/ i = n + 1
    OBVIOUS
  <2> QED
    BY <2>1, <1>8, <1>9
<1> QED
  BY <1>7, <1>10, <1>11, <1>12 DEF last

LEMMA Finished ==
    ASSUME NEW c \in Context, NEW m \in Seq(Bytes), Holds(c, m), Counts(c, m)
    PROVE  FinalDigest(c) = MessageDigest(m, c.v.rounds)
<1>1. PICK R \in Nat \ {0} : R = WordRadix
  BY Positive
<1>2. PICK lo \in 0 .. R - 1, hi \in 0 .. R - 1 : lo = c.total_lo /\ hi = c.total_hi
  BY <1>1 DEF Context
<1>3. PICK M \in Nat : M = Len(m)
  OBVIOUS
<1>4. Total(R, lo, hi, M)
  BY <1>1, <1>2, <1>3 DEF Counts, Total
<1>5. lo = M % R /\ hi = (M \div R) % R
  BY <1>4, Digits
<1>6. Append(c.v.blocks, FinalBlock(c.buffer, c.buffer_len)) = PaddedBlocks(m)
  BY LastBlock
<1> QED
  BY <1>1, <1>2, <1>3, <1>5, <1>6 DEF FinalDigest, MessageDigest

\* A context that was just opened holds nothing.
LEMMA Opened ==
    ASSUME NEW r \in Nat
    PROVE  /\ Wiped \in Context
           /\ InitCtx(r) \in Context /\ InitCtx(r).v.rounds = r
           /\ Holds(InitCtx(r), << >>) /\ Counts(InitCtx(r), << >>)
<1>1. PICK B \in Nat \ {0} : B = BlockBytes
  BY Positive
<1>2. PICK R \in Nat \ {0} : R = WordRadix
  BY Positive
<1>3. ZeroBlock \in Block
  BY DEF ZeroBlock, Block, AnyByte
<1>4. 0 \in 0 .. BlockBytes - 1 /\ 0 \in 0 .. WordRadix - 1
  BY <1>1, <1>2
<1>5. Wiped \in Context
  BY <1>3, <1>4 DEF Wiped, Context
<1>6. InitCtx(r) = [v |-> [rounds |-> r, blocks |-> << >>], buffer |-> ZeroBlock,
                            buffer_len |-> 0, total_lo |-> 0, total_hi |-> 0]
  BY DEF InitCtx, Wiped
<1>7. InitCtx(r) \in Context
  BY <1>3, <1>4, <1>6 DEF Context
<1>8. Holds(InitCtx(r), << >>)
  BY <1>1, <1>6 DEF Holds
<1>9. Counts(InitCtx(r), << >>)
  <2>1. 0 % (R * R) = 0 /\ 0 + R * 0 = 0
    <3>1. PICK s \in Nat \ {0} : s = R * R
      OBVIOUS
    <3> QED
      BY <3>1
  <2> QED
    BY <2>1, <1>2, <1>6 DEF Counts
<1> QED
  BY <1>5, <1>6, <1>7, <1>8, <1>9

LEMMA WipedContext ==
    /\ Wiped \in Context
    /\ InitCtx(MaxRounds) \in Context /\ InitCtx(MaxRounds).v.rounds = MaxRounds
    /\ Holds(InitCtx(MaxRounds), << >>) /\ Counts(InitCtx(MaxRounds), << >>)
BY Opened, BlockAssumption

\* A message hashed in one call, whatever the number of rounds.
LEMMA OneCall ==
    ASSUME NEW r \in Nat, NEW m \in Seq(Bytes), Len(m) < WordRadix
    PROVE  FinalDigest(UpdateCtx(InitCtx(r), m)) = MessageDigest(m, r)
<1> DEFINE c == InitCtx(r)
           u == UpdateCtx(c, m)
<1>1. c \in Context /\ c.v.rounds = r /\ Holds(c, << >>) /\ Counts(c, << >>)
  BY Opened
<1>2. << >> \in Seq(Bytes) /\ << >> \o m = m
  OBVIOUS
<1> HIDE DEF c
<1>3. u \in Context /\ u.v.rounds = r /\ Holds(u, m) /\ Counts(u, m)
  BY <1>1, <1>2, Updated
<1> HIDE DEF u
<1>4. FinalDigest(u) = MessageDigest(m, r)
  BY <1>3, Finished
<1> QED
  BY <1>4 DEF u, c

-----------------------------------------------------------------------------
(* The padding.                                                            *)

LEMMA BlocksEnough ==
    ASSUME NEW m \in Seq(Bytes)
    PROVE  BlocksOf(m) \in Nat \ {0} /\ Len(m) < BlocksOf(m) * BlockBytes
<1>1. PICK B \in Nat \ {0} : B = BlockBytes
  BY Positive
<1>2. PICK M \in Nat : M = Len(m)
  OBVIOUS
<1>0. M \div B \in Nat /\ M % B \in 0 .. B - 1 /\ (M \div B) * B + (M % B) = M
  BY DivMod
<1>3. PICK n \in Nat : n = M \div B
  BY <1>0
<1>4. (n + 1) * B = n * B + B
  OBVIOUS
<1>5. PICK x \in Nat : x = n * B
  OBVIOUS
<1>6. M < (n + 1) * B
  BY <1>0, <1>3, <1>4, <1>5
<1> QED
  BY <1>1, <1>2, <1>3, <1>6 DEF BlocksOf

LEMMA SameBytes ==
    ASSUME NEW m \in Seq(Bytes), NEW n \in Seq(Bytes), PaddedBlocks(m) = PaddedBlocks(n)
    PROVE  /\ BlocksOf(m) = BlocksOf(n)
           /\ \A p \in 1 .. BlocksOf(m) * BlockBytes : PaddedByte(m, p) = PaddedByte(n, p)
<1>1. PICK B \in Nat \ {0} : B = BlockBytes
  BY Positive
<1>2. PICK N \in Nat \ {0}, O \in Nat \ {0} : N = BlocksOf(m) /\ O = BlocksOf(n)
  BY BlocksEnough
<1>3. N = O
  <2>1. DOMAIN PaddedBlocks(m) = 1 .. N /\ DOMAIN PaddedBlocks(n) = 1 .. O
    BY <1>2 DEF PaddedBlocks
  <2> QED
    BY <2>1
<1>4. ASSUME NEW p \in 1 .. N * B PROVE PaddedByte(m, p) = PaddedByte(n, p)
  <2>0. /\ (p - 1) \div B \in Nat /\ (p - 1) % B \in 0 .. B - 1
        /\ ((p - 1) \div B) * B + ((p - 1) % B) = p - 1
    <3>1. p - 1 \in Nat
      OBVIOUS
    <3> QED
      BY <3>1, DivMod
  <2>a. PICK i \in Nat : i = (p - 1) \div B
    BY <2>0
  <2>b. PICK z \in 0 .. B - 1 : z = (p - 1) % B
    BY <2>0
  <2>1. i * B + z = p - 1
    BY <2>0, <2>a, <2>b
  <2>2. PICK k \in 1 .. B : k = z + 1
    OBVIOUS
  <2>3. i + 1 \in 1 .. N
    <3>1. CASE N <= i
      <4>1. N * B <= i * B
        <5>1. CASE N = i
          BY <5>1
        <5>2. CASE N < i
          <6>1. N * B + B <= i * B
            BY <5>2, LessTimes
          <6>2. PICK x \in Nat, y \in Nat : x = N * B /\ y = i * B
            OBVIOUS
          <6> QED
            BY <6>1, <6>2
        <5> QED
          BY <3>1, <5>1, <5>2
      <4>2. PICK x \in Nat, y \in Nat : x = N * B /\ y = i * B
        OBVIOUS
      <4>3. p <= x /\ y < p /\ x <= y
        BY <2>1, <4>1, <4>2
      <4> QED
        BY <4>2, <4>3
    <3>2. CASE i < N
      BY <3>2
    <3> QED
      BY <3>1, <3>2
  <2>4. PICK x \in Nat : x = i * B
    OBVIOUS
  <2>5. p = x + k
    BY <2>1, <2>2, <2>4
  <2>6. ((i + 1) - 1) * BlockBytes + k = p
    BY <2>4, <2>5, <1>1
  <2>7. /\ PaddedBlocks(m)[i + 1][k] = PaddedByte(m, p)
        /\ PaddedBlocks(n)[i + 1][k] = PaddedByte(n, p)
    BY <2>3, <2>6, <1>1, <1>2, <1>3 DEF PaddedBlocks
  <2> QED
    BY <2>7
<1> QED
  BY <1>1, <1>2, <1>3, <1>4

\* A message does not pad like a longer one: where the longer one has its first pad byte
\* the shorter one has a zero.
LEMMA NotShorter ==
    ASSUME NEW m \in Seq(Bytes), NEW n \in Seq(Bytes), PaddedBlocks(m) = PaddedBlocks(n)
    PROVE  ~(Len(m) < Len(n))
<1> SUFFICES ASSUME Len(m) < Len(n) PROVE FALSE
  OBVIOUS
<1>1. PICK p \in Nat : p = Len(n) + 1
  OBVIOUS
<1>2. PICK end \in Nat : end = BlocksOf(n) * BlockBytes /\ end = BlocksOf(m) * BlockBytes
  BY BlocksEnough, SameBytes, Positive
<1>3. p \in 1 .. end
  BY <1>1, <1>2, BlocksEnough
<1>4. PaddedByte(m, p) = PaddedByte(n, p)
  BY <1>2, <1>3, SameBytes
<1>5. p > Len(m) + 1 /\ ~(p <= Len(n)) /\ ~(p <= Len(m)) /\ p # Len(m) + 1
  BY <1>1
<1>6. PaddedByte(m, p) = IF p = end THEN Xor({}, LastPad) ELSE {}
  BY <1>2, <1>5 DEF PaddedByte
<1>7. PaddedByte(n, p) = IF p = end THEN Xor(Xor({}, FirstPad), LastPad) ELSE Xor({}, FirstPad)
  BY <1>1, <1>2, <1>5 DEF PaddedByte
<1>8. 0 \in Xor({}, FirstPad) /\ 0 \in Xor(Xor({}, FirstPad), LastPad) /\ 0 \notin Xor({}, LastPad)
  BY DEF Xor, FirstPad, LastPad
<1> QED
  BY <1>4, <1>6, <1>7, <1>8

\* The pad bytes frogbard_final XORs in (frogbard.c:448-449) tell messages apart without the
\* injected length: messages that pad to the same blocks are the same, whatever bytes they
\* end in, for every size of a block.
THEOREM PaddingInjective ==
    ASSUME NEW m \in Seq(Bytes), NEW n \in Seq(Bytes), PaddedBlocks(m) = PaddedBlocks(n)
    PROVE  m = n
<1>1. Len(m) = Len(n)
  BY NotShorter
<1>2. ASSUME NEW p \in 1 .. Len(m) PROVE m[p] = n[p]
  <2>1. PICK end \in Nat : end = BlocksOf(n) * BlockBytes /\ end = BlocksOf(m) * BlockBytes
    BY BlocksEnough, SameBytes, Positive
  <2>2. p \in 1 .. end /\ p # end /\ p # Len(m) + 1 /\ p <= Len(m)
    BY <2>1, BlocksEnough
  <2>3. PaddedByte(m, p) = PaddedByte(n, p)
    BY <2>1, <2>2, SameBytes
  <2> QED
    BY <2>1, <2>2, <2>3, <1>1 DEF PaddedByte
<1> QED
  BY <1>1, <1>2
=============================================================================
