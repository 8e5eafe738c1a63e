----------------------------- MODULE DataProofs ------------------------------
(***************************************************************************)
(* Facts about the data that the components share: natural numbers         *)
(* (induction, stated with sets of numbers, and remainders, by which slots *)
(* of a cache and sequence numbers are computed); what Hg_Buf_WriteN,      *)
(* Hg_Buf_ReadN and the put-back of Handlemsg do to the unread bytes of a  *)
(* ring, for every capacity and every content; and the head of a packet,   *)
(* in which the receiver reads what the sender put there.                  *)
(***************************************************************************)
EXTENDS RingBuf, RtpHeader, WellFoundedInduction, TLAPS

-----------------------------------------------------------------------------
(* Natural numbers                                                         *)

\* A set of numbers that has 0, and with each number the next, has all.
LEMMA AllNumbers ==
  ASSUME NEW S \in SUBSET Nat, 0 \in S, \A n \in S : n + 1 \in S
  PROVE  S = Nat
<1>1. SUFFICES ASSUME Nat \ S # {} PROVE FALSE
  OBVIOUS
<1>2. IsWellFoundedOn(OpToRel(<, Nat), Nat)
  BY NatLessThanWellFounded
<1>3. PICK n \in Nat \ S : \A m \in Nat \ S : <<m, n>> \notin OpToRel(<, Nat)
  BY <1>1, <1>2, WFMin, Zenon
<1>4. n # 0 /\ n - 1 \in Nat
  OBVIOUS
<1>5. <<n-1, n>> \in OpToRel(<, Nat)
  BY <1>4 DEF OpToRel
<1>6. n - 1 \in S
  BY <1>3, <1>4, <1>5
<1> QED BY <1>4, <1>6

\* Multiples of c lie at least c apart.
LEMMA Multiples ==
  ASSUME NEW c \in Nat \ {0}, NEW q \in Int, NEW p \in Int, q < p
  PROVE  c * q + c <= c * p
<1>1. PICK k \in Nat : p = q + 1 + k
  <2>1. p - q - 1 \in Nat /\ p = q + 1 + (p - q - 1)
    OBVIOUS
  <2> QED BY <2>1
<1>2. c * (q + 1 + k) = c * q + c + c * k
  OBVIOUS
<1>3. c * k >= 0
  OBVIOUS
<1>4. c * q \in Int /\ c * k \in Int
  OBVIOUS
<1> QED BY <1>1, <1>2, <1>3, <1>4

\* A number is a multiple of c and a remainder,
LEMMA Divide ==
  ASSUME NEW a \in Nat, NEW c \in Nat \ {0}
  PROVE  \E q \in Int, r \in 0..c-1 : a = c * q + r /\ r = a % c
<1>1. a = c * (a \div c) + (a % c) /\ a \div c \in Int /\ a % c \in 0..c-1
  OBVIOUS
<1> QED BY <1>1

\* in one way.
LEMMA DivideOnce ==
  ASSUME NEW c \in Nat \ {0}, NEW q \in Int, NEW p \in Int, NEW r \in 0..c-1, NEW s \in 0..c-1,
         c * q + r = c * p + s
  PROVE  q = p /\ r = s
<1>1. ~(q < p)
  BY Multiples
<1>2. ~(p < q)
  BY Multiples
<1>3. q = p
  BY <1>1, <1>2
<1>4. c * q \in Int
  OBVIOUS
<1> QED BY <1>3, <1>4

\* A remainder is below the divisor, and that of a smaller number is the number.
LEMMA Remainder ==
  ASSUME NEW a \in Nat, NEW c \in Nat \ {0}
  PROVE  a % c \in 0..c-1 /\ (a < c => a % c = a)
OBVIOUS

\* Numbers c apart have the same remainder.
LEMMA RemainderRepeats ==
  ASSUME NEW a \in Nat, NEW c \in Nat \ {0}
  PROVE  (a + c) % c = a % c
<1>1. PICK q \in Int, r \in 0..c-1 : a = c * q + r /\ r = a % c
  BY Divide
<1>2. PICK p \in Int, s \in 0..c-1 : a + c = c * p + s /\ s = (a + c) % c
  <2> DEFINE b == a + c
  <2>1. b \in Nat
    OBVIOUS
  <2> HIDE DEF b
  <2>2. \E p \in Int, s \in 0..c-1 : b = c * p + s /\ s = b % c
    BY <2>1, Divide
  <2> QED BY <2>2 DEF b
<1> DEFINE qq == q + 1
<1>3. qq \in Int /\ c * qq = c * q + c /\ c * q \in Int /\ c * p \in Int /\ c * qq \in Int
  OBVIOUS
<1> HIDE DEF qq
<1>4. c * qq + r = c * p + s
  <2>1. \A x, y, z \in Int : a = x + r /\ y = x + c /\ a + c = z + s => y + r = z + s
    OBVIOUS
  <2> QED BY <1>1, <1>2, <1>3, <2>1
<1>5. r = s
  BY <1>3, <1>4, DivideOnce
<1> QED BY <1>1, <1>2, <1>5

\* Different numbers less than c apart have different remainders.
LEMMA RemaindersDiffer ==
  ASSUME NEW a \in Nat, NEW b \in Nat, NEW c \in Nat \ {0}, a < b, b - a < c
  PROVE  a % c # b % c
<1>1. PICK q \in Int, r \in 0..c-1 : a = c * q + r /\ r = a % c
  BY Divide
<1>2. PICK p \in Int, s \in 0..c-1 : b = c * p + s /\ s = b % c
  BY Divide
<1>3. SUFFICES ASSUME r = s PROVE FALSE
  BY <1>1, <1>2
<1>4. c * q \in Int /\ c * p \in Int
  OBVIOUS
<1>5. CASE q < p
  <2>1. c * q + c <= c * p
    BY <1>5, Multiples
  <2> QED BY <1>1, <1>2, <1>3, <1>4, <2>1
<1>6. CASE p < q
  <2>1. c * p + c <= c * q
    BY <1>6, Multiples
  <2> QED BY <1>1, <1>2, <1>3, <1>4, <2>1
<1>7. CASE p = q
  BY <1>1, <1>2, <1>3, <1>4, <1>7
<1> QED BY <1>5, <1>6, <1>7

-----------------------------------------------------------------------------
(* The ring                                                                *)

\* The ring a constructor leaves behind is well formed.
LEMMA NewRingShape ==
  ASSUME NEW Byte, NEW cap \in Nat \ {0}, NEW fill \in Byte
  PROVE  NewRing(cap, fill) \in Ring(Byte, cap) /\ Shape(NewRing(cap, fill))
BY DEF NewRing, Ring, Shape, Wrap

\* Copying k bytes into cells at .. at+k-1 leaves the other cells alone.
LEMMA MemcpyType ==
  ASSUME NEW Byte, NEW cap \in Nat \ {0}, NEW data \in [0..cap-1 -> Byte],
         NEW src \in Seq(Byte), NEW at \in Nat, NEW from \in Nat, NEW k \in Nat,
         from + k <= Len(src)
  PROVE  /\ Memcpy(data, at, src, from, k) \in [0..cap-1 -> Byte]
         /\ \A j \in 0..cap-1 :
              Memcpy(data, at, src, from, k)[j] =
                IF at <= j /\ j < at + k THEN src[from + j - at + 1] ELSE data[j]
BY DEF Memcpy

\* A ring by its fields.
RingOf(data, start, end, len, cap) ==
  [data |-> data, start |-> start, end |-> end, len |-> len, cap |-> cap]

\* What a copy does that lands behind the unread bytes, whatever the branch
\* that made it: d holds the old bytes in place, the new ones next, and in
\* the other cells what was there.
Landed(d, data, src, start, len, total, cap) ==
  /\ \A i \in 1..len : d[Wrap(start + i - 1, cap)] = data[Wrap(start + i - 1, cap)]
  /\ \A i \in 1..total : d[Wrap(start + len + i - 1, cap)] = src[i]
  /\ \A i \in len+total+1..cap : d[Wrap(start + i - 1, cap)] = data[Wrap(start + i - 1, cap)]

Free(n, len, cap) == IF n <= cap - len THEN n ELSE cap - len

\* Hg_Buf_WriteN on the fields of the ring: the four branches of the C code
\* all copy as much as is free, behind the unread bytes.
LEMMA WriteNFields ==
  ASSUME NEW Byte, NEW cap \in Nat \ {0}, NEW data \in [0..cap-1 -> Byte],
         NEW start \in 0..cap-1, NEW len \in 0..cap, NEW src \in Seq(Byte)
  PROVE  \E d \in [0..cap-1 -> Byte], e \in 0..cap-1, total \in 0..Len(src) :
           /\ Hg_Buf_WriteN(RingOf(data, start, Wrap(start + len, cap), len, cap), src)
                = [total |-> total, ring |-> RingOf(d, start, e, len + total, cap)]
           /\ total = Free(Len(src), len, cap)
           /\ e = Wrap(start + (len + total), cap)
           /\ Landed(d, data, src, start, len, total, cap)
<1>a. PICK n \in Nat : n = Len(src)
  OBVIOUS
<1>b. PICK end \in 0..cap-1 : end = Wrap(start + len, cap)
  <2>1. Wrap(start + len, cap) \in 0..cap-1
    BY DEF Wrap
  <2> QED BY <2>1
<1> DEFINE r == RingOf(data, start, end, len, cap)
<1> SUFFICES \E d \in [0..cap-1 -> Byte], e \in 0..cap-1, total \in 0..n :
               /\ Hg_Buf_WriteN(r, src)
                    = [total |-> total, ring |-> RingOf(d, start, e, len + total, cap)]
               /\ total = Free(n, len, cap)
               /\ e = Wrap(start + (len + total), cap)
               /\ Landed(d, data, src, start, len, total, cap)
  BY <1>a, <1>b, Zenon
<1> USE <1>a, <1>b
<1>1. CASE len = cap
  <2>1. Hg_Buf_WriteN(r, src) = [total |-> 0, ring |-> r]
    BY <1>1 DEF Hg_Buf_WriteN, RingOf
  <2>2. Free(n, len, cap) = 0
    BY <1>1 DEF Free
  <2>3. Landed(data, data, src, start, len, 0, cap)
    BY DEF Landed
  <2> QED BY <2>1, <2>2, <2>3 DEF RingOf
<1>2. CASE len # cap /\ start > end
  <2>1. PICK total \in 0..n : total = IF start - end > n THEN n ELSE start - end
    BY <1>2
  <2>2. total = Free(n, len, cap) /\ len + total <= cap /\ start - end = cap - len
    BY <1>2, <2>1 DEF Free, Wrap
  <2> DEFINE d == Memcpy(data, end, src, 0, total)
  <2>3. Hg_Buf_WriteN(r, src) = Copied(r, total, d, Wrap(end + total, cap))
    BY <1>2, <2>1 DEF Hg_Buf_WriteN, RingOf
  <2>4. Wrap(end + total, cap) \in 0..cap-1
        /\ Wrap(end + total, cap) = Wrap(start + (len + total), cap)
    BY <1>2, <2>2 DEF Wrap
  <2>5. /\ d \in [0..cap-1 -> Byte]
        /\ \A j \in 0..cap-1 :
             d[j] = IF end <= j /\ j < end + total THEN src[0 + j - end + 1] ELSE data[j]
    BY SMTT(30), MemcpyType
  <2> HIDE DEF d
  <2>6. Landed(d, data, src, start, len, total, cap)
    BY <1>2, <2>2, <2>5 DEF Landed, Wrap
  <2> QED BY <2>2, <2>3, <2>4, <2>5, <2>6 DEF Copied, RingOf
<1>3. CASE len # cap /\ ~(start > end) /\ cap - end >= n
  <2>1. end = start + len /\ len + n <= cap /\ Free(n, len, cap) = n
    BY <1>3 DEF Wrap, Free
  <2> DEFINE d == Memcpy(data, end, src, 0, n)
  <2>2. Hg_Buf_WriteN(r, src) = Copied(r, n, d, Wrap(end + n, cap))
    BY <1>3 DEF Hg_Buf_WriteN, RingOf
  <2>3. Wrap(end + n, cap) \in 0..cap-1
        /\ Wrap(end + n, cap) = Wrap(start + (len + n), cap)
    BY <1>3, <2>1 DEF Wrap
  <2>4. /\ d \in [0..cap-1 -> Byte]
        /\ \A j \in 0..cap-1 :
             d[j] = IF end <= j /\ j < end + n THEN src[0 + j - end + 1] ELSE data[j]
    BY SMTT(30), MemcpyType
  <2> HIDE DEF d
  <2>5. Landed(d, data, src, start, len, n, cap)
    BY <1>3, <2>1, <2>4 DEF Landed, Wrap
  <2>6. n \in 0..n
    OBVIOUS
  <2>7. Hg_Buf_WriteN(r, src) =
          [total |-> n, ring |-> RingOf(d, start, Wrap(end + n, cap), len + n, cap)]
    BY <2>2 DEF Copied, RingOf
  <2> QED BY <2>1, <2>3, <2>4, <2>5, <2>6, <2>7
<1>4. CASE len # cap /\ ~(start > end) /\ ~(cap - end >= n)
  <2>1. PICK right \in Nat : right = cap - end
    OBVIOUS
  <2>2. PICK left \in Nat : left = IF start >= n - right THEN n - right ELSE start
    BY <1>4, <2>1
  <2>3. /\ end = start + len /\ right + left \in 0..n /\ left <= start
        /\ right + left = Free(n, len, cap)
    BY SMTT(30), <1>4, <2>1, <2>2 DEF Wrap, Free
  <2> DEFINE d1 == Memcpy(data, end, src, 0, right)
             d  == Memcpy(d1, 0, src, right, left)
  <2>4. Hg_Buf_WriteN(r, src) = Copied(r, right + left, d, left)
    BY <1>4, <2>1, <2>2 DEF Hg_Buf_WriteN, RingOf
  <2>5. left \in 0..cap-1 /\ left = Wrap(start + (len + (right + left)), cap)
    BY <1>4, <2>1, <2>3 DEF Wrap
  <2>6. /\ d1 \in [0..cap-1 -> Byte]
        /\ \A j \in 0..cap-1 :
             d1[j] = IF end <= j /\ j < end + right THEN src[0 + j - end + 1] ELSE data[j]
    <3>1. ASSUME NEW j \in 0..cap-1, end <= j, j < end + right
          PROVE  src[0 + j - end + 1] \in Byte
      BY <2>3, <3>1
    <3> QED BY <3>1 DEF Memcpy
  <2> HIDE DEF d1
  <2>7. /\ d \in [0..cap-1 -> Byte]
        /\ \A j \in 0..cap-1 :
             d[j] = IF 0 <= j /\ j < 0 + left THEN src[right + j - 0 + 1] ELSE d1[j]
    <3>1. ASSUME NEW j \in 0..cap-1, 0 <= j, j < 0 + left
          PROVE  src[right + j - 0 + 1] \in Byte
      BY <2>3, <3>1
    <3> QED BY <2>6, <3>1 DEF Memcpy
  <2> HIDE DEF d
  <2>8. Landed(d, data, src, start, len, right + left, cap)
    <3>1. ASSUME NEW i \in 1..len
          PROVE  d[Wrap(start + i - 1, cap)] = data[Wrap(start + i - 1, cap)]
      BY <1>4, <2>1, <2>3, <2>6, <2>7 DEF Wrap
    <3>2. ASSUME NEW i \in 1..(right + left)
          PROVE  d[Wrap(start + len + i - 1, cap)] = src[i]
      BY <1>4, <2>1, <2>3, <2>6, <2>7 DEF Wrap
    <3>3. ASSUME NEW i \in len+(right+left)+1..cap
          PROVE  d[Wrap(start + i - 1, cap)] = data[Wrap(start + i - 1, cap)]
      BY <1>4, <2>1, <2>3, <2>6, <2>7 DEF Wrap
    <3> QED BY <3>1, <3>2, <3>3 DEF Landed
  <2>9. Hg_Buf_WriteN(r, src) =
          [total |-> right + left,
           ring  |-> RingOf(d, start, left, len + (right + left), cap)]
    BY <2>4 DEF Copied, RingOf
  <2> QED BY <2>3, <2>5, <2>7, <2>8, <2>9
<1> QED BY <1>1, <1>2, <1>3, <1>4

\* Hg_Buf_WriteN copies as many bytes as are free, keeps the unread ones in
\* place and puts the new ones behind them, however start and end lie.
LEMMA WriteN ==
  ASSUME NEW Byte, NEW cap \in Nat \ {0}, NEW r \in Ring(Byte, cap), Shape(r),
         NEW src \in Seq(Byte)
  PROVE  LET w == Hg_Buf_WriteN(r, src)
         IN  /\ w.ring \in Ring(Byte, cap)
             /\ Shape(w.ring)
             /\ w.total \in 0..Len(src)
             /\ w.total = Free(Len(src), r.len, cap)
             /\ w.ring.len = r.len + w.total
             /\ \A i \in 1..r.len : Unread(w.ring, i) = Unread(r, i)
             /\ \A i \in 1..w.total : Unread(w.ring, r.len + i) = src[i]
<1> DEFINE w == Hg_Buf_WriteN(r, src)
<1>1. PICK data \in [0..cap-1 -> Byte], start \in 0..cap-1, end \in 0..cap-1, len \in 0..cap :
        r = RingOf(data, start, end, len, cap)
  BY DEF Ring, RingOf
<1>2. end = Wrap(start + len, cap)
  BY <1>1 DEF Shape, RingOf
<1>3. r = RingOf(data, start, Wrap(start + len, cap), len, cap)
  BY <1>1, <1>2, Zenon
<1>4. PICK d \in [0..cap-1 -> Byte], e \in 0..cap-1, total \in 0..Len(src) :
        /\ w = [total |-> total, ring |-> RingOf(d, start, e, len + total, cap)]
        /\ total = Free(Len(src), len, cap)
        /\ e = Wrap(start + (len + total), cap)
        /\ Landed(d, data, src, start, len, total, cap)
  BY <1>3, WriteNFields, Zenon
<1>5. len + total \in 0..cap
  BY <1>4 DEF Free
<1> HIDE DEF w
<1>6. w.ring \in Ring(Byte, cap) /\ Shape(w.ring)
  BY <1>4, <1>5 DEF Ring, Shape, RingOf
<1>7. \A i \in 1..r.len : Unread(w.ring, i) = Unread(r, i)
  BY <1>1, <1>4 DEF Unread, Landed, RingOf
<1>8. ASSUME NEW i \in 1..total PROVE Unread(w.ring, r.len + i) = src[i]
  <2>1. start + (len + i) - 1 = start + len + i - 1
    OBVIOUS
  <2> QED BY <1>1, <1>4, <2>1 DEF Unread, Landed, RingOf
<1> QED BY <1>1, <1>4, <1>6, <1>7, <1>8 DEF w, RingOf

\* Two sources have the same first bytes.
Agree(src, org, total) == \A i \in 1..total : src[i] = org[i]

\* Such a copy is determined by what it copies.
LEMMA LandedOnce ==
  ASSUME NEW cap \in Nat \ {0}, NEW data, NEW start \in 0..cap-1, NEW len \in Nat,
         NEW total \in Nat, len + total <= cap,
         NEW d, NEW src, Landed(d, data, src, start, len, total, cap),
         NEW e, NEW org, Landed(e, data, org, start, len, total, cap),
         Agree(src, org, total)
  PROVE  \A j \in 0..cap-1 : d[j] = e[j]
<1>1. ASSUME NEW j \in 0..cap-1 PROVE d[j] = e[j]
  <2>1. PICK o \in 1..cap : j = Wrap(start + o - 1, cap)
    <3>1. CASE j >= start
      <4>1. j - start + 1 \in 1..cap /\ j = Wrap(start + (j - start + 1) - 1, cap)
        BY <3>1 DEF Wrap
      <4> QED BY <4>1
    <3>2. CASE j < start
      <4>1. j - start + cap + 1 \in 1..cap /\ j = Wrap(start + (j - start + cap + 1) - 1, cap)
        BY <3>2 DEF Wrap
      <4> QED BY <4>1
    <3> QED BY <3>1, <3>2
  <2>2. CASE o <= len
    <3>1. o \in 1..len
      BY <2>2
    <3> QED BY <2>1, <3>1, Zenon DEF Landed
  <2>3. CASE o > len /\ o <= len + total
    <3>1. PICK i \in 1..total : o = len + i
      <4>1. o - len \in 1..total /\ o = len + (o - len)
        BY <2>3
      <4> QED BY <4>1
    <3>2. start + o - 1 = start + len + i - 1
      BY <3>1
    <3>3. d[Wrap(start + len + i - 1, cap)] = src[i] /\ e[Wrap(start + len + i - 1, cap)] = org[i]
      BY Zenon DEF Landed
    <3>4. src[i] = org[i]
      BY DEF Agree
    <3> QED BY <2>1, <3>2, <3>3, <3>4
  <2>4. CASE o > len + total
    <3>1. o \in len+total+1..cap
      BY <2>4
    <3> QED BY <2>1, <3>1, Zenon DEF Landed
  <2> QED BY <2>2, <2>3, <2>4
<1> QED BY <1>1

\* Two copies one behind the other are one.
LEMMA LandedTwice ==
  ASSUME NEW cap \in Nat \ {0}, NEW start \in 0..cap-1, NEW len \in Nat,
         NEW n \in Nat, NEW total \in Nat, len + n + total <= cap,
         NEW data, NEW d, NEW p, Landed(d, data, p, start, len, n, cap),
         NEW e, NEW b, Landed(e, d, b, start, len + n, total, cap),
         NEW q, Agree(q, p, n), \A i \in 1..total : q[n + i] = b[i]
  PROVE  Landed(e, data, q, start, len, n + total, cap)
<1>1. ASSUME NEW i \in 1..len
      PROVE  e[Wrap(start + i - 1, cap)] = data[Wrap(start + i - 1, cap)]
  <2>1. i \in 1..len+n
    OBVIOUS
  <2> QED BY <2>1, Zenon DEF Landed
<1>2. ASSUME NEW i \in 1..(n + total) PROVE e[Wrap(start + len + i - 1, cap)] = q[i]
  <2>1. CASE i <= n
    <3>1. i \in 1..n
      BY <2>1
    <3>2. len + i \in 1..len+n /\ start + (len + i) - 1 = start + len + i - 1
      BY <2>1
    <3>3. e[Wrap(start + (len + i) - 1, cap)] = d[Wrap(start + (len + i) - 1, cap)]
      BY <3>2, Zenon DEF Landed
    <3>4. d[Wrap(start + len + i - 1, cap)] = p[i]
      BY <3>1, Zenon DEF Landed
    <3>5. q[i] = p[i]
      BY <3>1 DEF Agree
    <3> QED BY <3>1, <3>2, <3>3, <3>4, <3>5
  <2>2. CASE i > n
    <3>1. PICK k \in 1..total : i = n + k
      <4>1. i - n \in 1..total /\ i = n + (i - n)
        BY <2>2
      <4> QED BY <4>1
    <3>2. start + (len + n) + k - 1 = start + len + i - 1
      BY <3>1
    <3>3. e[Wrap(start + (len + n) + k - 1, cap)] = b[k]
      BY Zenon DEF Landed
    <3> QED BY <3>1, <3>2, <3>3
  <2> QED BY <2>1, <2>2
<1>3. ASSUME NEW i \in len+(n+total)+1..cap
      PROVE  e[Wrap(start + i - 1, cap)] = data[Wrap(start + i - 1, cap)]
  <2>1. i \in (len+n)+total+1..cap /\ i \in len+n+1..cap
    OBVIOUS
  <2> QED BY <2>1, Zenon DEF Landed
<1> QED BY <1>1, <1>2, <1>3 DEF Landed

\* The fields of a ring.
LEMMA RingFields ==
  ASSUME NEW Byte, NEW cap \in Nat \ {0}, NEW r \in Ring(Byte, cap), Shape(r)
  PROVE  \E data \in [0..cap-1 -> Byte], start \in 0..cap-1, len \in 0..cap :
           r = RingOf(data, start, Wrap(start + len, cap), len, cap)
<1>1. PICK data \in [0..cap-1 -> Byte], start \in 0..cap-1, end \in 0..cap-1, len \in 0..cap :
        r = RingOf(data, start, end, len, cap)
  BY DEF Ring, RingOf
<1>2. end = Wrap(start + len, cap)
  BY <1>1 DEF Shape, RingOf
<1> QED BY <1>1, <1>2, Zenon

\* How much fits, at once and in two parts.
LEMMA FreeParts ==
  ASSUME NEW cap \in Nat, NEW len \in 0..cap, NEW m \in Nat, m <= cap - len, NEW k \in Nat
  PROVE  /\ Free(m, len, cap) = m /\ len + m \in 0..cap
         /\ Free(k, len + m, cap) \in 0..k /\ len + m + Free(k, len + m, cap) <= cap
         /\ Free(m + k, len, cap) = m + Free(k, len + m, cap)
BY DEF Free

\* What does not fit in the ring is no matter.
LEMMA WriteNFirst ==
  ASSUME NEW Byte, NEW cap \in Nat \ {0}, NEW r \in Ring(Byte, cap), Shape(r),
         NEW p \in Seq(Byte), NEW q \in Seq(Byte),
         Free(Len(p), r.len, cap) = Free(Len(q), r.len, cap),
         \A i \in 1..Free(Len(q), r.len, cap) : p[i] = q[i]
  PROVE  Hg_Buf_WriteN(r, p) = Hg_Buf_WriteN(r, q)
<1>1. PICK data \in [0..cap-1 -> Byte], start \in 0..cap-1, len \in 0..cap :
        r = RingOf(data, start, Wrap(start + len, cap), len, cap)
  BY RingFields
<1>2. r.len = len
  BY <1>1 DEF RingOf
<1>3. PICK d \in [0..cap-1 -> Byte], e \in 0..cap-1, t \in 0..Len(p) :
        /\ Hg_Buf_WriteN(r, p) = [total |-> t, ring |-> RingOf(d, start, e, len + t, cap)]
        /\ t = Free(Len(p), len, cap)
        /\ e = Wrap(start + (len + t), cap)
        /\ Landed(d, data, p, start, len, t, cap)
  BY <1>1, WriteNFields, Zenon
<1>4. PICK d2 \in [0..cap-1 -> Byte], e2 \in 0..cap-1, t2 \in 0..Len(q) :
        /\ Hg_Buf_WriteN(r, q) = [total |-> t2, ring |-> RingOf(d2, start, e2, len + t2, cap)]
        /\ t2 = Free(Len(q), len, cap)
        /\ e2 = Wrap(start + (len + t2), cap)
        /\ Landed(d2, data, q, start, len, t2, cap)
  BY <1>1, WriteNFields, Zenon
<1>5. t2 = t /\ e2 = e /\ t \in Nat /\ len + t <= cap /\ \A i \in 1..t : p[i] = q[i]
  <2>1. t2 = t /\ e2 = e /\ \A i \in 1..t : p[i] = q[i]
    BY <1>2, <1>3, <1>4
  <2>2. t \in Nat /\ len + t <= cap
    BY <1>3 DEF Free
  <2> QED BY <2>1, <2>2
<1>6. d = d2
  <2>1. Landed(d2, data, q, start, len, t, cap)
    BY <1>4, <1>5
  <2>2. Landed(d, data, p, start, len, t, cap)
    BY <1>3
  <2>3. len \in Nat /\ t \in Nat
    BY <1>5
  <2>4. len + t <= cap
    BY <1>5
  <2>5. Agree(p, q, t)
    BY <1>5 DEF Agree
  <2>6. \A j \in 0..cap-1 : d[j] = d2[j]
    BY SMTT(30), <2>1, <2>2, <2>3, <2>4, <2>5, LandedOnce
  <2> QED BY <2>6
<1> QED BY <1>3, <1>4, <1>5, <1>6

\* Two writes, of which the first fits, are one of both.
LEMMA WriteNTwice ==
  ASSUME NEW Byte, NEW cap \in Nat \ {0}, NEW r \in Ring(Byte, cap), Shape(r),
         NEW p \in Seq(Byte), NEW b \in Seq(Byte), Len(p) <= cap - r.len
  PROVE  LET w1 == Hg_Buf_WriteN(r, p)
             w2 == Hg_Buf_WriteN(w1.ring, b)
             w  == Hg_Buf_WriteN(r, p \o b)
         IN  w1.total = Len(p) /\ w.ring = w2.ring /\ w.total = Len(p) + w2.total
<1> DEFINE w1 == Hg_Buf_WriteN(r, p)
           w2 == Hg_Buf_WriteN(w1.ring, b)
           w  == Hg_Buf_WriteN(r, p \o b)
           q  == p \o b
<1>1. PICK data \in [0..cap-1 -> Byte], start \in 0..cap-1, len \in 0..cap :
        r = RingOf(data, start, Wrap(start + len, cap), len, cap)
  BY RingFields
<1>2. r.len = len
  BY <1>1 DEF RingOf
<1>3. /\ q \in Seq(Byte) /\ Len(q) = Len(p) + Len(b) /\ Len(p) \in Nat /\ Len(b) \in Nat
      /\ \A i \in 1..Len(p) : q[i] = p[i]
      /\ \A i \in 1..Len(b) : q[Len(p) + i] = b[i]
  OBVIOUS
<1>4. PICK d \in [0..cap-1 -> Byte], e \in 0..cap-1, t \in 0..Len(p) :
        /\ w1 = [total |-> t, ring |-> RingOf(d, start, e, len + t, cap)]
        /\ t = Free(Len(p), len, cap)
        /\ e = Wrap(start + (len + t), cap)
        /\ Landed(d, data, p, start, len, t, cap)
  BY <1>1, WriteNFields, Zenon
<1>5. t = Len(p) /\ len + t \in 0..cap /\ t \in Nat
  BY <1>2, <1>4 DEF Free
<1>6. w1.ring = RingOf(d, start, Wrap(start + (len + t), cap), len + t, cap) /\ w1.total = t
  BY <1>4
<1>7. PICK d2 \in [0..cap-1 -> Byte], e2 \in 0..cap-1, t2 \in 0..Len(b) :
        /\ w2 = [total |-> t2, ring |-> RingOf(d2, start, e2, len + t + t2, cap)]
        /\ t2 = Free(Len(b), len + t, cap)
        /\ e2 = Wrap(start + (len + t + t2), cap)
        /\ Landed(d2, d, b, start, len + t, t2, cap)
  <2>1. len + t \in 0..cap
    BY <1>5
  <2>2. w2 = Hg_Buf_WriteN(RingOf(d, start, Wrap(start + (len + t), cap), len + t, cap), b)
    BY <1>6
  <2> HIDE DEF w2
  <2> QED BY <2>1, <2>2, WriteNFields, Zenon
<1>8. PICK d3 \in [0..cap-1 -> Byte], e3 \in 0..cap-1, t3 \in 0..Len(q) :
        /\ w = [total |-> t3, ring |-> RingOf(d3, start, e3, len + t3, cap)]
        /\ t3 = Free(Len(q), len, cap)
        /\ e3 = Wrap(start + (len + t3), cap)
        /\ Landed(d3, data, q, start, len, t3, cap)
  BY <1>1, <1>3, WriteNFields, Zenon
<1> HIDE DEF w, w1, w2, q
<1>9. /\ t3 = t + t2 /\ t2 \in Nat /\ len + t + t2 <= cap
      /\ len + t3 = len + t + t2
  <2>1. t2 = Free(Len(b), len + t, cap) /\ t3 = Free(Len(q), len, cap)
    BY <1>7, <1>8, Zenon
  <2>2. t \in Nat /\ t <= cap - len /\ Len(b) \in Nat /\ Len(q) = t + Len(b)
    BY <1>2, <1>5, <1>3
  <2>3. /\ t2 \in 0..Len(b) /\ len + t + t2 <= cap /\ t3 = t + t2
    BY <2>1, <2>2, FreeParts
  <2> QED BY <2>2, <2>3
<1>10. Landed(d2, data, q, start, len, t + t2, cap)
  <2>1. Agree(q, p, t)
    BY <1>5, <1>3 DEF Agree
  <2>2. \A i \in 1..t2 : q[t + i] = b[i]
    <3>1. 1..t2 \subseteq 1..Len(b)
      BY <1>3, <1>7
    <3> QED BY <1>5, <1>3, <3>1
  <2>3. len \in Nat /\ t \in Nat /\ t2 \in Nat /\ len + t + t2 <= cap
    BY <1>5, <1>9
  <2>4. Landed(d, data, p, start, len, t, cap) /\ Landed(d2, d, b, start, len + t, t2, cap)
    BY <1>4, <1>7, Zenon
  <2>5. len + t + t2 <= cap
    BY <2>3
  <2> QED BY <2>1, <2>2, <2>3, <2>4, <2>5, LandedTwice
<1>11. d2 = d3
  <2>1. t + t2 \in Nat /\ len + (t + t2) <= cap /\ Landed(d3, data, q, start, len, t + t2, cap)
    BY <1>5, <1>8, <1>9
  <2>2. len \in Nat
    OBVIOUS
  <2>3. Agree(q, q, t + t2)
    BY DEF Agree
  <2>4. t + t2 \in Nat
    BY <2>1
  <2>5. len + (t + t2) <= cap
    BY <2>1
  <2>6. Landed(d3, data, q, start, len, t + t2, cap)
    BY <2>1
  <2>7. \A j \in 0..cap-1 : d2[j] = d3[j]
    BY <1>10, <2>2, <2>3, <2>4, <2>5, <2>6, LandedOnce
  <2> QED BY <2>7
<1>12. e2 = e3
  BY <1>7, <1>8, <1>9
<1>13. w.ring = w2.ring /\ w.total = t + w2.total
  BY <1>7, <1>8, <1>9, <1>11, <1>12
<1> QED BY <1>5, <1>6, <1>13 DEF w, w1, w2, q

\* Writing nothing changes nothing.
LEMMA WriteNNone ==
  ASSUME NEW Byte, NEW cap \in Nat \ {0}, NEW r \in Ring(Byte, cap), Shape(r),
         NEW src \in Seq(Byte)
  PROVE  Len(src) = 0 => Hg_Buf_WriteN(r, src).ring = r
<1>1. PICK data \in [0..cap-1 -> Byte], start \in 0..cap-1, len \in 0..cap :
        r = RingOf(data, start, Wrap(start + len, cap), len, cap)
  BY RingFields
<1>2. PICK d \in [0..cap-1 -> Byte], e \in 0..cap-1, t \in 0..Len(src) :
        /\ Hg_Buf_WriteN(r, src) = [total |-> t, ring |-> RingOf(d, start, e, len + t, cap)]
        /\ t = Free(Len(src), len, cap)
        /\ e = Wrap(start + (len + t), cap)
        /\ Landed(d, data, src, start, len, t, cap)
  BY <1>1, WriteNFields, Zenon
<1>3. SUFFICES ASSUME Len(src) = 0 PROVE Hg_Buf_WriteN(r, src).ring = r
  OBVIOUS
<1>4. t = 0 /\ len + t = len /\ t \in Nat /\ len \in Nat /\ len + t <= cap
  BY <1>3, <1>2
<1>5. e = Wrap(start + len, cap)
  BY <1>2, <1>4
<1>6. \A j \in 0..cap-1 : d[j] = data[j]
  <2>1. Landed(data, data, src, start, len, t, cap)
    BY <1>4 DEF Landed
  <2>2. Landed(d, data, src, start, len, t, cap) /\ Agree(src, src, t)
    BY <1>2 DEF Agree
  <2> QED BY <1>4, <2>1, <2>2, LandedOnce
<1>7. d = data
  BY <1>2, <1>6
<1> QED BY <1>1, <1>2, <1>4, <1>5, <1>7

\* Reading n bytes makes byte n+1 the first unread one.
LEMMA ReadN ==
  ASSUME NEW Byte, NEW cap \in Nat \ {0}, NEW r \in Ring(Byte, cap), Shape(r),
         NEW n \in Nat, CanRead(r, n)
  PROVE  /\ AfterRead(r, n) \in Ring(Byte, cap)
         /\ Shape(AfterRead(r, n))
         /\ AfterRead(r, n).len = r.len - n
         /\ \A i \in 1..(r.len - n) : Unread(AfterRead(r, n), i) = Unread(r, n + i)
<1>1. /\ AfterRead(r, n) = [data |-> r.data, start |-> Wrap(r.start + n, cap),
                            end |-> r.end, len |-> r.len - n, cap |-> cap]
      /\ r.cap = cap /\ r.start \in 0..cap-1 /\ r.len \in 0..cap /\ n <= r.len
      /\ r.end \in 0..cap-1 /\ r.data \in [0..cap-1 -> Byte]
  BY DEF AfterRead, Ring, CanRead
<1>2. Wrap(r.start + n, cap) \in 0..cap-1
  BY <1>1 DEF Wrap
<1>3. r.end = Wrap(Wrap(r.start + n, cap) + (r.len - n), cap)
  BY <1>1 DEF Wrap, Shape
<1>4. ASSUME NEW i \in 1..(r.len - n)
      PROVE  Wrap(Wrap(r.start + n, cap) + i - 1, cap) = Wrap(r.start + (n + i) - 1, cap)
  BY SMTT(30), <1>1 DEF Wrap
<1> QED BY <1>1, <1>2, <1>3, <1>4 DEF Ring, Shape, Unread

\* Putting back the bytes just read restores the ring.
LEMMA PutBack ==
  ASSUME NEW Byte, NEW cap \in Nat \ {0}, NEW r \in Ring(Byte, cap),
         NEW n \in Nat, CanRead(r, n)
  PROVE  PushBack(AfterRead(r, n), n) = r
<1>1. /\ AfterRead(r, n) = [data |-> r.data, start |-> Wrap(r.start + n, cap),
                            end |-> r.end, len |-> r.len - n, cap |-> cap]
      /\ r = [data |-> r.data, start |-> r.start, end |-> r.end,
              len |-> r.len, cap |-> cap]
      /\ r.start \in 0..cap-1 /\ r.len \in 0..cap /\ n <= r.len
  BY DEF AfterRead, Ring, CanRead
<1> DEFINE s == Wrap(r.start + n, cap)
<1>2. (IF s >= n THEN s - n ELSE Wrap(cap - (n - s), cap)) = r.start
  BY <1>1 DEF Wrap
<1>3. PushBack(AfterRead(r, n), n) =
        [data |-> r.data, start |-> IF s >= n THEN s - n ELSE Wrap(cap - (n - s), cap),
         end |-> r.end, len |-> (r.len - n) + n, cap |-> cap]
  BY <1>1 DEF PushBack
<1> QED BY <1>1, <1>2, <1>3

-----------------------------------------------------------------------------
(* The head of a packet                                                    *)

\* The fields share the first two bytes without touching one another.
LEMMA FirstByte ==
  ASSUME NEW f \in 0..1, NEW c \in 0..1
  PROVE  LET b == (f % 2) * 128 + (c % 2) * 64
         IN  b \in 0..255 /\ (b \div 128) % 2 = f /\ (b \div 64) % 2 = c
BY SMT

\* The second byte of the header gives back its three fields.
LEMMA SecondByte ==
  ASSUME NEW c \in 0..7, NEW t \in 0..3, NEW p \in 0..7
  PROVE  LET b == (c % 8) * 32 + (t % 4) * 8 + (p % 8)
         IN  b \in 0..255 /\ b \div 32 = c /\ (b \div 8) % 4 = t /\ b % 8 = p
BY SMT

\* A byte is what is left of a number, and any number has one at its end.
LEMMA LowByte ==
  ASSUME NEW v \in Nat
  PROVE  v % 256 \in 0..255 /\ v \div 256 \in Nat /\ v = (v \div 256) * 256 + (v % 256)
BY SMT

\* Two and four bytes, the higher ones first, are the number.
LEMMA BigEndian16 ==
  ASSUME NEW v \in Nat, v <= 65535
  PROVE  /\ (v \div 256) % 256 \in 0..255 /\ v % 256 \in 0..255
         /\ ((v \div 256) % 256) * 256 + (v % 256) = v
<1>1. ((v \div 256) % 256) * 256 + (v % 256) = v
  BY SMT
<1>2. (v \div 256) % 256 \in 0..255 /\ v % 256 \in 0..255
  BY LowByte
<1> QED BY <1>1, <1>2

\* The same for four bytes.
LEMMA BigEndian32 ==
  ASSUME NEW v \in Nat, v <= 4294967295
  PROVE  /\ (v \div 16777216) % 256 \in 0..255 /\ (v \div 65536) % 256 \in 0..255
         /\ (v \div 256) % 256 \in 0..255 /\ v % 256 \in 0..255
         /\ ((v \div 16777216) % 256) * 16777216 + ((v \div 65536) % 256) * 65536
              + ((v \div 256) % 256) * 256 + (v % 256) = v
<1>1. ((v \div 16777216) % 256) * 16777216 + ((v \div 65536) % 256) * 65536
        + ((v \div 256) % 256) * 256 + (v % 256) = v
  BY SMT
<1>2. /\ (v \div 16777216) % 256 \in 0..255 /\ (v \div 65536) % 256 \in 0..255
      /\ (v \div 256) % 256 \in 0..255 /\ v % 256 \in 0..255
  BY SMT
<1> QED BY <1>1, <1>2, SMT

-----------------------------------------------------------------------------
\* The receiver reads in a head what the sender put there: no field runs into
\* its neighbour and none loses a bit, for any values the bits can hold.
THEOREM HeaderRoundTrip ==
  ASSUME NEW f \in 0..1, NEW c \in 0..1, NEW m \in 0..7, NEW t \in 0..3, NEW p \in 0..7,
         NEW q \in Nat, NEW z \in Nat, NEW x \in Nat,
         q <= 65535, z <= 65535, x <= 4294967295,
         NEW d, d = rtpPacketHead([first |-> f, comp |-> c, cmd |-> m, tail |-> t,
                                   payloadType |-> p, seq |-> q, timestamp |-> z, ssrc |-> x])
  PROVE  /\ pktFirst(d) = f /\ pktComp(d) = c
         /\ pktCmd(d) = m /\ pktFlag(d) = t /\ pktPLoadType(d) = p
         /\ pktSeq(d) = q /\ pktTimestamp(d) = z /\ pktSsrc(d) = x
<1>0. d = <<(f % 2) * 128 + (c % 2) * 64, (m % 8) * 32 + (t % 4) * 8 + (p % 8),
            (q \div 256) % 256, q % 256, (z \div 256) % 256, z % 256,
            (x \div 16777216) % 256, (x \div 65536) % 256, (x \div 256) % 256, x % 256>>
  BY SMT DEF rtpPacketHead, toolsIntBigEndian16, toolsIntBigEndian32
<1>1. /\ d[1] = (f % 2) * 128 + (c % 2) * 64
      /\ d[2] = (m % 8) * 32 + (t % 4) * 8 + (p % 8)
      /\ d[3] = (q \div 256) % 256 /\ d[4] = q % 256
      /\ d[5] = (z \div 256) % 256 /\ d[6] = z % 256
      /\ d[7] = (x \div 16777216) % 256 /\ d[8] = (x \div 65536) % 256
      /\ d[9] = (x \div 256) % 256 /\ d[10] = x % 256
  BY <1>0, SMT
<1>2. pktFirst(d) = f /\ pktComp(d) = c
  BY <1>1, FirstByte, SMT DEF pktFirst, pktComp
<1>3. pktCmd(d) = m /\ pktFlag(d) = t /\ pktPLoadType(d) = p
  <2>1. LET b == (m % 8) * 32 + (t % 4) * 8 + (p % 8)
        IN  b \div 32 = m /\ (b \div 8) % 4 = t /\ b % 8 = p
    BY SecondByte, SMT
  <2> QED BY <1>1, <2>1, SMT DEF pktCmd, pktFlag, pktPLoadType
<1>4. pktSeq(d) = q
  BY <1>1, BigEndian16, SMT DEF pktSeq
<1>5. pktTimestamp(d) = z
  BY <1>1, BigEndian16, SMT DEF pktTimestamp
<1>6. pktSsrc(d) = x
  <2>1. ((x \div 16777216) % 256) * 16777216 + ((x \div 65536) % 256) * 65536
          + ((x \div 256) % 256) * 256 + (x % 256) = x
    BY BigEndian32
  <2> QED BY <1>1, <2>1 DEF pktSsrc
<1> QED BY <1>2, <1>3, <1>4, <1>5, <1>6, SMT

\* A head that is sent again with another command reads as that command; all
\* else in it reads as before, so it is a head of the same packet.
THEOREM SetCmdOnly ==
  ASSUME NEW d \in [1..10 -> 0..255], NEW value \in 0..7
  PROVE  LET e == pktSetCmd(d, value)
         IN  /\ pktCmd(e) = value
             /\ pktFlag(e) = pktFlag(d) /\ pktPLoadType(e) = pktPLoadType(d)
             /\ \A i \in 1..10 : i # 2 => e[i] = d[i]
<1> DEFINE e == pktSetCmd(d, value)
           b == d[2]
<1>1. b \in 0..255
  BY SMT
<1>2. e[2] = (value % 8) * 32 + (b % 32) /\ \A i \in 1..10 : i # 2 => e[i] = d[i]
  BY SMT DEF pktSetCmd
<1>3. LET v == (value % 8) * 32 + (b % 32)
      IN  v \div 32 = value /\ (v \div 8) % 4 = (b \div 8) % 4 /\ v % 8 = b % 8
  <2> HIDE DEF b
  <2> QED BY <1>1, SMT
<1> HIDE DEF e
<1>4. pktCmd(e) = value /\ pktFlag(e) = pktFlag(d) /\ pktPLoadType(e) = pktPLoadType(d)
  BY <1>2, <1>3, SMT DEF pktCmd, pktFlag, pktPLoadType
<1> QED BY <1>2, <1>4, SMT DEF e
=============================================================================
