-------------------------- MODULE RecvStreamProofs ---------------------------
(***************************************************************************)
(* HuageRecvStream, for any stream, any cache and any loss, order and      *)
(* repetition of the packets, while the peer is never further ahead than   *)
(* the slots of the cache tell packets apart: packets are joined in the    *)
(* order sent, each at most once, frames have no holes, and a packet is    *)
(* given up only after it was asked for, once.                             *)
(***************************************************************************)
EXTENDS RecvStream, DataProofs, SequenceTheorems

\* The slot of the n-th packet.
SlotOf(n) == Slot(Wire(n))

\* The hypothesis: numbers of packets under way compare as the packets do; the
\* mark of a stream without packets is none of them; the stream starts low; and
\* packets of one window have different slots.
WindowFits ==
  /\ Window <= Half /\ Lifetime <= Half
  /\ FirstPkt + Window <= Half + 1
  /\ \A n \in FirstPkt..LastPkt+1 : Wire(n) # NoSeq
  /\ \A x, y \in Packets : x < y /\ y - x < Window => SlotOf(x) # SlotOf(y)

-----------------------------------------------------------------------------
(* The invariant.  The receiver has numbers only; a, m and s are the        *)
(* packets meant by cur, max and seq.                                       *)

Asked == {asked[k] : k \in 1..Len(asked)}

\* The first packet to arrive begins everything.
Fresh ==
  /\ sent + 1 - FirstPkt <= Window
  /\ max = 0 /\ pc = "idle" /\ cache = [i \in Slots |-> EmptySlot]
  /\ big = <<>> /\ taken = <<>> /\ frames = <<>> /\ asked = <<>> /\ ~stranded

\* The packets that the numbers mean, in their order.
Means(a, m, s) ==
  /\ cur = Wire(a) /\ a <= sent + 1 /\ sent + 1 - a <= Window
  /\ max = Wire(m) /\ a - 1 <= m /\ m <= sent
  /\ pc = "find" => /\ seq = Wire(s) /\ a <= s /\ s <= m + 1
                    /\ isfull => s = a

\* A packet in the cache is in its slot, between the one awaited and the highest.
Cached(a, m) ==
  \A i \in Slots : cache[i].pkt # None =>
    a <= cache[i].pkt /\ cache[i].pkt <= m /\ i = SlotOf(cache[i].pkt)

\* The slot of a packet tells whether it was asked for, until it is passed.
Noted(a, m) ==
  /\ \A i \in Slots : cache[i].time # None => \E x \in a..m : i = SlotOf(x) /\ x \in Asked
  /\ \A x \in Asked : x <= m /\ (a <= x => cache[SlotOf(x)].time # None)

\* What a pass has gone over is there or was asked for.
GoneOver(a, s) == pc = "find" => \A x \in a..s-1 : cache[SlotOf(x)] # EmptySlot

\* What was taken is behind the number awaited, in order, and what was passed
\* since was asked for.
TakenBehind(a) ==
  /\ \A i \in 1..Len(taken) : taken[i] < a
  /\ \A i \in 1..Len(taken)-1 : taken[i] < taken[i+1]
  /\ \A i \in 1..Len(taken)-1 : \A n \in taken[i]+1..taken[i+1]-1 : n \in Asked
  /\ taken # <<>> => \A n \in taken[Len(taken)]+1..a-1 : n \in Asked

\* Packets that follow each other inside a frame.
Follow(f) ==
  \A j \in 1..Len(f)-1 :
    f[j+1] = f[j] + 1 /\ TailOf[f[j]] \in {Begin, Middle} /\ TailOf[f[j+1]] \in {Middle, End}

\* The frame under construction ends before the packet awaited, and goes on.
Building(a) ==
  /\ Follow(big)
  /\ big # <<>> =>
       big[Len(big)] = a - 1 /\ TailOf[big[Len(big)]] \in {Begin, Middle}
  /\ \A k \in 1..Len(frames) :
       /\ frames[k] # <<>> /\ Follow(frames[k])
       /\ TailOf[frames[k][Len(frames[k])]] \in {Alone, End}

Content(a, m, s) ==
  Cached(a, m) /\ Noted(a, m) /\ GoneOver(a, s) /\ TakenBehind(a) /\ Building(a)

Runs == \E a \in FirstPkt..LastPkt+1, m \in FirstPkt..LastPkt, s \in FirstPkt..LastPkt+1 :
          Means(a, m, s) /\ (stranded \/ Content(a, m, s))

IInv == TypeOK /\ (cur = NoSeq => Fresh) /\ (cur # NoSeq => Runs)

-----------------------------------------------------------------------------
(* Numbers on the circle                                                   *)

LEMMA Circle ==
  /\ HG_SEQ_MAX_NUM \in Nat \ {0} /\ Half \in Nat
  /\ HG_SEQ_MAX_NUM = 2 * Half + 1
BY SeqAssumption DEF Half

LEMMA WireType ==
  ASSUME NEW n \in Nat
  PROVE  Wire(n) \in Seqs /\ Wire(n) \in Nat /\ Wire(n) < HG_SEQ_MAX_NUM
         /\ (n < HG_SEQ_MAX_NUM => Wire(n) = n)
<1> DEFINE w == n % HG_SEQ_MAX_NUM
<1>1. HG_SEQ_MAX_NUM \in Nat \ {0}
  BY Circle
<1>2. w \in 0..HG_SEQ_MAX_NUM-1 /\ (n < HG_SEQ_MAX_NUM => w = n)
  BY <1>1, Remainder
<1> HIDE DEF w
<1>3. w \in Nat /\ w < HG_SEQ_MAX_NUM
  BY <1>1, <1>2
<1> QED BY <1>2, <1>3 DEF w, Wire, Seqs

\* Packets less than one turn apart: their numbers differ as they do, or by one
\* turn less.
LEMMA WireApart ==
  ASSUME NEW x \in Nat, NEW y \in Nat, y <= x, x - y < HG_SEQ_MAX_NUM
  PROVE  \/ Wire(y) <= Wire(x) /\ Wire(x) - Wire(y) = x - y
         \/ Wire(x) < Wire(y) /\ Wire(x) + HG_SEQ_MAX_NUM - Wire(y) = x - y
<1> DEFINE c == HG_SEQ_MAX_NUM
<1>0. c \in Nat \ {0}
  BY Circle
<1> HIDE DEF c
<1>1. PICK q \in Int, r \in 0..c-1 : x = c * q + r /\ r = x % c
  BY <1>0, Divide
<1>2. PICK p \in Int, s \in 0..c-1 : y = c * p + s /\ s = y % c
  BY <1>0, Divide
<1>3. Wire(x) = r /\ Wire(y) = s
  BY <1>1, <1>2 DEF Wire, c
<1>4. c * q \in Int /\ c * p \in Int
  BY <1>0
<1>5. x - y < c
  BY DEF c
<1>6. CASE q = p
  <2>1. r - s = x - y
    BY <1>1, <1>2, <1>4, <1>6
  <2> QED BY <1>0, <1>3, <2>1
<1>7. CASE q < p
  <2>1. c * q + c <= c * p
    BY <1>0, <1>7, Multiples
  <2> QED BY <1>0, <1>1, <1>2, <1>4, <2>1
<1>8. CASE p < q
  <2>1. c * p + c <= c * q
    BY <1>0, <1>8, Multiples
  <2>2. ~(p + 1 < q)
    <3>1. SUFFICES ASSUME p + 1 < q PROVE FALSE
      OBVIOUS
    <3>2. c * (p + 1) + c <= c * q
      BY <1>0, <3>1, Multiples
    <3>3. c * (p + 1) = c * p + c
      BY <1>0
    <3> QED BY <1>0, <1>1, <1>2, <1>4, <1>5, <3>2, <3>3
  <2>3. q = p + 1
    BY <1>8, <2>2
  <2>4. c * q = c * p + c
    BY <1>0, <2>3
  <2>5. r + c - s = x - y
    <3>1. \A A, B \in Int : x = A + r /\ y = B + s /\ A = B + c => r + c - s = x - y
      BY <1>0
    <3> QED BY <1>1, <1>2, <1>4, <2>4, <3>1
  <2>6. r < s
    BY <1>0, <1>5, <2>5
  <2> QED BY <1>3, <2>5, <2>6 DEF c
<1> QED BY <1>6, <1>7, <1>8

\* Comparing numbers compares packets that are at most half the circle apart.
LEMMA Ahead ==
  ASSUME NEW x \in Nat, NEW y \in Nat, y <= x, x - y <= Half
  PROVE  uint16Sub(Wire(x), Wire(y)) = x - y
<1>1. HG_SEQ_MAX_NUM \in Nat /\ Half \in Nat /\ HG_SEQ_MAX_NUM = 2 * Half + 1
  BY Circle
<1>2. x - y < HG_SEQ_MAX_NUM
  BY <1>1
<1>3. \/ Wire(y) <= Wire(x) /\ Wire(x) - Wire(y) = x - y
      \/ Wire(x) < Wire(y) /\ Wire(x) + HG_SEQ_MAX_NUM - Wire(y) = x - y
  BY <1>2, WireApart
<1>4. Wire(x) \in Nat /\ Wire(y) \in Nat
  BY WireType
<1> QED BY <1>1, <1>3, <1>4 DEF uint16Sub

LEMMA Behind ==
  ASSUME NEW x \in Nat, NEW y \in Nat, x < y, y - x <= Half
  PROVE  uint16Sub(Wire(x), Wire(y)) = -1
<1>1. HG_SEQ_MAX_NUM \in Nat /\ Half \in Nat /\ HG_SEQ_MAX_NUM = 2 * Half + 1
  BY Circle
<1>2. y - x < HG_SEQ_MAX_NUM
  BY <1>1
<1>3. \/ Wire(x) <= Wire(y) /\ Wire(y) - Wire(x) = y - x
      \/ Wire(y) < Wire(x) /\ Wire(y) + HG_SEQ_MAX_NUM - Wire(x) = y - x
  BY <1>2, WireApart
<1>4. Wire(x) \in Nat /\ Wire(y) \in Nat
  BY WireType
<1> QED BY <1>1, <1>3, <1>4 DEF uint16Sub

\* The number after a packet's is that of the next packet.
LEMMA NextWire ==
  ASSUME NEW x \in Nat, 1 <= Half
  PROVE  uint16Add(Wire(x), 1) = Wire(x + 1)
<1>1. HG_SEQ_MAX_NUM \in Nat \ {0} /\ Half \in Nat /\ HG_SEQ_MAX_NUM = 2 * Half + 1
  BY Circle
<1>2. x + 1 \in Nat /\ x <= x + 1 /\ (x + 1) - x = 1 /\ 1 < HG_SEQ_MAX_NUM
  BY <1>1
<1>3. \/ Wire(x) <= Wire(x+1) /\ Wire(x+1) - Wire(x) = 1
      \/ Wire(x+1) < Wire(x) /\ Wire(x+1) + HG_SEQ_MAX_NUM - Wire(x) = 1
  BY <1>2, WireApart
<1>4. /\ Wire(x) \in Nat /\ Wire(x+1) \in Nat
      /\ Wire(x) < HG_SEQ_MAX_NUM /\ Wire(x+1) < HG_SEQ_MAX_NUM
  BY <1>2, WireType
<1> DEFINE b == Wire(x) + 1
<1>5. b \in Nat
  BY <1>4
<1>6. CASE b < HG_SEQ_MAX_NUM
  <2>1. b % HG_SEQ_MAX_NUM = b
    <3> HIDE DEF b
    <3> QED BY <1>1, <1>5, <1>6, Remainder
  <2>2. Wire(x+1) = b
    BY <1>1, <1>3, <1>4, <1>6
  <2> QED BY <2>1, <2>2 DEF uint16Add
<1>7. CASE ~(b < HG_SEQ_MAX_NUM)
  <2>1. b = 0 + HG_SEQ_MAX_NUM
    BY <1>1, <1>4, <1>7
  <2>2. b % HG_SEQ_MAX_NUM = 0
    <3> HIDE DEF b
    <3>1. (0 + HG_SEQ_MAX_NUM) % HG_SEQ_MAX_NUM = 0 % HG_SEQ_MAX_NUM
      BY <1>1, RemainderRepeats
    <3>2. 0 % HG_SEQ_MAX_NUM = 0
      BY <1>1, Remainder
    <3> QED BY <2>1, <3>1, <3>2
  <2>3. Wire(x+1) = 0
    BY <1>1, <1>3, <1>4, <1>7
  <2> QED BY <2>2, <2>3 DEF uint16Add
<1> QED BY <1>6, <1>7

\* The difference of two numbers, as the model of the peer has it.
LEMMA WireLag ==
  ASSUME NEW x \in Nat, NEW y \in Nat, y <= x, x - y <= Half
  PROVE  (Wire(x) - Wire(y)) % HG_SEQ_MAX_NUM = x - y
<1>1. HG_SEQ_MAX_NUM \in Nat \ {0} /\ Half \in Nat /\ HG_SEQ_MAX_NUM = 2 * Half + 1
  BY Circle
<1>2. x - y < HG_SEQ_MAX_NUM /\ x - y \in Nat
  BY <1>1
<1>3. \/ Wire(y) <= Wire(x) /\ Wire(x) - Wire(y) = x - y
      \/ Wire(x) < Wire(y) /\ Wire(x) + HG_SEQ_MAX_NUM - Wire(y) = x - y
  BY <1>2, WireApart
<1>4. Wire(x) \in Nat /\ Wire(y) \in Nat
  BY WireType
<1> DEFINE b == x - y
           d == Wire(x) - Wire(y)
<1>5. b \in Nat /\ b < HG_SEQ_MAX_NUM /\ d \in Int /\ (d = b \/ d = b - HG_SEQ_MAX_NUM)
  BY <1>1, <1>2, <1>3, <1>4
<1> HIDE DEF b, d
<1>6. d % HG_SEQ_MAX_NUM = b
  <2>1. b % HG_SEQ_MAX_NUM = b
    BY <1>1, <1>5, Remainder
  <2>2. CASE d = b - HG_SEQ_MAX_NUM
    BY <1>1, <1>5, <2>2
  <2> QED BY <1>5, <2>1, <2>2
<1> QED BY <1>6 DEF b, d

\* Packets of a window no longer than the cache have different slots, also across
\* the wrap of the numbers if the window is no longer than what is left of them
\* behind the last whole length of the cache.
LEMMA SlotsApart ==
  ASSUME Window \in Nat, Window <= Half, Window <= HG_SEQ_MAX_NUM % HG_CONN_CACHE_LEN,
         NEW x \in Nat, NEW y \in Nat, x < y, y - x < Window
  PROVE  SlotOf(x) # SlotOf(y)
<1> DEFINE c == HG_SEQ_MAX_NUM
           l == HG_CONN_CACHE_LEN
           d == y - x
<1>1. c \in Nat /\ l \in Nat \ {0} /\ d \in Nat /\ Half \in Nat /\ c = 2 * Half + 1
  BY Circle, RecvAssumption
<1>2. 0 < d /\ d < c /\ d < c % l
  <2>1. c % l \in Int
    BY <1>1
  <2>2. d < Window /\ Window <= c % l
    OBVIOUS
  <2> HIDE DEF c, l
  <2> QED BY <1>1, <2>1, <2>2
<1>3. PICK k \in Int, t \in 0..l-1 : c = l * k + t /\ t = c % l
  BY <1>1, Divide
<1>4. PICK p \in Int, r \in 0..l-1 : Wire(x) = l * p + r /\ r = Wire(x) % l
  BY <1>1, WireType, Divide
<1>5. PICK q \in Int, u \in 0..l-1 : Wire(y) = l * q + u /\ u = Wire(y) % l
  BY <1>1, WireType, Divide
<1>6. \/ Wire(y) - Wire(x) = d
      \/ Wire(y) + c - Wire(x) = d
  BY <1>1, <1>2, WireApart
<1>7. SlotOf(x) = r /\ SlotOf(y) = u
  BY <1>4, <1>5 DEF SlotOf, Slot
<1> HIDE DEF c, l, d
<1>8. SUFFICES ASSUME r = u PROVE FALSE
  BY <1>7
<1>9. \A i, j \in Int, e \in Nat : l * i + e = l * j /\ 0 < e => ~(e < l)
  <2>1. SUFFICES ASSUME NEW i \in Int, NEW j \in Int, NEW e \in Nat, l * i + e = l * j, 0 < e, e < l
                 PROVE  FALSE
    OBVIOUS
  <2>2. l * i \in Int /\ l * j \in Int
    BY <1>1
  <2>3. CASE i < j
    <3>1. l * i + l <= l * j
      BY <1>1, <2>3, Multiples
    <3> QED BY <1>1, <2>1, <2>2, <3>1
  <2>4. CASE j < i
    <3>1. l * j + l <= l * i
      BY <1>1, <2>4, Multiples
    <3> QED BY <1>1, <2>1, <2>2, <3>1
  <2>5. CASE i = j
    BY <2>1, <2>2, <2>5
  <2> QED BY <2>3, <2>4, <2>5
<1> DEFINE P == l * p
           Q == l * q
           K == l * k
<1>10. /\ P \in Int /\ Q \in Int /\ K \in Int /\ r \in Nat /\ t \in Nat /\ t < l
       /\ Wire(x) = P + r /\ Wire(y) = Q + r /\ c = K + t /\ d < t
  <2>1. P \in Int /\ Q \in Int /\ K \in Int
    BY <1>1
  <2>2. Wire(x) = P + r /\ Wire(y) = Q + r /\ c = K + t
    BY <1>3, <1>4, <1>5, <1>8
  <2> HIDE DEF P, Q, K
  <2> QED BY SMTT(30), <1>1, <1>2, <1>3, <1>4, <2>1, <2>2
<1>11. CASE Wire(y) - Wire(x) = d
  <2> HIDE DEF P, Q, K
  <2>1. P + d = Q /\ d < l
    BY <1>1, <1>10, <1>11
  <2> QED BY <1>1, <1>2, <1>9, <2>1 DEF P, Q
<1>12. CASE Wire(y) + c - Wire(x) = d
  <2>1. l * (q + k) = Q + K /\ q + k \in Int
    BY <1>1
  <2> HIDE DEF P, Q, K
  <2>2. Q + K + (t - d) = P /\ t - d \in Nat /\ 0 < t - d /\ t - d < l
    <3>1. t - d \in Nat /\ 0 < t - d /\ t - d < l
      BY <1>1, <1>2, <1>10
    <3>2. Q + r + (K + t) - (P + r) = d
      BY <1>10, <1>12
    <3> QED BY <1>1, <1>10, <3>1, <3>2
  <2> QED BY <1>9, <2>1, <2>2 DEF P
<1> QED BY <1>6, <1>11, <1>12

\* What the hypothesis comes to: a window of the numbers left over behind the last
\* whole length of the cache (135 in the code, of 200 slots) satisfies it for any stream
\* that starts low and in which the mark of a stream without packets does not occur.
THEOREM WindowSuffices ==
  ASSUME Window <= Half, Lifetime <= Half, FirstPkt + Window <= Half + 1,
         Window <= HG_SEQ_MAX_NUM % HG_CONN_CACHE_LEN,
         \A n \in FirstPkt..LastPkt+1 : Wire(n) # NoSeq
  PROVE  WindowFits
<1>1. ASSUME NEW x \in Packets, NEW y \in Packets, x < y, y - x < Window
      PROVE  SlotOf(x) # SlotOf(y)
  <2>1. x \in Nat /\ y \in Nat /\ Window \in Nat
    BY RecvAssumption DEF Packets
  <2> QED BY <1>1, <2>1, SlotsApart
<1> QED BY <1>1 DEF WindowFits

-----------------------------------------------------------------------------
(* What the invariant says of the numbers looked at                        *)

LEMMA Constants ==
  ASSUME WindowFits
  PROVE  /\ FirstPkt \in Nat /\ LastPkt \in Nat /\ FirstPkt <= LastPkt
         /\ Window \in Nat /\ 1 <= Window /\ Window <= Half
         /\ Lifetime \in Nat /\ Lifetime <= Half /\ Half \in Nat /\ 1 <= Half
         /\ FirstPkt + Window <= Half + 1
         /\ HG_CONN_CACHE_LEN \in Nat \ {0} /\ Expiry \in Nat \ {0}
         /\ HG_SEQ_MAX_NUM = 2 * Half + 1
         /\ 0 \in Seqs /\ None = -1
BY RecvAssumption, Circle DEF WindowFits, Seqs, None

LEMMA SlotType ==
  ASSUME NEW n \in Nat
  PROVE  SlotOf(n) \in Slots
<1>1. Wire(n) \in Nat /\ HG_CONN_CACHE_LEN \in Nat \ {0}
  BY WireType, RecvAssumption
<1> QED BY <1>1, Remainder DEF SlotOf, Slot, Slots

\* Packets of one window that have the same slot are the same packet.
LEMMA SameSlot ==
  ASSUME WindowFits, NEW a \in Nat, NEW e \in Nat, e - a < Window, FirstPkt <= a, e <= LastPkt,
         NEW x \in a..e, NEW y \in a..e, SlotOf(x) = SlotOf(y)
  PROVE  x = y
<1>1. FirstPkt \in Nat /\ LastPkt \in Nat /\ Window \in Nat
  BY Constants
<1>2. x \in Packets /\ y \in Packets
  BY <1>1 DEF Packets
<1>3. ASSUME x < y PROVE FALSE
  <2>1. y - x < Window
    BY <1>1, <1>3
  <2> QED BY <1>2, <1>3, <2>1 DEF WindowFits
<1>4. ASSUME y < x PROVE FALSE
  <2>1. x - y < Window
    BY <1>1, <1>4
  <2> QED BY <1>2, <1>4, <2>1 DEF WindowFits
<1> QED BY <1>3, <1>4

\* The range of the packets meant.
Bounds(a, m, s) ==
  /\ a \in FirstPkt..LastPkt+1 /\ m \in FirstPkt..LastPkt /\ s \in FirstPkt..LastPkt+1

LEMMA InBounds ==
  ASSUME WindowFits, TypeOK, NEW a, NEW m, NEW s, Bounds(a, m, s), Means(a, m, s)
  PROVE  /\ a \in Nat /\ m \in Nat /\ s \in Nat /\ sent \in Nat /\ sent <= LastPkt
         /\ FirstPkt <= a /\ a <= sent + 1 /\ sent + 1 - a <= Window
         /\ a - 1 <= m /\ m <= sent
         /\ pc = "find" => a <= s /\ s <= m + 1
<1>1. FirstPkt \in Nat /\ LastPkt \in Nat /\ Window \in Nat /\ sent \in FirstPkt-1..LastPkt
  BY Constants DEF TypeOK
<1>2. a \in Nat /\ m \in Nat /\ s \in Nat /\ FirstPkt <= a /\ FirstPkt <= m
  BY <1>1 DEF Bounds
<1>3. m <= sent /\ a <= sent + 1 /\ sent + 1 - a <= Window /\ a - 1 <= m
  BY DEF Means
<1>4. sent \in Nat /\ sent <= LastPkt
  BY <1>1, <1>2, <1>3
<1> QED BY <1>2, <1>3, <1>4 DEF Means

\* A pass is in a stream that has begun, and looks at the packet s.
LEMMA LooksAt ==
  ASSUME WindowFits, IInv, pc = "find"
  PROVE  \E a, m, s : /\ Bounds(a, m, s) /\ Means(a, m, s)
                      /\ stranded \/ Content(a, m, s)
                      /\ InRange <=> s <= m
                      /\ seq = Wire(s) /\ Slot(seq) = SlotOf(s)
                      /\ NextSeq = Wire(s + 1) /\ s + 1 \in Nat
                      /\ s <= m => s \in Packets /\ Meant(seq) = s
<1>1. cur # NoSeq
  BY DEF IInv, Fresh
<1>2. PICK a \in FirstPkt..LastPkt+1, m \in FirstPkt..LastPkt, s \in FirstPkt..LastPkt+1 :
        Means(a, m, s) /\ (stranded \/ Content(a, m, s))
  BY <1>1 DEF IInv, Runs
<1>3. Bounds(a, m, s) /\ TypeOK
  BY DEF Bounds, IInv
<1>4. /\ a \in Nat /\ m \in Nat /\ s \in Nat /\ sent \in Nat /\ sent <= LastPkt
      /\ FirstPkt <= a /\ a <= sent + 1 /\ sent + 1 - a <= Window
      /\ a - 1 <= m /\ m <= sent /\ a <= s /\ s <= m + 1
  BY <1>2, <1>3, InBounds
<1>5. /\ FirstPkt \in Nat /\ LastPkt \in Nat /\ Window \in Nat /\ Window <= Half
      /\ Half \in Nat /\ 1 <= Half
  BY Constants
<1>6. seq = Wire(s) /\ max = Wire(m)
  BY <1>2 DEF Means
<1>7. InRange <=> s <= m
  <2>1. CASE s <= m
    <3>1. m - s <= Half
      BY <1>4, <1>5
    <3>2. uint16Sub(max, seq) = m - s
      BY <1>4, <1>6, <2>1, <3>1, Ahead
    <3> QED BY <1>4, <2>1, <3>2 DEF InRange
  <2>2. CASE ~(s <= m)
    <3>1. m < s /\ s - m <= Half
      BY <1>4, <1>5, <2>2
    <3>2. uint16Sub(max, seq) = -1
      BY <1>4, <1>6, <3>1, Behind
    <3> QED BY <2>2, <3>2 DEF InRange
  <2> QED BY <2>1, <2>2
<1>8. Slot(seq) = SlotOf(s)
  BY <1>6 DEF SlotOf
<1>9. NextSeq = Wire(s + 1) /\ s + 1 \in Nat
  BY <1>4, <1>5, <1>6, NextWire DEF NextSeq
<1>10. ASSUME s <= m PROVE s \in Packets /\ Meant(seq) = s
  <2>1. s \in Packets
    BY <1>4, <1>5, <1>10 DEF Packets
  <2>2. sent + 1 \in Nat /\ s < sent + 1 /\ (sent + 1) - s <= Half
    BY <1>4, <1>5, <1>10
  <2>3. uint16Sub(seq, Wire(sent + 1)) = -1
    BY <1>4, <1>6, <2>2, Behind
  <2>4. uint16Sub(Wire(sent + 1), seq) = sent + 1 - s
    BY <1>4, <1>6, <2>2, Ahead
  <2>5. Meant(seq) = sent + 1 - (sent + 1 - s)
    BY <2>3, <2>4 DEF Meant
  <2> QED BY <1>4, <2>1, <2>5
<1> QED BY <1>2, <1>3, <1>6, <1>7, <1>8, <1>9, <1>10

\* Not the mark of a stream without packets.
LEMMA NotNoSeq ==
  ASSUME WindowFits, NEW a \in FirstPkt..LastPkt+1
  PROVE  Wire(a) # NoSeq /\ Wire(a) \in Seqs
<1>1. a \in Nat
  BY Constants
<1> QED BY <1>1, WireType DEF WindowFits

\* An invariant in a stream that goes on.
LEMMA GoesOn ==
  ASSUME WindowFits, TypeOK', NEW a, NEW m, NEW s, Bounds(a, m, s), Means(a, m, s)',
         (stranded \/ Content(a, m, s))'
  PROVE  IInv'
<1>1. cur' = Wire(a)
  BY DEF Means
<1>2. cur' # NoSeq
  BY <1>1, NotNoSeq DEF Bounds
<1>3. /\ a \in FirstPkt..LastPkt+1 /\ m \in FirstPkt..LastPkt /\ s \in FirstPkt..LastPkt+1
  BY DEF Bounds
<1>4. Runs'
  BY <1>3 DEF Runs
<1> QED BY <1>2, <1>4 DEF IInv

-----------------------------------------------------------------------------
(* The peer and the clock                                                  *)

LEMMA InitInv ==
  ASSUME WindowFits, Init
  PROVE  IInv
<1>1. /\ FirstPkt \in Nat /\ LastPkt \in Nat /\ FirstPkt <= LastPkt /\ 0 \in Seqs
      /\ Window \in Nat /\ Expiry \in Nat \ {0} /\ None = -1
  BY Constants
<1>2. TypeOK
  <2>1. EmptySlot \in [pkt : Packets \cup {None}, time : -1..Expiry]
    BY <1>1 DEF EmptySlot
  <2>2. sent \in FirstPkt-1..LastPkt /\ cur \in Seqs \cup {NoSeq} /\ max \in Seqs /\ seq \in Seqs
    BY <1>1 DEF Init
  <2>3. cache \in [Slots -> [pkt : Packets \cup {None}, time : -1..Expiry]]
    BY <2>1 DEF Init
  <2>4. /\ big \in Seq(Packets) /\ taken \in Seq(Packets) /\ frames \in Seq(Seq(Packets))
        /\ asked \in Seq(Nat)
    BY DEF Init
  <2> QED BY <2>2, <2>3, <2>4 DEF Init, TypeOK
<1>3. Fresh
  <2>1. sent + 1 - FirstPkt <= Window
    BY <1>1 DEF Init
  <2> QED BY <2>1 DEF Init, Fresh
<1> QED BY <1>2, <1>3 DEF IInv, Init

\* Facts that the numbers and the histories alone decide.
LEMMA SendStep ==
  ASSUME WindowFits, IInv, Send
  PROVE  IInv'
<1>0. /\ pc = "idle" /\ sent < LastPkt /\ Lag < Window /\ sent' = sent + 1
      /\ UNCHANGED <<cur, max, cache, big, pc, seq, isfull, novalue, taken, frames, asked, stranded>>
  BY DEF Send, pass, history
<1>1. /\ FirstPkt \in Nat /\ LastPkt \in Nat /\ Window \in Nat /\ Window <= Half /\ Half \in Nat
      /\ sent \in FirstPkt-1..LastPkt
  BY Constants DEF IInv, TypeOK
<1>2. TypeOK'
  <2>1. sent' \in FirstPkt-1..LastPkt
    BY <1>0, <1>1
  <2> QED BY <1>0, <2>1 DEF IInv, TypeOK
<1>3. CASE cur = NoSeq
  <2>1. Fresh /\ sent + 1 - FirstPkt < Window
    BY <1>0, <1>3 DEF IInv, Lag
  <2>2. sent' + 1 - FirstPkt <= Window
    BY <1>0, <1>1, <2>1
  <2>3. Fresh'
    BY <1>0, <2>1, <2>2 DEF Fresh
  <2> QED BY <1>0, <1>2, <1>3, <2>3 DEF IInv
<1>4. CASE cur # NoSeq
  <2>1. PICK a \in FirstPkt..LastPkt+1, m \in FirstPkt..LastPkt, s \in FirstPkt..LastPkt+1 :
          Means(a, m, s) /\ (stranded \/ Content(a, m, s))
    BY <1>4 DEF IInv, Runs
  <2>2. Bounds(a, m, s)
    BY DEF Bounds
  <2>3. /\ a \in Nat /\ m \in Nat /\ sent \in Nat /\ a <= sent + 1 /\ sent + 1 - a <= Window
        /\ m <= sent
    BY <2>1, <2>2, InBounds DEF IInv
  <2>4. Lag = sent + 1 - a
    <3>1. sent + 1 \in Nat /\ (sent + 1) - a <= Half
      BY <1>1, <2>3
    <3>2. (Wire(sent + 1) - Wire(a)) % HG_SEQ_MAX_NUM = (sent + 1) - a
      BY <2>3, <3>1, WireLag
    <3>3. cur = Wire(a)
      BY <2>1 DEF Means
    <3> DEFINE d == (Wire(sent + 1) - Wire(a)) % HG_SEQ_MAX_NUM
    <3>4. Lag = d
      BY <1>4, <3>3 DEF Lag
    <3> HIDE DEF d
    <3>5. d = (sent + 1) - a
      BY <3>2 DEF d
    <3> QED BY <2>3, <3>4, <3>5
  <2>5. a <= sent' + 1 /\ sent' + 1 - a <= Window /\ m <= sent'
    BY <1>0, <1>1, <2>3, <2>4
  <2>6. Means(a, m, s)'
    BY <1>0, <2>1, <2>5 DEF Means
  <2>7. (stranded \/ Content(a, m, s))'
    BY <1>0, <2>1 DEF Content, Cached, Noted, GoneOver, TakenBehind, Building, Asked, Follow
  <2> QED BY <1>2, <2>2, <2>6, <2>7, GoesOn
<1> QED BY <1>3, <1>4

LEMMA TickStep ==
  ASSUME WindowFits, IInv, Tick
  PROVE  IInv'
<1>0. /\ \E i \in Slots : Pending(i)
      /\ cache' = [i \in Slots |-> IF Pending(i) THEN [cache[i] EXCEPT !.time = @ + 1] ELSE cache[i]]
      /\ UNCHANGED <<sent, cur, max, big, pc, seq, isfull, novalue, taken, frames, asked, stranded>>
  BY DEF Tick, pass, history
<1>1. Expiry \in Nat \ {0} /\ None = -1
      /\ cache \in [Slots -> [pkt : Packets \cup {None}, time : -1..Expiry]]
  BY Constants DEF IInv, TypeOK
<1>2. \A i \in Slots : /\ cache'[i] \in [pkt : Packets \cup {None}, time : -1..Expiry]
                       /\ cache'[i].pkt = cache[i].pkt
                       /\ cache'[i].time # None <=> cache[i].time # None
  <2>1. ASSUME NEW i \in Slots
        PROVE  /\ cache'[i] \in [pkt : Packets \cup {None}, time : -1..Expiry]
               /\ cache'[i].pkt = cache[i].pkt
               /\ cache'[i].time # None <=> cache[i].time # None
    <3>1. PICK p \in Packets \cup {None}, t \in -1..Expiry : cache[i] = [pkt |-> p, time |-> t]
      BY <1>1
    <3>2. CASE Pending(i)
      <4>1. t \in 0..Expiry-1
        BY <3>1, <3>2 DEF Pending
      <4>2. cache'[i] = [pkt |-> p, time |-> t + 1]
        BY <1>0, <3>1, <3>2
      <4>3. t + 1 \in -1..Expiry /\ t + 1 # None /\ t # None
        BY <1>1, <4>1
      <4> QED BY <3>1, <4>2, <4>3
    <3>3. CASE ~Pending(i)
      <4>1. cache'[i] = cache[i]
        BY <1>0, <3>3
      <4> QED BY <3>1, <4>1
    <3> QED BY <3>2, <3>3
  <2> QED BY <2>1
<1>3. \A i \in Slots : cache'[i] = EmptySlot <=> cache[i] = EmptySlot
  <2>1. \A c \in [pkt : Packets \cup {None}, time : -1..Expiry] :
          c = EmptySlot <=> c.pkt = None /\ c.time = None
    BY DEF EmptySlot
  <2> QED BY <1>1, <1>2, <2>1
<1>4. TypeOK'
  <2>1. cache' \in [Slots -> [pkt : Packets \cup {None}, time : -1..Expiry]]
    BY <1>0, <1>2
  <2> QED BY <1>0, <2>1 DEF IInv, TypeOK
<1>5. cur # NoSeq
  <2>1. ASSUME cur = NoSeq PROVE FALSE
    <3>1. \A i \in Slots : cache[i].time = None
      BY <2>1 DEF IInv, Fresh, EmptySlot
    <3> QED BY <1>0, <1>1, <3>1 DEF Pending
  <2> QED BY <2>1
<1>6. PICK a \in FirstPkt..LastPkt+1, m \in FirstPkt..LastPkt, s \in FirstPkt..LastPkt+1 :
        Means(a, m, s) /\ (stranded \/ Content(a, m, s))
  BY <1>5 DEF IInv, Runs
<1>7. Bounds(a, m, s) /\ a \in Nat /\ s \in Nat /\ m \in Nat
  BY Constants DEF Bounds
<1>8. Means(a, m, s)'
  BY <1>0, <1>6 DEF Means
<1>9. (stranded \/ Content(a, m, s))'
  <2>1. SUFFICES ASSUME ~stranded PROVE Content(a, m, s)'
    BY <1>0
  <2>2. Content(a, m, s)
    BY <1>6, <2>1
  <2>3. Cached(a, m)'
    BY <1>2, <2>2 DEF Content, Cached
  <2>4. Noted(a, m)'
    <3>1. \A x \in Asked : a <= x => SlotOf(x) \in Slots
      <4>1. \A x \in Asked : x \in Nat
        BY DEF Asked, IInv, TypeOK
      <4> QED BY <4>1, SlotType
    <3> QED BY <1>0, <1>2, <2>2, <3>1 DEF Content, Noted, Asked
  <2>5. GoneOver(a, s)'
    <3>1. \A x \in a..s-1 : SlotOf(x) \in Slots
      <4>1. \A x \in a..s-1 : x \in Nat
        BY <1>7
      <4> QED BY <4>1, SlotType
    <3> QED BY <1>0, <1>3, <2>2, <3>1 DEF Content, GoneOver
  <2>6. TakenBehind(a)' /\ Building(a)'
    BY <1>0, <2>2 DEF Content, TakenBehind, Building, Asked, Follow
  <2> QED BY <2>3, <2>4, <2>5, <2>6 DEF Content
<1> QED BY <1>4, <1>7, <1>8, <1>9, GoesOn

-----------------------------------------------------------------------------
(* threadPOOLRecv                                                          *)

\* A packet that arrives is compared with the number awaited and the highest.
LEMMA Compares ==
  ASSUME WindowFits, TypeOK, NEW a, NEW m, NEW s, Bounds(a, m, s), Means(a, m, s),
         NEW n \in FirstPkt..sent, n > sent - Lifetime
  PROVE  /\ n \in Nat
         /\ uint16Sub(cur, Wire(n)) <= 0 <=> a <= n
         /\ a <= n => (uint16Sub(Wire(n), max) > 0 <=> m < n)
<1>1. /\ a \in Nat /\ m \in Nat /\ sent \in Nat /\ a <= sent + 1 /\ sent + 1 - a <= Window
      /\ a - 1 <= m /\ m <= sent
  BY InBounds
<1>2. /\ FirstPkt \in Nat /\ Window \in Nat /\ Window <= Half /\ Half \in Nat
      /\ Lifetime \in Nat /\ Lifetime <= Half /\ 1 <= Half
  BY Constants
<1>3. n \in Nat /\ n <= sent
  BY <1>1, <1>2
<1>4. cur = Wire(a) /\ max = Wire(m)
  BY DEF Means
<1>5. uint16Sub(cur, Wire(n)) <= 0 <=> a <= n
  <2>1. CASE a < n
    <3>1. n - a <= Half
      BY <1>1, <1>2, <1>3, <2>1
    <3>2. uint16Sub(cur, Wire(n)) = -1
      BY <1>1, <1>3, <1>4, <2>1, <3>1, Behind
    <3> QED BY <2>1, <3>2, <1>1, <1>3
  <2>2. CASE n <= a
    <3>1. a - n <= Half
      BY <1>1, <1>2, <1>3, <2>2
    <3>2. uint16Sub(cur, Wire(n)) = a - n
      BY <1>1, <1>3, <1>4, <2>2, <3>1, Ahead
    <3> QED BY <2>2, <3>2, <1>1, <1>3
  <2> QED BY <1>1, <1>3, <2>1, <2>2
<1>6. ASSUME a <= n PROVE uint16Sub(Wire(n), max) > 0 <=> m < n
  <2>1. CASE m < n
    <3>1. n - m <= Half /\ m <= n
      BY <1>1, <1>2, <1>3, <2>1
    <3>2. uint16Sub(Wire(n), max) = n - m
      BY <1>1, <1>3, <1>4, <3>1, Ahead
    <3> QED BY <2>1, <3>2, <1>1, <1>3
  <2>2. CASE n = m
    <3>1. n - m <= Half /\ m <= n /\ n - m = 0
      BY <1>1, <1>2, <1>3, <2>2
    <3>2. uint16Sub(Wire(n), max) = 0
      BY <1>1, <1>3, <1>4, <3>1, Ahead
    <3> QED BY <2>2, <3>2, <1>1, <1>3
  <2>3. CASE n < m
    <3>1. m - n <= Half
      BY <1>1, <1>2, <1>3, <1>6, <2>3
    <3>2. uint16Sub(Wire(n), max) = -1
      BY <1>1, <1>3, <1>4, <2>3, <3>1, Behind
    <3> QED BY <2>3, <3>2, <1>1, <1>3
  <2> QED BY <1>1, <1>3, <2>1, <2>2, <2>3
<1> QED BY <1>3, <1>5, <1>6

\* The slots change in their packet only, and in one.
LEMMA PutInSlot ==
  ASSUME WindowFits, TypeOK, NEW n \in Packets,
         cache' = [cache EXCEPT ![SlotOf(n)].pkt = n]
  PROVE  /\ cache' \in [Slots -> [pkt : Packets \cup {None}, time : -1..Expiry]]
         /\ SlotOf(n) \in Slots /\ cache'[SlotOf(n)].pkt = n
         /\ \A i \in Slots : /\ cache'[i].time = cache[i].time
                             /\ i # SlotOf(n) => cache'[i].pkt = cache[i].pkt
<1>1. cache \in [Slots -> [pkt : Packets \cup {None}, time : -1..Expiry]]
  BY DEF TypeOK
<1>2. n \in Nat
  BY Constants DEF Packets
<1> DEFINE j == SlotOf(n)
<1>3. j \in Slots
  BY <1>2, SlotType
<1>4. cache' = [cache EXCEPT ![j].pkt = n]
  OBVIOUS
<1> HIDE DEF j
<1>5. PICK p \in Packets \cup {None}, t \in -1..Expiry : cache[j] = [pkt |-> p, time |-> t]
  BY <1>1, <1>3
<1>6. cache'[j] = [pkt |-> n, time |-> t] /\ \A i \in Slots : i # j => cache'[i] = cache[i]
  BY <1>1, <1>3, <1>4, <1>5
<1>7. cache' \in [Slots -> [pkt : Packets \cup {None}, time : -1..Expiry]]
  BY <1>1, <1>3, <1>4, <1>5, <1>6
<1> QED BY <1>3, <1>5, <1>6, <1>7 DEF j

LEMMA RecvTypes ==
  ASSUME WindowFits, IInv, NEW n \in Packets, threadPOOLRecv(n)
  PROVE  TypeOK'
<1>0. /\ cur' = Awaited(n) /\ pc' = "find" /\ seq' = Awaited(n) /\ isfull' = TRUE /\ novalue' = 0
      /\ (Stores(n) /\ WriteTocache(n)) \/ UNCHANGED <<cache, max>>
      /\ UNCHANGED <<sent, big, taken, frames, asked, stranded>>
  BY DEF threadPOOLRecv, history
<1>1. n \in Nat
  BY Constants DEF Packets
<1>2. Wire(n) \in Seqs
  BY <1>1, WireType
<1>3. Awaited(n) \in Seqs
  BY <1>2 DEF Awaited, IInv, TypeOK
<1>4. /\ cache' \in [Slots -> [pkt : Packets \cup {None}, time : -1..Expiry]]
      /\ max' \in Seqs
  <2>1. CASE WriteTocache(n)
    <3>1. cache' = [cache EXCEPT ![SlotOf(n)].pkt = n]
      BY <2>1 DEF WriteTocache, SlotOf
    <3>2. max' \in Seqs
      BY <1>2, <2>1 DEF WriteTocache, IInv, TypeOK
    <3> QED BY <3>1, <3>2, PutInSlot DEF IInv
  <2>2. CASE UNCHANGED <<cache, max>>
    BY <2>2 DEF IInv, TypeOK
  <2> QED BY <1>0, <2>1, <2>2
<1> QED BY <1>0, <1>3, <1>4 DEF IInv, TypeOK

\* The first packet to arrive.
LEMMA FirstStep ==
  ASSUME WindowFits, IInv, NEW n \in Packets, threadPOOLRecv(n), cur = NoSeq
  PROVE  IInv'
<1>0. /\ pc = "idle" /\ n \in FirstPkt..sent
      /\ cur' = Wire(n) /\ pc' = "find" /\ seq' = Wire(n) /\ isfull' = TRUE
      /\ (Stores(n) /\ WriteTocache(n)) \/ (~Stores(n) /\ UNCHANGED <<cache, max>>)
      /\ UNCHANGED <<sent, big, taken, frames, asked, stranded>>
  BY DEF threadPOOLRecv, history, Awaited
<1>1. Fresh /\ TypeOK /\ TypeOK'
  BY RecvTypes DEF IInv
<1>2. /\ FirstPkt \in Nat /\ LastPkt \in Nat /\ Window \in Nat /\ Half \in Nat
      /\ FirstPkt + Window <= Half + 1 /\ HG_SEQ_MAX_NUM = 2 * Half + 1
      /\ sent \in FirstPkt-1..LastPkt /\ None = -1
  BY <1>1, Constants DEF TypeOK
<1>3. n \in Nat /\ n <= sent /\ FirstPkt <= n /\ sent \in Nat /\ n <= Half
      /\ sent + 1 - n <= Window
  <2>1. sent + 1 - FirstPkt <= Window
    BY <1>1 DEF Fresh
  <2> QED BY <1>0, <1>2, <2>1
<1>4. Wire(n) = n /\ Wire(0) = 0
  BY <1>2, <1>3, WireType
<1>5. SlotOf(n) \in Slots
  BY <1>3, SlotType
<1>6. Stores(n)
  <2>1. uint16Sub(Wire(n), Wire(n)) = n - n /\ n - n = 0
    BY <1>2, <1>3, Ahead
  <2>2. cache[SlotOf(n)].pkt = None
    BY <1>1, <1>5 DEF Fresh, EmptySlot
  <2> QED BY <2>1, <2>2 DEF Stores, Awaited, SlotOf
<1>7. max' = Wire(n)
  <2>1. uint16Sub(Wire(n), 0) = n
    <3>1. uint16Sub(Wire(n), Wire(0)) = n - 0
      BY <1>2, <1>3, Ahead
    <3> QED BY <1>3, <1>4, <3>1
  <2>2. max = 0
    BY <1>1 DEF Fresh
  <2> QED BY <1>0, <1>3, <1>4, <1>6, <2>1, <2>2 DEF WriteTocache
<1>8. /\ cache'[SlotOf(n)].pkt = n
      /\ \A i \in Slots : cache'[i].time = None /\ (i # SlotOf(n) => cache'[i].pkt = None)
  <2>1. cache' = [cache EXCEPT ![SlotOf(n)].pkt = n]
    BY <1>0, <1>6 DEF WriteTocache, SlotOf
  <2>2. \A i \in Slots : cache[i].time = None /\ cache[i].pkt = None
    BY <1>1 DEF Fresh, EmptySlot
  <2> QED BY <1>1, <2>1, <2>2, PutInSlot
<1>9. Bounds(n, n, n)
  BY <1>2, <1>3 DEF Bounds
<1>10. Means(n, n, n)'
  BY <1>0, <1>3, <1>7 DEF Means
<1>11. Content(n, n, n)'
  <2>1. Cached(n, n)'
    BY <1>3, <1>8 DEF Cached
  <2>2. big' = <<>> /\ taken' = <<>> /\ frames' = <<>> /\ asked' = <<>>
    BY <1>0, <1>1 DEF Fresh
  <2>3. Asked' = {}
    BY <2>2 DEF Asked
  <2>4. Noted(n, n)'
    BY <1>8, <2>3 DEF Noted
  <2>5. GoneOver(n, n)'
    BY <1>3 DEF GoneOver
  <2>6. TakenBehind(n)'
    BY <2>2 DEF TakenBehind
  <2>7. Building(n)'
    BY <2>2 DEF Building, Follow
  <2> QED BY <2>1, <2>4, <2>5, <2>6, <2>7 DEF Content
<1> QED BY <1>1, <1>9, <1>10, <1>11, GoesOn

LEMMA RecvStep ==
  ASSUME WindowFits, IInv, NEW n \in Packets, threadPOOLRecv(n), cur # NoSeq
  PROVE  IInv'
<1>0. /\ pc = "idle" /\ n \in FirstPkt..sent /\ n > sent - Lifetime
      /\ cur' = cur /\ pc' = "find" /\ seq' = cur /\ isfull' = TRUE
      /\ (Stores(n) /\ WriteTocache(n)) \/ (~Stores(n) /\ UNCHANGED <<cache, max>>)
      /\ UNCHANGED <<sent, big, taken, frames, asked, stranded>>
  BY DEF threadPOOLRecv, history, Awaited
<1>1. TypeOK /\ TypeOK'
  BY RecvTypes DEF IInv
<1>2. PICK a \in FirstPkt..LastPkt+1, m \in FirstPkt..LastPkt, s \in FirstPkt..LastPkt+1 :
        Means(a, m, s) /\ (stranded \/ Content(a, m, s))
  BY DEF IInv, Runs
<1>3. Bounds(a, m, s) /\ Bounds(a, m, a) /\ Bounds(a, n, a)
  BY Constants DEF Bounds, Packets
<1>4. /\ a \in Nat /\ m \in Nat /\ sent \in Nat /\ a <= sent + 1 /\ sent + 1 - a <= Window
      /\ a - 1 <= m /\ m <= sent /\ sent <= LastPkt /\ FirstPkt <= a
  BY <1>1, <1>2, <1>3, InBounds
<1>5. /\ n \in Nat
      /\ uint16Sub(cur, Wire(n)) <= 0 <=> a <= n
      /\ a <= n => (uint16Sub(Wire(n), max) > 0 <=> m < n)
  BY <1>0, <1>1, <1>2, <1>3, Compares
<1>6. CASE ~Stores(n)
  <2>1. Means(a, m, a)'
    BY <1>0, <1>2, <1>4, <1>6 DEF Means
  <2>2. (stranded \/ Content(a, m, a))'
    <3>1. GoneOver(a, a)'
      BY <1>4 DEF GoneOver
    <3> QED BY <1>0, <1>2, <1>6, <3>1
         DEF Content, Cached, Noted, TakenBehind, Building, Asked, Follow
  <2> QED BY <1>1, <1>3, <2>1, <2>2, GoesOn
<1>7. CASE Stores(n)
  <2>1. a <= n /\ cache[SlotOf(n)].pkt = None
    BY <1>5, <1>7 DEF Stores, Awaited, SlotOf
  <2>2. cache' = [cache EXCEPT ![SlotOf(n)].pkt = n]
    BY <1>0, <1>7 DEF WriteTocache, SlotOf
  <2>3. /\ SlotOf(n) \in Slots /\ cache'[SlotOf(n)].pkt = n
        /\ \A i \in Slots : /\ cache'[i].time = cache[i].time
                            /\ i # SlotOf(n) => cache'[i].pkt = cache[i].pkt
    BY <1>1, <2>2, PutInSlot
  <2> DEFINE h == IF m < n THEN n ELSE m
  <2>4. /\ h \in Nat /\ m <= h /\ n <= h /\ h <= sent
    BY <1>0, <1>4, <1>5
  <2>5. max' = Wire(h)
    BY <1>0, <1>2, <1>5, <1>7, <2>1 DEF WriteTocache, Means
  <2>6. Bounds(a, h, a)
    BY <1>3
  <2> HIDE DEF h
  <2>7. Means(a, h, a)'
    BY <1>0, <1>2, <1>4, <2>4, <2>5 DEF Means
  <2>8. (stranded \/ Content(a, h, a))'
    <3>1. SUFFICES ASSUME ~stranded PROVE Content(a, h, a)'
      BY <1>0
    <3>2. Content(a, m, s)
      BY <1>2, <3>1
    <3>3. Cached(a, h)'
      <4>1. ASSUME NEW i \in Slots, cache'[i].pkt # None
            PROVE  a <= cache'[i].pkt /\ cache'[i].pkt <= h /\ i = SlotOf(cache'[i].pkt)
        <5>1. CASE i = SlotOf(n)
          BY <2>1, <2>3, <2>4, <5>1
        <5>2. CASE i # SlotOf(n)
          <6>1. cache'[i].pkt = cache[i].pkt /\ cache[i].pkt \in Packets \cup {None}
            BY <1>1, <2>3, <5>2 DEF TypeOK
          <6>2. a <= cache[i].pkt /\ cache[i].pkt <= m /\ i = SlotOf(cache[i].pkt)
            BY <3>2, <4>1, <6>1 DEF Content, Cached
          <6>3. cache[i].pkt \in Nat
            BY <4>1, <6>1, Constants DEF Packets
          <6> QED BY <1>4, <2>4, <6>1, <6>2, <6>3
        <5> QED BY <5>1, <5>2
      <4> QED BY <4>1 DEF Cached
    <3>4. Noted(a, h)'
      <4>1. Asked' = Asked /\ \A x \in Asked : x \in Nat
        BY SMTT(30), <1>0, <1>1 DEF Asked, TypeOK
      <4>2. \A x \in Asked : SlotOf(x) \in Slots
        BY <4>1, SlotType
      <4>3. ASSUME NEW i \in Slots, cache'[i].time # None
            PROVE  \E x \in a..h : i = SlotOf(x) /\ x \in Asked
        <5>1. PICK x \in a..m : i = SlotOf(x) /\ x \in Asked
          BY <2>3, <3>2, <4>3 DEF Content, Noted
        <5>2. x \in a..h
          BY <1>4, <2>4
        <5> QED BY <5>1, <5>2
      <4>4. ASSUME NEW x \in Asked
            PROVE  x <= h /\ (a <= x => cache'[SlotOf(x)].time # None)
        <5>1. x <= m /\ (a <= x => cache[SlotOf(x)].time # None)
          BY <3>2 DEF Content, Noted
        <5> QED BY <1>4, <2>3, <2>4, <4>1, <4>2, <5>1
      <4> QED BY <4>1, <4>3, <4>4 DEF Noted
    <3>5. GoneOver(a, a)'
      BY <1>4 DEF GoneOver
    <3>6. TakenBehind(a)'
      BY <1>0, <3>2 DEF Content, TakenBehind, Asked
    <3>7. Building(a)'
      BY <1>0, <3>2 DEF Content, Building, Follow
    <3> QED BY <3>3, <3>4, <3>5, <3>6, <3>7 DEF Content
  <2> QED BY <1>1, <2>6, <2>7, <2>8, GoesOn
<1> QED BY <1>6, <1>7

-----------------------------------------------------------------------------
(* FindUseful: what a packet found does to the frames                      *)

\* The packet in the slot of the one awaited is the one awaited.
LEMMA FoundIsAwaited ==
  ASSUME WindowFits, TypeOK, NEW a, NEW m, NEW s, Bounds(a, m, s), Means(a, m, s),
         Cached(a, m), a <= m, cache[SlotOf(a)].pkt # None
  PROVE  cache[SlotOf(a)].pkt = a
<1>1. /\ a \in Nat /\ m \in Nat /\ sent \in Nat /\ a <= sent + 1 /\ sent + 1 - a <= Window
      /\ m <= sent /\ sent <= LastPkt /\ FirstPkt <= a
  BY InBounds
<1> DEFINE p == cache[SlotOf(a)].pkt
<1>2. SlotOf(a) \in Slots
  BY <1>1, SlotType
<1>3. p \in Packets
  BY <1>2 DEF TypeOK
<1>4. a <= p /\ p <= m /\ SlotOf(a) = SlotOf(p)
  BY <1>2 DEF Cached
<1>5. p \in Nat /\ Window \in Nat
  BY <1>3, Constants DEF Packets
<1> HIDE DEF p
<1>6. sent - a < Window /\ a \in a..sent /\ p \in a..sent
  BY <1>1, <1>4, <1>5
<1>7. p = a
  BY <1>1, <1>4, <1>6, SameSlot
<1> QED BY <1>7 DEF p

\* A frame that goes on with the next packet.
LEMMA FollowOn ==
  ASSUME NEW f \in Seq(Packets), NEW a \in Packets, Follow(f), TailOf[a] \in {Middle, End},
         f # <<>> => f[Len(f)] = a - 1 /\ TailOf[f[Len(f)]] \in {Begin, Middle}
  PROVE  /\ Append(f, a) \in Seq(Packets) /\ Append(f, a) # <<>> /\ Follow(Append(f, a))
         /\ Append(f, a)[Len(Append(f, a))] = a
<1> DEFINE g == Append(f, a)
<1>1. /\ g \in Seq(Packets) /\ Len(g) = Len(f) + 1 /\ Len(f) \in Nat /\ g[Len(f) + 1] = a
      /\ \A j \in 1..Len(f) : g[j] = f[j]
  OBVIOUS
<1>2. a - 1 + 1 = a
  BY RecvAssumption DEF Packets
<1> HIDE DEF g
<1>3. ASSUME NEW j \in 1..Len(g)-1
      PROVE  g[j+1] = g[j] + 1 /\ TailOf[g[j]] \in {Begin, Middle} /\ TailOf[g[j+1]] \in {Middle, End}
  <2>1. CASE j = Len(f)
    <3>1. f # <<>> /\ g[j] = f[Len(f)] /\ g[j+1] = a
      BY <1>1, <1>3, <2>1
    <3> QED BY <1>2, <3>1
  <2>2. CASE j # Len(f)
    <3>1. j \in 1..Len(f)-1 /\ g[j] = f[j] /\ g[j+1] = f[j+1]
      BY <1>1, <1>3, <2>2
    <3> QED BY <3>1 DEF Follow
  <2> QED BY <2>1, <2>2
<1>4. g # <<>> /\ g[Len(g)] = a
  BY <1>1
<1>5. Follow(g)
  BY <1>3 DEF Follow
<1> QED BY <1>1, <1>4, <1>5 DEF g

\* One more frame handed on.
LEMMA OneMoreFrame ==
  ASSUME NEW fs \in Seq(Seq(Packets)), NEW f \in Seq(Packets),
         \A k \in 1..Len(fs) : /\ fs[k] # <<>> /\ Follow(fs[k])
                               /\ TailOf[fs[k][Len(fs[k])]] \in {Alone, End},
         f # <<>> /\ Follow(f) /\ TailOf[f[Len(f)]] \in {Alone, End}
  PROVE  /\ Append(fs, f) \in Seq(Seq(Packets))
         /\ \A k \in 1..Len(Append(fs, f)) :
              /\ Append(fs, f)[k] # <<>> /\ Follow(Append(fs, f)[k])
              /\ TailOf[Append(fs, f)[k][Len(Append(fs, f)[k])]] \in {Alone, End}
<1> DEFINE gs == Append(fs, f)
<1>1. /\ gs \in Seq(Seq(Packets)) /\ Len(gs) = Len(fs) + 1 /\ Len(fs) \in Nat
      /\ gs[Len(fs) + 1] = f /\ \A k \in 1..Len(fs) : gs[k] = fs[k]
  OBVIOUS
<1> HIDE DEF gs
<1>2. ASSUME NEW k \in 1..Len(gs)
      PROVE  gs[k] # <<>> /\ Follow(gs[k]) /\ TailOf[gs[k][Len(gs[k])]] \in {Alone, End}
  <2>1. CASE k = Len(fs) + 1
    BY <1>1, <2>1
  <2>2. CASE k # Len(fs) + 1
    <3>1. k \in 1..Len(fs) /\ gs[k] = fs[k]
      BY <1>1, <1>2, <2>2
    <3> QED BY <3>1
  <2> QED BY <2>1, <2>2
<1> QED BY <1>1, <1>2 DEF gs

Merge == MergeAlone \/ MergeBegin \/ MergeMiddle \/ MergeEnd \/ MergeDrop

\* MergeData with the packet awaited.
LEMMA MergeBuilds ==
  ASSUME TypeOK, Merge, NEW a \in Packets, Here.pkt = a, Building(a)
  PROVE  Building(a + 1)'
<1>1. big \in Seq(Packets) /\ frames \in Seq(Seq(Packets))
  BY DEF TypeOK
<1>2. /\ Follow(big) /\ (big # <<>> => big[Len(big)] = a - 1 /\ TailOf[big[Len(big)]] \in {Begin, Middle})
      /\ \A k \in 1..Len(frames) :
           /\ frames[k] # <<>> /\ Follow(frames[k])
           /\ TailOf[frames[k][Len(frames[k])]] \in {Alone, End}
  BY DEF Building
<1>3. Joined = Append(big, a) /\ (a + 1) - 1 = a
  BY RecvAssumption DEF Joined, Packets
<1>4. <<a>> \in Seq(Packets) /\ <<a>> # <<>> /\ Len(<<a>>) = 1 /\ <<a>>[1] = a /\ Follow(<<a>>)
  BY DEF Follow
<1>5. Follow(<<>>)
  BY DEF Follow
<1>6. CASE MergeAlone
  <2>1. frames' = Append(frames, <<a>>) /\ big' = <<>> /\ TailOf[a] = Alone
    BY <1>6 DEF MergeAlone
  <2>2. \A k \in 1..Len(frames') :
           /\ frames'[k] # <<>> /\ Follow(frames'[k])
           /\ TailOf[frames'[k][Len(frames'[k])]] \in {Alone, End}
    BY <1>1, <1>2, <1>4, <2>1, OneMoreFrame
  <2> QED BY <1>5, <2>1, <2>2 DEF Building, Follow
<1>7. CASE MergeBegin
  <2>1. big' = <<a>> /\ frames' = frames /\ TailOf[a] = Begin
    BY <1>7 DEF MergeBegin
  <2> QED BY <1>2, <1>3, <1>4, <2>1 DEF Building, Follow
<1>8. CASE MergeMiddle
  <2>1. big' = Append(big, a) /\ frames' = frames /\ TailOf[a] = Middle
    BY <1>3, <1>8 DEF MergeMiddle
  <2>2. Follow(big') /\ big'[Len(big')] = a
    BY <1>1, <1>2, <2>1, FollowOn
  <2> QED BY SMTT(30), <1>2, <1>3, <2>1, <2>2 DEF Building, Follow
<1>9. CASE MergeEnd
  <2>1. frames' = Append(frames, Append(big, a)) /\ big' = <<>> /\ TailOf[a] = End
    BY <1>3, <1>9 DEF MergeEnd
  <2>2. /\ Append(big, a) \in Seq(Packets) /\ Append(big, a) # <<>> /\ Follow(Append(big, a))
        /\ Append(big, a)[Len(Append(big, a))] = a
    BY <1>1, <1>2, <2>1, FollowOn
  <2>3. \A k \in 1..Len(frames') :
           /\ frames'[k] # <<>> /\ Follow(frames'[k])
           /\ TailOf[frames'[k][Len(frames'[k])]] \in {Alone, End}
    BY <1>1, <1>2, <2>1, <2>2, OneMoreFrame
  <2> QED BY <1>5, <2>1, <2>3 DEF Building, Follow
<1>10. CASE MergeDrop
  <2>1. big' = <<>> /\ frames' = frames
    BY <1>10 DEF MergeDrop
  <2> QED BY <1>2, <1>5, <2>1 DEF Building, Follow
<1> QED BY <1>6, <1>7, <1>8, <1>9, <1>10 DEF Merge

-----------------------------------------------------------------------------
(* FindUseful: the steps                                                   *)

\* The slot of the packet awaited is emptied, and the next is awaited.
LEMMA Passes ==
  ASSUME WindowFits, TypeOK, NEW a, NEW m, NEW s, Bounds(a, m, s), Means(a, m, s),
         a <= m, Cached(a, m), Noted(a, m),
         cache' = [cache EXCEPT ![SlotOf(a)] = EmptySlot], asked' = asked
  PROVE  Cached(a + 1, m)' /\ Noted(a + 1, m)'
<1>1. /\ a \in Nat /\ m \in Nat /\ sent \in Nat /\ a <= sent + 1 /\ sent + 1 - a <= Window
      /\ m <= sent /\ sent <= LastPkt /\ FirstPkt <= a
  BY InBounds
<1>2. SlotOf(a) \in Slots /\ Window \in Nat
  BY <1>1, SlotType, Constants
<1>3. /\ cache'[SlotOf(a)].pkt = None /\ cache'[SlotOf(a)].time = None
      /\ \A i \in Slots : i # SlotOf(a) => cache'[i] = cache[i]
  BY <1>2 DEF TypeOK, EmptySlot
<1>4. Cached(a + 1, m)'
  <2>1. ASSUME NEW i \in Slots, cache'[i].pkt # None
        PROVE  a + 1 <= cache'[i].pkt /\ cache'[i].pkt <= m /\ i = SlotOf(cache'[i].pkt)
    <3>1. i # SlotOf(a) /\ cache'[i] = cache[i]
      BY <1>3, <2>1
    <3>2. a <= cache[i].pkt /\ cache[i].pkt <= m /\ i = SlotOf(cache[i].pkt)
      BY <2>1, <3>1 DEF Cached
    <3>3. cache[i].pkt \in Nat /\ cache[i].pkt # a
      <4>1. cache[i].pkt \in Packets
        BY <2>1, <3>1 DEF TypeOK
      <4> QED BY <3>1, <3>2, <4>1, Constants DEF Packets
    <3> QED BY <1>1, <3>1, <3>2, <3>3
  <2> QED BY <2>1 DEF Cached
<1>5. Noted(a + 1, m)'
  <2>0. Asked' = Asked /\ \A x \in Asked : x \in Nat
    BY DEF Asked, TypeOK
  <2>1. ASSUME NEW i \in Slots, cache'[i].time # None
        PROVE  \E x \in a+1..m : i = SlotOf(x) /\ x \in Asked
    <3>1. i # SlotOf(a) /\ cache'[i] = cache[i]
      BY <1>3, <2>1
    <3>2. PICK x \in a..m : i = SlotOf(x) /\ x \in Asked
      BY <2>1, <3>1 DEF Noted
    <3>3. x # a
      BY <3>1, <3>2
    <3>4. x \in a+1..m
      BY <1>1, <3>3
    <3> QED BY <3>2, <3>4
  <2>2. ASSUME NEW x \in Asked
        PROVE  x <= m /\ (a + 1 <= x => cache'[SlotOf(x)].time # None)
    <3>1. x <= m /\ (a <= x => cache[SlotOf(x)].time # None)
      BY DEF Noted
    <3>2. ASSUME a + 1 <= x PROVE cache'[SlotOf(x)].time # None
      <4>1. x \in Nat /\ x \in a..sent /\ a \in a..sent /\ x # a /\ sent - a < Window /\ a <= x
        BY <1>1, <1>2, <2>0, <3>1, <3>2
      <4>2. SlotOf(x) # SlotOf(a)
        BY <1>1, <4>1, SameSlot
      <4>3. SlotOf(x) \in Slots
        BY <4>1, SlotType
      <4> QED BY <1>3, <3>1, <4>1, <4>2, <4>3
    <3> QED BY <3>1, <3>2
  <2> QED BY <2>0, <2>1, <2>2 DEF Noted
<1> QED BY <1>4, <1>5

\* What Take changes for every way of merging.
LEMMA TakeIs ==
  ASSUME Merge
  PROVE  /\ InRange /\ isfull /\ Here.pkt # None
         /\ cache' = [cache EXCEPT ![Slot(seq)] = EmptySlot]
         /\ cur' = NextSeq /\ seq' = NextSeq /\ taken' = Append(taken, Here.pkt)
         /\ UNCHANGED <<sent, max, pc, isfull, novalue, asked, stranded>>
BY DEF Merge, MergeAlone, MergeBegin, MergeMiddle, MergeEnd, MergeDrop, Take

LEMMA EmptySlotType ==
  ASSUME WindowFits
  PROVE  EmptySlot \in [pkt : Packets \cup {None}, time : -1..Expiry]
BY Constants DEF EmptySlot

\* A slot that is emptied.
LEMMA EmptiedType ==
  ASSUME WindowFits, TypeOK, NEW j \in Slots, cache' = [cache EXCEPT ![j] = EmptySlot]
  PROVE  cache' \in [Slots -> [pkt : Packets \cup {None}, time : -1..Expiry]]
BY EmptySlotType DEF TypeOK

LEMMA MergeTypes ==
  ASSUME WindowFits, IInv, Merge
  PROVE  TypeOK'
<1>1. /\ InRange /\ isfull /\ Here.pkt # None
      /\ cache' = [cache EXCEPT ![Slot(seq)] = EmptySlot]
      /\ cur' = NextSeq /\ seq' = NextSeq /\ taken' = Append(taken, Here.pkt)
      /\ UNCHANGED <<sent, max, pc, isfull, novalue, asked, stranded>>
  BY TakeIs
<1>2. pc = "find" /\ TypeOK
  BY <1>1 DEF InRange, IInv
<1>3. PICK a, m, s : Slot(seq) = SlotOf(s) /\ NextSeq = Wire(s + 1) /\ s + 1 \in Nat
                     /\ Bounds(a, m, s)
  BY <1>2, LooksAt
<1>4. SlotOf(s) \in Slots /\ NextSeq \in Seqs
  <2>1. s \in Nat
    BY <1>3, Constants DEF Bounds
  <2> QED BY <1>3, <2>1, SlotType, WireType
<1>5. Here.pkt \in Packets
  BY <1>1, <1>2, <1>3, <1>4 DEF Here, TypeOK
<1>6. cache' \in [Slots -> [pkt : Packets \cup {None}, time : -1..Expiry]]
  BY <1>1, <1>2, <1>3, <1>4, EmptiedType
<1>7. big' \in Seq(Packets) /\ frames' \in Seq(Seq(Packets)) /\ taken' \in Seq(Packets)
  <2>1. big \in Seq(Packets) /\ frames \in Seq(Seq(Packets)) /\ taken \in Seq(Packets)
    BY <1>2 DEF TypeOK
  <2>2. Joined \in Seq(Packets) /\ <<Here.pkt>> \in Seq(Packets) /\ <<>> \in Seq(Packets)
        /\ taken' \in Seq(Packets)
    BY <1>1, <1>5, <2>1 DEF Joined
  <2>3. Append(frames, Joined) \in Seq(Seq(Packets)) /\ Append(frames, <<Here.pkt>>) \in Seq(Seq(Packets))
    BY <2>1, <2>2
  <2>4. \/ big' = <<>> \/ big' = <<Here.pkt>> \/ big' = Joined
    BY DEF Merge, MergeAlone, MergeBegin, MergeMiddle, MergeEnd, MergeDrop
  <2>5. \/ frames' = frames \/ frames' = Append(frames, <<Here.pkt>>) \/ frames' = Append(frames, Joined)
    BY DEF Merge, MergeAlone, MergeBegin, MergeMiddle, MergeEnd, MergeDrop
  <2> QED BY <2>1, <2>2, <2>3, <2>4, <2>5
<1> QED BY <1>1, <1>2, <1>4, <1>6, <1>7 DEF TypeOK

\* The packet taken is the next in order, and what was passed was asked for.
LEMMA OneMoreTaken ==
  ASSUME TypeOK, NEW a \in Nat, TakenBehind(a), a \in Packets,
         taken' = Append(taken, a), asked' = asked
  PROVE  TakenBehind(a + 1)'
<1> DEFINE l == Len(taken)
<1>1. taken \in Seq(Packets) /\ l \in Nat
  BY DEF TypeOK
<1>2. /\ Len(taken') = l + 1 /\ taken'[l + 1] = a /\ \A i \in 1..l : taken'[i] = taken[i]
  BY <1>1
<1>3. Asked' = Asked
  BY DEF Asked
<1>4. \A i \in 1..l : taken[i] \in Nat /\ taken[i] < a
  <2>1. \A i \in 1..l : taken[i] \in Packets
    BY <1>1
  <2>2. \A i \in 1..l : taken[i] < a
    BY DEF TakenBehind
  <2> QED BY <2>1, <2>2, RecvAssumption DEF Packets
<1> HIDE DEF l
<1>5. \A i \in 1..Len(taken') : taken'[i] < a + 1
  BY <1>1, <1>2, <1>4
<1>6. ASSUME NEW i \in 1..Len(taken')-1
      PROVE  /\ taken'[i] < taken'[i+1]
             /\ \A n \in taken'[i]+1..taken'[i+1]-1 : n \in Asked
  <2>1. CASE i = l
    <3>1. taken'[i] = taken[l] /\ taken'[i+1] = a /\ taken # <<>> /\ l \in 1..l
      BY <1>1, <1>2, <1>6, <2>1 DEF l
    <3>2. \A n \in taken[l]+1..a-1 : n \in Asked
      BY <3>1 DEF TakenBehind, l
    <3> QED BY <1>4, <3>1, <3>2
  <2>2. CASE i # l
    <3>1. i \in 1..l-1 /\ taken'[i] = taken[i] /\ taken'[i+1] = taken[i+1]
      BY <1>1, <1>2, <1>6, <2>2
    <3> QED BY <3>1 DEF TakenBehind, l
  <2> QED BY <2>1, <2>2
<1>7. \A n \in taken'[Len(taken')]+1..(a+1)-1 : n \in Asked
  <2>1. taken'[Len(taken')] = a
    BY <1>2
  <2>2. \A n \in a+1..(a+1)-1 : FALSE
    OBVIOUS
  <2> QED BY <2>1, <2>2
<1> QED BY <1>3, <1>5, <1>6, <1>7 DEF TakenBehind

LEMMA MergeStep ==
  ASSUME WindowFits, IInv, Merge
  PROVE  IInv'
<1>1. /\ InRange /\ isfull /\ Here.pkt # None
      /\ cache' = [cache EXCEPT ![Slot(seq)] = EmptySlot]
      /\ cur' = NextSeq /\ seq' = NextSeq /\ taken' = Append(taken, Here.pkt)
      /\ UNCHANGED <<sent, max, pc, isfull, novalue, asked, stranded>>
  BY TakeIs
<1>2. pc = "find" /\ TypeOK /\ TypeOK'
  BY <1>1, MergeTypes DEF InRange, IInv
<1>3. PICK a, m, s : /\ Bounds(a, m, s) /\ Means(a, m, s)
                     /\ stranded \/ Content(a, m, s)
                     /\ InRange <=> s <= m
                     /\ seq = Wire(s) /\ Slot(seq) = SlotOf(s)
                     /\ NextSeq = Wire(s + 1) /\ s + 1 \in Nat
                     /\ s <= m => s \in Packets /\ Meant(seq) = s
  BY <1>2, LooksAt
<1>4. /\ a \in Nat /\ m \in Nat /\ sent \in Nat /\ a <= sent + 1 /\ sent + 1 - a <= Window
      /\ m <= sent /\ sent <= LastPkt /\ FirstPkt <= a /\ Window \in Nat
      /\ FirstPkt \in Nat /\ LastPkt \in Nat
  BY <1>2, <1>3, InBounds, Constants
<1>5. s = a /\ a <= m /\ a \in Packets
  BY <1>1, <1>2, <1>3 DEF Means
<1>6. Bounds(a + 1, m, a + 1)
  BY <1>3, <1>4, <1>5 DEF Bounds
<1>7. Means(a + 1, m, a + 1)'
  <2>1. cur' = Wire(a + 1) /\ seq' = Wire(a + 1)
    BY <1>1, <1>3, <1>5
  <2>2. /\ a + 1 <= sent + 1 /\ sent + 1 - (a + 1) <= Window /\ (a + 1) - 1 <= m
        /\ a + 1 <= a + 1 /\ a + 1 <= m + 1
    BY <1>4, <1>5
  <2>3. max' = Wire(m) /\ m <= sent
    BY <1>1, <1>3 DEF Means
  <2> QED BY <1>1, <2>1, <2>2, <2>3 DEF Means
<1>8. (stranded \/ Content(a + 1, m, a + 1))'
  <2>1. SUFFICES ASSUME ~stranded PROVE Content(a + 1, m, a + 1)'
    BY <1>1
  <2>2. Content(a, m, s)
    BY <1>3, <2>1
  <2>3. cache' = [cache EXCEPT ![SlotOf(a)] = EmptySlot] /\ cache[SlotOf(a)].pkt # None
        /\ Here.pkt = cache[SlotOf(a)].pkt
    BY <1>1, <1>3, <1>5 DEF Here
  <2>4. Here.pkt = a
    BY <1>2, <1>3, <1>5, <2>2, <2>3, FoundIsAwaited DEF Content
  <2>5. Cached(a + 1, m)' /\ Noted(a + 1, m)'
    BY <1>1, <1>2, <1>3, <1>5, <2>2, <2>3, Passes DEF Content
  <2>6. GoneOver(a + 1, a + 1)'
    BY <1>4 DEF GoneOver
  <2>7. TakenBehind(a + 1)'
    BY <1>1, <1>2, <1>4, <1>5, <2>2, <2>4, OneMoreTaken DEF Content
  <2>8. Building(a + 1)'
    BY <1>2, <1>5, <2>2, <2>4, MergeBuilds DEF Content
  <2> QED BY <2>5, <2>6, <2>7, <2>8 DEF Content
<1> QED BY <1>2, <1>6, <1>7, <1>8, GoesOn

\* The pass goes on to the next number, behind a packet missing or waiting.
LEMMA StepsOver ==
  ASSUME WindowFits, TypeOK, NEW a, NEW m, NEW s, Bounds(a, m, s), Means(a, m, s),
         pc = "find", s <= m, seq' = Wire(s + 1), isfull' = FALSE,
         UNCHANGED <<sent, cur, max, pc>>
  PROVE  Bounds(a, m, s + 1) /\ Means(a, m, s + 1)'
<1>1. /\ a \in Nat /\ m \in Nat /\ s \in Nat /\ sent \in Nat /\ sent <= LastPkt
      /\ m <= sent /\ a <= s
  BY InBounds
<1>2. FirstPkt \in Nat /\ LastPkt \in Nat
  BY Constants
<1>3. Bounds(a, m, s + 1)
  BY <1>1, <1>2 DEF Bounds
<1>4. a <= s + 1 /\ s + 1 <= m + 1
  BY <1>1
<1>5. Means(a, m, s + 1)'
  BY <1>4 DEF Means
<1> QED BY <1>3, <1>5

\* One more packet gone over, while what was there stays.
LEMMA OneMoreOver ==
  ASSUME NEW a \in Nat, NEW s \in Nat, a <= s, pc = "find", GoneOver(a, s),
         cache'[SlotOf(s)] # EmptySlot,
         \A x \in a..s-1 : cache[SlotOf(x)] # EmptySlot => cache'[SlotOf(x)] # EmptySlot
  PROVE  GoneOver(a, s + 1)'
<1>1. ASSUME NEW x \in a..(s+1)-1 PROVE cache'[SlotOf(x)] # EmptySlot
  <2>1. CASE x = s
    BY <2>1
  <2>2. CASE x # s
    <3>1. x \in a..s-1
      BY <1>1, <2>2
    <3> QED BY <3>1 DEF GoneOver
  <2> QED BY <2>1, <2>2
<1> QED BY <1>1 DEF GoneOver

LEMMA HoldStep ==
  ASSUME WindowFits, IInv, Hold
  PROVE  IInv'
<1>1. /\ InRange /\ ~isfull /\ Here.pkt # None /\ seq' = NextSeq /\ pc = "find" /\ TypeOK
      /\ UNCHANGED <<sent, cur, max, cache, big, pc, isfull, novalue, taken, frames, asked, stranded>>
  BY DEF Hold, InRange, history, IInv
<1>2. PICK a, m, s : /\ Bounds(a, m, s) /\ Means(a, m, s)
                     /\ stranded \/ Content(a, m, s)
                     /\ InRange <=> s <= m
                     /\ seq = Wire(s) /\ Slot(seq) = SlotOf(s)
                     /\ NextSeq = Wire(s + 1) /\ s + 1 \in Nat
                     /\ s <= m => s \in Packets /\ Meant(seq) = s
  BY <1>1, LooksAt
<1>3. a \in Nat /\ s \in Nat /\ a <= s /\ s <= m
  BY <1>1, <1>2, InBounds
<1>4. TypeOK'
  <2>1. seq' \in Seqs
    BY <1>1, <1>2, WireType
  <2> QED BY <1>1, <2>1 DEF TypeOK
<1>5. Bounds(a, m, s + 1) /\ Means(a, m, s + 1)'
  <2>1. isfull' = FALSE
    BY <1>1 DEF TypeOK
  <2> QED BY <1>1, <1>2, <1>3, <2>1, StepsOver
<1>6. (stranded \/ Content(a, m, s + 1))'
  <2>1. SUFFICES ASSUME ~stranded PROVE Content(a, m, s + 1)'
    BY <1>1
  <2>2. Content(a, m, s)
    BY <1>2, <2>1
  <2>3. GoneOver(a, s + 1)'
    <3>1. cache'[SlotOf(s)] # EmptySlot
      BY <1>1, <1>2 DEF Here, EmptySlot
    <3>2. \A x \in a..s-1 : cache[SlotOf(x)] # EmptySlot => cache'[SlotOf(x)] # EmptySlot
      BY <1>1
    <3>3. GoneOver(a, s)
      BY <2>2 DEF Content
    <3> QED BY <1>1, <1>3, <3>1, <3>2, <3>3, OneMoreOver
  <2>4. Cached(a, m)' /\ Noted(a, m)' /\ TakenBehind(a)' /\ Building(a)'
    BY <1>1, <2>2 DEF Content, Cached, Noted, TakenBehind, Building, Asked, Follow
  <2> QED BY <2>3, <2>4 DEF Content
<1> QED BY <1>4, <1>5, <1>6, GoesOn

\* What the three ways to deal with a packet that is missing share.
LEMMA MissingIs ==
  ASSUME IInv, Missing
  PROVE  /\ InRange /\ pc = "find" /\ TypeOK /\ Here.pkt = None
         /\ isfull' = FALSE /\ novalue' \in Nat /\ seq' = NextSeq
         /\ UNCHANGED <<sent, max, pc, taken, frames>>
BY DEF Missing, InRange, IInv, TypeOK

LEMMA WaitStep ==
  ASSUME WindowFits, IInv, Wait
  PROVE  IInv'
<1>1. /\ InRange /\ pc = "find" /\ TypeOK /\ Here.pkt = None
      /\ isfull' = FALSE /\ novalue' \in Nat /\ seq' = NextSeq
      /\ UNCHANGED <<sent, max, pc, taken, frames>>
  BY MissingIs DEF Wait
<1>2. PICK a, m, s : /\ Bounds(a, m, s) /\ Means(a, m, s)
                     /\ stranded \/ Content(a, m, s)
                     /\ InRange <=> s <= m
                     /\ seq = Wire(s) /\ Slot(seq) = SlotOf(s)
                     /\ NextSeq = Wire(s + 1) /\ s + 1 \in Nat
                     /\ s <= m => s \in Packets /\ Meant(seq) = s
  BY <1>1, LooksAt
<1>3. a \in Nat /\ s \in Nat /\ a <= s /\ s <= m
  BY <1>1, <1>2, InBounds
<1>4. /\ UNCHANGED <<cur, cache, big, asked, stranded>>
      /\ cache[SlotOf(s)].time \in 0..Expiry-1
  BY <1>2 DEF Wait, Pending
<1>5. TypeOK'
  <2>1. seq' \in Seqs
    BY <1>1, <1>2, WireType
  <2> QED BY <1>1, <1>4, <2>1 DEF TypeOK
<1>6. Bounds(a, m, s + 1) /\ Means(a, m, s + 1)'
  BY <1>1, <1>2, <1>3, <1>4, StepsOver
<1>7. (stranded \/ Content(a, m, s + 1))'
  <2>1. SUFFICES ASSUME ~stranded PROVE Content(a, m, s + 1)'
    BY <1>4
  <2>2. Content(a, m, s)
    BY <1>2, <2>1
  <2>3. GoneOver(a, s + 1)'
    <3>1. cache'[SlotOf(s)] # EmptySlot
      <4>1. cache[SlotOf(s)].time # None
        BY <1>4, Constants
      <4> QED BY <1>4, <4>1 DEF EmptySlot
    <3>2. \A x \in a..s-1 : cache[SlotOf(x)] # EmptySlot => cache'[SlotOf(x)] # EmptySlot
      BY <1>4
    <3>3. GoneOver(a, s)
      BY <2>2 DEF Content
    <3> QED BY <1>1, <1>3, <3>1, <3>2, <3>3, OneMoreOver
  <2>4. Cached(a, m)' /\ Noted(a, m)' /\ TakenBehind(a)' /\ Building(a)'
    BY <1>1, <1>4, <2>2 DEF Content, Cached, Noted, TakenBehind, Building, Asked, Follow
  <2> QED BY <2>3, <2>4 DEF Content
<1> QED BY <1>5, <1>6, <1>7, GoesOn

LEMMA StopStep ==
  ASSUME WindowFits, IInv, Stop
  PROVE  IInv'
<1>1. /\ pc = "find" /\ TypeOK /\ pc' = "idle" /\ seq' = 0 /\ isfull' = TRUE /\ novalue' = 0
      /\ UNCHANGED <<sent, cur, max, cache, big, taken, frames, asked, stranded>>
  BY DEF Stop, history, IInv
<1>2. PICK a, m, s : Bounds(a, m, s) /\ Means(a, m, s) /\ (stranded \/ Content(a, m, s))
  BY <1>1, LooksAt
<1>3. TypeOK'
  BY <1>1, Constants DEF TypeOK
<1>4. Means(a, m, s)'
  BY <1>1, <1>2 DEF Means
<1>5. (stranded \/ Content(a, m, s))'
  BY <1>1, <1>2 DEF Content, Cached, Noted, GoneOver, TakenBehind, Building, Asked, Follow
<1> QED BY <1>2, <1>3, <1>4, <1>5, GoesOn

\* A request for the packet s, which is not there and was not asked for.
LEMMA AskNotes ==
  ASSUME WindowFits, TypeOK, NEW a, NEW m, NEW s, Bounds(a, m, s), Means(a, m, s),
         pc = "find", s <= m, Content(a, m, s), cache[SlotOf(s)].pkt = None,
         cache' = [cache EXCEPT ![SlotOf(s)].time = 0], asked' = Append(asked, s)
  PROVE  Cached(a, m)' /\ Noted(a, m)' /\ GoneOver(a, s + 1)'
<1>1. a \in Nat /\ m \in Nat /\ s \in Nat /\ a <= s
  BY InBounds
<1>2. SlotOf(s) \in Slots /\ None = -1
  BY <1>1, SlotType, Constants
<1>3. /\ \A i \in Slots : cache'[i].pkt = cache[i].pkt
      /\ cache'[SlotOf(s)].time = 0
      /\ \A i \in Slots : i # SlotOf(s) => cache'[i] = cache[i]
  BY <1>2 DEF TypeOK
<1>4. Asked' = Asked \cup {s}
  <2>1. /\ asked \in Seq(Nat) /\ Len(asked) \in Nat /\ Len(asked') = Len(asked) + 1
        /\ asked'[Len(asked) + 1] = s /\ \A k \in 1..Len(asked) : asked'[k] = asked[k]
    BY <1>1 DEF TypeOK
  <2>2. ASSUME NEW x \in Asked' PROVE x \in Asked \cup {s}
    <3>1. PICK k \in 1..Len(asked') : x = asked'[k]
      BY <2>2 DEF Asked
    <3>2. CASE k = Len(asked) + 1
      BY <2>1, <3>1, <3>2
    <3>3. CASE k # Len(asked) + 1
      <4>1. k \in 1..Len(asked)
        BY <2>1, <3>1, <3>3
      <4> QED BY <2>1, <3>1, <4>1 DEF Asked
    <3> QED BY <3>2, <3>3
  <2>3. ASSUME NEW x \in Asked PROVE x \in Asked'
    <3>1. PICK k \in 1..Len(asked) : x = asked[k]
      BY <2>3 DEF Asked
    <3>2. k \in 1..Len(asked') /\ x = asked'[k]
      BY <2>1, <3>1
    <3> QED BY <3>2 DEF Asked
  <2>4. s \in Asked'
    <3>1. Len(asked) + 1 \in 1..Len(asked')
      BY <2>1
    <3> QED BY <2>1, <3>1 DEF Asked
  <2> QED BY <2>2, <2>3, <2>4
<1>5. Cached(a, m)'
  BY <1>3 DEF Content, Cached
<1>6. Noted(a, m)'
  <2>1. ASSUME NEW i \in Slots, cache'[i].time # None
        PROVE  \E x \in a..m : i = SlotOf(x) /\ x \in Asked'
    <3>1. CASE i = SlotOf(s)
      <4>1. s \in a..m
        BY <1>1
      <4> QED BY <1>4, <3>1, <4>1
    <3>2. CASE i # SlotOf(s)
      <4>1. cache[i].time # None
        BY <1>3, <2>1, <3>2
      <4>2. PICK x \in a..m : i = SlotOf(x) /\ x \in Asked
        BY <4>1 DEF Content, Noted
      <4> QED BY <1>4, <4>2
    <3> QED BY <3>1, <3>2
  <2>2. ASSUME NEW x \in Asked'
        PROVE  x <= m /\ (a <= x => cache'[SlotOf(x)].time # None)
    <3>1. CASE x = s
      BY <1>2, <1>3, <3>1
    <3>2. CASE x # s
      <4>1. x \in Asked
        BY <1>4, <3>2
      <4>2. x <= m /\ (a <= x => cache[SlotOf(x)].time # None)
        BY <4>1 DEF Content, Noted
      <4>3. CASE SlotOf(x) = SlotOf(s)
        BY <1>2, <1>3, <4>2, <4>3
      <4>4. CASE SlotOf(x) # SlotOf(s)
        <5>1. x \in Nat
          BY <4>1 DEF Asked, TypeOK
        <5>2. SlotOf(x) \in Slots
          BY <5>1, SlotType
        <5> QED BY <1>3, <4>2, <4>4, <5>2
      <4> QED BY <4>3, <4>4
    <3> QED BY <3>1, <3>2
  <2> QED BY <2>1, <2>2 DEF Noted
<1>7. GoneOver(a, s + 1)'
  <2>1. cache'[SlotOf(s)] # EmptySlot
    BY <1>2, <1>3 DEF EmptySlot
  <2>2. ASSUME NEW x \in a..s-1, cache[SlotOf(x)] # EmptySlot
        PROVE  cache'[SlotOf(x)] # EmptySlot
    <3>1. x \in Nat
      BY <1>1
    <3>2. SlotOf(x) \in Slots
      BY <3>1, SlotType
    <3> QED BY <1>3, <2>1, <2>2, <3>2
  <2>3. GoneOver(a, s)
    BY DEF Content
  <2> QED BY <1>1, <2>1, <2>2, <2>3, OneMoreOver
<1> QED BY <1>5, <1>6, <1>7

\* More requests: what was asked for stays so.
LEMMA BehindStays ==
  ASSUME NEW a, TakenBehind(a), taken' = taken, Asked \subseteq Asked'
  PROVE  TakenBehind(a)'
BY DEF TakenBehind

LEMMA ReSendStep ==
  ASSUME WindowFits, IInv, ReSend
  PROVE  IInv'
<1>1. /\ InRange /\ pc = "find" /\ TypeOK /\ Here.pkt = None
      /\ isfull' = FALSE /\ novalue' \in Nat /\ seq' = NextSeq
      /\ UNCHANGED <<sent, max, pc, taken, frames>>
  BY MissingIs DEF ReSend
<1>2. PICK a, m, s : /\ Bounds(a, m, s) /\ Means(a, m, s)
                     /\ stranded \/ Content(a, m, s)
                     /\ InRange <=> s <= m
                     /\ seq = Wire(s) /\ Slot(seq) = SlotOf(s)
                     /\ NextSeq = Wire(s + 1) /\ s + 1 \in Nat
                     /\ s <= m => s \in Packets /\ Meant(seq) = s
  BY <1>1, LooksAt
<1>3. a \in Nat /\ s \in Nat /\ a <= s /\ s <= m /\ SlotOf(s) \in Slots
  BY <1>1, <1>2, InBounds, SlotType
<1>4. /\ UNCHANGED <<cur, big, stranded>> /\ asked' = Append(asked, s)
      /\ cache' = [cache EXCEPT ![SlotOf(s)].time = 0]
      /\ cache[SlotOf(s)].pkt = None
  BY <1>1, <1>2, <1>3 DEF ReSend, Here
<1>5. TypeOK'
  <2>1. seq' \in Seqs
    BY <1>1, <1>2, WireType
  <2>2. cache' \in [Slots -> [pkt : Packets \cup {None}, time : -1..Expiry]]
    <3>1. 0 \in -1..Expiry
      BY Constants
    <3> QED BY <1>1, <1>3, <1>4, <3>1 DEF TypeOK
  <2>3. asked' \in Seq(Nat)
    BY <1>1, <1>3, <1>4 DEF TypeOK
  <2> QED BY <1>1, <1>4, <2>1, <2>2, <2>3 DEF TypeOK
<1>6. Bounds(a, m, s + 1) /\ Means(a, m, s + 1)'
  BY <1>1, <1>2, <1>3, <1>4, StepsOver
<1>7. (stranded \/ Content(a, m, s + 1))'
  <2>1. SUFFICES ASSUME ~stranded PROVE Content(a, m, s + 1)'
    BY <1>4
  <2>2. Content(a, m, s)
    BY <1>2, <2>1
  <2>3. Cached(a, m)' /\ Noted(a, m)' /\ GoneOver(a, s + 1)'
    BY <1>1, <1>2, <1>3, <1>4, <2>2, AskNotes
  <2>4. TakenBehind(a)'
    <3>1. Asked \subseteq Asked'
      <4>1. /\ asked \in Seq(Nat) /\ Len(asked) \in Nat /\ Len(asked') = Len(asked) + 1
            /\ \A k \in 1..Len(asked) : asked'[k] = asked[k]
        BY <1>1, <1>3, <1>4 DEF TypeOK
      <4>2. \A k \in 1..Len(asked) : k \in 1..Len(asked') /\ asked[k] = asked'[k]
        BY <4>1
      <4> QED BY <4>2 DEF Asked
    <3> QED BY <1>1, <2>2, <3>1, BehindStays DEF Content
  <2>5. Building(a)'
    BY <1>1, <1>4, <2>2 DEF Content, Building, Follow
  <2> QED BY <2>3, <2>4, <2>5 DEF Content
<1> QED BY <1>5, <1>6, <1>7, GoesOn

\* A number is given up with nothing left behind only where it is the one awaited.
LEMMA GivesUpAwaited ==
  ASSUME WindowFits, TypeOK, NEW a, NEW m, NEW s, Bounds(a, m, s), Means(a, m, s),
         pc = "find", s <= m, GoneOver(a, s),
         \A q \in PassedOver : cache[Slot(q)] = EmptySlot
  PROVE  s = a
<1>1. a \in Nat /\ m \in Nat /\ s \in Nat /\ a <= s /\ sent \in Nat /\ m <= sent
      /\ sent + 1 - a <= Window
  BY InBounds
<1>2. Window \in Nat /\ Half \in Nat /\ Window <= Half
  BY Constants
<1>3. cur = Wire(a) /\ seq = Wire(s)
  BY DEF Means
<1>4. SUFFICES ASSUME a < s PROVE FALSE
  BY <1>1
<1>5. uint16Sub(seq, Wire(a)) = s - a /\ uint16Sub(Wire(a), cur) = a - a
  <2>1. s - a <= Half /\ a - a <= Half /\ a <= a
    BY <1>1, <1>2
  <2> QED BY <1>1, <1>3, <2>1, Ahead
<1>6. Wire(a) \in Seqs
  BY <1>1, WireType
<1>7. Wire(a) \in PassedOver
  <2>1. s - a > 0 /\ a - a >= 0
    BY <1>1, <1>4
  <2> QED BY <1>5, <1>6, <2>1 DEF PassedOver
<1>8. cache[SlotOf(a)] = EmptySlot
  BY <1>7 DEF SlotOf
<1>9. a \in a..s-1
  BY <1>1, <1>4
<1> QED BY <1>8, <1>9 DEF GoneOver

LEMMA GiveUpStep ==
  ASSUME WindowFits, IInv, GiveUp
  PROVE  IInv'
<1>1. /\ InRange /\ pc = "find" /\ TypeOK /\ Here.pkt = None
      /\ isfull' = FALSE /\ novalue' \in Nat /\ seq' = NextSeq
      /\ UNCHANGED <<sent, max, pc, taken, frames>>
  BY MissingIs DEF GiveUp
<1>2. PICK a, m, s : /\ Bounds(a, m, s) /\ Means(a, m, s)
                     /\ stranded \/ Content(a, m, s)
                     /\ InRange <=> s <= m
                     /\ seq = Wire(s) /\ Slot(seq) = SlotOf(s)
                     /\ NextSeq = Wire(s + 1) /\ s + 1 \in Nat
                     /\ s <= m => s \in Packets /\ Meant(seq) = s
  BY <1>1, LooksAt
<1>3. /\ a \in Nat /\ m \in Nat /\ s \in Nat /\ sent \in Nat /\ a <= s /\ s <= m /\ m <= sent
      /\ sent + 1 - a <= Window /\ sent <= LastPkt /\ FirstPkt <= a
  BY <1>1, <1>2, InBounds
<1>4. SlotOf(s) \in Slots /\ FirstPkt \in Nat /\ LastPkt \in Nat /\ Window \in Nat
  BY <1>3, SlotType, Constants
<1>5. /\ cache' = [cache EXCEPT ![SlotOf(s)] = EmptySlot] /\ cur' = NextSeq
      /\ big' = <<>> /\ asked' = asked
      /\ stranded' = (stranded \/ \E q \in PassedOver : cache[Slot(q)] # EmptySlot)
      /\ cache[SlotOf(s)].time = Expiry
  BY <1>2 DEF GiveUp, Here
<1>6. TypeOK'
  <2>1. seq' \in Seqs /\ cur' \in Seqs
    BY <1>1, <1>2, <1>5, WireType
  <2>2. cache' \in [Slots -> [pkt : Packets \cup {None}, time : -1..Expiry]]
    BY <1>1, <1>4, <1>5, EmptiedType
  <2>3. stranded' \in BOOLEAN
    BY <1>1, <1>5 DEF TypeOK
  <2>4. big' = <<>> /\ <<>> \in Seq(Packets) /\ asked' = asked
    BY <1>5
  <2> QED BY <1>1, <2>1, <2>2, <2>3, <2>4 DEF TypeOK
<1>7. Bounds(s + 1, m, s + 1)
  BY <1>2, <1>3, <1>4 DEF Bounds
<1>8. Means(s + 1, m, s + 1)'
  <2>1. /\ s + 1 <= sent + 1 /\ sent + 1 - (s + 1) <= Window /\ (s + 1) - 1 <= m
        /\ s + 1 <= s + 1 /\ s + 1 <= m + 1
    BY <1>3, <1>4
  <2>2. max' = Wire(m) /\ m <= sent
    BY <1>1, <1>2 DEF Means
  <2> QED BY <1>1, <1>2, <1>5, <2>1, <2>2 DEF Means
<1>9. (stranded \/ Content(s + 1, m, s + 1))'
  <2>1. SUFFICES ASSUME ~stranded' PROVE Content(s + 1, m, s + 1)'
    OBVIOUS
  <2>2. Content(a, m, s) /\ \A q \in PassedOver : cache[Slot(q)] = EmptySlot
    BY <1>2, <1>5, <2>1
  <2>3. s = a
    BY <1>1, <1>2, <1>3, <2>2, GivesUpAwaited DEF Content
  <2>4. a \in Asked
    <3>1. cache[SlotOf(a)].time # None
      BY <1>5, <2>3, Constants
    <3>2. PICK x \in a..m : SlotOf(a) = SlotOf(x) /\ x \in Asked
      BY <1>4, <2>2, <2>3, <3>1 DEF Content, Noted
    <3>3. x \in a..sent /\ a \in a..sent /\ sent - a < Window
      BY <1>3, <1>4, <2>3
    <3>4. x = a
      BY <1>3, <3>2, <3>3, SameSlot
    <3> QED BY <3>2, <3>4
  <2>5. Cached(a + 1, m)' /\ Noted(a + 1, m)'
    BY <1>1, <1>2, <1>3, <1>5, <2>2, <2>3, Passes DEF Content
  <2>6. GoneOver(a + 1, a + 1)'
    BY <1>3 DEF GoneOver
  <2>7. TakenBehind(a + 1)'
    <3>1. Asked' = Asked
      BY <1>5 DEF Asked
    <3>2. TakenBehind(a) /\ taken \in Seq(Packets)
      BY <1>1, <2>2 DEF Content, TypeOK
    <3>3. \A i \in 1..Len(taken) : taken[i] < a + 1
      <4>1. \A i \in 1..Len(taken) : taken[i] \in Nat /\ taken[i] < a
        <5>1. \A i \in 1..Len(taken) : taken[i] \in Packets
          BY <3>2
        <5> QED BY <1>4, <3>2, <5>1 DEF TakenBehind, Packets
      <4> QED BY <1>3, <4>1
    <3>4. taken # <<>> => \A n \in taken[Len(taken)]+1..(a+1)-1 : n \in Asked
      <4>1. SUFFICES ASSUME taken # <<>>, NEW n \in taken[Len(taken)]+1..(a+1)-1, n # a
                     PROVE  n \in Asked
        BY <2>4
      <4>2. taken[Len(taken)] \in Nat
        <5>1. Len(taken) \in 1..Len(taken)
          BY <3>2, <4>1
        <5>2. taken[Len(taken)] \in Packets
          BY <3>2, <5>1
        <5> QED BY <1>4, <5>2 DEF Packets
      <4>3. n \in taken[Len(taken)]+1..a-1
        BY <1>3, <4>1, <4>2
      <4> QED BY <3>2, <4>1, <4>3 DEF TakenBehind
    <3> QED BY <1>1, <3>1, <3>2, <3>3, <3>4 DEF TakenBehind
  <2>8. Building(a + 1)'
    <3>1. Building(a)
      BY <2>2 DEF Content
    <3> QED BY <1>1, <1>5, <3>1 DEF Building, Follow
  <2> QED BY <2>3, <2>5, <2>6, <2>7, <2>8 DEF Content
<1> QED BY <1>6, <1>7, <1>8, <1>9, GoesOn

LEMMA KeepsInv ==
  ASSUME WindowFits, IInv, [Next]_vars
  PROVE  IInv'
<1>1. CASE Send
  BY <1>1, SendStep
<1>2. CASE Tick
  BY <1>2, TickStep
<1>3. CASE \E n \in Packets : threadPOOLRecv(n)
  BY <1>3, FirstStep, RecvStep
<1>4. CASE MergeAlone \/ MergeBegin \/ MergeMiddle \/ MergeEnd \/ MergeDrop
  BY <1>4, MergeStep DEF Merge
<1>5. CASE Hold
  BY <1>5, HoldStep
<1>6. CASE ReSend
  BY <1>6, ReSendStep
<1>7. CASE Wait
  BY <1>7, WaitStep
<1>8. CASE GiveUp
  BY <1>8, GiveUpStep
<1>9. CASE Stop
  BY <1>9, StopStep
<1>10. CASE UNCHANGED vars
  <2>1. UNCHANGED <<sent, cur, max, cache, big, pc, seq, isfull, novalue, taken, frames, asked, stranded>>
    BY <1>10 DEF vars, pass, history
  <2>2. TypeOK' <=> TypeOK
    BY <2>1 DEF TypeOK
  <2>3. Fresh' <=> Fresh
    BY <2>1 DEF Fresh
  <2>4. Runs' <=> Runs
    BY <2>1 DEF Runs, Means, Content, Cached, Noted, GoneOver, TakenBehind, Building, Asked, Follow
  <2> QED BY <2>1, <2>2, <2>3, <2>4 DEF IInv
<1> QED BY <1>1, <1>2, <1>3, <1>4, <1>5, <1>6, <1>7, <1>8, <1>9, <1>10 DEF Next, FindUseful

-----------------------------------------------------------------------------
(* The theorems                                                            *)

\* Whatever is lost, late or repeated, the numbers the receiver keeps mean the
\* packets awaited, highest and looked at, and the cache, the requests and what
\* was joined agree with them.
THEOREM ReceiverInvariant ==
  ASSUME WindowFits
  PROVE  Spec => []IInv
<1>1. Init => IInv
  BY InitInv
<1>2. IInv /\ [Next]_vars => IInv'
  BY KeepsInv
<1> QED BY <1>1, <1>2, PTL DEF Spec

\* In a stream that has begun and left nothing behind, the content is as meant.
LEMMA HasContent ==
  ASSUME WindowFits, IInv, ~stranded, cur # NoSeq
  PROVE  \E a, m, s : Bounds(a, m, s) /\ Means(a, m, s) /\ Content(a, m, s)
BY DEF IInv, Runs, Bounds

\* MergeData takes the packets in the order sent and none twice.
THEOREM ReceiverTakenInOrder ==
  ASSUME WindowFits
  PROVE  Spec => []TakenInOrder
<1>1. IInv => TakenInOrder
  <2> SUFFICES ASSUME IInv, ~stranded PROVE \A i \in 1..Len(taken)-1 : taken[i] < taken[i+1]
    BY DEF TakenInOrder
  <2>1. CASE cur = NoSeq
    BY <2>1 DEF IInv, Fresh
  <2>2. CASE cur # NoSeq
    BY <2>2, HasContent DEF Content, TakenBehind
  <2> QED BY <2>1, <2>2
<1> QED BY <1>1, ReceiverInvariant, PTL

\* What waits in the cache is in the slot of its number, within reach of a pass,
\* and the receiver awaits nothing that the peer may not send next.
THEOREM ReceiverCacheWindow ==
  ASSUME WindowFits
  PROVE  Spec => []CacheWindow
<1>1. IInv => TypeOK
  BY DEF IInv
<1>2. ASSUME IInv, cur # NoSeq, NEW a, NEW m, NEW s, Bounds(a, m, s), Means(a, m, s)
      PROVE  /\ a \in Nat /\ m \in Nat /\ sent \in Nat /\ sent + 1 \in Nat /\ a <= sent + 1
             /\ (sent + 1) - a <= Half /\ m <= sent /\ Half \in Nat
             /\ cur = Wire(a) /\ max = Wire(m)
  <2>1. /\ a \in Nat /\ m \in Nat /\ sent \in Nat /\ a <= sent + 1 /\ sent + 1 - a <= Window
        /\ m <= sent
    BY <1>1, <1>2, InBounds
  <2>2. Window \in Nat /\ Half \in Nat /\ Window <= Half
    BY Constants
  <2> QED BY <1>2, <2>1, <2>2 DEF Means
<1>3. IInv => NeverAheadOfPeer
  <2> SUFFICES ASSUME IInv, cur # NoSeq PROVE uint16Sub(Wire(sent + 1), cur) >= 0
    BY DEF NeverAheadOfPeer
  <2>1. PICK a, m, s : Bounds(a, m, s) /\ Means(a, m, s)
    BY DEF IInv, Runs, Bounds
  <2>2. /\ a \in Nat /\ sent + 1 \in Nat /\ a <= sent + 1 /\ (sent + 1) - a <= Half
        /\ cur = Wire(a)
    BY <1>2, <2>1
  <2>3. uint16Sub(Wire(sent + 1), cur) = (sent + 1) - a
    BY <2>2, Ahead
  <2>4. (sent + 1) - a >= 0
    BY <2>2
  <2> QED BY <2>3, <2>4
<1>4. ASSUME IInv, ~stranded, NEW i \in Slots, cache[i].pkt # None
      PROVE  LET q == Wire(cache[i].pkt)
             IN  Slot(q) = i /\ uint16Sub(q, cur) >= 0 /\ uint16Sub(max, q) >= 0
  <2>1. cur # NoSeq
    BY <1>4 DEF IInv, Fresh, EmptySlot
  <2>2. PICK a, m, s : Bounds(a, m, s) /\ Means(a, m, s) /\ Content(a, m, s)
    BY <1>4, <2>1, HasContent
  <2>3. /\ a \in Nat /\ m \in Nat /\ sent \in Nat /\ sent + 1 \in Nat /\ a <= sent + 1
        /\ (sent + 1) - a <= Half /\ m <= sent /\ Half \in Nat
        /\ cur = Wire(a) /\ max = Wire(m)
    BY <1>2, <1>4, <2>1, <2>2
  <2> DEFINE p == cache[i].pkt
  <2>4. a <= p /\ p <= m /\ i = SlotOf(p)
    BY <1>4, <2>2 DEF Content, Cached
  <2>5. p \in Nat
    <3>1. p \in Packets
      BY <1>4 DEF IInv, TypeOK
    <3> QED BY <3>1, Constants DEF Packets
  <2> HIDE DEF p
  <2>6. p - a <= Half /\ m - p <= Half /\ p - a >= 0 /\ m - p >= 0
    BY <2>3, <2>4, <2>5
  <2>7. uint16Sub(Wire(p), cur) = p - a /\ uint16Sub(max, Wire(p)) = m - p
    BY <2>3, <2>4, <2>5, <2>6, Ahead
  <2>8. Slot(Wire(p)) = i /\ uint16Sub(Wire(p), cur) >= 0 /\ uint16Sub(max, Wire(p)) >= 0
    BY <2>4, <2>6, <2>7 DEF SlotOf
  <2> QED BY <2>8 DEF p
<1>5. IInv => CacheWindow
  BY <1>1, <1>3, <1>4 DEF CacheWindow
<1> QED BY <1>5, ReceiverInvariant, PTL

\* A frame handed on is consecutive packets of one frame up to its last.
THEOREM ReceiverFrameUnbroken ==
  ASSUME WindowFits
  PROVE  Spec => []FrameUnbroken
<1>1. IInv => FrameUnbroken
  <2> SUFFICES ASSUME IInv, ~stranded, NEW k \in 1..Len(frames)
               PROVE  Follow(frames[k]) /\ TailOf[frames[k][Len(frames[k])]] \in {Alone, End}
    BY DEF FrameUnbroken, Follow
  <2>1. CASE cur = NoSeq
    BY <2>1 DEF IInv, Fresh
  <2>2. CASE cur # NoSeq
    BY <2>2, HasContent DEF Content, Building
  <2> QED BY <2>1, <2>2
<1> QED BY <1>1, ReceiverInvariant, PTL

\* Whatever was passed over had been asked for.
THEOREM ReceiverPassedOnlyIfAsked ==
  ASSUME WindowFits
  PROVE  Spec => []PassedOnlyIfAsked
<1>1. IInv => PassedOnlyIfAsked
  <2> SUFFICES ASSUME IInv, ~stranded, NEW i \in 1..Len(taken)-1,
                      NEW n \in taken[i]+1..taken[i+1]-1
               PROVE  \E k \in 1..Len(asked) : asked[k] = n
    BY DEF PassedOnlyIfAsked
  <2>1. CASE cur = NoSeq
    BY <2>1 DEF IInv, Fresh
  <2>2. CASE cur # NoSeq
    <3>1. n \in Asked
      BY <2>2, HasContent DEF Content, TakenBehind
    <3> QED BY <3>1 DEF Asked
  <2> QED BY <2>1, <2>2
<1> QED BY <1>1, ReceiverInvariant, PTL

\* Only a packet that is neither taken nor in the cache is asked for, and no
\* packet twice.
THEOREM ReceiverAsksOnce ==
  ASSUME WindowFits
  PROVE  Spec => AskedOnceIfMissing
<1>1. IInv /\ [Next]_vars =>
        [~stranded /\ Len(asked') > Len(asked) =>
           LET n == asked'[Len(asked')]
           IN  /\ \A k \in 1..Len(asked) : asked[k] # n
               /\ \A k \in 1..Len(taken) : taken[k] # n
               /\ \A i \in Slots : cache[i].pkt # n]_vars
  <2> SUFFICES ASSUME IInv, Next, ~stranded, Len(asked') > Len(asked)
               PROVE  LET n == asked'[Len(asked')]
                      IN  /\ \A k \in 1..Len(asked) : asked[k] # n
                          /\ \A k \in 1..Len(taken) : taken[k] # n
                          /\ \A i \in Slots : cache[i].pkt # n
    OBVIOUS
  <2>0. asked \in Seq(Nat) /\ Len(asked) \in Nat /\ TypeOK
    BY DEF IInv, TypeOK
  <2>1. ReSend
    <3>1. asked' # asked
      BY <2>0
    <3> QED BY <3>1 DEF Next, Send, Tick, threadPOOLRecv, FindUseful, MergeAlone, MergeBegin,
               MergeMiddle, MergeEnd, MergeDrop, Take, Hold, Wait, GiveUp, Stop, history
  <2>2. pc = "find" /\ InRange
    BY <2>1 DEF ReSend, Missing, InRange
  <2>3. PICK a, m, s : /\ Bounds(a, m, s) /\ Means(a, m, s)
                       /\ stranded \/ Content(a, m, s)
                       /\ InRange <=> s <= m
                       /\ seq = Wire(s) /\ Slot(seq) = SlotOf(s)
                       /\ NextSeq = Wire(s + 1) /\ s + 1 \in Nat
                       /\ s <= m => s \in Packets /\ Meant(seq) = s
    BY <2>2, LooksAt
  <2>4. s \in Nat /\ a \in Nat /\ a <= s /\ s <= m /\ Content(a, m, s)
    BY <2>0, <2>2, <2>3, InBounds
  <2>5. /\ asked' = Append(asked, s)
        /\ cache[SlotOf(s)].pkt = None /\ cache[SlotOf(s)].time = None
    BY <2>1, <2>3, <2>4 DEF ReSend, Missing, Here
  <2>6. asked'[Len(asked')] = s
    BY <2>0, <2>4, <2>5
  <2>7. \A k \in 1..Len(asked) : asked[k] # s
    <3>1. s \notin Asked
      BY <2>4, <2>5 DEF Content, Noted
    <3> QED BY <3>1 DEF Asked
  <2>8. \A k \in 1..Len(taken) : taken[k] # s
    <3>1. \A k \in 1..Len(taken) : taken[k] \in Nat /\ taken[k] < a
      <4>1. \A k \in 1..Len(taken) : taken[k] \in Packets
        BY <2>0 DEF TypeOK
      <4>2. \A k \in 1..Len(taken) : taken[k] < a
        BY <2>4 DEF Content, TakenBehind
      <4>3. \A p \in Packets : p \in Nat
        BY Constants DEF Packets
      <4> QED BY <4>1, <4>2, <4>3
    <3> QED BY <2>4, <3>1
  <2>9. ASSUME NEW i \in Slots, cache[i].pkt = s PROVE FALSE
    <3>1. s # None
      BY <2>4, Constants
    <3>2. i = SlotOf(s)
      BY <2>4, <2>9, <3>1 DEF Content, Cached
    <3> QED BY <2>5, <2>9, <3>1, <3>2
  <2> QED BY <2>6, <2>7, <2>8, <2>9
<1> QED BY <1>1, ReceiverInvariant, PTL DEF Spec, AskedOnceIfMissing
=============================================================================
