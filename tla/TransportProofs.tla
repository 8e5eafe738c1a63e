--------------------------- MODULE TransportProofs ---------------------------
(***************************************************************************)
(* The two transports, for any instance.                                   *)
(*                                                                         *)
(* TcpRecv: tcpRecvmsg, for any frames of the peer, any lengths of the     *)
(* heads, any ring that holds what is looked at (TcpAssumption) and any    *)
(* pieces the stream comes in: the frames handed on are the peer's, no     *)
(* byte is lost on the way, and nothing stays in the socket unannounced.   *)
(*                                                                         *)
(* Retransmit: a stream over UDP from end to end, for any frames, any      *)
(* cache and any number of faults, as long as its numbers do not wrap      *)
(* (Short): the types, what may be passed over, what may stay in the       *)
(* cache, whose timestamp a frame carries, and that the stream is a        *)
(* MediaStream.                                                            *)
(***************************************************************************)
EXTENDS TcpRecv, Retransmit, DataProofs, SequenceTheorems

-----------------------------------------------------------------------------
(* TcpRecv                                                                 *)

\* What a function on the positions must satisfy to be Before, up to the n-th.
BeforeUpTo(g, n) ==
  g = [f \in 1..n+1 |-> IF f = 1 THEN 0 ELSE g[f-1] + HG_TCP_PACKET_HEAD_SIZE + Body[f-1]]

\* Before is what its definition says: the recursion has a solution.
LEMMA BeforeDef ==
  /\ Before \in [1..Len(Body)+1 -> Nat]
  /\ Before[1] = 0
  /\ \A f \in Frames : Before[f+1] = Before[f] + HG_TCP_PACKET_HEAD_SIZE + Body[f]
<1>a. /\ Len(Body) \in Nat /\ HG_TCP_PACKET_HEAD_SIZE \in Nat
      /\ \A f \in 1..Len(Body) : Body[f] \in Nat
  BY TcpAssumption
<1> DEFINE N == Len(Body)
           U == {n \in Nat : n <= N => \E g \in [1..n+1 -> Nat] : BeforeUpTo(g, n)}
<1>1. 0 \in U
  <2> DEFINE g == [f \in 1..0+1 |-> 0]
  <2>1. g \in [1..0+1 -> Nat] /\ BeforeUpTo(g, 0)
    BY DEF BeforeUpTo
  <2> QED BY <2>1
<1>2. ASSUME NEW n \in U PROVE n + 1 \in U
  <2>1. SUFFICES ASSUME n + 1 <= N
                 PROVE  \E g \in [1..(n+1)+1 -> Nat] : BeforeUpTo(g, n+1)
    OBVIOUS
  <2>2. n \in Nat /\ n <= N
    BY <1>a, <2>1
  <2>3. PICK g \in [1..n+1 -> Nat] : BeforeUpTo(g, n)
    BY <2>2
  <2> DEFINE h == [f \in 1..(n+1)+1 |->
                     IF f = n+2 THEN g[n+1] + HG_TCP_PACKET_HEAD_SIZE + Body[n+1] ELSE g[f]]
  <2>4. h \in [1..(n+1)+1 -> Nat]
    BY <1>a, <2>1, <2>2
  <2>5. \A f \in 1..(n+1)+1 :
          h[f] = IF f = 1 THEN 0 ELSE h[f-1] + HG_TCP_PACKET_HEAD_SIZE + Body[f-1]
    <3>1. \A f \in 1..n+1 :
            g[f] = IF f = 1 THEN 0 ELSE g[f-1] + HG_TCP_PACKET_HEAD_SIZE + Body[f-1]
      BY <2>3 DEF BeforeUpTo
    <3> QED BY <2>2, <3>1
  <2>6. BeforeUpTo(h, n+1)
    BY <2>4, <2>5 DEF BeforeUpTo
  <2> QED BY <2>4, <2>6
<1>3. N \in U
  <2>1. U = Nat
    <3> HIDE DEF U
    <3>1. U \in SUBSET Nat
      BY DEF U
    <3> QED BY <1>1, <1>2, <3>1, AllNumbers
  <2> QED BY <1>a, <2>1
<1>4. PICK g \in [1..N+1 -> Nat] : BeforeUpTo(g, N)
  BY <1>a, <1>3
<1>5. BeforeUpTo(Before, N)
  BY <1>4, Zenon DEF Before, BeforeUpTo
<1>6. \A f \in 1..N+1 :
         Before[f] = IF f = 1 THEN 0 ELSE Before[f-1] + HG_TCP_PACKET_HEAD_SIZE + Body[f-1]
  BY <1>5 DEF BeforeUpTo
<1>7. Before[1] = 0
  BY <1>6, <1>a
<1>8. \A f \in Frames : Before[f+1] = Before[f] + HG_TCP_PACKET_HEAD_SIZE + Body[f]
  BY <1>6, <1>a DEF Frames
<1>9. \A f \in 1..N+1 : Before[f] \in Nat
  <2> DEFINE T == {n \in Nat : n+1 \in 1..N+1 => Before[n+1] \in Nat}
  <2>1. 0 \in T
    BY <1>7
  <2>2. ASSUME NEW n \in T PROVE n + 1 \in T
    BY <1>a, <1>8 DEF Frames
  <2>3. T = Nat
    <3> HIDE DEF T
    <3>1. T \in SUBSET Nat
      BY DEF T
    <3> QED BY <2>1, <2>2, <3>1, AllNumbers
  <2> QED
    <3>1. ASSUME NEW f \in 1..N+1 PROVE Before[f] \in Nat
      <4>1. f - 1 \in Nat /\ (f - 1) + 1 = f
        BY <1>a
      <4> HIDE DEF T
      <4>2. f - 1 \in T
        BY <2>3, <4>1
      <4> QED BY <4>1, <4>2 DEF T
    <3> QED BY <3>1
<1>10. Before = [f \in 1..N+1 |-> Before[f]]
  BY <1>5 DEF BeforeUpTo
<1> QED BY <1>7, <1>8, <1>9, <1>10

\* The numbers that the proofs compute with.
LEMMA Numbers ==
  /\ Len(Body) \in Nat /\ HG_TCP_PACKET_HEAD_SIZE \in Nat \ {0}
  /\ HG_RTP_PACKET_HEAD_SIZE \in Nat /\ HG_MAX_FRAME_LEN \in Nat
  /\ Cap \in Nat \ {0} /\ Peeked \in Nat /\ Peeked <= Cap /\ HG_TCP_PACKET_HEAD_SIZE <= Peeked
  /\ Total \in Nat
  /\ \A f \in 1..Len(Body) : Body[f] \in Nat
  /\ \A f \in 1..Len(Body)+1 : Before[f] \in Nat
  /\ \A f \in 1..Len(Body) : Before[f+1] = Before[f] + HG_TCP_PACKET_HEAD_SIZE + Body[f]
<1>1. /\ Len(Body) \in Nat /\ \A f \in 1..Len(Body) : Body[f] \in Nat
      /\ HG_TCP_PACKET_HEAD_SIZE \in Nat \ {0} /\ HG_RTP_PACKET_HEAD_SIZE \in Nat
      /\ HG_MAX_FRAME_LEN \in Nat /\ Cap \in Nat /\ Peeked <= Cap
  BY TcpAssumption
<1>2. \A f \in 1..Len(Body)+1 : Before[f] \in Nat
  BY BeforeDef
<1>3. \A f \in 1..Len(Body) : Before[f+1] = Before[f] + HG_TCP_PACKET_HEAD_SIZE + Body[f]
  BY BeforeDef DEF Frames
<1>4. Total \in Nat
  BY <1>1, <1>2 DEF Total
<1> QED BY <1>1, <1>2, <1>3, <1>4 DEF Peeked

\* Of these, the ones that say nothing of a single frame.
LEMMA Sizes ==
  /\ Len(Body) \in Nat /\ HG_TCP_PACKET_HEAD_SIZE \in Nat \ {0}
  /\ HG_RTP_PACKET_HEAD_SIZE \in Nat /\ HG_MAX_FRAME_LEN \in Nat
  /\ Cap \in Nat \ {0} /\ Peeked \in Nat /\ Peeked <= Cap /\ HG_TCP_PACKET_HEAD_SIZE <= Peeked
  /\ Total \in Nat
BY Numbers

\* Frames lie one behind the other in the stream.
LEMMA BeforeGrows ==
  ASSUME NEW f \in 1..Len(Body), NEW g \in 1..Len(Body)+1, f < g
  PROVE  Before[f] + HG_TCP_PACKET_HEAD_SIZE + Body[f] <= Before[g]
<1> DEFINE after == Before[f] + HG_TCP_PACKET_HEAD_SIZE + Body[f]
           U == {n \in Nat : f + n + 1 <= Len(Body) + 1 => after <= Before[f+n+1]}
<1>1. 0 \in U
  <2>1. f + 0 + 1 = f + 1
    BY Numbers
  <2> QED BY <2>1, Numbers
<1>2. ASSUME NEW n \in U PROVE n + 1 \in U
  <2>1. SUFFICES ASSUME f + (n+1) + 1 <= Len(Body) + 1 PROVE after <= Before[f+(n+1)+1]
    OBVIOUS
  <2>2. f + n + 1 \in 1..Len(Body) /\ after <= Before[f+n+1]
    BY Numbers, <2>1
  <2>3. Before[f+n+1] \in Nat /\ Body[f+n+1] \in Nat
    BY <2>2, Numbers
  <2>4. Before[(f+n+1)+1] = Before[f+n+1] + HG_TCP_PACKET_HEAD_SIZE + Body[f+n+1]
    BY <2>2, Numbers
  <2>5. (f+n+1)+1 = f+(n+1)+1
    BY Numbers
  <2>6. after \in Nat
    BY Numbers
  <2> HIDE DEF after
  <2>7. after <= Before[(f+n+1)+1]
    BY <2>2, <2>3, <2>4, <2>6, Sizes
  <2> QED BY <2>5, <2>7, Zenon
<1>3. U = Nat
  <2> HIDE DEF U
  <2>1. U \in SUBSET Nat
    BY DEF U
  <2> QED BY <1>1, <1>2, <2>1, AllNumbers
<1>4. g - f - 1 \in Nat /\ f + (g-f-1) + 1 = g
  BY Numbers
<1>5. g - f - 1 \in U
  <2> HIDE DEF U
  <2> QED BY <1>3, <1>4
<1> QED BY <1>4, <1>5, Numbers

\* No two frames begin at the same position.
LEMMA BeforeInjective ==
  ASSUME NEW f \in 1..Len(Body), NEW g \in 1..Len(Body), Before[f] = Before[g]
  PROVE  f = g
<1>1. ASSUME NEW h \in 1..Len(Body), NEW k \in 1..Len(Body), h < k PROVE Before[h] # Before[k]
  <2>1. k \in 1..Len(Body)+1 /\ h \in 1..Len(Body)+1
    BY Sizes
  <2>2. Before[h] + HG_TCP_PACKET_HEAD_SIZE + Body[h] <= Before[k]
    BY <1>1, <2>1, BeforeGrows
  <2>3. Before[h] \in Nat /\ Before[k] \in Nat /\ Body[h] \in Nat
    BY <2>1, Numbers, Zenon
  <2> QED BY <2>2, <2>3, Sizes
<1> QED BY <1>1, Sizes

\* The bytes of a head say the length of its frame and of no other.
LEMMA LengthsOfHead ==
  ASSUME NEW f \in 1..Len(Body), NEW bytes,
         bytes = [i \in 1..HG_TCP_PACKET_HEAD_SIZE |-> Before[f] + i]
  PROVE  Lengths(bytes) = {Body[f]}
<1>1. ASSUME NEW g \in Frames, bytes = [i \in 1..HG_TCP_PACKET_HEAD_SIZE |-> Before[g] + i]
      PROVE  g = f
  <2>1. 1 \in 1..HG_TCP_PACKET_HEAD_SIZE
    BY Numbers
  <2>2. bytes[1] = Before[g] + 1 /\ bytes[1] = Before[f] + 1
    BY <1>1, <2>1
  <2>3. Before[f] = Before[g]
    <3>1. Before[f] \in Nat /\ Before[g] \in Nat
      BY Numbers DEF Frames
    <3> QED BY <2>2, <3>1
  <2> QED BY <2>3, BeforeInjective DEF Frames
<1>2. {g \in Frames : bytes = [i \in 1..HG_TCP_PACKET_HEAD_SIZE |-> Before[g] + i]} = {f}
  BY <1>1 DEF Frames
<1> QED BY <1>2 DEF Lengths

-----------------------------------------------------------------------------
(* The invariant.                                                          *)

\* A ring whose head was forgotten may be counted over its size.
RingRecord ==
  [data : [0..Cap-1 -> 0..Total], start : 0..Cap-1, end : 0..Cap-1, len : Nat, cap : {Cap}]

\* As long as no frame is forgotten, a refused length notwithstanding, the ring
\* holds the bytes last read from the socket.
RingHolds ==
  ~Forgotten =>
    /\ tcpbuf.len <= Cap /\ Shape(tcpbuf) /\ tcpbuf.len <= received
    /\ \A i \in 1..tcpbuf.len : Unread(tcpbuf, i) = received - tcpbuf.len + i

\* The socket is asked only when there is room behind the unread bytes: a turn
\* takes something out of the ring or finds less in it than a head.
NeverFull == pc # "parse" /\ ~Forgotten => tcpbuf.len < Cap

\* A frame is never without need of a byte.
RestLeft == hashead /\ ~Forgotten => framerest >= 1

\* What is under way follows what was handed on.
Aligned ==
  ~refused /\ ~Forgotten =>
    /\ received = Taken + tcpbuf.len
    /\ hashead =>
         /\ Len(handed) < Len(Body)
         /\ framerest + Len(frame) = Body[Len(handed)+1]
         /\ \A i \in 1..Len(frame) :
              frame[i] = Before[Len(handed)+1] + HG_TCP_PACKET_HEAD_SIZE + i

\* A call ends, or is about to, only with the socket empty or an event to come.
Drained ==
  pc = "idle" \/ (pc = "parse" /\ ~filled) =>
    event \/ refused \/ received = arrived

IInv ==
  /\ TypeOK /\ tcpbuf \in RingRecord
  /\ RingHolds /\ NeverFull /\ RestLeft /\ Aligned /\ FramesExact /\ Drained

-----------------------------------------------------------------------------
(* What the two operations of the reader do to the ring.                   *)

\* Bytes read from the socket go behind the unread ones, and over none as long
\* as the ring is not full.
LEMMA RecvN ==
  ASSUME NEW r \in RingRecord, NEW n \in Nat, n <= Room(r),
         received \in Nat, received + n <= Total
  PROVE  /\ Received(r, n) \in RingRecord
         /\ Received(r, n).len = r.len + n
         /\ r.len < Cap /\ Shape(r) =>
              /\ r.len + n <= Cap
              /\ Shape(Received(r, n))
              /\ \A i \in 1..r.len : Unread(Received(r, n), i) = Unread(r, i)
              /\ \A i \in 1..n : Unread(Received(r, n), r.len + i) = received + i
<1>1. PICK data \in [0..Cap-1 -> 0..Total], start \in 0..Cap-1, end \in 0..Cap-1, len \in Nat :
        r = RingOf(data, start, end, len, Cap)
  BY DEF RingRecord, RingOf
<1>2. /\ r.data = data /\ r.start = start /\ r.end = end /\ r.len = len /\ r.cap = Cap
      /\ DOMAIN data = 0..Cap-1
  BY <1>1 DEF RingOf
<1>3. Cap \in Nat \ {0} /\ Total \in Nat
  BY Numbers
<1>4. end + n <= Cap
  BY <1>2, <1>3 DEF Room
<1> DEFINE d == [j \in 0..Cap-1 |->
                   IF j \in end .. end + n - 1 THEN received + j - end + 1 ELSE data[j]]
           w == Received(r, n)
<1>5. /\ d \in [0..Cap-1 -> 0..Total]
      /\ \A j \in 0..Cap-1 :
           d[j] = IF end <= j /\ j < end + n THEN received + j - end + 1 ELSE data[j]
  BY <1>3, <1>4
<1>6. w = RingOf(d, start, Wrap(end + n, Cap), len + n, Cap)
  <2>1. [j \in DOMAIN r.data |->
           IF j \in r.end .. r.end + n - 1 THEN received + j - r.end + 1 ELSE r.data[j]] = d
    BY <1>2
  <2> HIDE DEF d
  <2>2. w = [r EXCEPT !.data = d, !.end = Wrap(r.end + n, r.cap), !.len = r.len + n]
    BY <2>1, Zenon DEF Received
  <2> QED BY <1>1, <1>2, <2>2 DEF RingOf
<1> HIDE DEF d, w
<1>7. Wrap(end + n, Cap) \in 0..Cap-1
  BY <1>3, <1>4 DEF Wrap
<1>8. w \in RingRecord /\ w.len = len + n
  BY <1>5, <1>6, <1>7 DEF RingRecord, RingOf
<1>9. ASSUME len < Cap, Shape(r)
      PROVE  /\ len + n <= Cap
             /\ Shape(w)
             /\ \A i \in 1..len : Unread(w, i) = Unread(r, i)
             /\ \A i \in 1..n : Unread(w, len + i) = received + i
  <2>1. end = Wrap(start + len, Cap)
    BY <1>2, <1>9 DEF Shape
  <2>2. len + n <= Cap
    BY <1>2, <1>3, <1>9, <2>1 DEF Room, Wrap
  <2>3. Shape(w)
    <3>1. Wrap(end + n, Cap) = Wrap(start + (len + n), Cap)
      BY <1>3, <1>4, <1>9, <2>1, <2>2 DEF Wrap
    <3> QED BY <1>6, <3>1 DEF Shape, RingOf
  <2>4. ASSUME NEW i \in 1..len PROVE Unread(w, i) = Unread(r, i)
    <3>a. Wrap(start + i - 1, Cap) \in 0..Cap-1
      BY <1>3, <1>9 DEF Wrap
    <3>1. PICK j \in 0..Cap-1 : j = Wrap(start + i - 1, Cap)
      BY <3>a
    <3>2. ~(end <= j /\ j < end + n)
      BY <1>3, <1>4, <1>9, <2>1, <2>2, <3>1 DEF Wrap
    <3>3. d[j] = data[j]
      BY <1>5, <3>2
    <3> QED BY <1>2, <1>6, <3>1, <3>3 DEF Unread, RingOf
  <2>5. ASSUME NEW i \in 1..n PROVE Unread(w, len + i) = received + i
    <3>1. Wrap(start + (len + i) - 1, Cap) = end + i - 1
      BY <1>3, <1>4, <1>9, <2>1, <2>2 DEF Wrap
    <3>2. end + i - 1 \in 0..Cap-1 /\ end + i - 1 < end + n /\ end <= end + i - 1
      BY <1>3, <1>4
    <3>3. d[end + i - 1] = received + i
      BY <1>5, <3>2
    <3> QED BY <1>6, <3>1, <3>3 DEF Unread, RingOf
  <2> QED BY <2>2, <2>3, <2>4, <2>5
<1> QED BY <1>2, <1>8, <1>9 DEF w

\* Taking n bytes out leaves those behind them.
LEMMA TakeN ==
  ASSUME NEW r \in RingRecord, r.len <= Cap, Shape(r), NEW n \in Nat, n <= r.len
  PROVE  /\ AfterRead(r, n) \in RingRecord
         /\ Shape(AfterRead(r, n))
         /\ AfterRead(r, n).len = r.len - n
         /\ \A i \in 1..(r.len - n) : Unread(AfterRead(r, n), i) = Unread(r, n + i)
<1>1. /\ r.data \in [0..Cap-1 -> 0..Total] /\ r.start \in 0..Cap-1 /\ r.end \in 0..Cap-1
      /\ r.len \in Nat /\ r.cap = Cap /\ Cap \in Nat \ {0}
      /\ r = [data |-> r.data, start |-> r.start, end |-> r.end, len |-> r.len, cap |-> r.cap]
  BY Numbers DEF RingRecord
<1>2. CASE r.len = 0
  <2>1. AfterRead(r, n) = r
    BY <1>1, <1>2 DEF AfterRead, Wrap
  <2> QED BY <1>1, <1>2, <2>1
<1>3. CASE r.len # 0
  <2>1. r \in Ring(0..Total, Cap)
    BY <1>1 DEF Ring
  <2>2. CanRead(r, n)
    BY <1>3 DEF CanRead
  <2>3. /\ AfterRead(r, n) \in Ring(0..Total, Cap)
        /\ Shape(AfterRead(r, n))
        /\ AfterRead(r, n).len = r.len - n
        /\ \A i \in 1..(r.len - n) : Unread(AfterRead(r, n), i) = Unread(r, n + i)
    BY <1>1, <2>1, <2>2, ReadN
  <2>4. AfterRead(r, n) \in RingRecord
    BY <2>3 DEF Ring, RingRecord
  <2> QED BY <2>3, <2>4
<1> QED BY <1>2, <1>3, <1>1

-----------------------------------------------------------------------------
(* The invariant holds at first and is kept by every step.                 *)

\* What the types say of the variables, number by number.
LEMMA Types ==
  ASSUME IInv
  PROVE  /\ arrived \in Nat /\ arrived <= Total /\ received \in Nat /\ received <= arrived
         /\ tcpbuf \in RingRecord /\ tcpbuf.len \in Nat /\ tcpbuf.cap = Cap
         /\ framerest \in Nat /\ Len(frame) \in Nat /\ Len(handed) \in Nat
         /\ frame \in Seq(1..Total) /\ handed \in Seq(Seq(1..Total))
<1>1. TypeOK /\ tcpbuf \in RingRecord
  BY DEF IInv
<1>2. tcpbuf.len \in Nat /\ tcpbuf.cap = Cap
  BY <1>1 DEF RingRecord
<1>3. frame \in Seq(1..Total) /\ handed \in Seq(Seq(1..Total))
  BY <1>1 DEF TypeOK
<1>4. Len(frame) \in Nat /\ Len(handed) \in Nat
  BY <1>3, LenProperties
<1> QED BY <1>1, <1>2, <1>3, <1>4, Numbers DEF TypeOK

\* Of these, the numbers.
LEMMA Counts ==
  ASSUME IInv
  PROVE  /\ arrived \in Nat /\ arrived <= Total /\ received \in Nat /\ received <= arrived
         /\ tcpbuf.len \in Nat /\ framerest \in Nat /\ Len(frame) \in Nat /\ Len(handed) \in Nat
BY Types

\* What was taken out of the ring is a number of bytes.
LEMMA TakenType ==
  ASSUME IInv, ~refused
  PROVE  Taken \in Nat
<1>1. Len(handed)+1 \in 1..Len(Body)+1
  BY Types, Numbers DEF IInv, FramesExact
<1>2. Before[Len(handed)+1] \in Nat
  BY <1>1, Numbers
<1> QED BY <1>2, Types, Numbers DEF Taken

\* The types of a ring are those of its record.
LEMMA RingTypes ==
  ASSUME NEW r \in RingRecord
  PROVE  /\ r.data \in [0..Cap-1 -> 0..Total] /\ r.cap = Cap
         /\ r.start \in 0..Cap-1 /\ r.end \in 0..Cap-1 /\ r.len \in Nat
BY DEF RingRecord

\* A call that was never made: the ring is empty and nothing has come.
LEMMA InitHolds == Init => IInv
<1> SUFFICES ASSUME Init PROVE IInv
  OBVIOUS
<1>1. Cap \in Nat \ {0} /\ Total \in Nat /\ Len(Body) \in Nat /\ HG_MAX_FRAME_LEN \in Nat
      /\ Before[1] = 0
  BY Numbers, BeforeDef
<1>2. tcpbuf \in RingRecord /\ Shape(tcpbuf) /\ tcpbuf.len = 0
  BY <1>1 DEF Init, NewRing, RingRecord, Shape, Wrap
<1>3. TypeOK
  <2>1. <<>> \in Seq(1..Total) /\ <<>> \in Seq(Seq(1..Total))
    OBVIOUS
  <2>2. /\ tcpbuf.data \in [0..Cap-1 -> 0..Total] /\ tcpbuf.cap = Cap
        /\ tcpbuf.start \in 0..Cap-1 /\ tcpbuf.end \in 0..Cap-1 /\ tcpbuf.len \in Nat
    BY <1>2, RingTypes
  <2>3. arrived \in 0..Total /\ received \in 0..arrived /\ framerest \in 0..HG_MAX_FRAME_LEN
    BY <1>1 DEF Init
  <2>4. frame \in Seq(1..Total) /\ handed \in Seq(Seq(1..Total))
    BY <2>1 DEF Init
  <2> QED BY <2>2, <2>3, <2>4 DEF Init, TypeOK
<1>4. RingHolds /\ NeverFull /\ RestLeft
  BY <1>1, <1>2 DEF Init, RingHolds, NeverFull, RestLeft
<1>5. Aligned
  BY <1>1, <1>2 DEF Init, Aligned, Taken
<1>6. FramesExact /\ Drained
  BY <1>1 DEF Init, FramesExact, Drained
<1> QED BY <1>2, <1>3, <1>4, <1>5, <1>6 DEF IInv

\* Steps that leave the stream as it is: a frame is forgotten if and only if it
\* was, and ring and frame do not change.
LEMMA StreamKept ==
  ASSUME IInv, TypeOK', Drained', NeverFull',
         Forgotten' <=> Forgotten,
         UNCHANGED <<received, tcpbuf, hashead, handed, refused>>,
         ~Forgotten => UNCHANGED <<framerest, frame>> \/ ~hashead
  PROVE  IInv'
<1>1. (tcpbuf \in RingRecord)'
  BY DEF IInv
<1>2. RingHolds'
  BY DEF IInv, RingHolds, Unread, Wrap, Shape
<1>3. RestLeft'
  BY DEF IInv, RestLeft
<1>4. Aligned'
  BY DEF IInv, Aligned, Taken
<1>5. FramesExact'
  BY DEF IInv, FramesExact, BodyOf
<1> QED BY <1>1, <1>2, <1>3, <1>4, <1>5 DEF IInv

\* More bytes in the socket touch nothing that was read.
LEMMA ArriveStep == ASSUME IInv, Arrive PROVE IInv'
<1>1. TypeOK'
  <2>1. arrived' \in 0..Total /\ received' \in 0..arrived'
    BY Counts, Sizes DEF Arrive
  <2> QED BY <2>1 DEF IInv, TypeOK, Arrive, local
<1>2. Drained' /\ NeverFull' /\ (Forgotten' <=> Forgotten)
  BY DEF IInv, Drained, NeverFull, Forgotten, Arrive, local
<1> QED BY <1>1, <1>2, StreamKept DEF Arrive, local

\* A call begins without a frame: one that was begun earlier stays forgotten.
LEMMA CallStep == ASSUME IInv, Call PROVE IInv'
<1>1. TypeOK'
  <2>1. <<>> \in Seq(1..Total) /\ 0 \in 0..HG_MAX_FRAME_LEN
    BY Numbers
  <2> QED BY <2>1 DEF IInv, TypeOK, Call
<1>2. Drained' /\ NeverFull' /\ (Forgotten' <=> Forgotten)
  BY DEF IInv, Drained, NeverFull, Forgotten, Call
<1> QED BY <1>1, <1>2, StreamKept DEF Call, Forgotten

\* Less than a head is in the ring, so there is room in it.
LEMMA NoHeadStep == ASSUME IInv, NoHead PROVE IInv'
<1>1. TypeOK'
  BY DEF IInv, TypeOK, NoHead, local
<1>2. Forgotten' <=> Forgotten
  BY DEF Forgotten, NoHead, local
<1>3. tcpbuf.len < Cap
  BY Types, Numbers DEF NoHead, HeadThere, CanRead
<1>4. Drained' /\ NeverFull'
  BY <1>3 DEF Drained, NeverFull, NoHead
<1> QED BY <1>1, <1>2, <1>4, StreamKept DEF NoHead, local

\* With a frame forgotten the reader goes on and takes nothing out.
LEMMA NoFrameStep == ASSUME IInv, NoFrame PROVE IInv'
<1>1. TypeOK'
  BY DEF IInv, TypeOK, NoFrame, Again, local
<1>2. Forgotten /\ Forgotten'
  BY DEF Forgotten, NoFrame, local
<1>3. Drained' /\ NeverFull'
  BY <1>2 DEF IInv, Drained, NeverFull, NoFrame, Again, local
<1> QED BY <1>1, <1>2, <1>3, StreamKept DEF NoFrame, local

\* The invariant when the frame was, or is now, forgotten.
LEMMA ForgottenKept ==
  ASSUME IInv, TypeOK', (tcpbuf \in RingRecord)', Drained', Forgotten',
         UNCHANGED <<handed, refused>>
  PROVE  IInv'
<1>1. RingHolds' /\ NeverFull' /\ RestLeft' /\ Aligned'
  BY DEF RingHolds, NeverFull, RestLeft, Aligned
<1>2. FramesExact'
  BY DEF IInv, FramesExact, BodyOf
<1> QED BY <1>1, <1>2 DEF IInv

\* The end of a call with the socket empty; a frame under construction is lost.
LEMMA NothingToReadStep == ASSUME IInv, NothingToRead PROVE IInv'
<1>1. TypeOK'
  BY DEF IInv, TypeOK, NothingToRead, local
<1>2. Drained'
  BY Types DEF Drained, NothingToRead, InSocket
<1>3. CASE hashead
  BY <1>1, <1>2, <1>3, ForgottenKept DEF IInv, Forgotten, NothingToRead
<1>4. CASE ~hashead
  <2>1. NeverFull' /\ (Forgotten' <=> Forgotten)
    BY <1>4 DEF IInv, NeverFull, Forgotten, NothingToRead
  <2> QED BY <1>1, <1>2, <1>4, <2>1, StreamKept DEF NothingToRead, local
<1> QED BY <1>3, <1>4

\* What is read goes behind what is unread; a room not filled leaves no rest.
LEMMA RecvStep == ASSUME IInv, Recv PROVE IInv'
<1>1. PICK n \in Nat :
        /\ n <= Room(tcpbuf) /\ n <= InSocket
        /\ n # Room(tcpbuf) => n = InSocket
        /\ tcpbuf' = Received(tcpbuf, n)
        /\ received' = received + n
        /\ filled' = (n = Room(tcpbuf))
  <2>1. Room(tcpbuf) \in Nat
    <3>1. PICK r \in RingRecord : r = tcpbuf
      BY Types
    <3>2. r.start \in 0..Cap-1 /\ r.end \in 0..Cap-1 /\ r.cap = Cap
      BY <3>1, RingTypes
    <3> QED BY <3>1, <3>2, Sizes DEF Room
  <2>2. InSocket \in Nat
    BY Types DEF InSocket
  <2> QED BY <2>1, <2>2 DEF Recv
<1>2. received + n <= arrived
  BY <1>1, Types DEF InSocket
<1>3. /\ tcpbuf' \in RingRecord /\ tcpbuf'.len = tcpbuf.len + n
      /\ tcpbuf.len < Cap /\ Shape(tcpbuf) =>
              /\ tcpbuf.len + n <= Cap
              /\ Shape(tcpbuf')
              /\ \A i \in 1..tcpbuf.len : Unread(tcpbuf', i) = Unread(tcpbuf, i)
              /\ \A i \in 1..n : Unread(tcpbuf', tcpbuf.len + i) = received + i
  <2>1. PICK r \in RingRecord : r = tcpbuf /\ n <= Room(r)
    BY <1>1, Types
  <2>2. received \in Nat /\ received + n <= Total
    BY <1>1, <1>2, Counts, Sizes
  <2>3. /\ Received(r, n) \in RingRecord /\ Received(r, n).len = r.len + n
        /\ r.len < Cap /\ Shape(r) =>
              /\ r.len + n <= Cap
              /\ Shape(Received(r, n))
              /\ \A i \in 1..r.len : Unread(Received(r, n), i) = Unread(r, i)
              /\ \A i \in 1..n : Unread(Received(r, n), r.len + i) = received + i
    BY <2>1, <2>2, RecvN
  <2> QED BY <1>1, <2>1, <2>3, Zenon
<1>4. TypeOK'
  <2>1. received' \in 0..arrived' /\ filled' \in BOOLEAN
    BY <1>1, <1>2, Types DEF Recv
  <2>2. /\ tcpbuf'.data \in [0..Cap-1 -> 0..Total] /\ tcpbuf'.cap = Cap
        /\ tcpbuf'.start \in 0..Cap-1 /\ tcpbuf'.end \in 0..Cap-1 /\ tcpbuf'.len \in Nat
    BY <1>3, RingTypes
  <2> QED BY <2>1, <2>2 DEF IInv, TypeOK, Recv
<1>5. Drained'
  <2>1. CASE filled'
    BY <2>1 DEF Drained, Recv
  <2>2. CASE ~filled'
    <3>1. n = arrived - received
      BY <1>1, <2>2, Zenon DEF InSocket
    <3>2. received' = arrived
      BY <1>1, <3>1, Types
    <3> QED BY <3>2 DEF Drained, Recv
  <2> QED BY <2>1, <2>2
<1>6. CASE Forgotten
  BY <1>3, <1>4, <1>5, <1>6, ForgottenKept DEF Forgotten, Recv
<1>7. CASE ~Forgotten
  <2>1. ~Forgotten' /\ tcpbuf.len < Cap
    BY <1>7 DEF IInv, NeverFull, Forgotten, Recv
  <2>2. RingHolds'
    <3>1. Shape(tcpbuf) /\ tcpbuf.len <= received
          /\ \A i \in 1..tcpbuf.len : Unread(tcpbuf, i) = received - tcpbuf.len + i
      BY <1>7 DEF IInv, RingHolds
    <3>2. tcpbuf'.len <= Cap /\ Shape(tcpbuf') /\ tcpbuf'.len <= received'
      BY <1>1, <1>3, <2>1, <3>1, Types
    <3>3. ASSUME NEW i \in 1..tcpbuf'.len
          PROVE  Unread(tcpbuf', i) = received' - tcpbuf'.len + i
      <4>1. received' - tcpbuf'.len + i = received - tcpbuf.len + i
        BY <1>1, <1>3, <3>1, Types
      <4>2. CASE i \in 1..tcpbuf.len
        <5>1. Unread(tcpbuf', i) = Unread(tcpbuf, i)
          BY <1>3, <2>1, <3>1, <4>2
        <5>2. Unread(tcpbuf, i) = received - tcpbuf.len + i
          BY <3>1, <4>2
        <5> QED BY <4>1, <5>1, <5>2, Zenon
      <4>3. CASE i \notin 1..tcpbuf.len
        <5>1. i - tcpbuf.len \in 1..n /\ tcpbuf.len + (i - tcpbuf.len) = i
          BY <1>3, <4>3, Types
        <5>2. Unread(tcpbuf', tcpbuf.len + (i - tcpbuf.len)) = received + (i - tcpbuf.len)
          BY <1>3, <2>1, <3>1, <5>1
        <5>3. received + (i - tcpbuf.len) = received - tcpbuf.len + i
          BY <1>3, Counts
        <5> QED BY <4>1, <5>1, <5>2, <5>3, Zenon
      <4> QED BY <4>2, <4>3
    <3> QED BY <3>2, <3>3 DEF RingHolds, Unread, Shape
  <2>3. NeverFull' /\ RestLeft'
    BY <1>7, <2>1 DEF IInv, NeverFull, RestLeft, Recv
  <2>4. Aligned'
    <3>1. CASE refused
      BY <3>1 DEF Aligned, Recv
    <3>2. CASE ~refused
      <4>1. received = Taken + tcpbuf.len /\ Taken' = Taken
        BY <1>7, <3>2 DEF IInv, Aligned, Taken, Recv
      <4>2. received' = Taken' + tcpbuf'.len
        <5> DEFINE t == Taken
        <5>1. received = t + tcpbuf.len /\ Taken' = t
          BY <4>1
        <5>2. t \in Int
          BY <3>2, TakenType
        <5> HIDE DEF t
        <5> QED BY <5>1, <5>2, <1>1, <1>3, Types
      <4> QED BY <1>7, <3>2, <4>2 DEF IInv, Aligned, Recv
    <3> QED BY <3>1, <3>2
  <2>5. FramesExact'
    BY DEF IInv, FramesExact, BodyOf, Recv
  <2> QED BY <1>3, <1>4, <1>5, <2>2, <2>3, <2>4, <2>5 DEF IInv
<1> QED BY <1>6, <1>7

\* Taking n bytes out of the ring: what is left, and what was taken.
LEMMA TakeBytes ==
  ASSUME IInv, ~Forgotten, NEW n \in Nat, n <= tcpbuf.len
  PROVE  /\ AfterRead(tcpbuf, n) \in RingRecord
         /\ Shape(AfterRead(tcpbuf, n))
         /\ AfterRead(tcpbuf, n).len = tcpbuf.len - n
         /\ \A i \in 1..(tcpbuf.len - n) :
              Unread(AfterRead(tcpbuf, n), i) = received - (tcpbuf.len - n) + i
         /\ ReadBytes(tcpbuf, n) \in Seq(1..Total)
         /\ Len(ReadBytes(tcpbuf, n)) = n
         /\ \A i \in 1..n : ReadBytes(tcpbuf, n)[i] = received - tcpbuf.len + i
<1>1. /\ tcpbuf.len <= Cap /\ Shape(tcpbuf) /\ tcpbuf.len <= received
      /\ \A i \in 1..tcpbuf.len : Unread(tcpbuf, i) = received - tcpbuf.len + i
  BY DEF IInv, RingHolds
<1>2. /\ AfterRead(tcpbuf, n) \in RingRecord
      /\ Shape(AfterRead(tcpbuf, n))
      /\ AfterRead(tcpbuf, n).len = tcpbuf.len - n
      /\ \A i \in 1..(tcpbuf.len - n) : Unread(AfterRead(tcpbuf, n), i) = Unread(tcpbuf, n + i)
  BY <1>1, Types, TakeN
<1>3. ASSUME NEW i \in 1..(tcpbuf.len - n)
      PROVE  Unread(tcpbuf, n + i) = received - (tcpbuf.len - n) + i
  <2>1. n + i \in 1..tcpbuf.len /\ received - tcpbuf.len + (n + i) = received - (tcpbuf.len - n) + i
    BY Types
  <2> QED BY <1>1, <2>1
<1>4. \A i \in 1..n : ReadBytes(tcpbuf, n)[i] = received - tcpbuf.len + i
  BY <1>1, Types DEF ReadBytes
<1>5. ReadBytes(tcpbuf, n) \in [1..n -> 1..Total]
  <2>1. \A i \in 1..n : received - tcpbuf.len + i \in 1..Total
    <3>1. PICK l \in Nat, v \in Nat, t \in Nat :
            l = tcpbuf.len /\ v = received /\ t = Total /\ n <= l /\ l <= v /\ v <= t
      BY <1>1, Counts, Sizes
    <3>2. \A i \in 1..n : v - l + i \in 1..t
      BY <3>1
    <3> QED BY <3>1, <3>2, Zenon
  <2>2. \A i \in 1..n : ReadBytes(tcpbuf, n)[i] \in 1..Total
    BY <1>4, <2>1
  <2> QED BY <2>2 DEF ReadBytes
<1>6. ReadBytes(tcpbuf, n) \in Seq(1..Total) /\ Len(ReadBytes(tcpbuf, n)) = n
  <2> DEFINE bytes == ReadBytes(tcpbuf, n)
             U == 1..Total
  <2>1. bytes \in [1..n -> U]
    BY <1>5
  <2> HIDE DEF bytes, U
  <2>2. bytes \in Seq(U) /\ Len(bytes) = n
    BY <2>1
  <2> QED BY <2>2 DEF bytes, U
<1> QED BY <1>2, <1>3, <1>4, <1>6

\* The same as a step: the part of the invariant that is about the ring.
LEMMA TakeStep ==
  ASSUME IInv, ~Forgotten, NEW n \in Nat, n <= tcpbuf.len,
         tcpbuf' = AfterRead(tcpbuf, n), received' = received, arrived' = arrived
  PROVE  /\ (tcpbuf \in RingRecord)' /\ RingHolds' /\ tcpbuf'.len = tcpbuf.len - n
         /\ tcpbuf'.data \in [0..Cap-1 -> 0..Total] /\ tcpbuf'.cap = Cap
         /\ tcpbuf'.start \in 0..Cap-1 /\ tcpbuf'.end \in 0..Cap-1 /\ tcpbuf'.len \in Nat
<1>1. /\ tcpbuf' \in RingRecord
      /\ Shape(tcpbuf')
      /\ tcpbuf'.len = tcpbuf.len - n
      /\ \A i \in 1..(tcpbuf.len - n) : Unread(tcpbuf', i) = received - (tcpbuf.len - n) + i
  BY TakeBytes
<1>2. tcpbuf.len <= Cap /\ tcpbuf.len <= received
  BY DEF IInv, RingHolds
<1>3. RingHolds'
  BY <1>1, <1>2, Types, Numbers DEF RingHolds, Unread, Shape
<1> QED BY <1>1, <1>3, RingTypes

\* Only the head is taken; from here on nothing is claimed of the frames.
LEMMA RefuseStep == ASSUME IInv, Refuse PROVE IInv'
<1>1. ~Forgotten /\ ~Forgotten'
  BY DEF Refuse, Forgotten
<1>2. HG_TCP_PACKET_HEAD_SIZE \in Nat /\ HG_TCP_PACKET_HEAD_SIZE <= tcpbuf.len
  BY Types, Numbers DEF Refuse, HeadThere, CanRead
<1>3. /\ (tcpbuf \in RingRecord)' /\ RingHolds' /\ tcpbuf'.len = tcpbuf.len - HG_TCP_PACKET_HEAD_SIZE
      /\ tcpbuf'.data \in [0..Cap-1 -> 0..Total] /\ tcpbuf'.cap = Cap
      /\ tcpbuf'.start \in 0..Cap-1 /\ tcpbuf'.end \in 0..Cap-1 /\ tcpbuf'.len \in Nat
  BY <1>1, <1>2, TakeStep DEF Refuse
<1>4. TypeOK'
  BY <1>3 DEF IInv, TypeOK, Refuse, local
<1>5. NeverFull'
  <2>1. tcpbuf.len <= Cap
    BY <1>1 DEF IInv, RingHolds
  <2>2. tcpbuf.len \in Nat /\ Cap \in Nat /\ HG_TCP_PACKET_HEAD_SIZE \in Nat \ {0}
    BY Types, Numbers
  <2>3. tcpbuf'.len < Cap
    BY <1>3, <2>1, <2>2
  <2> QED BY <2>3 DEF NeverFull
<1>6. RestLeft' /\ Aligned' /\ FramesExact' /\ Drained'
  BY DEF RestLeft, Aligned, FramesExact, Drained, Refuse
<1> QED BY <1>3, <1>4, <1>5, <1>6 DEF IInv

\* The head taken is that of the next frame, so the length is its length.
LEMMA BeginFrameStep == ASSUME IInv, BeginFrame PROVE IInv'
<1>1. ~Forgotten /\ ~Forgotten'
  BY DEF BeginFrame, Forgotten
<1>2. /\ HG_TCP_PACKET_HEAD_SIZE \in Nat /\ HG_TCP_PACKET_HEAD_SIZE <= tcpbuf.len
      /\ Peeked <= tcpbuf.len /\ tcpbuf.len # 0
  BY Types, Numbers DEF BeginFrame, HeadThere, CanRead
<1>3. /\ (tcpbuf \in RingRecord)' /\ RingHolds' /\ tcpbuf'.len = tcpbuf.len - HG_TCP_PACKET_HEAD_SIZE
      /\ tcpbuf'.data \in [0..Cap-1 -> 0..Total] /\ tcpbuf'.cap = Cap
      /\ tcpbuf'.start \in 0..Cap-1 /\ tcpbuf'.end \in 0..Cap-1 /\ tcpbuf'.len \in Nat
  BY <1>1, <1>2, TakeStep DEF BeginFrame, Skip
<1>4. PICK size \in Lengths(HeadBytes) : InBounds(size) /\ framerest' = size
  BY DEF BeginFrame
<1>5. size \in Nat /\ size >= 1
  <2>1. Lengths(HeadBytes) \subseteq Nat
    <3>1. \A f \in Frames : Body[f] \in Nat
      BY Numbers DEF Frames
    <3> QED BY <3>1 DEF Lengths
  <2> QED BY <1>4, <2>1 DEF InBounds
<1>6. TypeOK'
  <2>1. framerest' \in 0..HG_MAX_FRAME_LEN /\ <<>> \in Seq(1..Total)
    BY <1>4, <1>5, Numbers DEF InBounds
  <2> QED BY <1>3, <2>1 DEF IInv, TypeOK, BeginFrame
<1>7. NeverFull' /\ RestLeft'
  BY <1>4, <1>5 DEF NeverFull, RestLeft, BeginFrame
<1>8. ASSUME ~refused PROVE Aligned'
  <2> DEFINE k == Len(handed) + 1
  <2>1. received = Before[k] + tcpbuf.len /\ k \in 1..Len(Body)+1
    <3>1. received = Before[k] + 0 + tcpbuf.len
      BY <1>1, <1>8 DEF IInv, Aligned, Taken, BeginFrame
    <3>2. k \in 1..Len(Body)+1
      BY <1>8, Types, Numbers DEF IInv, FramesExact
    <3>3. Before[k] \in Nat
      BY <3>2, Numbers
    <3> QED BY <3>1, <3>2, <3>3
  <2>2. Before[k] \in Nat
    BY <2>1, Numbers
  <2>3. k \in 1..Len(Body)
    <3>1. k # Len(Body) + 1
      BY <1>2, <2>1, <2>2, Types, Numbers DEF Total
    <3> QED BY <2>1, <3>1, Numbers
  <2>4. HeadBytes = [i \in 1..HG_TCP_PACKET_HEAD_SIZE |-> Before[k] + i]
    <3>1. \A i \in 1..HG_TCP_PACKET_HEAD_SIZE : HeadBytes[i] = Before[k] + i
      <4>1. received - tcpbuf.len = Before[k]
        BY <2>1, <2>2, Types
      <4> QED BY <1>1, <1>2, <4>1, TakeBytes DEF HeadBytes
    <3> QED BY <3>1 DEF HeadBytes, ReadBytes
  <2>5. size = Body[k]
    BY <1>4, <2>3, <2>4, LengthsOfHead
  <2>6. /\ Len(handed') = Len(handed) /\ Len(frame') = 0 /\ hashead' = TRUE
        /\ received' = received /\ framerest' = Body[k] /\ refused' = refused
    BY <1>4, <2>5 DEF BeginFrame
  <2>7. Taken' = Before[k] + HG_TCP_PACKET_HEAD_SIZE
    BY <2>2, <2>6, Numbers DEF Taken
  <2>8. received' = Taken' + tcpbuf'.len
    <3> DEFINE before == Before[k]
    <3>1. before \in Nat /\ received = before + tcpbuf.len
          /\ Taken' = before + HG_TCP_PACKET_HEAD_SIZE
      BY <2>1, <2>2, <2>7
    <3> HIDE DEF before
    <3> QED BY <1>2, <1>3, <2>6, <3>1, Types
  <2>9. Len(handed') < Len(Body) /\ framerest' + Len(frame') = Body[Len(handed')+1]
    BY <2>3, <2>6, Types, Numbers
  <2> QED BY <2>6, <2>8, <2>9 DEF Aligned
<1>9. Aligned'
  BY <1>8 DEF Aligned, BeginFrame
<1>10. FramesExact' /\ Drained'
  BY DEF IInv, FramesExact, BodyOf, Drained, BeginFrame
<1> QED BY <1>3, <1>6, <1>7, <1>9, <1>10 DEF IInv

\* The frame under construction and the bytes put behind it, in the stream.
LEMMA FrameGrows ==
  ASSUME IInv, hashead, open, pc # "idle", NEW n \in Nat, n <= tcpbuf.len
  PROVE  LET new == frame \o ReadBytes(tcpbuf, n)
         IN  /\ new \in Seq(1..Total) /\ Len(new) = Len(frame) + n
             /\ ~refused =>
                  \A i \in 1..Len(new) :
                    new[i] = Before[Len(handed)+1] + HG_TCP_PACKET_HEAD_SIZE + i
<1> DEFINE bytes == ReadBytes(tcpbuf, n)
           new == frame \o bytes
<1>1. ~Forgotten
  BY DEF Forgotten
<1>2. bytes \in Seq(1..Total) /\ Len(bytes) = n
      /\ \A i \in 1..n : bytes[i] = received - tcpbuf.len + i
  BY <1>1, TakeBytes
<1> HIDE DEF bytes
<1>3. frame \in Seq(1..Total)
  BY Types
<1>4. /\ new \in Seq(1..Total) /\ Len(new) = Len(frame) + n
      /\ \A i \in 1..Len(frame) + n :
           new[i] = IF i <= Len(frame) THEN frame[i] ELSE bytes[i - Len(frame)]
  BY <1>2, <1>3, ConcatProperties
<1> HIDE DEF new
<1>5. ASSUME ~refused, NEW i \in 1..Len(new)
      PROVE  new[i] = Before[Len(handed)+1] + HG_TCP_PACKET_HEAD_SIZE + i
  <2>0. Before[Len(handed)+1] \in Nat
    <3>1. Len(handed) < Len(Body)
      BY <1>1, <1>5 DEF IInv, Aligned
    <3>2. Len(handed) \in Nat /\ Len(Body) \in Nat
      BY Types, Numbers
    <3>3. Len(handed) + 1 \in 1..Len(Body)+1
      BY <3>1, <3>2
    <3> QED BY <3>3, Numbers, Zenon
  <2>1. PICK at \in Nat : at = Before[Len(handed)+1] + HG_TCP_PACKET_HEAD_SIZE
    <3>1. HG_TCP_PACKET_HEAD_SIZE \in Nat
      BY Numbers
    <3> QED BY <2>0, <3>1
  <2>2. \A j \in 1..Len(frame) : frame[j] = at + j
    BY <1>1, <1>5, <2>1 DEF IInv, Aligned
  <2>3. received = at + Len(frame) + tcpbuf.len
    <3>1. Taken = at + Len(frame)
      <4>1. Taken = Before[Len(handed)+1] + (HG_TCP_PACKET_HEAD_SIZE + Len(frame))
        BY DEF Taken
      <4>2. HG_TCP_PACKET_HEAD_SIZE \in Nat /\ Len(frame) \in Nat
        BY Types, Numbers
      <4>3. \A b \in Nat : b + (HG_TCP_PACKET_HEAD_SIZE + Len(frame))
                              = b + HG_TCP_PACKET_HEAD_SIZE + Len(frame)
        BY <4>2
      <4>4. Taken = Before[Len(handed)+1] + HG_TCP_PACKET_HEAD_SIZE + Len(frame)
        BY <2>0, <4>1, <4>3, Zenon
      <4> QED BY <2>1, <4>4, Zenon
    <3> QED BY <1>1, <1>5, <3>1 DEF IInv, Aligned
  <2>4. CASE i <= Len(frame)
    <3>1. i \in 1..Len(frame) /\ new[i] = frame[i]
      BY <1>4, <2>4, Types
    <3>2. new[i] = at + i
      BY <2>2, <3>1
    <3> QED BY <2>1, <3>2
  <2>5. CASE i > Len(frame)
    <3>1. i - Len(frame) \in 1..n
      BY <1>4, <2>5, Types
    <3>2. bytes[i - Len(frame)] = received - tcpbuf.len + (i - Len(frame))
      BY <1>2, <3>1
    <3>3. received - tcpbuf.len + (i - Len(frame)) = at + i
      <4>1. i \in Nat
        BY <1>4
      <4>2. PICK v \in Nat, l \in Nat, m \in Nat :
              v = received /\ l = tcpbuf.len /\ m = Len(frame) /\ v = at + m + l
        BY <2>3, Counts
      <4>3. v - l + (i - m) = at + i
        BY <4>1, <4>2
      <4> QED BY <4>2, <4>3, Zenon
    <3>4. new[i] = bytes[i - Len(frame)]
      BY <1>4, <2>5, Types
    <3>5. new[i] = at + i
      BY <3>2, <3>3, <3>4
    <3> QED BY <2>1, <3>5
  <2> QED BY <1>4, <2>4, <2>5, Types
<1> QED BY <1>4, <1>5 DEF new, bytes

\* The ring is emptied into the frame, which still lacks some.
LEMMA FillFrameStep == ASSUME IInv, FillFrame PROVE IInv'
<1> DEFINE n == tcpbuf.len
<1>1. /\ ~Forgotten /\ hashead /\ open /\ pc # "idle"
      /\ n \in Nat /\ n < framerest /\ n <= tcpbuf.len
  BY Types DEF FillFrame, Forgotten
<1>2. /\ (tcpbuf \in RingRecord)' /\ RingHolds' /\ tcpbuf'.len = 0
      /\ tcpbuf'.data \in [0..Cap-1 -> 0..Total] /\ tcpbuf'.cap = Cap
      /\ tcpbuf'.start \in 0..Cap-1 /\ tcpbuf'.end \in 0..Cap-1 /\ tcpbuf'.len \in Nat
  <2>1. /\ tcpbuf' = AfterRead(tcpbuf, n) /\ received' = received /\ arrived' = arrived
    BY DEF FillFrame
  <2>2. n - n = 0
    BY <1>1
  <2> QED BY <1>1, <2>1, <2>2, TakeStep
<1>3. /\ frame' \in Seq(1..Total) /\ Len(frame') = Len(frame) + n
      /\ ~refused => \A i \in 1..Len(frame') :
                       frame'[i] = Before[Len(handed)+1] + HG_TCP_PACKET_HEAD_SIZE + i
  BY <1>1, FrameGrows DEF FillFrame
<1>4. framerest' = framerest - n /\ framerest' >= 1 /\ framerest' \in 0..HG_MAX_FRAME_LEN
  <2>1. framerest' = framerest - n
    BY DEF FillFrame
  <2>2. framerest <= HG_MAX_FRAME_LEN
    BY Numbers DEF IInv, TypeOK
  <2>3. framerest \in Nat /\ HG_MAX_FRAME_LEN \in Nat
    BY Counts, Sizes
  <2> QED BY <1>1, <2>1, <2>2, <2>3
<1>5. TypeOK'
  BY <1>2, <1>3, <1>4 DEF IInv, TypeOK, FillFrame, Again
<1>6. NeverFull' /\ RestLeft'
  BY <1>2, <1>4, Numbers DEF NeverFull, RestLeft
<1>7. ASSUME ~refused PROVE Aligned'
  <2>1. /\ received = Taken + n /\ Taken \in Nat
        /\ Len(handed) < Len(Body) /\ framerest + Len(frame) = Body[Len(handed)+1]
    BY <1>1, <1>7, TakenType DEF IInv, Aligned
  <2>2. Taken' = Taken + n
    <3>1. Before[Len(handed)+1] \in Nat
      BY <2>1, Types, Numbers
    <3>2. handed' = handed /\ hashead' = hashead
      BY DEF FillFrame
    <3>3. /\ Taken = Before[Len(handed)+1] + (HG_TCP_PACKET_HEAD_SIZE + Len(frame))
          /\ Taken' = Before[Len(handed)+1] + (HG_TCP_PACKET_HEAD_SIZE + Len(frame'))
      BY <1>1, <3>2 DEF Taken
    <3>a. Len(frame') = Len(frame) + n /\ Len(frame) \in Nat /\ n \in Nat
          /\ HG_TCP_PACKET_HEAD_SIZE \in Nat
      BY <1>1, <1>3, Types, Numbers, Zenon
    <3> HIDE DEF n
    <3>4. \A b \in Nat : b + (HG_TCP_PACKET_HEAD_SIZE + Len(frame'))
                            = b + (HG_TCP_PACKET_HEAD_SIZE + Len(frame)) + n
      BY <3>a
    <3> QED BY <3>1, <3>3, <3>4, Zenon
  <2>3. received' = Taken' + tcpbuf'.len
    <3>1. received' = received
      BY DEF FillFrame
    <3> QED BY <1>2, <2>1, <2>2, <3>1, Types
  <2>4. framerest' + Len(frame') = Body[Len(handed)+1]
    <3>1. /\ framerest' = framerest - n /\ Len(frame') = Len(frame) + n
          /\ framerest \in Nat /\ Len(frame) \in Nat /\ n \in Nat
      BY <1>1, <1>3, <1>4, Types, Zenon
    <3> HIDE DEF n
    <3>2. framerest' + Len(frame') = framerest + Len(frame)
      BY <3>1
    <3> QED BY <2>1, <3>2
  <2> QED BY <1>3, <1>7, <2>1, <2>3, <2>4 DEF Aligned, FillFrame
<1>8. Aligned'
  BY <1>7 DEF Aligned, FillFrame
<1>9. FramesExact' /\ Drained'
  BY DEF IInv, FramesExact, BodyOf, Drained, Again, FillFrame
<1> QED BY <1>2, <1>5, <1>6, <1>8, <1>9 DEF IInv

\* The frame gets what it lacks and is the peer's next one.
LEMMA EndFrameStep == ASSUME IInv, EndFrame PROVE IInv'
<1> DEFINE n == framerest
           k == Len(handed) + 1
<1>1. /\ ~Forgotten /\ hashead /\ open /\ pc # "idle" /\ ~Forgotten'
      /\ n \in Nat /\ n >= 1 /\ n <= tcpbuf.len
  BY Types DEF EndFrame, Forgotten, IInv, RestLeft
<1>2. /\ (tcpbuf \in RingRecord)' /\ RingHolds' /\ tcpbuf'.len = tcpbuf.len - n
      /\ tcpbuf'.data \in [0..Cap-1 -> 0..Total] /\ tcpbuf'.cap = Cap
      /\ tcpbuf'.start \in 0..Cap-1 /\ tcpbuf'.end \in 0..Cap-1 /\ tcpbuf'.len \in Nat
  BY <1>1, TakeStep DEF EndFrame
<1>3. /\ frame' \in Seq(1..Total) /\ Len(frame') = Len(frame) + n
      /\ ~refused => \A i \in 1..Len(frame') :
                       frame'[i] = Before[k] + HG_TCP_PACKET_HEAD_SIZE + i
  BY <1>1, FrameGrows DEF EndFrame
<1>4. /\ handed' = Append(handed, frame') /\ handed' \in Seq(Seq(1..Total))
      /\ Len(handed') = k /\ handed'[k] = frame'
      /\ \A f \in 1..Len(handed) : handed'[f] = handed[f]
  BY <1>3, Types, AppendProperties DEF EndFrame
<1>5. TypeOK'
  <2>1. framerest' \in 0..HG_MAX_FRAME_LEN
    BY Numbers DEF EndFrame
  <2> QED BY <1>2, <1>3, <1>4, <2>1 DEF IInv, TypeOK, EndFrame, Again
<1>6. NeverFull' /\ RestLeft'
  <2>1. tcpbuf.len <= Cap
    BY <1>1 DEF IInv, RingHolds
  <2>2. Cap \in Nat /\ tcpbuf.len \in Nat
    BY Counts, Sizes
  <2> QED BY <1>1, <1>2, <2>1, <2>2 DEF NeverFull, RestLeft, EndFrame
<1>7. ASSUME ~refused PROVE Aligned' /\ FramesExact'
  <2>1. /\ received = Taken + tcpbuf.len /\ Taken \in Nat
        /\ Len(handed) < Len(Body) /\ n + Len(frame) = Body[k]
    BY <1>1, <1>7, TakenType DEF IInv, Aligned
  <2>2. k \in 1..Len(Body) /\ Before[k] \in Nat
    <3>1. k \in 1..Len(Body) /\ k \in 1..Len(Body)+1
      BY <2>1, Counts, Sizes
    <3> QED BY <3>1, Numbers, Zenon
  <2>3. Len(frame') = Body[k]
    BY <1>1, <1>3, <2>1, Types
  <2>4. received' = Taken' + tcpbuf'.len
    <3>1. Taken = Before[k] + HG_TCP_PACKET_HEAD_SIZE + Len(frame)
      BY <1>1, <2>2, Types, Numbers DEF Taken
    <3>2. Taken' = Before[k+1] + 0
      BY <1>4 DEF Taken, EndFrame
    <3>3. Before[k+1] = Before[k] + HG_TCP_PACKET_HEAD_SIZE + Body[k] /\ Body[k] \in Nat
      BY <2>2, Numbers
    <3> DEFINE before == Before[k]
               after == Before[k+1]
               body == Body[k]
    <3>a. received' = received
      BY DEF EndFrame
    <3>4. /\ before \in Nat /\ body \in Nat
          /\ after = before + HG_TCP_PACKET_HEAD_SIZE + body /\ n + Len(frame) = body
          /\ received = before + HG_TCP_PACKET_HEAD_SIZE + Len(frame) + tcpbuf.len
          /\ received' = received /\ Taken' = after + 0
      BY <2>1, <2>2, <3>1, <3>2, <3>3, <3>a
    <3> HIDE DEF before, after, body, n
    <3>5. /\ Len(frame) \in Nat /\ tcpbuf.len \in Nat /\ n \in Nat /\ HG_TCP_PACKET_HEAD_SIZE \in Nat
          /\ tcpbuf'.len = tcpbuf.len - n
      BY <1>1, <1>2, Types, Numbers
    <3> QED BY <3>4, <3>5
  <2>5. Aligned'
    BY <2>4 DEF Aligned, EndFrame
  <2>6. frame' = BodyOf(k)
    <3>1. DOMAIN frame' = 1..Body[k]
      BY <1>3, <2>3
    <3>2. frame' = [i \in DOMAIN frame' |-> frame'[i]]
      BY <1>3
    <3>3. \A i \in 1..Body[k] : frame'[i] = Before[k] + HG_TCP_PACKET_HEAD_SIZE + i
      BY <1>3, <1>7, <2>3
    <3> QED BY <3>1, <3>2, <3>3 DEF BodyOf
  <2>7. FramesExact'
    <3>1. \A f \in 1..Len(handed) : handed[f] = BodyOf(f)
      BY <1>7 DEF IInv, FramesExact
    <3>2. ASSUME NEW f \in 1..Len(handed') PROVE handed'[f] = BodyOf(f)
      <4>1. f \in 1..Len(handed) \/ f = k
        BY <1>4, Types
      <4> QED BY <1>4, <2>6, <3>1, <4>1
    <3> QED BY <1>4, <2>2, <3>2, Numbers DEF FramesExact, BodyOf
  <2> QED BY <2>5, <2>7
<1>8. Aligned' /\ FramesExact'
  BY <1>7 DEF Aligned, FramesExact, EndFrame
<1>9. Drained'
  BY DEF IInv, Drained, Again, EndFrame
<1> QED BY <1>2, <1>5, <1>6, <1>8, <1>9 DEF IInv

\* The invariant the three theorems rest on.
THEOREM ReaderInvariant == Spec => []IInv
<1>1. ASSUME IInv, [Next]_vars PROVE IInv'
  <2>1. CASE Arrive
    BY <1>1, <2>1, ArriveStep
  <2>2. CASE tcpRecvmsg
    BY <1>1, <2>2, CallStep, NothingToReadStep, RecvStep, NoHeadStep, RefuseStep,
       BeginFrameStep, FillFrameStep, EndFrameStep, NoFrameStep DEF tcpRecvmsg
  <2>3. CASE UNCHANGED vars
    <3>1. UNCHANGED <<arrived, received, event, tcpbuf, hashead, pc, filled, open,
                      framerest, frame, handed, refused>>
      BY <2>3 DEF vars, local
    <3>2. TypeOK' /\ Drained' /\ NeverFull' /\ (Forgotten' <=> Forgotten)
      BY <1>1, <3>1 DEF IInv, TypeOK, Drained, NeverFull, Forgotten
    <3> QED BY <1>1, <3>1, <3>2, StreamKept
  <2> QED BY <1>1, <2>1, <2>2, <2>3 DEF Next
<1> QED BY <1>1, InitHolds, PTL DEF Spec

\* tcpRecvmsg hands on the peer's frames in order and byte for byte, whatever
\* pieces the stream comes in and wherever the ring wraps.
THEOREM ReaderFramesExact == Spec => []FramesExact
<1>1. IInv => FramesExact
  BY DEF IInv
<1> QED BY <1>1, ReaderInvariant, PTL

\* What the socket gave is handed on, in the frame under construction or in the
\* ring, in order, until a length is refused or a frame forgotten; types included.
THEOREM ReaderStreamIntact == Spec => []StreamIntact
<1>1. ASSUME IInv PROVE StreamIntact
  <2>1. ASSUME ~refused, ~Forgotten
        PROVE  /\ tcpbuf.len <= Cap
               /\ received = Taken + tcpbuf.len
               /\ \A i \in 1..tcpbuf.len : Unread(tcpbuf, i) = Taken + i
               /\ hashead => framerest + Len(frame) = Body[Len(handed)+1]
    <3>1. /\ tcpbuf.len <= Cap
          /\ \A i \in 1..tcpbuf.len : Unread(tcpbuf, i) = received - tcpbuf.len + i
      BY <1>1, <2>1 DEF IInv, RingHolds
    <3>2. /\ received = Taken + tcpbuf.len /\ Taken \in Nat
          /\ hashead => framerest + Len(frame) = Body[Len(handed)+1]
      BY <1>1, <2>1, TakenType DEF IInv, Aligned
    <3>3. received - tcpbuf.len = Taken
      <4> DEFINE t == Taken
      <4>1. received = t + tcpbuf.len /\ t \in Nat
        BY <3>2
      <4> HIDE DEF t
      <4>2. received - tcpbuf.len = t
        BY <1>1, <4>1, Types
      <4> QED BY <4>2 DEF t
    <3> QED BY <3>1, <3>2, <3>3
  <2> QED BY <1>1, <2>1 DEF IInv, StreamIntact
<1> QED BY <1>1, ReaderInvariant, PTL

\* Between two calls the socket is empty or an event is still to be handled.
THEOREM ReaderSocketDrained == Spec => []SocketDrained
<1>1. IInv => SocketDrained
  BY DEF IInv, Drained, SocketDrained
<1> QED BY <1>1, ReaderInvariant, PTL

-----------------------------------------------------------------------------
(* Retransmit: packets and frames                                          *)

\* How many frames there are; the packets of one.
FrameTotal == Len(Content)
First(f)   == Content[f][1]
Size(f)    == Len(Content[f])
Final(f)   == First(f) + Size(f) - 1

\* What is assumed of the frames.
LEMMA InFrames ==
  /\ \A g \in DOMAIN Content : \A j \in 1..Len(Content[g])-1 : Content[g][j+1] = Content[g][j] + 1
  /\ \A g \in 1..Len(Content)-1 : Content[g+1][1] = Last(Content[g]) + 1
BY RetransmitAssumption

\* The numbers of a frame's packets follow each other.
LEMMA FrameNumbers ==
  ASSUME NEW f \in 1..FrameTotal
  PROVE  /\ Size(f) \in Nat \ {0} /\ First(f) \in Nat /\ Content[f] \in Seq(Nat)
         /\ \A i \in 1..Size(f) : Content[f][i] = First(f) + i - 1
         /\ Last(Content[f]) = Final(f) /\ Final(f) \in Nat /\ First(f) <= Final(f)
<1>1. Content[f] \in Seq(Nat) /\ Content[f] # <<>> /\ FrameTotal \in Nat /\ DOMAIN Content = 1..FrameTotal
  BY RetransmitAssumption, ElementOfSeq, LenProperties DEF FrameTotal
<1>2. Size(f) \in Nat \ {0} /\ \A i \in 1..Size(f) : Content[f][i] \in Nat
  BY <1>1, EmptySeq, LenProperties, ElementOfSeq DEF Size
<1>3. First(f) \in Nat
  BY <1>2 DEF First
<1> DEFINE U == {i \in Nat : i < Size(f) => Content[f][i+1] = First(f) + i}
<1>4. 0 \in U
  BY <1>3 DEF First
<1>5. ASSUME NEW i \in U PROVE i + 1 \in U
  <2>1. SUFFICES ASSUME i + 1 < Size(f) PROVE Content[f][i+1+1] = First(f) + (i + 1)
    OBVIOUS
  <2>2. i + 1 \in 1..Size(f)-1 /\ Content[f][i+1] = First(f) + i
    BY <1>2, <2>1
  <2>3. \A j \in 1..Size(f)-1 : Content[f][j+1] = Content[f][j] + 1
    BY <1>1, InFrames DEF Size
  <2>4. Content[f][i+1+1] = Content[f][i+1] + 1
    BY <2>2, <2>3
  <2> QED BY <2>2, <2>4, <1>3
<1>6. U = Nat
  <2> HIDE DEF U
  <2>1. U \in SUBSET Nat
    BY DEF U
  <2> QED BY <1>4, <1>5, <2>1, AllNumbers
<1>7. \A i \in 1..Size(f) : Content[f][i] = First(f) + i - 1
  <2> TAKE i \in 1..Size(f)
  <2>1. i - 1 \in U /\ i - 1 < Size(f) /\ (i - 1) + 1 = i
    <3>1. i - 1 \in Nat
      BY <1>2
    <3> HIDE DEF U
    <3> QED BY <1>2, <1>6, <3>1
  <2>2. Content[f][i] = First(f) + (i - 1)
    BY <2>1
  <2> QED BY <2>2, <1>2, <1>3
<1>8. Size(f) \in 1..Size(f)
  BY <1>2
<1>9. Last(Content[f]) = First(f) + Size(f) - 1
  BY <1>7, <1>8 DEF Last, Size
<1> QED BY <1>1, <1>2, <1>3, <1>7, <1>9 DEF Final

\* Frames follow each other, from the first packet to the last.
LEMMA FramesFollow ==
  /\ FrameTotal \in Nat \ {0} /\ DOMAIN Content = 1..FrameTotal
  /\ First(1) = 1 /\ Final(FrameTotal) = LastPkt /\ LastPkt \in Nat \ {0}
  /\ \A f \in 1..FrameTotal : f + 1 \in 1..FrameTotal => First(f+1) = Final(f) + 1
  /\ \A f, g \in 1..FrameTotal : f < g => Final(f) < First(g)
<1>1. FrameTotal \in Nat \ {0} /\ DOMAIN Content = 1..FrameTotal
  BY RetransmitAssumption, EmptySeq, LenProperties DEF FrameTotal
<1>2. 1 \in 1..FrameTotal /\ FrameTotal \in 1..FrameTotal
  BY <1>1
<1>3. First(1) = 1
  BY RetransmitAssumption DEF First
<1>4. Final(FrameTotal) = LastPkt
  <2>1. Last(Content) = Content[FrameTotal]
    BY DEF Last, FrameTotal
  <2> QED BY <2>1, <1>2, FrameNumbers DEF LastPkt
<1>5. ASSUME NEW f \in 1..FrameTotal, f + 1 \in 1..FrameTotal PROVE First(f+1) = Final(f) + 1
  <2>1. f \in 1..Len(Content)-1
    BY <1>1, <1>5 DEF FrameTotal
  <2> QED BY <2>1, RetransmitAssumption, FrameNumbers DEF First
<1>6. ASSUME NEW f \in 1..FrameTotal, NEW g \in 1..FrameTotal, f < g PROVE Final(f) < First(g)
  <2> DEFINE U == {d \in Nat : f + d + 1 <= FrameTotal => Final(f) < First(f + d + 1)}
  <2>1. 0 \in U
    <3>1. f + 0 + 1 <= FrameTotal => Final(f) < First(f+0+1)
      <4>1. ASSUME f + 0 + 1 <= FrameTotal PROVE Final(f) < First(f+0+1)
        <5>1. f + 1 \in 1..FrameTotal /\ f + 0 + 1 = f + 1
          BY <1>1, <4>1
        <5>2. First(f+1) = Final(f) + 1 /\ Final(f) \in Nat
          BY <5>1, <1>5, FrameNumbers
        <5> QED BY <5>1, <5>2
      <4> QED BY <4>1
    <3> QED BY <3>1
  <2>2. ASSUME NEW d \in U PROVE d + 1 \in U
    <3>1. SUFFICES ASSUME f + (d + 1) + 1 <= FrameTotal PROVE Final(f) < First(f + (d + 1) + 1)
      OBVIOUS
    <3> DEFINE e == f + d + 1
    <3>2. e \in 1..FrameTotal /\ e + 1 \in 1..FrameTotal /\ f + (d + 1) + 1 = e + 1 /\ Final(f) < First(e)
      BY <1>1, <3>1
    <3> HIDE DEF e
    <3>3. First(e+1) = Final(e) + 1 /\ First(e) <= Final(e) /\ Final(e) \in Nat /\ First(e) \in Nat /\ Final(f) \in Nat
      BY <3>2, <1>5, FrameNumbers
    <3>4. Final(f) < First(e+1)
      BY <3>2, <3>3
    <3> QED BY <3>2, <3>4
  <2>3. U = Nat
    <3> HIDE DEF U
    <3>1. U \in SUBSET Nat
      BY DEF U
    <3> QED BY <2>1, <2>2, <3>1, AllNumbers
  <2>4. g - f - 1 \in Nat /\ f + (g - f - 1) + 1 = g
    BY <1>6
  <2>5. g - f - 1 \in U
    <3> HIDE DEF U
    <3> QED BY <2>3, <2>4
  <2> QED BY <2>4, <2>5, <1>1
<1>7. LastPkt \in Nat \ {0}
  <2>1. LastPkt \in Nat /\ First(FrameTotal) <= LastPkt /\ First(FrameTotal) \in Nat
    BY <1>2, <1>4, FrameNumbers
  <2>2. FrameTotal # 1 => First(FrameTotal) > 0
    <3>1. ASSUME FrameTotal # 1 PROVE First(FrameTotal) > 0
      <4>1. 1 < FrameTotal
        BY <1>1, <3>1
      <4>2. Final(1) < First(FrameTotal)
        BY <4>1, <1>2, <1>6
      <4>3. Final(1) \in Nat
        BY <1>2, FrameNumbers
      <4> QED BY <4>2, <4>3, <2>1
    <3> QED BY <3>1
  <2> QED BY <2>1, <2>2, <1>3
<1> QED BY <1>1, <1>3, <1>4, <1>5, <1>6, <1>7

\* Every packet is in one frame.
LEMMA FrameOfPacket ==
  ASSUME NEW n \in Pkts
  PROVE  /\ FrameOf(n) \in 1..FrameTotal /\ First(FrameOf(n)) <= n /\ n <= Final(FrameOf(n))
         /\ \A f \in 1..FrameTotal : First(f) <= n /\ n <= Final(f) => FrameOf(n) = f
<1>1. FrameTotal \in Nat \ {0} /\ DOMAIN Content = 1..FrameTotal /\ LastPkt \in Nat
  BY FramesFollow
<1>2. n \in Nat \ {0} /\ n <= LastPkt
  BY <1>1 DEF Pkts
<1>3. \A f \in 1..FrameTotal : n \in ToSet(Content[f]) <=> First(f) <= n /\ n <= Final(f)
  <2> TAKE f \in 1..FrameTotal
  <2>1. /\ Size(f) \in Nat \ {0} /\ First(f) \in Nat /\ DOMAIN Content[f] = 1..Size(f)
        /\ \A i \in 1..Size(f) : Content[f][i] = First(f) + i - 1
    BY FrameNumbers, LenProperties DEF Size
  <2>2. ASSUME n \in ToSet(Content[f]) PROVE First(f) <= n /\ n <= Final(f)
    <3>1. PICK i \in 1..Size(f) : n = Content[f][i]
      BY <2>1, <2>2 DEF ToSet
    <3>2. n = First(f) + i - 1
      BY <2>1, <3>1
    <3> QED BY <2>1, <3>2 DEF Final
  <2>3. ASSUME First(f) <= n, n <= Final(f) PROVE n \in ToSet(Content[f])
    <3> DEFINE i == n - First(f) + 1
    <3>1. i \in 1..Size(f) /\ n = First(f) + i - 1
      BY <1>2, <2>1, <2>3 DEF Final
    <3>2. n = Content[f][i]
      BY <2>1, <3>1
    <3> QED BY <2>1, <3>1, <3>2 DEF ToSet
  <2> QED BY <2>2, <2>3
<1>4. \E f \in 1..FrameTotal : First(f) <= n /\ n <= Final(f)
  <2> DEFINE U == {d \in Nat : d < FrameTotal => (n <= Final(d+1) => \E f \in 1..FrameTotal : First(f) <= n /\ n <= Final(f))}
  <2>1. 0 \in U
    BY <1>1, <1>2, FramesFollow
  <2>2. ASSUME NEW d \in U PROVE d + 1 \in U
    <3>1. SUFFICES ASSUME d + 1 < FrameTotal, n <= Final(d+1+1)
                   PROVE  \E f \in 1..FrameTotal : First(f) <= n /\ n <= Final(f)
      OBVIOUS
    <3>2. d + 1 \in 1..FrameTotal /\ d + 1 + 1 \in 1..FrameTotal
      BY <1>1, <3>1
    <3>3. First(d+1+1) = Final(d+1) + 1 /\ Final(d+1) \in Nat
      BY <3>2, FramesFollow, FrameNumbers
    <3>4. CASE n <= Final(d+1)
      BY <3>1, <3>4, <1>1
    <3>5. CASE ~(n <= Final(d+1))
      <4>1. First(d+1+1) <= n
        BY <1>2, <3>3, <3>5
      <4> QED BY <3>1, <3>2, <4>1
    <3> QED BY <3>4, <3>5
  <2>3. U = Nat
    <3> HIDE DEF U
    <3>1. U \in SUBSET Nat
      BY DEF U
    <3> QED BY <2>1, <2>2, <3>1, AllNumbers
  <2>4. FrameTotal - 1 \in Nat /\ FrameTotal - 1 < FrameTotal /\ (FrameTotal - 1) + 1 = FrameTotal
    BY <1>1
  <2>5. FrameTotal - 1 \in U
    <3> HIDE DEF U
    <3> QED BY <2>3, <2>4
  <2>6. Final((FrameTotal - 1) + 1) = LastPkt
    BY <2>4, FramesFollow
  <2> QED BY <1>2, <2>4, <2>5, <2>6
<1>5. FrameOf(n) \in 1..FrameTotal /\ n \in ToSet(Content[FrameOf(n)])
  BY <1>1, <1>3, <1>4 DEF FrameOf
<1>6. First(FrameOf(n)) <= n /\ n <= Final(FrameOf(n))
  BY <1>3, <1>5
<1>7. ASSUME NEW f \in 1..FrameTotal, First(f) <= n, n <= Final(f) PROVE FrameOf(n) = f
  <2> DEFINE g == FrameOf(n)
  <2>1. First(f) \in Nat /\ Final(f) \in Nat /\ First(g) \in Nat /\ Final(g) \in Nat
    BY <1>5, FrameNumbers
  <2>2. ~(f < g) /\ ~(g < f)
    BY <1>2, <1>5, <1>6, <1>7, <2>1, FramesFollow
  <2> QED BY <2>2, <1>5
<1> QED BY <1>5, <1>6, <1>7

\* A packet is as large as the frames before it, and later ones are in later
\* frames.
LEMMA FrameOrder ==
  ASSUME NEW n \in Pkts, NEW k \in Pkts, n <= k
  PROVE  /\ FrameOf(n) <= FrameOf(k) /\ (n = Final(FrameOf(n)) /\ n < k => FrameOf(n) < FrameOf(k))
         /\ FrameOf(n) <= n /\ FrameOf(n) \in Nat \ {0}
<1>1. FrameTotal \in Nat \ {0} /\ n \in Nat /\ k \in Nat
  BY FramesFollow DEF Pkts
<1> DEFINE f == FrameOf(n)
           g == FrameOf(k)
<1>2. f \in 1..FrameTotal /\ g \in 1..FrameTotal /\ First(f) <= n /\ n <= Final(f) /\ First(g) <= k /\ k <= Final(g)
  BY FrameOfPacket
<1>3. First(f) \in Nat /\ Final(f) \in Nat /\ First(g) \in Nat /\ Final(g) \in Nat
  BY <1>2, FrameNumbers
<1> HIDE DEF f, g
<1>4. f <= g
  <2>1. ~(g < f)
    BY <1>1, <1>2, <1>3, FramesFollow
  <2> QED BY <1>2, <2>1
<1>5. n = Final(f) /\ n < k => f # g
  BY <1>1, <1>2, <1>3
<1>6. f <= First(f)
  <2> DEFINE U == {d \in Nat : d < FrameTotal => d + 1 <= First(d+1)}
  <2>1. 0 \in U
    BY FramesFollow
  <2>2. ASSUME NEW d \in U PROVE d + 1 \in U
    <3>1. SUFFICES ASSUME d + 1 < FrameTotal PROVE (d+1) + 1 <= First(d+1+1)
      OBVIOUS
    <3>2. d + 1 \in 1..FrameTotal /\ d + 1 + 1 \in 1..FrameTotal
      BY <1>1, <3>1
    <3>3. /\ First(d+1+1) = Final(d+1) + 1 /\ Final(d+1) \in Nat /\ First(d+1) \in Nat
          /\ First(d+1) <= Final(d+1)
      BY <3>2, FramesFollow, FrameNumbers
    <3>4. d + 1 <= First(d+1)
      BY <3>1, <1>1
    <3> QED BY <3>3, <3>4
  <2>3. U = Nat
    <3> HIDE DEF U
    <3>1. U \in SUBSET Nat
      BY DEF U
    <3> QED BY <2>1, <2>2, <3>1, AllNumbers
  <2>4. f - 1 \in Nat /\ f - 1 < FrameTotal /\ (f - 1) + 1 = f
    BY <1>1, <1>2
  <2>5. f - 1 \in U
    <3> HIDE DEF U
    <3> QED BY <2>3, <2>4
  <2> QED BY <2>4, <2>5
<1>7. f <= n
  BY <1>1, <1>2, <1>3, <1>6
<1> QED BY <1>2, <1>4, <1>5, <1>7 DEF f, g

\* What the flag of a packet says of its place in the frame.
IsFirst(n) == n = First(FrameOf(n))
IsFinal(n) == n = Final(FrameOf(n))

\* What a flag says of the place of its packet in the frame.
LEMMA FlagOf ==
  ASSUME NEW n \in Pkts
  PROVE  /\ TailOf[n] \in 0..3
         /\ TailOf[n] = 0 <=> IsFirst(n) /\ IsFinal(n)
         /\ TailOf[n] = 2 <=> IsFirst(n) /\ ~IsFinal(n)
         /\ TailOf[n] = 3 <=> ~IsFirst(n) /\ IsFinal(n)
         /\ TailOf[n] = 1 <=> ~IsFirst(n) /\ ~IsFinal(n)
<1> DEFINE f == FrameOf(n)
<1>1. f \in 1..FrameTotal /\ First(f) <= n /\ n <= Final(f)
  BY FrameOfPacket
<1>2. /\ Size(f) \in Nat \ {0} /\ First(f) \in Nat /\ Final(f) = First(f) + Size(f) - 1
      /\ Content[f][1] = First(f) /\ Content[f][Len(Content[f])] = Final(f) /\ Len(Content[f]) = Size(f)
  BY <1>1, FrameNumbers DEF Final, Last, First, Size
<1>3. TailOf[n] = IF n = First(f) THEN IF n = Final(f) THEN 0 ELSE 2 ELSE IF n = Final(f) THEN 3 ELSE 1
  BY <1>2 DEF TailOf, Last
<1>4. (IsFirst(n) <=> n = First(f)) /\ (IsFinal(n) <=> n = Final(f))
  BY DEF IsFirst, IsFinal
<1> HIDE DEF f
<1> QED BY <1>3, <1>4

-----------------------------------------------------------------------------
(* Retransmit: messages                                                    *)

\* The n-th packet as it is sent.
Sent(n) == [seq |-> n, frame |-> FrameOf(n), tail |-> TailOf[n], node |-> 1,
            from |-> n - First(FrameOf(n)), size |-> 1]

\* Numbers fit into a head.
LEMMA Sixteen ==
  /\ HG_SEQ_MAX_NUM \in Nat \ {0} /\ HG_SEQ_MAX_NUM <= 65536 /\ LastPkt < HG_SEQ_MAX_NUM
  /\ Half \in Nat \ {0} /\ HG_SEQ_MAX_NUM = 2 * Half + 1
  /\ HG_CONN_CACHE_LEN \in Nat \ {0} /\ HG_CONN_CACHE_LEN <= Half
  /\ LastPkt \in Nat \ {0} /\ NoSeq \in Nat /\ maxnovalue \in Nat /\ Expiry \in Nat \ {0}
  /\ MaxFrame \in Nat \ {0} /\ MaxFaults \in Nat /\ MaxTwice \in Nat
<1>1. HG_SEQ_MAX_NUM \in Nat \ {0} /\ Half \in Nat /\ HG_SEQ_MAX_NUM = 2 * Half + 1
  BY SeqAssumption DEF Half
<1>2. /\ HG_SEQ_MAX_NUM <= 65536 /\ LastPkt < HG_SEQ_MAX_NUM /\ HG_CONN_CACHE_LEN \in 1..Half
      /\ NoSeq \in Nat /\ maxnovalue \in Nat /\ Expiry \in Nat \ {0}
      /\ MaxFrame \in Nat \ {0} /\ MaxFaults \in Nat /\ MaxTwice \in Nat
  BY RetransmitAssumption
<1>3. LastPkt \in Nat \ {0}
  BY FramesFollow
<1> QED BY <1>1, <1>2, <1>3

\* A head says what was put into it, with another command too.
LEMMA HeadReads ==
  ASSUME NEW m \in 0..7, NEW t \in 0..3, NEW q \in Nat, q <= 65535, NEW z \in Nat, z <= 65535
  PROVE  /\ LET d == MsgHead(m, t, q, z)
            IN  pktCmd(d) = m /\ pktFlag(d) = t /\ pktSeq(d) = q /\ pktTimestamp(d) = z
         /\ LET e == pktSetCmd(MsgHead(m, t, q, z), 2)
            IN  pktCmd(e) = 2 /\ pktFlag(e) = t /\ pktSeq(e) = q /\ pktTimestamp(e) = z
<1> DEFINE d == MsgHead(m, t, q, z)
           e == pktSetCmd(d, 2)
           b == (m % 8) * 32 + (t % 4) * 8 + (2 % 8)
<1>1. d = <<(0 % 2) * 128 + (0 % 2) * 64, b,
            (q \div 256) % 256, q % 256, (z \div 256) % 256, z % 256,
            (1 \div 16777216) % 256, (1 \div 65536) % 256, (1 \div 256) % 256, 1 % 256>>
  BY SMT DEF MsgHead, rtpPacketHead, toolsIntBigEndian16, toolsIntBigEndian32
<1>2. b \in 0..255 /\ b \div 32 = m /\ (b \div 8) % 4 = t
  BY SecondByte
<1>3. ((q \div 256) % 256) * 256 + (q % 256) = q
  BY BigEndian16
<1>4. ((z \div 256) % 256) * 256 + (z % 256) = z
  BY BigEndian16
<1> HIDE DEF b
<1>5. /\ d[2] = b /\ d[3] = (q \div 256) % 256 /\ d[4] = q % 256
      /\ d[5] = (z \div 256) % 256 /\ d[6] = z % 256
  BY <1>1, SMT
<1>6. pktCmd(d) = m /\ pktFlag(d) = t /\ pktSeq(d) = q /\ pktTimestamp(d) = z
  <2> HIDE DEF d
  <2> QED BY <1>2, <1>3, <1>4, <1>5, SMT DEF pktCmd, pktFlag, pktSeq, pktTimestamp
<1>7. e[2] = (2 % 8) * 32 + (b % 32) /\ e[3] = d[3] /\ e[4] = d[4] /\ e[5] = d[5] /\ e[6] = d[6]
  <2>1. 2 \in DOMAIN d
    BY <1>1, SMT
  <2> HIDE DEF d
  <2> QED BY <1>5, <2>1, SMT DEF pktSetCmd
<1> HIDE DEF d, e
<1>8. pktCmd(e) = 2 /\ pktFlag(e) = t
  <2>1. LET v == (2 % 8) * 32 + (b % 32)
        IN  v \div 32 = 2 /\ (v \div 8) % 4 = (b \div 8) % 4
    BY <1>2, SMT
  <2> QED BY <1>2, <1>7, <2>1, SMT DEF pktCmd, pktFlag
<1>9. pktSeq(e) = q /\ pktTimestamp(e) = z
  BY <1>6, <1>7 DEF pktSeq, pktTimestamp
<1> QED BY <1>6, <1>8, <1>9 DEF d, e

\* What the other side reads in the heads of a packet and of an answer,
LEMMA PacketHead ==
  ASSUME NEW n \in Pkts
  PROVE  /\ LET p == Packet(Sent(n), n) IN
              /\ pktCmd(p.head) = 1 /\ pktSeq(p.head) = n /\ pktFlag(p.head) = TailOf[n]
              /\ pktTimestamp(p.head) = FrameOf(n) /\ p.body = n
         /\ LET a == Answer(Sent(n), n) IN
              /\ pktCmd(a.head) = 2 /\ pktSeq(a.head) = n /\ pktFlag(a.head) = TailOf[n]
              /\ pktTimestamp(a.head) = FrameOf(n) /\ a.body = n
<1>1. n \in Nat /\ n <= 65535 /\ n <= LastPkt
  BY Sixteen DEF Pkts
<1>2. FrameOf(n) \in Nat /\ FrameOf(n) <= 65535
  BY <1>1, FrameOrder
<1>3. TailOf[n] \in 0..7 /\ TailOf[n] \in 0..3
  BY FlagOf
<1> DEFINE d == MsgHead(1, TailOf[n], n, FrameOf(n))
<1>4. Sndhead(Sent(n)) = d
  BY DEF Sndhead, Sent, enum_RTP_CMD_POST
<1> HIDE DEF d
<1>5. pktCmd(d) = 1 /\ pktSeq(d) = n /\ pktFlag(d) = TailOf[n] /\ pktTimestamp(d) = FrameOf(n)
  BY <1>1, <1>2, <1>3, 1 \in 0..7, HeadReads DEF d
<1>6. LET e == pktSetCmd(d, 2) IN
        pktCmd(e) = 2 /\ pktSeq(e) = n /\ pktFlag(e) = TailOf[n] /\ pktTimestamp(e) = FrameOf(n)
  BY <1>1, <1>2, <1>3, 1 \in 0..7, HeadReads DEF d
<1> QED BY <1>4, <1>5, <1>6 DEF Packet, Answer, enum_RTP_CMD_RES_REPOST

\* and in that of a request.
LEMMA RequestHead ==
  ASSUME NEW q \in Pkts
  PROVE  pktCmd(Request(q).head) = 3 /\ pktSeq(Request(q).head) = q /\ Request(q).body = 0
<1>1. q \in Nat /\ q <= 65535
  BY Sixteen DEF Pkts
<1> DEFINE d == MsgHead(3, 0, q, 0)
<1>2. Request(q).head = d /\ Request(q).body = 0
  BY DEF Request, enum_RTP_CMD_REQ_REPOST
<1>3. pktCmd(d) = 3 /\ pktSeq(d) = q
  <2> HIDE DEF d
  <2> QED BY <1>1, 3 \in 0..7, 0 \in 0..3, 0 \in Nat, 0 <= 65535, HeadReads DEF d
<1> QED BY <1>2, <1>3

\* What is under way is a packet that was sent, an answer or a request.
Carries(m, n)  == m = Packet(Sent(n), n) \/ m = Answer(Sent(n), n)
Genuine(m, c) == \/ \E n \in 1..c : Carries(m, n)
                 \/ \E q \in Pkts : m = Request(q)

\* What the receiving side reads in what is under way.
LEMMA Reads ==
  ASSUME NEW c \in 0..LastPkt, NEW m, Genuine(m, c)
  PROVE  /\ pktSeq(m.head) \in Pkts
         /\ IsRequest(m) \/ IsPacket(m)
         /\ IsRequest(m) => m = Request(pktSeq(m.head)) /\ pktCmd(m.head) = 3
         /\ IsPacket(m) => /\ m.body \in 1..c /\ m.body \in Pkts /\ Carries(m, m.body)
                           /\ pktSeq(m.head) = m.body /\ pktFlag(m.head) = TailOf[m.body]
                           /\ pktTimestamp(m.head) = FrameOf(m.body)
<1>1. ASSUME NEW n \in 1..c, Carries(m, n)
      PROVE  /\ n \in Pkts /\ pktSeq(m.head) = n /\ m.body = n /\ pktFlag(m.head) = TailOf[n]
             /\ pktTimestamp(m.head) = FrameOf(n) /\ ~IsRequest(m) /\ IsPacket(m)
  <2>1. n \in Pkts
    BY Sixteen DEF Pkts
  <2>2. /\ pktSeq(m.head) = n /\ m.body = n /\ pktFlag(m.head) = TailOf[n]
        /\ pktTimestamp(m.head) = FrameOf(n) /\ pktCmd(m.head) \in {1, 2}
    BY <1>1, <2>1, PacketHead DEF Carries
  <2> QED BY <2>1, <2>2 DEF IsRequest, IsPacket, enum_RTP_CMD_REQ_REPOST, enum_RTP_CMD_RES_REPOST
<1>2. ASSUME NEW q \in Pkts, m = Request(q)
      PROVE  pktSeq(m.head) = q /\ pktCmd(m.head) = 3 /\ IsRequest(m) /\ ~IsPacket(m)
  BY <1>2, RequestHead DEF IsRequest, IsPacket, enum_RTP_CMD_REQ_REPOST, enum_RTP_CMD_RES_REPOST
<1>3. CASE \E n \in 1..c : Carries(m, n)
  BY <1>1, <1>3
<1>4. CASE \E q \in Pkts : m = Request(q)
  BY <1>2, <1>4
<1> QED BY <1>3, <1>4 DEF Genuine

-----------------------------------------------------------------------------
(* Retransmit: the sender                                                  *)

\* A frame is one node, and a packet one byte: the sender is at the packet that
\* follows those it has posted, and what it keeps is what it posted.
Count == Len(posted)
Kept  == {S!NoPacket} \cup {Sent(n) : n \in 1..Count}

Sending ==
  /\ chains \in Seq(Chains) /\ Len(chains) <= FrameTotal
  /\ \A f \in 1..Len(chains) : chains[f] = <<Size(f)>>
  /\ posted \in Seq({Sent(n) : n \in Pkts}) /\ Count <= LastPkt
  /\ \A n \in 1..Count : posted[n] = Sent(n)
  /\ node \in {0, 1} /\ sendsize \in Nat
  /\ node = 0 => Count = IF Len(chains) = 0 THEN 0 ELSE Final(Len(chains))
  /\ node = 1 => /\ Len(chains) # 0 /\ copied = sendsize /\ copied <= Size(Len(chains))
                 /\ Count = First(Len(chains)) - 1 + copied
  /\ snd = Count /\ sndmax = Count
  /\ sendcache \in [S!Slots -> Kept]
  /\ released \subseteq 1..Len(chains)
  /\ answer \in [asked : S!Seqs \cup {-1}, behind : 0..HG_CONN_CACHE_LEN, got : Kept, live : BOOLEAN]

\* What was posted is of a frame handed to the sender.
LEMMA PostedFrames ==
  ASSUME Sending
  PROVE  /\ Len(chains) \in Nat /\ Count \in 0..LastPkt /\ Count \in Nat
         /\ \A n \in 1..Count : n \in Pkts /\ FrameOf(n) \in 1..Len(chains)
<1>1. Len(chains) \in Nat /\ Count \in Nat /\ Count <= LastPkt /\ Len(chains) <= FrameTotal
  BY LenProperties DEF Sending, Count
<1>2. ASSUME NEW n \in 1..Count PROVE n \in Pkts /\ FrameOf(n) \in 1..Len(chains)
  <2>1. n \in Pkts /\ n \in Nat
    BY <1>1, <1>2, Sixteen DEF Pkts
  <2> DEFINE g == FrameOf(n)
             f == Len(chains)
  <2>2. g \in 1..FrameTotal /\ First(g) <= n
    BY <2>1, FrameOfPacket
  <2>3. f # 0 /\ f \in 1..FrameTotal
    BY <1>1, FramesFollow DEF Sending
  <2>4. Count <= Final(f)
    <3>1. Size(f) \in Nat \ {0} /\ First(f) \in Nat
      BY <2>3, FrameNumbers
    <3> QED BY <1>1, <2>3, <3>1 DEF Sending, Final
  <2>5. ~(f < g)
    <3>1. First(g) \in Nat /\ Final(f) \in Nat
      BY <2>2, <2>3, FrameNumbers
    <3> QED BY <1>1, <2>1, <2>2, <2>3, <2>4, <3>1, FramesFollow
  <2> QED BY <1>1, <2>1, <2>2, <2>5
<1> QED BY <1>1, <1>2, Sixteen

\* The sum over the one node of a chain.
LEMMA OneNode ==
  ASSUME NEW k \in Nat
  PROVE  S!Bytes(<<k>>)[1] = k
<1> DEFINE c == <<k>>
           g == [m \in 0..1 |-> IF m = 0 THEN 0 ELSE k]
<1>1. Len(c) = 1 /\ c[1] = k
  OBVIOUS
<1>2. g = [m \in 0..1 |-> IF m = 0 THEN 0 ELSE g[m-1] + c[m]]
  BY SMT
<1> HIDE DEF c, g
<1>3. \E h : h = [m \in 0..Len(c) |-> IF m = 0 THEN 0 ELSE h[m-1] + c[m]]
  BY <1>1, <1>2
<1>4. S!Bytes(c) = [m \in 0..Len(c) |-> IF m = 0 THEN 0 ELSE S!Bytes(c)[m-1] + c[m]]
  BY <1>3, Zenon DEF S!Bytes
<1>5. \A m \in 0..1 : S!Bytes(c)[m] = IF m = 0 THEN 0 ELSE S!Bytes(c)[m-1] + c[m]
  BY <1>1, <1>4
<1>6. S!Bytes(c)[0] = 0
  BY <1>5
<1>7. S!Bytes(c)[1] = S!Bytes(c)[0] + c[1]
  BY <1>5
<1> QED BY <1>1, <1>6, <1>7 DEF c

\* The types of the sender.
LEMMA SenderTypes == ASSUME Sending PROVE S!TypeOK
<1>1. /\ Len(chains) \in Nat /\ Count \in 0..LastPkt /\ Count \in Nat
      /\ \A n \in 1..Count : n \in Pkts /\ FrameOf(n) \in 1..Len(chains)
  BY PostedFrames
<1>2. ASSUME NEW n \in 1..Count PROVE Sent(n) \in S!Packet
  <2>1. n \in Pkts /\ FrameOf(n) \in 1..Len(chains) /\ n \in Nat /\ n <= LastPkt
    BY <1>1, Sixteen
  <2>2. n \in S!Seqs \cup {-1}
    BY <2>1, Sixteen DEF S!Seqs
  <2>3. n - First(FrameOf(n)) \in Nat
    BY <2>1, FrameOfPacket, FrameNumbers
  <2>4. FrameOf(n) \in 0..Len(chains) /\ TailOf[n] \in 0..3
    BY <1>1, <2>1, FlagOf
  <2> QED BY <2>2, <2>3, <2>4 DEF S!Packet, Sent
<1>3. S!NoPacket \in S!Packet
  BY <1>1 DEF S!NoPacket, S!Packet
<1>4. Kept \subseteq S!Packet
  BY <1>2, <1>3 DEF Kept
<1>5. posted \in Seq(S!Packet)
  <2>1. posted \in Seq({Sent(n) : n \in Pkts}) /\ \A n \in 1..Count : posted[n] = Sent(n)
    BY DEF Sending
  <2>2. DOMAIN posted = 1..Count /\ posted = [i \in 1..Count |-> posted[i]]
    BY <2>1, LenProperties DEF Count
  <2>3. \A i \in 1..Count : posted[i] \in S!Packet
    BY <2>1, <1>2
  <2> QED BY <2>2, <2>3, <1>1, SeqDef
<1>6. node # 0 => node \in DOMAIN chains[S!frame] /\ copied \in 0..chains[S!frame][node]
  <2>1. ASSUME node # 0 PROVE node \in DOMAIN chains[S!frame] /\ copied \in 0..chains[S!frame][node]
    <3>1. node = 1 /\ Len(chains) \in 1..Len(chains) /\ copied \in Nat /\ copied <= Size(Len(chains))
      BY <1>1, <2>1 DEF Sending
    <3>2. chains[Len(chains)] = <<Size(Len(chains))>> /\ Size(Len(chains)) \in Nat
      <4>1. Len(chains) \in 1..FrameTotal
        BY <1>1, <3>1, FramesFollow DEF Sending
      <4> QED BY <3>1, <4>1, FrameNumbers DEF Sending
    <3> QED BY <3>1, <3>2 DEF S!frame
  <2> QED BY <2>1
<1>7. snd \in S!Seqs /\ sndmax \in S!Seqs
  BY <1>1, Sixteen DEF Sending, S!Seqs
<1>8. sendcache \in [S!Slots -> S!Packet]
  BY <1>4 DEF Sending
<1>9. answer \in [asked : S!Seqs \cup {-1}, behind : 0..HG_CONN_CACHE_LEN, got : S!Packet, live : BOOLEAN]
  BY <1>4 DEF Sending
<1> QED BY <1>5, <1>6, <1>7, <1>8, <1>9 DEF S!TypeOK, S!Frames, Sending

\* The frame that the sender is at.
LEMMA AtFrame ==
  ASSUME Sending, node # 0
  PROVE  /\ node = 1 /\ Len(chains) \in 1..FrameTotal /\ S!frame = Len(chains)
         /\ Size(Len(chains)) \in Nat \ {0} /\ First(Len(chains)) \in Nat \ {0}
         /\ copied \in 0..Size(Len(chains)) /\ sendsize = copied
         /\ Count = First(Len(chains)) - 1 + copied /\ Count \in Nat
         /\ S!restsize = Size(Len(chains)) - copied
         /\ S!FrameSize(Len(chains)) = Size(Len(chains))
         /\ Len(chains[Len(chains)]) = 1
<1> DEFINE f == Len(chains)
<1>1. node = 1 /\ f \in 1..FrameTotal /\ f \in 1..f
  BY PostedFrames, FramesFollow DEF Sending
<1>2. Size(f) \in Nat \ {0} /\ First(f) \in Nat
  BY <1>1, FrameNumbers
<1>3. copied \in 0..Size(f) /\ sendsize = copied /\ Count = First(f) - 1 + copied /\ Count \in Nat
  BY <1>1, <1>2, PostedFrames DEF Sending
<1>4. First(f) # 0
  <2>1. CASE f = 1
    BY <2>1, FramesFollow
  <2>2. CASE f # 1
    <3>0. FrameTotal \in Nat \ {0}
      BY FramesFollow
    <3>1. 1 \in 1..FrameTotal /\ 1 < f
      BY <1>1, <2>2, <3>0
    <3>2. Final(1) < First(f) /\ Final(1) \in Nat
      BY <1>1, <3>1, FramesFollow, FrameNumbers
    <3> QED BY <1>2, <3>2
  <2> QED BY <2>1, <2>2
<1>5. chains[f] = <<Size(f)>>
  BY <1>1 DEF Sending
<1>6. chains[f][1] = Size(f) /\ Len(chains[f]) = 1
  BY <1>5, <1>2
<1>7. S!frame = f
  BY DEF S!frame
<1>8. S!FrameSize(f) = Size(f)
  <2>1. S!FrameSize(f) = S!Bytes(<<Size(f)>>)[1]
    BY <1>5, <1>6 DEF S!FrameSize
  <2> QED BY <2>1, <1>2, OneNode
<1>9. S!restsize = Size(f) - copied
  BY <1>1, <1>6, <1>7 DEF S!restsize
<1> QED BY <1>1, <1>2, <1>3, <1>4, <1>6, <1>7, <1>8, <1>9

\* SendData: the next frame.
LEMMA SendDataSending ==
  ASSUME Sending, S!SendData, chains' = Append(chains, <<Len(Content[Len(chains) + 1])>>)
  PROVE  Sending' /\ posted' = posted /\ Len(chains') = Len(chains) + 1 /\ Len(chains) < FrameTotal
<1> DEFINE f == Len(chains)
<1>1. /\ node = 0 /\ f < FrameTotal /\ node' = 1 /\ copied' = 0 /\ sendsize' = 0
      /\ UNCHANGED <<snd, sndmax, sendcache, released, posted, answer>>
  BY DEF S!SendData, FrameTotal
<1>2. f \in Nat /\ Count \in 0..LastPkt /\ Count \in Nat
  BY PostedFrames
<1>3. f + 1 \in 1..FrameTotal
  BY <1>1, <1>2, FramesFollow
<1>4. /\ chains' \in Seq(Chains) /\ Len(chains') = f + 1
      /\ \A g \in 1..f+1 : chains'[g] = IF g = f + 1 THEN <<Size(f+1)>> ELSE chains[g]
  <2>1. <<Len(Content[f+1])>> \in Chains
    BY <1>3, FramesFollow DEF Chains
  <2>2. chains \in Seq(Chains)
    BY DEF Sending
  <2> QED BY <2>1, <2>2, AppendProperties DEF Size
<1>5. \A g \in 1..f+1 : chains'[g] = <<Size(g)>>
  BY <1>2, <1>4 DEF Sending
<1>6. Size(f+1) \in Nat /\ First(f+1) \in Nat
  BY <1>3, FrameNumbers
<1>7. Count = First(f+1) - 1 + 0
  <2>1. CASE f = 0
    BY <2>1, <1>1, FramesFollow DEF Sending
  <2>2. CASE f # 0
    <3>0. FrameTotal \in Nat \ {0}
      BY FramesFollow
    <3>1. f \in 1..FrameTotal
      BY <1>1, <1>2, <2>2, <3>0
    <3>2. Count = Final(f) /\ First(f+1) = Final(f) + 1 /\ Final(f) \in Nat
      BY <1>1, <1>3, <2>2, <3>1, FramesFollow, FrameNumbers DEF Sending
    <3> QED BY <3>2
  <2> QED BY <2>1, <2>2
<1>8. Kept' = Kept /\ Count' = Count
  BY <1>1 DEF Kept, Count, Sent
<1>9. /\ Len(chains') <= FrameTotal /\ Len(chains') # 0 /\ released' \subseteq 1..Len(chains')
      /\ node' \in {0, 1} /\ sendsize' \in Nat
  <2>1. released \subseteq 1..f
    BY DEF Sending
  <2> QED BY <1>1, <1>2, <1>3, <1>4, <2>1
<1>10. /\ posted' \in Seq({Sent(n) : n \in Pkts}) /\ Count' <= LastPkt
       /\ \A n \in 1..Count' : posted'[n] = Sent(n)
       /\ snd' = Count' /\ sndmax' = Count'
       /\ sendcache' \in [S!Slots -> Kept']
       /\ answer' \in [asked : S!Seqs \cup {-1}, behind : 0..HG_CONN_CACHE_LEN, got : Kept', live : BOOLEAN]
  BY <1>1, <1>8 DEF Sending
<1>11. /\ node' = 1 /\ node' # 0 /\ copied' = sendsize' /\ copied' <= Size(Len(chains'))
       /\ Count' = First(Len(chains')) - 1 + copied'
  BY <1>1, <1>4, <1>6, <1>7, <1>8
<1>12. \A n : Sent(n)' = Sent(n)
  BY DEF Sent, FrameOf, TailOf, First
<1>13. Sending'
  BY Zenon, <1>4, <1>5, <1>9, <1>10, <1>11, <1>12 DEF Sending, First, Size, Final, S!Slots, S!Seqs, Chains, Pkts, LastPkt, FrameTotal, Sent, FrameOf, TailOf
<1> QED BY <1>1, <1>4, <1>13

\* NextNode: the one node was the frame.
LEMMA NextNodeSending ==
  ASSUME Sending, S!NextNode
  PROVE  Sending' /\ posted' = posted /\ chains' = chains
<1> DEFINE f == Len(chains)
<1>1. /\ node # 0 /\ S!restsize = 0
      /\ node' = IF node < Len(chains[S!frame]) THEN node + 1 ELSE 0
      /\ UNCHANGED <<chains, sendsize, snd, sndmax, sendcache, released, posted, answer>>
  BY DEF S!NextNode
<1>2. /\ node = 1 /\ f \in 1..FrameTotal /\ S!frame = f /\ Size(f) \in Nat /\ First(f) \in Nat
      /\ copied \in Nat /\ S!restsize = Size(f) - copied /\ Count = First(f) - 1 + copied
      /\ Len(chains[f]) = 1
  BY <1>1, AtFrame
<1>3. node' = 0 /\ f # 0 /\ Count = Final(f)
  BY <1>1, <1>2 DEF Final
<1>4. Kept' = Kept /\ Count' = Count /\ Len(chains') = f
  BY <1>1 DEF Kept, Count
<1>5. Sending'
  BY <1>1, <1>3, <1>4 DEF Sending
<1> QED BY <1>1, <1>5

\* Post: the packet that follows.
LEMMA PostSending ==
  ASSUME Sending, S!Post
  PROVE  /\ Sending' /\ Count' = Count + 1 /\ Count + 1 \in Pkts /\ chains' = chains
         /\ posted' = Append(posted, Sent(Count + 1)) /\ answer' = answer
<1> DEFINE f == Len(chains)
           n == Count + 1
           p == [seq |-> S!uint16Add(snd, 1), frame |-> S!frame, tail |-> S!tail,
                 node |-> node, from |-> copied, size |-> S!shouldcopy]
<1>1. /\ node # 0 /\ S!restsize > 0 /\ snd' = p.seq /\ posted' = Append(posted, p)
      /\ S!ClearPacketWrBufer(p) /\ copied' = copied + S!shouldcopy /\ sendsize' = sendsize + S!shouldcopy
      /\ UNCHANGED <<chains, node, answer>>
  BY DEF S!Post
<1>2. /\ node = 1 /\ f \in 1..FrameTotal /\ S!frame = f /\ Size(f) \in Nat \ {0} /\ First(f) \in Nat \ {0}
      /\ copied \in 0..Size(f) /\ sendsize = copied /\ Count = First(f) - 1 + copied /\ Count \in Nat
      /\ S!restsize = Size(f) - copied /\ S!FrameSize(f) = Size(f)
  BY <1>1, AtFrame
<1>3. copied < Size(f)
  BY <1>1, <1>2
<1>4. S!shouldcopy = 1
  BY <1>2, <1>3 DEF S!shouldcopy
<1>5. n \in Nat /\ First(f) <= n /\ n <= Final(f) /\ n \in Pkts
  <2>1. Final(f) = First(f) + Size(f) - 1
    BY DEF Final
  <2>2. First(f) <= n /\ n <= Final(f) /\ n \in Nat \ {0}
    BY <1>2, <1>3, <2>1
  <2>3. Final(f) <= LastPkt
    <3>1. FrameTotal \in 1..FrameTotal /\ Final(FrameTotal) = LastPkt /\ LastPkt \in Nat
      BY FramesFollow
    <3>2. CASE f = FrameTotal
      BY <3>1, <3>2, <1>2, <2>1
    <3>3. CASE f # FrameTotal
      <4>1. f < FrameTotal
        BY <1>2, <3>1, <3>3
      <4>2. Final(f) < First(FrameTotal) /\ First(FrameTotal) <= Final(FrameTotal) /\ First(FrameTotal) \in Nat /\ Final(f) \in Nat
        BY <1>2, <3>1, <4>1, FramesFollow, FrameNumbers
      <4> QED BY <3>1, <4>2
    <3> QED BY <3>2, <3>3
  <2>4. Final(f) \in Nat /\ LastPkt \in Nat
    BY <1>2, FrameNumbers, FramesFollow
  <2> QED BY <2>2, <2>3, <2>4 DEF Pkts
<1>6. FrameOf(n) = f
  BY <1>2, <1>5, FrameOfPacket
<1>7. S!uint16Add(snd, 1) = n
  <2>1. snd = Count /\ n <= LastPkt
    BY <1>5 DEF Sending, Pkts
  <2>2. n % HG_SEQ_MAX_NUM = n
    <3>1. n < HG_SEQ_MAX_NUM
      BY <1>5, <2>1, Sixteen
    <3>2. \A a \in Nat, c \in Nat \ {0} : a < c => a % c = a
      BY Remainder
    <3>3. HG_SEQ_MAX_NUM \in Nat \ {0} /\ n \in Nat
      BY <1>5, Sixteen
    <3> QED BY <3>1, <3>2, <3>3
  <2> QED BY <2>1, <2>2 DEF S!uint16Add
<1>8. S!tail = TailOf[n]
  <2>1. TailOf[n] = IF n = First(f) THEN IF n = Final(f) THEN 0 ELSE 2 ELSE IF n = Final(f) THEN 3 ELSE 1
    BY <1>5, <1>6, FlagOf DEF IsFirst, IsFinal
  <2>2. (n = First(f) <=> copied = 0) /\ (n = Final(f) <=> copied = Size(f) - 1)
    BY <1>2 DEF Final
  <2>3. S!tail = IF copied = 0 THEN IF 1 >= Size(f) THEN 0 ELSE 2 ELSE IF 1 >= Size(f) - copied THEN 3 ELSE 1
    BY <1>2, <1>4 DEF S!tail, S!Alone, S!Begin, S!End, S!Middle
  <2> QED BY <1>2, <1>3, <2>1, <2>2, <2>3
<1>9. p = Sent(n)
  <2>1. n - First(FrameOf(n)) = copied
    BY <1>2, <1>6
  <2> QED BY <1>2, <1>4, <1>6, <1>7, <1>8, <2>1 DEF Sent
<1> HIDE DEF p
<1>10. /\ posted' \in Seq({Sent(k) : k \in Pkts}) /\ Len(posted') = Count + 1
       /\ \A k \in 1..Count+1 : posted'[k] = IF k = Count + 1 THEN Sent(n) ELSE posted[k]
  <2>1. Sent(n) \in {Sent(k) : k \in Pkts} /\ posted \in Seq({Sent(k) : k \in Pkts})
    BY <1>5 DEF Sending
  <2> QED BY <1>1, <1>9, <2>1, AppendProperties DEF Count
<1>11. \A k \in 1..Count+1 : posted'[k] = Sent(k)
  <2> TAKE k \in 1..Count+1
  <2>1. CASE k = Count + 1
    BY <2>1, <1>10
  <2>2. CASE k # Count + 1
    <3>1. k \in 1..Count
      BY <2>2, <1>2
    <3> QED BY <2>2, <3>1, <1>10 DEF Sending
  <2> QED BY <2>1, <2>2
<1>12. Kept' = Kept \cup {Sent(n)}
  <2>1. Kept' = {S!NoPacket} \cup {Sent(k) : k \in 1..Count+1}
    BY <1>10 DEF Kept, Count, Sent, S!NoPacket
  <2>2. 1..Count+1 = (1..Count) \cup {n}
    BY <1>2
  <2> QED BY <2>1, <2>2 DEF Kept
<1>13. /\ sendcache' = [sendcache EXCEPT ![S!Slot(p.seq)] = p]
       /\ sndmax' = IF S!uint16Sub(p.seq, sndmax) > 0 THEN p.seq ELSE sndmax
       /\ released' = released \cup S!Owns(sendcache[S!Slot(p.seq)])
  BY <1>1 DEF S!ClearPacketWrBufer
<1>14. p.seq = n
  BY <1>9 DEF Sent
<1>15. sndmax' = n
  <2>1. sndmax = Count
    BY DEF Sending
  <2>2. S!uint16Sub(n, Count) = 1
    BY <1>2, Sixteen DEF S!uint16Sub, S!Half, Half
  <2> QED BY <1>13, <1>14, <2>1, <2>2
<1>16. sendcache' \in [S!Slots -> Kept']
  <2>1. sendcache \in [S!Slots -> Kept']
    BY <1>12 DEF Sending
  <2> QED BY <1>9, <1>12, <1>13, <2>1
<1>17. released' \subseteq 1..f
  <2>1. released \subseteq 1..f
    BY DEF Sending
  <2> QED BY <1>13, <2>1 DEF S!Owns, S!Frames
<1>18. answer' \in [asked : S!Seqs \cup {-1}, behind : 0..HG_CONN_CACHE_LEN, got : Kept', live : BOOLEAN]
  BY <1>1, <1>12 DEF Sending
<1>19. /\ node' = 1 /\ copied' = sendsize' /\ copied' <= Size(f) /\ Count + 1 = First(f) - 1 + copied'
       /\ sendsize' \in Nat
  BY <1>1, <1>2, <1>3, <1>4
<1>20. snd' = n
  BY <1>1, <1>14
<1>21. Count' = Count + 1 /\ chains' = chains /\ Len(chains') = f /\ f # 0
  BY <1>1, <1>2, <1>10 DEF Count
<1>22. Count + 1 <= LastPkt
  BY <1>5 DEF Pkts
<1>23. Sending'
  BY <1>10, <1>11, <1>15, <1>16, <1>17, <1>18, <1>19, <1>20, <1>21, <1>22 DEF Sending
<1> QED BY <1>1, <1>5, <1>9, <1>21, <1>23

-----------------------------------------------------------------------------
(* Retransmit: the sender and the network                                  *)

\* The sender, what is under way and what has failed.
Outside ==
  /\ Sending
  /\ \A m \in net : Genuine(m, Count)
  /\ lost \in Nat /\ twice \in Nat /\ lost + twice <= MaxFaults /\ twice <= MaxTwice
  /\ failed \subseteq Pkts

\* A packet that was asked for is on its way: the request, or the answer.
Repairing(q) ==
  q \in failed \/ Request(q) \in net \/ (q \in 1..Count /\ Answer(Sent(q), q) \in net)

\* What becomes of a request.
LEMMA RepostStep ==
  ASSUME Outside, NEW m \in net, Repost(m)
  PROVE  LET q == pktSeq(m.head) IN
         /\ q \in Pkts /\ m = Request(q) /\ Sending' /\ posted' = posted /\ chains' = chains
         /\ failed \subseteq failed' /\ failed' \subseteq failed \cup {q}
         /\ \/ Reply(m) = {} /\ q \in failed'
            \/ \E n \in 1..Count : Reply(m) = {Answer(Sent(n), n)} /\ (n = q \/ q \in failed')
<1> DEFINE q == pktSeq(m.head)
           p == sendcache[S!Slot(q)]
<1>1. /\ IsRequest(m) /\ S!Repost(q) /\ UNCHANGED <<receiver, lost, stamping, overrun>>
      /\ failed' = failed \cup ({q} \ {answer'.got.seq})
  BY DEF Repost
<1>2. Count \in 0..LastPkt /\ Count \in Nat
  BY PostedFrames DEF Outside
<1>3. q \in Pkts /\ m = Request(q)
  BY <1>1, <1>2, Reads DEF Outside
<1>4. q \in Nat \ {0} /\ q <= LastPkt /\ q \in S!Seqs
  BY <1>3, Sixteen DEF Pkts, S!Seqs
<1>5. p \in Kept
  <2>1. S!Slot(q) \in S!Slots
    <3>1. \A a \in Nat, c \in Nat \ {0} : a % c \in 0..c-1
      BY Remainder
    <3>2. q \in Nat /\ HG_CONN_CACHE_LEN \in Nat \ {0}
      BY <1>4, Sixteen
    <3> QED BY <3>1, <3>2 DEF S!Slot, S!Slots
  <2> QED BY <2>1 DEF Outside, Sending
<1>6. /\ answer' = IF S!InCache(q) /\ p # S!NoPacket
                   THEN [asked |-> q, behind |-> S!uint16Sub(sndmax, q), got |-> p,
                         live |-> p.frame \notin released]
                   ELSE S!NoAnswer
      /\ UNCHANGED <<chains, node, copied, sendsize, snd, sndmax, sendcache, released, posted>>
  BY <1>1 DEF S!Repost, S!sending
<1> HIDE DEF p
<1>7. answer' = S!NoAnswer
      \/ \E n \in 1..Count : answer'.got = Sent(n) /\ answer' # S!NoAnswer
  <2>1. CASE S!InCache(q) /\ p # S!NoPacket
    <3>1. answer'.got = p
      BY <1>6, <2>1
    <3>2. PICK n \in 1..Count : p = Sent(n)
      BY <1>5, <2>1 DEF Kept
    <3> QED BY <3>1, <3>2
  <2>2. CASE ~(S!InCache(q) /\ p # S!NoPacket)
    BY <1>6, <2>2
  <2> QED BY <2>1, <2>2
<1>8. Sending'
  <2>1. S!NoPacket \in Kept
    BY DEF Kept
  <2>2. 0 \in 0..HG_CONN_CACHE_LEN /\ -1 \in S!Seqs \cup {-1}
    BY Sixteen
  <2>3. S!InCache(q) => S!uint16Sub(sndmax, q) \in 0..HG_CONN_CACHE_LEN
    <3>1. S!uint16Sub(sndmax, q) \in Int
      <4>1. sndmax \in Nat /\ q \in Nat /\ HG_SEQ_MAX_NUM \in Nat
        BY <1>2, <1>4, Sixteen DEF Outside, Sending
      <4> QED BY <4>1 DEF S!uint16Sub
    <3> QED BY <3>1, Sixteen DEF S!InCache
  <2>4. answer' \in [asked : S!Seqs \cup {-1}, behind : 0..HG_CONN_CACHE_LEN, got : Kept, live : BOOLEAN]
    <3>1. CASE S!InCache(q) /\ p # S!NoPacket
      BY <1>4, <1>5, <1>6, <2>3, <3>1
    <3>2. CASE ~(S!InCache(q) /\ p # S!NoPacket)
      BY <1>6, <2>1, <2>2, <3>2 DEF S!NoAnswer
    <3> QED BY <3>1, <3>2
  <2>5. Kept' = Kept /\ Count' = Count
    BY <1>6 DEF Kept, Count
  <2> QED BY <1>6, <2>4, <2>5 DEF Outside, Sending
<1>9. CASE answer' = S!NoAnswer
  <2>1. Reply(m) = {}
    BY <1>9 DEF Reply
  <2>2. answer'.got.seq = -1
    BY <1>9 DEF S!NoAnswer, S!NoPacket
  <2>3. q \in failed'
    BY <1>1, <1>4, <2>2
  <2> QED BY <1>1, <1>3, <1>6, <1>8, <2>1, <2>3
<1>10. CASE answer' # S!NoAnswer
  <2>1. PICK n \in 1..Count : answer'.got = Sent(n)
    BY <1>7, <1>10
  <2>2. posted[n] = Sent(n) /\ DOMAIN posted = 1..Count /\ \A k \in 1..Count : posted[k].seq = k
    <3>1. DOMAIN posted = 1..Count
      BY LenProperties DEF Outside, Sending, Count
    <3> QED BY <3>1 DEF Outside, Sending, Sent
  <2>3. Sent(n).seq = n
    BY DEF Sent
  <2>4. Position(answer'.got) = n
    BY <2>1, <2>2, <2>3 DEF Position
  <2>5. Reply(m) = {Answer(Sent(n), n)}
    BY <1>10, <2>1, <2>4 DEF Reply
  <2>6. n = q \/ q \in failed'
    BY <1>1, <2>1, <2>3
  <2> QED BY <1>1, <1>3, <1>6, <1>8, <2>5, <2>6
<1> QED BY <1>9, <1>10

\* More packets, more messages.
LEMMA GenuineGrows ==
  ASSUME NEW c \in Nat, NEW k \in Nat, c <= k, NEW m, Genuine(m, c)
  PROVE  Genuine(m, k)
BY DEF Genuine

\* A step of the sender or a loss: the receiver stays as it is, and what was
\* being repaired goes on being repaired.
SenderSteps == SendData \/ Post \/ NextNode \/ \E m \in net : Repost(m) \/ Lose(m)

\* Neither changes what the receiver has.
LEMMA OutsideStep ==
  ASSUME Outside, SenderSteps
  PROVE  /\ Outside' /\ stage = "idle" /\ UNCHANGED <<receiver, stamping, overrun>>
         /\ Count <= Count' /\ failed \subseteq failed' /\ Len(chains) <= Len(chains')
         /\ \A q \in Pkts : Repairing(q) => Repairing(q)'
<1>1. Count \in 0..LastPkt /\ Count \in Nat /\ Len(chains) \in Nat
  BY PostedFrames DEF Outside
<1>2. \A k : Sent(k)' = Sent(k)
  BY DEF Sent, FrameOf, TailOf, First
<1>3. CASE SendData \/ NextNode
  <2>1. (S!SendData /\ chains' = Append(chains, <<Len(Content[Len(chains) + 1])>>)) \/ S!NextNode
    BY <1>3 DEF SendData, NextNode
  <2>2. /\ NoPass /\ UNCHANGED <<receiver, stamping, overrun>>
        /\ net' = net /\ lost' = lost /\ twice' = twice /\ failed' = failed
    BY <1>3 DEF SendData, NextNode, faults, outcome
  <2>3. Sending' /\ posted' = posted /\ Len(chains) <= Len(chains')
    BY <1>1, <2>1, SendDataSending, NextNodeSending DEF Outside
  <2>4. Count' = Count
    BY <2>3 DEF Count
  <2>5. \A m \in net' : Genuine(m, Count')
    BY <2>2, <2>4 DEF Outside
  <2>6. Outside'
    BY <2>2, <2>3, <2>5 DEF Outside, Genuine, Pkts
  <2>7. \A q \in Pkts : Repairing(q) => Repairing(q)'
    BY <2>2, <2>4 DEF Repairing, Request, Sent
  <2> QED BY <1>1, <2>2, <2>3, <2>4, <2>6, <2>7 DEF NoPass
<1>4. CASE Post
  <2>1. /\ NoPass /\ S!Post /\ net' = net \cup {Packet(Last(posted'), Len(posted'))}
        /\ UNCHANGED <<receiver, stamping, overrun>>
        /\ lost' = lost /\ twice' = twice /\ failed' = failed
    BY <1>4 DEF Post, faults, outcome
  <2>2. /\ Sending' /\ Count' = Count + 1 /\ Count + 1 \in Pkts /\ chains' = chains
        /\ posted' = Append(posted, Sent(Count + 1))
    BY <2>1, PostSending DEF Outside
  <2>3. Last(posted') = Sent(Count + 1) /\ Len(posted') = Count + 1
    <3>1. posted'[Count+1] = Sent(Count+1)
      BY <1>1, <2>2, AppendProperties DEF Outside, Sending, Count
    <3> QED BY <2>2, <3>1 DEF Last, Count
  <2>4. \A m \in net' : Genuine(m, Count')
    <3> TAKE m \in net'
    <3>1. CASE m \in net
      BY <3>1, <1>1, <2>2, GenuineGrows DEF Outside
    <3>2. CASE m = Packet(Sent(Count+1), Count+1)
      BY <3>2, <1>1, <2>2 DEF Genuine, Carries
    <3> QED BY <2>1, <2>3, <3>1, <3>2
  <2>5. Outside'
    BY <2>1, <2>2, <2>4 DEF Outside
  <2>6. \A q \in Pkts : Repairing(q) => Repairing(q)'
    <3>1. \A q : q \in 1..Count => q \in 1..Count'
      BY <1>1, <2>2
    <3>2. net \subseteq net' /\ failed' = failed
      BY <2>1
    <3> QED BY <1>2, <3>1, <3>2, Zenon DEF Repairing, Request, Answer
  <2> QED BY <1>1, <2>1, <2>2, <2>5, <2>6 DEF NoPass
<1>5. ASSUME NEW m \in net, Repost(m)
      PROVE  /\ Outside' /\ stage = "idle" /\ UNCHANGED <<receiver, stamping, overrun>>
             /\ Count <= Count' /\ failed \subseteq failed' /\ Len(chains) <= Len(chains')
             /\ \A q \in Pkts : Repairing(q) => Repairing(q)'
  <2> DEFINE r == pktSeq(m.head)
  <2>1. /\ NoPass /\ UNCHANGED <<receiver, stamping, overrun>> /\ lost' = lost
        /\ \/ net' = (net \ {m}) \cup Reply(m) /\ UNCHANGED twice
           \/ MayRepeat /\ twice' = twice + 1 /\ net' = net \cup Reply(m)
    BY <1>5 DEF Repost
  <2>2. /\ r \in Pkts /\ m = Request(r) /\ Sending' /\ posted' = posted /\ chains' = chains
        /\ failed \subseteq failed' /\ failed' \subseteq failed \cup {r}
        /\ \/ Reply(m) = {} /\ r \in failed'
           \/ \E n \in 1..Count : Reply(m) = {Answer(Sent(n), n)} /\ (n = r \/ r \in failed')
    BY <1>5, RepostStep
  <2>3. Count' = Count
    BY <2>2 DEF Count
  <2>4. \A x \in net' : Genuine(x, Count')
    <3> TAKE x \in net'
    <3>1. CASE x \in net
      BY <3>1, <2>3 DEF Outside
    <3>2. CASE x \in Reply(m)
      BY <3>2, <2>2, <2>3 DEF Genuine, Carries
    <3> QED BY <2>1, <3>1, <3>2
  <2>5. twice' \in Nat /\ lost' + twice' <= MaxFaults /\ twice' <= MaxTwice
    BY <2>1, Sixteen DEF Outside, MayRepeat
  <2>6. Outside'
    BY <2>1, <2>2, <2>4, <2>5 DEF Outside
  <2>7. ASSUME NEW q \in Pkts, Repairing(q) PROVE Repairing(q)'
    <3>1. CASE q \in failed
      BY <3>1, <2>2 DEF Repairing
    <3>2. CASE Request(q) \in net /\ Request(q) # m
      BY <3>2, <2>1 DEF Repairing, Request
    <3>3. CASE Request(q) = m
      <4>1. q = r
        BY <3>3, RequestHead
      <4>2. CASE q \in failed'
        BY <4>2 DEF Repairing
      <4>3. CASE q \in 1..Count /\ Reply(m) = {Answer(Sent(q), q)}
        <5>1. Answer(Sent(q), q) \in net' /\ q \in 1..Count'
          BY <4>3, <2>1, <2>3
        <5> QED BY <5>1 DEF Repairing, Answer, Sent
      <4> QED BY <2>2, <4>1, <4>2, <4>3
    <3>4. CASE q \in 1..Count /\ Answer(Sent(q), q) \in net
      <4>1. Answer(Sent(q), q) # m
        <5>1. pktCmd(Answer(Sent(q), q).head) = 2 /\ pktCmd(m.head) = 3
          BY <2>2, PacketHead, RequestHead
        <5> QED BY <5>1
      <4>2. Answer(Sent(q), q) \in net' /\ q \in 1..Count'
        BY <2>1, <2>3, <3>4, <4>1
      <4> QED BY <4>2 DEF Repairing, Answer, Sent
    <3> QED BY <2>7, <3>1, <3>2, <3>3, <3>4 DEF Repairing
  <2> QED BY <1>1, <2>1, <2>2, <2>3, <2>6, <2>7 DEF NoPass
<1>6. ASSUME NEW m \in net, Lose(m)
      PROVE  /\ Outside' /\ stage = "idle" /\ UNCHANGED <<receiver, stamping, overrun>>
             /\ Count <= Count' /\ failed \subseteq failed' /\ Len(chains) <= Len(chains')
             /\ \A q \in Pkts : Repairing(q) => Repairing(q)'
  <2>1. /\ NoPass /\ UNCHANGED <<receiver, stamping, overrun>> /\ lost + twice < MaxFaults
        /\ lost' = lost + 1 /\ twice' = twice /\ net' = net \ {m} /\ UNCHANGED sender
        /\ failed' = IF pktCmd(m.head) = 1 THEN failed ELSE failed \cup {pktSeq(m.head)}
    BY <1>6 DEF Lose, enum_RTP_CMD_POST
  <2>2. Count' = Count /\ Kept' = Kept /\ chains' = chains /\ posted' = posted
    BY <2>1 DEF sender, Count, Kept
  <2>3. Sending'
    BY <2>1, <2>2 DEF Outside, Sending, sender
  <2>4. pktSeq(m.head) \in Pkts
    BY <1>1, Reads DEF Outside
  <2>5. \A x \in net' : Genuine(x, Count')
    BY <2>1, <2>2 DEF Outside
  <2>6. Outside'
    BY <2>1, <2>3, <2>4, <2>5, Sixteen DEF Outside
  <2>7. ASSUME NEW q \in Pkts, Repairing(q) PROVE Repairing(q)'
    <3>1. CASE q \in failed
      BY <3>1, <2>1 DEF Repairing
    <3>2. CASE Request(q) \in net
      <4>1. pktCmd(Request(q).head) # 1 /\ pktSeq(Request(q).head) = q
        BY RequestHead
      <4>2. Request(q) \in net' \/ q \in failed'
        BY <2>1, <3>2, <4>1
      <4> QED BY <4>2 DEF Repairing, Request
    <3>3. CASE q \in 1..Count /\ Answer(Sent(q), q) \in net
      <4>1. pktCmd(Answer(Sent(q), q).head) # 1 /\ pktSeq(Answer(Sent(q), q).head) = q
        BY PacketHead
      <4>2. Answer(Sent(q), q) \in net' \/ q \in failed'
        BY <2>1, <3>3, <4>1
      <4> QED BY <2>2, <3>3, <4>2 DEF Repairing, Answer, Sent
    <3> QED BY <2>7, <3>1, <3>2, <3>3 DEF Repairing
  <2> QED BY <1>1, <2>1, <2>2, <2>6, <2>7 DEF NoPass
<1> QED BY <1>3, <1>4, <1>5, <1>6 DEF SenderSteps

-----------------------------------------------------------------------------
(* Retransmit: the receiver                                                *)

\* The hypothesis: the numbers compare as the packets do, and the mark of a
\* stream without packets is none of them.
Short == LastPkt <= Half /\ NoSeq \notin 1..LastPkt+1

\* What the cache has for a number.
At(q)   == q % HG_CONN_CACHE_LEN
Pkt(i)  == cache[i].pkt
Time(i) == cache[i].time

\* The receiver's numbers, in order; a packet is in its slot.
Receiving ==
  /\ cur \in (1..LastPkt+1) \cup {NoSeq} /\ max \in 0..Count /\ seq \in 0..LastPkt+1
  /\ cache \in [R!Slots -> [pkt : Pkts \cup {R!None}, time : -1..Expiry]]
  /\ big \in Seq(Pkts) /\ stage \in {"idle", "find"} /\ isfull \in BOOLEAN /\ novalue \in Nat
  /\ taken \in Seq(Pkts) /\ frames \in Seq(Seq(Pkts)) /\ asked \in Seq(Nat)
  /\ stranded \in BOOLEAN /\ overrun \in BOOLEAN
  /\ pts \in Nat /\ stamps \in Seq(Nat) /\ Len(stamps) = Len(frames)
  /\ cur = NoSeq => /\ stage = "idle" /\ max = 0 /\ big = <<>>
                    /\ taken = <<>> /\ frames = <<>> /\ asked = <<>>
                    /\ \A i \in R!Slots : Pkt(i) = R!None /\ Time(i) = R!None
  /\ cur # NoSeq => cur <= max + 1
  /\ stage = "find" => cur # NoSeq /\ seq \in cur..max+1 /\ (isfull => seq = cur /\ novalue = 0)
  /\ \A i \in R!Slots : Pkt(i) # R!None => Pkt(i) <= max /\ At(Pkt(i)) = i
  /\ \A k \in 1..Len(asked) : asked[k] <= max

\* The arrival of a packet, as far as FindUseful.
Arriving(m, n) ==
  /\ n \in 1..Count /\ n \in Pkts /\ Carries(m, n)
  /\ stage = "idle" /\ stage' = "find" /\ seq' = cur' /\ isfull' = TRUE /\ novalue' = 0
  /\ cur' = (IF cur = NoSeq THEN n ELSE cur)
  /\ net' \subseteq net /\ net \ {m} \subseteq net'
  /\ twice' \in Nat /\ lost' = lost /\ lost + twice' <= MaxFaults /\ twice' <= MaxTwice
  /\ UNCHANGED <<sender, stamps, failed, big, taken, frames, asked, stranded>>
  /\ pts' = FrameOf(n)
  /\ overrun' = (overrun \/ n >= cur' + HG_CONN_CACHE_LEN)
  /\ cache' \in [R!Slots -> [pkt : Pkts \cup {R!None}, time : -1..Expiry]]
  /\ \A i \in R!Slots : Time(i)' = Time(i)
  /\ \/ /\ cur' <= n /\ Pkt(At(n)) = R!None /\ max' = (IF n > max THEN n ELSE max)
        /\ \A i \in R!Slots : Pkt(i)' = IF i = At(n) THEN n ELSE Pkt(i)
     \/ /\ n < cur' \/ Pkt(At(n)) # R!None
        /\ max' = max /\ cache' = cache

\* What every step of a pass has in common.
Looking ==
  /\ stage = "find" /\ cur # NoSeq /\ UNCHANGED <<sender, faults, overrun, max>>
  /\ cache' \in [R!Slots -> [pkt : Pkts \cup {R!None}, time : -1..Expiry]]

\* The slot looked at is emptied.
Emptied ==
  \A i \in R!Slots : /\ Pkt(i)' = IF i = At(seq) THEN R!None ELSE Pkt(i)
                     /\ Time(i)' = IF i = At(seq) THEN R!None ELSE Time(i)

\* MergeData: a frame is handed on, begun, continued or dropped; one of one
\* packet with its timestamp cleared.
Merging(p) ==
  \/ /\ TailOf[p] = 0 /\ big' = <<>> /\ pts' = 0
     /\ frames' = Append(frames, <<p>>) /\ stamps' = Append(stamps, 0)
  \/ /\ TailOf[p] = 3 /\ big' = <<>> /\ pts' = pts
     /\ frames' = Append(frames, Append(big, p)) /\ stamps' = Append(stamps, pts)
  \/ /\ frames' = frames /\ stamps' = stamps /\ pts' \in {0, pts}
     /\ \/ big' = <<>>
        \/ TailOf[p] = 2 /\ big' = <<p>>
        \/ TailOf[p] = 1 /\ big' = Append(big, p)

\* The packet awaited is there.
Taking ==
  /\ seq = cur /\ seq <= max /\ isfull /\ Pkt(At(cur)) # R!None
  /\ cur' = cur + 1 /\ seq' = cur + 1 /\ Emptied /\ taken' = Append(taken, Pkt(At(cur)))
  /\ Merging(Pkt(At(cur)))
  /\ UNCHANGED <<stage, isfull, novalue, asked, stranded, net, failed>>

\* What is not the next in line: nothing comes out.
Passing ==
  /\ seq <= max /\ seq' = seq + 1 /\ isfull' = FALSE /\ novalue' \in Nat
  /\ UNCHANGED <<stage, taken, frames, stamps>>

\* A packet waits behind a gap.
Holding ==
  /\ Passing /\ ~isfull /\ Pkt(At(seq)) # R!None
  /\ UNCHANGED <<cur, cache, big, pts, asked, stranded, net, failed>>

\* A packet is missing and is asked for.
Requesting ==
  /\ Passing /\ Pkt(At(seq)) = R!None /\ Time(At(seq)) = R!None
  /\ \A i \in R!Slots : /\ Pkt(i)' = Pkt(i)
                        /\ Time(i)' = IF i = At(seq) THEN 0 ELSE Time(i)
  /\ asked' = Append(asked, seq) /\ net' = net \cup {Request(seq)}
  /\ UNCHANGED <<cur, big, pts, stranded, failed>>

\* It was asked for.
Waiting ==
  /\ Passing /\ Pkt(At(seq)) = R!None /\ Time(At(seq)) # R!None
  /\ UNCHANGED <<cur, cache, big, pts, asked, stranded, net, failed>>

\* It was asked for in vain; what lies before it is empty, or is left behind.
GivingUp ==
  /\ Passing /\ Pkt(At(seq)) = R!None /\ Time(At(seq)) # R!None
  /\ cur' = seq + 1 /\ big' = <<>> /\ pts' = 0 /\ Emptied
  /\ stranded' \in BOOLEAN /\ (stranded => stranded')
  /\ ~stranded' => \A q \in cur..seq-1 : Pkt(At(q)) = R!None /\ Time(At(q)) = R!None
  /\ failed' = IF TooLate(seq) THEN failed \cup {seq} ELSE failed
  /\ UNCHANGED <<asked, net>>

\* The end of the pass.
Stopping ==
  /\ stage' = "idle" /\ seq' = 0 /\ isfull' = TRUE /\ novalue' = 0
  /\ seq > max \/ ~isfull
  /\ UNCHANGED <<cur, cache, big, pts, taken, frames, asked, stranded, stamps, net, failed>>

-----------------------------------------------------------------------------

\* Comparing numbers compares the packets.
LEMMA Compare ==
  ASSUME NEW a \in Nat, NEW b \in Nat, a - b <= Half, b - a <= Half
  PROVE  R!uint16Sub(a, b) = (IF a >= b THEN a - b ELSE -1) /\ uint16Sub(a, b) = R!uint16Sub(a, b)
<1>1. HG_SEQ_MAX_NUM \in Nat /\ Half \in Nat /\ HG_SEQ_MAX_NUM = 2 * Half + 1
  BY Sixteen
<1>2. R!uint16Sub(a, b) = (LET ret == IF a < b THEN a + HG_SEQ_MAX_NUM - b ELSE a - b
                           IN  IF ret > Half THEN -1 ELSE ret)
  BY DEF R!uint16Sub, R!Half, Half
<1>3. uint16Sub(a, b) = R!uint16Sub(a, b)
  BY DEF R!uint16Sub, R!Half, Half, uint16Sub
<1> QED BY <1>1, <1>2, <1>3

\* No number wraps.
LEMMA Unwrapped ==
  ASSUME Short, NEW n \in 0..LastPkt+1
  PROVE  /\ R!Wire(n) = n /\ n \in R!Seqs /\ n \in Nat
         /\ n <= LastPkt => R!uint16Add(n, 1) = n + 1
<1>1. HG_SEQ_MAX_NUM \in Nat \ {0} /\ Half \in Nat \ {0} /\ HG_SEQ_MAX_NUM = 2 * Half + 1 /\ LastPkt \in Nat
  BY Sixteen
<1>2. n < HG_SEQ_MAX_NUM /\ n \in Nat /\ (n <= LastPkt => n + 1 < HG_SEQ_MAX_NUM)
  BY <1>1 DEF Short
<1>3. \A a \in Nat, c \in Nat \ {0} : a < c => a % c = a
  BY Remainder
<1>4. n % HG_SEQ_MAX_NUM = n /\ (n <= LastPkt => (n + 1) % HG_SEQ_MAX_NUM = n + 1)
  BY <1>1, <1>2, <1>3
<1> QED BY <1>1, <1>2, <1>4 DEF R!Wire, R!uint16Add, R!Seqs

\* Slots: every packet has one, and those closer than the cache is long have not
\* the same.
LEMMA Places ==
  /\ HG_CONN_CACHE_LEN \in Nat \ {0} /\ R!Slots = 0..HG_CONN_CACHE_LEN-1
  /\ \A q \in Nat : At(q) \in R!Slots /\ R!Slot(q) = At(q) /\ At(q + HG_CONN_CACHE_LEN) = At(q)
  /\ \A x, y \in Nat : x < y /\ y - x < HG_CONN_CACHE_LEN => At(x) # At(y)
<1>1. HG_CONN_CACHE_LEN \in Nat \ {0}
  BY Sixteen
<1>2. \A a \in Nat, c \in Nat \ {0} : a % c \in 0..c-1
  BY Remainder
<1>3. \A q \in Nat : q % HG_CONN_CACHE_LEN \in 0..HG_CONN_CACHE_LEN-1
  BY <1>1, <1>2
<1>4. \A q \in Nat : (q + HG_CONN_CACHE_LEN) % HG_CONN_CACHE_LEN = q % HG_CONN_CACHE_LEN
  BY <1>1, RemainderRepeats
<1>5. \A x, y \in Nat : x < y /\ y - x < HG_CONN_CACHE_LEN => x % HG_CONN_CACHE_LEN # y % HG_CONN_CACHE_LEN
  BY <1>1, RemaindersDiffer
<1> QED BY <1>1, <1>3, <1>4, <1>5 DEF At, R!Slot, R!Slots

\* The slot of a number that is awaited or looked at.
LEMMA NumberTypes ==
  ASSUME Short, Outside, Receiving
  PROVE  /\ Count \in Nat /\ Count <= LastPkt /\ LastPkt \in Nat /\ max \in Nat /\ seq \in Nat
         /\ cur # NoSeq => cur \in Nat \ {0} /\ cur <= LastPkt + 1
         /\ 1..LastPkt = Pkts /\ HG_CONN_CACHE_LEN \in Nat \ {0} /\ R!None = -1
         /\ \A i \in R!Slots : /\ Pkt(i) \in Pkts \cup {R!None} /\ Time(i) \in -1..Expiry
                               /\ cache[i] = [pkt |-> Pkt(i), time |-> Time(i)]
                               /\ Pkt(i) # R!None => Pkt(i) \in Nat \ {0}
<1>1. Count \in 0..LastPkt /\ Count \in Nat /\ LastPkt \in Nat /\ HG_CONN_CACHE_LEN \in Nat \ {0}
  BY PostedFrames, Sixteen DEF Outside
<1>2. \A i \in R!Slots : cache[i] \in [pkt : Pkts \cup {R!None}, time : -1..Expiry]
  BY DEF Receiving
<1>3. \A i \in R!Slots : /\ Pkt(i) \in Pkts \cup {R!None} /\ Time(i) \in -1..Expiry
                         /\ cache[i] = [pkt |-> Pkt(i), time |-> Time(i)]
  BY <1>2 DEF Pkt, Time
<1>4. \A i \in R!Slots : Pkt(i) # R!None => Pkt(i) \in Nat \ {0}
  <2>1. \A x \in Pkts : x \in Nat \ {0}
    BY <1>1 DEF Pkts
  <2> QED BY <1>3, <2>1
<1> QED BY <1>1, <1>3, <1>4 DEF Receiving, Pkts, R!None

\* threadPOOLRecv in plain numbers.
LEMMA ArrivalPlain ==
  ASSUME Short, Outside, Receiving, NEW m \in net, threadPOOLRecv(m)
  PROVE  Arriving(m, m.body)
<1> DEFINE n == m.body
           i == At(n)
<1>1. /\ Count \in Nat /\ Count <= LastPkt /\ LastPkt \in Nat /\ max \in Nat
      /\ cur # NoSeq => cur \in Nat \ {0} /\ cur <= LastPkt + 1
      /\ Half \in Nat /\ LastPkt <= Half /\ HG_CONN_CACHE_LEN \in Nat \ {0}
  BY NumberTypes, Sixteen DEF Short
<1>2. /\ IsPacket(m) /\ Arrives(m) /\ UNCHANGED <<sender, lost, stamps, failed>>
      /\ R!threadPOOLRecv(n) /\ Stamp(m)
      /\ overrun' = (overrun \/ uint16Sub(pktSeq(m.head), cur') >= HG_CONN_CACHE_LEN)
  BY DEF threadPOOLRecv
<1>3. n \in 1..Count /\ n \in Pkts /\ Carries(m, n) /\ pktSeq(m.head) = n /\ pktTimestamp(m.head) = FrameOf(n)
  <2>1. Count \in 0..LastPkt /\ Genuine(m, Count)
    BY <1>1 DEF Outside
  <2> QED BY <1>2, <2>1, Reads
<1>4. n \in Nat \ {0} /\ n <= LastPkt /\ i \in R!Slots
  <2>1. n \in Nat \ {0} /\ n <= LastPkt
    BY <1>1, <1>3 DEF Pkts
  <2> QED BY <2>1, Places
<1>5. R!Wire(n) = n /\ R!Slot(n) = i
  <2>1. n \in 0..LastPkt+1
    BY <1>1, <1>4
  <2>2. n \in Nat /\ R!Wire(n) = n
    BY <2>1, Unwrapped
  <2>3. R!Slot(n) = i
    BY <2>2, Places
  <2> QED BY <2>2, <2>3
<1>6. R!Awaited(n) = IF cur = NoSeq THEN n ELSE cur
  BY <1>5 DEF R!Awaited
<1> DEFINE a == IF cur = NoSeq THEN n ELSE cur
<1>7. a \in Nat \ {0} /\ a <= LastPkt + 1
  BY <1>1, <1>4
<1> HIDE DEF n, i, a
<1>8. /\ stage = "idle" /\ cur' = a /\ stage' = "find" /\ seq' = a /\ isfull' = TRUE /\ novalue' = 0
      /\ UNCHANGED <<big, taken, frames, asked, stranded>>
      /\ \/ R!Stores(n) /\ R!WriteTocache(n)
         \/ ~R!Stores(n) /\ UNCHANGED <<cache, max>>
  BY <1>2, <1>6 DEF R!threadPOOLRecv, R!history, a
<1>9. R!Stores(n) <=> a <= n /\ Pkt(i) = R!None
  <2>1. R!uint16Sub(a, n) = IF a >= n THEN a - n ELSE -1
    BY <1>1, <1>4, <1>7, Compare
  <2>2. R!Stores(n) <=> R!uint16Sub(a, n) <= 0 /\ Pkt(i) = R!None
    BY <1>5, <1>6 DEF R!Stores, Pkt, a
  <2> QED BY <1>4, <1>7, <2>1, <2>2
<1>10. uint16Sub(n, a) = IF n >= a THEN n - a ELSE -1
  BY <1>1, <1>4, <1>7, Compare
<1>11. overrun' = (overrun \/ n >= a + HG_CONN_CACHE_LEN)
  <2>1. uint16Sub(n, a) >= HG_CONN_CACHE_LEN <=> n >= a + HG_CONN_CACHE_LEN
    BY <1>1, <1>4, <1>7, <1>10
  <2>2. overrun' = (overrun \/ uint16Sub(n, a) >= HG_CONN_CACHE_LEN)
    BY <1>2, <1>3, <1>8 DEF n
  <2> QED BY <2>1, <2>2
<1>12. R!WriteTocache(n) =>
         /\ max' = IF n > max THEN n ELSE max
         /\ cache' = [cache EXCEPT ![i].pkt = n]
  <2>1. R!uint16Sub(n, max) = IF n >= max THEN n - max ELSE -1
    <3>1. n - max <= Half /\ max - n <= Half
      BY <1>1, <1>4 DEF Receiving
    <3> QED BY <1>1, <1>4, <3>1, Compare
  <2>2. R!uint16Sub(n, max) > 0 <=> n > max
    BY <1>1, <1>4, <2>1
  <2> QED BY <1>5, <2>2 DEF R!WriteTocache
<1>13. cache \in [R!Slots -> [pkt : Pkts \cup {R!None}, time : -1..Expiry]]
  BY DEF Receiving
<1>14. cache' = [cache EXCEPT ![i].pkt = n] =>
         /\ cache' \in [R!Slots -> [pkt : Pkts \cup {R!None}, time : -1..Expiry]]
         /\ \A j \in R!Slots : Time(j)' = Time(j) /\ Pkt(j)' = IF j = i THEN n ELSE Pkt(j)
  <2>1. n \in Pkts
    BY <1>3 DEF n
  <2> QED BY <1>4, <1>13, <2>1 DEF Pkt, Time
<1>15. cache' = cache => \A j \in R!Slots : Time(j)' = Time(j)
  BY DEF Time
<1>16. /\ net' \subseteq net /\ net \ {m} \subseteq net'
       /\ twice' \in Nat /\ lost' = lost /\ lost + twice' <= MaxFaults /\ twice' <= MaxTwice
  BY <1>2, Sixteen DEF Arrives, MayRepeat, Outside
<1>17. pts' = FrameOf(n) /\ n \in 1..Count /\ n \in Pkts /\ Carries(m, n) /\ cur' = a
  BY <1>2, <1>3, <1>8 DEF Stamp, n
<1>18. \/ /\ a <= n /\ Pkt(i) = R!None /\ max' = (IF n > max THEN n ELSE max)
          /\ \A j \in R!Slots : Pkt(j)' = IF j = i THEN n ELSE Pkt(j)
       \/ /\ n < a \/ Pkt(i) # R!None
          /\ max' = max /\ cache' = cache
  BY <1>4, <1>7, <1>8, <1>9, <1>12, <1>14
<1>19. /\ cache' \in [R!Slots -> [pkt : Pkts \cup {R!None}, time : -1..Expiry]]
       /\ \A j \in R!Slots : Time(j)' = Time(j)
  BY <1>8, <1>12, <1>13, <1>14, <1>15
<1>20. Arriving(m, n)
  BY <1>2, <1>8, <1>11, <1>16, <1>17, <1>18, <1>19 DEF Arriving, a, i
<1> QED BY <1>20 DEF n

\* What is looked at in a pass.
LEMMA LookedAt ==
  ASSUME Short, Outside, Receiving, stage = "find"
  PROVE  /\ cur # NoSeq /\ cur \in Nat \ {0} /\ seq \in Nat /\ cur <= seq /\ seq <= max + 1
         /\ max \in Nat /\ max <= LastPkt /\ LastPkt \in Nat /\ At(seq) \in R!Slots
         /\ R!Slot(seq) = At(seq) /\ R!Here.pkt = Pkt(At(seq)) /\ R!Here.time = Time(At(seq))
         /\ R!InRange <=> seq <= max
         /\ R!uint16Sub(max, seq) < 0 <=> ~(seq <= max)
         /\ seq <= max => R!NextSeq = seq + 1 /\ seq \in Pkts
         /\ isfull => seq = cur /\ novalue = 0
<1>1. /\ cur # NoSeq /\ seq \in cur..max+1 /\ cur \in Nat \ {0} /\ max \in Nat /\ Count \in Nat /\ Count <= LastPkt
      /\ LastPkt \in Nat /\ seq \in Nat /\ (isfull => seq = cur /\ novalue = 0) /\ Half \in Nat /\ LastPkt <= Half
      /\ 1..LastPkt = Pkts /\ max \in 0..Count
  BY NumberTypes, Sixteen DEF Receiving, Short
<1>2. max <= LastPkt /\ cur <= seq /\ seq <= max + 1 /\ max - seq <= Half /\ seq - max <= Half
  BY <1>1, Sixteen
<1>3. R!uint16Sub(max, seq) = IF max >= seq THEN max - seq ELSE -1
  BY <1>1, <1>2, Compare
<1>4. (R!InRange <=> seq <= max) /\ (R!uint16Sub(max, seq) < 0 <=> ~(seq <= max))
  BY <1>1, <1>3 DEF R!InRange
<1>5. At(seq) \in R!Slots /\ R!Slot(seq) = At(seq)
  BY <1>1, Places
<1>6. R!Here.pkt = Pkt(At(seq)) /\ R!Here.time = Time(At(seq))
  BY <1>5 DEF R!Here, Pkt, Time
<1>7. seq <= max => R!NextSeq = seq + 1 /\ seq \in Pkts
  <2>1. SUFFICES ASSUME seq <= max PROVE R!NextSeq = seq + 1 /\ seq \in Pkts
    OBVIOUS
  <2>2. seq \in 0..LastPkt+1 /\ seq <= LastPkt /\ seq \in 1..LastPkt
    BY <1>1, <1>2, <2>1
  <2>3. R!uint16Add(seq, 1) = seq + 1
    BY <2>2, Unwrapped
  <2> QED BY <1>1, <2>2, <2>3 DEF R!NextSeq
<1> QED BY <1>1, <1>2, <1>4, <1>5, <1>6, <1>7

\* An empty slot.
LEMMA EmptySlotIs ==
  ASSUME Short, Outside, Receiving, NEW j \in Nat,
         cache' = [cache EXCEPT ![At(j)] = R!EmptySlot]
  PROVE  /\ cache' \in [R!Slots -> [pkt : Pkts \cup {R!None}, time : -1..Expiry]]
         /\ \A i \in R!Slots : /\ Pkt(i)' = IF i = At(j) THEN R!None ELSE Pkt(i)
                               /\ Time(i)' = IF i = At(j) THEN R!None ELSE Time(i)
<1>1. At(j) \in R!Slots
  BY Places
<1>2. R!EmptySlot = [pkt |-> R!None, time |-> R!None] /\ R!None = -1 /\ -1 \in -1..Expiry
  BY Sixteen DEF R!EmptySlot, R!None
<1>3. R!EmptySlot \in [pkt : Pkts \cup {R!None}, time : -1..Expiry]
  BY <1>2
<1>4. cache \in [R!Slots -> [pkt : Pkts \cup {R!None}, time : -1..Expiry]]
  BY DEF Receiving
<1>5. cache' \in [R!Slots -> [pkt : Pkts \cup {R!None}, time : -1..Expiry]]
  BY <1>1, <1>3, <1>4
<1>6. \A i \in R!Slots : cache'[i] = IF i = At(j) THEN R!EmptySlot ELSE cache[i]
  BY <1>1, <1>4
<1>7. R!EmptySlot.pkt = R!None /\ R!EmptySlot.time = R!None
  BY <1>2
<1> QED BY <1>5, <1>6, <1>7 DEF Pkt, Time

\* FindUseful and what it sends and hands on.
LEMMA TakePlain ==
  ASSUME Short, Outside, Receiving, FindUseful, R!Take,
         R!MergeAlone \/ R!MergeBegin \/ R!MergeMiddle \/ R!MergeEnd \/ R!MergeDrop
  PROVE  Looking /\ Taking
<1>1. /\ UNCHANGED <<sender, faults, overrun>>
      /\ net' = IF asked' # asked THEN net \cup {Request(seq)} ELSE net
      /\ stamps' = IF frames' # frames THEN Append(stamps, pts') ELSE stamps
      /\ failed' = IF R!GiveUp /\ TooLate(seq) THEN failed \cup {seq} ELSE failed
      /\ pts' = IF R!MergeAlone \/ R!MergeBegin \/ R!MergeDrop \/ R!GiveUp THEN 0 ELSE pts
  BY DEF FindUseful, MergeDataClear
<1>2. /\ R!InRange /\ isfull /\ R!Here.pkt # R!None
      /\ cache' = [cache EXCEPT ![R!Slot(seq)] = R!EmptySlot]
      /\ cur' = R!NextSeq /\ seq' = R!NextSeq /\ taken' = Append(taken, R!Here.pkt)
      /\ UNCHANGED <<max, stage, isfull, novalue, asked, stranded>>
  BY DEF R!Take
<1>3. stage = "find"
  BY <1>2 DEF R!InRange
<1> DEFINE p == Pkt(At(cur))
<1>4. /\ cur # NoSeq /\ cur \in Nat /\ seq = cur /\ seq \in Nat /\ R!Slot(seq) = At(seq) /\ R!Here.pkt = p /\ seq <= max
      /\ R!NextSeq = seq + 1 /\ At(cur) \in R!Slots
  BY <1>2, <1>3, LookedAt
<1>5. Emptied /\ cache' \in [R!Slots -> [pkt : Pkts \cup {R!None}, time : -1..Expiry]]
  <2>1. cache' = [cache EXCEPT ![At(seq)] = R!EmptySlot]
    BY <1>2, <1>4
  <2> QED BY <1>4, <2>1, EmptySlotIs DEF Emptied
<1>6. ~R!GiveUp
  BY <1>2 DEF R!GiveUp, R!Missing
<1>7. p \in Pkts
  BY <1>2, <1>4, NumberTypes
<1> HIDE DEF p
<1>8. frames \in Seq(Seq(Pkts)) /\ big \in Seq(Pkts)
  BY DEF Receiving
<1>9. \A g \in Seq(Pkts) : frames' = Append(frames, g) => frames' # frames
  BY <1>8, AppendProperties
<1>10. <<p>> \in Seq(Pkts) /\ Append(big, p) \in Seq(Pkts)
  BY <1>7, <1>8
<1>11. Merging(p)
  <2>0. pts' \in {0, pts}
    BY <1>1
  <2>1. CASE R!MergeAlone
    <3>1. TailOf[p] = 0 /\ frames' = Append(frames, <<p>>) /\ big' = <<>> /\ pts' = 0
      BY <1>1, <1>4, <2>1 DEF R!MergeAlone, R!Alone
    <3> QED BY <1>1, <1>9, <1>10, <3>1 DEF Merging
  <2>2. CASE R!MergeBegin
    <3>1. TailOf[p] = 2 /\ frames' = frames /\ big' = <<p>>
      BY <1>4, <2>2 DEF R!MergeBegin, R!Begin
    <3> QED BY <1>1, <2>0, <3>1 DEF Merging
  <2>3. CASE R!MergeMiddle
    <3>1. TailOf[p] = 1 /\ frames' = frames /\ big' = Append(big, p)
      BY <1>4, <2>3 DEF R!MergeMiddle, R!Middle, R!Joined
    <3> QED BY <1>1, <2>0, <3>1 DEF Merging
  <2>4. CASE R!MergeEnd
    <3>1. TailOf[p] = 3 /\ frames' = Append(frames, Append(big, p)) /\ big' = <<>>
      BY <1>4, <2>4 DEF R!MergeEnd, R!End, R!Joined
    <3>2. ~R!MergeAlone /\ ~R!MergeBegin /\ ~R!MergeDrop
      <4>1. TailOf[p] # 0 /\ TailOf[p] # 2 /\ R!Fits
        BY <2>4, <3>1 DEF R!MergeEnd
      <4> QED BY <1>4, <4>1 DEF R!MergeAlone, R!MergeBegin, R!MergeDrop, R!Alone, R!Begin
    <3>3. pts' = pts
      BY <1>1, <1>6, <3>2
    <3> QED BY <1>1, <1>9, <1>10, <3>1, <3>3 DEF Merging
  <2>5. CASE R!MergeDrop
    <3>1. frames' = frames /\ big' = <<>>
      BY <2>5 DEF R!MergeDrop
    <3> QED BY <1>1, <2>0, <3>1 DEF Merging
  <2> QED BY <2>1, <2>2, <2>3, <2>4, <2>5
<1>12. net' = net /\ failed' = failed
  BY <1>1, <1>2, <1>6
<1>13. Taking
  BY <1>2, <1>4, <1>5, <1>11, <1>12 DEF Taking, p
<1>14. Looking
  BY <1>1, <1>2, <1>3, <1>4, <1>5 DEF Looking
<1> QED BY <1>13, <1>14

\* What FindUseful does beyond the first gap, where something is missing and
\* where it gives up,
LEMMA PassPlain ==
  ASSUME Short, Outside, Receiving, FindUseful, R!Hold \/ R!ReSend \/ R!Wait \/ R!GiveUp
  PROVE  Looking /\ (Holding \/ Requesting \/ Waiting \/ GivingUp)
<1>1. /\ UNCHANGED <<sender, faults, overrun>>
      /\ net' = IF asked' # asked THEN net \cup {Request(seq)} ELSE net
      /\ stamps' = IF frames' # frames THEN Append(stamps, pts') ELSE stamps
      /\ failed' = IF R!GiveUp /\ TooLate(seq) THEN failed \cup {seq} ELSE failed
      /\ pts' = IF R!MergeAlone \/ R!MergeBegin \/ R!MergeDrop \/ R!GiveUp THEN 0 ELSE pts
  BY DEF FindUseful, MergeDataClear
<1>2. R!InRange /\ seq' = R!NextSeq /\ UNCHANGED <<max, stage, taken, frames>>
  BY DEF R!Hold, R!ReSend, R!Wait, R!GiveUp, R!Missing, R!history
<1>3. stage = "find"
  BY <1>2 DEF R!InRange
<1>4. /\ cur # NoSeq /\ cur \in Nat /\ seq \in Nat /\ R!Slot(seq) = At(seq) /\ R!Here.pkt = Pkt(At(seq))
      /\ R!Here.time = Time(At(seq)) /\ seq <= max /\ R!NextSeq = seq + 1 /\ At(seq) \in R!Slots
      /\ cur <= seq /\ max <= LastPkt /\ max \in Nat
  BY <1>2, <1>3, LookedAt
<1>5. cache \in [R!Slots -> [pkt : Pkts \cup {R!None}, time : -1..Expiry]] /\ asked \in Seq(Nat) /\ stranded \in BOOLEAN
      /\ novalue \in Nat
  BY DEF Receiving
<1>6. /\ stamps' = stamps
      /\ pts' = IF R!GiveUp THEN 0 ELSE pts
  <2>1. ~R!Take
    BY DEF R!Hold, R!ReSend, R!Wait, R!GiveUp, R!Missing, R!Take
  <2>2. ~R!MergeAlone /\ ~R!MergeBegin /\ ~R!MergeDrop
    BY <2>1 DEF R!MergeAlone, R!MergeBegin, R!MergeDrop
  <2> QED BY <1>1, <1>2, <2>2
<1>7. CASE R!Hold
  <2>1. /\ ~isfull /\ R!Here.pkt # R!None /\ UNCHANGED <<cur, cache, big, isfull, novalue, asked, stranded>>
    BY <1>7 DEF R!Hold, R!history
  <2>2. ~R!GiveUp
    BY <2>1 DEF R!GiveUp, R!Missing
  <2>3. Passing
    BY <1>2, <1>4, <1>5, <1>6, <2>1 DEF Passing, Receiving
  <2>4. Holding
    BY <1>1, <1>4, <1>6, <2>1, <2>2, <2>3 DEF Holding
  <2> QED BY <1>1, <1>2, <1>3, <1>4, <1>5, <2>1, <2>4 DEF Looking
<1>8. CASE R!ReSend \/ R!Wait \/ R!GiveUp
  <2>1. /\ R!Here.pkt = R!None /\ isfull' = FALSE /\ novalue' = novalue + 1
    BY <1>8 DEF R!ReSend, R!Wait, R!GiveUp, R!Missing
  <2>2. Passing
    BY <1>2, <1>4, <1>5, <1>6, <2>1 DEF Passing
  <2>3. Expiry \in Nat \ {0} /\ R!None = -1
    BY Sixteen DEF R!None
  <2>4. CASE R!ReSend
    <3>1. /\ R!Here.time = R!None /\ cache' = [cache EXCEPT ![R!Slot(seq)].time = 0]
          /\ asked' = Append(asked, R!Meant(seq)) /\ UNCHANGED <<cur, big, stranded>>
      BY <2>4 DEF R!ReSend
    <3>2. R!Meant(seq) = seq
      <4>1. /\ Count \in Nat /\ Count <= LastPkt /\ max <= Count /\ Half \in Nat /\ LastPkt <= Half /\ LastPkt \in Nat
            /\ seq # 0
        BY <1>3, <1>4, NumberTypes, LookedAt, Sixteen DEF Receiving, Short
      <4>0. PICK w \in Nat : w = Count + 1
        BY <4>1
      <4>2. w \in Nat /\ w \in 0..LastPkt+1 /\ seq < w /\ seq - w <= Half /\ w - seq <= Half
        BY <1>4, <4>0, <4>1
      <4>4. R!Wire(w) = w
        BY <4>2, Unwrapped
      <4>5. R!uint16Sub(seq, w) = IF seq >= w THEN seq - w ELSE -1
        BY <1>4, <4>2, Compare
      <4>6. R!uint16Sub(w, seq) = IF w >= seq THEN w - seq ELSE -1
        BY <1>4, <4>2, Compare
      <4>7. R!uint16Sub(seq, w) = -1 /\ R!uint16Sub(w, seq) = w - seq /\ w - (w - seq) = seq
        BY <1>4, <4>2, <4>5, <4>6
      <4>8. R!uint16Sub(seq, R!Wire(w)) = -1 /\ R!uint16Sub(R!Wire(w), seq) = w - seq
        BY <4>4, <4>7
      <4> QED BY <1>4, <4>0, <4>8 DEF R!Meant, Count
    <3>3. asked' # asked
      BY <1>4, <1>5, <3>1, <3>2, AppendProperties
    <3>4. ~R!GiveUp
      BY <2>3, <3>1 DEF R!GiveUp
    <3>5. cache' = [cache EXCEPT ![At(seq)].time = 0] /\ 0 \in -1..Expiry
      BY <1>4, <2>3, <3>1
    <3>6. /\ cache' \in [R!Slots -> [pkt : Pkts \cup {R!None}, time : -1..Expiry]]
          /\ \A i \in R!Slots : /\ Pkt(i)' = Pkt(i)
                                /\ Time(i)' = IF i = At(seq) THEN 0 ELSE Time(i)
      BY <1>4, <1>5, <3>5 DEF Pkt, Time
    <3>7. Requesting
      BY <1>1, <1>4, <1>6, <2>1, <2>2, <3>1, <3>2, <3>3, <3>4, <3>6 DEF Requesting
    <3> QED BY <1>1, <1>2, <1>3, <1>4, <3>6, <3>7 DEF Looking
  <2>5. CASE R!Wait
    <3>1. R!Pending(R!Slot(seq)) /\ UNCHANGED <<cur, cache, big, asked, stranded>>
      BY <2>5 DEF R!Wait
    <3>2. Time(At(seq)) \in 0..Expiry-1
      BY <1>4, <3>1 DEF R!Pending, Time
    <3>3. Time(At(seq)) # R!None /\ Time(At(seq)) # Expiry
      BY <2>3, <3>2
    <3>4. ~R!GiveUp
      BY <1>4, <3>3 DEF R!GiveUp
    <3>5. Waiting
      BY <1>1, <1>4, <1>6, <2>1, <2>2, <3>1, <3>3, <3>4 DEF Waiting
    <3> QED BY <1>1, <1>2, <1>3, <1>4, <1>5, <3>1, <3>5 DEF Looking
  <2>6. CASE R!GiveUp
    <3>1. /\ R!Here.time = Expiry /\ big' = <<>> /\ cache' = [cache EXCEPT ![R!Slot(seq)] = R!EmptySlot]
          /\ cur' = R!NextSeq /\ asked' = asked
          /\ stranded' = (stranded \/ \E q \in R!PassedOver : cache[R!Slot(q)] # R!EmptySlot)
      BY <2>6 DEF R!GiveUp
    <3>2. Time(At(seq)) # R!None
      BY <1>4, <2>3, <3>1
    <3>3. Emptied /\ cache' \in [R!Slots -> [pkt : Pkts \cup {R!None}, time : -1..Expiry]]
      <4>1. cache' = [cache EXCEPT ![At(seq)] = R!EmptySlot]
        BY <1>4, <3>1
      <4> QED BY <1>4, <4>1, EmptySlotIs DEF Emptied
    <3>4. ASSUME ~stranded', NEW q \in cur..seq-1
          PROVE  Pkt(At(q)) = R!None /\ Time(At(q)) = R!None
      <4>1. q \in Nat /\ cur <= q /\ q < seq
        BY <1>4
      <4>2. LastPkt \in Nat /\ LastPkt <= Half /\ Half \in Nat /\ cur # 0
        BY <1>3, Sixteen, LookedAt DEF Short
      <4>3. q - cur <= Half /\ cur - q <= Half /\ seq - q <= Half /\ q - seq <= Half /\ q <= LastPkt
        BY <1>4, <4>1, <4>2
      <4>4. R!uint16Sub(q, cur) >= 0
        <5>1. R!uint16Sub(q, cur) = IF q >= cur THEN q - cur ELSE -1
          BY <1>4, <4>1, <4>3, Compare
        <5> QED BY <1>4, <4>1, <5>1
      <4>5. R!uint16Sub(seq, q) > 0
        <5>1. R!uint16Sub(seq, q) = IF seq >= q THEN seq - q ELSE -1
          BY <1>4, <4>1, <4>3, Compare
        <5> QED BY <1>4, <4>1, <5>1
      <4>6. q \in R!Seqs
        <5>1. q \in 0..LastPkt+1
          BY <4>1, <4>2, <4>3
        <5> QED BY <5>1, Unwrapped
      <4>7. q \in R!PassedOver
        BY <4>4, <4>5, <4>6 DEF R!PassedOver
      <4>8. cache[At(q)] = R!EmptySlot
        BY <3>1, <3>4, <4>1, <4>7, Places
      <4> QED BY <4>8 DEF Pkt, Time, R!EmptySlot
    <3>5. failed' = (IF TooLate(seq) THEN failed \cup {seq} ELSE failed) /\ pts' = 0
      BY <1>1, <1>6, <2>6
    <3>6. net' = net
      BY <1>1, <3>1
    <3>7. stranded' \in BOOLEAN /\ (stranded => stranded')
      BY <3>1
    <3>8. GivingUp
      BY <1>4, <2>1, <2>2, <3>1, <3>2, <3>3, <3>4, <3>5, <3>6, <3>7 DEF GivingUp
    <3> QED BY <1>1, <1>2, <1>3, <1>4, <3>3, <3>8 DEF Looking
  <2> QED BY <1>8, <2>4, <2>5, <2>6
<1> QED BY <1>7, <1>8

\* and where it ends.
LEMMA StopPlain ==
  ASSUME Short, Outside, Receiving, FindUseful, R!Stop
  PROVE  Looking /\ Stopping
<1>1. /\ UNCHANGED <<sender, faults, overrun>>
      /\ net' = IF asked' # asked THEN net \cup {Request(seq)} ELSE net
      /\ stamps' = IF frames' # frames THEN Append(stamps, pts') ELSE stamps
      /\ failed' = IF R!GiveUp /\ TooLate(seq) THEN failed \cup {seq} ELSE failed
      /\ pts' = IF R!MergeAlone \/ R!MergeBegin \/ R!MergeDrop \/ R!GiveUp THEN 0 ELSE pts
  BY DEF FindUseful, MergeDataClear
<1>2. /\ stage = "find" /\ stage' = "idle" /\ seq' = 0 /\ isfull' = TRUE /\ novalue' = 0
      /\ UNCHANGED <<cur, max, cache, big, taken, frames, asked, stranded>>
      /\ \/ R!uint16Sub(max, seq) < 0
         \/ R!InRange /\ R!Here.pkt = R!None /\ novalue > maxnovalue
  BY DEF R!Stop, R!history
<1>3. cur # NoSeq /\ (isfull => novalue = 0) /\ (R!uint16Sub(max, seq) < 0 => seq > max) /\ maxnovalue \in Nat
  BY <1>2, LookedAt, Sixteen
<1>4. seq > max \/ ~isfull
  BY <1>2, <1>3
<1>5. ~R!GiveUp
  BY <1>2 DEF R!GiveUp, R!Missing
<1>6. cache \in [R!Slots -> [pkt : Pkts \cup {R!None}, time : -1..Expiry]]
  BY DEF Receiving
<1>7. net' = net /\ failed' = failed /\ stamps' = stamps /\ pts' = pts
  <2>1. ~R!Take
    BY <1>2 DEF R!Take
  <2>2. ~R!MergeAlone /\ ~R!MergeBegin /\ ~R!MergeDrop
    BY <2>1 DEF R!MergeAlone, R!MergeBegin, R!MergeDrop
  <2> QED BY <1>1, <1>2, <1>5, <2>2
<1>8. Stopping
  BY <1>2, <1>4, <1>7 DEF Stopping
<1> QED BY <1>1, <1>2, <1>3, <1>6, <1>8 DEF Looking

\* A pass, step by step.
LEMMA LookPlain ==
  ASSUME Short, Outside, Receiving, FindUseful
  PROVE  Looking /\ (Taking \/ Holding \/ Requesting \/ Waiting \/ GivingUp \/ Stopping)
<1>1. R!FindUseful
  BY DEF FindUseful
<1>2. CASE R!MergeAlone \/ R!MergeBegin \/ R!MergeMiddle \/ R!MergeEnd \/ R!MergeDrop
  <2>1. R!Take
    BY <1>2 DEF R!MergeAlone, R!MergeBegin, R!MergeMiddle, R!MergeEnd, R!MergeDrop
  <2> QED BY <1>2, <2>1, TakePlain
<1>3. CASE R!Hold \/ R!ReSend \/ R!Wait \/ R!GiveUp
  BY <1>3, PassPlain
<1>4. CASE R!Stop
  BY <1>4, StopPlain
<1> QED BY <1>1, <1>2, <1>3, <1>4 DEF R!FindUseful

\* The sender's state is what it was.
LEMMA SendingSame ==
  ASSUME Sending, UNCHANGED sender
  PROVE  Sending' /\ Count' = Count /\ Len(chains') = Len(chains)
<1>1. Count' = Count /\ Kept' = Kept /\ chains' = chains /\ posted' = posted
  BY DEF sender, Count, Kept
<1> QED BY <1>1 DEF Sending, sender

\* An arrival leaves every repair under way but its own.
LEMMA ArrivalOutside ==
  ASSUME Outside, NEW m \in net, NEW n, Arriving(m, n)
  PROVE  /\ Outside' /\ Count' = Count /\ Len(chains') = Len(chains) /\ failed' = failed
         /\ \A q \in Pkts : Repairing(q) /\ q # n => Repairing(q)'
<1>1. Sending' /\ Count' = Count /\ Len(chains') = Len(chains)
  BY SendingSame DEF Outside, Arriving
<1>2. \A x \in net' : Genuine(x, Count')
  BY <1>1 DEF Outside, Arriving
<1>3. Outside'
  BY <1>1, <1>2 DEF Outside, Arriving
<1>4. ASSUME NEW q \in Pkts, Repairing(q), q # n PROVE Repairing(q)'
  <2>1. n \in Pkts /\ Carries(m, n) /\ net \ {m} \subseteq net' /\ failed' = failed
    BY DEF Arriving
  <2>2. m.body = n /\ pktCmd(m.head) # 3
    BY <2>1, PacketHead DEF Carries
  <2>3. Request(q) # m
    BY <2>2, RequestHead
  <2>4. Answer(Sent(q), q) # m
    BY <1>4, <2>2, PacketHead
  <2>5. q \in failed \/ Request(q) \in net' \/ (q \in 1..Count /\ Answer(Sent(q), q) \in net')
    BY <1>4, <2>1, <2>3, <2>4 DEF Repairing
  <2> QED BY <1>1, <2>1, <2>5 DEF Repairing, Request, Answer, Sent
<1> QED BY <1>1, <1>3, <1>4 DEF Arriving

\* So does a step of a pass.
LEMMA LookOutside ==
  ASSUME Short, Outside, Receiving, Looking,
         Taking \/ Holding \/ Requesting \/ Waiting \/ GivingUp \/ Stopping
  PROVE  /\ Outside' /\ Count' = Count /\ Len(chains') = Len(chains) /\ failed \subseteq failed'
         /\ \A q \in Pkts : Repairing(q) => Repairing(q)'
<1>1. Sending' /\ Count' = Count /\ Len(chains') = Len(chains) /\ Count \in 0..LastPkt
  BY SendingSame, PostedFrames DEF Outside, Looking
<1>2. lost' = lost /\ twice' = twice
  BY DEF Looking, faults
<1>3. net \subseteq net' /\ \A x \in net' : Genuine(x, Count')
  <2>1. CASE net' = net
    BY <1>1, <2>1 DEF Outside
  <2>2. CASE Requesting
    <3>1. net' = net \cup {Request(seq)} /\ seq <= max
      BY <2>2 DEF Requesting, Passing
    <3>2. seq \in Pkts
      BY <3>1, LookedAt DEF Looking
    <3>3. \A x \in net' : Genuine(x, Count)
      BY <3>1, <3>2 DEF Outside, Genuine
    <3> QED BY <1>1, <3>1, <3>3
  <2> QED BY <2>1, <2>2 DEF Taking, Holding, Waiting, GivingUp, Stopping
<1>4. failed \subseteq failed' /\ failed' \subseteq Pkts
  <2>1. CASE failed' = failed
    BY <2>1 DEF Outside
  <2>2. CASE GivingUp
    <3>1. seq \in Pkts
      BY <2>2, LookedAt DEF Looking, GivingUp, Passing
    <3> QED BY <2>2, <3>1 DEF GivingUp, Outside
  <2> QED BY <2>1, <2>2 DEF Taking, Holding, Requesting, Waiting, Stopping
<1>5. Outside'
  BY <1>1, <1>2, <1>3, <1>4 DEF Outside
<1>6. \A q \in Pkts : Repairing(q) => Repairing(q)'
  <2>1. \A q : (Request(q))' = Request(q) /\ Answer(Sent(q), q)' = Answer(Sent(q), q)
    BY DEF Request, Answer, Sent
  <2> QED BY <1>1, <1>3, <1>4, <2>1 DEF Repairing
<1> QED BY <1>1, <1>4, <1>5, <1>6

\* Time passes: a slot that waits for an answer goes on waiting.
LEMMA TickPlain ==
  ASSUME Short, Outside, Receiving, Tick
  PROVE  /\ Outside' /\ Count' = Count /\ Len(chains') = Len(chains)
         /\ UNCHANGED <<net, failed, stamping, overrun, cur, max, big, stage, seq, isfull, novalue, taken, frames, asked, stranded>>
         /\ cache' \in [R!Slots -> [pkt : Pkts \cup {R!None}, time : -1..Expiry]]
         /\ \A i \in R!Slots : Pkt(i)' = Pkt(i) /\ (Time(i)' # R!None <=> Time(i) # R!None)
         /\ \A q \in Pkts : Repairing(q) <=> Repairing(q)'
<1>1. /\ UNCHANGED <<sender, net, faults, stamping, outcome>>
      /\ cache' = [i \in R!Slots |-> IF R!Pending(i) THEN [cache[i] EXCEPT !.time = @ + 1] ELSE cache[i]]
      /\ UNCHANGED <<cur, max, big, stage, seq, isfull, novalue, taken, frames, asked, stranded>>
  BY DEF Tick, R!Tick, R!pass, R!history
<1>2. Sending' /\ Count' = Count /\ Len(chains') = Len(chains)
  BY <1>1, SendingSame DEF Outside
<1>3. net' = net /\ lost' = lost /\ twice' = twice /\ failed' = failed /\ overrun' = overrun
  BY <1>1 DEF faults, outcome
<1>4. Outside'
  BY <1>2, <1>3 DEF Outside
<1>5. ASSUME NEW i \in R!Slots
      PROVE  /\ cache'[i] \in [pkt : Pkts \cup {R!None}, time : -1..Expiry]
             /\ Pkt(i)' = Pkt(i) /\ (Time(i)' # R!None <=> Time(i) # R!None)
  <2>1. /\ Time(i) \in -1..Expiry /\ Pkt(i) \in Pkts \cup {R!None} /\ cache[i] = [pkt |-> Pkt(i), time |-> Time(i)]
        /\ R!None = -1 /\ Expiry \in Nat \ {0}
    BY NumberTypes, Sixteen
  <2>2. CASE R!Pending(i)
    <3>1. Time(i) \in 0..Expiry-1
      BY <2>2 DEF R!Pending, Time
    <3>2. cache'[i] = [pkt |-> Pkt(i), time |-> Time(i) + 1]
      BY <1>1, <2>1, <2>2
    <3>3. Time(i) + 1 \in -1..Expiry /\ Time(i) + 1 # R!None /\ Time(i) # R!None
      BY <2>1, <3>1
    <3>4. Pkt(i)' = cache'[i].pkt /\ Time(i)' = cache'[i].time
      BY DEF Pkt, Time
    <3> QED BY <2>1, <3>2, <3>3, <3>4
  <2>3. CASE ~R!Pending(i)
    <3>1. cache'[i] = cache[i]
      BY <1>1, <2>3
    <3> QED BY <2>1, <3>1 DEF Pkt, Time
  <2> QED BY <2>2, <2>3
<1>6. cache' \in [R!Slots -> [pkt : Pkts \cup {R!None}, time : -1..Expiry]]
  <2>1. DOMAIN cache' = R!Slots /\ cache' = [i \in R!Slots |-> cache'[i]]
    BY <1>1
  <2> QED BY <1>5, <2>1
<1>7. \A q \in Pkts : Repairing(q) <=> Repairing(q)'
  BY <1>2, <1>3 DEF Repairing, Request, Answer, Sent
<1> QED BY <1>1, <1>2, <1>3, <1>4, <1>5, <1>6, <1>7

-----------------------------------------------------------------------------
(* Retransmit: the receiver's numbers stay in order                        *)

\* An arrival keeps the numbers in order.
LEMMA ArrivalReceiving ==
  ASSUME Short, Outside, Receiving, NEW m \in net, NEW n, Arriving(m, n)
  PROVE  Receiving'
<1>1. /\ n \in Nat \ {0} /\ n <= Count /\ n <= LastPkt /\ n \in Pkts /\ Count \in Nat /\ max \in Nat /\ Count' = Count
      /\ LastPkt \in Nat /\ Count <= LastPkt /\ max <= Count
  <2>1. Count \in Nat /\ Count <= LastPkt /\ LastPkt \in Nat /\ max \in 0..Count
    BY NumberTypes DEF Receiving
  <2>2. n \in 1..Count /\ n \in Pkts
    BY DEF Arriving
  <2>3. Count' = Count
    BY ArrivalOutside
  <2> QED BY <2>1, <2>2, <2>3
<1>2. FrameOf(n) \in Nat
  BY <1>1, FrameOrder
<1>3. /\ stage = "idle" /\ stage' = "find" /\ seq' = cur' /\ isfull' = TRUE /\ novalue' = 0
      /\ cur' = (IF cur = NoSeq THEN n ELSE cur) /\ pts' = FrameOf(n)
      /\ UNCHANGED <<stamps, big, taken, frames, asked, stranded>>
      /\ overrun' = (overrun \/ n >= cur' + HG_CONN_CACHE_LEN)
      /\ cache' \in [R!Slots -> [pkt : Pkts \cup {R!None}, time : -1..Expiry]]
      /\ \/ /\ cur' <= n /\ Pkt(At(n)) = R!None /\ max' = (IF n > max THEN n ELSE max)
            /\ \A i \in R!Slots : Pkt(i)' = IF i = At(n) THEN n ELSE Pkt(i)
         \/ /\ n < cur' \/ Pkt(At(n)) # R!None
            /\ max' = max /\ cache' = cache
  BY DEF Arriving
<1>4. cur' # NoSeq /\ cur' \in 1..LastPkt+1 /\ cur' \in Nat
  <2>1. CASE cur = NoSeq
    <3>1. n # NoSeq
      BY <1>1 DEF Short
    <3> QED BY <1>1, <1>3, <2>1, <3>1
  <2>2. CASE cur # NoSeq
    BY <1>1, <1>3, <2>2 DEF Receiving
  <2> QED BY <2>1, <2>2
<1>5. max' \in 0..Count' /\ max <= max' /\ cur' <= max' + 1
  <2>1. CASE cur = NoSeq
    <3>1. cur' = n /\ Pkt(At(n)) = R!None
      BY <1>1, <1>3, <2>1, Places DEF Receiving
    <3> QED BY <1>1, <1>3, <3>1
  <2>2. CASE cur # NoSeq
    <3>1. cur' = cur /\ cur <= max + 1
      BY <1>3, <2>2 DEF Receiving
    <3> QED BY <1>1, <1>3, <1>4, <3>1
  <2> QED BY <2>1, <2>2
<1>6. \A i \in R!Slots : Pkt(i)' # R!None => Pkt(i)' <= max' /\ At(Pkt(i)') = i
  <2> TAKE i \in R!Slots
  <2>1. CASE max' = max /\ cache' = cache
    <3>1. Pkt(i)' = Pkt(i)
      BY <2>1 DEF Pkt
    <3> QED BY <2>1, <3>1 DEF Receiving
  <2>2. CASE /\ cur' <= n /\ Pkt(At(n)) = R!None /\ max' = (IF n > max THEN n ELSE max)
             /\ \A j \in R!Slots : Pkt(j)' = IF j = At(n) THEN n ELSE Pkt(j)
    <3>1. Pkt(i)' = (IF i = At(n) THEN n ELSE Pkt(i)) /\ n <= max'
      BY <1>1, <2>2
    <3>2. CASE i = At(n)
      BY <3>1, <3>2
    <3>3. CASE i # At(n)
      <4>1. Pkt(i)' = Pkt(i) /\ (Pkt(i) # R!None => Pkt(i) \in Nat /\ Pkt(i) <= max /\ At(Pkt(i)) = i)
        BY <3>1, <3>3, NumberTypes DEF Receiving
      <4> QED BY <1>1, <1>5, <4>1
    <3> QED BY <3>2, <3>3
  <2> QED BY <1>3, <2>1, <2>2
<1>7. \A k \in 1..Len(asked) : asked[k] <= max'
  <2>1. \A k \in 1..Len(asked) : asked[k] \in Nat /\ asked[k] <= max
    BY ElementOfSeq DEF Receiving
  <2> QED BY <1>1, <1>5, <2>1
<1>8. overrun' \in BOOLEAN
  BY <1>3
<1>9. /\ big \in Seq(Pkts) /\ taken \in Seq(Pkts) /\ frames \in Seq(Seq(Pkts)) /\ asked \in Seq(Nat)
      /\ stranded \in BOOLEAN /\ stamps \in Seq(Nat) /\ Len(stamps) = Len(frames)
  BY DEF Receiving
<1>10. seq' \in 0..LastPkt+1 /\ seq' \in cur'..max'+1 /\ novalue' \in Nat
  <2>1. seq' = cur' /\ novalue' = 0
    BY <1>3
  <2>2. max' \in Nat
    BY <1>1, <1>5
  <2>3. cur' \in 0..LastPkt+1
    BY <1>1, <1>4
  <2>4. cur' \in cur'..max'+1
    <3>1. \A a, b \in Nat : a <= b + 1 => a \in a..b+1
      OBVIOUS
    <3>2. cur' \in Nat /\ cur' <= max' + 1
      BY <1>4, <1>5
    <3> QED BY <2>2, <3>1, <3>2
  <2> QED BY <2>1, <2>3, <2>4
<1> QED BY <1>2, <1>3, <1>4, <1>5, <1>6, <1>7, <1>8, <1>9, <1>10 DEF Receiving

\* What a pass leaves of the packets in the cache.
LEMMA LookReceiving ==
  ASSUME Short, Outside, Receiving, Looking,
         Taking \/ Holding \/ Requesting \/ Waiting \/ GivingUp \/ Stopping
  PROVE  Receiving'
<1>1. /\ cur # NoSeq /\ cur \in Nat \ {0} /\ seq \in Nat /\ cur <= seq /\ seq <= max + 1
      /\ max \in Nat /\ max <= LastPkt /\ LastPkt \in Nat /\ At(seq) \in R!Slots
      /\ Count \in Nat /\ max <= Count /\ stage = "find"
  BY LookedAt, NumberTypes DEF Looking, Receiving
<1>2. max' = max /\ Count' = Count /\ overrun' = overrun
      /\ cache' \in [R!Slots -> [pkt : Pkts \cup {R!None}, time : -1..Expiry]]
  BY LookOutside DEF Looking
<1>3. /\ big \in Seq(Pkts) /\ taken \in Seq(Pkts) /\ frames \in Seq(Seq(Pkts)) /\ asked \in Seq(Nat)
      /\ isfull \in BOOLEAN /\ novalue \in Nat /\ overrun \in BOOLEAN /\ pts \in Nat
      /\ stranded \in BOOLEAN /\ stamps \in Seq(Nat) /\ Len(stamps) = Len(frames)
      /\ \A k \in 1..Len(asked) : asked[k] <= max
      /\ cur \in 1..LastPkt+1 /\ seq \in 0..LastPkt+1 /\ max \in 0..Count /\ cur <= max + 1
  BY <1>1 DEF Receiving
<1>12. pts' \in {0, pts}
  BY DEF Taking, Merging, Holding, Requesting, Waiting, GivingUp, Stopping
<1>13. pts' \in Nat
  BY <1>3, <1>12
<1>4. \A i \in R!Slots : Pkt(i)' = Pkt(i) \/ Pkt(i)' = R!None
  <2>1. CASE cache' = cache
    BY <2>1 DEF Pkt
  <2> QED BY <2>1 DEF Taking, Holding, Requesting, Waiting, GivingUp, Stopping, Emptied
<1>5. \A i \in R!Slots : Pkt(i)' # R!None => Pkt(i)' <= max' /\ At(Pkt(i)') = i
  BY <1>2, <1>4 DEF Receiving
<1>6. seq <= max => seq + 1 \in 1..LastPkt+1 /\ seq + 1 # NoSeq /\ seq + 1 <= max + 1
  BY <1>1 DEF Short
<1>7. CASE Taking
  <2> DEFINE p == Pkt(At(cur))
  <2>1. p \in Pkts /\ p # R!None
    BY <1>1, <1>7, NumberTypes DEF Taking
  <2>2. /\ cur' = cur + 1 /\ seq' = cur + 1 /\ taken' = Append(taken, p) /\ seq = cur /\ seq <= max /\ Merging(p)
        /\ UNCHANGED <<stage, isfull, novalue, asked, stranded>>
    BY <1>7 DEF Taking
  <2> HIDE DEF p
  <2>3. taken' \in Seq(Pkts)
    BY <1>3, <2>1, <2>2
  <2>4. big' \in Seq(Pkts) /\ frames' \in Seq(Seq(Pkts)) /\ stamps' \in Seq(Nat) /\ Len(stamps') = Len(frames')
    <3>1. <<p>> \in Seq(Pkts) /\ Append(big, p) \in Seq(Pkts) /\ <<>> \in Seq(Pkts)
      BY <1>3, <2>1
    <3>2. \A g \in Seq(Pkts) : Append(frames, g) \in Seq(Seq(Pkts)) /\ Len(Append(frames, g)) = Len(frames) + 1
      BY <1>3, AppendProperties
    <3>3. \A x \in Nat : Append(stamps, x) \in Seq(Nat) /\ Len(Append(stamps, x)) = Len(stamps) + 1
      BY <1>3, AppendProperties
    <3> QED BY <1>3, <2>2, <3>1, <3>2, <3>3 DEF Merging
  <2>5. cur' \in 1..LastPkt+1 /\ cur' # NoSeq /\ cur' <= max' + 1 /\ seq' \in cur'..max'+1 /\ seq' \in 0..LastPkt+1
    BY <1>1, <1>2, <1>6, <2>2
  <2>6. isfull' => novalue' = 0
    BY <1>1, <2>2 DEF Receiving
  <2> QED BY <1>1, <1>2, <1>3, <1>5, <1>13, <2>2, <2>3, <2>4, <2>5, <2>6 DEF Receiving
<1>8. CASE Holding \/ Waiting
  <2>1. /\ seq <= max /\ seq' = seq + 1 /\ isfull' = FALSE /\ novalue' \in Nat
        /\ UNCHANGED <<stage, taken, frames, stamps, cur, big, asked, stranded>>
    BY <1>8 DEF Holding, Waiting, Passing
  <2>2. seq' \in cur..max+1 /\ seq' \in 0..LastPkt+1
    BY <1>1, <1>6, <2>1
  <2> QED BY <1>1, <1>2, <1>3, <1>5, <1>13, <2>1, <2>2 DEF Receiving
<1>9. CASE Requesting
  <2>1. /\ seq <= max /\ seq' = seq + 1 /\ isfull' = FALSE /\ novalue' \in Nat
        /\ UNCHANGED <<stage, taken, frames, stamps, cur, big, stranded>> /\ asked' = Append(asked, seq)
    BY <1>9 DEF Requesting, Passing
  <2>2. seq' \in cur..max+1 /\ seq' \in 0..LastPkt+1
    BY <1>1, <1>6, <2>1
  <2>3. asked' \in Seq(Nat) /\ \A k \in 1..Len(asked') : asked'[k] <= max'
    <3>1. /\ asked' \in Seq(Nat) /\ Len(asked') = Len(asked) + 1 /\ Len(asked) \in Nat
          /\ asked'[Len(asked) + 1] = seq /\ \A k \in 1..Len(asked) : asked'[k] = asked[k]
      BY <1>1, <1>3, <2>1, AppendProperties, LenProperties
    <3>2. ASSUME NEW k \in 1..Len(asked') PROVE asked'[k] <= max'
      <4>1. CASE k = Len(asked) + 1
        BY <1>2, <2>1, <3>1, <4>1
      <4>2. CASE k # Len(asked) + 1
        <5>1. k \in 1..Len(asked)
          BY <3>1, <3>2, <4>2
        <5> QED BY <1>2, <1>3, <3>1, <5>1
      <4> QED BY <4>1, <4>2
    <3> QED BY <3>1, <3>2
  <2> QED BY <1>1, <1>2, <1>3, <1>5, <1>13, <2>1, <2>2, <2>3 DEF Receiving
<1>10. CASE GivingUp
  <2>1. /\ seq <= max /\ seq' = seq + 1 /\ isfull' = FALSE /\ novalue' \in Nat /\ cur' = seq + 1 /\ big' = <<>>
        /\ UNCHANGED <<stage, taken, frames, stamps, asked>> /\ stranded' \in BOOLEAN
    BY <1>10 DEF GivingUp, Passing
  <2>2. cur' \in 1..LastPkt+1 /\ cur' # NoSeq /\ cur' <= max' + 1 /\ seq' \in cur'..max'+1 /\ seq' \in 0..LastPkt+1
    BY <1>1, <1>2, <1>6, <2>1
  <2>3. big' \in Seq(Pkts)
    BY <2>1
  <2> QED BY <1>1, <1>2, <1>3, <1>5, <1>13, <2>1, <2>2, <2>3 DEF Receiving
<1>11. CASE Stopping
  <2>1. /\ stage' = "idle" /\ seq' = 0 /\ isfull' = TRUE /\ novalue' = 0
        /\ UNCHANGED <<cur, big, taken, frames, asked, stranded, stamps>>
    BY <1>11 DEF Stopping
  <2>2. 0 \in 0..LastPkt+1
    BY <1>1
  <2> QED BY <1>1, <1>2, <1>3, <1>5, <1>13, <2>1, <2>2 DEF Receiving
<1> QED BY <1>7, <1>8, <1>9, <1>10, <1>11

\* So does the clock,
LEMMA TickReceiving ==
  ASSUME Short, Outside, Receiving, Tick
  PROVE  Receiving'
<1>1. /\ Count' = Count
      /\ UNCHANGED <<cur, max, big, stage, seq, isfull, novalue, taken, frames, asked, stranded>>
      /\ pts' = pts /\ stamps' = stamps /\ overrun' = overrun
      /\ cache' \in [R!Slots -> [pkt : Pkts \cup {R!None}, time : -1..Expiry]]
      /\ \A i \in R!Slots : Pkt(i)' = Pkt(i) /\ (Time(i)' # R!None <=> Time(i) # R!None)
  BY TickPlain DEF stamping
<1> QED BY <1>1 DEF Receiving

\* The receiver keeps what it has while the sender sends.
LEMMA SenderReceiving ==
  ASSUME Short, Outside, Receiving, SenderSteps
  PROVE  Receiving'
<1>1. UNCHANGED <<receiver, stamping, overrun>> /\ Count <= Count' /\ Outside'
  BY OutsideStep
<1>2. /\ UNCHANGED <<cur, max, cache, big, stage, seq, isfull, novalue, taken, frames, asked, stranded>>
      /\ pts' = pts /\ stamps' = stamps /\ overrun' = overrun
  BY <1>1 DEF receiver, stamping
<1>3. \A i \in R!Slots : Pkt(i)' = Pkt(i) /\ Time(i)' = Time(i)
  BY <1>2 DEF Pkt, Time
<1>4. max' \in 0..Count'
  <2>1. Count \in Nat /\ max \in 0..Count
    BY NumberTypes DEF Receiving
  <2>2. Count' \in Nat
    <3>1. Sending' => Count' \in Nat
      BY LenProperties DEF Sending, Count
    <3> QED BY <1>1, <3>1 DEF Outside
  <2> QED BY <1>1, <1>2, <2>1, <2>2
<1> QED BY <1>2, <1>3, <1>4 DEF Receiving

-----------------------------------------------------------------------------
(* Retransmit: timestamps                                                  *)

\* Every gap that a pass has gone over was asked for.
GoneOver ==
  stage = "find" =>
    \A q \in cur..seq-1 : Pkt(At(q)) # R!None \/ Time(At(q)) # R!None

\* Nothing that is held or awaited comes before the first packet asked for.
FirstAsked ==
  asked # <<>> => /\ asked[1] <= cur
                  /\ \A i \in R!Slots : Pkt(i) # R!None => asked[1] <= Pkt(i)

\* As long as nothing was asked for, nothing waits: the only packet held is the
\* one that has just arrived, and the timestamp is its own.
Unasked ==
  asked = <<>> =>
    /\ stage = "find" => isfull
    /\ \A i \in R!Slots :
         /\ Time(i) = R!None
         /\ Pkt(i) # R!None => /\ stage = "find" /\ cur <= Pkt(i) /\ pts = FrameOf(Pkt(i))
                               /\ \A j \in R!Slots : Pkt(j) # R!None => j = i
Asking == GoneOver /\ FirstAsked /\ Unasked /\ StampOwnUnlessCleared

\* The requests, in order.
LEMMA AskedTypes ==
  ASSUME Receiving
  PROVE  /\ asked \in Seq(Nat) /\ Len(asked) \in Nat /\ DOMAIN asked = 1..Len(asked)
         /\ asked # <<>> => asked[1] \in Nat /\ asked[1] \in ToSet(asked) /\ cur # NoSeq
<1>1. asked \in Seq(Nat) /\ Len(asked) \in Nat /\ DOMAIN asked = 1..Len(asked)
  BY LenProperties DEF Receiving
<1>2. ASSUME asked # <<>> PROVE asked[1] \in Nat /\ asked[1] \in ToSet(asked)
  <2>1. 1 \in 1..Len(asked)
    BY <1>1, <1>2, EmptySeq
  <2>2. asked[1] \in Nat
    BY <1>1, <2>1, ElementOfSeq
  <2> QED BY <1>1, <2>1, <2>2 DEF ToSet
<1> QED BY <1>1, <1>2 DEF Receiving

\* The stamps of frames that have been handed on.
LEMMA StampsStay ==
  ASSUME StampOwnUnlessCleared, UNCHANGED <<frames, stamps>>, ToSet(asked) \subseteq ToSet(asked')
  PROVE  StampOwnUnlessCleared'
BY DEF StampOwnUnlessCleared, FrameOf, TailOf, R!Alone

\* An arrival stamps the frame under construction: as long as nothing was asked
\* for, with the timestamp of the only packet that is held.
LEMMA ArrivalAsking ==
  ASSUME Short, Outside, Receiving, Asking, NEW m \in net, NEW n, Arriving(m, n)
  PROVE  Asking'
<1>1. /\ stage = "idle" /\ stage' = "find" /\ seq' = cur' /\ isfull' = TRUE
      /\ cur' = (IF cur = NoSeq THEN n ELSE cur) /\ pts' = FrameOf(n)
      /\ UNCHANGED <<stamps, frames, asked>> /\ n \in Nat
      /\ \A i \in R!Slots : Time(i)' = Time(i)
      /\ \/ /\ cur' <= n
            /\ \A i \in R!Slots : Pkt(i)' = IF i = At(n) THEN n ELSE Pkt(i)
         \/ cache' = cache
  BY DEF Arriving, Pkts
<1>2. cur' \in Nat
  BY <1>1, NumberTypes
<1>3. \A i \in R!Slots : Pkt(i)' = Pkt(i) \/ (i = At(n) /\ Pkt(i)' = n /\ cur' <= n)
  <2>1. CASE cache' = cache
    BY <2>1 DEF Pkt
  <2> QED BY <1>1, <2>1
<1>4. GoneOver'
  <2>1. cur'..seq'-1 = {}
    BY <1>1, <1>2
  <2> QED BY <2>1 DEF GoneOver
<1>5. FirstAsked'
  <2>1. SUFFICES ASSUME asked # <<>>
                 PROVE  /\ asked[1] <= cur'
                        /\ \A i \in R!Slots : Pkt(i)' # R!None => asked[1] <= Pkt(i)'
    BY <1>1 DEF FirstAsked
  <2>2. asked[1] \in Nat /\ cur' = cur /\ asked[1] <= cur
    BY <1>1, <2>1, AskedTypes DEF Asking, FirstAsked
  <2>3. asked[1] <= cur'
    BY <2>2
  <2>4. cur' <= n => asked[1] <= n
    BY <1>1, <1>2, <2>2, <2>3
  <2> QED BY <1>3, <2>1, <2>3, <2>4 DEF Asking, FirstAsked
<1>6. Unasked'
  <2>1. SUFFICES ASSUME asked = <<>>, NEW i \in R!Slots
                 PROVE  /\ Time(i)' = R!None
                        /\ Pkt(i)' # R!None => /\ cur' <= Pkt(i)' /\ pts' = FrameOf(Pkt(i)')
                                               /\ \A j \in R!Slots : Pkt(j)' # R!None => j = i
    BY <1>1 DEF Unasked, FrameOf
  <2>2. \A j \in R!Slots : Time(j) = R!None /\ Pkt(j) = R!None
    BY <1>1, <2>1 DEF Asking, Unasked
  <2>3. \A j \in R!Slots : Pkt(j)' # R!None => j = At(n) /\ Pkt(j)' = n /\ cur' <= n
    BY <1>3, <2>2
  <2> QED BY <1>1, <2>1, <2>2, <2>3
<1>7. StampOwnUnlessCleared'
  BY <1>1, StampsStay DEF Asking
<1> QED BY <1>4, <1>5, <1>6, <1>7 DEF Asking

\* Nothing of a pass or of the cache changes.
LEMMA SameAsking ==
  ASSUME Asking, UNCHANGED <<cur, stage, seq, isfull, frames, asked>>, pts' = pts, stamps' = stamps,
         \A i \in R!Slots : Pkt(i)' = Pkt(i) /\ (Time(i)' # R!None <=> Time(i) # R!None),
         stage = "find" => cur \in Nat /\ seq \in Nat
  PROVE  Asking'
<1>1. GoneOver'
  <2>1. ASSUME stage = "find", NEW q \in cur..seq-1
        PROVE  Pkt(At(q))' # R!None \/ Time(At(q))' # R!None
    <3>1. Pkt(At(q)) # R!None \/ Time(At(q)) # R!None
      BY <2>1 DEF Asking, GoneOver
    <3>2. At(q) \in R!Slots
      <4>1. q \in Nat
        BY <2>1
      <4> QED BY <4>1, Places
    <3> QED BY <3>1, <3>2
  <2> QED BY <2>1 DEF GoneOver
<1>2. FirstAsked'
  BY DEF Asking, FirstAsked
<1>3. Unasked'
  BY DEF Asking, Unasked, FrameOf
<1>4. StampOwnUnlessCleared'
  BY StampsStay DEF Asking
<1> QED BY <1>1, <1>2, <1>3, <1>4 DEF Asking

\* The clock asks for nothing,
LEMMA TickAsking ==
  ASSUME Short, Outside, Receiving, Asking, Tick
  PROVE  Asking'
<1>1. /\ UNCHANGED <<cur, stage, seq, isfull, frames, asked>> /\ pts' = pts /\ stamps' = stamps
      /\ \A i \in R!Slots : Pkt(i)' = Pkt(i) /\ (Time(i)' # R!None <=> Time(i) # R!None)
  BY TickPlain DEF stamping
<1>2. stage = "find" => cur \in Nat /\ seq \in Nat
  BY LookedAt
<1> QED BY <1>1, <1>2, SameAsking

\* nor does the sender.
LEMMA SenderAsking ==
  ASSUME Short, Outside, Receiving, Asking, SenderSteps
  PROVE  Asking'
<1>1. /\ UNCHANGED <<cur, cache, stage, seq, isfull, frames, asked>>
      /\ pts' = pts /\ stamps' = stamps
  BY OutsideStep DEF receiver, stamping
<1>2. \A i \in R!Slots : Pkt(i)' = Pkt(i) /\ Time(i)' = Time(i)
  BY <1>1 DEF Pkt, Time
<1>3. stage = "find" => cur \in Nat /\ seq \in Nat
  BY LookedAt
<1> QED BY <1>1, <1>2, <1>3, SameAsking

\* What is handed on when nothing was asked for is the packet that has just
\* arrived: the end of a frame goes out with its own timestamp.
LEMMA TakingStamps ==
  ASSUME Short, Outside, Receiving, Asking, Looking, Taking
  PROVE  StampOwnUnlessCleared'
<1> DEFINE p == Pkt(At(cur))
<1>1. stage = "find" /\ At(cur) \in R!Slots /\ p # R!None /\ Merging(p) /\ asked' = asked
  BY LookedAt DEF Looking, Taking
<1>2. big \in Seq(Pkts) /\ p \in Pkts
  BY <1>1, NumberTypes DEF Receiving
<1>3. pts = FrameOf(p) \/ \E a \in ToSet(asked) : a <= p
  <2>1. CASE asked = <<>>
    BY <1>1, <2>1 DEF Asking, Unasked
  <2>2. CASE asked # <<>>
    BY <1>1, <2>2, AskedTypes DEF Asking, FirstAsked
  <2> QED BY <2>1, <2>2
<1>4. CASE UNCHANGED <<frames, stamps>>
  BY <1>1, <1>4, StampsStay DEF Asking
<1>5. ASSUME NEW g \in Seq(Pkts), Last(g) = p, NEW x \in Nat, frames' = Append(frames, g), stamps' = Append(stamps, x),
             IF TailOf[p] = R!Alone THEN x = 0 ELSE x = FrameOf(p) \/ \E a \in ToSet(asked) : a <= p
      PROVE  StampOwnUnlessCleared'
  <2>1. /\ frames \in Seq(Seq(Pkts)) /\ stamps \in Seq(Nat) /\ Len(stamps) = Len(frames) /\ Len(frames) \in Nat
    BY LenProperties DEF Receiving
  <2>2. /\ Len(frames') = Len(frames) + 1 /\ frames'[Len(frames) + 1] = g /\ stamps'[Len(frames) + 1] = x
        /\ \A k \in 1..Len(frames) : frames'[k] = frames[k] /\ stamps'[k] = stamps[k]
        /\ DOMAIN frames' = 1..Len(frames)+1 /\ DOMAIN frames = 1..Len(frames)
    <3>1. /\ Append(frames, g) \in Seq(Seq(Pkts)) /\ Len(Append(frames, g)) = Len(frames) + 1
          /\ Append(frames, g)[Len(frames) + 1] = g
          /\ \A k \in 1..Len(frames) : Append(frames, g)[k] = frames[k]
      BY <2>1, AppendProperties
    <3>2. /\ Append(stamps, x)[Len(stamps) + 1] = x
          /\ \A k \in 1..Len(stamps) : Append(stamps, x)[k] = stamps[k]
      BY <2>1, AppendProperties
    <3>3. DOMAIN Append(frames, g) = 1..Len(frames)+1 /\ DOMAIN frames = 1..Len(frames)
      BY <2>1, <3>1, LenProperties
    <3> QED BY <1>5, <2>1, <3>1, <3>2, <3>3
  <2> DEFINE Fine(f, y) == IF TailOf[Last(f)] = R!Alone THEN y = 0
                           ELSE y = FrameOf(Last(f)) \/ \E a \in ToSet(asked) : a <= Last(f)
  <2>3. \A k \in 1..Len(frames) : Fine(frames[k], stamps[k])
    BY <2>2 DEF Asking, StampOwnUnlessCleared
  <2>4. Fine(g, x)
    BY <1>5
  <2> HIDE DEF Fine
  <2>5. \A k \in 1..Len(frames)+1 : Fine(frames'[k], stamps'[k])
    <3> TAKE k \in 1..Len(frames)+1
    <3>1. CASE k = Len(frames) + 1
      BY <2>2, <2>4, <3>1
    <3>2. CASE k # Len(frames) + 1
      <4>1. k \in 1..Len(frames)
        BY <2>1, <3>2
      <4> QED BY <2>2, <2>3, <4>1
    <3> QED BY <3>1, <3>2
  <2> USE DEF Fine
  <2> QED BY <1>1, <2>2, <2>5 DEF StampOwnUnlessCleared, FrameOf, TailOf, R!Alone
<1> HIDE DEF p
<1>6. <<p>> \in Seq(Pkts) /\ Last(<<p>>) = p
  BY <1>2 DEF Last
<1>7. Append(big, p) \in Seq(Pkts) /\ Last(Append(big, p)) = p
  <2>1. Append(big, p) \in Seq(Pkts) /\ Len(Append(big, p)) = Len(big) + 1 /\ Append(big, p)[Len(big) + 1] = p
    BY <1>2, AppendProperties
  <2> QED BY <2>1 DEF Last
<1>8. CASE TailOf[p] = 0 /\ frames' = Append(frames, <<p>>) /\ stamps' = Append(stamps, 0)
  <2>1. TailOf[p] = R!Alone /\ 0 \in Nat
    BY <1>8 DEF R!Alone
  <2> QED BY <1>5, <1>6, <1>8, <2>1
<1>9. CASE TailOf[p] = 3 /\ frames' = Append(frames, Append(big, p)) /\ stamps' = Append(stamps, pts)
  <2>1. pts \in Nat /\ TailOf[p] # R!Alone
    BY <1>9 DEF Receiving, R!Alone
  <2> QED BY <1>3, <1>5, <1>7, <1>9, <2>1
<1> QED BY <1>1, <1>4, <1>8, <1>9 DEF Merging

\* A packet taken: if nothing was asked for, nothing else is held.
LEMMA TakingAsking ==
  ASSUME Short, Outside, Receiving, Asking, Looking, Taking
  PROVE  Asking'
<1>1. /\ cur # NoSeq /\ cur \in Nat /\ seq = cur /\ At(cur) \in R!Slots /\ stage = "find" /\ isfull
  BY LookedAt DEF Looking, Taking
<1>2. /\ cur' = cur + 1 /\ seq' = cur + 1 /\ Emptied /\ Pkt(At(cur)) # R!None
      /\ UNCHANGED <<stage, isfull, asked>>
  BY DEF Taking, Looking
<1>3. \A i \in R!Slots : /\ Time(i)' = Time(i) \/ Time(i)' = R!None
                         /\ Pkt(i)' # R!None => i # At(cur) /\ Pkt(i)' = Pkt(i)
  BY <1>1, <1>2 DEF Emptied
<1>4. GoneOver'
  <2>1. cur'..seq'-1 = {}
    BY <1>1, <1>2
  <2> QED BY <2>1 DEF GoneOver
<1>5. FirstAsked'
  <2>1. SUFFICES ASSUME asked # <<>>
                 PROVE  /\ asked[1] <= cur + 1
                        /\ \A i \in R!Slots : Pkt(i)' # R!None => asked[1] <= Pkt(i)'
    BY <1>2 DEF FirstAsked
  <2>2. asked[1] \in Nat /\ asked[1] <= cur
    BY <2>1, AskedTypes DEF Asking, FirstAsked
  <2>3. asked[1] <= cur + 1
    BY <1>1, <2>2
  <2> QED BY <1>3, <2>1, <2>3 DEF Asking, FirstAsked
<1>6. Unasked'
  <2>1. SUFFICES ASSUME asked = <<>>, NEW i \in R!Slots
                 PROVE  Time(i)' = R!None /\ Pkt(i)' = R!None
    BY <1>1, <1>2 DEF Unasked
  <2>2. Time(i) = R!None
    BY <2>1 DEF Asking, Unasked
  <2>3. Pkt(i) # R!None => i = At(cur)
    BY <1>1, <1>2, <2>1 DEF Asking, Unasked
  <2> QED BY <1>3, <2>1, <2>2, <2>3
<1> QED BY <1>4, <1>5, <1>6, TakingStamps DEF Asking

\* The first packet asked for is the one awaited then.
LEMMA PassingAsking ==
  ASSUME Short, Outside, Receiving, Asking, Looking, Holding \/ Waiting \/ Requesting
  PROVE  Asking'
<1>1. /\ cur # NoSeq /\ cur \in Nat /\ seq \in Nat /\ At(seq) \in R!Slots /\ stage = "find"
      /\ cur <= seq /\ seq <= max /\ (isfull => seq = cur)
  BY LookedAt DEF Looking, Holding, Waiting, Requesting, Passing
<1>0. PICK z \in Nat : z = seq
  BY <1>1
<1>2. /\ cur' = cur /\ seq' = seq + 1 /\ isfull' = FALSE /\ UNCHANGED <<stage, frames, stamps, pts>>
      /\ asked' = asked \/ (Requesting /\ asked' = Append(asked, seq))
  BY DEF Holding, Waiting, Requesting, Passing, Looking
<1>3. \A i \in R!Slots : /\ Pkt(i)' = Pkt(i)
                         /\ Time(i)' = Time(i) \/ (Requesting /\ i = At(seq) /\ Time(i)' # R!None)
  <2>1. CASE Holding \/ Waiting
    <3>1. cache' = cache
      BY <2>1 DEF Holding, Waiting
    <3> QED BY <3>1 DEF Pkt, Time
  <2>2. CASE Requesting
    <3>1. 0 # R!None
      BY DEF R!None
    <3> QED BY <2>2, <3>1 DEF Requesting
  <2> QED BY <2>1, <2>2
<1>4. asked = <<>> => Requesting /\ isfull
  <2>1. SUFFICES ASSUME asked = <<>> PROVE Requesting /\ isfull
    OBVIOUS
  <2>2. isfull /\ Time(At(seq)) = R!None
    BY <1>1, <2>1 DEF Asking, Unasked
  <2> QED BY <2>2 DEF Holding, Waiting
<1>5. /\ ToSet(asked) \subseteq ToSet(asked') /\ asked' # <<>>
      /\ asked # <<>> => asked'[1] = asked[1]
      /\ asked = <<>> => asked'[1] = cur
  <2>1. asked \in Seq(Nat) /\ Len(asked) \in Nat /\ DOMAIN asked = 1..Len(asked)
    BY AskedTypes
  <2>2. CASE asked' = asked /\ asked # <<>>
    BY <2>2
  <2>3. CASE asked' = Append(asked, z)
    <3> DEFINE b == Append(asked, z)
    <3>1. /\ b \in Seq(Nat) /\ Len(b) = Len(asked) + 1 /\ b[Len(asked) + 1] = z
          /\ \A k \in 1..Len(asked) : b[k] = asked[k]
      BY <2>1, AppendProperties
    <3>2. DOMAIN b = 1..Len(b)
      BY <3>1, LenProperties
    <3> HIDE DEF b
    <3>3. b # <<>> /\ ToSet(asked) \subseteq ToSet(b)
      <4>1. \A k \in 1..Len(asked) : k \in 1..Len(b)
        BY <2>1, <3>1
      <4>2. Len(b) # 0
        BY <2>1, <3>1
      <4> QED BY <2>1, <3>1, <3>2, <4>1, <4>2 DEF ToSet
    <3>4. asked # <<>> => b[1] = asked[1]
      <4>1. asked # <<>> => 1 \in 1..Len(asked)
        BY <2>1, EmptySeq
      <4> QED BY <3>1, <4>1
    <3>5. asked = <<>> => b[1] = z /\ z = cur
      <4>1. asked = <<>> => Len(asked) = 0
        OBVIOUS
      <4> QED BY <1>0, <1>1, <1>4, <3>1, <4>1
    <3>6. asked' = b
      BY <2>3 DEF b
    <3> QED BY <3>3, <3>4, <3>5, <3>6
  <2>4. asked = <<>> => asked' = Append(asked, seq)
    BY <1>4 DEF Requesting
  <2> QED BY <1>0, <1>2, <2>2, <2>3, <2>4
<1>6. GoneOver'
  <2>1. ASSUME NEW q \in cur..seq
        PROVE  Pkt(At(q))' # R!None \/ Time(At(q))' # R!None
    <3>1. q \in Nat /\ At(q) \in R!Slots
      <4>1. q \in Nat
        BY <1>1
      <4> QED BY <4>1, Places
    <3>2. CASE q = seq
      <4>1. q = z /\ At(z) \in R!Slots
        BY <1>0, <3>1, <3>2
      <4>2. Pkt(At(z))' # R!None \/ Time(At(z))' # R!None
        <5>1. CASE Holding
          <6>1. Pkt(At(z)) # R!None
            BY <1>0, <5>1 DEF Holding
          <6> QED BY <1>3, <4>1, <6>1
        <5>2. CASE Waiting
          <6>1. Time(At(z)) # R!None
            BY <1>0, <5>2 DEF Waiting
          <6> QED BY <1>3, <4>1, <6>1
        <5>3. CASE Requesting
          <6>1. Time(At(z))' = 0
            BY <1>0, <4>1, <5>3 DEF Requesting
          <6> QED BY <6>1 DEF R!None
        <5> QED BY <5>1, <5>2, <5>3
      <4> QED BY <4>1, <4>2
    <3>3. CASE q # seq
      <4>1. q \in cur..seq-1
        BY <1>1, <3>1, <3>3
      <4>2. Pkt(At(q)) # R!None \/ Time(At(q)) # R!None
        BY <1>1, <4>1 DEF Asking, GoneOver
      <4> QED BY <1>3, <3>1, <4>2
    <3> QED BY <3>2, <3>3
  <2>2. seq' - 1 = z
    BY <1>0, <1>1, <1>2
  <2>3. cur'..seq'-1 = cur..seq
    BY <1>0, <1>2, <2>2
  <2> QED BY <2>1, <2>3 DEF GoneOver
<1>7. FirstAsked'
  <2>1. asked = <<>> => \A i \in R!Slots : Pkt(i) # R!None => cur <= Pkt(i)
    BY DEF Asking, Unasked
  <2>2. cur <= cur
    BY <1>1
  <2>3. /\ asked'[1] <= cur
        /\ \A i \in R!Slots : Pkt(i) # R!None => asked'[1] <= Pkt(i)
    BY <1>5, <2>1, <2>2 DEF Asking, FirstAsked
  <2> QED BY <1>2, <1>3, <2>3 DEF FirstAsked
<1>8. Unasked'
  BY <1>5 DEF Unasked
<1>9. StampOwnUnlessCleared'
  BY <1>2, <1>5, StampsStay DEF Asking
<1> QED BY <1>6, <1>7, <1>8, <1>9 DEF Asking

\* What is given up was asked for.
LEMMA GivingUpAsking ==
  ASSUME Short, Outside, Receiving, Asking, Looking, GivingUp
  PROVE  Asking'
<1>1. /\ cur # NoSeq /\ cur \in Nat /\ seq \in Nat /\ At(seq) \in R!Slots /\ cur <= seq
  BY LookedAt DEF Looking
<1>2. /\ cur' = seq + 1 /\ seq' = seq + 1 /\ UNCHANGED <<frames, stamps, asked>>
      /\ Emptied /\ Time(At(seq)) # R!None
  BY DEF GivingUp, Passing, Looking
<1>3. \A i \in R!Slots : Pkt(i)' # R!None => Pkt(i)' = Pkt(i)
  BY <1>2 DEF Emptied
<1>4. asked # <<>>
  BY <1>1, <1>2 DEF Asking, Unasked
<1>5. GoneOver'
  <2>1. cur'..seq'-1 = {}
    BY <1>1, <1>2
  <2> QED BY <2>1 DEF GoneOver
<1>6. FirstAsked'
  <2>1. asked[1] \in Nat /\ asked[1] <= cur
    BY <1>4, AskedTypes DEF Asking, FirstAsked
  <2>2. asked[1] <= seq + 1
    BY <1>1, <2>1
  <2> QED BY <1>2, <1>3, <1>4, <2>2 DEF Asking, FirstAsked
<1>7. Unasked'
  BY <1>2, <1>4 DEF Unasked
<1>8. StampOwnUnlessCleared'
  BY <1>2, StampsStay DEF Asking
<1> QED BY <1>5, <1>6, <1>7, <1>8 DEF Asking

\* The end of a pass: as long as nothing was asked for, nothing is left.
LEMMA StoppingAsking ==
  ASSUME Short, Outside, Receiving, Asking, Looking, Stopping
  PROVE  Asking'
<1>1. /\ cur \in Nat /\ seq \in Nat /\ stage = "find" /\ max \in Nat /\ (isfull => seq = cur)
  BY LookedAt DEF Looking
<1>2. /\ stage' = "idle" /\ UNCHANGED <<cur, cache, frames, asked, stamps>> /\ (seq > max \/ ~isfull)
  BY DEF Stopping
<1>3. \A i \in R!Slots : Pkt(i)' = Pkt(i) /\ Time(i)' = Time(i)
  BY <1>2 DEF Pkt, Time
<1>4. GoneOver'
  BY <1>2 DEF GoneOver
<1>5. FirstAsked'
  BY <1>2, <1>3 DEF Asking, FirstAsked
<1>6. Unasked'
  <2>1. SUFFICES ASSUME asked = <<>>, NEW i \in R!Slots
                 PROVE  Time(i) = R!None /\ Pkt(i) = R!None
    BY <1>2, <1>3 DEF Unasked
  <2>2. Time(i) = R!None /\ cur > max
    BY <1>1, <1>2, <2>1 DEF Asking, Unasked
  <2>3. ASSUME Pkt(i) # R!None PROVE FALSE
    <3>1. cur <= Pkt(i)
      BY <2>1, <2>3 DEF Asking, Unasked
    <3>2. Pkt(i) \in Nat /\ Pkt(i) <= max
      BY <2>3, NumberTypes DEF Receiving
    <3> QED BY <1>1, <2>2, <3>1, <3>2
  <2> QED BY <2>2, <2>3
<1>7. StampOwnUnlessCleared'
  BY <1>2, StampsStay DEF Asking
<1> QED BY <1>4, <1>5, <1>6, <1>7 DEF Asking

-----------------------------------------------------------------------------
(* Retransmit: gaps are repaired                                           *)

\* As long as no packet is where it does not belong, the cache holds what lies
\* within its length of the number awaited, and every gap asked for is being
\* repaired; what was passed could not be.
InWindow ==
  /\ cur # NoSeq => max < cur + HG_CONN_CACHE_LEN
  /\ \A i \in R!Slots : Pkt(i) # R!None => cur <= Pkt(i)
UnderRepair ==
  \A q \in Pkts :
    cur <= q /\ q < cur + HG_CONN_CACHE_LEN /\ Time(At(q)) # R!None /\ Pkt(At(q)) = R!None => Repairing(q)

\* The number awaited was asked for when packets wait behind it.
Gap == Pkt(At(cur)) = R!None /\ Time(At(cur)) # R!None
GapAsked ==
  \/ cur = NoSeq
  \/ \E n \in failed : n < cur
  \/ /\ stage = "idle" /\ cur <= max => Gap
     /\ stage = "find" => (~isfull => seq > cur) /\ (seq > cur => Gap)
Repair == InWindow /\ UnderRepair /\ Passed \subseteq failed /\ GapAsked

\* The packet in the slot awaited is the one awaited.
LEMMA Awaited ==
  ASSUME Short, Outside, Receiving, InWindow, cur # NoSeq, NEW i \in R!Slots, Pkt(i) # R!None
  PROVE  i = At(cur) <=> Pkt(i) = cur
<1>1. /\ cur \in Nat /\ Pkt(i) \in Nat /\ cur <= Pkt(i) /\ Pkt(i) < cur + HG_CONN_CACHE_LEN /\ At(Pkt(i)) = i
      /\ HG_CONN_CACHE_LEN \in Nat
  <2>1. cur \in Nat /\ Pkt(i) \in Nat /\ HG_CONN_CACHE_LEN \in Nat /\ max \in Nat
    BY NumberTypes
  <2>2. cur <= Pkt(i) /\ Pkt(i) <= max /\ max < cur + HG_CONN_CACHE_LEN /\ At(Pkt(i)) = i
    BY DEF InWindow, Receiving
  <2> QED BY <2>1, <2>2
<1>2. ASSUME i = At(cur), Pkt(i) # cur PROVE FALSE
  <2>1. cur < Pkt(i) /\ Pkt(i) - cur < HG_CONN_CACHE_LEN
    BY <1>1, <1>2
  <2> QED BY <1>1, <1>2, <2>1, Places
<1> QED BY <1>1, <1>2

\* An arrival within the length of the cache opens no gap.
LEMMA ArrivalRepair ==
  ASSUME Short, Outside, Receiving, Repair, ~overrun', NEW m \in net, NEW n, Arriving(m, n)
  PROVE  Repair'
<1>1. /\ n \in Nat \ {0} /\ max \in Nat /\ HG_CONN_CACHE_LEN \in Nat \ {0} /\ cur' \in Nat /\ At(n) \in R!Slots
      /\ cur # NoSeq => cur \in Nat
  <2>1. n \in Nat \ {0} /\ cur' = (IF cur = NoSeq THEN n ELSE cur)
    BY DEF Arriving, Pkts
  <2>2. cur # NoSeq => cur \in Nat
    BY NumberTypes
  <2> QED BY <2>1, <2>2, NumberTypes, Places
<1>2. /\ stage = "idle" /\ stage' = "find" /\ seq' = cur' /\ isfull' = TRUE
      /\ cur' = (IF cur = NoSeq THEN n ELSE cur) /\ UNCHANGED <<taken, failed>>
      /\ n < cur' + HG_CONN_CACHE_LEN
      /\ \A i \in R!Slots : Time(i)' = Time(i)
      /\ \/ /\ cur' <= n /\ Pkt(At(n)) = R!None /\ max' = (IF n > max THEN n ELSE max)
            /\ \A i \in R!Slots : Pkt(i)' = IF i = At(n) THEN n ELSE Pkt(i)
         \/ /\ n < cur' \/ Pkt(At(n)) # R!None
            /\ max' = max /\ cache' = cache
  <2>1. ~(n >= cur' + HG_CONN_CACHE_LEN)
    BY DEF Arriving
  <2>2. n < cur' + HG_CONN_CACHE_LEN
    <3>1. \A a, b, c \in Nat : ~(a >= b + c) => a < b + c
      OBVIOUS
    <3>2. n \in Nat /\ cur' \in Nat /\ HG_CONN_CACHE_LEN \in Nat
      BY <1>1
    <3> QED BY <2>1, <3>1, <3>2
  <2> QED BY <2>2 DEF Arriving
<1>3. cache' = cache => \A i \in R!Slots : Pkt(i)' = Pkt(i)
  BY DEF Pkt
<1>4. cur = NoSeq => max = 0 /\ taken = <<>> /\ \A i \in R!Slots : Pkt(i) = R!None /\ Time(i) = R!None
  BY DEF Receiving
<1>5. InWindow'
  <2>1. max' < cur' + HG_CONN_CACHE_LEN
    <3>1. CASE cur = NoSeq
      BY <1>1, <1>2, <1>4, <3>1
    <3>2. CASE cur # NoSeq
      BY <1>1, <1>2, <3>2 DEF Repair, InWindow
    <3> QED BY <3>1, <3>2
  <2>2. \A i \in R!Slots : Pkt(i)' # R!None => cur' <= Pkt(i)'
    <3> TAKE i \in R!Slots
    <3>1. CASE Pkt(i)' = Pkt(i)
      BY <1>2, <1>4, <3>1 DEF Repair, InWindow
    <3>2. CASE Pkt(i)' # Pkt(i)
      BY <1>2, <1>3, <3>2
    <3> QED BY <3>1, <3>2
  <2> QED BY <2>1, <2>2 DEF InWindow
<1>6. UnderRepair'
  <2>1. ASSUME NEW q \in Pkts, cur' <= q, q < cur' + HG_CONN_CACHE_LEN, Time(At(q))' # R!None, Pkt(At(q))' = R!None
        PROVE  Repairing(q)'
    <3>1. q \in Nat /\ At(q) \in R!Slots
      BY <2>1, Places DEF Pkts
    <3>2. Time(At(q)) # R!None /\ cur # NoSeq /\ cur' = cur
      BY <1>2, <1>4, <2>1, <3>1
    <3>3. n # R!None
      BY <1>1 DEF R!None
    <3>4. Pkt(At(q)) = R!None
      BY <1>2, <1>3, <2>1, <3>1, <3>3
    <3>5. Repairing(q)
      BY <2>1, <3>2, <3>4 DEF Repair, UnderRepair
    <3>6. q # n
      BY <1>1, <1>2, <2>1, <3>1, <3>2, <3>3, <3>4
    <3> QED BY <3>5, <3>6, ArrivalOutside
  <2> QED BY <2>1 DEF UnderRepair
<1>7. Passed' \subseteq failed'
  <2>1. CASE cur = NoSeq
    BY <1>2, <1>4, <2>1 DEF Passed
  <2>2. CASE cur # NoSeq
    BY <1>2, <2>2 DEF Repair, Passed
  <2> QED BY <2>1, <2>2
<1>8. GapAsked'
  <2>1. ~(seq' > cur')
    BY <1>1, <1>2
  <2> QED BY <1>2, <2>1 DEF GapAsked
<1> QED BY <1>5, <1>6, <1>7, <1>8 DEF Repair

\* The number awaited goes up by one, and its slot is emptied.
LEMMA NextAwaited ==
  ASSUME Short, Outside, Receiving, Repair, Looking, Taking \/ GivingUp, seq = cur
  PROVE  InWindow' /\ UnderRepair'
<1>1. /\ cur # NoSeq /\ cur \in Nat /\ seq \in Nat /\ At(cur) \in R!Slots /\ max \in Nat
      /\ HG_CONN_CACHE_LEN \in Nat \ {0}
  BY LookedAt, Places DEF Looking
<1>2. cur' = cur + 1 /\ Emptied /\ max' = max
  BY DEF Taking, GivingUp, Looking
<1>3. \A i \in R!Slots : /\ Pkt(i)' = IF i = At(cur) THEN R!None ELSE Pkt(i)
                         /\ Time(i)' = IF i = At(cur) THEN R!None ELSE Time(i)
  BY <1>2 DEF Emptied
<1>4. InWindow'
  <2>1. max' < cur' + HG_CONN_CACHE_LEN
    BY <1>1, <1>2 DEF Repair, InWindow
  <2>2. \A i \in R!Slots : Pkt(i)' # R!None => cur' <= Pkt(i)'
    <3> TAKE i \in R!Slots
    <3>1. SUFFICES ASSUME Pkt(i)' # R!None PROVE cur' <= Pkt(i)'
      OBVIOUS
    <3>2. Pkt(i)' = Pkt(i) /\ i # At(cur) /\ Pkt(i) # R!None
      BY <1>3, <3>1
    <3>3. cur <= Pkt(i) /\ Pkt(i) # cur /\ Pkt(i) \in Nat
      <4>1. cur <= Pkt(i) /\ InWindow
        BY <3>2 DEF Repair, InWindow
      <4>2. Pkt(i) # cur
        BY <1>1, <3>2, <4>1, Awaited
      <4>3. Pkt(i) \in Nat
        BY <3>2, NumberTypes
      <4> QED BY <4>1, <4>2, <4>3
    <3> QED BY <1>1, <1>2, <3>2, <3>3
  <2> QED BY <2>1, <2>2 DEF InWindow
<1>5. UnderRepair'
  <2>1. ASSUME NEW q \in Pkts, cur' <= q, q < cur' + HG_CONN_CACHE_LEN, Time(At(q))' # R!None, Pkt(At(q))' = R!None
        PROVE  Repairing(q)'
    <3>1. q \in Nat /\ At(q) \in R!Slots
      BY <2>1, Places DEF Pkts
    <3>2. At(q) # At(cur) /\ Time(At(q)) # R!None /\ Pkt(At(q)) = R!None
      BY <1>3, <2>1, <3>1
    <3>3. q # cur + HG_CONN_CACHE_LEN
      BY <1>1, <3>2, Places
    <3>4. cur <= q /\ q < cur + HG_CONN_CACHE_LEN
      BY <1>1, <1>2, <2>1, <3>1, <3>3
    <3>5. Repairing(q)
      BY <3>2, <3>4 DEF Repair, UnderRepair
    <3> QED BY <3>5, LookOutside
  <2> QED BY <2>1 DEF UnderRepair
<1> QED BY <1>4, <1>5

\* The packet that is taken is the one awaited.
LEMMA TakingRepair ==
  ASSUME Short, Outside, Receiving, Repair, Looking, Taking
  PROVE  Repair' /\ Pkt(At(cur)) = cur
<1>1. /\ cur # NoSeq /\ cur \in Nat /\ seq = cur /\ At(cur) \in R!Slots /\ stage = "find"
      /\ Pkt(At(cur)) # R!None
  BY LookedAt DEF Looking, Taking
<1>2. Pkt(At(cur)) = cur
  BY <1>1, Awaited DEF Repair
<1>3. cur' = cur + 1 /\ seq' = cur + 1 /\ taken' = Append(taken, cur) /\ UNCHANGED <<stage, isfull, failed>> /\ isfull
  BY <1>2 DEF Taking
<1>4. InWindow' /\ UnderRepair'
  BY <1>1, NextAwaited
<1>5. Passed' \subseteq failed'
  <2>1. ASSUME NEW n \in Pkts, taken' # <<>>, n > taken'[1], n < cur', n \notin ToSet(taken') PROVE n \in failed
    <3>1. /\ taken \in Seq(Pkts) /\ cur \in Pkts /\ Len(taken) \in Nat
      <4>1. cur \in Pkts
        BY <1>1, <1>2, NumberTypes
      <4> QED BY <4>1, LenProperties DEF Receiving
    <3>2. /\ Len(taken') = Len(taken) + 1 /\ taken'[Len(taken)+1] = cur /\ DOMAIN taken' = 1..Len(taken)+1
          /\ DOMAIN taken = 1..Len(taken) /\ \A k \in 1..Len(taken) : taken'[k] = taken[k]
      <4>1. /\ Append(taken, cur) \in Seq(Pkts) /\ Len(Append(taken, cur)) = Len(taken) + 1
            /\ Append(taken, cur)[Len(taken) + 1] = cur
            /\ \A k \in 1..Len(taken) : Append(taken, cur)[k] = taken[k]
        BY <3>1, AppendProperties
      <4>2. DOMAIN Append(taken, cur) = 1..Len(taken)+1 /\ DOMAIN taken = 1..Len(taken)
        BY <3>1, <4>1, LenProperties
      <4> QED BY <1>3, <4>1, <4>2
    <3>3. \A k \in 1..Len(taken) : k \in 1..Len(taken)+1
      BY <3>1
    <3>4. Len(taken) + 1 \in 1..Len(taken)+1
      BY <3>1
    <3>5. n # cur /\ n \notin ToSet(taken)
      BY <2>1, <3>2, <3>3, <3>4 DEF ToSet
    <3>6. n < cur /\ n \in Nat
      BY <1>1, <1>3, <2>1, <3>5 DEF Pkts
    <3>7. taken # <<>>
      <4>1. ASSUME taken = <<>> PROVE FALSE
        <5>1. Len(taken) = 0
          BY <4>1
        <5>2. taken'[1] = cur
          BY <3>2, <5>1
        <5> QED BY <1>1, <2>1, <3>6, <5>2
      <4> QED BY <4>1
    <3>8. taken'[1] = taken[1]
      <4>1. Len(taken) # 0
        BY <3>1, <3>7, EmptySeq
      <4>2. 1 \in 1..Len(taken)
        BY <3>1, <4>1
      <4> QED BY <3>2, <4>2
    <3> QED BY <2>1, <3>5, <3>6, <3>7, <3>8 DEF Repair, Passed
  <2> QED BY <1>3, <2>1 DEF Passed
<1>6. GapAsked'
  <2>1. ~(seq' > cur')
    BY <1>1, <1>3
  <2> QED BY <1>1, <1>3, <2>1 DEF GapAsked
<1> QED BY <1>2, <1>4, <1>5, <1>6 DEF Repair

\* A packet that is given up while it is being repaired was asked for in vain.
LEMMA FailsNow ==
  ASSUME Outside, NEW q \in Pkts, Repairing(q), failed' = IF TooLate(q) THEN failed \cup {q} ELSE failed
  PROVE  q \in failed'
<1>1. CASE q \in failed
  BY <1>1
<1>2. CASE Request(q) \in net
  <2>1. pktSeq(Request(q).head) = q /\ pktCmd(Request(q).head) # enum_RTP_CMD_POST
    BY RequestHead DEF enum_RTP_CMD_POST
  <2> QED BY <1>2, <2>1 DEF TooLate
<1>3. CASE Answer(Sent(q), q) \in net
  <2>1. pktSeq(Answer(Sent(q), q).head) = q /\ pktCmd(Answer(Sent(q), q).head) # enum_RTP_CMD_POST
    BY PacketHead DEF enum_RTP_CMD_POST
  <2> QED BY <1>3, <2>1 DEF TooLate
<1> QED BY <1>1, <1>2, <1>3 DEF Repairing

\* The packet given up is the one awaited, and asking for it failed.
LEMMA GivingUpRepair ==
  ASSUME Short, Outside, Receiving, Asking, Repair, Looking, GivingUp, ~stranded'
  PROVE  Repair'
<1>1. /\ cur # NoSeq /\ cur \in Nat /\ seq \in Nat /\ At(cur) \in R!Slots /\ stage = "find"
      /\ cur <= seq /\ seq <= max /\ seq \in Pkts /\ HG_CONN_CACHE_LEN \in Nat \ {0}
  BY LookedAt, Places DEF Looking, GivingUp, Passing
<1>2. seq = cur
  <2>1. SUFFICES ASSUME cur < seq PROVE FALSE
    BY <1>1
  <2>2. cur \in cur..seq-1
    BY <1>1, <2>1
  <2>3. Pkt(At(cur)) = R!None /\ Time(At(cur)) = R!None
    BY <2>2 DEF GivingUp
  <2> QED BY <1>1, <2>2, <2>3 DEF Asking, GoneOver
<1>3. InWindow' /\ UnderRepair'
  BY <1>2, NextAwaited
<1>4. /\ cur' = cur + 1 /\ taken' = taken /\ Pkt(At(cur)) = R!None /\ Time(At(cur)) # R!None
      /\ failed' = IF TooLate(cur) THEN failed \cup {cur} ELSE failed
  BY <1>2 DEF GivingUp, Passing
<1>5. cur \in failed'
  <2>1. cur <= cur /\ cur < cur + HG_CONN_CACHE_LEN
    BY <1>1
  <2>2. Repairing(cur)
    BY <1>1, <1>2, <1>4, <2>1 DEF Repair, UnderRepair
  <2>3. cur \in Pkts
    BY <1>1, <1>2
  <2> QED BY <1>4, <2>2, <2>3, FailsNow
<1>6. Passed' \subseteq failed'
  <2>1. ASSUME NEW n \in Pkts, taken # <<>>, n > taken[1], n < cur + 1, n \notin ToSet(taken) PROVE n \in failed'
    <3>1. CASE n = cur
      BY <1>5, <3>1
    <3>2. CASE n # cur
      <4>1. n < cur
        BY <1>1, <2>1, <3>2 DEF Pkts
      <4>2. n \in failed
        BY <2>1, <4>1 DEF Repair, Passed
      <4> QED BY <1>4, <4>2
    <3> QED BY <3>1, <3>2
  <2> QED BY <1>4, <2>1 DEF Passed
<1>7. GapAsked'
  <2>1. \E n \in failed' : n < cur'
    <3>1. cur < cur + 1
      BY <1>1
    <3> QED BY <1>4, <1>5, <3>1
  <2> QED BY <2>1 DEF GapAsked
<1> QED BY <1>3, <1>6, <1>7 DEF Repair

\* A gap that is asked for is under repair.
LEMMA PassingRepair ==
  ASSUME Short, Outside, Receiving, Asking, Repair, Looking, Holding \/ Waiting \/ Requesting
  PROVE  Repair'
<1>1. /\ cur # NoSeq /\ cur \in Nat /\ seq \in Nat /\ At(seq) \in R!Slots /\ stage = "find" /\ At(cur) \in R!Slots
      /\ cur <= seq /\ seq <= max /\ seq \in Pkts /\ HG_CONN_CACHE_LEN \in Nat \ {0} /\ max \in Nat
  BY LookedAt, Places DEF Looking, Holding, Waiting, Requesting, Passing
<1>0. PICK z \in Nat, c \in Nat : z = seq /\ c = cur
  BY <1>1
<1>2. /\ cur' = cur /\ seq' = seq + 1 /\ UNCHANGED <<stage, taken, failed, max>>
  BY DEF Holding, Waiting, Requesting, Passing, Looking
<1>3. \A i \in R!Slots : /\ Pkt(i)' = Pkt(i)
                         /\ Time(i)' = Time(i) \/ (Requesting /\ i = At(seq) /\ Time(i)' # R!None)
  <2>1. CASE Holding \/ Waiting
    <3>1. cache' = cache
      BY <2>1 DEF Holding, Waiting
    <3> QED BY <3>1 DEF Pkt, Time
  <2>2. CASE Requesting
    <3>1. 0 # R!None
      BY DEF R!None
    <3> QED BY <2>2, <3>1 DEF Requesting
  <2> QED BY <2>1, <2>2
<1>4. InWindow'
  BY <1>2, <1>3 DEF Repair, InWindow
<1>5. UnderRepair'
  <2>1. ASSUME NEW q \in Pkts, cur <= q, q < cur + HG_CONN_CACHE_LEN, Time(At(q))' # R!None, Pkt(At(q))' = R!None
        PROVE  Repairing(q)'
    <3>1. q \in Nat /\ At(q) \in R!Slots
      BY <2>1, Places DEF Pkts
    <3>2. CASE Time(At(q)) # R!None
      <4>1. Repairing(q)
        BY <1>3, <2>1, <3>1, <3>2 DEF Repair, UnderRepair
      <4> QED BY <4>1, LookOutside
    <3>3. CASE Requesting /\ At(q) = At(seq)
      <4>1. seq < cur + HG_CONN_CACHE_LEN
        BY <1>1 DEF Repair, InWindow
      <4>2. q = seq
        <5>1. ~(q < seq) /\ ~(seq < q)
          <6>1. q - seq < HG_CONN_CACHE_LEN /\ seq - q < HG_CONN_CACHE_LEN
            BY <1>1, <2>1, <3>1, <4>1
          <6> QED BY <1>1, <3>1, <3>3, <6>1, Places
        <5> QED BY <1>1, <3>1, <5>1
      <4>3. Request(q) \in net'
        BY <3>3, <4>2 DEF Requesting
      <4> QED BY <4>3 DEF Repairing, Request
    <3> QED BY <1>3, <2>1, <3>1, <3>2, <3>3
  <2> QED BY <1>2, <2>1 DEF UnderRepair
<1>6. Passed' \subseteq failed'
  BY <1>2 DEF Repair, Passed
<1>7. GapAsked'
  <2>1. CASE \E n \in failed : n < cur
    BY <1>2, <2>1 DEF GapAsked
  <2>2. CASE (~isfull => seq > cur) /\ (seq > cur => Gap)
    <3>1. Pkt(At(c)) = R!None /\ (Time(At(c)) # R!None \/ (Requesting /\ c = z))
      <4>1. CASE seq > cur
        BY <1>0, <2>2, <4>1 DEF Gap
      <4>2. CASE seq = cur
        BY <1>0, <1>1, <2>2, <4>2 DEF Holding, Waiting, Requesting
      <4> QED BY <1>1, <4>1, <4>2
    <3>2. At(c) \in R!Slots
      BY <1>0, <1>1
    <3>3. Pkt(At(c))' = R!None
      BY <1>3, <3>1, <3>2
    <3>4. Time(At(c))' # R!None
      <4>1. CASE Time(At(c)) # R!None
        BY <1>3, <3>2, <4>1
      <4>2. CASE Requesting /\ c = z
        <5>1. Time(At(c))' = 0
          BY <1>0, <3>2, <4>2 DEF Requesting
        <5> QED BY <5>1 DEF R!None
      <4> QED BY <3>1, <4>1, <4>2
    <3>5. cur' = c /\ seq' > cur'
      BY <1>0, <1>1, <1>2
    <3>6. Gap'
      BY <3>3, <3>4, <3>5 DEF Gap
    <3> QED BY <1>1, <1>2, <3>5, <3>6 DEF GapAsked
  <2> QED BY <1>1, <2>1, <2>2 DEF Repair, GapAsked
<1> QED BY <1>4, <1>5, <1>6, <1>7 DEF Repair

\* A pass ends with the gap asked for.
LEMMA StoppingRepair ==
  ASSUME Short, Outside, Receiving, Asking, Repair, Looking, Stopping
  PROVE  Repair'
<1>1. /\ cur # NoSeq /\ cur \in Nat /\ seq \in Nat /\ stage = "find" /\ max \in Nat /\ cur <= seq
  BY LookedAt DEF Looking
<1>2. /\ stage' = "idle" /\ UNCHANGED <<cur, cache, max, taken, failed>> /\ (seq > max \/ ~isfull)
  BY DEF Stopping, Looking
<1>3. \A i \in R!Slots : Pkt(i)' = Pkt(i) /\ Time(i)' = Time(i)
  BY <1>2 DEF Pkt, Time
<1>4. InWindow'
  BY <1>2, <1>3 DEF Repair, InWindow
<1>5. UnderRepair'
  <2>1. ASSUME NEW q \in Pkts PROVE Pkt(At(q))' = Pkt(At(q)) /\ Time(At(q))' = Time(At(q)) /\ (Repairing(q) => Repairing(q)')
    BY <1>2, LookOutside DEF Pkt, Time
  <2> QED BY <1>2, <2>1 DEF Repair, UnderRepair
<1>6. Passed' \subseteq failed'
  BY <1>2 DEF Repair, Passed
<1>7. GapAsked'
  <2>1. CASE \E n \in failed : n < cur
    BY <1>2, <2>1 DEF GapAsked
  <2>2. CASE (~isfull => seq > cur) /\ (seq > cur => Gap)
    <3>1. ASSUME cur <= max PROVE Gap
      BY <1>1, <1>2, <2>2, <3>1
    <3>2. Gap => Gap'
      BY <1>2 DEF Gap, Pkt, Time
    <3> QED BY <1>2, <3>1, <3>2 DEF GapAsked
  <2> QED BY <1>1, <2>1, <2>2 DEF Repair, GapAsked
<1> QED BY <1>4, <1>5, <1>6, <1>7 DEF Repair

\* The receiver waits.
LEMMA SameRepair ==
  ASSUME Repair, UNCHANGED <<cur, max, stage, seq, isfull, taken>>, failed \subseteq failed',
         cur # NoSeq => cur \in Nat,
         \A i \in R!Slots : Pkt(i)' = Pkt(i) /\ (Time(i)' # R!None <=> Time(i) # R!None),
         \A q \in Pkts : Repairing(q) => Repairing(q)'
  PROVE  Repair'
<1>1. InWindow'
  BY DEF Repair, InWindow
<1>2. UnderRepair'
  <2>1. ASSUME NEW q \in Pkts PROVE At(q) \in R!Slots
    <3>1. q \in Nat
      BY DEF Pkts
    <3> QED BY <3>1, Places
  <2> QED BY <2>1 DEF Repair, UnderRepair
<1>3. Passed' \subseteq failed'
  BY DEF Repair, Passed
<1>4. GapAsked'
  <2>1. CASE cur = NoSeq
    BY <2>1 DEF GapAsked
  <2>2. CASE cur # NoSeq
    <3>1. At(cur) \in R!Slots
      BY <2>2, Places
    <3>2. Gap => Gap'
      BY <3>1 DEF Gap
    <3> QED BY <2>2, <3>2 DEF Repair, GapAsked
  <2> QED BY <2>1, <2>2
<1> QED BY <1>1, <1>2, <1>3, <1>4 DEF Repair

\* The clock repairs nothing and loses nothing,
LEMMA TickRepair ==
  ASSUME Short, Outside, Receiving, Repair, Tick
  PROVE  Repair'
<1>1. /\ UNCHANGED <<cur, max, stage, seq, isfull, taken>> /\ failed' = failed
      /\ \A i \in R!Slots : Pkt(i)' = Pkt(i) /\ (Time(i)' # R!None <=> Time(i) # R!None)
      /\ \A q \in Pkts : Repairing(q) <=> Repairing(q)'
  BY TickPlain
<1>2. cur # NoSeq => cur \in Nat
  BY NumberTypes
<1> QED BY <1>1, <1>2, SameRepair

\* and the sender goes on with what it was asked.
LEMMA SenderRepair ==
  ASSUME Short, Outside, Receiving, Repair, SenderSteps
  PROVE  Repair'
<1>1. /\ UNCHANGED <<cur, max, cache, stage, seq, isfull, taken>> /\ failed \subseteq failed'
      /\ \A q \in Pkts : Repairing(q) => Repairing(q)'
  BY OutsideStep DEF receiver
<1>2. \A i \in R!Slots : Pkt(i)' = Pkt(i) /\ Time(i)' = Time(i)
  BY <1>1 DEF Pkt, Time
<1>3. cur # NoSeq => cur \in Nat
  BY NumberTypes
<1> QED BY <1>1, <1>2, <1>3, SameRepair

-----------------------------------------------------------------------------
(* Retransmit: what comes out                                              *)

\* The frame under construction is the packets up to the one awaited, of one
\* frame; the last frame handed on ended before that.
Building ==
  big # <<>> => /\ Len(big) < cur /\ First(FrameOf(cur - 1)) <= cur - Len(big) /\ ~IsFinal(cur - 1)
                /\ \A j \in 1..Len(big) : big[j] = cur - 1 - Len(big) + j
HandedOn ==
  frames # <<>> => LET x == Last(Last(frames)) IN x \in Pkts /\ x < cur /\ IsFinal(x)
Promise == Building /\ HandedOn

\* The number of the last frame handed on.
LastFrame == IF frames = <<>> THEN 0 ELSE FrameOf(Last(Last(frames)))
MediaStep == [Media!Next]_<<Len(chains), frames, LastFrame, Broken>>

\* Packets that follow each other up to n, within its frame.
UpTo(h, n) ==
  /\ h \in Seq(Pkts) /\ Len(h) # 0 /\ Len(h) <= n /\ First(FrameOf(n)) <= n - Len(h) + 1
  /\ \A j \in 1..Len(h) : h[j] = n - Len(h) + j

\* A packet follows itself.
LEMMA OnePacket ==
  ASSUME NEW n \in Pkts
  PROVE  UpTo(<<n>>, n)
<1>1. n \in Nat \ {0} /\ First(FrameOf(n)) <= n
  BY FrameOfPacket DEF Pkts
<1>2. First(FrameOf(n)) \in Nat
  BY FrameOfPacket, FrameNumbers
<1> QED BY <1>1, <1>2 DEF UpTo

\* The packet awaited continues the frame under construction.
LEMMA Extended ==
  ASSUME Receiving, Building, cur \in Pkts
  PROVE  UpTo(Append(big, cur), cur)
<1>1. cur \in Nat \ {0} /\ LastPkt \in Nat /\ cur <= LastPkt
  BY Sixteen DEF Pkts
<1>2. big \in Seq(Pkts) /\ Len(big) \in Nat
  BY LenProperties DEF Receiving
<1> DEFINE h == Append(big, cur)
<1>3. /\ h \in Seq(Pkts) /\ Len(h) = Len(big) + 1 /\ h[Len(big) + 1] = cur
      /\ \A j \in 1..Len(big) : h[j] = big[j]
  BY <1>2, AppendProperties
<1> HIDE DEF h
<1>4. First(FrameOf(cur)) <= cur /\ First(FrameOf(cur)) \in Nat
  BY FrameOfPacket, FrameNumbers
<1>5. CASE big = <<>>
  <2>1. Len(big) = 0
    BY <1>5
  <2>2. Len(h) = 1 /\ h[1] = cur
    BY <1>3, <2>1
  <2> QED BY <1>1, <1>3, <1>4, <2>2 DEF UpTo, h
<1>6. CASE big # <<>>
  <2>1. /\ Len(big) # 0 /\ Len(big) < cur /\ First(FrameOf(cur - 1)) <= cur - Len(big) /\ ~IsFinal(cur - 1)
        /\ \A j \in 1..Len(big) : big[j] = cur - 1 - Len(big) + j
    BY <1>2, <1>6, EmptySeq DEF Building
  <2>2. cur - 1 \in Pkts /\ cur - 1 \in Nat
    BY <1>1, <1>2, <2>1 DEF Pkts
  <2> DEFINE f == FrameOf(cur - 1)
  <2>3. f \in 1..FrameTotal /\ First(f) <= cur - 1 /\ cur - 1 <= Final(f) /\ cur - 1 # Final(f)
    BY <2>1, <2>2, FrameOfPacket DEF IsFinal
  <2>4. First(f) \in Nat /\ Final(f) \in Nat
    BY <2>3, FrameNumbers
  <2> HIDE DEF f
  <2>5. First(f) <= cur /\ cur <= Final(f)
    BY <1>1, <2>3, <2>4
  <2>6. FrameOf(cur) = f
    BY <2>3, <2>5, FrameOfPacket
  <2>7. First(FrameOf(cur)) <= cur - Len(big)
    BY <2>1, <2>6 DEF f
  <2>8. \A j \in 1..Len(h) : h[j] = cur - Len(h) + j
    <3> TAKE j \in 1..Len(h)
    <3>1. CASE j = Len(big) + 1
      BY <1>1, <1>2, <1>3, <3>1
    <3>2. CASE j # Len(big) + 1
      <4>1. j \in 1..Len(big)
        BY <1>2, <1>3, <3>2
      <4> QED BY <1>1, <1>2, <1>3, <2>1, <4>1
    <3> QED BY <3>1, <3>2
  <2>9. Len(h) # 0 /\ Len(h) <= cur /\ First(FrameOf(cur)) <= cur - Len(h) + 1
    BY <1>1, <1>2, <1>3, <1>4, <2>1, <2>7
  <2> QED BY <1>3, <2>8, <2>9 DEF UpTo, h
<1> QED BY <1>5, <1>6

\* Up to the last packet of a frame: a part of the frame to its end.
LEMMA EndOfFrame ==
  ASSUME NEW n \in Pkts, IsFinal(n), NEW h, UpTo(h, n)
  PROVE  /\ Last(h) = n
         /\ \E i \in 1..Len(Content[FrameOf(n)]) :
              h = SubSeq(Content[FrameOf(n)], i, Len(Content[FrameOf(n)]))
<1> DEFINE f == FrameOf(n)
           c == Content[f]
<1>1. n \in Nat /\ f \in 1..FrameTotal /\ n = Final(f)
  BY FrameOfPacket DEF Pkts, IsFinal
<1>2. PICK a, z, l \in Nat : a = First(f) /\ z = Len(c) /\ l = Len(h) /\ z # 0 /\ l # 0
  BY <1>1, FrameNumbers, LenProperties DEF Size, UpTo
<1>3. /\ c \in Seq(Nat) /\ Len(c) = z /\ n = a + z - 1
      /\ \A j \in 1..z : c[j] = a + j - 1
  BY <1>1, <1>2, FrameNumbers DEF Final, Size
<1>4. /\ h \in Seq(Pkts) /\ Len(h) = l /\ l <= n /\ a <= n - l + 1
      /\ \A j \in 1..l : h[j] = n - l + j
  BY <1>2 DEF UpTo
<1> HIDE DEF f, c
<1>5. PICK i \in 1..z : z - i + 1 = l
  <2>1. z - l + 1 \in 1..z /\ z - (z - l + 1) + 1 = l
    <3>1. a \in Nat /\ z \in Nat /\ l \in Nat /\ z # 0 /\ l # 0 /\ n \in Nat
      BY <1>1, <1>2
    <3>2. n = a + z - 1 /\ a <= n - l + 1
      BY <1>3, <1>4
    <3> QED BY <3>1, <3>2
  <2> QED BY <2>1
<1>6. Last(h) = n
  <2>1. l \in 1..l /\ n - l + l = n
    BY <1>1, <1>2
  <2>2. h[l] = n
    BY <1>4, <2>1
  <2> QED BY <1>4, <2>2 DEF Last
<1>7. \A j \in 1..l : i + j - 1 \in 1..z /\ a + (i + j - 1) - 1 = n - l + j
  <2>1. i \in Nat /\ i <= z /\ i # 0 /\ n \in Nat /\ n = a + z - 1 /\ z - i + 1 = l
    BY <1>1, <1>2, <1>3, <1>5
  <2> TAKE j \in 1..l
  <2>2. j \in Nat /\ j # 0 /\ j <= l
    BY <1>2
  <2>3. i + j - 1 \in Nat /\ i + j - 1 # 0 /\ i + j - 1 <= z
    BY <1>2, <2>1, <2>2
  <2>4. a + (i + j - 1) - 1 = n - l + j
    <3>1. a \in Nat /\ z \in Nat /\ l \in Nat
      BY <1>2
    <3> QED BY <2>1, <2>2, <3>1
  <2> QED BY <1>2, <2>3, <2>4
<1>8. h = SubSeq(c, i, z)
  <2>1. h = [j \in 1..l |-> h[j]]
    BY <1>4, LenProperties
  <2>2. SubSeq(c, i, z) = [j \in 1..l |-> c[i + j - 1]]
    <3>1. SubSeq(c, i, z) = [j \in 1..z-i+1 |-> c[i + j - 1]]
      OBVIOUS
    <3> QED BY <1>5, <3>1
  <2>3. \A j \in 1..l : c[i + j - 1] = h[j]
    <3> TAKE j \in 1..l
    <3>1. i + j - 1 \in 1..z /\ a + (i + j - 1) - 1 = n - l + j
      BY <1>7
    <3>2. c[i + j - 1] = a + (i + j - 1) - 1
      BY <1>3, <3>1
    <3> QED BY <1>4, <3>1, <3>2
  <2> QED BY <2>1, <2>2, <2>3
<1> QED BY <1>2, <1>6, <1>8 DEF f, c

\* Nothing is handed on.
LEMMA QuietMedia ==
  ASSUME frames' = frames, Len(chains') = Len(chains), Broken \in BOOLEAN, Broken' \in BOOLEAN, Broken => Broken'
  PROVE  MediaStep
<1>1. LastFrame' = LastFrame
  BY DEF LastFrame
<1>2. CASE Broken
  BY <1>2 DEF MediaStep, Media!Next
<1>3. CASE ~Broken /\ Broken'
  <2>1. Broken' = TRUE
    BY <1>3
  <2> QED BY <1>1, <2>1 DEF MediaStep, Media!Next, Media!Break, LastFrame
<1>4. CASE ~Broken /\ ~Broken'
  BY <1>1, <1>4 DEF MediaStep
<1> QED BY <1>2, <1>3, <1>4

\* A later frame, to its end, is handed on.
LEMMA HandsOn ==
  ASSUME Broken \in BOOLEAN, Broken' = Broken, Len(chains') = Len(chains),
         NEW f \in LastFrame + 1..Len(chains), NEW i \in 1..Len(Content[f]),
         frames' = Append(frames, SubSeq(Content[f], i, Len(Content[f]))), LastFrame' = f
  PROVE  MediaStep
<1>1. Media!Deliver
  BY DEF Media!Deliver, LastFrame
<1> QED BY <1>1 DEF MediaStep, Media!Next

\* What does not touch what comes out.
LEMMA SamePromise ==
  ASSUME Promise, UNCHANGED <<cur, big, frames>>
  PROVE  Promise'
BY DEF Promise, Building, HandedOn

\* The first packet to arrive starts the stream, another changes nothing.
LEMMA ArrivalPromise ==
  ASSUME Receiving, Promise, NEW m, NEW n, Arriving(m, n)
  PROVE  Promise'
<1>1. CASE cur = NoSeq
  <2>1. big' = <<>> /\ frames' = <<>>
    BY <1>1 DEF Receiving, Arriving
  <2> QED BY <2>1 DEF Promise, Building, HandedOn
<1>2. CASE cur # NoSeq
  <2>1. UNCHANGED <<cur, big, frames>>
    BY <1>2 DEF Arriving
  <2> QED BY <2>1, SamePromise
<1> QED BY <1>1, <1>2

\* A frame is begun or continued,
LEMMA Builds ==
  ASSUME cur \in Pkts, NEW h, UpTo(h, cur), ~IsFinal(cur), big' = h, cur' = cur + 1
  PROVE  Building'
<1>1. PICK l \in Nat, c \in Nat : l = Len(h) /\ c = cur
  BY LenProperties DEF UpTo, Pkts
<1>2. l # 0 /\ l <= c /\ First(FrameOf(c)) <= c - l + 1 /\ ~IsFinal(c) /\ \A j \in 1..l : h[j] = c - l + j
  BY <1>1 DEF UpTo
<1>3. l \in Nat /\ c \in Nat /\ First(FrameOf(c)) \in Nat
  BY <1>1, FrameOfPacket, FrameNumbers
<1>4. cur' = c + 1 /\ big' = h /\ Len(big') = l
  BY <1>1
<1>5. (c + 1) - 1 = c /\ l < c + 1 /\ (c + 1) - l = c - l + 1 /\ c + 1 \in Nat
  BY <1>2, <1>3
<1>6. \A j \in 1..l : h[j] = (c + 1) - 1 - l + j
  BY <1>2, <1>5
<1>7. /\ l < c + 1 /\ First(FrameOf((c + 1) - 1)) <= (c + 1) - l /\ ~IsFinal((c + 1) - 1)
      /\ \A j \in 1..l : h[j] = (c + 1) - 1 - l + j
  BY <1>2, <1>5, <1>6
<1> QED BY <1>4, <1>7 DEF Building, IsFinal, First, FrameOf

\* or handed on.
LEMMA Delivers ==
  ASSUME Outside, Receiving, Promise, cur \in 1..Count, NEW h, UpTo(h, cur), IsFinal(cur),
         big' = <<>>, frames' = Append(frames, h), cur' = cur + 1, Len(chains') = Len(chains),
         Broken \in BOOLEAN, Broken' = Broken
  PROVE  Promise' /\ MediaStep
<1>1. PICK c \in Nat : c = cur
  BY PostedFrames DEF Outside, Pkts
<1>2. c \in Pkts /\ FrameOf(c) \in 1..Len(chains) /\ Len(chains) \in Nat
  BY <1>1, PostedFrames DEF Outside
<1> DEFINE f == FrameOf(c)
<1>3. PICK i \in 1..Len(Content[f]) : h = SubSeq(Content[f], i, Len(Content[f]))
  BY <1>1, <1>2, EndOfFrame
<1>4. Last(h) = c /\ h \in Seq(Pkts) /\ h # <<>>
  <2>1. h # <<>>
    <3>1. Len(h) # 0
      BY DEF UpTo
    <3> QED BY <3>1
  <2> QED BY <1>1, <1>2, <2>1, EndOfFrame DEF UpTo
<1>5. Last(Append(frames, h)) = h /\ Append(frames, h) # <<>>
  <2>1. frames \in Seq(Seq(Pkts)) /\ Len(frames) \in Nat
    BY LenProperties DEF Receiving
  <2> DEFINE b == Append(frames, h)
  <2>2. Len(b) = Len(frames) + 1 /\ b[Len(frames) + 1] = h /\ b \in Seq(Seq(Pkts))
    BY <1>4, <2>1, AppendProperties
  <2> HIDE DEF b
  <2>3. Last(b) = h
    BY <2>2 DEF Last
  <2>4. Len(b) # 0
    BY <2>1, <2>2
  <2>5. b # <<>>
    BY <2>4
  <2> QED BY <2>3, <2>5 DEF b
<1>6. LastFrame' = f
  BY <1>4, <1>5 DEF LastFrame, FrameOf
<1>7. f \in LastFrame + 1..Len(chains)
  <2>1. CASE frames = <<>>
    BY <1>2, <2>1 DEF LastFrame
  <2>2. CASE frames # <<>>
    <3>1. PICK x \in Pkts : x = Last(Last(frames)) /\ x < c /\ IsFinal(x)
      BY <1>1, <2>2 DEF Promise, HandedOn
    <3>2. x \in Nat
      BY DEF Pkts
    <3>3. FrameOf(x) < f /\ FrameOf(x) \in Nat /\ f \in Nat
      BY <1>1, <1>2, <3>1, <3>2, FrameOrder DEF IsFinal
    <3>4. LastFrame = FrameOf(x)
      BY <2>2, <3>1 DEF LastFrame
    <3>5. \A a, b, d \in Nat : a < b /\ b <= d => b \in a+1..d
      OBVIOUS
    <3>6. f <= Len(chains)
      BY <1>2
    <3> QED BY <1>2, <3>3, <3>4, <3>5, <3>6
  <2> QED BY <2>1, <2>2
<1>8. MediaStep
  <2> HIDE DEF f
  <2> QED BY <1>3, <1>6, <1>7, HandsOn
<1>9. Promise'
  <2>1. Building'
    BY DEF Building
  <2>2. Last(Last(frames')) = c
    BY <1>4, <1>5
  <2>3. c < cur' /\ IsFinal(c)
    BY <1>1
  <2> QED BY <1>2, <2>1, <2>2, <2>3 DEF Promise, HandedOn, IsFinal, Pkts, FrameOf, First, Final, Size
<1> QED BY <1>8, <1>9

\* The number awaited goes up, and nothing is handed on.
LEMMA LaterPromise ==
  ASSUME Promise, Building', frames' = frames, cur \in Nat, cur' \in Nat, cur < cur'
  PROVE  Promise'
<1>1. ASSUME frames # <<>>
      PROVE  Last(Last(frames)) \in Pkts /\ Last(Last(frames)) < cur' /\ IsFinal(Last(Last(frames)))
  <2>1. PICK x \in Pkts : x = Last(Last(frames)) /\ x < cur /\ IsFinal(x)
    BY <1>1 DEF Promise, HandedOn
  <2>2. x \in Nat
    BY DEF Pkts
  <2>3. x < cur'
    BY <2>1, <2>2
  <2> QED BY <2>1, <2>3
<1>2. HandedOn'
  BY <1>1 DEF HandedOn, Pkts, IsFinal, First, FrameOf, Final, Size
<1> QED BY <1>2 DEF Promise

\* The packet awaited is taken.
LEMMA TakingPromise ==
  ASSUME Short, Outside, Receiving, Promise, Looking, Taking, Pkt(At(cur)) = cur,
         Broken \in BOOLEAN, Broken' = Broken
  PROVE  Promise' /\ MediaStep
<1>1. cur \in Pkts /\ cur \in Nat /\ cur <= max /\ cur \in 1..Count
  <2>1. cur \in Pkts /\ cur \in Nat /\ seq = cur /\ cur <= max
    BY LookedAt, NumberTypes DEF Looking, Taking, R!None
  <2>2. max \in 0..Count /\ Count \in Nat
    BY NumberTypes DEF Receiving
  <2> QED BY <2>1, <2>2 DEF Pkts
<1>2. cur' = cur + 1 /\ Merging(cur) /\ Len(chains') = Len(chains)
  BY LookOutside DEF Taking
<1>3. UpTo(<<cur>>, cur) /\ UpTo(Append(big, cur), cur)
  BY <1>1, OnePacket, Extended DEF Promise
<1>4. /\ TailOf[cur] = 0 => IsFinal(cur)
      /\ TailOf[cur] = 3 => IsFinal(cur)
      /\ TailOf[cur] = 2 => ~IsFinal(cur)
      /\ TailOf[cur] = 1 => ~IsFinal(cur)
  BY <1>1, FlagOf
<1>5. CASE big' = <<>> /\ TailOf[cur] = 0 /\ frames' = Append(frames, <<cur>>)
  BY <1>1, <1>2, <1>3, <1>4, <1>5, Delivers
<1>6. CASE big' = <<>> /\ TailOf[cur] = 3 /\ frames' = Append(frames, Append(big, cur))
  BY <1>1, <1>2, <1>3, <1>4, <1>6, Delivers
<1>7. ASSUME frames' = frames, Building' PROVE Promise' /\ MediaStep
  <2>1. cur' \in Nat /\ cur < cur'
    BY <1>1, <1>2
  <2>2. Promise'
    BY <1>1, <1>7, <2>1, LaterPromise
  <2>3. MediaStep
    BY <1>2, <1>7, QuietMedia
  <2> QED BY <2>2, <2>3
<1>8. CASE frames' = frames /\ big' = <<>>
  <2>1. Building'
    BY <1>8 DEF Building
  <2> QED BY <1>7, <1>8, <2>1
<1>9. CASE frames' = frames /\ TailOf[cur] = 2 /\ big' = <<cur>>
  <2>1. Building'
    BY <1>1, <1>2, <1>3, <1>4, <1>9, Builds
  <2> QED BY <1>7, <1>9, <2>1
<1>10. CASE frames' = frames /\ TailOf[cur] = 1 /\ big' = Append(big, cur)
  <2>1. Building'
    BY <1>1, <1>2, <1>3, <1>4, <1>10, Builds
  <2> QED BY <1>7, <1>10, <2>1
<1> QED BY <1>2, <1>5, <1>6, <1>8, <1>9, <1>10 DEF Merging

\* A packet is given up: what was under construction goes.
LEMMA GivingUpPromise ==
  ASSUME Short, Outside, Receiving, Promise, Looking, GivingUp
  PROVE  Promise'
<1>1. cur \in Nat /\ seq \in Nat /\ cur <= seq
  BY LookedAt DEF Looking
<1>2. cur' = seq + 1 /\ big' = <<>> /\ frames' = frames
  BY DEF GivingUp, Passing
<1>3. Building'
  BY <1>2 DEF Building
<1>4. cur' \in Nat /\ cur < cur'
  BY <1>1, <1>2
<1> QED BY <1>1, <1>2, <1>3, <1>4, LaterPromise

-----------------------------------------------------------------------------
(* Retransmit: the invariant and what follows from it                      *)

\* The inductive invariant.
StreamInv == Outside /\ Receiving /\ Asking /\ (Broken \/ (Repair /\ Promise))

\* What is broken stays so.
LEMMA BrokenTypes ==
  ASSUME Receiving
  PROVE  Broken \in BOOLEAN
BY DEF Receiving, Broken

\* The steps: an arrival,
LEMMA ArrivalStep ==
  ASSUME Short, StreamInv, NEW m \in net, threadPOOLRecv(m)
  PROVE  StreamInv' /\ MediaStep
<1>1. Outside /\ Receiving /\ Asking
  BY DEF StreamInv
<1>2. PICK n : Arriving(m, n)
  BY <1>1, ArrivalPlain
<1>3. Outside' /\ Receiving' /\ Asking' /\ Len(chains') = Len(chains)
  BY <1>1, <1>2, ArrivalOutside, ArrivalReceiving, ArrivalAsking
<1>4. stranded' = stranded /\ (overrun => overrun') /\ frames' = frames
  BY <1>2 DEF Arriving
<1>5. MediaStep
  BY <1>1, <1>3, <1>4, BrokenTypes, QuietMedia DEF Broken
<1>6. Broken' \/ (Repair' /\ Promise')
  <2>1. SUFFICES ASSUME ~Broken' PROVE Repair' /\ Promise'
    OBVIOUS
  <2>2. ~overrun' /\ Repair /\ Promise
    BY <1>4, <2>1 DEF StreamInv, Broken
  <2> QED BY <1>1, <1>2, <2>2, ArrivalRepair, ArrivalPromise
<1> QED BY <1>3, <1>5, <1>6 DEF StreamInv

\* a step of FindUseful,
LEMMA LookStep ==
  ASSUME Short, StreamInv, FindUseful
  PROVE  StreamInv' /\ MediaStep
<1>1. Outside /\ Receiving /\ Asking
  BY DEF StreamInv
<1>2. Looking /\ (Taking \/ Holding \/ Requesting \/ Waiting \/ GivingUp \/ Stopping)
  BY <1>1, LookPlain
<1>3. Outside' /\ Receiving' /\ Len(chains') = Len(chains)
  BY <1>1, <1>2, LookOutside, LookReceiving
<1>4. Asking'
  BY <1>1, <1>2, TakingAsking, PassingAsking, GivingUpAsking, StoppingAsking
<1>5. overrun' = overrun /\ Broken \in BOOLEAN /\ Broken' \in BOOLEAN
  BY <1>1, <1>2, <1>3 DEF Looking, Receiving, Broken
<1>6. CASE Taking
  <2>1. Broken' = Broken
    BY <1>5, <1>6 DEF Taking, Broken
  <2>2. CASE Broken
    BY <1>3, <1>4, <2>1, <2>2 DEF StreamInv, MediaStep, Media!Next
  <2>3. CASE ~Broken
    <3>1. Repair /\ Promise
      BY <2>3 DEF StreamInv
    <3>2. Repair' /\ Pkt(At(cur)) = cur
      BY <1>1, <1>2, <1>6, <3>1, TakingRepair
    <3>3. Promise' /\ MediaStep
      BY <1>1, <1>2, <1>5, <1>6, <2>1, <3>1, <3>2, TakingPromise
    <3> QED BY <1>3, <1>4, <3>2, <3>3 DEF StreamInv
  <2> QED BY <2>2, <2>3
<1>7. CASE GivingUp
  <2>1. frames' = frames /\ (Broken => Broken') /\ (Broken' \/ ~stranded')
    BY <1>5, <1>7 DEF GivingUp, Passing, Broken
  <2>2. MediaStep
    BY <1>3, <1>5, <2>1, QuietMedia
  <2>3. ASSUME ~Broken' PROVE Repair' /\ Promise'
    BY <1>1, <1>2, <1>7, <2>1, <2>3, GivingUpRepair, GivingUpPromise DEF StreamInv
  <2> QED BY <1>3, <1>4, <2>2, <2>3 DEF StreamInv
<1>8. CASE Holding \/ Waiting \/ Requesting \/ Stopping
  <2>1. UNCHANGED <<cur, big, frames>> /\ stranded' = stranded
    BY <1>8 DEF Holding, Waiting, Requesting, Stopping, Passing
  <2>2. Broken' = Broken
    BY <1>5, <2>1 DEF Broken
  <2>3. MediaStep
    BY <1>3, <1>5, <2>1, <2>2, QuietMedia
  <2>4. ASSUME ~Broken' PROVE Repair' /\ Promise'
    BY <1>1, <1>2, <1>8, <2>1, <2>2, <2>4, PassingRepair, StoppingRepair, SamePromise DEF StreamInv
  <2> QED BY <1>3, <1>4, <2>3, <2>4 DEF StreamInv
<1> QED BY <1>2, <1>6, <1>7, <1>8

\* the clock,
LEMMA TickStep ==
  ASSUME Short, StreamInv, Tick
  PROVE  StreamInv' /\ MediaStep
<1>1. Outside /\ Receiving /\ Asking
  BY DEF StreamInv
<1>2. Outside' /\ Len(chains') = Len(chains) /\ UNCHANGED <<cur, big, frames, stranded, overrun>>
  BY <1>1, TickPlain
<1>3. Receiving' /\ Asking' /\ Broken \in BOOLEAN /\ Broken' = Broken
  BY <1>1, <1>2, TickReceiving, TickAsking, BrokenTypes DEF Broken
<1>4. MediaStep
  BY <1>2, <1>3, QuietMedia
<1>5. ASSUME ~Broken' PROVE Repair' /\ Promise'
  BY <1>1, <1>2, <1>3, <1>5, TickRepair, SamePromise DEF StreamInv
<1> QED BY <1>2, <1>3, <1>4, <1>5 DEF StreamInv

\* the sender and the network.
LEMMA SenderStep ==
  ASSUME Short, StreamInv, SenderSteps
  PROVE  StreamInv' /\ MediaStep
<1>1. Outside /\ Receiving /\ Asking
  BY DEF StreamInv
<1>2. Outside' /\ UNCHANGED <<cur, big, frames, stranded>> /\ overrun' = overrun
  BY <1>1, OutsideStep DEF receiver
<1>3. Receiving' /\ Asking' /\ Broken \in BOOLEAN /\ Broken' = Broken
  BY <1>1, <1>2, SenderReceiving, SenderAsking, BrokenTypes DEF Broken
<1>4. MediaStep
  <2>1. CASE Len(chains') = Len(chains)
    BY <1>2, <1>3, <2>1, QuietMedia
  <2>2. CASE SendData
    <3>1. Len(chains') = Len(chains) + 1 /\ Len(chains) < Len(Content)
      BY <1>1, <2>2, SendDataSending DEF SendData, Outside, FrameTotal
    <3>2. Media!Send
      BY <1>2, <1>3, <3>1 DEF Media!Send
    <3> QED BY <3>2 DEF MediaStep, Media!Next
  <2>3. CASE Post \/ NextNode \/ \E m \in net : Repost(m) \/ Lose(m)
    <3>1. chains' = chains
      BY <2>3 DEF Post, NextNode, Repost, Lose, sender, S!Post, S!NextNode, S!Repost, S!sending
    <3> QED BY <2>1, <3>1
  <2> QED BY <2>2, <2>3 DEF SenderSteps
<1>5. ASSUME ~Broken' PROVE Repair' /\ Promise'
  BY <1>1, <1>2, <1>3, <1>5, SenderRepair, SamePromise DEF StreamInv
<1> QED BY <1>2, <1>3, <1>4, <1>5 DEF StreamInv

\* The invariant holds at first, and so does a MediaStream's beginning.
LEMMA StreamBegins ==
  ASSUME Short, StreamInit
  PROVE  StreamInv /\ Media!Init
<1>1. /\ chains = <<>> /\ node = 0 /\ copied = 0 /\ sendsize = 0 /\ snd = 0 /\ sndmax = 0 /\ posted = <<>>
      /\ sendcache = [i \in S!Slots |-> S!NoPacket] /\ released = {} /\ answer = S!NoAnswer
      /\ cur = NoSeq /\ max = 0 /\ cache = [i \in R!Slots |-> R!EmptySlot] /\ big = <<>>
      /\ stage = "idle" /\ seq = 0 /\ isfull = TRUE /\ taken = <<>> /\ frames = <<>> /\ asked = <<>>
      /\ stranded = FALSE /\ novalue = 0
      /\ net = {} /\ lost = 0 /\ twice = 0 /\ pts = 0 /\ stamps = <<>> /\ failed = {} /\ overrun = FALSE
  BY DEF StreamInit, S!Init, R!Init
<1>2. Count = 0 /\ Len(chains) = 0 /\ FrameTotal \in Nat
  BY <1>1, FramesFollow DEF Count
<1>3. Sending
  <2>1. answer \in [asked : S!Seqs \cup {-1}, behind : 0..HG_CONN_CACHE_LEN, got : Kept, live : BOOLEAN]
    <3>1. S!NoPacket \in Kept /\ 0 \in 0..HG_CONN_CACHE_LEN /\ -1 \in S!Seqs \cup {-1}
      BY Sixteen DEF Kept
    <3> QED BY <1>1, <3>1 DEF S!NoAnswer
  <2>2. sendcache \in [S!Slots -> Kept]
    BY <1>1 DEF Kept
  <2> QED BY <1>1, <1>2, <2>1, <2>2, Sixteen DEF Sending
<1>4. Outside
  BY <1>1, <1>3, Sixteen DEF Outside
<1>5. \A i \in R!Slots : Pkt(i) = R!None /\ Time(i) = R!None
  BY <1>1 DEF Pkt, Time, R!EmptySlot
<1>6. Receiving
  <2>1. cache \in [R!Slots -> [pkt : Pkts \cup {R!None}, time : -1..Expiry]]
    BY <1>1, Sixteen DEF R!EmptySlot, R!None
  <2>2. 0 \in 0..Count /\ 0 \in 0..LastPkt + 1
    BY <1>2, Sixteen
  <2>3. /\ cur \in (1..LastPkt+1) \cup {NoSeq} /\ max \in 0..Count /\ seq \in 0..LastPkt+1
        /\ big \in Seq(Pkts) /\ stage \in {"idle", "find"} /\ isfull \in BOOLEAN /\ novalue \in Nat
        /\ taken \in Seq(Pkts) /\ frames \in Seq(Seq(Pkts)) /\ asked \in Seq(Nat)
        /\ stranded \in BOOLEAN /\ overrun \in BOOLEAN
        /\ pts \in Nat /\ stamps \in Seq(Nat) /\ Len(stamps) = Len(frames) /\ Len(asked) = 0
    <3>1. /\ cur \in (1..LastPkt+1) \cup {NoSeq} /\ max \in 0..Count /\ seq \in 0..LastPkt+1
          /\ stage \in {"idle", "find"} /\ isfull \in BOOLEAN /\ novalue \in Nat /\ pts \in Nat
          /\ stranded \in BOOLEAN /\ overrun \in BOOLEAN
      BY <1>1, <2>2
    <3>2. /\ big \in Seq(Pkts) /\ taken \in Seq(Pkts) /\ frames \in Seq(Seq(Pkts)) /\ asked \in Seq(Nat)
          /\ stamps \in Seq(Nat) /\ Len(stamps) = Len(frames) /\ Len(asked) = 0
      BY <1>1
    <3> QED BY <3>1, <3>2
  <2>4. \A k \in 1..Len(asked) : asked[k] <= max
    BY <2>3
  <2> QED BY <1>1, <1>5, <2>1, <2>3, <2>4 DEF Receiving
<1>7. Asking
  BY <1>1, <1>5 DEF Asking, GoneOver, FirstAsked, Unasked, StampOwnUnlessCleared
<1>8. Repair /\ Promise
  <2>1. InWindow /\ Passed = {} /\ GapAsked /\ Promise
    BY <1>1, <1>5 DEF InWindow, Passed, GapAsked, Promise, Building, HandedOn
  <2>2. UnderRepair
    <3>1. \A q \in Pkts : Time(At(q)) = R!None
      BY <1>5, Places DEF Pkts
    <3> QED BY <3>1 DEF UnderRepair
  <2> QED BY <1>1, <2>1, <2>2 DEF Repair
<1>9. Media!Init
  BY <1>1, <1>2 DEF Media!Init, Broken
<1> QED BY <1>4, <1>6, <1>7, <1>8, <1>9 DEF StreamInv

\* Every step keeps the invariant and is one of a MediaStream.
LEMMA StreamStays ==
  ASSUME Short, StreamInv, [StreamNext]_streamVars
  PROVE  StreamInv' /\ MediaStep
<1>1. CASE StreamNext
  <2>1. CASE SenderSteps
    BY <2>1, SenderStep
  <2>2. CASE Tick
    BY <2>2, TickStep
  <2>3. CASE FindUseful
    BY <2>3, LookStep
  <2>4. CASE \E m \in net : threadPOOLRecv(m)
    BY <2>4, ArrivalStep
  <2> QED BY <1>1, <2>1, <2>2, <2>3, <2>4 DEF StreamNext, SenderSteps
<1>2. CASE UNCHANGED streamVars
  <2>1. UNCHANGED <<sender, receiver, net, lost, twice, pts, stamps, failed, overrun>>
    BY <1>2 DEF streamVars, faults, stamping, outcome
  <2>2. UNCHANGED <<chains, node, copied, sendsize, snd, sndmax, sendcache, released, posted, answer,
                    cur, max, cache, big, stage, seq, isfull, novalue, taken, frames, asked, stranded>>
    BY <2>1 DEF sender, receiver
  <2>3. Outside'
    BY <2>1, <2>2, SendingSame DEF StreamInv, Outside
  <2>4. Receiving' /\ Asking' /\ (Repair => Repair') /\ (Promise => Promise') /\ Broken' = Broken
    <3>1. Receiving'
      BY <2>1, <2>2 DEF StreamInv, Receiving, Count, Pkt, Time
    <3>2. Asking'
      BY <2>1, <2>2 DEF StreamInv, Asking, GoneOver, FirstAsked, Unasked, StampOwnUnlessCleared, Pkt, Time
    <3>3. Repair => Repair'
      BY <2>1, <2>2 DEF Repair, InWindow, UnderRepair, Passed, GapAsked, Gap, Pkt, Time, Repairing, Count
    <3>4. Promise => Promise'
      BY <2>2, SamePromise
    <3> QED BY <2>1, <2>2, <3>1, <3>2, <3>3, <3>4 DEF Broken
  <2>5. MediaStep
    BY <2>2, <2>4, BrokenTypes, QuietMedia DEF StreamInv
  <2> QED BY <2>3, <2>4, <2>5 DEF StreamInv
<1> QED BY <1>1, <1>2

\* The invariant says what StreamTypeOK says,
LEMMA StreamTypes ==
  ASSUME Short, StreamInv
  PROVE  StreamTypeOK
<1>1. Outside /\ Receiving
  BY DEF StreamInv
<1>2. S!TypeOK
  BY <1>1, SenderTypes DEF Outside
<1>3. /\ Count \in Nat /\ Count <= LastPkt /\ LastPkt \in Nat /\ max \in Nat /\ seq \in Nat
      /\ cur # NoSeq => cur \in Nat \ {0} /\ cur <= LastPkt + 1
  BY <1>1, NumberTypes
<1>4. R!TypeOK
  <2>1. \A n \in 0..LastPkt+1 : n \in R!Seqs
    BY Unwrapped
  <2>2. cur \in R!Seqs \cup {NoSeq} /\ max \in R!Seqs /\ seq \in R!Seqs
    BY <1>1, <1>3, <2>1 DEF Receiving
  <2>3. R!Packets = Pkts
    BY DEF R!Packets, Pkts
  <2> QED BY <1>1, <1>3, <2>2, <2>3 DEF R!TypeOK, Receiving, Count
<1>5. \A m \in net :
        /\ IsRequest(m) \/ IsPacket(m)
        /\ IsPacket(m) => /\ pktSeq(m.head) = R!Wire(m.body) /\ pktFlag(m.head) = TailOf[m.body]
                          /\ pktTimestamp(m.head) = FrameOf(m.body)
  <2> TAKE m \in net
  <2>1. Count \in 0..LastPkt /\ Genuine(m, Count)
    BY <1>1, PostedFrames DEF Outside
  <2>2. /\ IsRequest(m) \/ IsPacket(m)
        /\ IsPacket(m) => /\ m.body \in Pkts /\ pktSeq(m.head) = m.body /\ pktFlag(m.head) = TailOf[m.body]
                          /\ pktTimestamp(m.head) = FrameOf(m.body)
    BY <2>1, Reads
  <2>3. \A n \in Pkts : R!Wire(n) = n
    <3>1. \A n \in Pkts : n \in 0..LastPkt+1
      BY <1>3 DEF Pkts
    <3> QED BY <3>1, Unwrapped
  <2> QED BY <2>2, <2>3
<1>6. lost + twice \in 0..MaxFaults /\ twice <= MaxTwice /\ failed \subseteq Pkts /\ Len(stamps) = Len(frames)
  BY <1>1, Sixteen DEF Outside, Receiving
<1> QED BY <1>2, <1>4, <1>5, <1>6 DEF StreamTypeOK

\* and what the other invariants say.
LEMMA StreamHolds ==
  ASSUME Short, StreamInv
  PROVE  StampOwnUnlessCleared /\ PassedOnlyIfFailed /\ HeldOnlyIfFailed
<1>1. Outside /\ Receiving /\ StampOwnUnlessCleared
  BY DEF StreamInv, Asking
<1>2. PassedOnlyIfFailed
  BY DEF StreamInv, Repair, PassedOnlyIfFailed
<1>3. HeldOnlyIfFailed
  <2>1. SUFFICES ASSUME ~Broken, AtRest, NEW i \in R!Slots, cache[i].pkt # R!None
                 PROVE  \E n \in failed : n < cache[i].pkt
    BY DEF HeldOnlyIfFailed
  <2> DEFINE p == Pkt(i)
  <2>2. Repair /\ net = {} /\ stage = "idle" /\ p # R!None /\ cur # NoSeq
    BY <1>1, <2>1 DEF StreamInv, AtRest, NoPass, Receiving, Pkt
  <2>3. /\ p \in Pkts /\ p \in Nat /\ cur \in Nat \ {0} /\ cur <= p /\ p <= max /\ max \in Nat /\ max <= LastPkt
        /\ HG_CONN_CACHE_LEN \in Nat \ {0} /\ LastPkt \in Nat
    <3>1. p \in Pkts /\ max \in Nat /\ cur \in Nat \ {0} /\ HG_CONN_CACHE_LEN \in Nat \ {0} /\ LastPkt \in Nat /\ Count \in Nat /\ Count <= LastPkt
      BY <1>1, <2>2, NumberTypes
    <3>2. p <= max /\ max \in 0..Count
      BY <1>1, <2>2 DEF Receiving
    <3>3. cur <= p
      BY <2>2 DEF Repair, InWindow
    <3> QED BY <3>1, <3>2, <3>3 DEF Pkts
  <2>4. CASE \E n \in failed : n < cur
    <3>1. PICK n \in failed : n < cur
      BY <2>4
    <3>2. n \in Nat
      BY <1>1, <3>1 DEF Outside, Pkts
    <3>3. n < p
      BY <2>3, <3>1, <3>2
    <3> QED BY <3>1, <3>3 DEF Pkt
  <2>5. CASE ~(\E n \in failed : n < cur)
    <3>1. Gap
      BY <2>2, <2>3, <2>5 DEF Repair, GapAsked
    <3>2. cur \in Pkts /\ cur <= cur /\ cur < cur + HG_CONN_CACHE_LEN
      BY <2>3 DEF Pkts
    <3>3. Repairing(cur)
      BY <2>2, <3>1, <3>2 DEF Repair, UnderRepair, Gap
    <3>4. cur \in failed
      BY <2>2, <3>3 DEF Repairing
    <3>5. cur # p
      <4>1. At(p) = i
        BY <1>1, <2>2 DEF Receiving
      <4> QED BY <2>2, <3>1, <4>1 DEF Gap
    <3>6. cur < p
      BY <2>3, <3>5
    <3> QED BY <3>4, <3>6 DEF Pkt
  <2> QED BY <2>4, <2>5
<1> QED BY <1>1, <1>2, <1>3

\* The hypothesis is about constants.
LEMMA ShortStays == Short => []Short
<1>1. Short => Short'
  BY DEF Short
<1> QED BY <1>1, PTL

\* The inductive invariant holds in every state of the stream: what FindUseful
\* and threadPOOLRecv of both sides keep true together.
THEOREM StreamInvariant == Short /\ StreamSpec => []StreamInv
<1>1. Short /\ StreamInit => StreamInv
  BY StreamBegins
<1>2. Short /\ StreamInv /\ [StreamNext]_streamVars => StreamInv'
  BY StreamStays
<1> QED BY <1>1, <1>2, ShortStays, PTL DEF StreamSpec

\* The types of both sides; and the head that SendData made tells the receiver
\* the number, the flag and the frame of the packet, also when it is sent again.
THEOREM StreamTypeCorrect == Short /\ StreamSpec => []StreamTypeOK
<1>1. Short /\ StreamInv => StreamTypeOK
  BY StreamTypes
<1> QED BY <1>1, ShortStays, StreamInvariant, PTL

\* MergeData hands a frame of one packet on with timestamp 0, and a frame of
\* several with its own, unless one of its packets or an earlier one had to be
\* asked for.
THEOREM StampsOwnUnlessCleared == Short /\ StreamSpec => []StampOwnUnlessCleared
<1>1. Short /\ StreamInv => StampOwnUnlessCleared
  BY StreamHolds
<1> QED BY <1>1, ShortStays, StreamInvariant, PTL

\* FindUseful passes over a packet only if asking for it failed.
THEOREM PassedFailed == Short /\ StreamSpec => []PassedOnlyIfFailed
<1>1. Short /\ StreamInv => PassedOnlyIfFailed
  BY StreamHolds
<1> QED BY <1>1, ShortStays, StreamInvariant, PTL

\* When all is over, the cache holds only what lies behind a packet that was
\* asked for in vain, though FindUseful runs on arrivals only.
THEOREM HeldFailed == Short /\ StreamSpec => []HeldOnlyIfFailed
<1>1. Short /\ StreamInv => HeldOnlyIfFailed
  BY StreamHolds
<1> QED BY <1>1, ShortStays, StreamInvariant, PTL

\* The stream is a MediaStream: each step of the sender, of the network and of
\* the receiver is one of MediaStream or none.
THEOREM StreamRefines == Short /\ StreamSpec => KeepsPromise
<1>1. Short /\ StreamInit => Media!Init
  BY StreamBegins
<1>2. Short /\ StreamInv /\ [StreamNext]_streamVars
      => [Media!Next]_<<Len(chains), frames, IF frames = <<>> THEN 0 ELSE FrameOf(Last(Last(frames))), Broken>>
  BY StreamStays DEF MediaStep, LastFrame
<1> QED BY <1>1, <1>2, ShortStays, StreamInvariant, PTL DEF StreamSpec, KeepsPromise, Media!Spec
=============================================================================
