-------------------------- MODULE SendStreamProofs ---------------------------
(***************************************************************************)
(* HuageSendStream, for any frames, any length of a packet and any cache   *)
(* no longer than half the circle of the sequence numbers: however a frame *)
(* is spread over nodes it is cut into packets that are the frame, and     *)
(* during the first turn of the numbers a request is answered with the     *)
(* packet asked for, whose bytes are still there.                          *)
(***************************************************************************)
EXTENDS SendStream, DataProofs, SequenceTheorems

-----------------------------------------------------------------------------
(* The bytes of the nodes of a chain.                                      *)

\* What a function must satisfy to be Bytes(c), up to the m-th node.
BytesUpTo(c, g, m) ==
  g = [i \in 0..m |-> IF i = 0 THEN 0 ELSE g[i-1] + c[i]]

\* Bytes is what its definition says: the recursion has a solution.
LEMMA BytesDef ==
  ASSUME NEW c \in Seq(Nat \ {0})
  PROVE  /\ Bytes(c)[0] = 0
         /\ \A m \in 1..Len(c) : Bytes(c)[m] = Bytes(c)[m-1] + c[m]
         /\ \A m \in 0..Len(c) : Bytes(c)[m] \in Nat
         /\ \A m \in 1..Len(c) : c[m] \in Nat \ {0}
<1>a. Len(c) \in Nat /\ \A m \in 1..Len(c) : c[m] \in Nat \ {0}
  OBVIOUS
<1> DEFINE S == {m \in Nat : m <= Len(c) => \E g \in [0..m -> Nat] : BytesUpTo(c, g, m)}
<1>1. 0 \in S
  <2> DEFINE g == [i \in 0..0 |-> 0]
  <2>1. g \in [0..0 -> Nat] /\ BytesUpTo(c, g, 0)
    BY DEF BytesUpTo
  <2> QED BY <2>1
<1>2. ASSUME NEW m \in S PROVE m + 1 \in S
  <2>1. SUFFICES ASSUME m + 1 <= Len(c)
                 PROVE  \E g \in [0..m+1 -> Nat] : BytesUpTo(c, g, m+1)
    <3>1. m + 1 \in Nat
      OBVIOUS
    <3> QED BY <3>1
  <2>2. m \in Nat /\ m <= Len(c)
    BY <1>a, <2>1
  <2>3. PICK g \in [0..m -> Nat] : BytesUpTo(c, g, m)
    BY <2>2
  <2> DEFINE h == [i \in 0..m+1 |-> IF i = m+1 THEN g[m] + c[m+1] ELSE g[i]]
  <2>4. h \in [0..m+1 -> Nat]
    BY <1>a, <2>1, <2>2
  <2>5. \A i \in 0..m+1 : h[i] = IF i = 0 THEN 0 ELSE h[i-1] + c[i]
    <3>1. \A i \in 0..m : g[i] = IF i = 0 THEN 0 ELSE g[i-1] + c[i]
      BY <2>3 DEF BytesUpTo
    <3> QED BY SMTT(30), <2>2, <3>1
  <2>6. BytesUpTo(c, h, m+1)
    BY <2>4, <2>5 DEF BytesUpTo
  <2> QED BY <2>4, <2>6
<1>3. Len(c) \in S
  <2>1. S = Nat
    <3> HIDE DEF S
    <3>1. S \in SUBSET Nat
      BY DEF S
    <3> QED BY <1>1, <1>2, <3>1, AllNumbers
  <2> QED BY <1>a, <2>1
<1>4. PICK g \in [0..Len(c) -> Nat] : BytesUpTo(c, g, Len(c))
  BY <1>a, <1>3
<1>5. BytesUpTo(c, Bytes(c), Len(c))
  BY <1>4, Zenon DEF Bytes, BytesUpTo
<1>6. \A m \in 0..Len(c) : Bytes(c)[m] = IF m = 0 THEN 0 ELSE Bytes(c)[m-1] + c[m]
  BY <1>5 DEF BytesUpTo
<1>7. Bytes(c)[0] = 0
  BY <1>6, <1>a
<1>8. \A m \in 1..Len(c) : Bytes(c)[m] = Bytes(c)[m-1] + c[m]
  BY <1>6, <1>a
<1>9. ASSUME NEW m \in 0..Len(c) PROVE Bytes(c)[m] \in Nat
  <2> DEFINE T == {i \in Nat : i <= Len(c) => Bytes(c)[i] \in Nat}
  <2>1. 0 \in T
    BY <1>7
  <2>2. ASSUME NEW i \in T PROVE i + 1 \in T
    <3>1. ASSUME i + 1 <= Len(c) PROVE Bytes(c)[i+1] \in Nat
      <4>1. i + 1 \in 1..Len(c) /\ (i + 1) - 1 = i /\ Bytes(c)[i] \in Nat
        BY <1>a, <3>1
      <4>2. Bytes(c)[i+1] = Bytes(c)[i] + c[i+1]
        BY <1>8, <4>1
      <4> QED BY <1>a, <4>1, <4>2
    <3> QED BY <3>1
  <2>3. T = Nat
    <3> HIDE DEF T
    <3>1. T \in SUBSET Nat
      BY DEF T
    <3> QED BY <2>1, <2>2, <3>1, AllNumbers
  <2>4. m \in T
    <3> HIDE DEF T
    <3> QED BY <2>3
  <2> QED BY <1>a, <2>4
<1> QED BY <1>a, <1>7, <1>8, <1>9

\* Every node adds to the bytes.
LEMMA BytesGrow ==
  ASSUME NEW c \in Seq(Nat \ {0}), NEW m \in 0..Len(c), NEW k \in 0..Len(c), m < k
  PROVE  Bytes(c)[m] < Bytes(c)[k]
<1>a. Len(c) \in Nat
  OBVIOUS
<1> DEFINE S == {i \in Nat : m + i + 1 <= Len(c) => Bytes(c)[m] < Bytes(c)[m+i+1]}
<1>1. 0 \in S
  <2>1. SUFFICES ASSUME m + 0 + 1 <= Len(c) PROVE Bytes(c)[m] < Bytes(c)[m+0+1]
    OBVIOUS
  <2>2. m + 0 + 1 \in 1..Len(c) /\ (m + 0 + 1) - 1 = m
    BY <1>a, <2>1
  <2>3. Bytes(c)[m+0+1] = Bytes(c)[m] + c[m+0+1] /\ c[m+0+1] \in Nat \ {0} /\ Bytes(c)[m] \in Nat
    BY <2>2, BytesDef
  <2> QED BY <2>3
<1>2. ASSUME NEW i \in S PROVE i + 1 \in S
  <2>1. SUFFICES ASSUME m + (i+1) + 1 <= Len(c) PROVE Bytes(c)[m] < Bytes(c)[m+(i+1)+1]
    OBVIOUS
  <2> DEFINE j == m + i + 1
  <2>2. j \in 0..Len(c) /\ j + 1 \in 1..Len(c) /\ j + 1 = m + (i+1) + 1 /\ (j + 1) - 1 = j
    BY <1>a, <2>1
  <2>3. Bytes(c)[m] < Bytes(c)[j]
    BY <1>a, <2>2
  <2> HIDE DEF j
  <2>4. Bytes(c)[j+1] = Bytes(c)[j] + c[j+1] /\ c[j+1] \in Nat \ {0}
        /\ Bytes(c)[j] \in Nat /\ Bytes(c)[m] \in Nat
    BY <2>2, BytesDef
  <2>5. Bytes(c)[m] < Bytes(c)[j+1]
    BY <2>3, <2>4
  <2> QED BY <2>2, <2>5
<1>3. S = Nat
  <2> HIDE DEF S
  <2>1. S \in SUBSET Nat
    BY DEF S
  <2> QED BY <1>1, <1>2, <2>1, AllNumbers
<1>4. k - m - 1 \in Nat /\ m + (k-m-1) + 1 = k
  BY <1>a
<1>5. k - m - 1 \in S
  <2> HIDE DEF S
  <2> QED BY <1>3, <1>4
<1> QED BY <1>a, <1>4, <1>5

-----------------------------------------------------------------------------
(* The invariant.                                                          *)

Count  == Len(posted)
Newest == posted[Count]

\* SendData is at the byte that follows the newest packet.
Place ==
  /\ node # 0 => sendsize = Bytes(chains[frame])[node-1] + copied
  /\ node # 0 /\ sendsize = 0 =>
       /\ node = 1
       /\ IF posted = <<>> THEN frame = 1 ELSE Ends(Newest) /\ Newest.frame = frame - 1
  /\ node # 0 /\ sendsize > 0 =>
       /\ posted # <<>> /\ Newest.frame = frame
       /\ \/ Newest.node = node /\ Newest.from + Newest.size = copied
          \/ Newest.node = node - 1 /\ copied = 0 /\ NodeDone(Newest)
  /\ node = 0 /\ frame = 0 => posted = <<>>

\* Frames are sent one after the other, and nothing after their end.
Ordered ==
  /\ \A k \in 1..Count : posted[k].frame <= frame
  /\ \A j, k \in 1..Count : j < k =>
       /\ posted[j].frame <= posted[k].frame
       /\ Ends(posted[j]) => posted[j].frame < posted[k].frame

\* The first turn of the sequence numbers: none has been given out twice.
FirstTurn == Count < HG_SEQ_MAX_NUM

Numbered == snd = Count /\ max = Count /\ \A k \in 1..Count : posted[k].seq = k

\* The slots hold the newest packets; a slot no packet has come to holds none.
CacheHolds ==
  /\ \A k \in 1..Count : k > Count - HG_CONN_CACHE_LEN => sendcache[Slot(k)] = posted[k]
  /\ \A k \in Count+1..HG_CONN_CACHE_LEN : sendcache[Slot(k)] = NoPacket

\* A frame is released when its last packet leaves the cache, and not before.
ReleasedOld ==
  \A f \in Frames :
    f \in released <=>
      \E k \in 1..Count :
        k <= Count - HG_CONN_CACHE_LEN /\ posted[k].frame = f /\ Ends(posted[k])

IInv ==
  /\ TypeOK /\ Place /\ Ordered /\ FrameFlags /\ FrameBytes
  /\ FirstTurn => Numbered /\ CacheHolds /\ ReleasedOld /\ AnswerLive

\* What the types say of the numbers and the packets.
LEMMA Types ==
  ASSUME IInv
  PROVE  /\ chains \in Seq(Chains) /\ Len(chains) \in Nat
         /\ posted \in Seq(Packet) /\ Count \in Nat /\ sendsize \in Nat
         /\ \A f \in Frames : chains[f] \in Seq(Nat \ {0}) /\ Len(chains[f]) \in Nat \ {0}
         /\ \A k \in 1..Count : posted[k] \in Packet
         /\ posted # <<>> => Count \in 1..Count
         /\ posted = <<>> <=> Count = 0
<1>1. chains \in Seq(Chains) /\ posted \in Seq(Packet) /\ sendsize \in Nat
  BY DEF IInv, TypeOK
<1>2. Len(chains) \in Nat /\ Count \in Nat /\ \A k \in 1..Count : posted[k] \in Packet
  BY <1>1, LenProperties, ElementOfSeq DEF Count
<1>3. ASSUME NEW f \in Frames
      PROVE  chains[f] \in Seq(Nat \ {0}) /\ Len(chains[f]) \in Nat \ {0}
  <2>1. chains[f] \in Chains
    BY <1>1, ElementOfSeq DEF Frames
  <2>2. chains[f] \in Seq(Nat \ {0}) /\ chains[f] # <<>>
    BY <2>1, SendAssumption
  <2> QED BY <2>2, LenProperties, EmptySeq
<1>4. posted = <<>> <=> Count = 0
  BY <1>1, EmptySeq DEF Count
<1> QED BY <1>1, <1>2, <1>3, <1>4

\* The numbers of the circle and of the cache.
LEMMA Constants ==
  /\ HG_SEQ_MAX_NUM \in Nat \ {0} /\ Half \in Nat \ {0} /\ Half < HG_SEQ_MAX_NUM
  /\ HG_CONN_CACHE_LEN \in Nat \ {0} /\ HG_CONN_CACHE_LEN <= Half /\ MaxCopy \in Nat \ {0}
<1>1. HG_SEQ_MAX_NUM \in Nat \ {0} /\ Half \in Nat /\ Half < HG_SEQ_MAX_NUM
  BY SeqAssumption DEF Half
<1> QED BY <1>1, SendAssumption

\* A packet within a node: its fields are numbers.
LEMMA PacketTypes ==
  ASSUME NEW p \in Packet
  PROVE  /\ p.seq \in Seqs \cup {-1} /\ p.frame \in 0..Len(chains) /\ p.tail \in 0..3
         /\ p.node \in Nat /\ p.from \in Nat /\ p.size \in Nat
BY DEF Packet

LEMMA InitHolds == Init => IInv
<1> SUFFICES ASSUME Init PROVE IInv
  OBVIOUS
<1>1. Len(chains) = 0 /\ Count = 0 /\ frame = 0
  BY DEF Init, Count, frame
<1>2. TypeOK
  <2>1. NoPacket \in Packet
    BY <1>1 DEF NoPacket, Packet
  <2>2. chains \in Seq(Chains) /\ posted \in Seq(Packet)
    BY DEF Init
  <2>3. 0 \in Seqs /\ 0 \in 0..HG_CONN_CACHE_LEN
    BY Constants DEF Seqs
  <2>4. answer \in [asked : Seqs \cup {-1}, behind : 0..HG_CONN_CACHE_LEN,
                    got : Packet, live : BOOLEAN]
    BY <2>1, <2>3 DEF Init, NoAnswer
  <2>5. sendcache \in [Slots -> Packet]
    BY <2>1 DEF Init
  <2> QED BY <2>2, <2>3, <2>4, <2>5 DEF Init, TypeOK
<1>3. Place
  BY <1>1 DEF Init, Place
<1>4. Ordered /\ FrameFlags /\ FrameBytes
  BY <1>1 DEF Init, Ordered, FrameFlags, FrameBytes, Count
<1>5. Numbered /\ CacheHolds /\ ReleasedOld /\ AnswerLive
  <2>1. \A k \in Count+1..HG_CONN_CACHE_LEN : Slot(k) \in Slots
    BY <1>1, Constants, Remainder DEF Slot, Slots
  <2>2. CacheHolds
    BY <1>1, <2>1 DEF Init, CacheHolds
  <2> QED BY <1>1, <2>2 DEF Init, Numbered, ReleasedOld, AnswerLive, NoAnswer, Frames
<1> QED BY <1>2, <1>3, <1>4, <1>5 DEF IInv

\* The place SendData is at, in numbers: c the chain of the frame, b its bytes
\* before the node, n the bytes of the node.
LEMMA At ==
  ASSUME IInv, node # 0
  PROVE  /\ frame \in Frames /\ frame \in Nat
         /\ chains[frame] \in Seq(Nat \ {0}) /\ Len(chains[frame]) \in Nat
         /\ node \in 1..Len(chains[frame]) /\ chains[frame][node] \in Nat \ {0}
         /\ copied \in 0..chains[frame][node]
         /\ Bytes(chains[frame])[node-1] \in Nat
         /\ Bytes(chains[frame])[node] = Bytes(chains[frame])[node-1] + chains[frame][node]
         /\ FrameSize(frame) \in Nat
         /\ node < Len(chains[frame]) => Bytes(chains[frame])[node] < FrameSize(frame)
         /\ node = Len(chains[frame]) => Bytes(chains[frame])[node] = FrameSize(frame)
         /\ sendsize = Bytes(chains[frame])[node-1] + copied
<1>1. frame \in Frames
  <2>1. frame \in Nat
    BY Types DEF frame
  <2>2. posted # <<>> => Newest.frame \in Frames
    BY Types DEF IInv, FrameBytes, Count, Newest, WithinNode
  <2>3. frame # 0
    BY <2>1, <2>2, Types DEF IInv, Place, Frames, frame
  <2> QED BY <2>1, <2>3 DEF Frames, frame
<1> DEFINE c == chains[frame]
<1>2. c \in Seq(Nat \ {0})
  BY <1>1, Types
<1>3. Len(c) \in Nat /\ DOMAIN c = 1..Len(c)
  BY <1>2, LenProperties
<1>4. node \in 1..Len(c) /\ copied \in 0..c[node]
  BY <1>3 DEF IInv, TypeOK
<1>5. c[node] \in Nat \ {0}
  BY <1>2, <1>4, ElementOfSeq
<1> HIDE DEF c
<1>6. /\ Bytes(c)[node] = Bytes(c)[node-1] + c[node]
      /\ Bytes(c)[node-1] \in Nat /\ Bytes(c)[Len(c)] \in Nat
  <2>1. node-1 \in 0..Len(c) /\ Len(c) \in 0..Len(c)
    BY <1>3, <1>4
  <2> QED BY <1>2, <1>4, <2>1, BytesDef
<1>7. node < Len(c) => Bytes(c)[node] < Bytes(c)[Len(c)]
  <2>1. node \in 0..Len(c) /\ Len(c) \in 0..Len(c)
    BY <1>3, <1>4
  <2> QED BY <1>2, <2>1, BytesGrow
<1>8. sendsize = Bytes(c)[node-1] + copied
  BY DEF IInv, Place, c
<1> QED BY <1>1, <1>2, <1>3, <1>4, <1>5, <1>6, <1>7, <1>8, Types DEF c, FrameSize, frame

\* Packets stay where they are in their frames when chains and posted only grow.
Grown ==
  /\ Len(chains') \in Nat /\ Len(chains) <= Len(chains')
  /\ \A f \in Frames : chains'[f] = chains[f]
  /\ \A k \in 1..Count : posted'[k] = posted[k]

LEMMA Kept ==
  ASSUME IInv, Grown
  PROVE  \A k \in 1..Count :
           /\ Starts(posted[k])' <=> Starts(posted[k])
           /\ NodeDone(posted[k])' <=> NodeDone(posted[k])
           /\ Ends(posted[k])' <=> Ends(posted[k])
           /\ WithinNode(posted[k])'
           /\ \A j \in 1..Count : Behind(posted[k], posted[j])' <=> Behind(posted[k], posted[j])
<1> SUFFICES ASSUME NEW k \in 1..Count
             PROVE  /\ Starts(posted[k])' <=> Starts(posted[k])
                    /\ NodeDone(posted[k])' <=> NodeDone(posted[k])
                    /\ Ends(posted[k])' <=> Ends(posted[k])
                    /\ WithinNode(posted[k])'
                    /\ \A j \in 1..Count :
                         Behind(posted[k], posted[j])' <=> Behind(posted[k], posted[j])
  OBVIOUS
<1>1. WithinNode(posted[k])
  BY DEF IInv, FrameBytes, Count
<1>2. posted[k].frame \in Frames
  BY <1>1 DEF WithinNode
<1>3. posted'[k] = posted[k] /\ chains'[posted[k].frame] = chains[posted[k].frame]
  BY <1>2 DEF Grown
<1>4. Starts(posted[k])' <=> Starts(posted[k])
  BY <1>3 DEF Starts
<1>5. NodeDone(posted[k])' <=> NodeDone(posted[k])
  BY <1>3 DEF NodeDone
<1>6. Ends(posted[k])' <=> Ends(posted[k])
  BY <1>3, <1>5 DEF Ends
<1>7. WithinNode(posted[k])'
  <2>1. posted[k].frame \in Frames'
    BY <1>2, Types DEF Frames, Grown
  <2> QED BY <1>1, <1>3, <2>1 DEF WithinNode
<1>8. ASSUME NEW j \in 1..Count
      PROVE  Behind(posted[k], posted[j])' <=> Behind(posted[k], posted[j])
  BY <1>3, <1>5 DEF Behind, Grown
<1> QED BY <1>4, <1>5, <1>6, <1>7, <1>8

\* The packets of the frames so far are packets of more frames too.
LEMMA PacketsGrow ==
  ASSUME Len(chains) \in Nat, Len(chains') \in Nat, Len(chains) <= Len(chains'), NEW p \in Packet
  PROVE  p \in Packet'
BY DEF Packet

-----------------------------------------------------------------------------
(* The steps.                                                              *)

\* A step that leaves posted, chains and the cache alone keeps what is said of them.
LEMMA Untouched ==
  ASSUME IInv, UNCHANGED <<chains, posted>>
  PROVE  /\ Grown /\ Ordered' /\ FrameFlags' /\ Packet' = Packet /\ Frames' = Frames
         /\ \A k \in 1..Count : WithinNode(posted[k])'
         /\ posted # <<>> => Starts(posted[1])' /\ posted[1].frame = 1
         /\ \A k \in 1..Count-1 :
              IF Ends(posted[k])' THEN Starts(posted[k+1])' /\ posted[k+1].frame = posted[k].frame + 1
                                  ELSE Behind(posted[k], posted[k+1])'
BY Types DEF IInv, Ordered, FrameFlags, FrameBytes, Packet, Frames, Grown, Count, frame,
  Starts, NodeDone, Ends, WithinNode, Behind

\* A step before the end of the frame, and one within SendData, keep FrameBytes.
LEMMA BytesKept ==
  ASSUME IInv, UNCHANGED <<chains, posted>>,
         node' = 0 => Len(chains) > 0 /\ posted # <<>> /\ Newest.frame = frame /\ Ends(Newest)
  PROVE  FrameBytes'
<1>1. Newest' = Newest /\ frame' = frame /\ Count' = Count
  BY DEF Newest, frame, Count
<1>2. Ends(Newest)' <=> Ends(Newest)
  BY <1>1 DEF Ends, NodeDone
<1>3. \A k \in 1..Len(posted') : WithinNode(posted[k])'
  BY Untouched DEF Count
<1>4. posted' # <<>> => Starts(posted[1])' /\ posted'[1].frame = 1
  BY Untouched
<1>5. \A k \in 1..Len(posted')-1 :
        IF Ends(posted[k])' THEN Starts(posted[k+1])' /\ posted'[k+1].frame = posted'[k].frame + 1
                            ELSE Behind(posted[k], posted[k+1])'
  BY Untouched DEF Count
<1> QED BY <1>1, <1>2, <1>3, <1>4, <1>5 DEF FrameBytes, Newest, Count

\* A step that leaves the numbers and the cache alone keeps what is said of them.
LEMMA TurnKept ==
  ASSUME IInv, UNCHANGED <<chains, posted, snd, max, sendcache, released>>
  PROVE  /\ FirstTurn' = FirstTurn
         /\ Numbered' = Numbered /\ CacheHolds' = CacheHolds /\ ReleasedOld' = ReleasedOld
         /\ UNCHANGED answer => AnswerLive' = AnswerLive
<1>1. Count' = Count
  BY DEF Count
<1>2. FirstTurn' = FirstTurn
  BY <1>1 DEF FirstTurn
<1>3. Numbered' = Numbered
  BY <1>1 DEF Numbered
<1>4. CacheHolds' = CacheHolds
  BY <1>1 DEF CacheHolds
<1>5. ReleasedOld' = ReleasedOld
  BY <1>1 DEF ReleasedOld, Frames, Ends, NodeDone
<1>6. UNCHANGED answer => AnswerLive' = AnswerLive
  BY DEF AnswerLive
<1> QED BY <1>2, <1>3, <1>4, <1>5, <1>6

\* The next node, or the end of the frame.
LEMMA NextNodeStep == ASSUME IInv, NextNode PROVE IInv'
<1> DEFINE c == chains[frame]
<1>1. node \in 1..Len(c) /\ Len(c) \in Nat /\ c[node] \in Nat \ {0} /\ copied = c[node]
      /\ sendsize = Bytes(c)[node-1] + copied /\ Bytes(c)[node-1] \in Nat
      /\ Bytes(c)[node] = Bytes(c)[node-1] + c[node] /\ c \in Seq(Nat \ {0})
  <2>1. c[node] \in Nat \ {0} /\ copied \in 0..c[node] /\ c[node] - copied = 0
    BY At DEF NextNode, restsize
  <2>2. copied = c[node]
    <3> DEFINE n == c[node]
    <3> HIDE DEF n
    <3> QED BY <2>1 DEF n
  <2> QED BY <2>1, <2>2, At DEF NextNode
<1>2. UNCHANGED <<chains, sendsize, snd, max, sendcache, released, posted, answer>>
      /\ node' = (IF node < Len(c) THEN node + 1 ELSE 0) /\ copied' = 0 /\ node # 0
  BY DEF NextNode
<1>3. sendsize > 0 /\ sendsize \in Nat
  <2> HIDE DEF c
  <2> QED BY <1>1
<1>4. posted # <<>> /\ Newest.frame = frame
  BY <1>2, <1>3 DEF IInv, Place
<1>5. Newest.node = node /\ NodeDone(Newest)
  BY <1>1, <1>2, <1>3, <1>4 DEF IInv, Place, NodeDone
<1>6. node = Len(c) => Ends(Newest)
  BY <1>4, <1>5 DEF Ends
<1>7. frame' = frame /\ Count' = Count /\ Newest' = Newest /\ (NodeDone(Newest)' <=> NodeDone(Newest))
  BY <1>2 DEF frame, Count, Newest, NodeDone
<1>8. TypeOK'
  <2>1. node' # 0 => node' \in DOMAIN chains'[frame'] /\ copied' \in 0..chains'[frame'][node']
    <3> SUFFICES ASSUME node' # 0
                 PROVE  node' \in DOMAIN chains'[frame'] /\ copied' \in 0..chains'[frame'][node']
      OBVIOUS
    <3>1. node' = node + 1 /\ node + 1 \in 1..Len(c)
      BY <1>1, <1>2
    <3>2. c[node+1] \in Nat
      BY <1>1, <3>1, ElementOfSeq
    <3>3. DOMAIN c = 1..Len(c)
      BY <1>1
    <3> QED BY <1>2, <1>7, <3>1, <3>2, <3>3
  <2>2. Packet' = Packet /\ Frames' = Frames
    BY <1>2, Untouched
  <2> QED BY <1>2, <2>1, <2>2 DEF IInv, TypeOK
<1>9. Place'
  <2>1. frame # 0
    BY <1>2, At DEF Frames
  <2>2. node' # 0 => node' = node + 1 /\ node' - 1 = node
    BY <1>1, <1>2
  <2>3. sendsize = Bytes(c)[node] + 0
    BY <1>1
  <2>4. node' # 0 => sendsize' = Bytes(c)[node'-1] + copied'
    BY <1>2, <2>2, <2>3
  <2>5. node' # 0 => Newest.node = node' - 1
    BY <1>5, <2>2
  <2> QED BY <1>2, <1>3, <1>4, <1>5, <1>7, <2>1, <2>4, <2>5 DEF Place
<1>10. FrameBytes'
  <2>1. node' = 0 => node = Len(c)
    BY <1>1, <1>2
  <2>2. Len(chains) > 0
    BY <1>2, At DEF Frames, frame
  <2> QED BY <1>2, <1>4, <1>6, <2>1, <2>2, BytesKept
<1>11. Ordered' /\ FrameFlags'
  BY <1>2, Untouched
<1>12. (FirstTurn => Numbered /\ CacheHolds /\ ReleasedOld /\ AnswerLive)'
  BY <1>2, TurnKept DEF IInv
<1> QED BY <1>8, <1>9, <1>10, <1>11, <1>12 DEF IInv

\* A frame is handed to SendData.
LEMMA SendDataStep == ASSUME IInv, SendData PROVE IInv'
<1>1. PICK c \in Chains : chains' = Append(chains, c)
  BY DEF SendData
<1>2. /\ UNCHANGED <<snd, max, sendcache, released, posted, answer>>
      /\ node = 0 /\ node' = 1 /\ copied' = 0 /\ sendsize' = 0
  BY DEF SendData
<1>3. c \in Seq(Nat \ {0}) /\ Len(c) \in Nat \ {0} /\ DOMAIN c = 1..Len(c)
  <2>1. c \in Seq(Nat \ {0}) /\ c # <<>>
    BY SendAssumption
  <2> QED BY <2>1, LenProperties, EmptySeq
<1>4. /\ chains' \in Seq(Chains) /\ Len(chains') = Len(chains) + 1 /\ Len(chains) \in Nat
      /\ \A f \in Frames : chains'[f] = chains[f]
      /\ chains'[Len(chains)+1] = c
  BY <1>1, Types, AppendProperties DEF Frames
<1>5. frame' = frame + 1 /\ frame \in Nat /\ Frames' = Frames \cup {frame'} /\ chains'[frame'] = c
  BY <1>4 DEF frame, Frames
<1>6. Grown /\ Count' = Count /\ Newest' = Newest
  BY <1>2, <1>4 DEF Grown, Count, Newest
<1>7. \A k \in 1..Count :
        /\ Starts(posted[k])' <=> Starts(posted[k])
        /\ NodeDone(posted[k])' <=> NodeDone(posted[k])
        /\ Ends(posted[k])' <=> Ends(posted[k])
        /\ WithinNode(posted[k])'
        /\ \A j \in 1..Count : Behind(posted[k], posted[j])' <=> Behind(posted[k], posted[j])
  BY <1>6, Kept
<1>8. TypeOK'
  <2>1. Packet \subseteq Packet'
    BY <1>4, PacketsGrow
  <2>2. sendcache' \in [Slots -> Packet']
    BY <1>2, <2>1 DEF IInv, TypeOK
  <2>3. posted' \in Seq(Packet')
    <3>1. posted \in Seq(Packet)
      BY Types
    <3> QED BY <1>2, <2>1, <3>1
  <2>4. answer' \in [asked : Seqs \cup {-1}, behind : 0..HG_CONN_CACHE_LEN,
                     got : Packet', live : BOOLEAN]
    BY <1>2, <2>1 DEF IInv, TypeOK
  <2>5. node' \in DOMAIN chains'[frame'] /\ copied' \in 0..chains'[frame'][node']
    <3>1. c[1] \in Nat
      BY <1>3, ElementOfSeq
    <3> QED BY <1>2, <1>3, <1>5, <3>1
  <2>6. snd' \in Seqs /\ max' \in Seqs /\ released' \subseteq Frames' /\ sendsize' \in Nat
    BY <1>2, <1>5 DEF IInv, TypeOK
  <2> QED BY <1>4, <2>2, <2>3, <2>4, <2>5, <2>6 DEF TypeOK
<1>9. Place'
  <2>1. Bytes(c)[1-1] = 0
    BY <1>3, BytesDef
  <2>2. posted = <<>> => frame' = 1
    BY <1>2, <1>5 DEF IInv, FrameBytes
  <2>3. posted # <<>> => Ends(Newest)' /\ Newest.frame = frame' - 1
    <3>1. posted # <<>> => Count \in 1..Count
      BY Types
    <3>2. posted # <<>> => frame > 0
      BY <3>1, <1>5, Types DEF IInv, FrameBytes, WithinNode, Count, Frames, frame
    <3>3. posted # <<>> => Ends(Newest) /\ Newest.frame = frame
      BY <1>2, <3>2 DEF IInv, FrameBytes, Newest, Count
    <3> QED BY <1>5, <1>6, <1>7, <3>1, <3>3 DEF Newest
  <2>4. node' # 0 => sendsize' = Bytes(chains[frame])'[node'-1] + copied'
    BY <1>2, <1>5, <2>1
  <2> QED BY <1>2, <1>6, <2>2, <2>3, <2>4 DEF Place
<1>10. Ordered'
  <2>1. \A k \in 1..Count : posted[k].frame <= frame'
    <3>1. \A k \in 1..Count : posted[k].frame <= frame /\ posted[k].frame \in 0..Len(chains)
      BY Types, PacketTypes DEF IInv, Ordered
    <3> QED BY <1>4, <1>5, <3>1
  <2> QED BY <1>2, <1>6, <1>7, <2>1 DEF IInv, Ordered
<1>11. FrameFlags'
  BY <1>2, <1>6, <1>7 DEF IInv, FrameFlags, Count
<1>12. FrameBytes'
  <2>1. \A k \in 1..Count-1 :
          IF Ends(posted[k])' THEN Starts(posted[k+1])' /\ posted[k+1].frame = posted[k].frame + 1
                              ELSE Behind(posted[k], posted[k+1])'
    <3> SUFFICES ASSUME NEW k \in 1..Count-1
                 PROVE  IF Ends(posted[k])'
                        THEN Starts(posted[k+1])' /\ posted[k+1].frame = posted[k].frame + 1
                        ELSE Behind(posted[k], posted[k+1])'
      OBVIOUS
    <3>1. k \in 1..Count /\ k + 1 \in 1..Count
      BY Types
    <3> QED BY <1>7, <3>1 DEF IInv, FrameBytes, Count
  <2>2. posted # <<>> => Starts(posted[1])' /\ posted[1].frame = 1
    <3>1. posted # <<>> => 1 \in 1..Count
      BY Types
    <3> QED BY <1>7, <3>1 DEF IInv, FrameBytes
  <2>3. \A k \in 1..Count : WithinNode(posted[k])'
    BY <1>7
  <2> QED BY <1>2, <1>6, <2>1, <2>2, <2>3 DEF FrameBytes, Count
<1>13. (FirstTurn => Numbered /\ CacheHolds /\ ReleasedOld /\ AnswerLive)'
  <2> SUFFICES ASSUME FirstTurn' PROVE Numbered' /\ CacheHolds' /\ ReleasedOld' /\ AnswerLive'
    OBVIOUS
  <2>1. Numbered /\ CacheHolds /\ ReleasedOld /\ AnswerLive
    BY <1>6 DEF IInv, FirstTurn
  <2>2. Numbered' /\ CacheHolds' /\ AnswerLive'
    BY <1>2, <1>6, <2>1 DEF Numbered, CacheHolds, AnswerLive
  <2>3. ASSUME NEW f \in Frames'
        PROVE  f \in released <=>
                 \E k \in 1..Count :
                   k <= Count - HG_CONN_CACHE_LEN /\ posted[k].frame = f /\ Ends(posted[k])'
    <3>1. CASE f \in Frames
      BY <1>7, <2>1, <3>1 DEF ReleasedOld
    <3>2. CASE f = frame'
      <4>1. frame' \notin Frames
        BY <1>5 DEF Frames, frame
      <4>2. f \notin released
        BY <3>2, <4>1 DEF IInv, TypeOK
      <4>3. \A k \in 1..Count : posted[k].frame # f
        BY <3>2, <4>1 DEF IInv, FrameBytes, WithinNode, Count
      <4> QED BY <4>2, <4>3
    <3> QED BY <1>5, <3>1, <3>2
  <2>4. ReleasedOld'
    BY <1>2, <1>6, <2>3 DEF ReleasedOld
  <2> QED BY <2>2, <2>4
<1> QED BY <1>8, <1>9, <1>10, <1>11, <1>12, <1>13 DEF IInv

\* The packet that Post sends.
Packed ==
  [seq |-> uint16Add(snd, 1), frame |-> frame, tail |-> tail,
   node |-> node, from |-> copied, size |-> shouldcopy]

\* It is of the bytes SendData is at, and flagged by where they are.
LEMMA PackedIs ==
  ASSUME IInv, node # 0, restsize > 0
  PROVE  /\ Packed \in Packet /\ WithinNode(Packed)
         /\ shouldcopy \in Nat \ {0} /\ copied + shouldcopy \in 0..chains[frame][node]
         /\ Starts(Packed) <=> sendsize = 0
         /\ Packed.tail = IF Starts(Packed) THEN IF Ends(Packed) THEN Alone ELSE Begin
                                            ELSE IF Ends(Packed) THEN End ELSE Middle
<1> DEFINE c == chains[frame]
           n == c[node]
           b == Bytes(c)[node-1]
           b2 == Bytes(c)[node]
           sz == FrameSize(frame)
<1>1. /\ frame \in Frames /\ node \in 1..Len(c) /\ Len(c) \in Nat /\ n \in Nat \ {0}
      /\ copied \in 0..n /\ b \in Nat /\ b2 = b + n /\ sz \in Nat /\ sendsize = b + copied
      /\ node < Len(c) => b2 < sz
      /\ node = Len(c) => b2 = sz
  BY At
<1>2. c \in Seq(Nat \ {0}) /\ Bytes(c)[0] = 0
  BY At, BytesDef
<1>3. restsize = n - copied
  BY DEF restsize
<1>4. restsize \in Nat \ {0} /\ shouldcopy \in 1..MaxCopy /\ shouldcopy <= restsize
  <2> HIDE DEF c, n
  <2>1. restsize \in Nat \ {0}
    BY <1>1, <1>3
  <2> QED BY <2>1, Constants DEF shouldcopy
<1>5. shouldcopy \in Nat \ {0} /\ copied + shouldcopy \in 0..n
  <2> HIDE DEF c, n
  <2> QED BY <1>1, <1>3, <1>4, Constants
<1>6. sendsize = 0 => node = 1 /\ copied = 0
  <2>1. sendsize = 0 => node = 1
    BY DEF IInv, Place
  <2> HIDE DEF c, n, b
  <2> QED BY <1>1, <2>1
<1>7. node = 1 /\ copied = 0 => sendsize = 0
  <2>1. node = 1 => node - 1 = 0
    OBVIOUS
  <2> HIDE DEF c, n
  <2> QED BY <1>1, <1>2, <2>1
<1>8. Starts(Packed) <=> sendsize = 0
  BY <1>6, <1>7 DEF Starts, Packed
<1>9. Ends(Packed) <=> node = Len(c) /\ copied + shouldcopy = n
  BY DEF Ends, NodeDone, Packed
<1>10. Ends(Packed) <=> sendsize + shouldcopy >= sz
  <2> HIDE DEF c, n, b, b2, sz
  <2> QED BY <1>1, <1>5, <1>9
<1>11. sendsize + shouldcopy >= sz <=> shouldcopy >= sz - sendsize
  <2> HIDE DEF c, n, b, b2, sz
  <2> QED BY <1>1, <1>5
<1>12. Packed.tail = IF Starts(Packed) THEN IF Ends(Packed) THEN Alone ELSE Begin
                                       ELSE IF Ends(Packed) THEN End ELSE Middle
  <2>1. Packed.tail = tail
    BY DEF Packed
  <2>2. sendsize = 0 => sz - sendsize = sz
    <3> HIDE DEF sz
    <3> QED BY <1>1
  <2> QED BY <1>8, <1>10, <1>11, <2>1, <2>2 DEF tail
<1>13. Packed \in Packet
  <2>1. uint16Add(snd, 1) \in Seqs
    <3>1. snd + 1 \in Nat
      BY Constants DEF IInv, TypeOK, Seqs
    <3> QED BY <3>1, Constants, Remainder DEF uint16Add, Seqs
  <2>2. tail \in 0..3
    BY DEF tail, Alone, Begin, Middle, End
  <2>3. frame \in 0..Len(chains) /\ node \in Nat /\ copied \in Nat /\ shouldcopy \in Nat
    <3>1. frame \in 0..Len(chains)
      BY Types DEF frame
    <3> HIDE DEF c, n
    <3> QED BY <1>1, <1>5, <3>1
  <2> QED BY <2>1, <2>2, <2>3 DEF Packed, Packet
<1>14. WithinNode(Packed)
  <2>1. DOMAIN c = 1..Len(c)
    BY <1>2, LenProperties
  <2>2. copied + shouldcopy <= n
    BY <1>5
  <2> QED BY <1>1, <1>4, <2>1, <2>2 DEF WithinNode, Packed
<1> QED BY <1>5, <1>8, <1>12, <1>13, <1>14

\* It comes behind the newest packet.
LEMMA PackedNext ==
  ASSUME IInv, node # 0, restsize > 0
  PROVE  /\ posted = <<>> => Starts(Packed) /\ frame = 1
         /\ posted # <<>> =>
              /\ IF Ends(Newest) THEN Starts(Packed) /\ frame = Newest.frame + 1
                                 ELSE Behind(Newest, Packed)
              /\ Ends(Newest) => Newest.frame < frame
<1> DEFINE c == chains[frame]
           n == c[node]
<1>1. /\ frame \in Frames /\ frame \in Nat /\ node \in 1..Len(c) /\ Len(c) \in Nat
      /\ n \in Nat \ {0} /\ copied \in 0..n /\ n - copied > 0
  BY At DEF restsize
<1>2. Starts(Packed) <=> sendsize = 0
  BY PackedIs
<1>3. sendsize \in Nat
  BY Types
<1>4. Packed.frame = frame /\ Packed.node = node /\ Packed.from = copied
  BY DEF Packed
<1>5. CASE posted = <<>>
  BY <1>2, <1>3, <1>5 DEF IInv, Place
<1>6. CASE posted # <<>> /\ sendsize = 0
  <2>1. Ends(Newest) /\ Newest.frame = frame - 1
    BY <1>6 DEF IInv, Place
  <2> QED BY <1>1, <1>2, <1>6, <2>1
<1>7. CASE posted # <<>> /\ sendsize > 0
  <2>1. Newest.frame = frame
    BY <1>7 DEF IInv, Place
  <2>2. Newest \in Packet
    BY <1>7, Types DEF Newest
  <2>3. CASE Newest.node = node /\ Newest.from + Newest.size = copied
    <3>1. ~NodeDone(Newest)
      <4>1. copied # n
        <5> HIDE DEF n
        <5> QED BY <1>1
      <4> QED BY <2>1, <2>3, <4>1 DEF NodeDone
    <3>2. Behind(Newest, Packed)
      BY <1>4, <2>1, <2>3, <3>1 DEF Behind
    <3> QED BY <1>7, <3>1, <3>2 DEF Ends
  <2>4. CASE Newest.node = node - 1 /\ copied = 0 /\ NodeDone(Newest)
    <3>1. Newest.node # Len(c) /\ node = Newest.node + 1
      <4> HIDE DEF c, n
      <4> QED BY <1>1, <2>4
    <3>2. ~Ends(Newest)
      BY <2>1, <3>1 DEF Ends
    <3>3. Behind(Newest, Packed)
      BY <1>4, <2>1, <2>4, <3>1 DEF Behind
    <3> QED BY <1>7, <3>2, <3>3
  <2> QED BY <1>7, <2>3, <2>4 DEF IInv, Place
<1> QED BY <1>3, <1>5, <1>6, <1>7

\* What Post does, to the sequence of packets and to the cache.
LEMMA Posted ==
  ASSUME IInv, Post
  PROVE  /\ node # 0 /\ restsize > 0 /\ Packed \in Packet
         /\ UNCHANGED <<chains, node, answer>>
         /\ copied' = copied + shouldcopy /\ sendsize' = sendsize + shouldcopy
         /\ Count \in Nat /\ Count' = Count + 1 /\ posted' \in Seq(Packet)
         /\ \A k \in 1..Count : posted'[k] = posted[k]
         /\ posted'[Count+1] = Packed /\ Newest' = Packed /\ posted' # <<>>
         /\ Grown /\ Frames' = Frames /\ frame' = frame /\ Packet' = Packet
         /\ snd' = Packed.seq /\ ClearPacketWrBufer(Packed)
<1>1. node # 0 /\ restsize > 0 /\ UNCHANGED <<chains, node, answer>>
      /\ copied' = copied + shouldcopy /\ sendsize' = sendsize + shouldcopy
  BY DEF Post
<1>2. snd' = Packed.seq /\ posted' = Append(posted, Packed) /\ ClearPacketWrBufer(Packed)
  BY DEF Post, Packed
<1>3. Packed \in Packet
  BY <1>1, PackedIs
<1>4. /\ Count \in Nat /\ Count' = Count + 1 /\ posted' \in Seq(Packet)
      /\ \A k \in 1..Count : posted'[k] = posted[k]
      /\ posted'[Count+1] = Packed
  BY <1>2, <1>3, Types, AppendProperties DEF Count
<1>5. Newest' = Packed /\ posted' # <<>>
  <2>1. Newest' = posted'[Count']
    BY DEF Newest
  <2>2. Count' # 0
    BY <1>4
  <2> QED BY <1>4, <2>1, <2>2, EmptySeq DEF Count
<1>6. Grown /\ Frames' = Frames /\ frame' = frame /\ Packet' = Packet
  <2>1. Frames' = Frames /\ frame' = frame /\ Packet' = Packet
    BY <1>1 DEF Frames, frame, Packet
  <2>2. Len(chains') = Len(chains)
    BY <1>1
  <2> QED BY <1>1, <1>4, <2>1, <2>2, Types DEF Grown
<1> QED BY <1>1, <1>2, <1>3, <1>4, <1>5, <1>6

\* Post keeps what is said of the packets sent.
LEMMA PostPackets ==
  ASSUME IInv, Post
  PROVE  TypeOK' /\ Place' /\ Ordered' /\ FrameFlags' /\ FrameBytes'
<1>1. /\ node # 0 /\ restsize > 0 /\ Packed \in Packet
      /\ UNCHANGED <<chains, node, answer>>
      /\ copied' = copied + shouldcopy /\ sendsize' = sendsize + shouldcopy
      /\ Count \in Nat /\ Count' = Count + 1 /\ posted' \in Seq(Packet)
      /\ \A k \in 1..Count : posted'[k] = posted[k]
      /\ posted'[Count+1] = Packed /\ Newest' = Packed /\ posted' # <<>>
      /\ Grown /\ Frames' = Frames /\ frame' = frame /\ Packet' = Packet
      /\ snd' = Packed.seq /\ ClearPacketWrBufer(Packed)
  BY Posted
<1>2. /\ WithinNode(Packed) /\ shouldcopy \in Nat \ {0} /\ copied + shouldcopy \in 0..chains[frame][node]
      /\ Packed.tail = IF Starts(Packed) THEN IF Ends(Packed) THEN Alone ELSE Begin
                                         ELSE IF Ends(Packed) THEN End ELSE Middle
  BY <1>1, PackedIs
<1>3. \A k \in 1..Count+1 :
        /\ Starts(posted[k])' <=> Starts(posted'[k])
        /\ Ends(posted[k])' <=> Ends(posted'[k])
        /\ WithinNode(posted[k])' <=> WithinNode(posted'[k])
        /\ Behind(posted[k], posted[k+1])' <=> Behind(posted'[k], posted'[k+1])
  BY <1>1 DEF Starts, Ends, NodeDone, WithinNode, Behind
<1>4. TypeOK'
  <2>1. node' \in DOMAIN chains'[frame'] /\ copied' \in 0..chains'[frame'][node']
    <3>1. node \in DOMAIN chains[frame]
      BY <1>1 DEF IInv, TypeOK
    <3> QED BY <1>1, <1>2, <3>1
  <2>2. snd' \in Seqs
    <3>1. snd + 1 \in Nat
      BY Constants DEF IInv, TypeOK, Seqs
    <3>2. Packed.seq = uint16Add(snd, 1)
      BY DEF Packed
    <3> QED BY <1>1, <3>1, <3>2, Constants, Remainder DEF uint16Add, Seqs
  <2>3. max' \in Seqs
    BY <1>1, <2>2 DEF IInv, TypeOK, ClearPacketWrBufer
  <2>4. sendcache' \in [Slots -> Packet]
    BY <1>1 DEF IInv, TypeOK, ClearPacketWrBufer
  <2>5. released' \subseteq Frames
    BY <1>1 DEF IInv, TypeOK, ClearPacketWrBufer, Owns
  <2>6. sendsize' \in Nat
    BY <1>1, <1>2, Types
  <2> QED BY <1>1, <2>1, <2>2, <2>3, <2>4, <2>5, <2>6 DEF IInv, TypeOK
<1>5. Place'
  <2>1. sendsize' = Bytes(chains[frame])[node-1] + copied'
    <3> DEFINE b == Bytes(chains[frame])[node-1]
               n == chains[frame][node]
    <3>1. sendsize = b + copied /\ b \in Nat /\ copied \in 0..n /\ n \in Nat
      BY <1>1, At
    <3> HIDE DEF b, n
    <3>2. sendsize' = b + copied'
      BY <1>1, <1>2, <3>1
    <3> QED BY <3>2 DEF b
  <2>2. sendsize' > 0
    BY <1>1, <1>2, Types
  <2>3. Packed.frame = frame /\ Packed.node = node /\ Packed.from + Packed.size = copied + shouldcopy
    BY DEF Packed
  <2> QED BY <1>1, <2>1, <2>2, <2>3 DEF Place
<1>6. Packed.frame = frame /\ frame \in Nat
  BY <1>1, At DEF Packed
<1>7. /\ posted = <<>> => Starts(Packed) /\ frame = 1
      /\ posted # <<>> =>
           /\ IF Ends(Newest) THEN Starts(Packed) /\ frame = Newest.frame + 1
                              ELSE Behind(Newest, Packed)
           /\ Ends(Newest) => Newest.frame < frame
  BY <1>1, PackedNext
<1>8. Count > 0 => posted # <<>> /\ Count \in 1..Count /\ posted'[Count] = Newest
  BY <1>1, Types DEF Newest
<1>9. Ordered'
  <2>1. \A k \in 1..Count : posted[k].frame <= frame /\ posted[k].frame \in Nat
    BY Types, PacketTypes DEF IInv, Ordered
  <2>2. \A k \in 1..Count+1 : posted'[k].frame <= frame
    BY <1>1, <1>6, <2>1
  <2>3. ASSUME NEW j \in 1..Count, Ends(posted[j]) PROVE posted[j].frame < frame
    <3>1. CASE j = Count
      BY <1>7, <1>8, <1>1, <2>3, <3>1 DEF Newest
    <3>2. CASE j < Count
      <4>1. Count \in 1..Count
        BY <1>1
      <4>2. posted[j].frame < posted[Count].frame
        BY <2>3, <3>2, <4>1 DEF IInv, Ordered
      <4> QED BY <1>6, <2>1, <4>1, <4>2
    <3> QED BY <1>1, <3>1, <3>2
  <2>4. ASSUME NEW j \in 1..Count+1, NEW k \in 1..Count+1, j < k
        PROVE  /\ posted'[j].frame <= posted'[k].frame
               /\ Ends(posted'[j]) => posted'[j].frame < posted'[k].frame
    <3>1. j \in 1..Count /\ posted'[j] = posted[j]
      BY <1>1, <2>4
    <3>2. CASE k = Count + 1
      BY <1>1, <1>6, <2>1, <2>3, <3>1, <3>2
    <3>3. CASE k \in 1..Count
      BY <1>1, <2>4, <3>1, <3>3 DEF IInv, Ordered
    <3> QED BY <1>1, <3>2, <3>3
  <2> QED BY <1>1, <1>3, <2>2, <2>4 DEF Ordered
<1>10. FrameFlags'
  <2>1. ASSUME NEW k \in 1..Count+1
        PROVE  posted'[k].tail = IF Starts(posted'[k]) THEN IF Ends(posted'[k]) THEN Alone ELSE Begin
                                                       ELSE IF Ends(posted'[k]) THEN End ELSE Middle
    <3>1. CASE k \in 1..Count
      BY <1>1, <3>1 DEF IInv, FrameFlags, Count
    <3>2. CASE k = Count + 1
      BY <1>1, <1>2, <3>2
    <3> QED BY <1>1, <3>1, <3>2
  <2>2. Len(posted') = Count + 1
    BY <1>1 DEF Count
  <2> QED BY <1>3, <2>1, <2>2 DEF FrameFlags
<1>11. FrameBytes'
  <2>1. \A k \in 1..Count+1 : WithinNode(posted'[k])
    <3>1. \A k \in 1..Count : WithinNode(posted[k])
      BY DEF IInv, FrameBytes, Count
    <3> QED BY <1>1, <1>2, <3>1
  <2>2. Starts(posted'[1]) /\ posted'[1].frame = 1
    <3>1. CASE Count = 0
      BY <1>1, <1>6, <1>7, <3>1, Types
    <3>2. CASE Count > 0
      <4>1. 1 \in 1..Count
        BY <1>1, <3>2
      <4> QED BY <1>1, <1>8, <3>2, <4>1 DEF IInv, FrameBytes
    <3> QED BY <1>1, <3>1, <3>2
  <2>3. ASSUME NEW k \in 1..Count
        PROVE  IF Ends(posted'[k])
               THEN Starts(posted'[k+1]) /\ posted'[k+1].frame = posted'[k].frame + 1
               ELSE Behind(posted'[k], posted'[k+1])
    <3>1. CASE k = Count
      BY <1>1, <1>6, <1>7, <1>8, <3>1
    <3>2. CASE k \in 1..Count-1
      <4>1. k \in 1..Count /\ k+1 \in 1..Count
        BY <1>1, <3>2
      <4> QED BY <1>1, <3>2, <4>1 DEF IInv, FrameBytes, Count
    <3> QED BY <1>1, <3>1, <3>2
  <2>4. node' # 0
    BY <1>1
  <2>5. Len(posted') = Count + 1 /\ (Count + 1) - 1 = Count /\ 1 \in 1..Count+1
        /\ \A k \in 1..Count : k \in 1..Count+1
    BY <1>1 DEF Count
  <2>6. \A k \in 1..Len(posted') : WithinNode(posted[k])'
    BY <1>3, <2>1, <2>5
  <2>7. posted' # <<>> => Starts(posted[1])' /\ posted'[1].frame = 1
    BY <1>3, <2>2, <2>5
  <2>8. \A k \in 1..Len(posted')-1 :
          IF Ends(posted[k])' THEN Starts(posted[k+1])' /\ posted'[k+1].frame = posted'[k].frame + 1
                              ELSE Behind(posted[k], posted[k+1])'
    <3>1. \A k \in 1..Count : k + 1 \in 1..Count+1
      BY <1>1
    <3> QED BY <1>3, <2>3, <2>5, <3>1
  <2> QED BY <2>4, <2>6, <2>7, <2>8 DEF FrameBytes
<1> QED BY <1>4, <1>5, <1>9, <1>10, <1>11

\* The slot of a number is a slot.
LEMMA SlotIs == ASSUME NEW k \in Nat PROVE Slot(k) \in Slots
BY Constants, Remainder DEF Slot, Slots

\* In the first turn the last packet of a frame is the one that owns the chain.
LEMMA OwnsIs ==
  ASSUME IInv, NEW m \in 1..Count
  PROVE  Owns(posted[m]) = {f \in Frames : posted[m].frame = f /\ Ends(posted[m])}
<1>1. posted[m].tail \in {Alone, End} <=> Ends(posted[m])
  BY DEF IInv, FrameFlags, Count, Alone, Begin, Middle, End
<1>2. Ends(posted[m]) => posted[m].node = Len(chains[posted[m].frame])
  BY DEF Ends
<1> QED BY <1>1, <1>2 DEF Owns

\* Post gives the packet the next number and puts it in the slot of the oldest.
LEMMA PostTurn ==
  ASSUME IInv, Post, FirstTurn'
  PROVE  Numbered' /\ CacheHolds' /\ ReleasedOld' /\ AnswerLive'
<1> DEFINE C == HG_CONN_CACHE_LEN
<1>1. /\ Count \in Nat /\ Count' = Count + 1
      /\ \A k \in 1..Count : posted'[k] = posted[k]
      /\ posted'[Count+1] = Packed
      /\ Frames' = Frames /\ UNCHANGED <<chains, answer>>
      /\ snd' = Packed.seq /\ ClearPacketWrBufer(Packed)
  BY Posted
<1>2. C \in Nat \ {0} /\ C <= Half /\ Half < HG_SEQ_MAX_NUM /\ Half \in Nat \ {0}
      /\ HG_SEQ_MAX_NUM \in Nat \ {0}
  BY Constants
<1>3. Count + 1 < HG_SEQ_MAX_NUM
  BY <1>1 DEF FirstTurn
<1>4. Numbered /\ CacheHolds /\ ReleasedOld /\ AnswerLive
  BY <1>1, <1>2, <1>3 DEF IInv, FirstTurn
<1>5. Packed.seq = Count + 1
  <2>1. Packed.seq = (Count + 1) % HG_SEQ_MAX_NUM
    BY <1>4 DEF Packed, uint16Add, Numbered
  <2>2. Count + 1 \in Nat
    BY <1>1
  <2> QED BY <1>2, <1>3, <2>1, <2>2, Remainder
<1>6. max' = Count + 1
  <2>1. uint16Sub(Count + 1, Count) = 1
    BY <1>1, <1>2 DEF uint16Sub
  <2> QED BY <1>1, <1>4, <1>5, <2>1 DEF ClearPacketWrBufer, Numbered
<1>7. Numbered'
  <2>1. \A k \in 1..Count+1 : posted'[k].seq = k
    BY <1>1, <1>4, <1>5 DEF Numbered
  <2> QED BY <1>1, <1>5, <1>6, <2>1 DEF Numbered
<1>8. sendcache' = [sendcache EXCEPT ![Slot(Count+1)] = Packed]
      /\ released' = released \cup Owns(sendcache[Slot(Count+1)])
  BY <1>1, <1>5 DEF ClearPacketWrBufer
<1>9. DOMAIN sendcache = Slots
  BY DEF IInv, TypeOK
<1>10. Slot(Count+1) \in Slots
  <2>1. Count + 1 \in Nat
    BY <1>1
  <2> QED BY <2>1, SlotIs
<1>11. CacheHolds'
  <2>1. ASSUME NEW k \in 1..Count+1, k > Count + 1 - C
        PROVE  sendcache'[Slot(k)] = posted'[k]
    <3>1. CASE k = Count + 1
      BY <1>1, <1>8, <1>9, <1>10, <3>1
    <3>2. CASE k \in 1..Count
      <4>1. k \in Nat /\ Count + 1 \in Nat /\ k < Count + 1 /\ (Count + 1) - k < C /\ k > Count - C
        BY <1>1, <1>2, <2>1, <3>2
      <4>2. Slot(k) # Slot(Count+1)
        BY <1>2, <4>1, RemaindersDiffer DEF Slot
      <4>3. sendcache[Slot(k)] = posted[k] /\ Slot(k) \in Slots
        BY <1>4, <3>2, <4>1, SlotIs DEF CacheHolds
      <4> QED BY <1>1, <1>8, <1>9, <3>2, <4>2, <4>3
    <3> QED BY <1>1, <3>1, <3>2
  <2>2. ASSUME NEW k \in Count+2..C
        PROVE  sendcache'[Slot(k)] = NoPacket
    <3>1. k \in Nat /\ Count + 1 \in Nat /\ Count + 1 < k /\ k - (Count + 1) < C /\ k \in Count+1..C
      BY <1>1, <1>2
    <3>2. Slot(k) # Slot(Count+1)
      BY <1>2, <3>1, RemaindersDiffer DEF Slot
    <3>3. sendcache[Slot(k)] = NoPacket /\ Slot(k) \in Slots
      BY <1>4, <3>1, SlotIs DEF CacheHolds
    <3> QED BY <1>8, <1>9, <3>2, <3>3
  <2>3. Count' + 1 = Count + 2
    BY <1>1
  <2>4. \A k \in 1..Count' : k > Count' - C => sendcache'[Slot(k)] = posted'[k]
    <3>1. Count' = Count + 1 /\ Count' - C = Count + 1 - C
      BY <1>1, <1>2
    <3> QED BY <2>1, <3>1
  <2>5. \A k \in Count'+1..C : sendcache'[Slot(k)] = NoPacket
    BY <2>2, <2>3
  <2> QED BY <2>4, <2>5 DEF CacheHolds
<1>12. ASSUME NEW f \in Frames
       PROVE  f \in Owns(sendcache[Slot(Count+1)]) <=>
                \E k \in 1..Count : k = Count + 1 - C /\ posted[k].frame = f /\ Ends(posted[k])
  <2>1. CASE Count + 1 <= C
    <3>1. Count + 1 \in Count+1..C
      BY <1>1, <1>2, <2>1
    <3>2. sendcache[Slot(Count+1)] = NoPacket
      BY <1>4, <3>1 DEF CacheHolds
    <3>3. f # 0
      BY DEF Frames
    <3>4. f \notin Owns(NoPacket)
      BY <3>3 DEF Owns, NoPacket
    <3>5. \A k \in 1..Count : k # Count + 1 - C
      BY <1>1, <1>2, <2>1
    <3> QED BY <3>2, <3>4, <3>5
  <2>2. CASE Count + 1 > C
    <3> DEFINE m == Count + 1 - C
    <3>1. m \in 1..Count /\ m \in Nat /\ m + C = Count + 1 /\ m > Count - C
      BY <1>1, <1>2, <2>2
    <3> HIDE DEF m
    <3>2. Slot(m) = Slot(Count+1)
      <4>1. (m + C) % C = m % C
        BY <1>2, <3>1, RemainderRepeats
      <4> QED BY <3>1, <4>1 DEF Slot
    <3>3. sendcache[Slot(Count+1)] = posted[m]
      BY <1>4, <3>1, <3>2 DEF CacheHolds
    <3>4. Owns(posted[m]) = {g \in Frames : posted[m].frame = g /\ Ends(posted[m])}
      BY <3>1, OwnsIs
    <3>5. f \in Owns(sendcache[Slot(Count+1)]) <=> posted[m].frame = f /\ Ends(posted[m])
      BY <3>3, <3>4
    <3> QED BY <3>1, <3>5 DEF m
  <2> QED BY <1>1, <1>2, <2>1, <2>2
<1>13. ASSUME NEW f \in Frames
       PROVE  f \in released' <=>
                \E k \in 1..Count :
                  k <= Count + 1 - C /\ posted[k].frame = f /\ Ends(posted[k])
  <2>1. \A k \in 1..Count : k <= Count + 1 - C <=> k <= Count - C \/ k = Count + 1 - C
    BY <1>1, <1>2
  <2>2. f \in released <=>
          \E k \in 1..Count : k <= Count - C /\ posted[k].frame = f /\ Ends(posted[k])
    BY <1>4 DEF ReleasedOld
  <2> QED BY <1>8, <1>12, <2>1, <2>2
<1>14. ReleasedOld'
  <2>1. \A k \in 1..Count+1 : (Ends(posted[k])' <=> Ends(posted'[k]))
    BY <1>1 DEF Ends, NodeDone
  <2>2. \A k \in 1..Count+1 : k <= Count + 1 - C => k \in 1..Count
    BY <1>1, <1>2
  <2>3. ASSUME NEW f \in Frames
        PROVE  f \in released' <=>
                 \E k \in 1..Count+1 :
                   k <= Count + 1 - C /\ posted'[k].frame = f /\ Ends(posted'[k])
    <3>1. \A k \in 1..Count : k \in 1..Count+1 /\ posted'[k] = posted[k]
      BY <1>1
    <3> QED BY <1>13, <2>2, <3>1
  <2>4. ASSUME NEW f \in Frames'
        PROVE  f \in released' <=>
                 \E k \in 1..Count' :
                   k <= Count' - C /\ posted'[k].frame = f /\ Ends(posted[k])'
    <3>1. Count' = Count + 1 /\ Count' - C = Count + 1 - C /\ f \in Frames
      BY <1>1, <1>2
    <3> QED BY <2>1, <2>3, <3>1
  <2> QED BY <2>4 DEF ReleasedOld
<1>15. AnswerLive'
  BY <1>1, <1>4 DEF AnswerLive
<1> QED BY <1>7, <1>11, <1>14, <1>15

LEMMA PostStep == ASSUME IInv, Post PROVE IInv'
BY PostPackets, PostTurn DEF IInv

\* In the first turn of the numbers the newest packets are in the cache, and
\* their frames have not been given back.
LEMMA TurnKeeps == ASSUME IInv, FirstTurn PROVE RecentKept
<1> DEFINE C == HG_CONN_CACHE_LEN
<1>1. C \in Nat \ {0} /\ C <= Half /\ Half < HG_SEQ_MAX_NUM /\ Half \in Nat \ {0}
  BY Constants
<1>2. Numbered /\ CacheHolds /\ ReleasedOld /\ Count \in Nat
  BY Types DEF IInv
<1>3. ASSUME NEW k \in 1..Count, k > Count - C
      PROVE  /\ sendcache[Slot(posted[k].seq)] = posted[k]
             /\ InCache(posted[k].seq)
             /\ posted[k].frame \notin released
  <2>1. posted[k].seq = k /\ max = Count
    BY <1>2 DEF Numbered
  <2>2. sendcache[Slot(k)] = posted[k]
    BY <1>2, <1>3 DEF CacheHolds
  <2>3. InCache(k)
    <3>1. uint16Sub(Count, k) = Count - k
      BY <1>1, <1>2, <1>3 DEF uint16Sub
    <3>2. Count - k <= C /\ Count - k >= 0
      BY <1>1, <1>2, <1>3
    <3> QED BY <2>1, <3>1, <3>2 DEF InCache
  <2>4. posted[k].frame \notin released
    <3>1. SUFFICES ASSUME NEW j \in 1..Count, j <= Count - C, Ends(posted[j]),
                          posted[j].frame = posted[k].frame
                   PROVE  FALSE
      <4>1. posted[k].frame \in Frames
        BY DEF IInv, FrameBytes, WithinNode, Count
      <4> QED BY <1>2, <4>1 DEF ReleasedOld
    <3>2. j < k
      BY <1>1, <1>2, <1>3, <3>1
    <3>3. posted[j].frame < posted[k].frame /\ posted[k].frame \in Nat
      <4>1. posted[k].frame \in Nat
        BY Types, PacketTypes
      <4> QED BY <3>1, <3>2, <4>1 DEF IInv, Ordered
    <3> QED BY <3>1, <3>3
  <2> QED BY <2>1, <2>2, <2>3, <2>4
<1> QED BY <1>2, <1>3 DEF RecentKept, Count

\* The chains of the frames whose last packets are old have been given back.
LEMMA TurnReleases == ASSUME IInv, FirstTurn PROVE OldReleased
<1> SUFFICES ASSUME NEW k \in 1..Count, posted[k].tail \in {Alone, End},
                    k <= Count - HG_CONN_CACHE_LEN
             PROVE  posted[k].frame \in released
  BY DEF OldReleased, Count
<1>1. Ends(posted[k])
  BY DEF IInv, FrameFlags, Count, Alone, Begin, Middle, End
<1>2. posted[k].frame \in Frames
  BY DEF IInv, FrameBytes, WithinNode, Count
<1> QED BY <1>1, <1>2 DEF IInv, ReleasedOld

\* A request to repost: only the answer changes.
LEMMA RepostStep == ASSUME IInv, NEW q \in Seqs, Repost(q) PROVE IInv'
<1> DEFINE C == HG_CONN_CACHE_LEN
           p == sendcache[Slot(q)]
<1>1. UNCHANGED <<chains, node, copied, sendsize, snd, max, sendcache, released, posted>>
      /\ node = 0 /\ MayBeAsked(q)
  BY DEF Repost, sending
<1>2. C \in Nat \ {0} /\ C <= Half /\ Half < HG_SEQ_MAX_NUM /\ Half \in Nat \ {0}
  BY Constants
<1>3. answer' = IF InCache(q) /\ p # NoPacket
                THEN [asked |-> q, behind |-> uint16Sub(max, q), got |-> p,
                      live |-> p.frame \notin released]
                ELSE NoAnswer
  BY DEF Repost
<1>4. Packet' = Packet /\ Frames' = Frames /\ Grown /\ Ordered' /\ FrameFlags'
  BY <1>1, Untouched
<1>5. q \in Nat /\ max \in Nat /\ uint16Sub(max, q) \in Int
  BY <1>2, Constants DEF IInv, TypeOK, Seqs, uint16Sub
<1>6. TypeOK'
  <2>1. answer' \in [asked : Seqs \cup {-1}, behind : 0..C, got : Packet, live : BOOLEAN]
    <3>1. NoPacket \in Packet /\ 0 \in 0..C
      BY <1>2, Types DEF NoPacket, Packet
    <3>2. p \in Packet
      BY <1>5, SlotIs DEF IInv, TypeOK
    <3>3. InCache(q) => uint16Sub(max, q) \in 0..C
      BY <1>2, <1>5 DEF InCache
    <3> HIDE DEF p
    <3> QED BY <1>3, <3>1, <3>2, <3>3 DEF NoAnswer
  <2>2. frame' = frame
    BY <1>1 DEF frame
  <2> QED BY <1>1, <1>4, <2>1, <2>2 DEF IInv, TypeOK
<1>7. Place'
  <2>1. frame' = frame
    BY <1>1 DEF frame
  <2> QED BY <1>1, <2>1 DEF IInv, Place
<1>8. FrameBytes'
  <2>1. Len(chains) > 0 /\ posted # <<>>
    <3>1. Count \in Nat /\ \E k \in 1..Count-1 : TRUE
      BY <1>1, Types DEF MayBeAsked, Count
    <3>2. 1 \in 1..Count
      BY <3>1
    <3>3. posted[1].frame \in Frames
      BY <3>2 DEF IInv, FrameBytes, WithinNode, Count
    <3> QED BY <3>2, <3>3, Types DEF Frames
  <2>2. Newest.frame = frame /\ Ends(Newest)
    BY <1>1, <2>1 DEF IInv, FrameBytes, Newest, Count, frame
  <2> QED BY <1>1, <2>1, <2>2, BytesKept
<1>9. (FirstTurn => Numbered /\ CacheHolds /\ ReleasedOld /\ AnswerLive)'
  <2> SUFFICES ASSUME FirstTurn' PROVE Numbered' /\ CacheHolds' /\ ReleasedOld' /\ AnswerLive'
    OBVIOUS
  <2>1. FirstTurn /\ Numbered' /\ CacheHolds' /\ ReleasedOld'
    BY <1>1, TurnKept DEF IInv
  <2>2. Numbered /\ CacheHolds /\ Count \in Nat
    BY <2>1, Types DEF IInv
  <2>3. PICK k \in 1..Count-1 : posted[k].seq = q
    BY <1>1 DEF MayBeAsked, Count
  <2>4. k \in 1..Count /\ k \in Nat /\ Count \in 1..Count /\ k < Count
    BY <2>2
  <2>5. q = k /\ max = Count
    BY <2>2, <2>3, <2>4 DEF Numbered
  <2>6. InCache(q) => Count - k <= C /\ uint16Sub(max, q) = Count - k
    BY <1>2, <2>4, <2>5 DEF InCache, uint16Sub
  <2>7. ASSUME NEW j \in 1..Count, j > Count - C
        PROVE  sendcache[Slot(j)] = posted[j] /\ posted[j].seq = j /\ posted[j].frame \notin released
    <3>1. posted[j].seq = j
      BY <2>2 DEF Numbered
    <3> QED BY <2>1, <2>7, <3>1, TurnKeeps DEF RecentKept, Count
  <2>8. ASSUME InCache(q) /\ p # NoPacket /\ Count - k < C PROVE AnswerLive'
    <3>1. k > Count - C
      BY <1>2, <2>4, <2>8
    <3>2. p = posted[k] /\ p.frame \notin released /\ p.seq = q
      BY <2>4, <2>5, <2>7, <3>1
    <3> QED BY <1>3, <2>8, <3>2 DEF AnswerLive
  <2>9. ASSUME InCache(q) /\ p # NoPacket /\ Count - k = C PROVE AnswerLive'
    <3>1. Count > Count - C /\ k + C = Count
      BY <1>2, <2>4, <2>9
    <3>2. Slot(k) = Slot(Count)
      <4>1. (k + C) % C = k % C
        BY <1>2, <2>4, RemainderRepeats
      <4> QED BY <3>1, <4>1 DEF Slot
    <3>3. p = posted[Count] /\ p.frame \notin released
      BY <2>4, <2>5, <2>7, <3>1, <3>2
    <3>4. answer'.behind = C /\ answer'.live = TRUE
      BY <1>3, <2>6, <2>9, <3>3
    <3> QED BY <1>2, <3>4 DEF AnswerLive
  <2>10. ASSUME ~(InCache(q) /\ p # NoPacket) PROVE AnswerLive'
    BY <1>3, <2>10 DEF AnswerLive, NoAnswer
  <2>11. InCache(q) => Count - k < C \/ Count - k = C
    BY <1>2, <2>4, <2>6
  <2>12. AnswerLive'
    BY <2>8, <2>9, <2>10, <2>11
  <2> QED BY <2>1, <2>12
<1> QED BY <1>4, <1>6, <1>7, <1>8, <1>9 DEF IInv

\* A step that changes nothing.
LEMMA StutterStep == ASSUME IInv, UNCHANGED vars PROVE IInv'
<1>1. UNCHANGED <<chains, node, copied, sendsize, snd, max, sendcache, released, posted, answer>>
  BY DEF vars, sending
<1>2. Packet' = Packet /\ Frames' = Frames /\ Ordered' /\ FrameFlags' /\ frame' = frame
  BY <1>1, Untouched DEF frame
<1>3. TypeOK'
  BY <1>1, <1>2 DEF IInv, TypeOK
<1>4. Place'
  <2>1. Newest' = Newest /\ (Ends(Newest)' <=> Ends(Newest)) /\ (NodeDone(Newest)' <=> NodeDone(Newest))
    BY <1>1 DEF Newest, Count, Ends, NodeDone
  <2> QED BY <1>1, <1>2, <2>1 DEF IInv, Place
<1>5. FrameBytes'
  BY <1>1, <1>2 DEF IInv, FrameBytes, WithinNode, Behind, Starts, Ends, NodeDone
<1>6. (FirstTurn => Numbered /\ CacheHolds /\ ReleasedOld /\ AnswerLive)'
  BY <1>1, TurnKept DEF IInv
<1> QED BY <1>2, <1>3, <1>4, <1>5, <1>6 DEF IInv

-----------------------------------------------------------------------------
(* The theorems.                                                           *)

\* IInv is an invariant of the sending end of a stream: SendData, whatever
\* frames it is given, and the answers to requests to repost, keep it.
THEOREM SenderInvariant == Spec => []IInv
<1>1. Init => IInv
  BY InitHolds
<1>2. IInv /\ [Next]_vars => IInv'
  <2> SUFFICES ASSUME IInv, [Next]_vars PROVE IInv'
    OBVIOUS
  <2>1. CASE SendData
    BY <2>1, SendDataStep
  <2>2. CASE Post
    BY <2>2, PostStep
  <2>3. CASE NextNode
    BY <2>3, NextNodeStep
  <2>4. CASE \E q \in Seqs : Repost(q)
    BY <2>4, RepostStep
  <2>5. CASE UNCHANGED vars
    BY <2>5, StutterStep
  <2> QED BY <2>1, <2>2, <2>3, <2>4, <2>5 DEF Next
<1> QED BY <1>1, <1>2, PTL DEF Spec

\* However SendData's frames are spread over nodes, the packets it cuts are the
\* frames, byte after byte, each flagged by where it is in its frame.
THEOREM SenderFramesCut == Spec => []FramesCut
<1>1. IInv => FramesCut
  BY DEF IInv, FramesCut
<1> QED BY <1>1, SenderInvariant, PTL

\* Until the numbers come round, ClearPacketWrBufer keeps the newest
\* HG_CONN_CACHE_LEN packets, and the chains they point into.
THEOREM SenderRecentKept == Spec => [](FirstTurn => RecentKept)
<1>1. IInv => (FirstTurn => RecentKept)
  BY TurnKeeps
<1> QED BY <1>1, SenderInvariant, PTL

\* Until the numbers come round, a request to repost is answered with the
\* packet asked for, and never with bytes that were given back.
THEOREM SenderAnswersLive == Spec => [](FirstTurn => AnswerLive)
<1>1. IInv => (FirstTurn => AnswerLive)
  BY DEF IInv
<1> QED BY <1>1, SenderInvariant, PTL

\* Until the numbers come round, no chain is left behind: each is given back
\* when its last packet has left the cache.
THEOREM SenderReleases == Spec => [](FirstTurn => OldReleased)
<1>1. IInv => (FirstTurn => OldReleased)
  BY TurnReleases
<1> QED BY <1>1, SenderInvariant, PTL
=============================================================================
