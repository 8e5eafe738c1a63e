----------------------------- MODULE RecvStream ------------------------------
(***************************************************************************)
(* HuageRecvStream (net/rtp/common/huage_recvstream.cpp): the receiving    *)
(* end of one stream (one connection, one payload type) over UDP.  Packets *)
(* arrive in any order, some twice, some never.  They are kept in a cache  *)
(* of HG_CONN_CACHE_LEN slots indexed by sequence number; every arrival    *)
(* runs FindUseful, which hands the gapless prefix to MergeData, asks the  *)
(* peer once for each packet that is missing and, when a packet asked for  *)
(* 50 ms ago is still missing, gives it up.  MergeData joins the packets   *)
(* of a frame and hands the frame to the application.                      *)
(*                                                                         *)
(* One worker thread handles the packets of a connection, one at a time:   *)
(* nothing but the clock moves during a pass.  Packets are named by their  *)
(* position in the peer's stream; the wire carries it modulo               *)
(* HG_SEQ_MAX_NUM.  The network may deliver any of the last Lifetime       *)
(* packets sent, at any time and any number of times: that covers loss,    *)
(* reordering, duplication and the answers to requests, which take the     *)
(* path of a first arrival.                                                *)
(***************************************************************************)
EXTENDS SeqArith, Sequences

CONSTANTS
  NoSeq,              \* 0xff, "no packet yet" in the current sequence number
  HG_CONN_CACHE_LEN,  \* slots of the cache
  maxnovalue,         \* a pass stops after more than so many missing packets
  Expiry,             \* ticks after which a missing packet is given up
  MaxFrame,           \* packets that fit in HG_MAX_FRAME_LEN
  TailOf,               \* TailOf[n]: the tail flag of the n-th packet
  FirstPkt, LastPkt,  \* bounds: the packets the peer sends
  Lifetime,           \* the network delivers none but the last Lifetime packets
  Window              \* the peer is never so many packets ahead of the receiver

\* The two tail bits.
Alone  == 0
Middle == 1
Begin  == 2
End    == 3

Packets == FirstPkt..LastPkt
Seqs    == 0..HG_SEQ_MAX_NUM-1
Slots   == 0..HG_CONN_CACHE_LEN-1
None    == -1                   \* no packet in a slot; a slot never asked for

ASSUME RecvAssumption ==
  /\ HG_CONN_CACHE_LEN \in Nat \ {0} /\ maxnovalue \in Nat /\ Expiry \in Nat \ {0}
  /\ FirstPkt \in Nat /\ LastPkt \in Nat /\ FirstPkt <= LastPkt /\ NoSeq \in Nat
  /\ Lifetime \in Nat \ {0} /\ Window \in Nat \ {0} /\ MaxFrame \in Nat \ {0}
  /\ TailOf \in [Packets -> {Alone, Begin, Middle, End}]

Wire(n) == n % HG_SEQ_MAX_NUM
Slot(q) == q % HG_CONN_CACHE_LEN

VARIABLES
  sent,       \* the last packet the peer has sent (FirstPkt - 1: none)
  cur,        \* cur*PacketSeqs: the sequence number awaited
  max,        \* cur*MaxSeq: the highest sequence number received
  cache,      \* recv*Cache: per slot the packet, and the age of the request
  big,        \* bigframebuf: the packets of the frame under construction
  pc,         \* "idle", or "find" during a pass of FindUseful
  seq,        \* FindUseful: the number looked at
  isfull,     \* FindUseful: nothing was missing so far
  novalue,    \* FindUseful: packets found missing
  taken,      \* history: the packets MergeData took out of the cache, in order
  frames,     \* history: the frames handed to the application, in order
  asked,      \* history: the packets asked for again, in order
  stranded    \* history: a slot still in use was left behind cur

pass    == <<pc, seq, isfull, novalue>>
history == <<taken, frames, asked, stranded>>
vars == <<sent, cur, max, cache, big, pass, history>>

EmptySlot == [pkt |-> None, time |-> None]

Init ==
  /\ sent = FirstPkt - 1
  /\ cur = NoSeq
  /\ max = 0
  /\ cache = [i \in Slots |-> EmptySlot]
  /\ big = <<>>
  /\ pc = "idle" /\ seq = 0 /\ isfull = TRUE /\ novalue = 0
  /\ taken = <<>> /\ frames = <<>> /\ asked = <<>> /\ stranded = FALSE

-----------------------------------------------------------------------------
(* The environment                                                         *)

\* Packets sent that the receiver has not got past, as the numbers tell.
Lag == IF cur = NoSeq THEN sent + 1 - FirstPkt
                      ELSE (Wire(sent + 1) - cur) % HG_SEQ_MAX_NUM

Send ==
  /\ pc = "idle"
  /\ sent < LastPkt
  /\ Lag < Window
  /\ sent' = sent + 1
  /\ UNCHANGED <<cur, max, cache, big, pass, history>>

\* Time passes for every request not yet answered; 50 ms are Expiry ticks.
Pending(i) == cache[i].time \in 0..Expiry-1

Tick ==
  /\ \E i \in Slots : Pending(i)
  /\ cache' = [i \in Slots |-> IF Pending(i) THEN [cache[i] EXCEPT !.time = @ + 1]
                                             ELSE cache[i]]
  /\ UNCHANGED <<sent, cur, max, big, pass, history>>

-----------------------------------------------------------------------------
(* threadPOOLRecv of a posted or reposted packet, up to FindUseful         *)

\* The first packet to arrive is the one awaited.
Awaited(n) == IF cur = NoSeq THEN Wire(n) ELSE cur

\* Mutant of Stores: packets behind the number awaited are stored too.
StoresOld(n) == cache[Slot(Wire(n))].pkt = None

\* What is behind the number awaited is ignored, a slot in use is kept.
Stores(n) ==
  /\ uint16Sub(Awaited(n), Wire(n)) <= 0
  /\ cache[Slot(Wire(n))].pkt = None

\* Mutant of WriteTocache: the last packet to arrive is taken for the newest.
WriteTocacheMaxIsLast(n) ==
  /\ cache' = [cache EXCEPT ![Slot(Wire(n))].pkt = n]
  /\ max' = Wire(n)

\* The time of a request made for the slot stays.
WriteTocache(n) ==
  /\ cache' = [cache EXCEPT ![Slot(Wire(n))].pkt = n]
  /\ max' = IF uint16Sub(Wire(n), max) > 0 THEN Wire(n) ELSE max

threadPOOLRecv(n) ==
  /\ pc = "idle"
  /\ n \in FirstPkt..sent
  /\ n > sent - Lifetime
  /\ cur' = Awaited(n)
  /\ \/ Stores(n) /\ WriteTocache(n)
     \/ ~Stores(n) /\ UNCHANGED <<cache, max>>
  /\ pc' = "find" /\ seq' = Awaited(n) /\ isfull' = TRUE /\ novalue' = 0
  /\ UNCHANGED <<sent, big, history>>

-----------------------------------------------------------------------------
(* FindUseful: one action per way through the loop                         *)

\* Mutant of InRange: one number too many is looked at.
InRangePlusOne == pc = "find" /\ uint16Sub(uint16Add(max, 1), seq) >= 0

InRange == pc = "find" /\ uint16Sub(max, seq) >= 0
Here    == cache[Slot(seq)]
NextSeq == uint16Add(seq, 1)

\* Mutant of Take: the time of the request stays in the slot.
TakeKeepsTime ==
  /\ InRange /\ isfull /\ Here.pkt # None
  /\ cache' = [cache EXCEPT ![Slot(seq)].pkt = None]
  /\ cur' = NextSeq
  /\ seq' = NextSeq
  /\ taken' = Append(taken, Here.pkt)
  /\ UNCHANGED <<sent, max, pc, isfull, novalue, asked, stranded>>

\* The packet found is the next in line: MergeData takes it.
Take ==
  /\ InRange /\ isfull /\ Here.pkt # None
  /\ cache' = [cache EXCEPT ![Slot(seq)] = EmptySlot]
  /\ cur' = NextSeq
  /\ seq' = NextSeq
  /\ taken' = Append(taken, Here.pkt)
  /\ UNCHANGED <<sent, max, pc, isfull, novalue, asked, stranded>>

Joined == Append(big, Here.pkt)

\* A packet inside a frame is used only where its own number is looked for,
\* and as long as the frame is not too long.
Fits == Here.pkt # None /\ seq = Wire(Here.pkt) /\ Len(Joined) <= MaxFrame

MergeAlone ==
  /\ Take /\ TailOf[Here.pkt] = Alone
  /\ frames' = Append(frames, <<Here.pkt>>)
  /\ big' = <<>>

MergeBegin ==
  /\ Take /\ TailOf[Here.pkt] = Begin
  /\ big' = <<Here.pkt>>
  /\ UNCHANGED frames

MergeMiddle ==
  /\ Take /\ TailOf[Here.pkt] = Middle /\ Fits
  /\ big' = Joined
  /\ UNCHANGED frames

MergeEnd ==
  /\ Take /\ TailOf[Here.pkt] = End /\ Fits
  /\ frames' = Append(frames, Joined)
  /\ big' = <<>>

MergeDrop ==
  /\ Take /\ TailOf[Here.pkt] \in {Middle, End} /\ ~Fits
  /\ big' = <<>>
  /\ UNCHANGED frames

\* Beyond the first gap packets wait.
Hold ==
  /\ InRange /\ ~isfull /\ Here.pkt # None
  /\ seq' = NextSeq
  /\ UNCHANGED <<sent, cur, max, cache, big, pc, isfull, novalue, history>>

Missing ==
  /\ InRange /\ Here.pkt = None /\ novalue <= maxnovalue
  /\ isfull' = FALSE
  /\ novalue' = novalue + 1
  /\ seq' = NextSeq
  /\ UNCHANGED <<sent, max, pc, taken, frames>>

\* The packet that a sequence number means, for the history.
Meant(q) ==
  IF uint16Sub(q, Wire(sent + 1)) >= 0 THEN sent + 1 + uint16Sub(q, Wire(sent + 1))
                                       ELSE sent + 1 - uint16Sub(Wire(sent + 1), q)

\* Mutant of ReSend: that the packet was asked for is not noted.
ReSendForgets ==
  /\ Missing /\ Here.time = None
  /\ asked' = Append(asked, Meant(seq))
  /\ UNCHANGED <<cache, cur, big, stranded>>

ReSend ==
  /\ Missing /\ Here.time = None
  /\ cache' = [cache EXCEPT ![Slot(seq)].time = 0]
  /\ asked' = Append(asked, Meant(seq))
  /\ UNCHANGED <<cur, big, stranded>>

Wait ==
  /\ Missing /\ Pending(Slot(seq))
  /\ UNCHANGED <<cur, cache, big, asked, stranded>>

\* The numbers awaited before the one given up.
PassedOver == {q \in Seqs : uint16Sub(q, cur) >= 0 /\ uint16Sub(seq, q) > 0}

\* Mutant of GiveUp: the frame under construction is kept.
GiveUpKeepsFrame ==
  /\ Missing /\ Here.time = Expiry
  /\ cache' = [cache EXCEPT ![Slot(seq)] = EmptySlot]
  /\ cur' = NextSeq
  /\ stranded' = (stranded \/ \E q \in PassedOver : cache[Slot(q)] # EmptySlot)
  /\ UNCHANGED <<asked, big>>

\* Given up: the frame under construction is dropped, the next number is
\* awaited, whatever was passed on the way to this gap.
GiveUp ==
  /\ Missing /\ Here.time = Expiry
  /\ big' = <<>>
  /\ cache' = [cache EXCEPT ![Slot(seq)] = EmptySlot]
  /\ cur' = NextSeq
  /\ stranded' = (stranded \/ \E q \in PassedOver : cache[Slot(q)] # EmptySlot)
  /\ UNCHANGED asked

Stop ==
  /\ pc = "find"
  /\ \/ uint16Sub(max, seq) < 0
     \/ InRange /\ Here.pkt = None /\ novalue > maxnovalue
  /\ pc' = "idle" /\ seq' = 0 /\ isfull' = TRUE /\ novalue' = 0
  /\ UNCHANGED <<sent, cur, max, cache, big, history>>

FindUseful ==
  \/ MergeAlone \/ MergeBegin \/ MergeMiddle \/ MergeEnd \/ MergeDrop
  \/ Hold \/ ReSend \/ Wait \/ GiveUp \/ Stop

Next ==
  \/ Send \/ Tick
  \/ \E n \in Packets : threadPOOLRecv(n)
  \/ FindUseful

Spec == Init /\ [][Next]_vars
-----------------------------------------------------------------------------
(* Properties                                                              *)

\* Types: numbers stay in range, and the cache and the frame under construction
\* hold nothing but packets of the stream.
TypeOK ==
  /\ sent \in FirstPkt-1..LastPkt
  /\ cur \in Seqs \cup {NoSeq} /\ max \in Seqs /\ seq \in Seqs
  /\ cache \in [Slots -> [pkt : Packets \cup {None}, time : -1..Expiry]]
  /\ big \in Seq(Packets)
  /\ pc \in {"idle", "find"}
  /\ isfull \in BOOLEAN /\ novalue \in Nat /\ stranded \in BOOLEAN
  /\ taken \in Seq(Packets) /\ frames \in Seq(Seq(Packets)) /\ asked \in Seq(Nat)

\* MergeData takes packets in the order in which the peer sent them and none
\* twice, whatever is lost, late or duplicated (as long as two gaps given
\* up in one pass have left no packet behind the awaited number in the cache).
TakenInOrder ==
  stranded \/ \A i \in 1..Len(taken)-1 : taken[i] < taken[i+1]

\* The part of CacheWindow about the number awaited.
NeverAheadOfPeer == cur # NoSeq => uint16Sub(Wire(sent + 1), cur) >= 0

\* A cached packet sits in the slot of its number and lies between the
\* number awaited and the highest received, so a pass can still reach it; and
\* the receiver awaits nothing beyond the next packet to be sent: it gives up
\* only what the peer has sent.  Types included.
CacheWindow ==
  TypeOK /\ NeverAheadOfPeer /\ (stranded \/ \A i \in Slots : cache[i].pkt # None =>
    LET q == Wire(cache[i].pkt)
    IN  Slot(q) = i /\ uint16Sub(q, cur) >= 0 /\ uint16Sub(max, q) >= 0)

\* What the application gets as a frame is consecutive packets of one frame
\* up to its last one: never a hole in the middle, never two frames in one.
FrameUnbroken ==
  stranded \/ \A f \in {frames[k] : k \in 1..Len(frames)} :
    /\ \A j \in 1..Len(f)-1 :
         f[j+1] = f[j] + 1 /\ TailOf[f[j]] \in {Begin, Middle} /\ TailOf[f[j+1]] \in {Middle, End}
    /\ TailOf[f[Len(f)]] \in {Alone, End}

\* A packet is passed over only after it has been asked for.
PassedOnlyIfAsked ==
  stranded \/ \A i \in 1..Len(taken)-1 : \A n \in taken[i]+1..taken[i+1]-1 :
    \E k \in 1..Len(asked) : asked[k] = n

\* Only a packet that is not there is asked for, and each at most once.
AskedOnceIfMissing ==
  [][~stranded /\ Len(asked') > Len(asked) =>
       LET n == asked'[Len(asked')]
       IN  /\ \A k \in 1..Len(asked) : asked[k] # n
           /\ \A k \in 1..Len(taken) : taken[k] # n
           /\ \A i \in Slots : cache[i].pkt # n]_vars
=============================================================================
