----------------------------- MODULE SendStream ------------------------------
(***************************************************************************)
(* HuageSendStream (net/rtp/common/huage_sendstream.cpp): the sending end  *)
(* of one stream over UDP.  SendData cuts a frame, which is a chain of     *)
(* nodes, into packets, numbers them, sends each and keeps it in the slot  *)
(* of its number, so that a request to repost can be answered from the     *)
(* cache of HG_CONN_CACHE_LEN slots.  The cache holds no copy: a slot      *)
(* points into the frame's chain.  Only the slot of the last packet of a   *)
(* frame owns the chain (alloc); overwriting that slot releases the chain. *)
(*                                                                         *)
(* Both entry points run on the worker thread of the connection, so that a *)
(* request is answered between two frames.                                 *)
(***************************************************************************)
EXTENDS SeqArith, Sequences

CONSTANTS
  HG_CONN_CACHE_LEN,  \* slots of the cache
  MaxCopy,            \* bytes of payload in a packet (990)
  Chains,             \* the frames there may be: the lengths of their nodes
  MaxFrames           \* bound: the number of frames sent

Slots  == 0..HG_CONN_CACHE_LEN-1
Seqs   == 0..HG_SEQ_MAX_NUM-1
Slot(q) == q % HG_CONN_CACHE_LEN

ASSUME SendAssumption ==
  /\ HG_CONN_CACHE_LEN \in Nat \ {0} /\ HG_CONN_CACHE_LEN <= Half /\ MaxCopy \in Nat \ {0}
  /\ Chains \subseteq Seq(Nat \ {0}) /\ <<>> \notin Chains
  /\ MaxFrames \in Nat

\* The two tail bits: 00 alone, 10 begin, 01 within, 11 end.
Alone  == 0
Middle == 1
Begin  == 2
End    == 3

VARIABLES
  chains,     \* the frames handed to SendData so far
  node,       \* the node of the chain SendData is at (0: between frames)
  copied,     \* copiedLength: bytes of the node already sent
  sendsize,   \* bytes of the frame already sent
  snd,        \* cur*SndPacketSeqs: the last sequence number given out
  max,        \* curSend*MaxSeq
  sendcache,  \* per slot the packet it points to, if any
  released,   \* the frames whose chain has been given back
  posted,     \* history: the packets sent, in order
  answer      \* history: the last request, and the packet it was answered with

sending == <<chains, node, copied, sendsize, snd>>
vars == <<sending, max, sendcache, released, posted, answer>>

\* A packet: its number, its frame and flag, and where its bytes are.
NoPacket == [seq |-> -1, frame |-> 0, tail |-> 0, node |-> 0, from |-> 0, size |-> 0]
NoAnswer == [asked |-> -1, behind |-> 0, got |-> NoPacket, live |-> TRUE]

Init ==
  /\ chains = <<>> /\ node = 0 /\ copied = 0 /\ sendsize = 0 /\ snd = 0
  /\ max = 0
  /\ sendcache = [i \in Slots |-> NoPacket]
  /\ released = {}
  /\ posted = <<>>
  /\ answer = NoAnswer

Frames == 1..Len(chains)
frame  == Len(chains)              \* the frame being sent, or sent last

-----------------------------------------------------------------------------
(* SendData                                                                *)

\* The bytes of the first m nodes of a chain, for every m.
Bytes(c) == LET sum[m \in 0..Len(c)] == IF m = 0 THEN 0 ELSE sum[m-1] + c[m] IN sum

\* framesize = mfc->size without the head.
FrameSize(f) == Bytes(chains[f])[Len(chains[f])]

SendData ==
  /\ node = 0
  /\ Len(chains) < MaxFrames
  /\ \E c \in Chains : chains' = Append(chains, c)
  /\ node' = 1 /\ copied' = 0 /\ sendsize' = 0
  /\ UNCHANGED <<snd, max, sendcache, released, posted, answer>>

restsize   == chains[frame][node] - copied
shouldcopy == IF MaxCopy < restsize THEN MaxCopy ELSE restsize

\* Mutant of tail: the last packet is told by > instead of >=.
TailStrict ==
  IF sendsize = 0 THEN IF shouldcopy > FrameSize(frame) THEN Alone ELSE Begin
                  ELSE IF shouldcopy > FrameSize(frame) - sendsize THEN End ELSE Middle

\* Whether the packet is the first and whether it is the last of its frame.
tail ==
  IF sendsize = 0 THEN IF shouldcopy >= FrameSize(frame) THEN Alone ELSE Begin
                  ELSE IF shouldcopy >= FrameSize(frame) - sendsize THEN End ELSE Middle

\* Mutant of Owns: every slot of a frame owns the chain.
OwnsAlways(p) == {f \in Frames : p.frame = f}

\* What a slot owns: alloc is set for the last packet of a frame, and the
\* last node of the chain carries the handle that gives it back.
Owns(p) ==
  {f \in Frames : p.frame = f /\ p.tail \in {Alone, End} /\ p.node = Len(chains[f])}

\* Mutants of ClearPacketWrBufer: nothing is released; max is not raised.
ClearPacketNoRelease(p) ==
  /\ sendcache' = [sendcache EXCEPT ![Slot(p.seq)] = p]
  /\ max' = IF uint16Sub(p.seq, max) > 0 THEN p.seq ELSE max
  /\ UNCHANGED released
ClearPacketMaxStays(p) ==
  /\ released' = released \cup Owns(sendcache[Slot(p.seq)])
  /\ sendcache' = [sendcache EXCEPT ![Slot(p.seq)] = p]
  /\ UNCHANGED max

\* The slot of the packet's number is taken over, what it owned is released.
ClearPacketWrBufer(p) ==
  /\ released' = released \cup Owns(sendcache[Slot(p.seq)])
  /\ sendcache' = [sendcache EXCEPT ![Slot(p.seq)] = p]
  /\ max' = IF uint16Sub(p.seq, max) > 0 THEN p.seq ELSE max

\* The next packet: sent, then cached.
Post ==
  /\ node # 0 /\ restsize > 0
  /\ LET p == [seq |-> uint16Add(snd, 1), frame |-> frame, tail |-> tail,
               node |-> node, from |-> copied, size |-> shouldcopy]
     IN  /\ snd' = p.seq
         /\ posted' = Append(posted, p)
         /\ ClearPacketWrBufer(p)
  /\ copied' = copied + shouldcopy
  /\ sendsize' = sendsize + shouldcopy
  /\ UNCHANGED <<chains, node, answer>>

\* The node is used up: the next one, or the end of the frame.
NextNode ==
  /\ node # 0 /\ restsize = 0
  /\ node' = IF node < Len(chains[frame]) THEN node + 1 ELSE 0
  /\ copied' = 0
  /\ UNCHANGED <<chains, sendsize, snd, max, sendcache, released, posted, answer>>

-----------------------------------------------------------------------------
(* threadPOOLSend of enum_RTP_CMD_RES_REPOST: answer a request             *)

\* The peer asks for a number it has seen the successor of.
MayBeAsked(q) == \E k \in 1..Len(posted)-1 : posted[k].seq = q

InCache(q) == uint16Sub(max, q) <= HG_CONN_CACHE_LEN /\ uint16Sub(max, q) >= 0

Repost(q) ==
  /\ node = 0
  /\ MayBeAsked(q)
  /\ LET p == sendcache[Slot(q)]
     IN  answer' = IF InCache(q) /\ p # NoPacket
                   THEN [asked |-> q, behind |-> uint16Sub(max, q), got |-> p,
                         live |-> p.frame \notin released]
                   ELSE NoAnswer
  /\ UNCHANGED <<sending, max, sendcache, released, posted>>

Next ==
  \/ SendData \/ Post \/ NextNode
  \/ \E q \in Seqs : Repost(q)

Spec == Init /\ [][Next]_vars

-----------------------------------------------------------------------------
(* Properties                                                              *)

Packet == [seq : Seqs \cup {-1}, frame : 0..Len(chains), tail : 0..3,
           node : Nat, from : Nat, size : Nat]

\* Types: SendData stays within the bytes of the node it is at, every slot
\* points to a packet of a frame that was sent, and only sent frames are released.
TypeOK ==
  /\ chains \in Seq(Chains) /\ sendsize \in Nat
  /\ node # 0 => node \in DOMAIN chains[frame] /\ copied \in 0..chains[frame][node]
  /\ snd \in Seqs /\ max \in Seqs
  /\ sendcache \in [Slots -> Packet]
  /\ released \subseteq Frames
  /\ posted \in Seq(Packet)
  /\ answer \in [asked : Seqs \cup {-1}, behind : 0..HG_CONN_CACHE_LEN,
                got : Packet, live : BOOLEAN]

\* Where a packet is in its frame.
Starts(p)   == p.node = 1 /\ p.from = 0
NodeDone(p) == p.from + p.size = chains[p.frame][p.node]
Ends(p)     == p.node = Len(chains[p.frame]) /\ NodeDone(p)

WithinNode(p) ==
  /\ p.frame \in Frames /\ p.node \in DOMAIN chains[p.frame]
  /\ p.size \in 1..MaxCopy /\ p.from + p.size <= chains[p.frame][p.node]

\* q has the bytes that follow those of p.
Behind(p, q) ==
  /\ q.frame = p.frame
  /\ IF NodeDone(p) THEN q.node = p.node + 1 /\ q.from = 0
                    ELSE q.node = p.node /\ q.from = p.from + p.size

\* A frame goes out as one packet alone, or as one begin, any number of
\* middles and one end.
FrameFlags ==
  \A k \in 1..Len(posted) :
    posted[k].tail = IF Starts(posted[k])
                     THEN IF Ends(posted[k]) THEN Alone ELSE Begin
                     ELSE IF Ends(posted[k]) THEN End ELSE Middle

\* No byte of a frame is sent twice and none is left out, and frames follow
\* each other as they were handed to SendData.
FrameBytes ==
  /\ \A k \in 1..Len(posted) : WithinNode(posted[k])
  /\ posted # <<>> => Starts(posted[1]) /\ posted[1].frame = 1
  /\ \A k \in 1..Len(posted)-1 :
       IF Ends(posted[k]) THEN Starts(posted[k+1]) /\ posted[k+1].frame = posted[k].frame + 1
                          ELSE Behind(posted[k], posted[k+1])
  /\ node = 0 /\ frame > 0 =>
       posted # <<>> /\ posted[Len(posted)].frame = frame /\ Ends(posted[Len(posted)])

\* However the bytes of a frame are spread over nodes, it is cut into packets
\* that together are the frame and are flagged by where they are in it (SendData
\* tells both by comparing counts of bytes); types included.
FramesCut == TypeOK /\ FrameFlags /\ FrameBytes

\* The last HG_CONN_CACHE_LEN packets sent can all be reposted, and their
\* bytes are still there.
RecentKept ==
  \A k \in 1..Len(posted) : k > Len(posted) - HG_CONN_CACHE_LEN =>
    /\ sendcache[Slot(posted[k].seq)] = posted[k]
    /\ InCache(posted[k].seq)
    /\ posted[k].frame \notin released

\* A repost never sends bytes of a chain that was given back, and the packet
\* it sends is the one asked for (but for the number HG_CONN_CACHE_LEN behind
\* the newest, which InCache lets pass and whose slot the newest has).
AnswerLive ==
  /\ answer.live
  /\ answer.got # NoPacket /\ answer.behind < HG_CONN_CACHE_LEN => answer.got.seq = answer.asked

\* Every chain is given back in the end: once the last packet of a frame is
\* HG_CONN_CACHE_LEN packets old, nothing holds the frame any more.
OldReleased ==
  \A k \in 1..Len(posted) :
    posted[k].tail \in {Alone, End} /\ k <= Len(posted) - HG_CONN_CACHE_LEN =>
      posted[k].frame \in released
=============================================================================
