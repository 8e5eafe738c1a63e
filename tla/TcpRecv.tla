------------------------------- MODULE TcpRecv -------------------------------
(***************************************************************************)
(* The reader of a TCP connection (tcpRecvmsg in huage_tcp_manage.cpp): it *)
(* copies what the socket has into a ring and cuts the stream into frames, *)
(* each behind a head that says how long it is.  It runs on the epoll      *)
(* thread, once per event; the peer's bytes arrive meanwhile.  The epoll   *)
(* set is edge-triggered: an event says that bytes came since the last.    *)
(*                                                                         *)
(* A byte is its position in the peer's stream.  The nodes of 512 bytes    *)
(* that a frame is copied to are abstracted to the bytes they hold.        *)
(***************************************************************************)
EXTENDS RingBuf

CONSTANTS
  HG_TCP_PACKET_HEAD_SIZE,  \* bytes of the head: the frame's length
  HG_RTP_PACKET_HEAD_SIZE,  \* bytes that a frame begins with, read with the head
  HG_MAX_FRAME_LEN,         \* a longer frame is refused
  Cap,                      \* bytes of the ring, HG_RECV_BUFFER_LEN
  Body                      \* the lengths of the frames the peer sends

Peeked == HG_TCP_PACKET_HEAD_SIZE + HG_RTP_PACKET_HEAD_SIZE

ASSUME TcpAssumption ==
  /\ HG_TCP_PACKET_HEAD_SIZE \in Nat \ {0} /\ HG_RTP_PACKET_HEAD_SIZE \in Nat
  /\ HG_MAX_FRAME_LEN \in Nat
  /\ Cap \in Nat /\ Peeked <= Cap
  /\ Body \in Seq(Nat) /\ \A f \in 1..Len(Body) : Body[f] >= HG_RTP_PACKET_HEAD_SIZE

Frames == 1..Len(Body)

\* The position before the head of frame f, and before what follows the last.
Before[f \in 1..Len(Body)+1] ==
  IF f = 1 THEN 0 ELSE Before[f-1] + HG_TCP_PACKET_HEAD_SIZE + Body[f-1]

Total  == Before[Len(Body)+1]
BodyOf(f) == [i \in 1..Body[f] |-> Before[f] + HG_TCP_PACKET_HEAD_SIZE + i]

VARIABLES
  arrived,   \* bytes of the peer that have reached the socket
  received,  \* bytes read from the socket
  event,     \* epoll has an event for the socket
  tcpbuf,    \* hfde->tcpbuf, the ring
  hashead,   \* hfde->status, bit 1: a head was read and its frame is not complete
  pc,        \* where tcpRecvmsg is: "idle", "recv", "parse"
  filled,    \* n = len: the socket filled the room that was offered to it
  open,      \* hctrecvframe # nullptr
  framerest, \* bytes the frame lacks
  frame,     \* bytes of the frame so far
  handed,    \* history: the frames handed on by RecvData
  refused    \* history: a length was out of bounds

local == <<filled, open, framerest, frame>>
vars  == <<arrived, received, event, tcpbuf, hashead, pc, local, handed, refused>>

\* InitEvent.
Init ==
  /\ arrived = 0 /\ received = 0 /\ event = FALSE
  /\ tcpbuf = NewRing(Cap, 0) /\ hashead = FALSE
  /\ pc = "idle" /\ filled = FALSE /\ open = FALSE /\ framerest = 0 /\ frame = <<>>
  /\ handed = <<>> /\ refused = FALSE

-----------------------------------------------------------------------------
(* The peer and the network: bytes come in pieces of any size.             *)

Arrive ==
  /\ \E k \in 1..Total - arrived : arrived' = arrived + k
  /\ event' = TRUE
  /\ UNCHANGED <<received, tcpbuf, hashead, pc, local, handed, refused>>

-----------------------------------------------------------------------------
(* tcpRecvmsg                                                              *)

\* The loop of the epoll thread calls it; its variables are new.
Call ==
  /\ pc = "idle" /\ event
  /\ event' = FALSE
  /\ pc' = "recv" /\ open' = FALSE /\ framerest' = 0 /\ frame' = <<>>
  /\ UNCHANGED <<arrived, received, tcpbuf, hashead, filled, handed, refused>>

\* The room in one piece behind what is in the ring.
Room(r) == IF r.start > r.end THEN r.start - r.end ELSE r.cap - r.end

Received(r, n) ==
  [r EXCEPT !.data = [j \in DOMAIN r.data |->
                        IF j \in r.end .. r.end + n - 1 THEN received + j - r.end + 1 ELSE @[j]],
            !.end = Wrap(@ + n, r.cap),
            !.len = @ + n]

InSocket == arrived - received

\* EAGAIN.
NothingToRead ==
  /\ pc = "recv" /\ InSocket = 0
  /\ pc' = "idle"
  /\ UNCHANGED <<arrived, received, event, tcpbuf, hashead, local, handed, refused>>

Recv ==
  /\ pc = "recv" /\ InSocket > 0
  /\ \E n \in {IF InSocket < Room(tcpbuf) THEN InSocket ELSE Room(tcpbuf)} :
       /\ tcpbuf' = Received(tcpbuf, n)
       /\ received' = received + n
       /\ filled' = (n = Room(tcpbuf))
  /\ pc' = "parse"
  /\ UNCHANGED <<arrived, event, hashead, open, framerest, frame, handed, refused>>

\* Mutant of Again: a call ends after one read.
AgainNever == pc' = "idle"

\* The end of a turn: there may be more in the socket only if the room was filled.
Again == pc' = IF filled THEN "recv" ELSE "idle"

\* What the bytes at the front of the ring say when read as a length: that of a
\* frame if they are its head, anything otherwise.
Lengths(bytes) ==
  LET of == {f \in Frames : bytes = [i \in 1..HG_TCP_PACKET_HEAD_SIZE |-> Before[f] + i]}
  IN  IF of # {} THEN {Body[f] : f \in of} ELSE {0, 1, 2}

InBounds(size) == size > 0 /\ size <= HG_MAX_FRAME_LEN

HeadThere == CanRead(tcpbuf, Peeked)
HeadBytes == ReadBytes(tcpbuf, HG_TCP_PACKET_HEAD_SIZE)

\* A head that is not there yet: the loop goes round.
NoHead ==
  /\ pc = "parse" /\ ~hashead /\ ~HeadThere
  /\ pc' = "recv"
  /\ UNCHANGED <<arrived, received, event, tcpbuf, hashead, local, handed, refused>>

\* The call ends with the head taken and none remembered.
Refuse ==
  /\ pc = "parse" /\ ~hashead /\ HeadThere
  /\ \E size \in Lengths(HeadBytes) : ~InBounds(size)
  /\ tcpbuf' = AfterRead(tcpbuf, HG_TCP_PACKET_HEAD_SIZE)
  /\ pc' = "idle"
  /\ refused' = TRUE
  /\ UNCHANGED <<arrived, received, event, hashead, local, handed>>

\* Mutant of Skip: what was looked at is taken too.
SkipPeeked == Peeked

\* Of what was looked at only the head is taken.
Skip == HG_TCP_PACKET_HEAD_SIZE

BeginFrame ==
  /\ pc = "parse" /\ ~hashead /\ HeadThere
  /\ \E size \in Lengths(HeadBytes) : InBounds(size) /\ framerest' = size
  /\ tcpbuf' = AfterRead(tcpbuf, Skip)
  /\ hashead' = TRUE /\ open' = TRUE /\ frame' = <<>>
  /\ UNCHANGED <<arrived, received, event, pc, filled, handed, refused>>

\* All there is goes to the frame, which lacks more.
FillFrame ==
  /\ pc = "parse" /\ hashead /\ open /\ tcpbuf.len < framerest
  /\ frame' = frame \o ReadBytes(tcpbuf, tcpbuf.len)
  /\ framerest' = framerest - tcpbuf.len
  /\ tcpbuf' = AfterRead(tcpbuf, tcpbuf.len)
  /\ Again
  /\ UNCHANGED <<arrived, received, event, hashead, filled, open, handed, refused>>

\* Mutant of EndFrame: all there is is taken for the frame's.
EndFrameTakesAll ==
  /\ pc = "parse" /\ hashead /\ open /\ tcpbuf.len >= framerest
  /\ frame' = frame \o ReadBytes(tcpbuf, tcpbuf.len)
  /\ framerest' = 0
  /\ tcpbuf' = AfterRead(tcpbuf, tcpbuf.len)
  /\ handed' = Append(handed, frame')
  /\ hashead' = FALSE
  /\ Again
  /\ UNCHANGED <<arrived, received, event, filled, open, refused>>

\* The frame is complete: RecvData sends it to a worker.  One frame a turn.
EndFrame ==
  /\ pc = "parse" /\ hashead /\ open /\ tcpbuf.len >= framerest
  /\ frame' = frame \o ReadBytes(tcpbuf, framerest)
  /\ framerest' = 0
  /\ tcpbuf' = AfterRead(tcpbuf, framerest)
  /\ handed' = Append(handed, frame')
  /\ hashead' = FALSE
  /\ Again
  /\ UNCHANGED <<arrived, received, event, filled, open, refused>>

\* A head is remembered from an earlier call, but not its frame.
NoFrame ==
  /\ pc = "parse" /\ hashead /\ ~open
  /\ Again
  /\ UNCHANGED <<arrived, received, event, tcpbuf, hashead, local, handed, refused>>

tcpRecvmsg ==
  \/ Call \/ NothingToRead \/ Recv
  \/ NoHead \/ Refuse \/ BeginFrame \/ FillFrame \/ EndFrame \/ NoFrame

Next == Arrive \/ tcpRecvmsg

Spec == Init /\ [][Next]_vars

\* The epoll thread never stops handling events.
FairSpec == Spec /\ WF_vars(tcpRecvmsg)

-----------------------------------------------------------------------------
(* Properties                                                              *)

\* Types.  A ring whose head was forgotten may be counted over its size.
TypeOK ==
  /\ arrived \in 0..Total /\ received \in 0..arrived /\ event \in BOOLEAN
  /\ tcpbuf.data \in [0..Cap-1 -> 0..Total] /\ tcpbuf.cap = Cap
  /\ tcpbuf.start \in 0..Cap-1 /\ tcpbuf.end \in 0..Cap-1 /\ tcpbuf.len \in Nat
  /\ hashead \in BOOLEAN /\ open \in BOOLEAN /\ filled \in BOOLEAN
  /\ pc \in {"idle", "recv", "parse"}
  /\ framerest \in 0..HG_MAX_FRAME_LEN /\ frame \in Seq(1..Total)
  /\ handed \in Seq(Seq(1..Total)) /\ refused \in BOOLEAN

\* The frames handed on are those of the peer, in order, each byte for byte,
\* whatever pieces the stream came in and wherever the ring wrapped.
FramesExact ==
  ~refused =>
    /\ Len(handed) <= Len(Body)
    /\ \A f \in 1..Len(handed) : handed[f] = BodyOf(f)

\* A frame was begun in an earlier call: its bytes so far are gone.
Forgotten == hashead /\ ~(open /\ pc # "idle")

\* The last byte taken out of the ring.
Taken ==
  Before[Len(handed)+1] + (IF hashead THEN HG_TCP_PACKET_HEAD_SIZE + Len(frame) ELSE 0)

\* No byte is lost, repeated or overwritten on its way: the frame under
\* construction, the ring and the socket hold what follows the frames handed
\* on, until a length is refused or a frame forgotten; types included.
StreamIntact ==
  /\ TypeOK
  /\ ~refused /\ ~Forgotten =>
       /\ tcpbuf.len <= Cap
       /\ received = Taken + tcpbuf.len
       /\ \A i \in 1..tcpbuf.len : Unread(tcpbuf, i) = Taken + i
       /\ hashead => framerest + Len(frame) = Body[Len(handed)+1]

\* Between calls nothing is left in the socket without an event to come for it,
\* though a call that did not fill the ring does not ask the socket again.
SocketDrained == pc = "idle" /\ ~event /\ ~refused => received = arrived

\* "Go on fetching": a frame that has arrived is handed on.
EveryFrameHandled ==
  \A f \in Frames : arrived >= Before[f+1] ~> Len(handed) >= f
=============================================================================
