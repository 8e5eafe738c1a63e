------------------------------ MODULE Retransmit ------------------------------
(***************************************************************************)
(* One stream from end to end: SendStream on one host, RecvStream on the   *)
(* other, and between them a network that loses, repeats and reorders what *)
(* the two send: packets (POST), requests for a packet that is missing     *)
(* (REQ_REPOST) and the answers to them (RES_REPOST).                      *)
(*                                                                         *)
(* Where SendStream may be asked for anything and RecvStream may receive   *)
(* anything, here the one is asked what the other has asked and receives   *)
(* what the one has sent: a message is a head (RtpHeader), made by the     *)
(* sender and read by the receiver, and the packet that follows it.  A     *)
(* packet is named by its position n in the stream.                        *)
(***************************************************************************)
EXTENDS SeqArith, SequencesExt, RtpHeader

CONSTANTS
  Content,            \* the frames to be sent, each the sequence of its packets
  HG_CONN_CACHE_LEN,  \* slots of each cache
  NoSeq,              \* "no packet yet" in the receiver's current number
  maxnovalue,         \* a pass stops after more than so many missing packets
  Expiry,             \* ticks after which a missing packet is given up
  MaxFrame,           \* packets that fit in HG_MAX_FRAME_LEN
  MaxFaults,          \* bound: messages lost or delivered twice
  MaxTwice            \* bound: messages delivered twice

LastPkt == Last(Last(Content))
Pkts    == 1..LastPkt

\* Content numbers the packets from 1 as SendStream numbers what it sends, and
\* a number fits into 16 bits.
ASSUME RetransmitAssumption ==
  /\ Content \in Seq(Seq(Nat)) /\ Content # <<>> /\ \A f \in DOMAIN Content : Content[f] # <<>>
  /\ Content[1][1] = 1
  /\ \A f \in DOMAIN Content : \A i \in 1..Len(Content[f])-1 : Content[f][i+1] = Content[f][i] + 1
  /\ \A f \in 1..Len(Content)-1 : Content[f+1][1] = Last(Content[f]) + 1
  /\ LastPkt < HG_SEQ_MAX_NUM /\ HG_SEQ_MAX_NUM <= 65536 /\ NoSeq \in Nat
  /\ HG_CONN_CACHE_LEN \in 1..Half /\ maxnovalue \in Nat
  /\ Expiry \in Nat \ {0} /\ MaxFrame \in Nat \ {0}
  /\ MaxFaults \in Nat /\ MaxTwice \in Nat

\* A frame is one node of as many packets, each of one byte.
Chains == {<<Len(Content[f])>> : f \in DOMAIN Content}

\* The frame of a packet and its flag.
FrameOf(n) == CHOOSE f \in DOMAIN Content : n \in ToSet(Content[f])
TailOf == [n \in Pkts |->
  LET c == Content[FrameOf(n)]
  IN  IF n = c[1] THEN IF n = Last(c) THEN 0 ELSE 2
                  ELSE IF n = Last(c) THEN 3 ELSE 1]

VARIABLES
  chains, node, copied, sendsize, snd, sndmax, sendcache, released, posted, answer,
  cur, max, cache, big, stage, seq, isfull, novalue, taken, frames, asked, stranded,
  net,        \* the messages under way
  lost,       \* messages lost
  twice,      \* messages delivered twice
  pts,        \* bigframebuf->pts: the timestamp of the frame under construction
  stamps,     \* history: the timestamps of the frames handed to the application
  failed,     \* history: the packets that were asked for in vain
  overrun     \* history: a packet arrived that is a whole cache ahead

S == INSTANCE SendStream WITH
       max <- sndmax, MaxCopy <- 1, MaxFrames <- Len(Content)

R == INSTANCE RecvStream WITH
       pc <- stage, sent <- Len(posted), FirstPkt <- 1, Lifetime <- LastPkt, Window <- LastPkt

sender   == <<chains, node, copied, sendsize, snd, sndmax, sendcache, released, posted, answer>>
receiver == <<cur, max, cache, big, stage, seq, isfull, novalue, taken, frames, asked, stranded>>
stamping == <<pts, stamps>>
faults   == <<lost, twice>>
outcome  == <<failed, overrun>>
streamVars == <<sender, receiver, net, faults, stamping, outcome>>

StreamInit ==
  /\ S!Init /\ R!Init
  /\ net = {} /\ lost = 0 /\ twice = 0
  /\ pts = 0 /\ stamps = <<>> /\ failed = {} /\ overrun = FALSE

-----------------------------------------------------------------------------
(* Messages                                                                *)

MsgHead(cmd, tail, q, timestamp) ==
  rtpPacketHead([first |-> 0, comp |-> 0, cmd |-> cmd, tail |-> tail, payloadType |-> 2,
                 seq |-> q, timestamp |-> timestamp, ssrc |-> 1])

\* The head of a packet, as SendData fills it in; the frame's number is its pts.
Sndhead(p) == MsgHead(enum_RTP_CMD_POST, p.tail, p.seq, p.frame)

\* A packet that is sent, and sent again with the head that was kept.
Packet(p, n) == [head |-> Sndhead(p), body |-> n]
Answer(p, n) == [head |-> pktSetCmd(Sndhead(p), enum_RTP_CMD_RES_REPOST), body |-> n]

\* ReSend: a head and nothing else.
Request(q) == [head |-> MsgHead(enum_RTP_CMD_REQ_REPOST, 0, q, 0), body |-> 0]

IsRequest(m) == pktCmd(m.head) = enum_RTP_CMD_REQ_REPOST
IsPacket(m)  == pktCmd(m.head) <= enum_RTP_CMD_RES_REPOST

-----------------------------------------------------------------------------
(* The sender                                                              *)

\* Nothing that others do changes a pass of FindUseful, so they wait for it.
NoPass == stage = "idle"

SendData ==
  /\ NoPass /\ S!SendData
  /\ chains' = Append(chains, <<Len(Content[Len(chains) + 1])>>)
  /\ UNCHANGED <<receiver, net, faults, stamping, outcome>>

Post ==
  /\ NoPass /\ S!Post
  /\ net' = net \cup {Packet(Last(posted'), Len(posted'))}
  /\ UNCHANGED <<receiver, faults, stamping, outcome>>

NextNode ==
  /\ NoPass /\ S!NextNode
  /\ UNCHANGED <<receiver, net, faults, stamping, outcome>>

\* The packet that the sender's cache holds under a number.
Position(p) == CHOOSE n \in DOMAIN posted : posted[n] = p

MayRepeat == twice < MaxTwice /\ lost + twice < MaxFaults

\* A message arrives, and goes or stays to arrive once more.
Arrives(m) ==
  /\ m \in net
  /\ \/ net' = net \ {m} /\ UNCHANGED twice
     \/ MayRepeat /\ twice' = twice + 1 /\ UNCHANGED net

\* Mutant of Reply: only what is still new is sent again.
ReplyNewest(m) == IF pktSeq(m.head) = sndmax THEN {Answer(answer'.got, Position(answer'.got))} ELSE {}

\* What the sender says to a request.
Reply(m) ==
  IF answer' = S!NoAnswer THEN {} ELSE {Answer(answer'.got, Position(answer'.got))}

\* threadPOOLRecv of a request.
Repost(m) ==
  /\ NoPass /\ IsRequest(m) /\ m \in net
  /\ S!Repost(pktSeq(m.head))
  /\ \/ net' = (net \ {m}) \cup Reply(m) /\ UNCHANGED twice
     \/ MayRepeat /\ twice' = twice + 1 /\ net' = net \cup Reply(m)
  /\ failed' = failed \cup ({pktSeq(m.head)} \ {answer'.got.seq})
  /\ UNCHANGED <<receiver, lost, stamping, overrun>>

-----------------------------------------------------------------------------
(* The network                                                             *)

\* What is lost may be a packet, a request or its answer.
Lose(m) ==
  /\ NoPass /\ m \in net /\ lost + twice < MaxFaults
  /\ lost' = lost + 1
  /\ net' = net \ {m}
  /\ failed' = IF pktCmd(m.head) = enum_RTP_CMD_POST THEN failed ELSE failed \cup {pktSeq(m.head)}
  /\ UNCHANGED <<sender, receiver, twice, stamping, overrun>>

-----------------------------------------------------------------------------
(* The receiver                                                            *)

\* Mutant of Stamp: the first packet's timestamp stays.
StampOnce(m) == pts' = IF pts = 0 THEN pktTimestamp(m.head) ELSE pts

\* The timestamp of the packet that arrives, wherever it belongs.
Stamp(m) == pts' = pktTimestamp(m.head)

threadPOOLRecv(m) ==
  /\ IsPacket(m) /\ Arrives(m)
  /\ UNCHANGED <<sender, lost, stamps, failed>>
  /\ R!threadPOOLRecv(m.body)
  /\ Stamp(m)
  /\ overrun' = (overrun \/ uint16Sub(pktSeq(m.head), cur') >= HG_CONN_CACHE_LEN)

Tick ==
  /\ UNCHANGED <<sender, net, faults, stamping, outcome>>
  /\ R!Tick

\* MergeDataClear: where a frame begins, and where the one under construction
\* is dropped, its timestamp is cleared; for a frame of one packet that is
\* before the callback gets it.
MergeDataClear ==
  pts' = IF R!MergeAlone \/ R!MergeBegin \/ R!MergeDrop \/ R!GiveUp THEN 0 ELSE pts

\* A request for a packet or the answer to one is still under way.
TooLate(q) == \E m \in net : pktSeq(m.head) = q /\ pktCmd(m.head) # enum_RTP_CMD_POST

\* A step of FindUseful: a request leaves, a frame is handed on as it is
\* stamped, a packet is given up though its answer may yet come.
FindUseful ==
  /\ UNCHANGED <<sender, faults, overrun>>
  /\ R!FindUseful
  /\ MergeDataClear
  /\ net' = IF asked' # asked THEN net \cup {Request(seq)} ELSE net
  /\ stamps' = IF frames' # frames THEN Append(stamps, pts') ELSE stamps
  /\ failed' = IF R!GiveUp /\ TooLate(seq) THEN failed \cup {seq} ELSE failed

StreamNext ==
  \/ SendData \/ Post \/ NextNode \/ Tick \/ FindUseful
  \/ \E m \in net : Repost(m) \/ Lose(m) \/ threadPOOLRecv(m)

StreamSpec == StreamInit /\ [][StreamNext]_streamVars

-----------------------------------------------------------------------------
(* Properties                                                              *)

\* Types; and what RecvStream takes for granted of the packets it receives:
\* the head of each tells its number and its flag.
StreamTypeOK ==
  /\ S!TypeOK /\ R!TypeOK
  /\ lost + twice \in 0..MaxFaults /\ twice <= MaxTwice /\ failed \subseteq Pkts
  /\ Len(stamps) = Len(frames)
  /\ \A m \in net :
       /\ IsRequest(m) \/ IsPacket(m)
       /\ IsPacket(m) => /\ pktSeq(m.head) = R!Wire(m.body) /\ pktFlag(m.head) = TailOf[m.body]
                         /\ pktTimestamp(m.head) = FrameOf(m.body)

\* Packets are in slots where they do not belong: one was left behind by
\* FindUseful, or one was stored that is a whole cache ahead, which WriteTocache
\* takes for the one that is missing.
Broken == stranded \/ overrun

\* The packets that the receiver no longer waits for though it has not had
\* them; what was sent before the first to arrive is none of its concern.
Passed ==
  {n \in Pkts : taken # <<>> /\ n > taken[1] /\ n < cur /\ n \notin ToSet(taken)}

\* A packet is passed over only if asking for it failed: the request or the
\* answer was lost or is late, or the sender no longer had it.  One loss of
\* the packet itself is always repaired.
PassedOnlyIfFailed == Broken \/ Passed \subseteq failed

\* Everything has arrived or is lost, and nothing more is going to happen.
AtRest ==
  /\ NoPass /\ node = 0 /\ Len(chains) = Len(Content) /\ net = {}
  /\ \A i \in R!Slots : ~R!Pending(i)

\* A packet that has arrived is not left in the cache, unless asking for one
\* before it failed.
HeldOnlyIfFailed ==
  Broken \/ (AtRest => \A i \in R!Slots : cache[i].pkt # R!None =>
                 \E n \in failed : n < cache[i].pkt)

\* A frame of one packet is always handed on with timestamp 0.  A frame of
\* several has its own, unless one of its packets or an earlier one had to be
\* asked for: what waited behind a gap gets the timestamp of the packet that
\* fills it, or 0 if another frame began or was given up in the same pass.
StampOwnUnlessCleared ==
  \A k \in DOMAIN frames : LET n == Last(frames[k]) IN
    IF TailOf[n] = R!Alone
    THEN stamps[k] = 0
    ELSE stamps[k] = FrameOf(n) \/ \E a \in ToSet(asked) : a <= n

\* The stream is a MediaStream.
Media == INSTANCE MediaStream WITH
           sent   <- Len(chains),
           out    <- frames,
           last   <- IF frames = <<>> THEN 0 ELSE FrameOf(Last(Last(frames))),
           broken <- Broken
KeepsPromise == Media!Spec
=============================================================================
