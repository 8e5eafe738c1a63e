# Protocol server: a TLA+ model

`src/` is a media server in C++: clients log in over TCP or UDP, enter a room,
send audio and video as numbered packets, and hear and see the others. This
directory models the parts of it whose correctness depends on order, timing,
wrap-around and the limits of buffers, checks them with TLC on small instances and
proves the central ones with TLAPS for every instance.

## 1. The system

All paths are below `src/src/`. Four kinds of threads run: the main thread (an
endless `Drive` of the application's channel), two worker threads (an endless
`Drive` each), the epoll thread, and a timer thread that only sleeps. Threads
exchange **events** through channels: a fixed head (handler, context, parameter
size) and the parameters, copied byte for byte. What belongs to an `ssrc` or a
room runs on worker `id % 2`.

    client --UDP--> epoll thread --event--> worker[ssrc%2]: RecvStream --frame-->
        application on that worker --event--> worker[room%2]: Room
        --event--> worker[ssrc%2]: SendStream --UDP--> client
    client --TCP--> epoll thread: frame parser --event--> worker[ssrc%2]: login, rooms

| component | state | operations | what is hard, and what must hold |
|---|---|---|---|
| Event channel `threads/hg_channel.cpp` | chain of nodes under a spin lock, private 4096-byte ring, semaphore, put-back head | `WriteChan`, `Drive`, `Handlemsg` | Several writers, a consumer that writes to itself, post after unlock, events split by a full ring. Every event handled once, whole, in order; no lost wakeup. |
| Workers `threads/hg_worker.cpp` | a channel each | `doWork`, `WriteChanWor`, `getWorker` | An object is touched by its own worker only. |
| Ring and chains `common/hg_buf.cpp` | start, end, len, cap; linked nodes and a free list | `Hg_Buf_WriteN`, `Hg_Buf_ReadN`, push and delete of nodes | Wrap; full and empty look alike but for `len`. |
| Sequence arithmetic `common/tools.c` | none | `uint16Sub`, `uint16Add`, `uint32Sub` | Comparison on a circle of 65535, not 65536, numbers. |
| UDP receive stream `net/rtp/common/huage_recvstream.cpp` | reorder cache of 200 slots, current and highest number, frame under construction | `threadPOOLRecv`, `FindUseful`, `WriteTocache`, `MergeData`, `MergeDataClear`, `ReSend` | Loss, reordering, duplicates, one request per gap, 50 ms to give up. Packets joined in order, frames without holes. |
| UDP send stream `.../huage_sendstream.cpp` | send cache of 200 slots that points into the frames' chains | `SendData`, `threadPOOLSend`, `ClearPacketWrBufer` | Who owns a chain, and when it is released. A repost sends the packet asked for, from memory not yet released. |
| Connections `.../huage_connect.cpp` | free list, map ssrc -> connection, per-stream fields | `hgConnGetFreeConn`, `hgConnGetConnInBuck`, `hgConnAttachAddr`, ... | Map and free list shared by threads, partly without their lock. |
| UDP socket side `.../huage_udp_manage.cpp` | datagram buffers from the epoll thread's pool | `udpRecvmsg`, `RecvData`, `sendCallback`, `writePipeFree` | Buffers travel to a worker and back through a pipe. |
| TCP stream `.../huage_tcp_manage.cpp` | 512-byte ring, head-was-read flag, frame under construction; send chain | `tcpRecvmsg`, `PreSendArr`, `clearSndChain`, `SendDatapre` | A frame may come in any number of reads; the socket may take any part of a chain. |
| Net manager `.../huage_net_manage.cpp` | handlers per payload type | `preSendData`, `sendDataQueue`, `createFrameStr` | Queues frames to the worker of their receiver. |
| Epoll loop, pipe, fd events `hg_iocp.cpp`, `hg_pipe.cpp`, `hgfdevent.cpp` | descriptors, pipe, free list of fd events | `loop`, `read`, `write`, `getFree` | Start-up wiring; what runs on which loop. |
| Memory pool `common/hg_pool.c` | nodes with a fill mark and a use count, free list | `memoryAlloc`, `memoryFree` | Not thread-safe: each pool must have one owner. |
| Sessions `app/session.cpp`, `app/comm_consumer.cpp` | free list of sessions, status, room | `sessGetFree`, `asyncLogin`, `Login`, `recvCallback` | Sessions are read and written by the workers of clients and of rooms, without a lock. |
| Rooms `app/room.cpp`, `app/audio_consumer.cpp` | users, jitter buffer of one second, play position | `CreEnterRoom`, `HandleCreEnterRoo`, `RoomMergeData`, `OutConsumeQueue`, `writeFree` | 16-bit and 32-bit clocks in one comparison; frames shared by receivers. |
| Video `app/video_consumer.cpp` | subscribers | `OutConsumeQueue` | One frame, many receivers: reference count. |
| Packet header `.../rtp_packet.cpp` | none | `rtpPacketHead`, `pktSeq` ..., `pktSetCmd` | Ten bytes in which eight fields share bits; read by the other host. |
| Timer, codecs, JSON, logging, H.264, start-up | - | - | Pure data conversion, vendored, never called, or wiring. |

`PROJECT.json` lists every component with its status, and under `hazards` the
places in the code where these things can go wrong.

## 2. Modules

| module | models | builds on |
|---|---|---|
| `SeqArith` | `uint16Sub`, `uint16Add` with the size of the circle as a constant | - |
| `RingBuf` | the byte ring: `Hg_Buf_WriteN`, `Hg_Buf_ReadN`, putting a head back | - |
| `ChannelSpec` | abstract: an ordered queue that delivers each event once | - |
| `Channel` | `HgChannel`, all of it | `RingBuf`, refines `ChannelSpec` |
| `ChannelNodes` | the linked nodes and the free list behind the channel's chain | `Channel` |
| `RecvStream` | the receive stream of one connection and payload type | `SeqArith` |
| `SendStream` | the send stream of one connection and payload type | `SeqArith` |
| `RoomMix` | the jitter buffer of a room: `RoomMergeData`, `MergeAudioData`, `OutConsumeQueue` | `SeqArith` |
| `Pool` | `memoryAlloc`, `memoryFree` over two lists of nodes | - |
| `PoolLinks` | the left and right links that represent the two lists | `Pool` |
| `TcpRecv` | `tcpRecvmsg`, the reader of a TCP connection | `RingBuf` |
| `Sessions` | logins, rooms and where audio and video go, over two workers | channels as in `ChannelSpec` |
| `RtpHeader` | the ten bytes of a packet's head | - |
| `MediaStream` | abstract: what a stream promises over a lossy network | - |
| `Retransmit` | sender, receiver and the network between them | `SendStream`, `RecvStream` (INSTANCE), `RtpHeader`; refines `MediaStream` |
| `TcpSend` | the chain of an answer, what the socket takes of it, what is given back | - |
| `Connections` | sockets, fd events, connections, addresses, over the io thread and two workers | `TcpSend`, channels as in `ChannelSpec` |
| `DataProofs` | lemmas and theorems about numbers, the ring, and the head | `RingBuf`, `RtpHeader`, TLAPS |
| `ChannelProofs` | theorems about `Channel` and `ChannelNodes` | `DataProofs` |
| `SendStreamProofs`, `RecvStreamProofs`, `RoomMixProofs` | theorems about the module of that name | `DataProofs` |
| `TransportProofs` | theorems about the two transports, `TcpRecv` and `Retransmit` | `DataProofs` |
| `ResourceProofs` | theorems about `Pool`, `PoolLinks` and `Connections`: what is handed out and given back | TLAPS |
| `SessionsProofs` | theorems about `Sessions` | TLAPS |
| `MC_*` | instances for TLC | |

### Channel
`hct` is the content of the chain of nodes, `tcpbuf` the ring with its `start`,
`end`, `len`, `eventSem` the semaphore, `posting` the threads between unlock and
`sem_post`, `pc` the consumer's place in `Drive`/`Handlemsg`. The two critical
sections are one step each, because what they touch is touched nowhere else;
`sem_post`, outside the lock, is a step of its own. A byte is a pair (event,
index), so that a torn, mixed or repeated event is visible. A handler is a period
(`pc = "handler"`) during which the consumer, too, may write. `Channel` and
its proofs have the node list as the byte sequence it represents. `ChannelNodes` takes
the same steps with the nodes: `chain.node` are the nodes ever made, `left` and `right`
the ends of `hct`, `freen` the free list. `NodesWriteChan` and `NodesMove` are the actions
of `Channel` with what the loops of `WriteChan` and `Drive` do node by node; a node that
is half drained is not written at its beginning again (`Idle`), one used up is taken
again. `NodesAgree` says that the two go on agreeing, in the chain and in the ring.

### RecvStream
`cur` and `max` are `cur*PacketSeqs` and `cur*MaxSeq`, `cache` the slots with the age
of the request made for each, `big` the frame under construction. `threadPOOLRecv`
is the arrival of one packet up to the call of `FindUseful`; each turn of the loop
in `FindUseful` is one of the actions `MergeAlone` ... `GiveUp`, its exit is `Stop`.
Only the clock (`Tick`) moves during a pass: all packets of a connection are
handled by one worker, one after the other. Packets are named by their position in
the peer's stream and carry it modulo `HG_SEQ_MAX_NUM`. The network delivers any of
the last `Lifetime` packets at any time and any number of times: loss, reordering,
duplication, and answers to requests, which take the path of a first arrival.
Length in bytes is abstracted to the number of packets. `taken`, `frames`,
`asked` and `stranded` are history.

### SendStream
`SendData` starts a frame (a chain given by the lengths of its nodes), `Post` sends
and caches one packet, `NextNode` goes on to the next node or ends the frame;
`Repost` answers a request. `sendcache` holds what each slot points at, `released`
the frames whose chain was given back. `Bytes` is the length of a chain up to a node.
`HG_CONN_CACHE_LEN` is at most half the circle, which the code's 200 of 65535 are.
`posted` and `answer` are history.

### RoomMix
`size` and `samptota` are the two parts of `rooBufinfo` that matter: which slots are
in use and what was added up in them (a set of sounds instead of a sum of samples).
`RoomMergeData` is the handler from its test of the time stamp to the beginning of
the loop that sends what is due, with `Drop`, `WrongSize` and `Keep` for the three
ways the frame may go; `Ignore` is its early return. Each turn of the loop is a step
(`SendDue`), because the loop is what may not end. All of it runs on one worker;
`Tick`, the clock, moves meanwhile. `U16` and `Since` are the conversions the code
makes between its 16-bit and 32-bit times. `EnterRoom` is there for what it resets,
also of one who enters again while frames of his wait (`before`), and for the list of
users, which is keyed by the room: only the first gets the mix.
Messages in audio frames (`comp = 1`), the frames' free list and their release are
left out. `due`, `before` and `out` are history.

### Pool
`nodes` and `free` are the two lists from left to right, `s` and `roffset` the
fields of a node, `live` the blocks handed out. `memoryAlloc` cuts from the last
node (`FromLast`), from one that was free (`FromFree`) or from a new one
(`FromMalloc`); `memoryFree` takes the block's bytes off the node's count and moves
the node when nothing is left. A block is given back once, by who holds it: "不要重复free"
(do not free twice), says the code. The code works on the links only; `PoolLinks`
repeats each operation on `links`, deciding by the links alone, and `LinksAgree`
says that the two stay the same thing.

### TcpRecv
`arrived` and `received` are how far the peer's stream has come to the socket and
out of it, `event` that epoll has an event for the socket: the set is edge-triggered,
so only new bytes make one. `tcpbuf` is the connection's ring, `hashead` the bit of
`hfde->status` that says that a head was read. `open`, `framerest` and `frame` are
the variables of `tcpRecvmsg` itself, new in each `Call`. One `recv` (`Recv`,
`NothingToRead`) and what is done with the bytes after it (`NoHead` ... `NoFrame`) are
a step each, because bytes arrive (`Arrive`, pieces of any size) at any time. A byte
is its position in the stream, so a lost, repeated or overwritten one shows. The
nodes of 512 bytes that a frame is copied to are the byte sequence they hold. What
is at the front of the ring and is not a head reads as any length (`Lengths`).
`handed` and `refused` are history; after a refused length, whose head is gone and
whose body is not, nothing is claimed. A call interrupted by a signal (EINTR), which
ends like one that found nothing, is left out, and so is the copy to `jsonblock`,
which nothing reads: frames longer than its 4096 bytes are outside the model.

### Sessions
`queue[w]` is the channel of worker `w`, an ordered queue as `Channel` was shown to
be; the event at its head is being handled and `pc[w]` is how far. A handler is one
step for each look at what another worker may change: `asyncLogin` is `sessGetFree`
(the locked half), `sessFree` (the reset), `sessPush` (the locked push) and `Login`;
`createenterroom` is `AskForRoom` and `CreEnterRoom` on the client's worker, then
`CreateRoom` and `EnterRoom` on the room's; audio is `ReadRoom` and the test and post
in `PreRoomMergeData`, then `RoomMergeData`, which here only notes what it was given
(`RoomMix` has the rest). `sess` holds the fields of the session objects, `sessPtr`
and `data` the local and the connection's pointer to one. The fields of a session are
read and written without a lock; a reset is one step, and so is finding or making a
room in the map. A null room ends the program (`crashed`). Clients wait for no
answer. `wants`, `entered`, `early`, `merged` and `forwarded` are history.

### RtpHeader
A head is a sequence of ten bytes, a header a record of its fields; masks and shifts
are `%` and `*` of powers of two, byte order included. `pktSetCmd` changes the head
that the send cache keeps.

### Retransmit and MediaStream
`S` is `SendStream` and `R` is `RecvStream`, each with all its state, `net` the set of
messages under way. `Post` puts a packet in it, with the head `SendData` makes; a step
of `FindUseful` that asks puts a request in it; `Repost` is the sender's
`threadPOOLRecv` of a request, with `threadPOOLSend` of the answer, which carries the
kept head with its command changed. A message that arrives goes, or stays to come
once more (`Arrives`); `Lose` takes one away, of whatever kind. Order is free: any
message may be the next. A pass of `FindUseful` is not interleaved with the other
host, because neither sees the other but by messages. `pts` is `bigframebuf->pts`,
which every arrival sets (`Stamp`) and `MergeDataClear` zeroes where a frame begins,
is dropped or is given up, and `stamps` what the frames handed on carry.
`failed` are the packets for which a request or its answer was lost, the request was
in vain, or that were given up with one of the two still under way; `overrun` and `stranded` say that a packet is in a slot where it does not
belong; from then on nothing is claimed. `MediaStream` is the promise: frames in
order, none twice, none with a hole, each perhaps without its first packets.

### TcpSend and Connections
`TcpSend` is `SendData` as a function of one answer: its chain is a head and the nodes
of its body (`PushFramCach`), up to four of which are offered to the socket, which
takes any number of bytes, none for now (`Again`) or fails (`Error`). `SendDatapre`
counts off what was taken and `clearSndChain` gives back what is used up; what is not
is dropped, so that no chain outlives its answer.

`Connections` has the io thread and the workers. The io thread accepts (`tcpAccept`,
`getFreeFdEv`, `InitEvent`: three steps, between which a worker may give an event
back) and queues frames and datagrams; a worker handles a login (`threadPOOLRecv`,
`Accept`), an answer (`sendDataQueue`, and if the socket fails `setFreeFdEv` and
`memoryDestroy`) or a datagram (`hgConnGetConnInBuck`, `ConnFound`,
`hgConnAttachAddr`). The steps are where another thread can come in between. A file
number stands for whatever socket has it now (`socket`), a memory pool for the socket
it was made for; a frame carries the fd event it came by, the pool it lies in, and,
as history, who asked. What is read in destroyed memory is anybody's (`Read`) or ends
the program. A search of the map during an insertion may find nothing (`torn`), two
threads that allocate at once may get one block and count one of them (`mixed`).
`seen` notes what has gone out of step, `wire` whose answer went over which socket,
`heads` the heads not given back. Left out: the io thread still inside `tcpRecvmsg`
when a worker destroys its event; frames other than logins, which are not answered.

## 3. Runs

| run | question | answer |
|---|---|---|
| `channel` | Are events handled whole, in order, once, and is no wakeup lost? Is every accepted event handled; is the channel an ordered queue? | yes, the last two under fair scheduling; `IInv`, the invariant of the proofs, holds too, and the nodes hold what the chain of bytes says (`NodesAgree`) |
| `recv_safety` | Are packets joined in order, without holes, each gap asked for once, nothing given up that was not sent? | yes, within the window the cache is made for |
| `send_safety` | Are frames cut and flagged rightly, is what was sent lately kept, and what is old released? | yes, within one turn of the numbers |
| `send_wrap` | A request after the numbers wrapped | answered with another packet, or from released memory: finding |
| `pool` | Do blocks in use keep apart, does each node stay in its one list, do the links agree with the lists? | yes; `IInv`, the invariant of the proofs, holds too |
| `tcp_recv` | Do frames come out whole, in order and exact whatever pieces the stream comes in, and is the socket emptied? | yes, until a frame is split over two events |
| `tcp_split` | Is every frame that arrives handed on? | no: finding |
| `room_mix` | Is each mix exactly what was stored for its time, sent in order and on time, nothing left behind, and does the loop end? | yes, until the clock or a time stamp wraps |
| `sessions` | Does audio go only where it was meant for, does the free list stay whole, when is a null room used? | as it should, unless clients share a session |
| `session_shared` | Has each client a session of his own? | no: finding |
| `connections` | Do fd events, connections and addresses stay apart, does an answer reach him who asked, is what was sent given back, what ends the program? | as it should, until a frame is handled after its memory was destroyed or two threads meet in an unlocked list |
| `retransmit` | Is a lost packet repaired, is nothing held back, and does the pair keep the promise of `MediaStream`? Which time stamp has a frame? | yes, until a packet gets into a slot where it does not belong; 0 if it is of one packet, its own if of several, unless something was asked for |

The findings are in `PROJECT.json` with the comment of the code each one contradicts.

### Bounds
- *Channel*: a head of 2 bytes, events of 3 and 5 bytes and a ring of 5. A ring
  that holds one long event or one short one and a part of the next makes every
  case of `Hg_Buf_WriteN` and `Hg_Buf_ReadN`, the split event and the put-back
  head occur; 5 events fill it several times over. Nodes of 3
  bytes: the short event fills one, the long one is cut over two or three, and nodes are
  drained in part, used up and taken again. Symmetry is not used, because
  liveness is checked. The proofs remove all these bounds but that of the nodes. Deadlock is not checked: a channel without events waits.
- *RecvStream*: a circle of 9 numbers and a cache of 5 slots keep the code's
  relation (the circle is not a multiple of the cache; the window is less than
  half the circle), 11 packets pass the wrap once. Frames of 1, 2, 3 and 4
  packets with `MaxFrame` 3 make every branch of `MergeData` happen. `Expiry` 1:
  a request is young or expired. `maxnovalue` 1 lets the guard against endless
  passes act. `Window` 4: the peer is never further ahead of the receiver than
  slots tell packets apart. For the code that is 135 packets, not the 200 of the cache:
  across the wrap, packets 135 apart share a slot (65535 is 327 * 200 + 135).
  `NoSeq` 9 and `FirstPkt` 1 describe a stream that starts low, as this server's
  own sender does, and a stretch of it in which 255 does not occur.
- *SendStream*: a circle of 27 numbers, 4 slots, 2 bytes a packet, 4 frames of 5
  shapes, one with more packets than slots. At most 20 packets are sent, so that
  the numbers do not wrap; `send_wrap` has a circle of 11.
- *RoomMix*: a circle of 33 and 3 slots, two users who begin at different time
  stamps, up to 3 and 2 frames, the next one 2 slots later or a repeat; time runs to
  5 slots, so that frames wait, are due, are late and are too far ahead, and each
  slot is used for several times. One user enters twice, the other one once. Neither the
  clock nor a time stamp comes round its circle. Deadlock is not checked: the bounds
  end every behaviour.
- *Pool*: 4 nodes of 6 bytes, heads of 1 byte, blocks of 1 and 2 bytes: nodes
  filled to the end and nodes with a byte left over, lists with a first, a middle,
  a last and an only node. Nodes are interchangeable (symmetry). The proofs remove
  these bounds.

- *TcpRecv*: a head of 2 bytes, 1 more looked at with it, a ring of 5, frames of at
  most 8 bytes; the peer sends frames of 2, 7, 1, 3 and 9: one longer than the ring,
  so that it is filled and emptied several times in one call, a shortest one, two
  in the ring at once, and one that is refused. The end of the ring
  falls inside heads and bodies alike. Deadlock is not checked: a connection without bytes waits.

- *Sessions*: two workers, two rooms and two clients, one of each on either worker, two
  sessions. One client sends 5 requests, enough to log in, enter, speak, move and
  speak again, the other one, enough to log in at any moment of it, with a session
  of his own if the logins interleave and the same one if not. Deadlock is not
  checked: clients stop sending.

- *Connections*: two workers, two clients, one on either, two fd events and two
  connections, three sockets: the third has to use the event of one that failed, or
  finds none. One client may ask twice over a socket, so that a second frame is queued
  when the first answer fails; each sends one datagram. A head of 2 bytes and a body
  of 3: the socket may take a part of either. Nothing is read while two events are
  queued (`MaxQueue`). Deadlock is not checked: clients stop sending.

- *Retransmit*: frames of 1, 3 and 1 packets, 3 slots, two messages lost or one of them repeated: a
  packet and the answer to the request for it can be lost, two gaps can be open in one
  pass, and a packet can be a whole cache ahead of the missing one. A circle of 27, not
  wrapped here; `RecvStream` alone passes the wrap. Deadlock is not checked: the
  stream ends.

### Fairness
`FairSpec` of `Channel`, and with it `NodesFairSpec`, assumes weak fairness of `Drive`, an endless loop on a
thread of its own, and of each `Post`: a thread that has left the lock goes on to
`sem_post`. That handlers return is part of `Drive`. Nothing makes a thread write.
Weak fairness is what a preemptive scheduler gives a thread that never blocks but
on the semaphore; the spin lock's sections are single steps.

`FairSpec` of `RoomMix` assumes weak fairness of `SendDue`: the worker goes on with
a handler it has begun. Nothing makes a user speak or time pass.

`FairSpec` of `TcpRecv` assumes weak fairness of `tcpRecvmsg`: the epoll thread never
stops taking events, and a handler it has begun goes on. Nothing makes the peer send.

`Retransmit` and `Connections` assume none: what is claimed of a stream at rest
(`HeldOnlyIfFailed`) is claimed of the states in which nothing is under way.

### Seen in the code and not among the runs
The following were found by TLC or while modelling and have no run of their own.
- `huage_recvstream.cpp:195`: `FindUseful` runs on arrivals only. After a packet was
  given up, the next one may lie in the cache until another arrives; the last one of
  a stream stays there. `HeldOnlyIfFailed` says that it takes a failed request.
- `huage_recvstream.cpp:106`: `0xff`, the mark of a stream without packets, is a
  sequence number too. Awaiting 255, the receiver takes the next arrival, an old
  duplicate included, for the awaited one; `TakenInOrder` fails when `NoSeq` is a
  number that is awaited.
- `huage_recvstream.cpp:350`: a middle or last packet is joined also when no frame
  has begun, so a frame whose first packet was lost is delivered without it.
- `huage_recvstream.cpp:211`: when two gaps are given up in one pass, the packets
  received between them stay in the cache, behind the awaited number, and are not
  merged. The history `stranded` marks it; the properties hold up to there.
- `huage_recvstream.cpp:446`: the highest number starts at 0, so a stream that starts
  in the upper half of the numbers never raises it, and packets not yet sent are
  asked for and given up. `FirstPkt` is low in the runs.
- `huage_recvstream.cpp:165`: a burst of more packets past a gap than the cache has
  slots makes a later packet be taken for the missing one: `WriteTocache` stores it in
  the empty slot of the missing one, and `MergeData` joins it there. A comment in the
  same file (`:418`, in code that is commented out) takes it that a hole is never longer
  than the cache. `Window` excludes it in `recv_safety`; `retransmit` has it (`overrun`).
- `huage_recvstream.cpp:165`: 65535 is no multiple of 200, so across the wrap two packets
  that are 135 apart have one slot: a burst of 135 packets past a gap suffices there.
- `huage_recvstream.cpp:101`: the time stamp of the frame under construction is set by
  every arrival, wherever it belongs, by requests too, before it is known what arrived.
  What waited behind a gap goes out with the time stamp of the packet that filled it, or
  with 0 if another frame began or was given up in the same pass. A request's has no
  effect, because every pass of `FindUseful` follows the arrival of a packet, which sets
  it again; `Repost` leaves `pts` alone.
- `huage_recvstream.cpp:271`: `MergeDataClear` sets `pts` to 0, and `MergeData` calls it
  for a packet that is a frame by itself (`:312`) before the callback gets the frame
  (`:327`): every frame of one packet is handed on with time stamp 0, whatever the
  network does. Audio does not read it (`audio_consumer.cpp:28` reads the head of the
  packet), but a video frame is sent on to the viewers with it (`video_consumer.cpp:36`,
  `huage_sendstream.cpp:190`). `StampOwnUnlessCleared` says exactly this; no text of the
  repository says what the time stamp of a frame should be, so it is a property that
  holds and not a finding.
- `huage_recvstream.cpp:165`: a packet that is too old, or whose slot is in use, is
  neither stored nor freed.
- `huage_recvstream.cpp:246`: `first` and `comp` of a request's head are not set.
- `huage_tcp_manage.cpp:260`: one frame is cut from the ring per turn, and a turn that
  did not fill the room ends the call: a second frame that came in the same read
  waits in the ring until the peer sends more.
- `huage_sendstream.cpp:91`: the test lets the number 200 behind the newest pass, whose
  slot the newest has: the request is answered with the newest. `AnswerLive` says so.
- `room.cpp:558`: once the clock has passed the number of time stamps, about 22 minutes
  after the first frame, `nextpts`, which stays below 65535, never equals `diffpts`,
  which does not, and the loop does not end; `LoopEnds` fails when `MaxClock` exceeds
  the circle.
- `room.cpp:190`: who enters again while frames of his wait has his next one stored at
  once, that is before or among them; in the room's first slot, as far ahead as his time
  stamp is high, which is dropped.
- `room.cpp:513`: `uint32Sub` of two 16-bit time stamps gives -1 across their wrap, and
  the user's frame is added to the slot of his last one. Time stamps do not wrap in
  `room_mix`.
- `huage_tcp_manage.cpp:471`: `len` is subtracted from the rest after it was set to 0, so
  that every node is compared with all that was taken. `HeadsGivenBack` holds, because
  a head is the shorter and the first; of two nodes that together took all, the second,
  if it is the shorter, would be given back half sent.
- `huage_tcp_manage.cpp:430`: what the socket did not take is dropped and not given back
  (the head, too, if it took nothing), though the comment at `:670` says that it has to
  be sent later. The socket is in the epoll set without `EPOLLOUT`, so `tcpSendMsg` and
  `sendChain` never run; `preSendDataChain` would pass them half of their parameters
  (`:373`).
- `huage_tcp_manage.cpp:153`: a peer that closes is not noticed: the socket stays open, its
  fd event in use, until a send fails.
- `hgfdevent.cpp:35`: the fd event is freed, and its memory, while frames in it may be
  queued; they are then read in freed memory, and answered to whoever has the event by
  then. The event is in the free list before its memory is destroyed.
- `huage_net_manage.cpp:141`: a second answer queued to a connection whose socket failed in
  the first uses a null fd event; and `hgConn->tcpfd` stays null.
- `huage_connect.cpp:274`: the map keeps a ssrc's first connection after a reconnect, so
  that datagrams go on using it. Nothing takes a connection back.
- `huage_connect.cpp:167`: a new address for every datagram, the old one is not given back.
- `huage_server.cpp:18`: the net manager is given the pointer to the bucket before
  `hgConnInit` sets it, which sets only the caller's. `hgConn->data`, which tells whether
  a client has logged in, is not set by `hgConnGetFreeConn`.
- `session.cpp:110`, with shared sessions: a login resets the session while the other
  client's entering is on its way, `CreateRoom` gives none and `room.cpp:53` enters it.
- `room.cpp:189`: a client who asks for two rooms in quick succession is entered in the
  order in which their workers come to it. If the first comes last, `rroom` is the
  first and `roomid` the second, and `audio_consumer.cpp:33` drops all his audio until
  he asks again.
- `audio_consumer.cpp:33`: `room` is null until the room's worker has entered the
  session: audio sent at once after asking uses it.
- `room.cpp:91`, `room.cpp:420`: `sess->data`, by which rooms and video find a
  user's connection, is never set; `sendDataQueue` returns at the null pointer
  (`huage_net_manage.cpp:131`), so nothing of it is sent and the frame is not given back.
- `room.cpp:485`: a user has the time stamp 0 when he enters; if his first frame's
  stamp is in the upper half of the circle, it and all that follow up to the wrap
  are ignored. `FirstPts` of the runs is in the lower half.
- `room.cpp:512`, `room.cpp:540`: after a silence of more than half the circle, some
  eleven minutes, a user's old slot looks as if it were still to come and his
  frames are dropped as too far ahead; and what is due is not sent, because the
  time of the next slot looks later than now.
- `room.cpp:193`: the list of users is keyed by the room's id, so only the first to
  enter gets the mix (`EnterRoom` of `RoomMix` has it so).

## 4. Proofs

`DataProofs` proves of the ring, for every capacity and content, that
`Hg_Buf_WriteN` appends the longest prefix that fits and leaves unread bytes alone,
that `Hg_Buf_ReadN` takes the first unread bytes, that putting back what was read
restores the ring, and that `start`, `end` and `len` stay consistent (`Shape`).

`ChannelProofs` proves, for any number of writers, any events, any ring that holds
the longest event (`ChannelAssumption`): `TypeOK`, `ExactlyOnceInOrder` and
`NoLostWakeup` always hold. The invariant is

    IInv == TypeOK /\ LogOrder /\ StreamIntact /\ TurnCovers /\ ExactlyOnceInOrder

`ExactlyOnceInOrder` alone says nothing about the bytes still on their way, so
`StreamIntact` states that ring and chain together are the unhandled events, byte
for byte, starting at the beginning of one (`LogOrder` places them). `NoLostWakeup`
alone is not inductive because a turn may find nothing to do: `TurnCovers` adds
that a turn that cannot cover an event finds none whole in the ring, and that one
that has run a handler has given its surplus back. Why the ring must hold a whole
event enters in `MoveStep`: a move ends with an empty chain or a full ring, and a
full ring holds an event. One lemma per action; the theorems combine them.
`ChannelImplementsQueue` proves that the channel implements the safety part of
`ChannelSpec` (`Abstract!CSafe`): under `IInv` the bytes a handler is given are those of the
oldest event not yet handled, so `HandleNext` is `Deliver`, `WriteChan` is `Accept`, and
every other step changes neither history. That every event is delivered stays with TLC.

The second half of `ChannelProofs` is the chain of nodes, for nodes of any length and any
`chain` that `ChannelNodes` can reach (`NodesAlwaysAgree`). The invariant is `IInv` with

    Holds(chain, hct) == \E u, f : Lists(chain, u, f) /\ Content(chain, u) = hct

`Lists` names the nodes in the chain (`u`) and in the free list (`f`): following `next`
from `left` and from `freen` gives just these, every node is in one of them once, `right` is
the last of `u`, and a node in use is `Straight`: its bytes do not run over its end. That
is why the code may copy a node's bytes with one `memcpy`, though `start` and `end` wrap,
and why it must not write again at the beginning of a node half drained. `WriteChan` and
`Drive` loop over the nodes; the proof goes turn by turn. A turn of writing takes bytes
off what is left to write and puts them behind the chain's (`Turned`), a turn of draining
takes bytes off the leftmost node and writes them to the ring (`Moved`); the ring takes
two writes as one (`WriteNTwice` of `DataProofs`), so the whole drain is one write of
`hct`, which is what `Channel` says `Drive` does.

`ResourceProofs` proves in its first part, for any nodes, node length, head and sizes that fit a node
(`PoolAssumption`): `TypeOK`, `NoOverlap` and `NodesAccounted` always hold. The invariant is

    IInv == TypeOK /\ InNode /\ NoOverlap /\ Counted /\ Listed

The code decides by `s`, a count; `NodesAccounted` speaks of blocks. `Counted` joins
them: `s[n]` is the number of bytes of `n` that blocks in use cover, which is the sum
of their sizes because they do not overlap, and it is 0 only if there is none,
because a block has at least its head. `InNode` puts the blocks below `roffset`, so
that the next cut is apart from all of them, and a node without blocks may be cut
from 0 again. `Listed` says that the lists follow the counts. `CutStep` is shared
by the three ways to allocate, `NewNodeStep` by the two that bring in a node.

Its second part proves `LinksAgree` with the invariant `LinksInv`, which adds
the types of the links to `IInv`: one lemma each for what `memoryRightPush`,
`memoryLeftPopNode` and `memoryMidlePop` do to the links (`...Fields`) and to the
lists they represent (`...Step`). That no node is in both lists, nor twice in one,
comes from `Listed`: without it a push would break a list it does not touch.

Its third part proves, for any number of workers, clients, sockets, fd events and
connections (`ConnectionsAssumption`), all that `connections` checks but its types:
`HeadsGivenBack`, `AddressOwn`, `EventsApart`, `AnswersToAsker`, `CrashOnlyIfDue`.
The invariant is

    ConnIInv == Always /\ (InOrder => Ordered)
    Ordered  == SocketsKept /\ Accepted /\ Chained /\ Pointing /\ Failing /\ QueuesDue
                /\ Sent /\ ConnsMade /\ CrashDue

because most of it is false once a frame was handled after its socket's memory was gone
or two threads raced in the list of fd events (`InOrder`, the findings of section 3).
`seen` only grows, so a step into a state that is in order starts in one. `Always`
holds without that: types, what a thread has read at its place (`HeldTypes`), that a
socket has one number, that the list of free connections has each once, that blocks of
addresses lie below the next free one. It gives `HeadsGivenBack` and `AddressOwn`.

The list of fd events is a chain of pointers, and the proof must know that it never
comes round to an event in use. `Chained` says so without a recursion: the free events
have places, each one above that of the event its link leads to, no two the same
(`Places`). What `EventsApart` says of all that can be reached from the list follows by an
induction over the steps to it. `QueuesDue` is what the order of handling gives: the
event of a queued frame is still that socket's, or the same worker is giving it back and
will destroy the memory before it comes to the frame, or the memory is gone and the
frame will be seen to be late; an answer's connection has the asker's event, or none when
his socket is closed. `ConnsMade` counts: each connection was made for a socket of its own
over which a frame had come, so connections run out only after as many sockets; fd
events run out only when all are with open sockets or on their way back.

`DataProofs` also proves, for every value the bits can hold, that the receiver reads
in a head each field as the sender put it there (`HeaderRoundTrip`: no field runs into
another, no byte is lost or swapped), and that `pktSetCmd` changes nothing but the
command (`SetCmdOnly`). One lemma for each of the two bytes that fields share and for
the two and four bytes of a number; `StreamTypeOK` of `Retransmit` has the same for the
heads that occur in a stream.

The first part of `TransportProofs` proves, for any ring that holds what is looked at at once, any frames and
any pieces the stream arrives in (`TcpAssumption`), that `FramesExact`, `StreamIntact` and
`SocketDrained` always hold. The invariant is

    IInv == TypeOK /\ RingHolds /\ NeverFull /\ RestLeft /\ Aligned /\ FramesExact /\ Drained

`RingHolds` says that the unread bytes of the ring are the last ones read from the
socket, `Aligned` that they follow what was handed on and the part of a frame that is
under construction, so that a head is read where a head is: no two frames begin at one
position (`BeforeInjective`), and the bytes of a head say the length of its frame only
(`LengthsOfHead`). `NeverFull` says that the socket is asked only with room in the ring,
because what a turn leaves is less than a head; `RestLeft` that a frame under construction
still needs a byte; `Drained` when a call may end. The invariant claims the ring only
until a frame is forgotten (`Forgotten`, the finding of `tcp_split`), the alignment only
until a length is refused, whose head is gone and whose body is not.

`SendStreamProofs` proves, for any frames, chains and packet size, that `FramesCut` holds:
the invariant is

    IInv == TypeOK /\ Place /\ Ordered /\ FrameFlags /\ FrameBytes
            /\ (FirstTurn => Numbered /\ CacheHolds /\ ReleasedOld /\ AnswerLive)

`Place` says where in the chain the next packet begins, by the one posted last, `Ordered`
that the packets of a frame are posted before those of the next and that nothing of it
follows its end. The cache needs the hypothesis

    FirstTurn == Count < HG_SEQ_MAX_NUM

for `RecentKept`, `AnswerLive` and `OldReleased`, because after a full turn they are
false (`send_wrap`). `Numbered` says that the number of a packet is then its position,
`CacheHolds` that the slots hold the newest packets, `ReleasedOld` that a frame is
released exactly when its last packet has left the cache.
`BytesDef` unfolds the recursive function `Bytes`, `BytesGrow` orders what it gives.

`RecvStreamProofs` proves, for any stream, cache, expiry and any loss, delay and
repetition, all that `recv_safety` checks: `TakenInOrder`, `CacheWindow`,
`FrameUnbroken`, `PassedOnlyIfAsked` and the action property `AskedOnceIfMissing`. The
receiver has numbers only; the invariant says that they mean packets:

    Runs == \E a, m, s : Means(a, m, s) /\ (stranded \/ Content(a, m, s))
    Content(a, m, s) == Cached(a, m) /\ Noted(a, m) /\ GoneOver(a, s)
                        /\ TakenBehind(a) /\ Building(a)

`a`, `m` and `s` are the packets meant by `cur`, `max` and `seq`. `Cached` puts what is in
the cache between `a` and `m`, in its slot; `Noted` says that the slot of a packet tells
whether it was asked for, from its request until it is passed; `GoneOver` that a pass
leaves no empty slot behind it. Together they are why only what was asked for is passed
over: without `stranded` a packet is given up only where it is the one awaited
(`GivesUpAwaited`), its slot has a time, and no other packet of the window has that
slot. The hypothesis is `WindowFits`: the window and the life of a packet in the
network are at most half the circle, the stream starts low, `NoSeq` is no number of
it, and packets of one window have different slots. `WindowSuffices` says what the last
one comes to: a window of `HG_SEQ_MAX_NUM % HG_CONN_CACHE_LEN` numbers, which is 135 in
the code. That it is not the 200 of the cache is due to the wrap, where the numbers
65534 and 0 have the slots 134 and 0. Beyond the window the properties are false (section
3, "seen in the code"). The constants of `recv_safety` satisfy it, with
`Window` at this limit.

The second part of `TransportProofs` is about the composition `Retransmit`. It proves,
for any frames, cache, expiry and any number of messages lost or repeated, all that
`retransmit` checks: `StreamTypeOK`, `PassedOnlyIfFailed`, `HeldOnlyIfFailed`,
`StampOwnUnlessCleared`, and that the composition implements `MediaStream`
(`StreamRefines`: every step is one of `MediaStream`'s or none). The invariant is

    StreamInv == Outside /\ Receiving /\ Asking /\ (Broken \/ (Repair /\ Promise))

`Outside` is the sender and the network: a frame is one node and a packet one byte, so
that the number of a packet is its position and what the cache keeps is what was posted
(`Sending`), and all that is under way is a packet that was posted, its answer, or a
request (`Genuine`). `Receiving` orders the receiver's numbers. `Asking` says that what
waits behind a gap, and every gap a pass has gone over, has a request at or before it:
nothing is held or awaited before the first packet asked for, and as long as nothing was
asked for the only packet held is the one that has just arrived, and `pts` is its own.
It gives `StampOwnUnlessCleared`. `Repair` says why a loss is repaired: the cache holds
what lies within its length of the number awaited (`InWindow`), and for every gap in
there with a request time, the request is under way, or the answer is, or the asking
failed (`UnderRepair`, `Repairing`); when packets wait, the number awaited is such a gap
or a packet before it failed (`GapAsked`). A packet is given up only where it is the one
awaited, so what was passed over failed, and what is left in the cache when nothing is
under way has a failed packet before it. `Promise` says that the frame under
construction is the packets up to the one awaited (`Building`) and that the frame handed
on last ended before it (`HandedOn`); with `EndOfFrame` a frame handed on is a part of a
sent one to its end, and with `FrameOrder` it is a later one. `Repair` and `Promise` end
when a packet is where it does not belong (`Broken`): so does `MediaStream`'s promise.

The handlers compare numbers modulo the circle; `FindUseful` and `threadPOOLRecv` are
first shown to be what they are without it (`ArrivalPlain`, `LookPlain`: `Arriving`,
`Taking`, `Holding`, `Requesting`, `Waiting`, `GivingUp`, `Stopping`), and the invariant is
proved of those. The hypothesis is

    Short == LastPkt <= Half /\ NoSeq \notin 1..LastPkt+1

no number wraps and none is the mark of a stream without packets. With `NoSeq` = 255 of
the code that is 253 packets; from there on the receiver loses its place, which is in
section 3, and the theorems of the two streams by themselves, up to and across the wrap,
are in `SendStreamProofs` and `RecvStreamProofs`. The constants of `retransmit` satisfy it.

`RoomMixProofs` proves, for any users, slots and time stamps, `BufferWindow`, `MixExact`,
`PlayedOnTime` and `StoredBehind`. The invariant is

    IInv == Types /\ Clocks /\ Stamps /\ Waiting /\ SlotExact /\ Behind

`Clocks` orders what was sent, the time the loop comes to next and the clock; `Stamps`
bounds the slot times of a user by the clock and his own time stamps; `Waiting` puts all
that waits within one round of the buffer, from where the loop begins, in the slot of its
time, and `SlotExact` says that a slot in use holds what waits for one time, all of it
and nothing else; `Behind` that a user's last slot time is behind all he stored since he
entered. The hypothesis `FirstHalf` keeps the clock and the time stamps in the
first half of the circle, 32767 slots of 20 ms or some eleven minutes of talk in the
code, so that comparing 16-bit numbers compares times. It is satisfied by the constants
of `room_mix`; what fails beyond it is in section 3.

`SessionsProofs` proves, for any number of workers, connections, rooms and sessions (at
least as many sessions as workers, `SessionsAssumption`), `SessionsKept`, `MediaApart` and
`CrashOnlyIfEarly`. The invariant joins the free list (`Free`: each session is in it once,
or held by one worker between taking it off and putting it back), what is in the
channels (`Queues`) and in the handlers (`Handling`), the order of what was merged and
forwarded (`GivenOnce`, `HeldApart`, `InTime`, `InOrder`) and, as long as no two
connections share a session, whose session it is and which room it is in (`Owned`,
`RightRoom`). A worker always finds a free session because fewer than there are workers
are held by others, a count of finite sets. That sessions are not shared cannot be
proved: `session_shared` has the counterexample.

Induction: the theorems of the library that take an operator are out of the provers'
reach, and no RECURSIVE operator can occur in a proof. Facts about all numbers are
proved as facts about a set of numbers instead (`AllNumbers` of `DataProofs`, from the
well-foundedness of `<`), which lets a recursive *function*, like `Before` of `TcpRecv`
or `Bytes` of `SendStream`, be unfolded and summed, and loops like those of `ChannelNodes`
(`WriteTurns`, `DriveTurns`) be followed turn by turn.

Only model-checked: liveness, that of `ChannelSpec` included: the prover has no liveness
under fairness and no ENABLED; and the composition `Retransmit` where its theorems'
hypothesis ends.

## 5. Not modelled, and assumptions

- The memory of frames and texts, their reference counts and the double linked chains that
  hold them. As the code is wired a count is raised for each receiver and never lowered
  (`sendDataQueue` returns at `huage_net_manage.cpp:131`), so there is no life of a frame
  to model; heads and answers, which are given back, are in `TcpSend`.
- What a race inside `std::unordered_map` does to the map of rooms (`room.cpp:137`); the same
  kind of race in the map of connections is in `Connections`, with its outcomes.
- The models take the epoll loop that has the sockets to run. As the code is wired,
  it does not: `HuageServer::StartRun` starts the loop of an `HgIocp` of its own
  (`huage_server.cpp:28`), and the sockets are with another one, made by
  `HuageNetManage::Listen` (`huage_net_manage.cpp:221`), whose `StartRun` nobody calls
  and which has no pipe. So the way of buffers back to that thread (`writePipeFree`,
  `HgPipe`) has no state to model yet.
- In the pool: `malloc` failing, on which the code asserts. A pool has one owner in
  `Pool`; the pool of socket addresses has not, and is in `Connections`, as blocks that
  are counted, like `memoryDestroy`, as the end of a pool.
- Among the connections: connecting as a client (`Connect`), `hgConnSetFreeConn` and
  `hgConnDelBucket`, which nothing calls, and a worker that destroys a fd event while the
  io thread is inside `tcpRecvmsg` with it.
- In the room: samples themselves (their sum saturates), messages in audio frames,
  the frames' free list.
- In the receive stream: the way of the packets' buffers back to the epoll thread.
- `json.hpp`, `md5.c`, `adpcm-lib.c`, `g711.c`, `h264_stream.c`: vendored, or conversions of
  data without state; `json.hpp` alone is 22,091 of the repository's 30,893 lines, so the
  share of lines that models can cover is below a third.
- `cur*MaxSeq` of a connection is taken to start at 0: the connections are
  malloc'ed at start-up, before any other large block, and their memory is fresh.
- Events have parameters and fit in the ring (`ChannelAssumption`); an event
  longer than 4096 bytes would stop the channel for good. No event of the code is.

## 6. Plan

1. `SeqArith`, `RingBuf`, `Channel` refining `ChannelSpec`, proofs: done.
2. `RecvStream`, `SendStream`: done.
3. `Pool`, `PoolLinks`, proofs: done. `RoomMix`: done.
4. `TcpRecv`, `TcpSend`: done.
5. `Sessions`, `Connections`: done.
6. `RtpHeader`, proofs, `MediaStream`, `Retransmit`: done.
7. `ChannelNodes`: done.
8. `TransportProofs` (`TcpRecv`), `SendStreamProofs`, `RecvStreamProofs`, `RoomMixProofs`,
   `SessionsProofs`: done.
9. Proof of `NodesAgree` of `ChannelNodes`, in `ChannelProofs`: done.
10. Proof of `EventsApart`, `AnswersToAsker` and the rest of `Connections` for any number of
   workers and clients, in `ResourceProofs`: done.
11. Proof of the invariants of `Retransmit` and of its refinement of `MediaStream`, in
   `TransportProofs`: done.

The runs are few and broad on purpose: types are a part of a module's first invariant,
and a component that needs a run takes the place of the narrowest one.
