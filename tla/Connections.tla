----------------------------- MODULE Connections ------------------------------
(***************************************************************************)
(* Sockets, fd events and connections of the server (hgfdevent.cpp,        *)
(* huage_connect.cpp, the accepting, receiving and answering of            *)
(* huage_tcp_manage.cpp and huage_net_manage.cpp, asyncLogin of            *)
(* comm_consumer.cpp).                                                     *)
(*                                                                         *)
(* The io thread takes a fd event from a free list for every socket that   *)
(* it accepts and queues the frames that it reads, each with the fd event  *)
(* it came by, for the worker of its ssrc.  The worker gives the fd event  *)
(* a connection when its first frame comes, answers the login and puts the *)
(* connection in the map by which datagrams find theirs.  When a send      *)
(* fails the worker closes the socket and gives the fd event back, its     *)
(* memory with it, though frames that lie in that memory may be queued.    *)
(*                                                                         *)
(* Free list, map and address pool are used by several threads; only the   *)
(* list of connections is locked when it is popped, and the map when it is *)
(* written.  It is a step between two looks at what others may change.     *)
(* Every frame is a login: no other is answered (see Sessions).            *)
(***************************************************************************)
EXTENDS TcpSend, FiniteSets

CONSTANTS
  HG_WORKER_NUM,  \* number of workers
  Clients,        \* the clients, by their ssrc
  FdNum,          \* fd events made at the start
  hgConnNum,      \* connections made at the start
  MaxSockets,     \* bound: sockets accepted
  MaxRequests,    \* bound: frames sent over each socket
  MaxDatagrams,   \* bound: datagrams sent by each client
  MaxQueue,       \* bound: nothing is read while so many events are queued
  None            \* a null pointer

ASSUME ConnectionsAssumption ==
  /\ HG_WORKER_NUM \in Nat \ {0} /\ Clients \subseteq Nat \ {0}
  /\ FdNum \in Nat \ {0} /\ hgConnNum \in Nat \ {0}
  /\ MaxSockets \in Nat \ {0} /\ MaxQueue \in Nat \ {0}
  /\ MaxRequests \in [1..MaxSockets -> Nat] /\ MaxDatagrams \in [Clients -> Nat]
  /\ None \notin Nat

Workers == 0..HG_WORKER_NUM-1
getWorker(id) == id % HG_WORKER_NUM
io      == HG_WORKER_NUM               \* the io thread
Threads == Workers \cup {io}
FdEvs   == 1..FdNum
Conns   == 1..hgConnNum
Sockets == 1..MaxSockets               \* accepted sockets, in order
Fds     == 1..MaxSockets               \* the numbers the system gives them

VARIABLES
  owner,         \* the client of each socket accepted so far
  socket,        \* the socket a fd number stands for
  epoll,         \* the fd event a fd number is registered with
  fdchainfree,   \* the first free fd event
  fdev,          \* the fields of the fd events
  gone,          \* the fragCaches destroyed, each named by the socket it was made for
  hgConnFreePtr, \* the list of free connections
  conn,          \* the fields of the connections
  bucksmap,      \* the connection of a ssrc
  sockaddrPool,  \* the next free block
  addr,          \* what is in the blocks
  queue,         \* the channel of each worker; the event being handled is first
  pc, held,      \* where a thread is in its handler, and what it has read
  crashed,       \* why the program has crashed, if it has
  requests, datagrams,  \* sent over each socket, by each client
  wire,          \* history: who asked for what was sent over each socket
  heads,         \* history: per socket the heads not given back, less those it refused
  seen           \* history: what has gone out of step

net      == <<owner, socket, epoll>>
events   == <<fdchainfree, fdev, gone>>
bucket   == <<hgConnFreePtr, conn, bucksmap>>
address  == <<sockaddrPool, addr>>
clients  == <<requests, datagrams>>
sendings == <<wire, heads>>
connVars == <<net, events, bucket, address, queue, pc, held, crashed, clients, sendings, seen>>

NoFdEv == [fnext |-> None, fd |-> None, hgConn |-> None, isconnected |-> FALSE, pool |-> None]
NoConn == [ssrc |-> 0, tcpfd |-> None, sa |-> None]

\* fdEvChainInit and hgConnInit.
ConnInit ==
  /\ owner = <<>>
  /\ socket = [f \in Fds |-> None] /\ epoll = [f \in Fds |-> None]
  /\ fdchainfree = 1
  /\ fdev = [e \in FdEvs |-> [NoFdEv EXCEPT !.fnext = IF e < FdNum THEN e + 1 ELSE None]]
  /\ gone = {}
  /\ hgConnFreePtr = [i \in 1..hgConnNum |-> i]
  /\ conn = [c \in Conns |-> NoConn]
  /\ bucksmap = [ssrc \in Clients |-> None]
  /\ sockaddrPool = 0 /\ addr = <<>>
  /\ queue = [w \in Workers |-> <<>>]
  /\ pc = [t \in Threads |-> "next"] /\ held = [t \in Threads |-> None]
  /\ crashed = "no"
  /\ requests = [k \in Sockets |-> 0] /\ datagrams = [ssrc \in Clients |-> 0]
  /\ wire = [k \in Sockets |-> <<>>]
  /\ heads = [k \in Sockets |-> 0]
  /\ seen = {}

-----------------------------------------------------------------------------
Goto(t, place)     == pc' = [pc EXCEPT ![t] = place]
Keeps(t, what)     == held' = [held EXCEPT ![t] = what]
Queue(e, ssrc)     == [queue EXCEPT ![getWorker(ssrc)] = Append(@, e)]
Crash(why)         == crashed' = why

\* A socket is open, and what its reads use.
Open(f)   == socket[f] # None
OpenFds   == {f \in Fds : Open(f)}

\* The bound on what is read.
Reads == MapThenSumSet(LAMBDA w : Len(queue[w]), Workers) < MaxQueue

-----------------------------------------------------------------------------
(* The io thread                                                           *)

\* tcpAccept of a client, whose socket gets the lowest free number; and
\* getFreeFdEv as far as the list's first event is read ...
tcpAccept(ssrc) ==
  /\ crashed = "no" /\ pc[io] = "next" /\ Len(owner) < MaxSockets
  /\ IF fdchainfree = None
     THEN Crash("no fd event") /\ UNCHANGED <<net, pc, held>>
     ELSE LET f == Min({g \in Fds : ~Open(g)})
          IN  /\ owner' = Append(owner, ssrc)
              /\ socket' = [socket EXCEPT ![f] = Len(owner) + 1]
              /\ Keeps(io, [fd |-> f, ev |-> fdchainfree, socket |-> Len(owner) + 1]) /\ Goto(io, "pop")
              /\ UNCHANGED <<epoll, crashed>>
  /\ UNCHANGED <<events, bucket, address, queue, clients, sendings, seen>>

\* Mind that an event is in the list before its memory is destroyed.
Destroying(e) == \E w \in Workers : pc[w] = "destroy" /\ held[w] = e

\* ... the event is taken off the list ...
getFreeFdEv ==
  /\ crashed = "no" /\ pc[io] = "pop"
  /\ LET e == held[io].ev
     IN  /\ fdchainfree' = fdev[e].fnext
         /\ fdev' = [fdev EXCEPT ![e].fd = 0, ![e].hgConn = None, ![e].isconnected = FALSE]
         /\ seen' = IF fdchainfree = e /\ ~Destroying(e) THEN seen ELSE seen \cup {"race"}
  /\ Goto(io, "init")
  /\ UNCHANGED <<net, gone, bucket, address, queue, held, crashed, clients, sendings>>

\* ... and InitEvent sets it up.
InitEvent ==
  /\ crashed = "no" /\ pc[io] = "init"
  /\ LET f == held[io].fd
         e == held[io].ev
     IN  /\ fdev' = [fdev EXCEPT ![e].fd = f, ![e].isconnected = TRUE, ![e].pool = held[io].socket]
         /\ epoll' = IF Open(f) THEN [epoll EXCEPT ![f] = e] ELSE epoll
  /\ Goto(io, "next") /\ Keeps(io, None)
  /\ UNCHANGED <<owner, socket, fdchainfree, gone, bucket, address, queue, crashed, clients,
                 sendings, seen>>

\* tcpRecvmsg and RecvData: a frame is put in the event's memory and queued.
tcpRecvmsg(f) ==
  /\ crashed = "no" /\ pc[io] = "next" /\ Reads /\ Open(f) /\ epoll[f] # None
  /\ LET e == epoll[f]
         k == socket[f]
         p == fdev[e].pool
     IN  /\ fdev[e].fd = f /\ requests[k] < MaxRequests[k]
         /\ requests' = [requests EXCEPT ![k] = @ + 1]
         /\ queue' = Queue([kind |-> "frame", ev |-> e, pool |-> p, ssrc |-> owner[k], asker |-> k],
                           owner[k])
         /\ IF p \in gone
            THEN seen' = seen \cup {"late"} /\ (Crash("freed memory") \/ UNCHANGED crashed)
            ELSE UNCHANGED <<seen, crashed>>
  /\ UNCHANGED <<net, events, bucket, address, pc, held, datagrams, sendings>>

\* A client sends a datagram, early if no answer has come; udpRecvmsg queues it.
Answered(ssrc) == \E k \in 1..Len(owner) : owner[k] = ssrc /\ wire[k] # <<>>

udpRecvmsg(ssrc) ==
  /\ crashed = "no" /\ Reads /\ datagrams[ssrc] < MaxDatagrams[ssrc]
  /\ datagrams' = [datagrams EXCEPT ![ssrc] = @ + 1]
  /\ queue' = Queue([kind |-> "datagram", ssrc |-> ssrc], ssrc)
  /\ seen' = IF Answered(ssrc) THEN seen ELSE seen \cup {"early"}
  /\ UNCHANGED <<net, events, bucket, address, pc, held, crashed, requests, sendings>>

-----------------------------------------------------------------------------
(* The workers: a login                                                    *)

At(w, place, kind) ==
  /\ crashed = "no" /\ queue[w] # <<>> /\ pc[w] = place /\ Head(queue[w]).kind = kind

Event(w) == Head(queue[w])
Handled(w) == [queue EXCEPT ![w] = Tail(@)]
Return(w) == Goto(w, "next") /\ Keeps(w, None)

\* The ssrc that the worker reads in a frame: anybody's, if the memory it is
\* in was destroyed and may be in use for another client's frames.
Read(w) == IF Event(w).pool \in gone THEN Clients ELSE {Event(w).ssrc}

\* The connection of the frame's fd event; a new one, if it has none.
Given(w) == fdev[Event(w).ev].hgConn

\* Mutant of hgConnGetFreeConn: the connection stays in the list of free ones.
hgConnGetFreeConnNoPop(e, ssrc) ==
  /\ conn' = [conn EXCEPT ![Head(hgConnFreePtr)] = [ssrc |-> ssrc, tcpfd |-> e, sa |-> None]]
  /\ fdev' = [fdev EXCEPT ![e].hgConn = Head(hgConnFreePtr)]
  /\ UNCHANGED hgConnFreePtr

\* hgConnGetFreeConn, for an event and its ssrc.
hgConnGetFreeConn(e, ssrc) ==
  /\ hgConnFreePtr' = Tail(hgConnFreePtr)
  /\ conn' = [conn EXCEPT ![Head(hgConnFreePtr)] = [ssrc |-> ssrc, tcpfd |-> e, sa |-> None]]
  /\ fdev' = [fdev EXCEPT ![e].hgConn = Head(hgConnFreePtr)]

\* asyncLogin as far as its answer is queued.
Answer(w, c, ssrc) ==
  queue' = [queue EXCEPT ![getWorker(ssrc)] =
              Append(@, [kind |-> "answer", conn |-> c, asker |-> Event(w).asker])]

threadPOOLRecv(w) ==
  /\ At(w, "next", "frame")
  /\ \/ \E ssrc \in Read(w) :
          IF Given(w) # None
          THEN /\ Answer(w, Given(w), conn[Given(w)].ssrc)
               /\ Keeps(w, Given(w)) /\ Goto(w, "accept")
               /\ UNCHANGED <<hgConnFreePtr, conn, fdev, crashed>>
          ELSE IF hgConnFreePtr = <<>>
          THEN Crash("no connection") /\ UNCHANGED <<hgConnFreePtr, conn, fdev, queue, pc, held>>
          ELSE /\ hgConnGetFreeConn(Event(w).ev, ssrc)
               /\ Answer(w, Head(hgConnFreePtr), ssrc)
               /\ Keeps(w, Head(hgConnFreePtr)) /\ Goto(w, "accept")
               /\ UNCHANGED crashed
     \/ /\ Event(w).pool \in gone /\ Crash("freed memory")
        /\ UNCHANGED <<hgConnFreePtr, conn, fdev, queue, pc, held>>
  /\ seen' = IF Event(w).pool \in gone THEN seen \cup {"late"} ELSE seen
  /\ UNCHANGED <<net, fdchainfree, gone, bucksmap, address, clients, sendings>>

\* Mutant of Accept: the connection is not put in the map.
AcceptNoInsert(w) ==
  /\ At(w, "accept", "frame")
  /\ Return(w) /\ queue' = Handled(w)
  /\ UNCHANGED <<net, events, bucket, address, crashed, clients, sendings, seen>>

\* HgConnectBucket::Accept: the ssrc's first connection stays.  Who searches
\* the map meanwhile may find it torn.
Accept(w) ==
  /\ At(w, "accept", "frame")
  /\ LET ssrc == conn[held[w]].ssrc
     IN  IF bucksmap[ssrc] = None
         THEN /\ bucksmap' = [bucksmap EXCEPT ![ssrc] = held[w]]
              /\ pc' = [t \in Threads |-> CASE t = w -> "next"
                                            [] pc[t] = "find" -> "torn"
                                            [] OTHER -> pc[t]]
         ELSE Goto(w, "next") /\ UNCHANGED bucksmap
  /\ Keeps(w, None) /\ queue' = Handled(w)
  /\ UNCHANGED <<net, events, hgConnFreePtr, conn, address, crashed, clients, sendings, seen>>

-----------------------------------------------------------------------------
(* The workers: an answer                                                  *)

\* SendData0 took less than the head.
Refused(outcome) == outcome = Again \/ outcome \in 1..HeadLen-1

\* What became of the head of an answer over socket k.
Account(k, outcome) ==
  heads' = [heads EXCEPT ![k] = @ + (IF 1 \in GivenBack(outcome) THEN 0 ELSE 1)
                                  - (IF Refused(outcome) THEN 1 ELSE 0)]

\* Mutant of Forget: the connection keeps its fd event.
ForgetHalf(e) ==
  /\ fdev' = [fdev EXCEPT ![e].hgConn = None, ![e].fnext = fdchainfree]
  /\ UNCHANGED conn

\* A failed fd event and its connection forget each other.
Forget(e) ==
  /\ conn' = [conn EXCEPT ![fdev[e].hgConn].tcpfd = None]
  /\ fdev' = [fdev EXCEPT ![e].hgConn = None, ![e].fnext = fdchainfree]

\* sendDataQueue and SendData over the connection's fd event ...
sendDataQueue(w, outcome) ==
  /\ At(w, "next", "answer")
  /\ LET c == Event(w).conn
         e == conn[c].tcpfd
     IN  IF e = None THEN
              Crash("null fd event") /\ UNCHANGED <<net, fdev, conn, queue, pc, held, sendings>>
         ELSE IF ~fdev[e].isconnected THEN
              /\ queue' = Handled(w)
              /\ UNCHANGED <<net, fdev, conn, pc, held, crashed, sendings>>
         ELSE LET f == fdev[e].fd IN
              IF outcome # Error
              THEN \* the socket that has the number now
                   /\ Open(f)
                   /\ wire' = IF outcome = Again THEN wire
                              ELSE [wire EXCEPT ![socket[f]] = Append(@, Event(w).asker)]
                   /\ Account(socket[f], outcome)
                   /\ queue' = Handled(w)
                   /\ UNCHANGED <<net, fdev, conn, pc, held, crashed>>
              ELSE IF fdev[e].hgConn = None
              THEN Crash("null connection") /\ UNCHANGED <<net, fdev, conn, queue, pc, held, sendings>>
              ELSE \* closed; setFreeFdEv as far as the list's first event is read ...
                   /\ socket' = [socket EXCEPT ![f] = None]
                   /\ epoll' = [epoll EXCEPT ![f] = None]
                   /\ Forget(e)
                   /\ Keeps(w, e) /\ Goto(w, "push")
                   /\ UNCHANGED <<owner, queue, crashed, sendings>>
  /\ UNCHANGED <<fdchainfree, gone, hgConnFreePtr, bucksmap, address, clients, seen>>

\* ... the event is put before it ...
setFreeFdEv(w) ==
  /\ At(w, "push", "answer")
  /\ fdchainfree' = held[w]
  /\ seen' = IF fdev[held[w]].fnext = fdchainfree THEN seen ELSE seen \cup {"race"}
  /\ Goto(w, "destroy")
  /\ UNCHANGED <<net, fdev, gone, bucket, address, queue, held, crashed, clients, sendings>>

\* ... and the memory it has is destroyed: by now it may have another.
memoryDestroy(w) ==
  /\ At(w, "destroy", "answer")
  /\ LET p == fdev[held[w]].pool
     IN  IF p \in gone
         THEN Crash("freed memory") /\ UNCHANGED <<gone, queue, pc, held>>
         ELSE /\ gone' = gone \cup {p}
              /\ Return(w) /\ queue' = Handled(w)
              /\ UNCHANGED crashed
  /\ UNCHANGED <<net, fdchainfree, fdev, bucket, address, clients, sendings, seen>>

-----------------------------------------------------------------------------
(* The workers: a datagram                                                 *)

\* RecvStream's threadPOOLRecv as far as hgConnGetConnInBuck, which begins ...
hgConnGetConnInBuck(w) ==
  /\ At(w, "next", "datagram")
  /\ Goto(w, "find")
  /\ UNCHANGED <<net, events, bucket, address, queue, held, crashed, clients, sendings, seen>>

\* ... and ends; hgConnAttachAddr as far as memoryAlloc has chosen a block ...
ConnFound(w) ==
  /\ At(w, "find", "datagram") \/ At(w, "torn", "datagram")
  /\ \/ /\ bucksmap[Event(w).ssrc] # None
        /\ Keeps(w, [conn |-> bucksmap[Event(w).ssrc], block |-> sockaddrPool])
        /\ Goto(w, "attach")
        /\ UNCHANGED crashed
     \/ /\ bucksmap[Event(w).ssrc] = None \/ pc[w] = "torn"
        /\ Crash("unknown ssrc")
        /\ UNCHANGED <<pc, held>>
  /\ seen' = IF pc[w] = "torn" THEN seen \cup {"torn"} ELSE seen
  /\ UNCHANGED <<net, events, bucket, address, queue, clients, sendings>>

\* Mutant of hgConnAttachAddr: the pool does not go on to the next block.
AttachAddrNoAdvance(w) ==
  /\ At(w, "attach", "datagram")
  /\ LET b == held[w].block
     IN  /\ addr' = [i \in DOMAIN addr \cup {b} |-> IF i = b THEN Event(w).ssrc ELSE addr[i]]
         /\ conn' = [conn EXCEPT ![held[w].conn].sa = b]
  /\ Return(w) /\ queue' = Handled(w)
  /\ UNCHANGED <<net, events, hgConnFreePtr, bucksmap, sockaddrPool, crashed, clients, sendings, seen>>

\* ... and the rest.  Another may have chosen the same, and its count be lost.
hgConnAttachAddr(w) ==
  /\ At(w, "attach", "datagram")
  /\ LET b == held[w].block
     IN  /\ sockaddrPool' \in {b + 1, sockaddrPool + 1}
         /\ addr' = [i \in DOMAIN addr \cup {b} |-> IF i = b THEN Event(w).ssrc ELSE addr[i]]
         /\ conn' = [conn EXCEPT ![held[w].conn].sa = b]
         /\ seen' = IF b = sockaddrPool THEN seen ELSE seen \cup {"mixed"}
  /\ Return(w) /\ queue' = Handled(w)
  /\ UNCHANGED <<net, events, hgConnFreePtr, bucksmap, crashed, clients, sendings>>

-----------------------------------------------------------------------------
Handle(w) ==
  \/ threadPOOLRecv(w) \/ Accept(w)
  \/ \E outcome \in Outcomes : sendDataQueue(w, outcome)
  \/ setFreeFdEv(w) \/ memoryDestroy(w)
  \/ hgConnGetConnInBuck(w) \/ ConnFound(w) \/ hgConnAttachAddr(w)

ConnNext ==
  \/ \E ssrc \in Clients : tcpAccept(ssrc) \/ udpRecvmsg(ssrc)
  \/ getFreeFdEv \/ InitEvent
  \/ \E f \in Fds : tcpRecvmsg(f)
  \/ \E w \in Workers : Handle(w)

ConnSpec == ConnInit /\ [][ConnNext]_connVars

-----------------------------------------------------------------------------
(* Properties                                                              *)

FdEvFields == [fnext : FdEvs \cup {None}, fd : Fds \cup {0, None}, hgConn : Conns \cup {None},
               isconnected : BOOLEAN, pool : Sockets \cup {None}]
ConnFields == [ssrc : Clients \cup {0}, tcpfd : FdEvs \cup {None}, sa : Nat \cup {None}]

\* Types.
ConnTypeOK ==
  /\ owner \in Seq(Clients) /\ Len(owner) <= MaxSockets
  /\ socket \in [Fds -> Sockets \cup {None}] /\ epoll \in [Fds -> FdEvs \cup {None}]
  /\ fdchainfree \in FdEvs \cup {None}
  /\ fdev \in [FdEvs -> FdEvFields]
  /\ gone \subseteq Sockets
  /\ conn \in [Conns -> ConnFields]
  /\ bucksmap \in [Clients -> Conns \cup {None}]
  /\ sockaddrPool \in Nat /\ \A b \in DOMAIN addr : addr[b] \in Clients
  /\ seen \subseteq {"early", "late", "race", "torn", "mixed"}

\* Nothing has used memory that was destroyed, nor have two threads met in the
\* list of free fd events.
InOrder == seen \cap {"late", "race"} = {}

\* The free fd events, by their links.
FreeFdEvs ==
  LET reach[n \in 0..FdNum] ==
        IF n = 0 THEN {fdchainfree} \ {None}
        ELSE reach[n-1] \cup ({fdev[e].fnext : e \in reach[n-1]} \ {None})
  IN  reach[FdNum]

\* As long as nothing is out of step: two sockets never share a fd event, none
\* of an open socket is free, and an event and its connection point to each
\* other, however the accepting and the failing of sockets interleave; types
\* included.
EventsApart ==
  /\ ConnTypeOK
  /\ InOrder =>
       /\ \A f, g \in OpenFds : f # g /\ epoll[f] # None => epoll[f] # epoll[g]
       /\ \A f \in OpenFds : epoll[f] # None => epoll[f] \notin FreeFdEvs
       /\ \A c \in Conns : conn[c].tcpfd # None => fdev[conn[c].tcpfd].hgConn = c
       /\ \A e \in FdEvs : fdev[e].hgConn # None => conn[fdev[e].hgConn].tcpfd = e
       /\ \A c \in Conns : c \in ToSet(hgConnFreePtr) <=> conn[c].ssrc = 0
       /\ \A ssrc \in Clients : bucksmap[ssrc] # None => conn[bucksmap[ssrc]].ssrc = ssrc

\* An answer is sent to him who asked, on the socket by which he asked, though
\* sockets fail meanwhile and their numbers and fd events are used again: it
\* goes astray only if a frame was handled after its memory was destroyed, or
\* the list of fd events was torn.
AnswersToAsker ==
  InOrder => \A k \in Sockets : \A i \in 1..Len(wire[k]) : wire[k][i] = k

\* The head of an answer is given back but when the socket did not take it.
HeadsGivenBack == \A k \in Sockets : heads[k] = 0

\* A connection's address is in a block of its own and its client's, unless
\* two threads chose a block at once.
AddressOwn ==
  "mixed" \notin seen =>
    /\ \A b \in DOMAIN addr : b < sockaddrPool
    /\ \A c \in Conns : conn[c].sa # None => addr[conn[c].sa] = conn[c].ssrc

\* A socket has been closed.
Closed(k) == k \notin {socket[f] : f \in Fds}

\* The fd events on the way back to the list.
Returning == {held[w] : w \in {x \in Workers : pc[x] = "push"}}

\* What crashes the program: more sockets or more connections than there
\* are; a datagram of a client who has not waited for an answer to his login;
\* a second answer to one whose socket failed in the first; and what is out
\* of step.  Nothing else does.
CrashOnlyIfDue ==
  InOrder =>
    CASE crashed = "no fd event"     -> Cardinality(OpenFds) + Cardinality(Returning) = FdNum
      [] crashed = "no connection"   ->
           Cardinality({k \in Sockets : requests[k] > 0}) > hgConnNum
      [] crashed = "unknown ssrc"    -> seen \cap {"early", "torn"} # {}
      [] crashed = "null fd event"   ->
           \E w \in Workers : queue[w] # <<>> /\ Event(w).kind = "answer" /\ Closed(Event(w).asker)
      [] OTHER -> crashed = "no"
=============================================================================
