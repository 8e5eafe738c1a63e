--------------------------- MODULE SessionsProofs ----------------------------
(***************************************************************************)
(* Who holds which session, and where his audio and video go, for any      *)
(* number of workers, connections, rooms and sessions and any interleaving *)
(* of the workers: no session is lost, and as long as nobody shares one,   *)
(* audio comes to the room it was meant for, in order, video to nobody     *)
(* else, and no null room is used unless audio came too early.             *)
(***************************************************************************)
EXTENDS Sessions, FiniteSetTheorems, SequenceTheorems, TLAPS

-----------------------------------------------------------------------------
(* The invariant.                                                          *)

AudioEvents == [kind : {"audio"}, conn : Conns, wants : RoomIds \cup {None}, n : Nat]
ClientEvents ==
  [kind : {"login", "video"}, conn : Conns] \cup
  [kind : {"createenterroom"}, conn : Conns, roomid : RoomIds] \cup
  AudioEvents
WorkerEvents ==
  [kind : {"workHanLogin"}, sess : Sess, ssrc : Conns] \cup
  [kind : {"HandleCreEnterRoo"}, sess : Sess, roomid : RoomIds, conn : Conns] \cup
  [kind : {"RoomMergeData"}, room : RoomIds, frame : AudioEvents]
Events == ClientEvents \cup WorkerEvents

\* The events in the channel of a worker.
Waiting(w) == {queue[w][i] : i \in 1..Len(queue[w])}

\* A client's events wait for the worker of his ssrc.
Queues ==
  /\ queue \in [Workers -> Seq(Events)]
  /\ \A w \in Workers : \A e \in Waiting(w) : e \in ClientEvents => getWorker(e.conn) = w
  /\ sent \in [Conns -> Nat] /\ wants \in [Conns -> RoomIds \cup {None}]

\* Where worker w can be, by the event it is handling.
LoggingIn(w) == pc[w] \in {"reset", "push", "login"}
HandlingOf(w) ==
  /\ pc[w] # "next" => queue[w] # <<>>
  /\ LoggingIn(w) =>
       Event(w).kind = "login" /\ sessPtr[Event(w).conn] # None /\ data[Event(w).conn] = None
  /\ pc[w] = "post" => Event(w).kind = "createenterroom"
  /\ pc[w] = "enter" => Event(w).kind = "HandleCreEnterRoo" /\ Event(w).roomid \in rooms
  /\ pc[w] = "gate" => Event(w).kind = "audio" /\ data[Event(w).conn] # None
Handling == \A w \in Workers : HandlingOf(w)

\* A connection is given a session once, at its first login.
GivenOnce ==
  \A c \in Conns :
    /\ data[c] # None => data[c] = sessPtr[c]
    /\ sessPtr[c] # None /\ data[c] = None =>
         LoggingIn(getWorker(c)) /\ Event(getWorker(c)).conn = c

\* Every session is in the free list once, or held.
Free ==
  /\ \A i, j \in 1..Len(sessFreePtr) : i # j => sessFreePtr[i] # sessFreePtr[j]
  /\ ToSet(sessFreePtr) \cup Held = Sess
  /\ ToSet(sessFreePtr) \cap Held = {}

\* Two workers that have taken sessions off the list have taken different ones.
HeldApart ==
  \A v, w \in Workers :
    v # w /\ {pc[v], pc[w]} \subseteq {"reset", "push"} =>
      sessPtr[Event(v).conn] # sessPtr[Event(w).conn]

\* The room of the session of a connection, 0 before it has one.
RoomOf(c) == IF data[c] = None THEN 0 ELSE sess[data[c]].roomid

\* A session, while it is one connection's, is as its owner made it.
Owned ==
  /\ \A c \in Conns : data[c] # None => LoggedIn(data[c]) /\ sess[data[c]].ssrc = c
  /\ \A w \in Workers : \A e \in Waiting(w) :
       e.kind = "HandleCreEnterRoo" => data[e.conn] = e.sess
  /\ \A c \in entered : data[c] # None /\ sess[data[c]].rroom # None
  /\ \A w \in Workers :
       /\ pc[w] \in {"push", "login"} => sess[sessPtr[Event(w).conn]].roomid = 0
       /\ pc[w] = "post" => RoomOf(Event(w).conn) = Event(w).roomid
       /\ pc[w] = "gate" /\ ~early => room[w] # None
  /\ crashed => early

\* Audio waiting was sent by one who had entered, unless some was sent early.
InTime ==
  ~early => \A w \in Workers : \A e \in Waiting(w) : e.kind = "audio" => e.conn \in entered

\* c's request for a room at place j of his worker's channel.
Asks(c, j) ==
  LET q == queue[getWorker(c)] IN q[j].kind = "createenterroom" /\ q[j].conn = c

\* r is the room that c asked for last, before place i of his worker's channel:
\* the request waits there, or it has been handled.
AskedFor(c, i, r) ==
  \/ \E j \in 1..i-1 :
       /\ Asks(c, j) /\ queue[getWorker(c)][j].roomid = r
       /\ \A k \in j+1..i-1 : ~Asks(c, k)
  \/ RoomOf(c) \in {0, r} /\ \A k \in 1..i-1 : ~Asks(c, k)

RightRoom ==
  /\ \A c \in Conns : AskedFor(c, Len(queue[getWorker(c)]) + 1, wants[c])
  /\ \A w \in Workers : \A i \in 1..Len(queue[w]) :
       queue[w][i].kind = "audio" => AskedFor(queue[w][i].conn, i, queue[w][i].wants)
  /\ \A w \in Workers : \A e \in Waiting(w) :
       e.kind = "RoomMergeData" => e.room = e.frame.wants
  /\ \A i \in 1..Len(merged) : merged[i].room = merged[i].frame.wants
  /\ \A f \in forwarded : f.from = f.to

\* Of two events of a channel, the second is of a later frame.
Later(e, f) ==
  /\ e.kind = "audio" /\ f.kind = "audio" /\ e.conn = f.conn => e.n < f.n
  /\ e.kind = "RoomMergeData" /\ f.kind = "RoomMergeData"
     /\ e.room = f.room /\ e.frame.conn = f.frame.conn => e.frame.n < f.frame.n

\* Frames stay in the order in which they were sent, on their way through two channels.
InOrder ==
  /\ merged \in Seq([room : RoomIds, frame : AudioEvents])
  /\ \A w \in Workers : \A j \in 1..Len(queue[w]) : \A i \in 1..j-1 : Later(queue[w][i], queue[w][j])
  /\ \A w \in Workers : \A e \in Waiting(w) :
       /\ e.kind = "audio" => e.n < sent[e.conn]
       /\ e.kind = "RoomMergeData" =>
            /\ w = getWorker(e.room)
            /\ e.frame.n < sent[e.frame.conn]
            /\ \A v \in Workers : \A f \in Waiting(v) :
                 f.kind = "audio" /\ f.conn = e.frame.conn => e.frame.n < f.n
  /\ \A i \in 1..Len(merged) :
       LET m == merged[i] IN
       /\ m.frame.n < sent[m.frame.conn]
       /\ \A w \in Workers : \A e \in Waiting(w) :
            /\ e.kind = "audio" /\ e.conn = m.frame.conn => m.frame.n < e.n
            /\ e.kind = "RoomMergeData" /\ e.room = m.room /\ e.frame.conn = m.frame.conn =>
                 m.frame.n < e.frame.n
  /\ \A j \in 1..Len(merged) : \A i \in 1..j-1 :
       merged[i].room = merged[j].room /\ merged[i].frame.conn = merged[j].frame.conn
         => merged[i].frame.n < merged[j].frame.n

IInv ==
  /\ TypeOK /\ Free /\ Queues /\ Handling /\ GivenOnce /\ HeldApart
  /\ InTime /\ InOrder
  /\ ~Shared => Owned /\ RightRoom

-----------------------------------------------------------------------------
(* What a step does to the channels.                                       *)

LEMMA WorkerIs ==
  /\ HG_WORKER_NUM \in Nat \ {0}
  /\ \A c \in Conns \cup RoomIds : getWorker(c) \in Workers /\ c # 0 /\ c # None
  /\ None \notin Sess /\ SessNum \in Nat
BY SessionsAssumption DEF getWorker, Workers, Sess

Shift(W, v) == IF v \in W THEN 1 ELSE 0

\* The workers of W have taken the first events of their channels, and the
\* events of N have been written, at most one to each channel.
QueueStep(W, N) ==
  /\ queue' \in [Workers -> Seq(Events)]
  /\ \A v \in Workers :
       /\ v \in W => queue[v] # <<>>
       /\ Len(queue'[v]) \in {Len(queue[v]) - Shift(W, v), Len(queue[v]) - Shift(W, v) + 1}
       /\ \A i \in 1..Len(queue'[v]) :
            IF i + Shift(W, v) <= Len(queue[v])
            THEN queue'[v][i] = queue[v][i + Shift(W, v)]
            ELSE <<v, queue'[v][i]>> \in N

LEMMA QueueTypes ==
  ASSUME Queues, NEW v \in Workers
  PROVE  /\ queue[v] \in Seq(Events) /\ Len(queue[v]) \in Nat
         /\ \A i \in 1..Len(queue[v]) : queue[v][i] \in Events
         /\ queue[v] # <<>> => Len(queue[v]) > 0 /\ Head(queue[v]) = queue[v][1]
                               /\ Event(v) = queue[v][1] /\ Event(v) \in Waiting(v)
         /\ Waiting(v) \subseteq Events
<1>1. queue[v] \in Seq(Events)
  BY DEF Queues
<1>2. Len(queue[v]) \in Nat /\ \A i \in 1..Len(queue[v]) : queue[v][i] \in Events
  BY <1>1, LenProperties, ElementOfSeq
<1>3. queue[v] # <<>> => Len(queue[v]) > 0
  BY <1>1, EmptySeq
<1>4. queue[v] # <<>> => Head(queue[v]) = queue[v][1] /\ 1 \in 1..Len(queue[v])
  BY <1>1, <1>2, <1>3
<1> QED BY <1>1, <1>2, <1>3, <1>4 DEF Event, Waiting

LEMMA Stays == ASSUME Queues, UNCHANGED queue PROVE QueueStep({}, {})
<1>1. \A v \in Workers : Len(queue[v]) \in Nat
  BY QueueTypes
<1> QED BY <1>1 DEF QueueStep, Shift, Queues

LEMMA Adds ==
  ASSUME Queues, NEW u \in Workers, NEW e \in Events,
         queue' = [queue EXCEPT ![u] = Append(@, e)]
  PROVE  QueueStep({}, {<<u, e>>})
<1>1. queue \in [Workers -> Seq(Events)]
  BY DEF Queues
<1>2. /\ Append(queue[u], e) \in Seq(Events) /\ Len(Append(queue[u], e)) = Len(queue[u]) + 1
      /\ \A i \in 1..Len(queue[u]) : Append(queue[u], e)[i] = queue[u][i]
      /\ Append(queue[u], e)[Len(queue[u])+1] = e
  BY <1>1, AppendProperties
<1>3. queue'[u] = Append(queue[u], e) /\ \A v \in Workers \ {u} : queue'[v] = queue[v]
  BY <1>1
<1>4. \A v \in Workers : Len(queue[v]) \in Nat
  BY QueueTypes
<1>5. queue' \in [Workers -> Seq(Events)]
  BY <1>1, <1>2
<1> QED BY <1>2, <1>3, <1>4, <1>5 DEF QueueStep, Shift

LEMMA Takes ==
  ASSUME Queues, NEW w \in Workers, queue[w] # <<>>, queue' = Taken(w)
  PROVE  QueueStep({w}, {})
<1>1. queue \in [Workers -> Seq(Events)]
  BY DEF Queues
<1>2. /\ Tail(queue[w]) \in Seq(Events) /\ Len(Tail(queue[w])) = Len(queue[w]) - 1
      /\ \A i \in 1..Len(Tail(queue[w])) : Tail(queue[w])[i] = queue[w][i+1]
  BY <1>1, HeadTailProperties
<1>3. queue'[w] = Tail(queue[w]) /\ \A v \in Workers \ {w} : queue'[v] = queue[v]
  BY <1>1 DEF Taken
<1>4. \A v \in Workers : Len(queue[v]) \in Nat
  BY QueueTypes
<1>5. queue' \in [Workers -> Seq(Events)]
  BY <1>1, <1>2 DEF Taken
<1>6. ASSUME NEW v \in Workers
      PROVE  /\ v \in {w} => queue[v] # <<>>
             /\ Len(queue'[v]) = Len(queue[v]) - Shift({w}, v)
             /\ \A i \in 1..Len(queue'[v]) : i + Shift({w}, v) <= Len(queue[v])
                                             /\ queue'[v][i] = queue[v][i + Shift({w}, v)]
  <2>1. CASE v = w
    <3>1. Shift({w}, v) = 1
      BY <2>1 DEF Shift
    <3>2. \A i \in 1..Len(queue[w])-1 : i + 1 <= Len(queue[w])
      BY <1>4
    <3> QED BY <1>2, <1>3, <2>1, <3>1, <3>2
  <2>2. CASE v # w
    <3>1. Shift({w}, v) = 0
      BY <2>2 DEF Shift
    <3>2. \A i \in 1..Len(queue[v]) : i + 0 = i /\ i + 0 <= Len(queue[v])
      BY <1>4
    <3>3. Len(queue[v]) - 0 = Len(queue[v])
      BY <1>4
    <3> QED BY <1>3, <2>2, <3>1, <3>2, <3>3
  <2> QED BY <2>1, <2>2
<1> QED BY <1>5, <1>6 DEF QueueStep

LEMMA Moves ==
  ASSUME Queues, NEW w \in Workers, queue[w] # <<>>, NEW u \in Workers, NEW e \in Events,
         queue' = [Taken(w) EXCEPT ![u] = Append(@, e)]
  PROVE  QueueStep({w}, {<<u, e>>})
<1>1. queue \in [Workers -> Seq(Events)]
  BY DEF Queues
<1> DEFINE t == Taken(w)
<1>2. /\ Tail(queue[w]) \in Seq(Events) /\ Len(Tail(queue[w])) = Len(queue[w]) - 1
      /\ \A i \in 1..Len(Tail(queue[w])) : Tail(queue[w])[i] = queue[w][i+1]
  BY <1>1, HeadTailProperties
<1>3. t[w] = Tail(queue[w]) /\ t \in [Workers -> Seq(Events)]
      /\ \A v \in Workers \ {w} : t[v] = queue[v]
  BY <1>1, <1>2 DEF Taken
<1>4. \A v \in Workers : Len(queue[v]) \in Nat
  BY QueueTypes
<1> HIDE DEF t
<1>5. /\ Append(t[u], e) \in Seq(Events) /\ Len(Append(t[u], e)) = Len(t[u]) + 1
      /\ \A i \in 1..Len(t[u]) : Append(t[u], e)[i] = t[u][i]
      /\ Append(t[u], e)[Len(t[u])+1] = e
  BY <1>3, AppendProperties
<1>6. queue'[u] = Append(t[u], e) /\ \A v \in Workers \ {u} : queue'[v] = t[v]
  BY <1>3 DEF t
<1>7. queue' \in [Workers -> Seq(Events)]
  BY <1>3, <1>5 DEF t
<1>8. ASSUME NEW v \in Workers
      PROVE  Len(t[v]) = Len(queue[v]) - Shift({w}, v)
             /\ \A i \in 1..Len(t[v]) : i + Shift({w}, v) <= Len(queue[v])
                                        /\ t[v][i] = queue[v][i + Shift({w}, v)]
  <2>1. CASE v = w
    <3>1. Shift({w}, v) = 1
      BY <2>1 DEF Shift
    <3>2. \A i \in 1..Len(queue[w])-1 : i + 1 <= Len(queue[w])
      BY <1>4
    <3> QED BY <1>2, <1>3, <2>1, <3>1, <3>2
  <2>2. CASE v # w
    <3>1. Shift({w}, v) = 0
      BY <2>2 DEF Shift
    <3>2. \A i \in 1..Len(queue[v]) : i + 0 = i /\ i + 0 <= Len(queue[v])
      BY <1>4
    <3>3. Len(queue[v]) - 0 = Len(queue[v])
      BY <1>4
    <3> QED BY <1>3, <2>2, <3>1, <3>2, <3>3
  <2> QED BY <2>1, <2>2
<1>9. ASSUME NEW v \in Workers
      PROVE  Len(queue'[v]) \in {Len(queue[v]) - Shift({w}, v), Len(queue[v]) - Shift({w}, v) + 1}
  <2>1. CASE v = u
    BY <1>5, <1>6, <1>8, <2>1
  <2>2. CASE v # u
    BY <1>6, <1>8, <2>2
  <2> QED BY <2>1, <2>2
<1>10. ASSUME NEW v \in Workers, NEW i \in 1..Len(queue'[v])
       PROVE  IF i + Shift({w}, v) <= Len(queue[v])
              THEN queue'[v][i] = queue[v][i + Shift({w}, v)]
              ELSE <<v, queue'[v][i]>> \in {<<u, e>>}
  <2>1. CASE v # u
    BY <1>6, <1>8, <2>1
  <2>2. CASE v = u
    <3>1. Len(t[u]) \in Nat /\ Len(queue'[u]) = Len(t[u]) + 1
      BY <1>3, <1>5, <1>6, LenProperties
    <3>2. CASE i \in 1..Len(t[u])
      <4>1. queue'[u][i] = t[u][i]
        BY <1>5, <1>6, <3>2
      <4>2. i + Shift({w}, u) <= Len(queue[u]) /\ t[u][i] = queue[u][i + Shift({w}, u)]
        BY <1>8, <3>2
      <4> QED BY <2>2, <4>1, <4>2
    <3>3. CASE i = Len(t[u]) + 1
      <4>1. ~(i + Shift({w}, u) <= Len(queue[u]))
        <5>1. Len(t[u]) = Len(queue[u]) - Shift({w}, u)
          BY <1>8
        <5>2. Len(queue[u]) \in Nat /\ Shift({w}, u) \in Nat
          BY <1>4 DEF Shift
        <5> QED BY <3>3, <5>1, <5>2
      <4> QED BY <1>5, <1>6, <2>2, <3>3, <4>1
    <3> QED BY <2>2, <3>1, <3>2, <3>3
  <2> QED BY <2>1, <2>2
<1> QED BY <1>7, <1>9, <1>10 DEF QueueStep

\* No event waits that did not, but for the new ones.
LEMMA StepWaiting ==
  ASSUME Queues, NEW W, NEW N, QueueStep(W, N), NEW v \in Workers, NEW e \in Waiting(v)'
  PROVE  e \in Events /\ (e \in Waiting(v) \/ <<v, e>> \in N)
<1>1. PICK i \in 1..Len(queue'[v]) : e = queue'[v][i]
  BY DEF Waiting
<1>2. queue'[v] \in Seq(Events) /\ Len(queue[v]) \in Nat
  BY QueueTypes DEF QueueStep
<1>3. e \in Events /\ Len(queue'[v]) \in Nat
  BY <1>1, <1>2, ElementOfSeq, LenProperties
<1>4. CASE i + Shift(W, v) <= Len(queue[v])
  <2>1. i + Shift(W, v) \in 1..Len(queue[v])
    BY <1>2, <1>3, <1>4 DEF Shift
  <2> QED BY <1>1, <1>3, <1>4, <2>1 DEF QueueStep, Waiting
<1>5. CASE ~(i + Shift(W, v) <= Len(queue[v]))
  BY <1>1, <1>3, <1>5 DEF QueueStep
<1> QED BY <1>4, <1>5

\* An event being handled stays first until it has been.
LEMMA StepHead ==
  ASSUME Queues, NEW W, NEW N, QueueStep(W, N), NEW v \in Workers, v \notin W, queue[v] # <<>>
  PROVE  queue'[v] # <<>> /\ Event(v)' = Event(v)
<1>1. queue'[v] \in Seq(Events) /\ Len(queue[v]) \in Nat /\ Len(queue[v]) > 0
      /\ Event(v) = queue[v][1]
  BY QueueTypes DEF QueueStep
<1>2. Shift(W, v) = 0
  BY DEF Shift
<1>3. Len(queue'[v]) \in Nat /\ Len(queue'[v]) > 0
  BY <1>1, <1>2, LenProperties DEF QueueStep
<1>4. queue'[v][1] = queue[v][1]
  <2>1. 1 \in 1..Len(queue'[v]) /\ 1 + Shift(W, v) <= Len(queue[v]) /\ 1 + Shift(W, v) = 1
    BY <1>1, <1>2, <1>3
  <2> QED BY <2>1 DEF QueueStep
<1>5. queue'[v] # <<>> /\ Head(queue'[v]) = queue'[v][1]
  BY <1>1, <1>3
<1> QED BY <1>1, <1>4, <1>5 DEF Event

-----------------------------------------------------------------------------
(* The sessions that are free and those that are held.                     *)

\* What the first event of a channel is, by its kind.
LEMMA HeadIs ==
  ASSUME IInv, NEW v \in Workers, queue[v] # <<>>
  PROVE  LET e == Event(v) IN
         /\ e \in Events /\ e \in Waiting(v)
         /\ e.kind \in {"login", "createenterroom", "audio", "video"} =>
              e \in ClientEvents /\ e.conn \in Conns /\ getWorker(e.conn) = v
         /\ e.kind = "createenterroom" => e.roomid \in RoomIds
         /\ e.kind = "audio" => e \in AudioEvents
         /\ e.kind = "workHanLogin" => e.sess \in Sess /\ e.ssrc \in Conns
         /\ e.kind = "HandleCreEnterRoo" => e.sess \in Sess /\ e.roomid \in RoomIds /\ e.conn \in Conns
         /\ e.kind = "RoomMergeData" => e.room \in RoomIds /\ e.frame \in AudioEvents
<1>1. Event(v) \in Events /\ Event(v) \in Waiting(v)
  BY QueueTypes DEF IInv
<1>2. Event(v) \in ClientEvents => getWorker(Event(v).conn) = v
  BY <1>1 DEF IInv, Queues
<1> HIDE DEF IInv
<1> QED BY <1>1, <1>2 DEF Events, ClientEvents, WorkerEvents, AudioEvents

\* A worker that is logging a connection in has a session for it.
LEMMA LoginIs ==
  ASSUME IInv, NEW v \in Workers, LoggingIn(v)
  PROVE  /\ queue[v] # <<>> /\ Event(v).kind = "login"
         /\ Event(v).conn \in Conns /\ getWorker(Event(v).conn) = v
         /\ sessPtr[Event(v).conn] \in Sess /\ data[Event(v).conn] = None
<1>1. queue[v] # <<>> /\ Event(v).kind = "login"
      /\ sessPtr[Event(v).conn] # None /\ data[Event(v).conn] = None
  BY DEF IInv, Handling, HandlingOf, LoggingIn
<1>2. Event(v).conn \in Conns /\ getWorker(Event(v).conn) = v
  BY <1>1, HeadIs
<1> QED BY <1>1, <1>2 DEF IInv, TypeOK

\* Who holds goes on holding.
LEMMA HoldStays ==
  ASSUME IInv, UNCHANGED <<sessFreePtr, sessPtr>>,
         \A v \in Workers :
           /\ pc'[v] \in {"reset", "push"} <=> pc[v] \in {"reset", "push"}
           /\ pc[v] \in {"reset", "push"} => queue'[v] # <<>> /\ Event(v)' = Event(v)
  PROVE  Free' /\ HeldApart'
<1>1. \A v \in Workers : pc[v] \in {"reset", "push"} => queue[v] # <<>>
  BY LoginIs DEF LoggingIn
<1>2. Held' = Held
  BY <1>1 DEF Held
<1>3. Free'
  BY <1>2 DEF IInv, Free, ToSet
<1>4. HeldApart'
  <2> SUFFICES ASSUME NEW v \in Workers, NEW w \in Workers, v # w,
                      pc'[v] \in {"reset", "push"}, pc'[w] \in {"reset", "push"}
               PROVE  sessPtr'[Event(v)'.conn] # sessPtr'[Event(w)'.conn]
    BY DEF HeldApart
  <2>1. sessPtr[Event(v).conn] # sessPtr[Event(w).conn]
    BY DEF IInv, HeldApart
  <2> QED BY <2>1
<1> QED BY <1>3, <1>4

\* A step of no login disturbs none.
LEMMA LoginsStay ==
  ASSUME IInv, UNCHANGED lists, NEW W, NEW N, QueueStep(W, N),
         \A v \in Workers : LoggingIn(v) \/ LoggingIn(v)' => v \notin W /\ pc'[v] = pc[v]
  PROVE  Free' /\ HeldApart' /\ GivenOnce'
<1>1. UNCHANGED <<sessFreePtr, sessPtr, data>>
  BY DEF lists
<1>2. ASSUME NEW v \in Workers, LoggingIn(v)
      PROVE  queue'[v] # <<>> /\ Event(v)' = Event(v) /\ LoggingIn(v)' /\ v \notin W
  <2>1. queue[v] # <<>> /\ v \notin W /\ pc'[v] = pc[v]
    BY <1>2, LoginIs
  <2> QED BY <1>2, <2>1, StepHead DEF IInv, LoggingIn
<1>3. \A v \in Workers :
        /\ pc'[v] \in {"reset", "push"} <=> pc[v] \in {"reset", "push"}
        /\ pc[v] \in {"reset", "push"} => queue'[v] # <<>> /\ Event(v)' = Event(v)
  BY <1>2 DEF LoggingIn
<1>4. Free' /\ HeldApart'
  BY <1>1, <1>3, HoldStays
<1>5. GivenOnce'
  BY <1>1, <1>2, WorkerIs DEF IInv, GivenOnce
<1> QED BY <1>4, <1>5

\* What the other workers are at stays as it was.
LEMMA OthersHandle ==
  ASSUME IInv, NEW W, NEW N, QueueStep(W, N), NEW v \in Workers, v \notin W, pc'[v] = pc[v],
         rooms \subseteq rooms', \A c \in Conns : data[c] # None => data'[c] # None,
         LoggingIn(v) => sessPtr'[Event(v).conn] = sessPtr[Event(v).conn]
                         /\ data'[Event(v).conn] = data[Event(v).conn]
  PROVE  HandlingOf(v)'
<1>1. HandlingOf(v)
  BY DEF IInv, Handling
<1>2. pc[v] # "next" => queue'[v] # <<>> /\ Event(v)' = Event(v)
  BY <1>1, StepHead DEF IInv, HandlingOf
<1>3. pc[v] = "gate" => Event(v).conn \in Conns
  BY <1>1, HeadIs DEF HandlingOf
<1>4. LoggingIn(v) => pc[v] # "next"
  BY DEF LoggingIn
<1>5. LoggingIn(v)' <=> LoggingIn(v)
  BY DEF LoggingIn
<1>6. LoggingIn(v)' =>
        Event(v)'.kind = "login" /\ sessPtr'[Event(v)'.conn] # None /\ data'[Event(v)'.conn] = None
  BY <1>1, <1>2, <1>4, <1>5 DEF HandlingOf
<1>7. /\ pc'[v] # "next" => queue'[v] # <<>>
      /\ pc'[v] = "post" => Event(v)'.kind = "createenterroom"
      /\ pc'[v] = "enter" => Event(v)'.kind = "HandleCreEnterRoo" /\ Event(v)'.roomid \in rooms'
      /\ pc'[v] = "gate" => Event(v)'.kind = "audio" /\ data'[Event(v)'.conn] # None
  BY <1>1, <1>2, <1>3 DEF HandlingOf
<1> QED BY <1>6, <1>7 DEF HandlingOf

-----------------------------------------------------------------------------
(* What a step keeps when it writes no media, moves nobody to another room *)
(* and logs nobody in.                                                     *)

\* New events and clients' counts of the right type.
LEMMA QueuesStep ==
  ASSUME IInv, NEW W, NEW N, QueueStep(W, N),
         \A v \in Workers, e \in Events : <<v, e>> \in N /\ e \in ClientEvents => getWorker(e.conn) = v,
         sent' \in [Conns -> Nat], wants' \in [Conns -> RoomIds \cup {None}]
  PROVE  Queues'
<1>1. ASSUME NEW v \in Workers, NEW e \in Waiting(v)', e \in ClientEvents
      PROVE  getWorker(e.conn) = v
  <2>1. e \in Events /\ (e \in Waiting(v) \/ <<v, e>> \in N)
    BY StepWaiting DEF IInv
  <2> QED BY <1>1, <2>1 DEF IInv, Queues
<1> QED BY <1>1 DEF Queues, QueueStep

LEMMA WorkerEventIs ==
  ASSUME NEW e \in WorkerEvents
  PROVE  e \in Events /\ e \notin ClientEvents
         /\ e.kind \in {"workHanLogin", "HandleCreEnterRoo", "RoomMergeData"}
BY DEF Events, WorkerEvents, ClientEvents, AudioEvents

\* A worker's step that is not part of a login.
LEMMA QuietWorker ==
  ASSUME IInv, NEW w \in Workers, NEW W \in SUBSET {w}, NEW N, QueueStep(W, N),
         \A v \in Workers, e \in Events : <<v, e>> \in N => e \in WorkerEvents,
         \A v \in Workers \ {w} : pc'[v] = pc[v],
         UNCHANGED <<lists, sent, wants>>, rooms \subseteq rooms',
         ~LoggingIn(w), ~LoggingIn(w)', HandlingOf(w)'
  PROVE  Free' /\ HeldApart' /\ GivenOnce' /\ Handling' /\ Queues'
<1>1. \A v \in Workers : LoggingIn(v) \/ LoggingIn(v)' => v \notin W /\ pc'[v] = pc[v]
  OBVIOUS
<1>2. Free' /\ HeldApart' /\ GivenOnce'
  BY <1>1, LoginsStay
<1>3. ASSUME NEW v \in Workers, v # w PROVE HandlingOf(v)'
  <2>1. UNCHANGED <<sessPtr, data>> /\ v \notin W /\ pc'[v] = pc[v]
    BY <1>3 DEF lists
  <2> QED BY <2>1, OthersHandle
<1>4. Handling'
  BY <1>3 DEF Handling
<1>5. sent' \in [Conns -> Nat] /\ wants' \in [Conns -> RoomIds \cup {None}]
  BY DEF IInv, Queues
<1>6. Queues'
  BY <1>5, QueuesStep, WorkerEventIs
<1> QED BY <1>2, <1>4, <1>6

LEMMA QuietTime ==
  ASSUME IInv, NEW W, NEW N, QueueStep(W, N),
         \A v \in Workers, e \in Events : <<v, e>> \in N => e.kind # "audio",
         entered \subseteq entered', UNCHANGED early
  PROVE  InTime'
<1>1. ASSUME ~early, NEW v \in Workers, NEW e \in Waiting(v)', e.kind = "audio"
      PROVE  e.conn \in entered'
  <2>1. e \in Events /\ (e \in Waiting(v) \/ <<v, e>> \in N)
    BY StepWaiting DEF IInv
  <2> QED BY <1>1, <2>1 DEF IInv, InTime
<1> QED BY <1>1 DEF InTime

\* The events of a channel stay in order, if those written are later.
LEMMA LaterStep ==
  ASSUME Queues, InOrder, NEW W, NEW N, QueueStep(W, N),
         \A v \in Workers, e \in Events :
           <<v, e>> \in N => \A i \in 1..Len(queue[v]) : Later(queue[v][i], e)
  PROVE  \A v \in Workers : \A j \in 1..Len(queue'[v]) : \A i \in 1..j-1 :
           Later(queue'[v][i], queue'[v][j])
<1> SUFFICES ASSUME NEW v \in Workers, NEW j \in 1..Len(queue'[v]), NEW i \in 1..j-1
             PROVE  Later(queue'[v][i], queue'[v][j])
  OBVIOUS
<1> DEFINE d == Shift(W, v)
           n == Len(queue[v])
           m == Len(queue'[v])
<1>1. n \in Nat /\ m \in Nat /\ d \in {0, 1} /\ m \in {n - d, n - d + 1}
  <2>1. queue'[v] \in Seq(Events)
    BY DEF QueueStep
  <2>2. m \in Nat
    BY <2>1, LenProperties
  <2>3. n \in Nat
    BY QueueTypes
  <2> QED BY <2>2, <2>3 DEF QueueStep, Shift
<1>2. j \in 1..m /\ i \in 1..m /\ i \in 1..j-1 /\ i + d \in 1..n
  <2> HIDE DEF d, n
  <2>1. j \in 1..m
    OBVIOUS
  <2> HIDE DEF m
  <2> QED BY <1>1, <2>1
<1>3. queue'[v][i] = queue[v][i+d]
  <2>1. i + d <= n
    <3> HIDE DEF d, n
    <3> QED BY <1>1, <1>2
  <2> QED BY <1>2, <2>1 DEF QueueStep
<1>4. CASE j + d <= n
  <2>1. queue'[v][j] = queue[v][j+d]
    BY <1>2, <1>4 DEF QueueStep
  <2>2. j + d \in 1..n /\ i + d \in 1..(j+d)-1
    <3> HIDE DEF d, n, m
    <3> QED BY <1>1, <1>2, <1>4
  <2> QED BY <1>3, <2>1, <2>2 DEF InOrder
<1>5. CASE ~(j + d <= n)
  <2>1. <<v, queue'[v][j]>> \in N
    BY <1>2, <1>5 DEF QueueStep
  <2>2. queue'[v][j] \in Events
    <3>1. queue'[v] \in Seq(Events)
      BY DEF QueueStep
    <3> QED BY <3>1, ElementOfSeq
  <2> QED BY <1>2, <1>3, <2>1, <2>2
<1> QED BY <1>4, <1>5

LEMMA QuietOrder ==
  ASSUME IInv, NEW W, NEW N, QueueStep(W, N),
         \A v \in Workers, e \in Events : <<v, e>> \in N => e.kind \notin {"audio", "RoomMergeData"},
         \A c \in Conns : sent[c] <= sent'[c] /\ sent'[c] \in Nat, UNCHANGED merged
  PROVE  InOrder'
<1>1. \A v \in Workers : \A j \in 1..Len(queue'[v]) : \A i \in 1..j-1 :
        Later(queue'[v][i], queue'[v][j])
  <2>1. \A v \in Workers, e \in Events :
          <<v, e>> \in N => \A i \in 1..Len(queue[v]) : Later(queue[v][i], e)
    BY DEF Later
  <2> QED BY <2>1, LaterStep DEF IInv
<1>2. ASSUME NEW v \in Workers, NEW e \in Waiting(v)', e.kind \in {"audio", "RoomMergeData"}
      PROVE  e \in Waiting(v) /\ e \in Events
  BY <1>2, StepWaiting DEF IInv
<1>3. \A e \in Events :
        /\ e.kind = "audio" => e.conn \in Conns /\ e.n \in Nat
        /\ e.kind = "RoomMergeData" => e.frame.conn \in Conns /\ e.frame.n \in Nat
  BY DEF Events, ClientEvents, WorkerEvents, AudioEvents
<1>4. ASSUME NEW v \in Workers, NEW e \in Waiting(v)'
      PROVE  /\ e.kind = "audio" => e.n < sent'[e.conn]
             /\ e.kind = "RoomMergeData" =>
                  /\ v = getWorker(e.room)
                  /\ e.frame.n < sent'[e.frame.conn]
                  /\ \A u \in Workers : \A f \in Waiting(u)' :
                       f.kind = "audio" /\ f.conn = e.frame.conn => e.frame.n < f.n
  <2>1. e.kind = "audio" => e.n < sent[e.conn] /\ e.conn \in Conns /\ e.n \in Nat
    BY <1>2, <1>3 DEF IInv, InOrder
  <2>2. e.kind = "RoomMergeData" => v = getWorker(e.room) /\ e.frame.n < sent[e.frame.conn]
                                    /\ e.frame.conn \in Conns /\ e.frame.n \in Nat
    BY <1>2, <1>3 DEF IInv, InOrder
  <2>3. \A c \in Conns : sent[c] \in Nat
    BY DEF IInv, Queues
  <2>4. ASSUME e.kind = "RoomMergeData", NEW u \in Workers, NEW f \in Waiting(u)',
               f.kind = "audio", f.conn = e.frame.conn
        PROVE  e.frame.n < f.n
    BY <1>2, <2>4 DEF IInv, InOrder
  <2> QED BY <2>1, <2>2, <2>3, <2>4
<1>5. ASSUME NEW i \in 1..Len(merged)
      PROVE  LET m == merged[i] IN
             /\ m.frame.n < sent'[m.frame.conn]
             /\ \A v \in Workers : \A e \in Waiting(v)' :
                  /\ e.kind = "audio" /\ e.conn = m.frame.conn => m.frame.n < e.n
                  /\ e.kind = "RoomMergeData" /\ e.room = m.room /\ e.frame.conn = m.frame.conn =>
                       m.frame.n < e.frame.n
  <2> DEFINE m == merged[i]
  <2>1. m \in [room : RoomIds, frame : AudioEvents]
    BY ElementOfSeq DEF IInv, InOrder
  <2>2. m.frame.conn \in Conns /\ m.frame.n \in Nat
    BY <2>1 DEF AudioEvents
  <2>3. m.frame.n < sent[m.frame.conn] /\ sent[m.frame.conn] \in Nat
    BY <2>2 DEF IInv, InOrder, Queues
  <2>4. m.frame.n < sent'[m.frame.conn]
    BY <2>2, <2>3
  <2> QED BY <1>2, <2>4 DEF IInv, InOrder
<1> QED BY <1>1, <1>4, <1>5 DEF IInv, InOrder

\* What c asked for last, as seen from a later place of his worker's channel
\* or after the first event has been handled: place m now is place i before.
LEMMA AskedStep ==
  ASSUME Queues, NEW W, NEW N, QueueStep(W, N), NEW c \in Conns, NEW r,
         RoomOf(c)' = RoomOf(c),
         NEW i \in Nat, NEW m \in Nat, m >= 1, m <= Len(queue'[getWorker(c)]) + 1,
         i <= Len(queue[getWorker(c)]) + 1,
         \/ i = m + Shift(W, getWorker(c))
         \/ /\ i = Len(queue[getWorker(c)]) + 1 /\ m + Shift(W, getWorker(c)) >= i
            /\ \A e \in Events : <<getWorker(c), e>> \in N =>
                 ~(e.kind = "createenterroom" /\ e.conn = c),
         getWorker(c) \in W /\ Asks(c, 1) => RoomOf(c) \in {0, queue[getWorker(c)][1].roomid},
         AskedFor(c, i, r)
  PROVE  AskedFor(c, m, r)'
<1> DEFINE g == getWorker(c)
           d == Shift(W, g)
           n == Len(queue[g])
           l == Len(queue'[g])
<1>1. g \in Workers
  BY WorkerIs
<1>2. queue'[g] \in Seq(Events)
  BY <1>1 DEF QueueStep
<1>3. n \in Nat /\ l \in Nat /\ d \in {0, 1} /\ (g \in W <=> d = 1)
  BY <1>1, <1>2, QueueTypes, LenProperties DEF Shift
<1>4. \A k \in 1..l : IF k + d <= n THEN queue'[g][k] = queue[g][k+d]
                                    ELSE <<g, queue'[g][k]>> \in N
  BY <1>1 DEF QueueStep
<1>5. m <= l + 1 /\ i <= n + 1 /\ (i = m + d \/ (i = n + 1 /\ m + d >= i))
  OBVIOUS
<1>6. \A k \in 1..m-1 : k \in 1..l /\ (k + d <= n => k + d \in 1..i-1)
  <2> HIDE DEF g, d, n, l
  <2> QED BY <1>3, <1>5
<1>7. \A k \in 1..l : queue'[g][k] \in Events
  BY <1>2, ElementOfSeq
<1>8. ASSUME NEW k \in 1..m-1, k + d <= n
      PROVE  queue'[g][k] = queue[g][k+d] /\ (Asks(c, k)' <=> Asks(c, k+d))
  BY <1>4, <1>6, <1>8 DEF Asks
<1>9. ASSUME NEW k \in 1..m-1, ~(k + d <= n) PROVE ~Asks(c, k)'
  <2>1. <<g, queue'[g][k]>> \in N /\ queue'[g][k] \in Events
    BY <1>4, <1>6, <1>7, <1>9
  <2>2. i # m + d
    <3> HIDE DEF g, d, n, l
    <3> QED BY <1>3, <1>5, <1>9
  <2> QED BY <2>1, <2>2 DEF Asks
<1>10. CASE RoomOf(c) \in {0, r} /\ \A k \in 1..i-1 : ~Asks(c, k)
  <2>1. \A k \in 1..m-1 : ~Asks(c, k)'
    BY <1>6, <1>8, <1>9, <1>10
  <2> QED BY <1>10, <2>1 DEF AskedFor
<1>11. ASSUME NEW j \in 1..i-1, Asks(c, j), queue[g][j].roomid = r, \A k \in j+1..i-1 : ~Asks(c, k)
       PROVE  AskedFor(c, m, r)'
  <2>1. ASSUME NEW k \in 1..m-1, k + d > j PROVE ~Asks(c, k)'
    <3>1. k + d <= n => k + d \in j+1..i-1
      <4>1. k + d <= n => k + d \in 1..i-1
        BY <1>6
      <4> HIDE DEF g, d, n, l
      <4> QED BY <1>3, <2>1, <4>1
    <3> QED BY <1>8, <1>9, <1>11, <3>1
  <2>2. CASE j > d
    <3> DEFINE h == j - d
    <3>1. h \in 1..m-1 /\ h + d = j /\ h + d <= n
      <4> HIDE DEF g, d, n, l
      <4> QED BY <1>3, <1>5, <2>2
    <3> HIDE DEF h
    <3>2. Asks(c, h)' /\ queue'[g][h].roomid = r
      BY <1>8, <1>11, <3>1
    <3>3. \A k \in h+1..m-1 : ~Asks(c, k)'
      <4>1. \A k \in h+1..m-1 : k \in 1..m-1 /\ k + d > j
        <5> HIDE DEF g, d, n, l
        <5> QED BY <1>3, <3>1
      <4> QED BY <2>1, <4>1
    <3> QED BY <3>1, <3>2, <3>3 DEF AskedFor
  <2>3. CASE j <= d
    <3>1. j = 1 /\ d = 1
      <4> HIDE DEF g, d, n, l
      <4> QED BY <1>3, <2>3
    <3>2. RoomOf(c) \in {0, r}
      BY <1>3, <1>11, <3>1
    <3>3. \A k \in 1..m-1 : ~Asks(c, k)'
      BY <2>1, <3>1
    <3> QED BY <3>2, <3>3 DEF AskedFor
  <2> QED BY <1>3, <2>2, <2>3
<1> QED BY <1>10, <1>11 DEF AskedFor

\* A worker's step that moves nobody to another room.
LEMMA QuietRoom ==
  ASSUME IInv, RightRoom, NEW W, NEW N, QueueStep(W, N),
         \A v \in Workers, e \in Events : <<v, e>> \in N =>
           e \in WorkerEvents /\ (e.kind = "RoomMergeData" => e.room = e.frame.wants),
         UNCHANGED wants, \A c \in Conns : RoomOf(c)' = RoomOf(c),
         \A c \in Conns : getWorker(c) \in W /\ Asks(c, 1) =>
           RoomOf(c) \in {0, queue[getWorker(c)][1].roomid},
         \A i \in 1..Len(merged') : merged'[i].room = merged'[i].frame.wants,
         \A f \in forwarded' : f.from = f.to
  PROVE  RightRoom'
<1>1. ASSUME NEW v \in Workers
      PROVE  /\ Len(queue[v]) \in Nat /\ Len(queue'[v]) \in Nat /\ Shift(W, v) \in {0, 1}
             /\ Len(queue'[v]) \in {Len(queue[v]) - Shift(W, v), Len(queue[v]) - Shift(W, v) + 1}
             /\ \A i \in 1..Len(queue'[v]) :
                  IF i + Shift(W, v) <= Len(queue[v])
                  THEN queue'[v][i] = queue[v][i + Shift(W, v)]
                  ELSE <<v, queue'[v][i]>> \in N
             /\ \A i \in 1..Len(queue'[v]) : queue'[v][i] \in Events
  <2>1. queue'[v] \in Seq(Events)
    BY DEF QueueStep
  <2>2. Len(queue'[v]) \in Nat /\ \A i \in 1..Len(queue'[v]) : queue'[v][i] \in Events
    BY <2>1, LenProperties, ElementOfSeq
  <2>3. Len(queue[v]) \in Nat /\ Shift(W, v) \in {0, 1}
    BY QueueTypes DEF IInv, Shift
  <2> QED BY <2>2, <2>3 DEF QueueStep
<1>2. ASSUME NEW c \in Conns
      PROVE  \A e \in Events : <<getWorker(c), e>> \in N =>
               ~(e.kind = "createenterroom" /\ e.conn = c)
  BY WorkerIs, WorkerEventIs
<1>3. ASSUME NEW c \in Conns
      PROVE  AskedFor(c, Len(queue[getWorker(c)]) + 1, wants[c])'
  <2> DEFINE g == getWorker(c)
             d == Shift(W, g)
             n == Len(queue[g])
             l == Len(queue'[g])
  <2>1. g \in Workers
    BY WorkerIs
  <2>2. n \in Nat /\ l \in Nat /\ d \in {0, 1} /\ l \in {n - d, n - d + 1}
    BY <1>1, <2>1
  <2>3. n + 1 \in Nat /\ l + 1 \in Nat /\ l + 1 >= 1 /\ (l + 1) + d >= n + 1
    <3> HIDE DEF g, d, n, l
    <3> QED BY <2>2
  <2>4. AskedFor(c, n + 1, wants[c])
    BY DEF RightRoom
  <2>5. l + 1 <= l + 1 /\ n + 1 <= n + 1
    BY <2>3
  <2>6. ASSUME NEW m \in Nat, m = l + 1, NEW r, r = wants[c]
        PROVE  AskedFor(c, m, r)'
    <3>1. m >= 1 /\ m <= l + 1 /\ m + d >= n + 1
      BY <2>3, <2>6
    <3>2. AskedFor(c, n + 1, r)
      BY <2>4, <2>6
    <3> QED BY <1>2, <2>3, <2>5, <3>1, <3>2, AskedStep DEF IInv
  <2>7. l + 1 = (Len(queue[getWorker(c)]) + 1)' /\ wants[c] = wants'[c]
    OBVIOUS
  <2> QED BY <2>3, <2>6, <2>7 DEF AskedFor
<1>4. ASSUME NEW w \in Workers, NEW m \in 1..Len(queue'[w]), queue'[w][m].kind = "audio"
      PROVE  AskedFor(queue[w][m].conn, m, queue[w][m].wants)'
  <2> DEFINE e == queue'[w][m]
             d == Shift(W, w)
             n == Len(queue[w])
             l == Len(queue'[w])
  <2>1. n \in Nat /\ l \in Nat /\ d \in {0, 1}
    BY <1>1
  <2>2. m + d <= n /\ e = queue[w][m+d]
    <3>1. e \in Events /\ (m + d <= n => e = queue[w][m+d]) /\ (~(m + d <= n) => <<w, e>> \in N)
      BY <1>1
    <3> QED BY <1>4, <3>1, WorkerEventIs
  <2>3. m + d \in 1..n /\ m + d \in Nat /\ m \in Nat /\ m >= 1 /\ m <= l + 1 /\ m + d <= n + 1
    <3>1. m \in 1..l
      OBVIOUS
    <3> HIDE DEF d, n, l
    <3> QED BY <2>1, <2>2, <3>1
  <2>4. e.conn \in Conns /\ getWorker(e.conn) = w
    <3>1. e \in Waiting(w) /\ e \in Events
      BY <2>2, <2>3, QueueTypes DEF Waiting, IInv
    <3>2. e \in ClientEvents /\ e.conn \in Conns
      BY <1>4, <3>1 DEF Events, ClientEvents, WorkerEvents, AudioEvents
    <3> QED BY <3>1, <3>2 DEF IInv, Queues
  <2>5. AskedFor(e.conn, m + d, e.wants)
    BY <1>4, <2>2, <2>3 DEF RightRoom
  <2>6. ASSUME NEW c \in Conns, c = e.conn, NEW r, r = e.wants
        PROVE  AskedFor(c, m, r)'
    <3>1. getWorker(c) = w /\ AskedFor(c, m + d, r)
      BY <2>4, <2>5, <2>6
    <3> HIDE DEF e
    <3>2. RoomOf(c)' = RoomOf(c)
          /\ (getWorker(c) \in W /\ Asks(c, 1) => RoomOf(c) \in {0, queue[getWorker(c)][1].roomid})
      OBVIOUS
    <3> QED BY <2>3, <3>1, <3>2, AskedStep DEF IInv
  <2> QED BY <2>4, <2>6 DEF AskedFor
<1>5. ASSUME NEW w \in Workers, NEW e \in Waiting(w)', e.kind = "RoomMergeData"
      PROVE  e.room = e.frame.wants
  <2>1. e \in Events /\ (e \in Waiting(w) \/ <<w, e>> \in N)
    BY StepWaiting DEF IInv
  <2> QED BY <1>5, <2>1 DEF RightRoom
<1> QED BY <1>3, <1>4, <1>5 DEF RightRoom

\* A step that leaves whoever has a session his session and his room.
LEMMA QuietOwned ==
  ASSUME IInv, Owned, NEW w \in Workers, NEW W \in SUBSET {w}, NEW N, QueueStep(W, N),
         \A v \in Workers, e \in Events :
           <<v, e>> \in N /\ e.kind = "HandleCreEnterRoo" => data[e.conn] = e.sess,
         \A v \in Workers \ {w} : pc'[v] = pc[v] /\ room'[v] = room[v],
         UNCHANGED <<sessPtr, data>>, early => early',
         \A s \in Sess : /\ sess'[s].status = sess[s].status /\ sess'[s].ssrc = sess[s].ssrc
                         /\ sess'[s].roomid = sess[s].roomid
                         /\ sess[s].rroom # None => sess'[s].rroom # None,
         \A c \in entered' \ entered : data[c] # None /\ sess'[data[c]].rroom # None,
         pc'[w] \notin {"push", "login"},
         pc'[w] = "post" => RoomOf(Event(w).conn)' = Event(w)'.roomid,
         pc'[w] = "gate" /\ ~early' => room'[w] # None,
         crashed' => early'
  PROVE  Owned' /\ \A c \in Conns : RoomOf(c)' = RoomOf(c)
<1>1. \A c \in Conns : data[c] # None => data[c] \in Sess
  BY DEF IInv, TypeOK
<1>2. \A c \in Conns : RoomOf(c)' = RoomOf(c)
  BY <1>1 DEF RoomOf
<1>3. \A c \in Conns : data'[c] # None => LoggedIn(data[c])' /\ sess'[data'[c]].ssrc = c
  BY <1>1 DEF Owned, LoggedIn
<1>4. ASSUME NEW v \in Workers, NEW e \in Waiting(v)', e.kind = "HandleCreEnterRoo"
      PROVE  data'[e.conn] = e.sess
  <2>1. e \in Events /\ (e \in Waiting(v) \/ <<v, e>> \in N)
    BY StepWaiting DEF IInv
  <2> QED BY <1>4, <2>1 DEF Owned
<1>5. \A c \in entered' : data'[c] # None /\ sess'[data'[c]].rroom # None
  <2>1. entered \subseteq Conns
    BY DEF IInv, TypeOK
  <2> QED BY <1>1, <2>1 DEF Owned
<1>6. ASSUME NEW v \in Workers, v # w
      PROVE  /\ pc'[v] \in {"push", "login"} => sess'[sessPtr'[Event(v)'.conn]].roomid = 0
             /\ pc'[v] = "post" => RoomOf(Event(v).conn)' = Event(v)'.roomid
             /\ pc'[v] = "gate" /\ ~early' => room'[v] # None
  <2>1. pc'[v] = pc[v] /\ room'[v] = room[v] /\ v \notin W
    BY <1>6
  <2>2. pc[v] # "next" => Event(v)' = Event(v) /\ queue[v] # <<>>
    BY <2>1, StepHead DEF IInv, Handling, HandlingOf
  <2>3. CASE pc[v] \in {"push", "login"}
    <3>1. sessPtr[Event(v).conn] \in Sess
      BY <2>3, LoginIs DEF LoggingIn
    <3> QED BY <2>1, <2>2, <2>3, <3>1 DEF Owned
  <2>4. CASE pc[v] = "post"
    <3>1. Event(v).conn \in Conns
      BY <2>2, <2>4, HeadIs DEF IInv, Handling, HandlingOf
    <3>2. RoomOf(Event(v).conn)' = RoomOf(Event(v).conn)
      <4>1. Event(v)' = Event(v)
        BY <2>2, <2>4
      <4>2. data[Event(v).conn] # None => data[Event(v).conn] \in Sess
        BY <1>1, <3>1
      <4> QED BY <4>1, <4>2 DEF RoomOf
    <3> QED BY <2>1, <2>2, <2>4, <3>2 DEF Owned
  <2>5. CASE pc[v] \notin {"push", "login", "post"}
    BY <2>1, <2>2, <2>5 DEF Owned
  <2> QED BY <2>3, <2>4, <2>5
<1>7. \A v \in Workers :
        /\ pc'[v] \in {"push", "login"} => sess'[sessPtr'[Event(v)'.conn]].roomid = 0
        /\ pc'[v] = "post" => RoomOf(Event(v).conn)' = Event(v)'.roomid
        /\ pc'[v] = "gate" /\ ~early' => room'[v] # None
  BY <1>6
<1> QED BY <1>2, <1>3, <1>4, <1>5, <1>7 DEF Owned

-----------------------------------------------------------------------------
(* The workers' steps.                                                     *)

\* A handler that returns.
LEMMA AfterDone ==
  ASSUME IInv, NEW w \in Workers, pc' = [pc EXCEPT ![w] = "next"]
  PROVE  /\ pc'[w] = "next" /\ ~LoggingIn(w)' /\ HandlingOf(w)'
         /\ \A v \in Workers \ {w} : pc'[v] = pc[v]
         /\ pc' \in [Workers -> {"next", "reset", "push", "login", "post", "enter", "gate"}]
BY DEF IInv, TypeOK, LoggingIn, HandlingOf

\* The first event of a channel is a request for a room, or of another kind.
LEMMA HeadAsks ==
  ASSUME IInv, NEW w \in Workers, queue[w] # <<>>, NEW c \in Conns, getWorker(c) \in {w}, Asks(c, 1)
  PROVE  Event(w).kind = "createenterroom" /\ Event(w).conn = c /\ Event(w) = queue[w][1]
BY QueueTypes DEF IInv, Asks

\* What worker w's step has at hand.
LEMMA AtIs ==
  ASSUME NEW w \in Workers, NEW place, NEW kind, At(w, place, kind)
  PROVE  ~crashed /\ queue[w] # <<>> /\ pc[w] = place /\ Event(w).kind = kind
BY DEF At, Event

LEMMA SharedStays == ASSUME UNCHANGED sessPtr PROVE Shared' <=> Shared
BY DEF Shared

\* A session's fields.
SessRecord ==
  [status : {"CLOSE", "LOGIN"}, ssrc : Conns \cup {0}, roomid : RoomIds \cup {0},
   rroom : RoomIds \cup {None}, bySubscList : SUBSET Conns]

LEMMA FieldsSet ==
  ASSUME NEW r \in SessRecord
  PROVE  /\ \A c \in Conns : [r EXCEPT !.bySubscList = @ \cup {c}] \in SessRecord
         /\ \A c \in Conns : [r EXCEPT !.status = "LOGIN", !.ssrc = c] \in SessRecord
         /\ \A x \in RoomIds : [r EXCEPT !.roomid = x] \in SessRecord
         /\ \A x \in RoomIds : [r EXCEPT !.rroom = x] \in SessRecord
         /\ Closed \in SessRecord
<1>1. \A c \in Conns : [r EXCEPT !.bySubscList = @ \cup {c}] \in SessRecord
  BY DEF SessRecord
<1>2. \A c \in Conns : [r EXCEPT !.status = "LOGIN", !.ssrc = c] \in SessRecord
  BY DEF SessRecord
<1>3. \A x \in RoomIds : [r EXCEPT !.roomid = x] \in SessRecord
  BY DEF SessRecord
<1>4. \A x \in RoomIds : [r EXCEPT !.rroom = x] \in SessRecord
  BY DEF SessRecord
<1>5. Closed \in SessRecord
  BY DEF SessRecord, Closed
<1> QED BY <1>1, <1>2, <1>3, <1>4, <1>5

LEMMA SessSet ==
  ASSUME IInv, NEW s \in Sess, NEW r \in SessRecord, sess' = [sess EXCEPT ![s] = r]
  PROVE  /\ sess' \in [Sess -> SessRecord] /\ sess'[s] = r
         /\ \A x \in Sess \ {s} : sess'[x] = sess[x]
BY DEF IInv, TypeOK, SessRecord

\* He who logged in is added to his session's subscribers.
LEMMA workHanLoginStep == ASSUME IInv, NEW w \in Workers, workHanLogin(w) PROVE IInv'
<1>1. queue[w] # <<>> /\ pc[w] = "next" /\ Event(w).kind = "workHanLogin" /\ ~crashed
  BY AtIs DEF workHanLogin
<1>2. /\ UNCHANGED <<sessFreePtr, sessPtr, data, rooms, userList, room, crashed, sent, wants,
                     early, entered, merged, forwarded>>
      /\ queue' = Taken(w) /\ pc' = [pc EXCEPT ![w] = "next"]
      /\ sess' = [sess EXCEPT ![Event(w).sess].bySubscList = @ \cup {Event(w).ssrc}]
  BY DEF workHanLogin, Done, lists, places, client, outcome
<1>3. Event(w).sess \in Sess /\ Event(w).ssrc \in Conns
  BY <1>1, HeadIs
<1>4. QueueStep({w}, {})
  BY <1>1, <1>2, Takes DEF IInv
<1>5. /\ pc'[w] = "next" /\ ~LoggingIn(w)' /\ HandlingOf(w)' /\ ~LoggingIn(w)
      /\ \A v \in Workers \ {w} : pc'[v] = pc[v]
      /\ pc' \in [Workers -> {"next", "reset", "push", "login", "post", "enter", "gate"}]
  BY <1>1, <1>2, AfterDone DEF LoggingIn
<1>6. TypeOK'
  <2>1. sess[Event(w).sess] \in SessRecord
    BY <1>3 DEF IInv, TypeOK, SessRecord
  <2>2. sess' \in [Sess -> SessRecord]
    BY <1>2, <1>3, <2>1, FieldsSet, SessSet
  <2> QED BY <1>2, <1>5, <2>2 DEF IInv, TypeOK, SessRecord
<1>7. Free' /\ HeldApart' /\ GivenOnce' /\ Handling' /\ Queues'
  BY <1>2, <1>4, <1>5, QuietWorker DEF lists
<1>8. InTime' /\ InOrder'
  <2>1. \A c \in Conns : sent[c] <= sent'[c] /\ sent'[c] \in Nat
    BY <1>2 DEF IInv, Queues
  <2> QED BY <1>2, <1>4, <2>1, QuietTime, QuietOrder
<1>9. ASSUME ~Shared' PROVE Owned' /\ RightRoom'
  <2>1. Owned /\ RightRoom
    BY <1>2, <1>9, SharedStays DEF IInv
  <2>2. \A s \in Sess : /\ sess'[s].status = sess[s].status /\ sess'[s].ssrc = sess[s].ssrc
                        /\ sess'[s].roomid = sess[s].roomid /\ sess'[s].rroom = sess[s].rroom
    BY <1>2, <1>3 DEF IInv, TypeOK
  <2>3. Owned' /\ \A c \in Conns : RoomOf(c)' = RoomOf(c)
    BY <1>1, <1>2, <1>4, <1>5, <2>1, <2>2, QuietOwned
  <2>4. \A c \in Conns : getWorker(c) \in {w} => ~Asks(c, 1)
    BY <1>1, HeadAsks
  <2>5. RightRoom'
    BY <1>2, <1>4, <2>1, <2>3, <2>4, QuietRoom DEF RightRoom
  <2> QED BY <2>3, <2>5
<1> QED BY <1>6, <1>7, <1>8, <1>9 DEF IInv

\* Nobody is logged in: a request is dropped.
LEMMA IgnoreStep == ASSUME IInv, NEW w \in Workers, Ignore(w) PROVE IInv'
<1>1. /\ queue[w] # <<>> /\ pc[w] = "next" /\ ~crashed
      /\ Event(w).kind \in {"createenterroom", "audio", "video"} /\ ~LoggedIn(data[Event(w).conn])
  BY AtIs DEF Ignore
<1>2. /\ UNCHANGED <<sessFreePtr, sessPtr, data, sess, rooms, userList, room, crashed, sent, wants,
                     early, entered, merged, forwarded>>
      /\ queue' = Taken(w) /\ pc' = [pc EXCEPT ![w] = "next"]
  BY DEF Ignore, Done, lists, places, client, outcome
<1>3. Event(w).conn \in Conns /\ getWorker(Event(w).conn) = w
  BY <1>1, HeadIs
<1>4. QueueStep({w}, {})
  BY <1>1, <1>2, Takes DEF IInv
<1>5. /\ pc'[w] = "next" /\ ~LoggingIn(w)' /\ HandlingOf(w)' /\ ~LoggingIn(w)
      /\ \A v \in Workers \ {w} : pc'[v] = pc[v]
      /\ pc' \in [Workers -> {"next", "reset", "push", "login", "post", "enter", "gate"}]
  BY <1>1, <1>2, AfterDone DEF LoggingIn
<1>6. TypeOK'
  BY <1>2, <1>5 DEF IInv, TypeOK
<1>7. Free' /\ HeldApart' /\ GivenOnce' /\ Handling' /\ Queues'
  BY <1>2, <1>4, <1>5, QuietWorker DEF lists
<1>8. InTime' /\ InOrder'
  <2>1. \A c \in Conns : sent[c] <= sent'[c] /\ sent'[c] \in Nat
    BY <1>2 DEF IInv, Queues
  <2> QED BY <1>2, <1>4, <2>1, QuietTime, QuietOrder
<1>9. ASSUME ~Shared' PROVE Owned' /\ RightRoom'
  <2>1. Owned /\ RightRoom
    BY <1>2, <1>9, SharedStays DEF IInv
  <2>2. \A s \in Sess : /\ sess'[s].status = sess[s].status /\ sess'[s].ssrc = sess[s].ssrc
                        /\ sess'[s].roomid = sess[s].roomid /\ sess'[s].rroom = sess[s].rroom
    BY <1>2
  <2>3. Owned' /\ \A c \in Conns : RoomOf(c)' = RoomOf(c)
    BY <1>1, <1>2, <1>4, <1>5, <2>1, <2>2, QuietOwned
  <2>4. ASSUME NEW c \in Conns, getWorker(c) \in {w}, Asks(c, 1) PROVE RoomOf(c) = 0
    <3>1. c = Event(w).conn
      BY <1>1, <2>4, HeadAsks
    <3> QED BY <1>1, <2>1, <3>1 DEF Owned, RoomOf
  <2>5. RightRoom'
    BY <1>2, <1>4, <2>1, <2>3, <2>4, QuietRoom DEF RightRoom
  <2> QED BY <2>3, <2>5
<1> QED BY <1>6, <1>7, <1>8, <1>9 DEF IInv

\* The rest of entering a room is handed to the room's worker.
LEMMA CreEnterRoomStep == ASSUME IInv, NEW w \in Workers, CreEnterRoom(w) PROVE IInv'
<1> DEFINE c == Event(w).conn
           r == Event(w).roomid
           e == [kind |-> "HandleCreEnterRoo", sess |-> data[c], roomid |-> r, conn |-> c]
<1>1. queue[w] # <<>> /\ pc[w] = "post" /\ ~crashed /\ Event(w).kind = "createenterroom"
  BY AtIs DEF CreEnterRoom
<1>2. /\ UNCHANGED <<sessFreePtr, sessPtr, data, sess, rooms, userList, room, crashed, sent, wants,
                     early, entered, merged, forwarded>>
      /\ pc' = [pc EXCEPT ![w] = "next"]
      /\ \/ LoggedIn(data[c]) /\ queue' = [Taken(w) EXCEPT ![getWorker(r)] = Append(@, e)]
         \/ ~LoggedIn(data[c]) /\ queue' = Taken(w)
  BY DEF CreEnterRoom, Done, DoneAfter, lists, places, client, outcome
<1>3. c \in Conns /\ getWorker(c) = w /\ r \in RoomIds /\ getWorker(r) \in Workers
  BY <1>1, HeadIs, WorkerIs
<1>4. LoggedIn(data[c]) => e \in WorkerEvents /\ e \in Events
  BY <1>3, WorkerEventIs DEF IInv, TypeOK, LoggedIn, WorkerEvents
<1>5. /\ pc'[w] = "next" /\ ~LoggingIn(w)' /\ HandlingOf(w)' /\ ~LoggingIn(w)
      /\ \A v \in Workers \ {w} : pc'[v] = pc[v]
      /\ pc' \in [Workers -> {"next", "reset", "push", "login", "post", "enter", "gate"}]
  BY <1>1, <1>2, AfterDone DEF LoggingIn
<1>6. PICK N : /\ QueueStep({w}, N)
               /\ \A v \in Workers, f \in Events : <<v, f>> \in N =>
                    f \in WorkerEvents /\ f.kind = "HandleCreEnterRoo" /\ data[f.conn] = f.sess
  <2>1. CASE LoggedIn(data[c])
    <3>1. QueueStep({w}, {<<getWorker(r), e>>})
      <4> HIDE DEF c, r, e
      <4> QED BY <1>1, <1>2, <1>3, <1>4, <2>1, Moves DEF IInv
    <3> QED BY <1>4, <2>1, <3>1
  <2>2. CASE ~LoggedIn(data[c])
    <3>1. QueueStep({w}, {})
      BY <1>1, <1>2, <2>2, Takes DEF IInv
    <3> QED BY <3>1
  <2> QED BY <2>1, <2>2
<1> HIDE DEF e
<1>7. TypeOK'
  BY <1>2, <1>5 DEF IInv, TypeOK
<1>8. Free' /\ HeldApart' /\ GivenOnce' /\ Handling' /\ Queues'
  BY <1>2, <1>5, <1>6, QuietWorker DEF lists
<1>9. InTime' /\ InOrder'
  <2>1. \A d \in Conns : sent[d] <= sent'[d] /\ sent'[d] \in Nat
    BY <1>2 DEF IInv, Queues
  <2>2. \A v \in Workers, f \in Events : <<v, f>> \in N => f.kind \notin {"audio", "RoomMergeData"}
    BY <1>6
  <2> QED BY <1>2, <1>6, <2>1, <2>2, QuietTime, QuietOrder
<1>10. ASSUME ~Shared' PROVE Owned' /\ RightRoom'
  <2>1. Owned /\ RightRoom
    BY <1>2, <1>10, SharedStays DEF IInv
  <2>2. \A s \in Sess : /\ sess'[s].status = sess[s].status /\ sess'[s].ssrc = sess[s].ssrc
                        /\ sess'[s].roomid = sess[s].roomid /\ sess'[s].rroom = sess[s].rroom
    BY <1>2
  <2>3. Owned' /\ \A d \in Conns : RoomOf(d)' = RoomOf(d)
    BY <1>1, <1>2, <1>5, <1>6, <2>1, <2>2, QuietOwned
  <2>4. ASSUME NEW d \in Conns, getWorker(d) \in {w}, Asks(d, 1)
        PROVE  RoomOf(d) \in {0, queue[getWorker(d)][1].roomid}
    <3>1. d = c /\ Event(w) = queue[w][1] /\ getWorker(d) = w
      BY <1>1, <2>4, HeadAsks
    <3>2. RoomOf(c) = r
      BY <1>1, <2>1 DEF Owned
    <3> QED BY <3>1, <3>2
  <2>5. \A v \in Workers, f \in Events : <<v, f>> \in N =>
          f \in WorkerEvents /\ (f.kind = "RoomMergeData" => f.room = f.frame.wants)
    BY <1>6
  <2>6. RightRoom'
    BY <1>2, <1>6, <2>1, <2>3, <2>4, <2>5, QuietRoom DEF RightRoom
  <2> QED BY <2>3, <2>6
<1> QED BY <1>7, <1>8, <1>9, <1>10 DEF IInv

\* A room is made for him who is logged in.
LEMMA CreateRoomStep == ASSUME IInv, NEW w \in Workers, CreateRoom(w) PROVE IInv'
<1>1. queue[w] # <<>> /\ pc[w] = "next" /\ ~crashed /\ Event(w).kind = "HandleCreEnterRoo"
  BY AtIs DEF CreateRoom
<1>2. /\ UNCHANGED <<sessFreePtr, sessPtr, data, sess, userList, room, sent, wants,
                     early, entered, merged, forwarded, queue>>
      /\ \/ /\ LoggedIn(Event(w).sess) /\ rooms' = rooms \cup {Event(w).roomid}
            /\ pc' = [pc EXCEPT ![w] = "enter"] /\ UNCHANGED crashed
         \/ /\ ~LoggedIn(Event(w).sess) /\ UNCHANGED rooms
            /\ pc' = [pc EXCEPT ![w] = pc[w]] /\ crashed' = TRUE
  BY DEF CreateRoom, Goto, Crash, lists, client, outcome
<1>3. Event(w).sess \in Sess /\ Event(w).roomid \in RoomIds /\ Event(w).conn \in Conns
      /\ Event(w) \in Waiting(w)
  BY <1>1, HeadIs
<1>4. QueueStep({}, {}) /\ {} \in SUBSET {w} /\ Event(w)' = Event(w)
  BY <1>2, Stays DEF IInv, Event
<1>5. /\ pc' \in [Workers -> {"next", "reset", "push", "login", "post", "enter", "gate"}]
      /\ \A v \in Workers \ {w} : pc'[v] = pc[v]
      /\ pc'[w] \in {"next", "enter"} /\ (pc'[w] = "enter" => Event(w).roomid \in rooms')
  BY <1>1, <1>2 DEF IInv, TypeOK
<1>6. ~LoggingIn(w) /\ ~LoggingIn(w)' /\ HandlingOf(w)'
  BY <1>1, <1>2, <1>4, <1>5 DEF LoggingIn, HandlingOf
<1>7. TypeOK'
  BY <1>2, <1>3, <1>5 DEF IInv, TypeOK
<1>8. Free' /\ HeldApart' /\ GivenOnce' /\ Handling' /\ Queues'
  BY <1>2, <1>4, <1>5, <1>6, QuietWorker DEF lists
<1>9. InTime' /\ InOrder'
  <2>1. \A d \in Conns : sent[d] <= sent'[d] /\ sent'[d] \in Nat
    BY <1>2 DEF IInv, Queues
  <2> QED BY <1>2, <1>4, <2>1, QuietTime, QuietOrder
<1>10. ASSUME ~Shared' PROVE Owned' /\ RightRoom'
  <2>1. Owned /\ RightRoom
    BY <1>2, <1>10, SharedStays DEF IInv
  <2>2. LoggedIn(Event(w).sess)
    <3>1. data[Event(w).conn] = Event(w).sess
      BY <1>1, <1>3, <2>1 DEF Owned
    <3>2. Event(w).sess # None
      BY <1>3, WorkerIs
    <3> QED BY <1>3, <2>1, <3>1, <3>2 DEF Owned
  <2>3. Owned' /\ \A d \in Conns : RoomOf(d)' = RoomOf(d)
    <3>1. ~crashed' /\ pc'[w] \notin {"push", "login", "post", "gate"}
      BY <1>1, <1>2, <1>5, <2>2
    <3>2. /\ \A v \in Workers \ {w} : pc'[v] = pc[v] /\ room'[v] = room[v]
          /\ UNCHANGED <<sessPtr, data, early, sess, entered>>
      BY <1>2, <1>5
    <3> QED BY <1>4, <2>1, <3>1, <3>2, QuietOwned
  <2>4. RightRoom'
    BY <1>2, <1>4, <2>1, <2>3, QuietRoom DEF RightRoom
  <2> QED BY <2>3, <2>4
<1> QED BY <1>7, <1>8, <1>9, <1>10 DEF IInv

\* The session's room is the one whose worker has taken him in.
LEMMA EnterRoomStep == ASSUME IInv, NEW w \in Workers, EnterRoom(w) PROVE IInv'
<1> DEFINE s == Event(w).sess
           r == Event(w).roomid
           c == Event(w).conn
<1>1. queue[w] # <<>> /\ pc[w] = "enter" /\ ~crashed /\ Event(w).kind = "HandleCreEnterRoo"
  BY AtIs DEF EnterRoom
<1>2. /\ UNCHANGED <<sessFreePtr, sessPtr, data, rooms, room, crashed, sent, wants,
                     early, merged, forwarded>>
      /\ queue' = Taken(w) /\ pc' = [pc EXCEPT ![w] = "next"]
      /\ sess' = [sess EXCEPT ![s].rroom = r] /\ entered' = entered \cup {c}
      /\ userList' = [userList EXCEPT ![r] = IF @ = None THEN s ELSE @]
  BY DEF EnterRoom, Done, lists, client, outcome
<1>3. s \in Sess /\ r \in RoomIds /\ c \in Conns /\ Event(w) \in Waiting(w) /\ r \in rooms
  BY <1>1, HeadIs DEF IInv, Handling, HandlingOf
<1>4. QueueStep({w}, {})
  BY <1>1, <1>2, Takes DEF IInv
<1>5. /\ pc'[w] = "next" /\ ~LoggingIn(w)' /\ HandlingOf(w)' /\ ~LoggingIn(w)
      /\ \A v \in Workers \ {w} : pc'[v] = pc[v]
      /\ pc' \in [Workers -> {"next", "reset", "push", "login", "post", "enter", "gate"}]
  BY <1>1, <1>2, AfterDone DEF LoggingIn
<1>6. sess' \in [Sess -> SessRecord] /\ sess'[s] = [sess[s] EXCEPT !.rroom = r]
      /\ \A x \in Sess \ {s} : sess'[x] = sess[x]
  <2>1. sess[s] \in SessRecord
    BY <1>3 DEF IInv, TypeOK, SessRecord
  <2>2. [sess[s] EXCEPT !.rroom = r] \in SessRecord
    BY <1>3, <2>1, FieldsSet
  <2>3. sess' = [sess EXCEPT ![s] = [sess[s] EXCEPT !.rroom = r]]
    BY <1>2
  <2> QED BY <1>3, <2>2, <2>3, SessSet
<1>7. TypeOK'
  <2>1. userList' \in [RoomIds -> Sess \cup {None}] /\ \A x \in RoomIds : userList'[x] # None => x \in rooms
    BY <1>2, <1>3 DEF IInv, TypeOK
  <2> QED BY <1>2, <1>3, <1>5, <1>6, <2>1 DEF IInv, TypeOK, SessRecord
<1>8. Free' /\ HeldApart' /\ GivenOnce' /\ Handling' /\ Queues'
  BY <1>2, <1>4, <1>5, QuietWorker DEF lists
<1>9. InTime' /\ InOrder'
  <2>1. \A d \in Conns : sent[d] <= sent'[d] /\ sent'[d] \in Nat
    BY <1>2 DEF IInv, Queues
  <2> QED BY <1>2, <1>4, <2>1, QuietTime, QuietOrder
<1>10. ASSUME ~Shared' PROVE Owned' /\ RightRoom'
  <2>1. Owned /\ RightRoom
    BY <1>2, <1>10, SharedStays DEF IInv
  <2>2. r # None /\ sess[s] \in SessRecord
    BY <1>3, WorkerIs DEF IInv, TypeOK, SessRecord
  <2>3. \A x \in Sess : /\ sess'[x].status = sess[x].status /\ sess'[x].ssrc = sess[x].ssrc
                        /\ sess'[x].roomid = sess[x].roomid
                        /\ (sess[x].rroom # None => sess'[x].rroom # None)
                        /\ (x = s => sess'[x].rroom = r)
    BY <1>6, <2>2 DEF SessRecord
  <2>4. data[c] = s /\ s # None
    BY <1>1, <1>3, <2>1, WorkerIs DEF Owned
  <2>5. Owned' /\ \A d \in Conns : RoomOf(d)' = RoomOf(d)
    <3>1. \A d \in entered' \ entered : data[d] # None /\ sess'[data[d]].rroom # None
      BY <1>2, <1>3, <2>2, <2>3, <2>4
    <3>2. ~crashed' /\ pc'[w] \notin {"push", "login", "post", "gate"}
      BY <1>1, <1>2, <1>5
    <3>3. /\ \A v \in Workers \ {w} : pc'[v] = pc[v] /\ room'[v] = room[v]
          /\ UNCHANGED <<sessPtr, data, early>>
      BY <1>2, <1>5
    <3> HIDE DEF s, r, c
    <3> QED BY <1>4, <2>1, <2>3, <3>1, <3>2, <3>3, QuietOwned
  <2>6. \A d \in Conns : getWorker(d) \in {w} => ~Asks(d, 1)
    BY <1>1, HeadAsks
  <2>7. RightRoom'
    BY <1>2, <1>4, <2>1, <2>5, <2>6, QuietRoom DEF RightRoom
  <2> QED BY <2>5, <2>7
<1> QED BY <1>7, <1>8, <1>9, <1>10 DEF IInv

\* The room of him who sends audio is read.
LEMMA ReadRoomStep == ASSUME IInv, NEW w \in Workers, ReadRoom(w) PROVE IInv'
<1> DEFINE c == Event(w).conn
<1>1. queue[w] # <<>> /\ pc[w] = "next" /\ ~crashed /\ Event(w).kind = "audio" /\ LoggedIn(data[c])
  BY AtIs DEF ReadRoom
<1>2. /\ UNCHANGED <<sessFreePtr, sessPtr, data, sess, rooms, userList, crashed, sent, wants,
                     early, entered, merged, forwarded, queue>>
      /\ pc' = [pc EXCEPT ![w] = "gate"] /\ room' = [room EXCEPT ![w] = sess[data[c]].rroom]
  BY DEF ReadRoom, Goto, lists, places, client, outcome
<1>3. c \in Conns /\ Event(w) \in Waiting(w) /\ data[c] \in Sess /\ data[c] # None
  BY <1>1, HeadIs DEF IInv, TypeOK, LoggedIn
<1>4. QueueStep({}, {}) /\ {} \in SUBSET {w} /\ Event(w)' = Event(w)
  BY <1>2, Stays DEF IInv, Event
<1>5. /\ pc' \in [Workers -> {"next", "reset", "push", "login", "post", "enter", "gate"}]
      /\ \A v \in Workers \ {w} : pc'[v] = pc[v] /\ room'[v] = room[v]
      /\ pc'[w] = "gate" /\ room'[w] = sess[data[c]].rroom
  BY <1>1, <1>2 DEF IInv, TypeOK
<1>6. ~LoggingIn(w) /\ ~LoggingIn(w)' /\ HandlingOf(w)'
  BY <1>1, <1>2, <1>3, <1>4, <1>5 DEF LoggingIn, HandlingOf
<1>7. TypeOK'
  <2>1. room' \in [Workers -> RoomIds \cup {None}]
    BY <1>2, <1>3 DEF IInv, TypeOK
  <2> QED BY <1>2, <1>5, <2>1 DEF IInv, TypeOK
<1>8. Free' /\ HeldApart' /\ GivenOnce' /\ Handling' /\ Queues'
  BY <1>2, <1>4, <1>5, <1>6, QuietWorker DEF lists
<1>9. InTime' /\ InOrder'
  <2>1. \A d \in Conns : sent[d] <= sent'[d] /\ sent'[d] \in Nat
    BY <1>2 DEF IInv, Queues
  <2> QED BY <1>2, <1>4, <2>1, QuietTime, QuietOrder
<1>10. ASSUME ~Shared' PROVE Owned' /\ RightRoom'
  <2>1. Owned /\ RightRoom
    BY <1>2, <1>10, SharedStays DEF IInv
  <2>2. ~early => room'[w] # None
    <3>1. ~early => c \in entered
      BY <1>1, <1>3 DEF IInv, InTime
    <3> QED BY <1>5, <2>1, <3>1 DEF Owned
  <2>3. Owned' /\ \A d \in Conns : RoomOf(d)' = RoomOf(d)
    <3>1. ~crashed' /\ pc'[w] \notin {"push", "login", "post"}
      BY <1>1, <1>2, <1>5
    <3>2. UNCHANGED <<sessPtr, data, early, sess, entered>>
      BY <1>2
    <3> QED BY <1>4, <1>5, <2>1, <2>2, <3>1, <3>2, QuietOwned
  <2>4. RightRoom'
    BY <1>2, <1>4, <2>1, <2>3, QuietRoom DEF RightRoom
  <2> QED BY <2>3, <2>4
<1> QED BY <1>7, <1>8, <1>9, <1>10 DEF IInv

\* Video is sent to the subscribers.
LEMMA OutConsumeQueueStep == ASSUME IInv, NEW w \in Workers, OutConsumeQueue(w) PROVE IInv'
<1> DEFINE c == Event(w).conn
           s == data[c]
<1>1. queue[w] # <<>> /\ pc[w] = "next" /\ ~crashed /\ Event(w).kind = "video" /\ LoggedIn(s)
  BY AtIs DEF OutConsumeQueue
<1>2. /\ UNCHANGED <<sessFreePtr, sessPtr, data, sess, rooms, userList, room, crashed, sent, wants,
                     early, entered, merged>>
      /\ queue' = Taken(w) /\ pc' = [pc EXCEPT ![w] = "next"]
      /\ forwarded' = forwarded \cup {[from |-> c, to |-> sess[s].ssrc] : q \in sess[s].bySubscList}
  BY DEF OutConsumeQueue, Done, lists, places, client
<1>3. c \in Conns
  BY <1>1, HeadIs
<1>4. QueueStep({w}, {})
  BY <1>1, <1>2, Takes DEF IInv
<1>5. /\ pc'[w] = "next" /\ ~LoggingIn(w)' /\ HandlingOf(w)' /\ ~LoggingIn(w)
      /\ \A v \in Workers \ {w} : pc'[v] = pc[v]
      /\ pc' \in [Workers -> {"next", "reset", "push", "login", "post", "enter", "gate"}]
  BY <1>1, <1>2, AfterDone DEF LoggingIn
<1>6. TypeOK'
  BY <1>2, <1>5 DEF IInv, TypeOK
<1>7. Free' /\ HeldApart' /\ GivenOnce' /\ Handling' /\ Queues'
  BY <1>2, <1>4, <1>5, QuietWorker DEF lists
<1>8. InTime' /\ InOrder'
  <2>1. \A d \in Conns : sent[d] <= sent'[d] /\ sent'[d] \in Nat
    BY <1>2 DEF IInv, Queues
  <2> QED BY <1>2, <1>4, <2>1, QuietTime, QuietOrder
<1>9. ASSUME ~Shared' PROVE Owned' /\ RightRoom'
  <2>1. Owned /\ RightRoom
    BY <1>2, <1>9, SharedStays DEF IInv
  <2>2. Owned' /\ \A d \in Conns : RoomOf(d)' = RoomOf(d)
    BY <1>1, <1>2, <1>4, <1>5, <2>1, QuietOwned
  <2>3. \A d \in Conns : getWorker(d) \in {w} => ~Asks(d, 1)
    BY <1>1, HeadAsks
  <2>4. \A f \in forwarded' : f.from = f.to
    <3>1. sess[s].ssrc = c
      BY <1>1, <1>3, <2>1 DEF Owned, LoggedIn
    <3> QED BY <1>2, <2>1, <3>1 DEF RightRoom
  <2>5. RightRoom'
    BY <1>2, <1>4, <2>1, <2>2, <2>3, <2>4, QuietRoom DEF RightRoom
  <2> QED BY <2>2, <2>5
<1> QED BY <1>6, <1>7, <1>8, <1>9 DEF IInv

\* What comes behind the first event of a channel is later.
LEMMA BehindHead ==
  ASSUME IInv, NEW w \in Workers, queue[w] # <<>>, NEW N, QueueStep({w}, N),
         NEW f \in Waiting(w)', \A e \in Events : <<w, e>> \in N => e # f
  PROVE  Later(Event(w), f)
<1>1. PICK i \in 1..Len(queue'[w]) : f = queue'[w][i]
  BY DEF Waiting
<1>2. queue'[w] \in Seq(Events)
  BY DEF QueueStep
<1>3. Len(queue'[w]) \in Nat /\ Len(queue[w]) \in Nat /\ f \in Events
  BY <1>1, <1>2, LenProperties, ElementOfSeq, QueueTypes DEF IInv
<1>4. Shift({w}, w) = 1
  BY DEF Shift
<1>5. i + 1 <= Len(queue[w]) /\ f = queue[w][i+1]
  BY <1>1, <1>3, <1>4 DEF QueueStep
<1>6. i + 1 \in 1..Len(queue[w]) /\ 1 \in 1..(i+1)-1
  BY <1>3, <1>5
<1>7. Later(queue[w][1], queue[w][i+1])
  BY <1>6 DEF IInv, InOrder
<1> QED BY <1>5, <1>7, QueueTypes DEF IInv

\* A frame passed on from the worker of its sender to that of the room.
LEMMA PassedOnOrder ==
  ASSUME IInv, NEW w \in Workers, queue[w] # <<>>, Event(w).kind = "audio", NEW r \in RoomIds,
         NEW N, N = {<<getWorker(r), [kind |-> "RoomMergeData", room |-> r, frame |-> Event(w)]>>},
         QueueStep({w}, N), UNCHANGED <<sent, merged>>
  PROVE  InOrder'
<1> DEFINE h == Event(w)
           g == [kind |-> "RoomMergeData", room |-> r, frame |-> h]
<1>1. h \in AudioEvents /\ h \in Waiting(w) /\ h.conn \in Conns /\ getWorker(h.conn) = w
      /\ h.kind = "audio"
  BY HeadIs
<1>2. getWorker(r) \in Workers
  BY WorkerIs
<1>3. g.kind = "RoomMergeData" /\ g.room = r /\ g.frame = h
  OBVIOUS
<1>4. N = {<<getWorker(r), g>>}
  OBVIOUS
<1> HIDE DEF g, h
<1>5. \A v \in Workers, e \in Events : <<v, e>> \in N => v = getWorker(r) /\ e = g
  BY <1>4
<1>6. \A v \in Workers : \A e \in Waiting(v) : e.kind = "RoomMergeData" =>
         \A u \in Workers : \A f \in Waiting(u) :
           f.kind = "audio" /\ f.conn = e.frame.conn => e.frame.n < f.n
  BY DEF IInv, InOrder
<1>7. \A v \in Workers, e \in Events :
        <<v, e>> \in N => \A i \in 1..Len(queue[v]) : Later(queue[v][i], e)
  <2> SUFFICES ASSUME NEW i \in 1..Len(queue[getWorker(r)])
               PROVE  Later(queue[getWorker(r)][i], g)
    BY <1>5
  <2>1. queue[getWorker(r)][i] \in Waiting(getWorker(r))
    BY DEF Waiting
  <2> QED BY <1>1, <1>2, <1>3, <1>6, <2>1 DEF Later
<1>8. \A v \in Workers : \A j \in 1..Len(queue'[v]) : \A i \in 1..j-1 :
        Later(queue'[v][i], queue'[v][j])
  BY <1>7, LaterStep DEF IInv
<1>9. ASSUME NEW v \in Workers, NEW e \in Waiting(v)'
      PROVE  e \in Events /\ (e \in Waiting(v) \/ (v = getWorker(r) /\ e = g))
  BY <1>5, StepWaiting DEF IInv
<1>10. ASSUME NEW v \in Workers, NEW f \in Waiting(v)', f.kind = "audio", f.conn = h.conn
       PROVE  h.n < f.n
  <2>1. f \in Waiting(v) /\ f \in Events
    BY <1>3, <1>9, <1>10
  <2>2. f \in ClientEvents
    BY <1>10, <2>1 DEF Events, ClientEvents, WorkerEvents
  <2>3. v = w
    BY <1>1, <1>10, <2>1, <2>2 DEF IInv, Queues
  <2>4. Later(h, f)
    BY <1>3, <1>5, <1>10, <2>3, BehindHead DEF h
  <2> QED BY <1>1, <1>10, <2>4 DEF Later
<1>11. h.n < sent[h.conn]
  BY <1>1 DEF IInv, InOrder
<1>12. ASSUME NEW v \in Workers, NEW e \in Waiting(v)'
       PROVE  /\ e.kind = "audio" => e.n < sent[e.conn]
              /\ e.kind = "RoomMergeData" =>
                   /\ v = getWorker(e.room)
                   /\ e.frame.n < sent[e.frame.conn]
                   /\ \A u \in Workers : \A f \in Waiting(u)' :
                        f.kind = "audio" /\ f.conn = e.frame.conn => e.frame.n < f.n
  <2>1. CASE e = g /\ v = getWorker(r)
    BY <1>3, <1>10, <1>11, <2>1
  <2>2. CASE e \in Waiting(v)
    <3>1. ASSUME e.kind = "RoomMergeData", NEW u \in Workers, NEW f \in Waiting(u)',
                 f.kind = "audio", f.conn = e.frame.conn
          PROVE  e.frame.n < f.n
      <4>1. f \in Waiting(u)
        BY <1>3, <1>9, <3>1
      <4> QED BY <1>6, <2>2, <3>1, <4>1
    <3> QED BY <2>2, <3>1 DEF IInv, InOrder
  <2> QED BY <1>9, <2>1, <2>2
<1>13. ASSUME NEW i \in 1..Len(merged)
       PROVE  LET m == merged[i] IN
              /\ m.frame.n < sent[m.frame.conn]
              /\ \A v \in Workers : \A e \in Waiting(v)' :
                   /\ e.kind = "audio" /\ e.conn = m.frame.conn => m.frame.n < e.n
                   /\ e.kind = "RoomMergeData" /\ e.room = m.room /\ e.frame.conn = m.frame.conn =>
                        m.frame.n < e.frame.n
  <2>1. \A v \in Workers : \A e \in Waiting(v) :
          /\ e.kind = "audio" /\ e.conn = merged[i].frame.conn => merged[i].frame.n < e.n
          /\ e.kind = "RoomMergeData" /\ e.room = merged[i].room
             /\ e.frame.conn = merged[i].frame.conn => merged[i].frame.n < e.frame.n
    BY DEF IInv, InOrder
  <2>2. merged[i].frame.n < sent[merged[i].frame.conn]
    BY DEF IInv, InOrder
  <2>3. ASSUME NEW v \in Workers, NEW e \in Waiting(v)'
        PROVE  /\ e.kind = "audio" /\ e.conn = merged[i].frame.conn => merged[i].frame.n < e.n
               /\ e.kind = "RoomMergeData" /\ e.room = merged[i].room
                  /\ e.frame.conn = merged[i].frame.conn => merged[i].frame.n < e.frame.n
    <3>1. CASE e = g
      BY <1>1, <1>3, <2>1, <3>1
    <3>2. CASE e \in Waiting(v)
      BY <2>1, <3>2
    <3> QED BY <1>9, <3>1, <3>2
  <2> QED BY <2>2, <2>3
<1> QED BY <1>8, <1>12, <1>13 DEF IInv, InOrder

\* Audio is passed on to its room, if the room he asked for is the one he is in.
LEMMA PreRoomMergeDataStep == ASSUME IInv, NEW w \in Workers, PreRoomMergeData(w) PROVE IInv'
<1> DEFINE c == Event(w).conn
           e == [kind |-> "RoomMergeData", room |-> room[w], frame |-> Event(w)]
<1>1. queue[w] # <<>> /\ pc[w] = "gate" /\ ~crashed /\ Event(w).kind = "audio"
  BY AtIs DEF PreRoomMergeData
<1>2. UNCHANGED <<sessFreePtr, sessPtr, data, sess, rooms, userList, room, sent, wants,
                  early, entered, merged, forwarded>>
  BY DEF PreRoomMergeData, lists, places, client, outcome
<1>3. \/ room[w] = None /\ crashed' = TRUE /\ pc' = [pc EXCEPT ![w] = pc[w]] /\ UNCHANGED queue
      \/ /\ room[w] # None /\ InStep(w) /\ UNCHANGED crashed /\ pc' = [pc EXCEPT ![w] = "next"]
         /\ queue' = [Taken(w) EXCEPT ![getWorker(room[w])] = Append(@, e)]
      \/ /\ room[w] # None /\ UNCHANGED crashed /\ pc' = [pc EXCEPT ![w] = "next"]
         /\ queue' = Taken(w)
  BY DEF PreRoomMergeData, Crash, Goto, Done, DoneAfter
<1>4. c \in Conns /\ getWorker(c) = w /\ Event(w) \in AudioEvents /\ Event(w) \in Waiting(w)
      /\ data[c] # None
  BY <1>1, HeadIs DEF IInv, Handling, HandlingOf
<1>5. room[w] # None => room[w] \in RoomIds /\ getWorker(room[w]) \in Workers
                        /\ e \in WorkerEvents /\ e \in Events
  <2>1. room[w] # None => room[w] \in RoomIds /\ getWorker(room[w]) \in Workers
    BY WorkerIs DEF IInv, TypeOK
  <2>2. room[w] # None => e \in WorkerEvents
    BY <1>4, <2>1 DEF WorkerEvents
  <2> QED BY <2>1, <2>2, WorkerEventIs
<1>6. sent \in [Conns -> Nat] /\ \A d \in Conns : sent[d] <= sent'[d] /\ sent'[d] \in Nat
  BY <1>2 DEF IInv, Queues
<1>7. CASE room[w] = None /\ crashed' = TRUE /\ pc' = [pc EXCEPT ![w] = pc[w]] /\ UNCHANGED queue
  <2>1. QueueStep({}, {}) /\ {} \in SUBSET {w} /\ Event(w)' = Event(w) /\ pc' = pc
    BY <1>7, Stays DEF IInv, Event, TypeOK
  <2>2. TypeOK' /\ ~LoggingIn(w) /\ ~LoggingIn(w)'
    BY <1>1, <1>2, <1>7, <2>1 DEF IInv, TypeOK, LoggingIn
  <2>3. HandlingOf(w)'
    BY <1>1, <1>2, <1>4, <1>7, <2>1, <2>2 DEF HandlingOf
  <2>4. Free' /\ HeldApart' /\ GivenOnce' /\ Handling' /\ Queues'
    BY <1>2, <2>1, <2>2, <2>3, QuietWorker DEF lists
  <2>5. InTime' /\ InOrder'
    BY <1>2, <1>6, <2>1, QuietTime, QuietOrder
  <2>6. ASSUME ~Shared' PROVE Owned' /\ RightRoom'
    <3>1. Owned /\ RightRoom
      BY <1>2, <2>6, SharedStays DEF IInv
    <3>2. early /\ pc'[w] = "gate"
      BY <1>1, <1>7, <2>1, <3>1 DEF Owned
    <3>3. Owned' /\ \A d \in Conns : RoomOf(d)' = RoomOf(d)
      BY <1>2, <2>1, <3>1, <3>2, QuietOwned
    <3> QED BY <1>2, <2>1, <3>1, <3>3, QuietRoom DEF RightRoom
  <2> QED BY <2>2, <2>4, <2>5, <2>6 DEF IInv
<1>8. CASE UNCHANGED crashed /\ pc' = [pc EXCEPT ![w] = "next"]
           /\ \/ queue' = Taken(w)
              \/ /\ room[w] # None /\ InStep(w)
                 /\ queue' = [Taken(w) EXCEPT ![getWorker(room[w])] = Append(@, e)]
  <2>1. /\ pc'[w] = "next" /\ ~LoggingIn(w)' /\ HandlingOf(w)' /\ ~LoggingIn(w)
        /\ \A v \in Workers \ {w} : pc'[v] = pc[v]
        /\ pc' \in [Workers -> {"next", "reset", "push", "login", "post", "enter", "gate"}]
    BY <1>1, <1>8, AfterDone DEF LoggingIn
  <2>2. PICK N : /\ QueueStep({w}, N)
                 /\ \/ N = {}
                    \/ room[w] # None /\ InStep(w) /\ N = {<<getWorker(room[w]), e>>}
    <3>1. CASE queue' = Taken(w)
      <4>1. QueueStep({w}, {})
        BY <1>1, <3>1, Takes DEF IInv
      <4> QED BY <4>1
    <3>2. CASE /\ room[w] # None /\ InStep(w)
               /\ queue' = [Taken(w) EXCEPT ![getWorker(room[w])] = Append(@, e)]
      <4>1. QueueStep({w}, {<<getWorker(room[w]), e>>})
        <5> HIDE DEF e
        <5> QED BY <1>1, <1>5, <3>2, Moves DEF IInv
      <4> QED BY <3>2, <4>1
    <3> QED BY <1>8, <3>1, <3>2
  <2>3. \A v \in Workers, f \in Events : <<v, f>> \in N =>
          f \in WorkerEvents /\ f = e /\ room[w] # None /\ InStep(w)
    <3> HIDE DEF e
    <3> QED BY <1>5, <2>2
  <2>4. TypeOK'
    BY <1>2, <1>8, <2>1 DEF IInv, TypeOK
  <2>5. Free' /\ HeldApart' /\ GivenOnce' /\ Handling' /\ Queues'
    BY <1>2, <2>1, <2>2, <2>3, QuietWorker DEF lists
  <2>6. InTime'
    BY <1>2, <2>2, <2>3, QuietTime
  <2>7. InOrder'
    <3>1. CASE N = {}
      BY <1>2, <1>6, <2>2, <3>1, QuietOrder
    <3>2. CASE N # {}
      BY <1>1, <1>2, <1>5, <2>2, <3>2, PassedOnOrder
    <3> QED BY <3>1, <3>2
  <2>8. ASSUME ~Shared' PROVE Owned' /\ RightRoom'
    <3>1. Owned /\ RightRoom
      BY <1>2, <2>8, SharedStays DEF IInv
    <3>2. Owned' /\ \A d \in Conns : RoomOf(d)' = RoomOf(d)
      <4>1. ~crashed' /\ \A v \in Workers, f \in Events :
              <<v, f>> \in N => f.kind # "HandleCreEnterRoo"
        BY <1>1, <1>8, <2>3
      <4> HIDE DEF e
      <4>2. /\ \A v \in Workers \ {w} : pc'[v] = pc[v] /\ room'[v] = room[v]
            /\ UNCHANGED <<sessPtr, data, early, sess, entered>>
            /\ pc'[w] \notin {"push", "login", "post", "gate"}
        BY <1>2, <2>1
      <4> QED BY <2>2, <3>1, <4>1, <4>2, QuietOwned
    <3>3. \A d \in Conns : getWorker(d) \in {w} => ~Asks(d, 1)
      BY <1>1, HeadAsks
    <3>4. room[w] # None /\ InStep(w) => room[w] = Event(w).wants
      <4>1. 1 \in 1..Len(queue[w]) /\ queue[w][1] = Event(w)
        BY <1>1, QueueTypes DEF IInv
      <4>2. AskedFor(c, 1, Event(w).wants)
        BY <1>1, <3>1, <4>1 DEF RightRoom
      <4>3. RoomOf(c) \in {0, Event(w).wants}
        BY <4>2 DEF AskedFor
      <4>4. InStep(w) => room[w] = RoomOf(c)
        BY <1>4 DEF InStep, RoomOf
      <4>5. room[w] # None => room[w] # 0
        BY <1>5, WorkerIs
      <4> QED BY <4>3, <4>4, <4>5
    <3>5. \A v \in Workers, f \in Events : <<v, f>> \in N =>
            f \in WorkerEvents /\ (f.kind = "RoomMergeData" => f.room = f.frame.wants)
      BY <2>3, <3>4
    <3>6. RightRoom'
      <4> HIDE DEF e
      <4> QED BY <1>2, <2>2, <3>1, <3>2, <3>3, <3>5, QuietRoom DEF RightRoom
    <3> QED BY <3>2, <3>6
  <2> QED BY <2>4, <2>5, <2>6, <2>7, <2>8 DEF IInv
<1> QED BY <1>3, <1>7, <1>8

\* The room's worker takes a frame in.
LEMMA RoomMergeDataStep == ASSUME IInv, NEW w \in Workers, RoomMergeData(w) PROVE IInv'
<1> DEFINE h == Event(w)
           m == [room |-> h.room, frame |-> h.frame]
<1>1. queue[w] # <<>> /\ pc[w] = "next" /\ ~crashed /\ h.kind = "RoomMergeData"
  BY AtIs DEF RoomMergeData
<1>2. /\ UNCHANGED <<sessFreePtr, sessPtr, data, sess, rooms, userList, room, crashed, sent, wants,
                     early, entered, forwarded>>
      /\ queue' = Taken(w) /\ pc' = [pc EXCEPT ![w] = "next"] /\ merged' = Append(merged, m)
  BY DEF RoomMergeData, Done, lists, places, client
<1>3. h.room \in RoomIds /\ h.frame \in AudioEvents /\ h \in Waiting(w)
  BY <1>1, HeadIs
<1>4. QueueStep({w}, {})
  BY <1>1, <1>2, Takes DEF IInv
<1>5. /\ pc'[w] = "next" /\ ~LoggingIn(w)' /\ HandlingOf(w)' /\ ~LoggingIn(w)
      /\ \A v \in Workers \ {w} : pc'[v] = pc[v]
      /\ pc' \in [Workers -> {"next", "reset", "push", "login", "post", "enter", "gate"}]
  BY <1>1, <1>2, AfterDone DEF LoggingIn
<1>6. TypeOK'
  BY <1>2, <1>5 DEF IInv, TypeOK
<1>7. Free' /\ HeldApart' /\ GivenOnce' /\ Handling' /\ Queues'
  BY <1>2, <1>4, <1>5, QuietWorker DEF lists
<1>8. InTime'
  BY <1>2, <1>4, QuietTime
<1>9. /\ merged' \in Seq([room : RoomIds, frame : AudioEvents])
      /\ Len(merged) \in Nat /\ Len(merged') = Len(merged) + 1
      /\ \A i \in 1..Len(merged) : merged'[i] = merged[i]
      /\ merged'[Len(merged)+1] = m
  <2>1. m \in [room : RoomIds, frame : AudioEvents]
    BY <1>3
  <2>2. merged \in Seq([room : RoomIds, frame : AudioEvents])
    BY DEF IInv, InOrder
  <2> HIDE DEF m
  <2> QED BY <1>2, <2>1, <2>2, AppendProperties, LenProperties
<1>10. m.room = h.room /\ m.frame = h.frame
  OBVIOUS
<1> HIDE DEF m
<1>11. /\ w = getWorker(h.room) /\ h.frame.n < sent[h.frame.conn]
       /\ \A v \in Workers : \A f \in Waiting(v) :
            f.kind = "audio" /\ f.conn = h.frame.conn => h.frame.n < f.n
  BY <1>1, <1>3 DEF IInv, InOrder
<1>12. ASSUME NEW v \in Workers, NEW e \in Waiting(v)' PROVE e \in Waiting(v)
  <2>1. Queues
    BY DEF IInv
  <2>2. PICK N : N = {} /\ QueueStep({w}, N)
    BY <1>4
  <2>3. e \in Waiting(v) \/ <<v, e>> \in N
    BY <2>1, <2>2, StepWaiting
  <2> QED BY <2>2, <2>3
<1>13. ASSUME NEW v \in Workers, NEW e \in Waiting(v)', e.kind = "RoomMergeData",
              e.room = m.room, e.frame.conn = m.frame.conn
       PROVE  m.frame.n < e.frame.n
  <2>1. v = getWorker(e.room)
    BY <1>12, <1>13 DEF IInv, InOrder
  <2>2. v = w
    BY <1>10, <1>11, <1>13, <2>1
  <2>3. Later(h, e)
    BY <1>1, <1>4, <2>2, BehindHead
  <2> QED BY <1>1, <1>10, <1>13, <2>3 DEF Later
<1>14. InOrder'
  <2>1. \A v \in Workers : \A j \in 1..Len(queue'[v]) : \A i \in 1..j-1 :
          Later(queue'[v][i], queue'[v][j])
    BY <1>4, LaterStep DEF IInv
  <2>2. \A v \in Workers : \A e \in Waiting(v)' :
          /\ e.kind = "audio" => e.n < sent'[e.conn]
          /\ e.kind = "RoomMergeData" =>
               /\ v = getWorker(e.room)
               /\ e.frame.n < sent'[e.frame.conn]
               /\ \A u \in Workers : \A f \in Waiting(u)' :
                    f.kind = "audio" /\ f.conn = e.frame.conn => e.frame.n < f.n
    BY <1>2, <1>12 DEF IInv, InOrder
  <2>3. ASSUME NEW i \in 1..Len(merged')
        PROVE  /\ merged'[i].frame.n < sent'[merged'[i].frame.conn]
               /\ \A v \in Workers : \A e \in Waiting(v)' :
                    /\ e.kind = "audio" /\ e.conn = merged'[i].frame.conn => merged'[i].frame.n < e.n
                    /\ e.kind = "RoomMergeData" /\ e.room = merged'[i].room
                       /\ e.frame.conn = merged'[i].frame.conn => merged'[i].frame.n < e.frame.n
    <3>1. CASE i = Len(merged) + 1
      BY <1>2, <1>9, <1>10, <1>11, <1>12, <1>13, <3>1
    <3>2. CASE i \in 1..Len(merged)
      BY <1>2, <1>9, <1>12, <3>2 DEF IInv, InOrder
    <3> QED BY <1>9, <3>1, <3>2
  <2>4. ASSUME NEW j \in 1..Len(merged'), NEW i \in 1..j-1,
               merged'[i].room = merged'[j].room, merged'[i].frame.conn = merged'[j].frame.conn
        PROVE  merged'[i].frame.n < merged'[j].frame.n
    <3>1. i \in 1..Len(merged)
      BY <1>9
    <3>2. CASE j = Len(merged) + 1
      <4>1. merged[i].room = h.room /\ merged[i].frame.conn = h.frame.conn
        BY <1>9, <1>10, <2>4, <3>1, <3>2
      <4>2. merged[i].frame.n < h.frame.n
        BY <1>1, <1>3, <3>1, <4>1 DEF IInv, InOrder
      <4> QED BY <1>9, <1>10, <3>1, <3>2, <4>2
    <3>3. CASE j \in 1..Len(merged)
      <4>1. merged'[i] = merged[i] /\ merged'[j] = merged[j]
        BY <1>9, <3>1, <3>3
      <4> QED BY <2>4, <3>3, <4>1 DEF IInv, InOrder
    <3> QED BY <1>9, <3>2, <3>3
  <2> QED BY <1>9, <2>1, <2>2, <2>3, <2>4 DEF InOrder
<1>15. ASSUME ~Shared' PROVE Owned' /\ RightRoom'
  <2>1. Owned /\ RightRoom
    BY <1>2, <1>15, SharedStays DEF IInv
  <2>2. Owned' /\ \A d \in Conns : RoomOf(d)' = RoomOf(d)
    BY SMTT(30), <1>1, <1>2, <1>4, <1>5, <2>1, QuietOwned
  <2>3. \A d \in Conns : getWorker(d) \in {w} => ~Asks(d, 1)
    BY <1>1, HeadAsks
  <2>4. \A i \in 1..Len(merged') : merged'[i].room = merged'[i].frame.wants
    <3>1. h.room = h.frame.wants
      BY <1>1, <1>3, <2>1 DEF RightRoom
    <3>2. \A i \in 1..Len(merged') : i \in 1..Len(merged) \/ i = Len(merged) + 1
      BY <1>9
    <3> QED BY <1>9, <1>10, <2>1, <3>1, <3>2 DEF RightRoom
  <2>5. RightRoom'
    BY <1>2, <1>4, <2>1, <2>2, <2>3, <2>4, QuietRoom DEF RightRoom
  <2> QED BY <2>2, <2>5
<1> QED BY <1>6, <1>7, <1>8, <1>14, <1>15 DEF IInv

\* Two connections that do not share have different sessions.
LEMMA NotShared ==
  ASSUME ~Shared, NEW c \in Conns, NEW d \in Conns, c # d, sessPtr[c] # None
  PROVE  sessPtr[c] # sessPtr[d]
BY DEF Shared

\* The session's roomid is set to the room asked for.
LEMMA AskForRoomStep == ASSUME IInv, NEW w \in Workers, AskForRoom(w) PROVE IInv'
<1> DEFINE c == Event(w).conn
           s == data[c]
           r == Event(w).roomid
<1>1. queue[w] # <<>> /\ pc[w] = "next" /\ ~crashed /\ Event(w).kind = "createenterroom" /\ LoggedIn(s)
  BY AtIs DEF AskForRoom
<1>2. /\ UNCHANGED <<sessFreePtr, sessPtr, data, rooms, userList, room, crashed, sent, wants,
                     early, entered, merged, forwarded, queue>>
      /\ pc' = [pc EXCEPT ![w] = "post"] /\ sess' = [sess EXCEPT ![s].roomid = r]
  BY DEF AskForRoom, Goto, lists, places, client, outcome
<1>3. c \in Conns /\ getWorker(c) = w /\ s \in Sess /\ s # None /\ r \in RoomIds
  BY <1>1, HeadIs DEF IInv, TypeOK, LoggedIn
<1>4. QueueStep({}, {}) /\ {} \in SUBSET {w} /\ \A v \in Workers : Event(v)' = Event(v)
  BY <1>2, Stays DEF IInv, Event
<1>5. /\ pc' \in [Workers -> {"next", "reset", "push", "login", "post", "enter", "gate"}]
      /\ \A v \in Workers \ {w} : pc'[v] = pc[v]
      /\ pc'[w] = "post"
  BY <1>1, <1>2 DEF IInv, TypeOK
<1>6. ~LoggingIn(w) /\ ~LoggingIn(w)' /\ HandlingOf(w)'
  BY <1>1, <1>2, <1>3, <1>4, <1>5 DEF LoggingIn, HandlingOf
<1>7. sess' \in [Sess -> SessRecord] /\ sess'[s] = [sess[s] EXCEPT !.roomid = r]
      /\ \A x \in Sess \ {s} : sess'[x] = sess[x]
  <2>1. sess[s] \in SessRecord
    BY <1>3 DEF IInv, TypeOK, SessRecord
  <2>2. [sess[s] EXCEPT !.roomid = r] \in SessRecord
    BY <1>3, <2>1, FieldsSet
  <2>3. sess' = [sess EXCEPT ![s] = [sess[s] EXCEPT !.roomid = r]]
    BY <1>2
  <2> QED BY <1>3, <2>2, <2>3, SessSet
<1>8. TypeOK'
  BY <1>2, <1>5, <1>7 DEF IInv, TypeOK, SessRecord
<1>9. Free' /\ HeldApart' /\ GivenOnce' /\ Handling' /\ Queues'
  BY <1>2, <1>4, <1>5, <1>6, QuietWorker DEF lists
<1>10. InTime' /\ InOrder'
  <2>1. \A d \in Conns : sent[d] <= sent'[d] /\ sent'[d] \in Nat
    BY <1>2 DEF IInv, Queues
  <2> QED BY <1>2, <1>4, <2>1, QuietTime, QuietOrder
<1>11. ASSUME ~Shared' PROVE Owned' /\ RightRoom'
  <2>1. ~Shared /\ Owned /\ RightRoom
    BY <1>2, <1>11, SharedStays DEF IInv
  <2>2. sessPtr[c] = s
    BY <1>3 DEF IInv, GivenOnce
  <2>3. sess[s] \in SessRecord
    BY <1>3 DEF IInv, TypeOK, SessRecord
  <2>4. \A x \in Sess : /\ sess'[x].status = sess[x].status /\ sess'[x].ssrc = sess[x].ssrc
                        /\ sess'[x].rroom = sess[x].rroom
                        /\ sess'[x].roomid = IF x = s THEN r ELSE sess[x].roomid
    BY <1>7, <2>3 DEF SessRecord
  <2>5. ASSUME NEW d \in Conns, d # c PROVE sessPtr[d] # s /\ (data[d] # None => data[d] # s)
    BY <1>3, <2>1, <2>2, <2>5, NotShared DEF IInv, GivenOnce
  <2>6. \A d \in Conns : data[d] # None => data[d] \in Sess
    BY DEF IInv, TypeOK
  <2>7. \A d \in Conns : RoomOf(d)' = IF d = c THEN r ELSE RoomOf(d)
    BY <1>2, <1>3, <2>4, <2>5, <2>6 DEF RoomOf
  <2>8. Owned'
    <3>1. \A d \in Conns : data'[d] # None => LoggedIn(data[d])' /\ sess'[data'[d]].ssrc = d
      BY <1>2, <2>1, <2>4, <2>6 DEF Owned, LoggedIn
    <3>2. \A v \in Workers : \A e \in Waiting(v)' :
            e.kind = "HandleCreEnterRoo" => data'[e.conn] = e.sess
      BY <1>2, <2>1 DEF Owned, Waiting
    <3>3. \A d \in entered' : data'[d] # None /\ sess'[data'[d]].rroom # None
      <4>1. entered \subseteq Conns
        BY DEF IInv, TypeOK
      <4> QED BY <1>2, <2>1, <2>4, <2>6, <4>1 DEF Owned
    <3>4. ASSUME NEW v \in Workers
          PROVE  /\ pc'[v] \in {"push", "login"} => sess'[sessPtr'[Event(v)'.conn]].roomid = 0
                 /\ pc'[v] = "post" => RoomOf(Event(v).conn)' = Event(v)'.roomid
                 /\ pc'[v] = "gate" /\ ~early' => room'[v] # None
      <4>1. CASE v = w
        <5>1. ASSUME NEW d \in Conns, d = c PROVE RoomOf(Event(w).conn)' = r
          <6>1. RoomOf(d)' = r
            BY <2>7, <5>1
          <6>2. Event(w)'.conn = d
            BY <1>4, <5>1
          <6> QED BY <6>1, <6>2 DEF RoomOf
        <5>2. RoomOf(Event(w).conn)' = Event(w)'.roomid
          BY <1>3, <1>4, <5>1
        <5> QED BY <1>5, <4>1, <5>2
      <4>2. CASE v # w
        <5>1. pc'[v] = pc[v] /\ Event(v)' = Event(v)
          BY <1>4, <1>5, <4>2
        <5>2. ASSUME pc[v] \in {"push", "login"} PROVE sess'[sessPtr[Event(v).conn]].roomid = 0
          <6>1. Event(v).conn \in Conns /\ getWorker(Event(v).conn) = v
                /\ sessPtr[Event(v).conn] \in Sess
            BY <5>2, LoginIs DEF LoggingIn
          <6>2. sessPtr[Event(v).conn] # s
            BY <1>3, <2>5, <4>2, <6>1
          <6>3. sess[sessPtr[Event(v).conn]].roomid = 0
            BY <2>1, <5>2 DEF Owned
          <6> QED BY <2>4, <6>1, <6>2, <6>3
        <5>3. ASSUME pc[v] = "post" PROVE RoomOf(Event(v).conn)' = Event(v).roomid
          <6>1. Event(v).conn \in Conns /\ getWorker(Event(v).conn) = v
            BY <5>3, HeadIs DEF IInv, Handling, HandlingOf
          <6>2. RoomOf(Event(v).conn) = Event(v).roomid
            BY <2>1, <5>3 DEF Owned
          <6>3. \A d \in Conns : d # c => RoomOf(d)' = RoomOf(d)
            BY <2>7
          <6>4. Event(v).conn # c
            BY <1>3, <4>2, <6>1
          <6>5. ASSUME NEW d \in Conns, d = Event(v).conn
                PROVE  RoomOf(Event(v).conn)' = RoomOf(d)
            BY <5>1, <6>3, <6>4, <6>5 DEF RoomOf
          <6> QED BY <6>1, <6>2, <6>5
        <5> QED BY <1>2, <2>1, <5>1, <5>2, <5>3 DEF Owned
      <4> QED BY <4>1, <4>2
    <3> QED BY <1>1, <1>2, <3>1, <3>2, <3>3, <3>4 DEF Owned
  <2>9. ASSUME NEW d \in Conns, NEW i \in Nat, NEW x, AskedFor(d, i, x), d = c => i > 1
        PROVE  AskedFor(d, i, x)'
    <3>1. CASE d # c
      BY <1>2, <2>7, <2>9, <3>1 DEF AskedFor, Asks
    <3>2. CASE d = c
      <4>1. Asks(c, 1) /\ 1 \in 1..i-1
        <5>1. Event(w) = queue[w][1]
          BY <1>1, QueueTypes DEF IInv
        <5>2. i > 1
          BY <2>9, <3>2
        <5> QED BY <1>1, <1>3, <5>1, <5>2 DEF Asks
      <4>2. ~\A k \in 1..i-1 : ~Asks(c, k)
        BY <4>1
      <4> QED BY <1>2, <2>9, <3>2, <4>2 DEF AskedFor, Asks
    <3> QED BY <3>1, <3>2
  <2>10. RightRoom'
    <3>1. ASSUME NEW d \in Conns
          PROVE  AskedFor(d, Len(queue[getWorker(d)]) + 1, wants[d])'
      <4> DEFINE i == Len(queue[getWorker(d)]) + 1
                 x == wants[d]
      <4>1. i \in Nat /\ (d = c => i > 1)
        BY <1>1, <1>3, WorkerIs, QueueTypes DEF IInv
      <4>2. AskedFor(d, i, x)
        BY <2>1 DEF RightRoom
      <4>3. ASSUME NEW k \in Nat, k = i, NEW y, y = x PROVE AskedFor(d, k, y)'
        BY <2>9, <4>1, <4>2, <4>3
      <4> QED BY <1>2, <4>1, <4>3 DEF AskedFor
    <3>2. ASSUME NEW v \in Workers, NEW i \in 1..Len(queue[v]), queue[v][i].kind = "audio"
          PROVE  AskedFor(queue[v][i].conn, i, queue[v][i].wants)'
      <4>1. queue[v][i] \in Waiting(v) /\ queue[v][i] \in Events
        BY QueueTypes DEF IInv, Waiting
      <4>2. queue[v][i].conn \in Conns
        BY <3>2, <4>1 DEF Events, ClientEvents, WorkerEvents, AudioEvents
      <4>3. queue[v][i] \in ClientEvents
        BY <3>2, <4>1 DEF Events, ClientEvents, WorkerEvents
      <4>4. getWorker(queue[v][i].conn) = v
        BY <4>1, <4>3 DEF IInv, Queues
      <4>5. i \in Nat /\ (queue[v][i].conn = c => i > 1)
        <5>1. queue[w][1] = Event(w) /\ i \in Nat
          BY <1>1, QueueTypes DEF IInv
        <5>2. queue[v][i].conn = c => i # 1
          BY <1>1, <1>3, <3>2, <4>4, <5>1
        <5> QED BY <5>1, <5>2
      <4>6. AskedFor(queue[v][i].conn, i, queue[v][i].wants)
        BY <2>1, <3>2 DEF RightRoom
      <4>7. ASSUME NEW d \in Conns, d = queue[v][i].conn, NEW y, y = queue[v][i].wants
            PROVE  AskedFor(d, i, y)'
        BY <2>9, <4>5, <4>6, <4>7
      <4> QED BY <1>2, <4>2, <4>7 DEF AskedFor
    <3> QED BY <1>2, <2>1, <3>1, <3>2 DEF RightRoom, Waiting
  <2> QED BY <2>8, <2>10
<1> QED BY <1>8, <1>9, <1>10, <1>11 DEF IInv

-----------------------------------------------------------------------------
(* Logging in.                                                             *)

\* What a step of a login keeps that writes no event.
LEMMA LoginKeeps ==
  ASSUME IInv, NEW w \in Workers, NEW c \in Conns, queue[w] # <<>>, Event(w).kind = "login",
         Event(w).conn = c, getWorker(c) = w, data[c] = None,
         UNCHANGED <<data, queue, rooms, room, sent, wants, early, entered, merged>>,
         \A v \in Workers \ {w} : pc'[v] = pc[v], pc'[w] \in {"reset", "push", "login"},
         \A d \in Conns \ {c} : sessPtr'[d] = sessPtr[d], sessPtr'[c] # None
  PROVE  Handling' /\ GivenOnce' /\ Queues' /\ InTime' /\ InOrder'
<1>1. QueueStep({}, {}) /\ \A v \in Workers : Event(v)' = Event(v)
  BY Stays DEF IInv, Event
<1>2. ASSUME NEW v \in Workers, v # w, LoggingIn(v) PROVE Event(v).conn \in Conns \ {c}
  BY <1>2, LoginIs
<1>3. ASSUME NEW v \in Workers, v # w PROVE HandlingOf(v)'
  BY <1>1, <1>2, <1>3, OthersHandle
<1>4. HandlingOf(w)'
  BY <1>1 DEF HandlingOf
<1>5. Handling'
  BY <1>3, <1>4 DEF Handling
<1>6. ASSUME NEW d \in Conns
      PROVE  /\ data'[d] # None => data'[d] = sessPtr'[d]
             /\ sessPtr'[d] # None /\ data'[d] = None =>
                  LoggingIn(getWorker(d))' /\ Event(getWorker(d))'.conn = d
  <2>1. CASE d = c
    BY <1>1, <2>1 DEF LoggingIn
  <2>2. CASE d # c
    <3>1. /\ data[d] # None => data[d] = sessPtr[d]
          /\ sessPtr[d] # None /\ data[d] = None =>
               LoggingIn(getWorker(d)) /\ Event(getWorker(d)).conn = d
      BY DEF IInv, GivenOnce
    <3>2. getWorker(d) \in Workers
      BY WorkerIs
    <3>3. LoggingIn(getWorker(d)) /\ Event(getWorker(d)).conn = d => LoggingIn(getWorker(d))'
      BY <2>2, <3>2 DEF LoggingIn
    <3> QED BY <1>1, <2>2, <3>1, <3>2, <3>3
  <2> QED BY <2>1, <2>2
<1>7. GivenOnce'
  BY <1>6 DEF GivenOnce
<1>8. Queues' /\ InTime' /\ InOrder'
  <2>1. UNCHANGED <<queue, sent, wants, early, entered, merged>>
    OBVIOUS
  <2>2. Queues'
    BY <2>1 DEF IInv, Queues, Waiting
  <2>3. InTime'
    BY <2>1 DEF IInv, InTime, Waiting
  <2>4. InOrder'
    BY <2>1 DEF IInv, InOrder, Waiting
  <2> QED BY <2>2, <2>3, <2>4
<1> QED BY <1>5, <1>7, <1>8

\* A step of a login touches no session that another connection has.
LEMMA LoginOwned ==
  ASSUME IInv, Owned, RightRoom, NEW w \in Workers, NEW c \in Conns, Event(w).conn = c, getWorker(c) = w,
         UNCHANGED <<data, queue, room, wants, early, entered, crashed, merged, forwarded>>,
         \A v \in Workers \ {w} : pc'[v] = pc[v], pc'[w] \in {"reset", "push", "login"},
         \A d \in Conns \ {c} : sessPtr'[d] = sessPtr[d],
         \A d \in Conns : data[d] # None => sess'[data[d]] = sess[data[d]],
         \A v \in Workers \ {w} : LoggingIn(v) =>
           sess'[sessPtr[Event(v).conn]] = sess[sessPtr[Event(v).conn]],
         pc'[w] # "reset" => sess'[sessPtr'[c]].roomid = 0
  PROVE  Owned' /\ RightRoom'
<1>1. QueueStep({}, {}) /\ \A v \in Workers : Event(v)' = Event(v)
  BY Stays DEF IInv, Event
<1>2. \A d \in Conns : RoomOf(d)' = RoomOf(d)
  BY DEF RoomOf
<1>3. RightRoom'
  BY <1>1, <1>2, QuietRoom DEF RightRoom
<1>4. \A d \in Conns : data'[d] # None => LoggedIn(data[d])' /\ sess'[data'[d]].ssrc = d
  BY DEF Owned, LoggedIn
<1>5. \A v \in Workers : \A e \in Waiting(v)' : e.kind = "HandleCreEnterRoo" => data'[e.conn] = e.sess
  BY DEF Owned, Waiting
<1>6. \A d \in entered' : data'[d] # None /\ sess'[data'[d]].rroom # None
  <2>1. entered \subseteq Conns
    BY DEF IInv, TypeOK
  <2> QED BY <2>1 DEF Owned
<1>7. ASSUME NEW v \in Workers
      PROVE  /\ pc'[v] \in {"push", "login"} => sess'[sessPtr'[Event(v)'.conn]].roomid = 0
             /\ pc'[v] = "post" => RoomOf(Event(v).conn)' = Event(v)'.roomid
             /\ pc'[v] = "gate" /\ ~early' => room'[v] # None
  <2>1. CASE v = w
    BY <1>1, <2>1
  <2>2. CASE v # w
    <3>1. ASSUME pc[v] \in {"push", "login"} PROVE sess'[sessPtr'[Event(v).conn]].roomid = 0
      <4>1. LoggingIn(v) /\ Event(v).conn \in Conns \ {c}
        BY <2>2, <3>1, LoginIs DEF LoggingIn
      <4>2. sess[sessPtr[Event(v).conn]].roomid = 0
        BY <3>1 DEF Owned
      <4> QED BY <2>2, <4>1, <4>2
    <3>2. ASSUME pc[v] = "post" PROVE RoomOf(Event(v).conn)' = Event(v).roomid
      <4>1. Event(v).conn \in Conns
        BY <3>2, HeadIs DEF IInv, Handling, HandlingOf
      <4>2. RoomOf(Event(v).conn) = Event(v).roomid
        BY <3>2 DEF Owned
      <4>3. ASSUME NEW d \in Conns, d = Event(v).conn PROVE RoomOf(Event(v).conn)' = RoomOf(d)
        BY <1>1, <1>2, <4>3 DEF RoomOf
      <4> QED BY <4>1, <4>2, <4>3
    <3> QED BY <1>1, <2>2, <3>1, <3>2 DEF Owned
  <2> QED BY <2>1, <2>2
<1>8. crashed' => early'
  BY DEF Owned
<1> QED BY <1>3, <1>4, <1>5, <1>6, <1>7, <1>8 DEF Owned

\* A list of different ones of n is no longer than n.
LEMMA NoMore ==
  ASSUME NEW n \in Nat, NEW q \in Seq(1..n), \A i, j \in 1..Len(q) : i # j => q[i] # q[j]
  PROVE  Len(q) <= n
<1>1. Len(q) \in Nat /\ q \in [1..Len(q) -> 1..n]
  BY LenProperties
<1>2. IsFiniteSet(1..n) /\ Cardinality(1..n) = n
      /\ IsFiniteSet(1..Len(q)) /\ Cardinality(1..Len(q)) = Len(q)
  <2>1. \A m \in Nat : IsFiniteSet(1..m) /\ Cardinality(1..m) = m
    <3> SUFFICES ASSUME NEW m \in Nat PROVE IsFiniteSet(1..m) /\ Cardinality(1..m) = m
      OBVIOUS
    <3>1. 1 \in Int /\ m \in Int
      OBVIOUS
    <3>2. IsFiniteSet(1..m) /\ Cardinality(1..m) = IF 1 > m THEN 0 ELSE m - 1 + 1
      BY <3>1, FS_Interval
    <3> QED BY <3>2
  <2> QED BY <1>1, <2>1
<1>3. CASE n < Len(q)
  <2>1. Cardinality(1..n) < Cardinality(1..Len(q))
    BY <1>2, <1>3
  <2>2. \E x, y \in 1..Len(q) : x # y /\ q[x] = q[y]
    BY <1>1, <1>2, <2>1, FS_PigeonHole
  <2> QED BY <2>2
<1> QED BY <1>1, <1>3

\* A worker that has taken a session off the list holds it, and every other
\* session held is held by another worker.
LEMMA HeldIs ==
  ASSUME IInv
  PROVE  /\ \A v \in Workers : pc[v] \in {"reset", "push"} => sessPtr[Event(v).conn] \in Held
         /\ \A s \in Held : \E v \in Workers :
              pc[v] \in {"reset", "push"} /\ s = sessPtr[Event(v).conn]
         /\ Held \subseteq Sess
<1>1. \A v \in Workers : pc[v] \in {"reset", "push"} =>
        queue[v] # <<>> /\ sessPtr[Event(v).conn] \in Sess
  BY LoginIs DEF LoggingIn
<1> QED BY <1>1 DEF Held

\* There is a free session for whoever logs in: the others can hold one each.
LEMMA OneIsFree ==
  ASSUME IInv, NEW w \in Workers, pc[w] = "next"
  PROVE  sessFreePtr # <<>>
<1> SUFFICES ASSUME sessFreePtr = <<>> PROVE FALSE
  OBVIOUS
<1> DEFINE Others == Workers \ {w}
           holder == [s \in Sess |-> CHOOSE v \in Others :
                        pc[v] \in {"reset", "push"} /\ s = sessPtr[Event(v).conn]]
<1>1. Held = Sess
  <2>1. ToSet(sessFreePtr) = {}
    BY DEF ToSet
  <2> QED BY <2>1 DEF IInv, Free
<1>2. ASSUME NEW s \in Sess
      PROVE  holder[s] \in Others /\ s = sessPtr[Event(holder[s]).conn]
  <2>1. \E v \in Others : pc[v] \in {"reset", "push"} /\ s = sessPtr[Event(v).conn]
    BY <1>1, HeldIs
  <2> QED BY <2>1
<1>3. IsFiniteSet(Sess) /\ Cardinality(Sess) = SessNum
  <2>1. 1 \in Int /\ SessNum \in Int /\ SessNum >= 1
    BY SessionsAssumption
  <2>2. IsFiniteSet(1..SessNum) /\ Cardinality(1..SessNum) = IF 1 > SessNum THEN 0 ELSE SessNum - 1 + 1
    BY <2>1, FS_Interval
  <2> QED BY <2>1, <2>2 DEF Sess
<1>4. IsFiniteSet(Others) /\ Cardinality(Others) = HG_WORKER_NUM - 1
  <2>1. 0 \in Int /\ HG_WORKER_NUM - 1 \in Int /\ HG_WORKER_NUM >= 1 /\ HG_WORKER_NUM \in Nat
    BY SessionsAssumption
  <2>2. IsFiniteSet(0..HG_WORKER_NUM-1)
        /\ Cardinality(0..HG_WORKER_NUM-1) =
             IF 0 > HG_WORKER_NUM - 1 THEN 0 ELSE HG_WORKER_NUM - 1 - 0 + 1
    BY <2>1, FS_Interval
  <2>3. IsFiniteSet(Workers) /\ Cardinality(Workers) = HG_WORKER_NUM
    BY <2>1, <2>2 DEF Workers
  <2> QED BY <2>3, FS_RemoveElement
<1>5. Cardinality(Others) < Cardinality(Sess)
  BY <1>3, <1>4, SessionsAssumption
<1>6. holder \in [Sess -> Others]
  BY <1>2
<1> HIDE DEF holder, Others
<1>7. \E x, y \in Sess : x # y /\ holder[x] = holder[y]
  BY <1>3, <1>4, <1>5, <1>6, FS_PigeonHole
<1> QED BY <1>2, <1>7

\* A first login takes the first free session.
LEMMA sessGetFreeStep == ASSUME IInv, NEW w \in Workers, sessGetFree(w) PROVE IInv'
<1> DEFINE c == Event(w).conn
           s == Head(sessFreePtr)
<1>1. queue[w] # <<>> /\ pc[w] = "next" /\ ~crashed /\ Event(w).kind = "login" /\ data[c] = None
  BY AtIs DEF sessGetFree
<1>2. /\ UNCHANGED <<data, sess, rooms, userList, room, crashed, sent, wants, early,
                     entered, merged, forwarded, queue>>
      /\ sessPtr' = [sessPtr EXCEPT ![c] = s] /\ sessFreePtr' = Tail(sessFreePtr)
      /\ pc' = [pc EXCEPT ![w] = "reset"]
  BY DEF sessGetFree, Goto, places, client, outcome
<1>3. c \in Conns /\ getWorker(c) = w
  BY <1>1, HeadIs
<1>4. sessPtr[c] = None
  BY <1>1, <1>3 DEF IInv, GivenOnce, LoggingIn
<1>5. /\ s \in Sess /\ s # None /\ Len(sessFreePtr) \in Nat /\ Len(sessFreePtr) >= 1
      /\ s = sessFreePtr[1]
      /\ sessFreePtr' \in Seq(Sess) /\ Len(sessFreePtr') = Len(sessFreePtr) - 1
      /\ \A i \in 1..Len(sessFreePtr') : sessFreePtr'[i] = sessFreePtr[i+1]
  <2>1. sessFreePtr \in Seq(Sess) /\ sessFreePtr # <<>>
    BY <1>1, OneIsFree DEF IInv, TypeOK
  <2>2. Len(sessFreePtr) \in Nat /\ Len(sessFreePtr) >= 1
    BY <2>1, EmptySeq, LenProperties
  <2>3. s = sessFreePtr[1] /\ s \in Sess
    BY <2>1, <2>2, ElementOfSeq
  <2> QED BY <1>2, <2>1, <2>2, <2>3, HeadTailProperties, WorkerIs
<1> HIDE DEF s
<1>6. /\ pc' \in [Workers -> {"next", "reset", "push", "login", "post", "enter", "gate"}]
      /\ \A v \in Workers \ {w} : pc'[v] = pc[v]
      /\ pc'[w] = "reset" /\ \A v \in Workers : Event(v)' = Event(v)
  BY <1>2 DEF IInv, TypeOK, Event
<1>7. sessPtr' \in [Conns -> Sess \cup {None}] /\ sessPtr'[c] = s
      /\ \A d \in Conns \ {c} : sessPtr'[d] = sessPtr[d]
  BY <1>2, <1>3, <1>5 DEF IInv, TypeOK
<1>8. TypeOK'
  <2>1. Len(sessFreePtr') <= SessNum
    BY <1>5, WorkerIs DEF IInv, TypeOK
  <2> QED BY <1>2, <1>5, <1>6, <1>7, <2>1 DEF IInv, TypeOK
<1>9. Handling' /\ GivenOnce' /\ Queues' /\ InTime' /\ InOrder'
  BY <1>1, <1>2, <1>3, <1>5, <1>6, <1>7, LoginKeeps
<1>10. ASSUME NEW v \in Workers, v # w, pc[v] \in {"reset", "push"}
       PROVE  Event(v).conn \in Conns \ {c}
  BY <1>3, <1>10, LoginIs DEF LoggingIn
<1>11. Held' = Held \cup {s}
  <2>1. \A v \in Workers : pc[v] \in {"reset", "push"} => queue[v] # <<>>
    BY LoginIs DEF LoggingIn
  <2> QED BY <1>1, <1>2, <1>6, <1>7, <1>10, <2>1 DEF Held
<1>12. s \notin Held /\ ToSet(sessFreePtr) = ToSet(sessFreePtr') \cup {s} /\ s \notin ToSet(sessFreePtr')
  <2>1. /\ ToSet(sessFreePtr) = {sessFreePtr[i] : i \in 1..Len(sessFreePtr)}
        /\ ToSet(sessFreePtr') = {sessFreePtr'[i] : i \in 1..Len(sessFreePtr')}
    BY <1>5, LenProperties DEF ToSet, IInv, TypeOK
  <2>2. s \in ToSet(sessFreePtr)
    BY <1>5, <2>1
  <2>3. s \notin Held
    BY <2>2 DEF IInv, Free
  <2>4. \A i \in 1..Len(sessFreePtr') : i + 1 \in 1..Len(sessFreePtr) /\ i + 1 # 1
    BY <1>5
  <2>5. s \notin ToSet(sessFreePtr')
    BY <1>5, <2>1, <2>4 DEF IInv, Free
  <2>6. ToSet(sessFreePtr') \subseteq ToSet(sessFreePtr)
    BY <1>5, <2>1, <2>4
  <2>7. \A i \in 1..Len(sessFreePtr) : i = 1 \/ (i - 1 \in 1..Len(sessFreePtr') /\ (i - 1) + 1 = i)
    BY <1>5
  <2>8. ToSet(sessFreePtr) \subseteq ToSet(sessFreePtr') \cup {s}
    <3> SUFFICES ASSUME NEW i \in 1..Len(sessFreePtr), i # 1
                 PROVE  sessFreePtr[i] \in ToSet(sessFreePtr')
      BY <1>5, <2>1
    <3>1. i - 1 \in 1..Len(sessFreePtr') /\ (i - 1) + 1 = i
      BY <2>7
    <3>2. sessFreePtr'[i-1] = sessFreePtr[i]
      BY <1>5, <3>1
    <3> QED BY <2>1, <3>1, <3>2
  <2> QED BY <2>2, <2>3, <2>5, <2>6, <2>8
<1>13. Free'
  <2>1. \A i, j \in 1..Len(sessFreePtr') : i # j => sessFreePtr'[i] # sessFreePtr'[j]
    <3>1. \A i \in 1..Len(sessFreePtr') : i + 1 \in 1..Len(sessFreePtr)
      BY <1>5
    <3>2. \A i, j \in 1..Len(sessFreePtr') : i # j => i + 1 # j + 1
      BY <1>5
    <3> QED BY <1>5, <3>1, <3>2 DEF IInv, Free
  <2>2. ToSet(sessFreePtr)' = ToSet(sessFreePtr')
    BY DEF ToSet
  <2> QED BY <1>11, <1>12, <2>1, <2>2 DEF IInv, Free
<1>14. HeldApart'
  <2> SUFFICES ASSUME NEW u \in Workers, NEW v \in Workers, u # v,
                      pc'[u] \in {"reset", "push"}, pc'[v] \in {"reset", "push"}
               PROVE  sessPtr'[Event(u)'.conn] # sessPtr'[Event(v)'.conn]
    BY DEF HeldApart
  <2>1. ASSUME NEW x \in Workers, x # w, pc'[x] \in {"reset", "push"}
        PROVE  sessPtr'[Event(x)'.conn] = sessPtr[Event(x).conn] /\ sessPtr[Event(x).conn] # s
    BY <1>6, <1>7, <1>10, <1>12, <2>1, HeldIs
  <2>2. sessPtr'[Event(w)'.conn] = s
    BY <1>6, <1>7
  <2>3. CASE u = w \/ v = w
    BY <2>1, <2>2, <2>3
  <2>4. CASE u # w /\ v # w
    BY <1>6, <2>1, <2>4 DEF IInv, HeldApart
  <2> QED BY <2>3, <2>4
<1>15. ASSUME ~Shared' PROVE Owned' /\ RightRoom'
  <2>1. ~Shared
    BY <1>4, <1>7, <1>15 DEF Shared
  <2>2. Owned /\ RightRoom
    BY <2>1 DEF IInv
  <2>3. pc'[w] \in {"reset", "push", "login"} /\ ~(pc'[w] # "reset")
    BY <1>6
  <2> QED BY <1>2, <1>3, <1>6, <1>7, <2>2, <2>3, LoginOwned
<1> QED BY <1>8, <1>9, <1>13, <1>14, <1>15 DEF IInv

\* The session is reset while no list has it.
LEMMA sessFreeStep == ASSUME IInv, NEW w \in Workers, sessFree(w) PROVE IInv'
<1> DEFINE c == Event(w).conn
           s == sessPtr[c]
<1>1. queue[w] # <<>> /\ pc[w] = "reset" /\ ~crashed /\ Event(w).kind = "login" /\ LoggingIn(w)
  BY AtIs DEF sessFree, LoggingIn
<1>2. /\ UNCHANGED <<sessFreePtr, sessPtr, data, rooms, userList, room, crashed, sent, wants, early,
                     entered, merged, forwarded, queue>>
      /\ sess' = [sess EXCEPT ![s] = Closed] /\ pc' = [pc EXCEPT ![w] = "push"]
  BY DEF sessFree, Goto, lists, places, client, outcome
<1>3. c \in Conns /\ getWorker(c) = w /\ s \in Sess /\ s # None /\ data[c] = None
  BY <1>1, LoginIs, WorkerIs
<1>4. /\ pc' \in [Workers -> {"next", "reset", "push", "login", "post", "enter", "gate"}]
      /\ \A v \in Workers \ {w} : pc'[v] = pc[v]
      /\ pc'[w] = "push" /\ \A v \in Workers : Event(v)' = Event(v)
  BY <1>2 DEF IInv, TypeOK, Event
<1>5. sess' \in [Sess -> SessRecord] /\ sess'[s] = Closed /\ \A x \in Sess \ {s} : sess'[x] = sess[x]
  <2>1. sess[s] \in SessRecord
    BY <1>3 DEF IInv, TypeOK, SessRecord
  <2>2. Closed \in SessRecord
    BY <2>1, FieldsSet
  <2> QED BY <1>2, <1>3, <2>2, SessSet
<1>6. TypeOK'
  BY <1>2, <1>4, <1>5 DEF IInv, TypeOK, SessRecord
<1>7. Handling' /\ GivenOnce' /\ Queues' /\ InTime' /\ InOrder'
  BY <1>1, <1>2, <1>3, <1>4, LoginKeeps
<1>8. Free' /\ HeldApart'
  <2>1. \A v \in Workers : pc[v] \in {"reset", "push"} => queue'[v] # <<>>
    BY <1>2, LoginIs DEF LoggingIn
  <2>2. \A v \in Workers : pc'[v] \in {"reset", "push"} <=> pc[v] \in {"reset", "push"}
    BY <1>1, <1>4
  <2> QED BY <1>2, <1>4, <2>1, <2>2, HoldStays
<1>9. ASSUME ~Shared' PROVE Owned' /\ RightRoom'
  <2>1. ~Shared /\ Owned /\ RightRoom
    BY <1>2, <1>9, SharedStays DEF IInv
  <2>2. \A d \in Conns \ {c} : sessPtr[d] # s
    BY <1>3, <2>1, NotShared
  <2>3. ASSUME NEW d \in Conns, data[d] # None PROVE sess'[data[d]] = sess[data[d]]
    <3>1. data[d] = sessPtr[d] /\ data[d] \in Sess /\ d # c
      BY <1>3, <2>3 DEF IInv, GivenOnce, TypeOK
    <3> QED BY <1>5, <2>2, <3>1
  <2>4. ASSUME NEW v \in Workers, v # w, LoggingIn(v)
        PROVE  sess'[sessPtr[Event(v).conn]] = sess[sessPtr[Event(v).conn]]
    <3>1. Event(v).conn \in Conns \ {c} /\ sessPtr[Event(v).conn] \in Sess
      BY <1>3, <2>4, LoginIs
    <3> QED BY <1>5, <2>2, <3>1
  <2>5. pc'[w] \in {"reset", "push", "login"} /\ sess'[sessPtr'[c]].roomid = 0
    BY <1>2, <1>4, <1>5 DEF Closed
  <2> QED BY <1>2, <1>3, <1>4, <2>1, <2>3, <2>4, <2>5, LoginOwned
<1> QED BY <1>6, <1>7, <1>8, <1>9 DEF IInv

\* The session is put back to the free ones, which it had left.
LEMMA sessPushStep == ASSUME IInv, NEW w \in Workers, sessPush(w) PROVE IInv'
<1> DEFINE c == Event(w).conn
           s == sessPtr[c]
<1>1. queue[w] # <<>> /\ pc[w] = "push" /\ ~crashed /\ Event(w).kind = "login" /\ LoggingIn(w)
  BY AtIs DEF sessPush, LoggingIn
<1>2. /\ UNCHANGED <<sessPtr, data, sess, rooms, userList, room, crashed, sent, wants, early,
                     entered, merged, forwarded, queue>>
      /\ sessFreePtr' = <<s>> \o sessFreePtr /\ pc' = [pc EXCEPT ![w] = "login"]
  BY DEF sessPush, Goto, places, client, outcome
<1>3. c \in Conns /\ getWorker(c) = w /\ s \in Sess /\ s # None /\ data[c] = None
  BY <1>1, LoginIs, WorkerIs
<1>4. /\ pc' \in [Workers -> {"next", "reset", "push", "login", "post", "enter", "gate"}]
      /\ \A v \in Workers \ {w} : pc'[v] = pc[v]
      /\ pc'[w] = "login" /\ \A v \in Workers : Event(v)' = Event(v)
  BY <1>2 DEF IInv, TypeOK, Event
<1>5. s \in Held
  BY <1>1, HeldIs
<1> HIDE DEF s
<1>6. /\ sessFreePtr' \in Seq(Sess) /\ Len(sessFreePtr) \in Nat
      /\ Len(sessFreePtr') = Len(sessFreePtr) + 1 /\ sessFreePtr'[1] = s
      /\ \A i \in 1..Len(sessFreePtr) : sessFreePtr'[i+1] = sessFreePtr[i]
  <2>1. sessFreePtr \in Seq(Sess) /\ <<s>> \in Seq(Sess) /\ Len(<<s>>) = 1 /\ <<s>>[1] = s
    BY <1>3 DEF IInv, TypeOK
  <2>2. Len(sessFreePtr) \in Nat
    BY <2>1, LenProperties
  <2>3. /\ sessFreePtr' \in Seq(Sess) /\ Len(sessFreePtr') = 1 + Len(sessFreePtr)
        /\ \A i \in 1..1+Len(sessFreePtr) :
             sessFreePtr'[i] = IF i <= 1 THEN <<s>>[i] ELSE sessFreePtr[i-1]
    BY <1>2, <2>1, ConcatProperties
  <2>4. 1 \in 1..1+Len(sessFreePtr) /\ \A i \in 1..Len(sessFreePtr) :
          i + 1 \in 1..1+Len(sessFreePtr) /\ ~(i + 1 <= 1) /\ (i + 1) - 1 = i
    BY <2>2
  <2> QED BY <2>1, <2>2, <2>3, <2>4
<1>7. ToSet(sessFreePtr)' = ToSet(sessFreePtr) \cup {s}
  <2>1. /\ ToSet(sessFreePtr) = {sessFreePtr[i] : i \in 1..Len(sessFreePtr)}
        /\ ToSet(sessFreePtr)' = {sessFreePtr'[i] : i \in 1..Len(sessFreePtr')}
    BY <1>6, LenProperties DEF ToSet, IInv, TypeOK
  <2>2. ASSUME NEW i \in 1..Len(sessFreePtr') PROVE sessFreePtr'[i] \in ToSet(sessFreePtr) \cup {s}
    <3>1. i = 1 \/ (i - 1 \in 1..Len(sessFreePtr) /\ (i - 1) + 1 = i)
      BY <1>6
    <3>2. i # 1 => sessFreePtr'[i] = sessFreePtr[i-1]
      BY <1>6, <3>1
    <3> QED BY <1>6, <2>1, <3>1, <3>2
  <2>3. \A i \in 1..Len(sessFreePtr) : i + 1 \in 1..Len(sessFreePtr')
    BY <1>6
  <2>4. 1 \in 1..Len(sessFreePtr')
    BY <1>6
  <2> QED BY <1>6, <2>1, <2>2, <2>3, <2>4
<1>8. \A i, j \in 1..Len(sessFreePtr') : i # j => sessFreePtr'[i] # sessFreePtr'[j]
  <2>1. s \notin ToSet(sessFreePtr)
    BY <1>5 DEF IInv, Free
  <2>2. \A i \in 1..Len(sessFreePtr) : sessFreePtr[i] # s
    BY <1>6, <2>1, LenProperties DEF ToSet, IInv, TypeOK
  <2>3. ASSUME NEW i \in 1..Len(sessFreePtr')
        PROVE  i = 1 \/ (i - 1 \in 1..Len(sessFreePtr) /\ sessFreePtr'[i] = sessFreePtr[i-1])
    <3>1. i = 1 \/ (i - 1 \in 1..Len(sessFreePtr) /\ (i - 1) + 1 = i)
      BY <1>6
    <3> QED BY <1>6, <3>1
  <2>4. ASSUME NEW i \in 1..Len(sessFreePtr'), NEW j \in 1..Len(sessFreePtr'), i # j
        PROVE  sessFreePtr'[i] # sessFreePtr'[j]
    <3>1. CASE i = 1
      BY <1>6, <2>2, <2>3, <2>4, <3>1
    <3>2. CASE j = 1
      BY <1>6, <2>2, <2>3, <2>4, <3>2
    <3>3. CASE i # 1 /\ j # 1
      <4>1. i - 1 # j - 1
        BY <1>6, <2>4
      <4>2. /\ i - 1 \in 1..Len(sessFreePtr) /\ sessFreePtr'[i] = sessFreePtr[i-1]
            /\ j - 1 \in 1..Len(sessFreePtr) /\ sessFreePtr'[j] = sessFreePtr[j-1]
        BY <2>3, <3>3
      <4> QED BY <4>1, <4>2 DEF IInv, Free
    <3> QED BY <3>1, <3>2, <3>3
  <2> QED BY <2>4
<1>9. TypeOK'
  <2>1. Len(sessFreePtr') <= SessNum
    <3>1. sessFreePtr' \in Seq(1..SessNum)
      BY <1>6 DEF Sess
    <3> QED BY <1>8, <3>1, NoMore, WorkerIs
  <2> QED BY <1>2, <1>4, <1>6, <2>1 DEF IInv, TypeOK
<1>10. Handling' /\ GivenOnce' /\ Queues' /\ InTime' /\ InOrder'
  BY <1>1, <1>2, <1>3, <1>4, LoginKeeps DEF s
<1>11. ASSUME NEW v \in Workers, pc'[v] \in {"reset", "push"}
       PROVE  v # w /\ pc[v] \in {"reset", "push"} /\ sessPtr[Event(v).conn] # s
  <2>1. v # w /\ pc[v] \in {"reset", "push"}
    BY <1>4, <1>11
  <2> QED BY <1>1, <2>1 DEF s, IInv, HeldApart
<1>12. Held' = Held \ {s}
  <2>1. \A v \in Workers : pc[v] \in {"reset", "push"} => queue[v] # <<>>
    BY LoginIs DEF LoggingIn
  <2>2. \A x \in Held : x # s => \E v \in Workers : v # w /\ pc[v] \in {"reset", "push"} /\ x = sessPtr[Event(v).conn]
    BY HeldIs DEF s
  <2>3. \A x \in Held' : x \in Held /\ x # s
    BY <1>2, <1>4, <1>11 DEF Held
  <2>4. ASSUME NEW x \in Held, x # s PROVE x \in Held'
    <3>1. PICK v \in Workers : v # w /\ pc[v] \in {"reset", "push"} /\ x = sessPtr[Event(v).conn]
      BY <2>2, <2>4
    <3>2. pc'[v] \in {"reset", "push"} /\ queue'[v] # <<>> /\ x = sessPtr'[Event(v)'.conn]
      BY <1>2, <1>4, <2>1, <3>1
    <3> QED BY <3>2 DEF Held
  <2> QED BY <2>3, <2>4
<1>13. Free'
  BY <1>5, <1>7, <1>8, <1>12 DEF IInv, Free
<1>14. HeldApart'
  BY <1>2, <1>4, <1>11 DEF IInv, HeldApart
<1>15. ASSUME ~Shared' PROVE Owned' /\ RightRoom'
  <2>1. ~Shared /\ Owned /\ RightRoom
    BY <1>2, <1>15, SharedStays DEF IInv
  <2>2. pc'[w] \in {"reset", "push", "login"} /\ sess'[sessPtr'[c]].roomid = 0
    BY <1>1, <1>2, <1>4, <2>1 DEF Owned
  <2> QED BY <1>2, <1>3, <1>4, <2>1, <2>2, LoginOwned
<1> QED BY <1>9, <1>10, <1>13, <1>14, <1>15 DEF IInv

\* The session is the connection's.
LEMMA LoginStep == ASSUME IInv, NEW w \in Workers, Login(w) PROVE IInv'
<1> DEFINE c == Event(w).conn
           s == sessPtr[c]
           e == [kind |-> "workHanLogin", sess |-> s, ssrc |-> c]
<1>1. /\ queue[w] # <<>> /\ ~crashed /\ Event(w).kind = "login"
      /\ pc[w] = "login" \/ (pc[w] = "next" /\ data[c] # None)
  BY AtIs DEF Login
<1>2. /\ UNCHANGED <<sessFreePtr, sessPtr, rooms, userList, room, crashed, sent, wants, early,
                     entered, merged, forwarded>>
      /\ data' = [data EXCEPT ![c] = s] /\ pc' = [pc EXCEPT ![w] = "next"]
      /\ sess' = [sess EXCEPT ![s] = [sess[s] EXCEPT !.status = "LOGIN", !.ssrc = c]]
      /\ queue' = [Taken(w) EXCEPT ![getWorker(c)] = Append(@, e)]
  BY DEF Login, DoneAfter, places, client, outcome
<1>3. c \in Conns /\ getWorker(c) = w
  BY <1>1, HeadIs
<1>4. s \in Sess /\ s # None /\ (data[c] # None => data[c] = s)
  <2>1. data[c] # None => data[c] = s /\ data[c] \in Sess
    BY <1>3 DEF IInv, GivenOnce, TypeOK
  <2>2. pc[w] = "login" => s \in Sess
    BY LoginIs DEF LoggingIn
  <2> QED BY <1>1, <2>1, <2>2, WorkerIs
<1>5. e \in WorkerEvents /\ e \in Events
  BY <1>3, <1>4, WorkerEventIs DEF WorkerEvents
<1>6. e.kind = "workHanLogin"
  OBVIOUS
<1> HIDE DEF e
<1>7. PICK N : QueueStep({w}, N) /\ N = {<<w, e>>}
  <2>1. QueueStep({w}, {<<w, e>>})
    <3>1. Queues /\ queue' = [Taken(w) EXCEPT ![w] = Append(@, e)]
      BY <1>2, <1>3 DEF IInv
    <3> QED BY <1>1, <1>5, <3>1, Moves
  <2> QED BY <2>1
<1>8. \A v \in Workers, f \in Events : <<v, f>> \in N =>
        f \in WorkerEvents /\ f.kind \notin {"audio", "RoomMergeData", "HandleCreEnterRoo"}
  BY <1>5, <1>6, <1>7
<1>9. /\ pc'[w] = "next" /\ ~LoggingIn(w)' /\ HandlingOf(w)'
      /\ \A v \in Workers \ {w} : pc'[v] = pc[v]
      /\ pc' \in [Workers -> {"next", "reset", "push", "login", "post", "enter", "gate"}]
  BY <1>2, AfterDone
<1>10. /\ sess' \in [Sess -> SessRecord] /\ \A x \in Sess \ {s} : sess'[x] = sess[x]
       /\ sess'[s].status = "LOGIN" /\ sess'[s].ssrc = c
       /\ \A x \in Sess : sess'[x].roomid = sess[x].roomid /\ sess'[x].rroom = sess[x].rroom
  <2>1. sess[s] \in SessRecord
    BY <1>4 DEF IInv, TypeOK, SessRecord
  <2>2. PICK q : q = [sess[s] EXCEPT !.status = "LOGIN", !.ssrc = c]
    OBVIOUS
  <2>3. q \in SessRecord /\ q.status = "LOGIN" /\ q.ssrc = c
        /\ q.roomid = sess[s].roomid /\ q.rroom = sess[s].rroom
    <3>1. PICK r, d : r = sess[s] /\ d = c
      OBVIOUS
    <3>2. r \in SessRecord /\ d \in Conns
      BY <1>3, <2>1, <3>1
    <3>3. q = [r EXCEPT !.status = "LOGIN", !.ssrc = d]
      BY <2>2, <3>1
    <3>4. q.status = "LOGIN" /\ q.ssrc = d /\ q.roomid = r.roomid /\ q.rroom = r.rroom
      BY <3>2, <3>3 DEF SessRecord
    <3>5. q \in SessRecord
      BY <3>2, <3>3, FieldsSet
    <3> QED BY <3>1, <3>4, <3>5
  <2>4. sess' = [sess EXCEPT ![s] = q]
    BY <1>2, <2>2
  <2>5. sess' \in [Sess -> SessRecord] /\ sess'[s] = q /\ \A x \in Sess \ {s} : sess'[x] = sess[x]
    BY <1>4, <2>3, <2>4, SessSet
  <2> QED BY <2>3, <2>5
<1>11. /\ data' \in [Conns -> Sess \cup {None}] /\ data'[c] = s
       /\ \A d \in Conns \ {c} : data'[d] = data[d]
  BY <1>2, <1>3, <1>4 DEF IInv, TypeOK
<1>12. TypeOK'
  BY <1>2, <1>9, <1>10, <1>11 DEF IInv, TypeOK, SessRecord
<1>13. ASSUME NEW v \in Workers, v # w, LoggingIn(v)
       PROVE  Event(v).conn \in Conns \ {c} /\ queue'[v] # <<>> /\ Event(v)' = Event(v)
  <2>1. queue[v] # <<>> /\ Event(v).conn \in Conns \ {c}
    BY <1>3, <1>13, LoginIs
  <2> QED BY <1>7, <1>13, <2>1, StepHead DEF IInv
<1>14. Free' /\ HeldApart'
  <2>1. \A v \in Workers : pc'[v] \in {"reset", "push"} <=> pc[v] \in {"reset", "push"}
    BY <1>1, <1>9
  <2>2. \A v \in Workers : pc[v] \in {"reset", "push"} => queue'[v] # <<>> /\ Event(v)' = Event(v)
    BY <1>1, <1>13 DEF LoggingIn
  <2> QED BY <1>2, <2>1, <2>2, HoldStays
<1>15. Handling'
  <2>1. ASSUME NEW v \in Workers, v # w PROVE HandlingOf(v)'
    <3>1. v \notin {w} /\ pc'[v] = pc[v] /\ rooms \subseteq rooms'
      BY <1>2, <1>9, <2>1
    <3>2. \A d \in Conns : data[d] # None => data'[d] # None
      BY <1>4, <1>11
    <3>3. LoggingIn(v) => sessPtr'[Event(v).conn] = sessPtr[Event(v).conn]
                          /\ data'[Event(v).conn] = data[Event(v).conn]
      BY <1>2, <1>11, <1>13, <2>1
    <3> QED BY <1>7, <3>1, <3>2, <3>3, OthersHandle
  <2> QED BY <1>9, <2>1 DEF Handling
<1>16. GivenOnce'
  <2>1. ASSUME NEW d \in Conns
        PROVE  /\ data'[d] # None => data'[d] = sessPtr'[d]
               /\ sessPtr'[d] # None /\ data'[d] = None =>
                    LoggingIn(getWorker(d))' /\ Event(getWorker(d))'.conn = d
    <3>1. CASE d = c
      BY <1>2, <1>4, <1>11, <3>1
    <3>2. CASE d # c
      <4>1. /\ data[d] # None => data[d] = sessPtr[d]
            /\ sessPtr[d] # None /\ data[d] = None =>
                 LoggingIn(getWorker(d)) /\ Event(getWorker(d)).conn = d
        BY DEF IInv, GivenOnce
      <4>2. data'[d] = data[d] /\ sessPtr'[d] = sessPtr[d] /\ getWorker(d) \in Workers
        BY <1>2, <1>11, <3>2, WorkerIs
      <4>3. LoggingIn(getWorker(d)) /\ Event(getWorker(d)).conn = d =>
              LoggingIn(getWorker(d))' /\ Event(getWorker(d))'.conn = d
        BY <1>9, <1>13, <3>2, <4>2 DEF LoggingIn
      <4> QED BY <4>1, <4>2, <4>3
    <3> QED BY <3>1, <3>2
  <2> QED BY <2>1 DEF GivenOnce
<1>17. Queues'
  <2>1. sent' \in [Conns -> Nat] /\ wants' \in [Conns -> RoomIds \cup {None}]
    BY <1>2 DEF IInv, Queues
  <2> QED BY <1>7, <1>8, <2>1, QueuesStep, WorkerEventIs
<1>18. InTime' /\ InOrder'
  <2>1. \A d \in Conns : sent[d] <= sent'[d] /\ sent'[d] \in Nat
    BY <1>2 DEF IInv, Queues
  <2>2. \A v \in Workers, f \in Events : <<v, f>> \in N => f.kind \notin {"audio", "RoomMergeData"}
    BY <1>8
  <2>3. InTime'
    BY <1>2, <1>7, <2>2, QuietTime
  <2> QED BY <1>2, <1>7, <2>1, <2>2, <2>3, QuietOrder
<1>19. ASSUME ~Shared' PROVE Owned' /\ RightRoom'
  <2>1. ~Shared /\ Owned /\ RightRoom
    BY <1>2, <1>19, SharedStays DEF IInv
  <2>2. sess[s] \in SessRecord
    BY <1>4 DEF IInv, TypeOK, SessRecord
  <2>3. /\ sess'[s].status = "LOGIN" /\ sess'[s].ssrc = c
        /\ \A x \in Sess : sess'[x].roomid = sess[x].roomid /\ sess'[x].rroom = sess[x].rroom
    BY <1>10
  <2>4. \A d \in Conns : data[d] # None => data[d] \in Sess /\ data[d] = sessPtr[d]
    BY DEF IInv, TypeOK, GivenOnce
  <2>5. data[c] = None => sess[s].roomid = 0
    BY <1>1, <2>1 DEF Owned
  <2>6. \A d \in Conns : RoomOf(d)' = RoomOf(d)
    BY <1>4, <1>11, <2>3, <2>4, <2>5 DEF RoomOf
  <2>7. ASSUME NEW d \in Conns, data'[d] # None
        PROVE  LoggedIn(data[d])' /\ sess'[data'[d]].ssrc = d
    <3>1. CASE d = c
      BY <1>4, <1>11, <2>3, <3>1 DEF LoggedIn
    <3>2. CASE d # c
      <4>1. data'[d] = data[d] /\ data[d] \in Sess /\ data[d] # s
        BY <1>3, <1>4, <1>11, <2>1, <2>4, <2>7, <3>2, NotShared
      <4> QED BY <1>10, <2>1, <2>7, <4>1 DEF Owned, LoggedIn
    <3> QED BY <3>1, <3>2
  <2>8. ASSUME NEW v \in Workers, NEW f \in Waiting(v)', f.kind = "HandleCreEnterRoo"
        PROVE  data'[f.conn] = f.sess
    <3>1. f \in Events /\ f \in Waiting(v)
      BY <1>7, <1>8, <2>8, StepWaiting DEF IInv
    <3>2. f.sess \in Sess /\ f.conn \in Conns
      BY <2>8, <3>1 DEF Events, ClientEvents, WorkerEvents, AudioEvents
    <3>3. data[f.conn] = f.sess /\ f.sess # None
      BY <2>1, <2>8, <3>1, <3>2, WorkerIs DEF Owned
    <3> QED BY <1>4, <1>11, <3>2, <3>3
  <2>9. ASSUME NEW d \in entered' PROVE data'[d] # None /\ sess'[data'[d]].rroom # None
    <3>1. d \in Conns /\ data[d] # None /\ sess[data[d]].rroom # None
      BY <1>2, <2>1 DEF IInv, TypeOK, Owned
    <3>2. data'[d] = data[d]
      BY <1>4, <1>11, <3>1
    <3> QED BY <2>3, <2>4, <3>1, <3>2
  <2>10. ASSUME NEW v \in Workers
         PROVE  /\ pc'[v] \in {"push", "login"} => sess'[sessPtr'[Event(v)'.conn]].roomid = 0
                /\ pc'[v] = "post" => RoomOf(Event(v).conn)' = Event(v)'.roomid
                /\ pc'[v] = "gate" /\ ~early' => room'[v] # None
    <3>1. CASE v = w
      BY <1>9, <3>1
    <3>2. CASE v # w
      <4>1. pc'[v] = pc[v] /\ room'[v] = room[v] /\ sessPtr' = sessPtr
        BY <1>2, <1>9, <3>2
      <4>2. ASSUME pc[v] \in {"push", "login"} PROVE sess'[sessPtr[Event(v)'.conn]].roomid = 0
        <5>1. Event(v)' = Event(v)
          BY <1>13, <3>2, <4>2 DEF LoggingIn
        <5>2. sessPtr[Event(v).conn] \in Sess
          BY <4>2, LoginIs DEF LoggingIn
        <5> QED BY <2>1, <2>3, <4>2, <5>1, <5>2 DEF Owned
      <4>3. ASSUME pc[v] = "post" PROVE RoomOf(Event(v).conn)' = Event(v)'.roomid
        <5>1. queue[v] # <<>> /\ Event(v).conn \in Conns
          BY <4>3, HeadIs DEF IInv, Handling, HandlingOf
        <5>2. Event(v)' = Event(v)
          BY <1>7, <3>2, <5>1, StepHead DEF IInv
        <5>3. RoomOf(Event(v).conn) = Event(v).roomid
          BY <2>1, <4>3 DEF Owned
        <5>4. ASSUME NEW d \in Conns, d = Event(v).conn PROVE RoomOf(Event(v).conn)' = RoomOf(d)
          BY <2>6, <5>2, <5>4 DEF RoomOf
        <5> QED BY <5>1, <5>2, <5>3, <5>4
      <4> QED BY <1>2, <2>1, <4>1, <4>2, <4>3 DEF Owned
    <3> QED BY <3>1, <3>2
  <2>11. Owned'
    BY <1>1, <1>2, <2>7, <2>8, <2>9, <2>10 DEF Owned
  <2>12. \A d \in Conns : getWorker(d) \in {w} => ~Asks(d, 1)
    BY <1>1, HeadAsks
  <2>13. RightRoom'
    BY <1>2, <1>7, <1>8, <2>1, <2>6, <2>12, QuietRoom DEF RightRoom
  <2> QED BY <2>11, <2>13
<1> QED BY <1>12, <1>14, <1>15, <1>16, <1>17, <1>18, <1>19 DEF IInv

-----------------------------------------------------------------------------
(* The clients' steps.                                                     *)

\* What a request keeps.
LEMMA SendKeeps ==
  ASSUME IInv, NEW c \in Conns, NEW e \in ClientEvents, e.conn = c, Send(c, e),
         wants' \in [Conns -> RoomIds \cup {None}], early' \in BOOLEAN, early => early'
  PROVE  /\ QueueStep({}, {<<getWorker(c), e>>})
         /\ \A d \in Conns : sent[d] <= sent'[d] /\ sent'[d] \in Nat
         /\ sent'[c] = sent[c] + 1
         /\ TypeOK' /\ Free' /\ HeldApart' /\ GivenOnce' /\ Handling' /\ Queues'
         /\ Owned => Owned'
         /\ \A d \in Conns : RoomOf(d)' = RoomOf(d)
<1>1. /\ UNCHANGED <<sessFreePtr, sessPtr, data, sess, rooms, userList, pc, room, crashed,
                     entered, merged, forwarded>>
      /\ sent' = [sent EXCEPT ![c] = @ + 1]
      /\ queue' = [queue EXCEPT ![getWorker(c)] = Append(@, e)]
  BY DEF Send, lists, places, outcome
<1>2. e \in Events /\ getWorker(c) \in Workers
  BY WorkerIs DEF Events
<1>3. PICK N : QueueStep({}, N) /\ N = {<<getWorker(c), e>>}
  <2>1. QueueStep({}, {<<getWorker(c), e>>})
    BY <1>1, <1>2, Adds DEF IInv
  <2> QED BY <2>1
<1>4. sent' \in [Conns -> Nat] /\ sent'[c] = sent[c] + 1
      /\ \A d \in Conns : sent[d] <= sent'[d] /\ sent'[d] \in Nat
  BY <1>1 DEF IInv, Queues
<1>5. TypeOK'
  BY <1>1 DEF IInv, TypeOK
<1>6. UNCHANGED lists /\ \A v \in Workers : v \notin {} /\ pc'[v] = pc[v]
  BY <1>1 DEF lists
<1>7. Free' /\ HeldApart' /\ GivenOnce'
  BY <1>3, <1>6, LoginsStay
<1>8. Handling'
  <2>1. ASSUME NEW v \in Workers PROVE HandlingOf(v)'
    BY <1>1, <1>3, <1>6, OthersHandle
  <2> QED BY <2>1 DEF Handling
<1>9. Queues'
  <2>1. \A v \in Workers, f \in Events : <<v, f>> \in N => v = getWorker(c) /\ f = e
    BY <1>3
  <2> QED BY <1>3, <1>4, <2>1, QueuesStep
<1>10. \A d \in Conns : RoomOf(d)' = RoomOf(d)
  BY <1>1 DEF RoomOf
<1>11. ASSUME Owned PROVE Owned'
  <2>1. ASSUME NEW v \in Workers, pc[v] # "next" PROVE Event(v)' = Event(v) /\ queue[v] # <<>>
    <3>1. queue[v] # <<>> /\ v \notin {}
      BY <2>1 DEF IInv, Handling, HandlingOf
    <3> QED BY <1>3, <3>1, StepHead DEF IInv
  <2>2. ASSUME NEW v \in Workers
        PROVE  /\ pc'[v] \in {"push", "login"} => sess'[sessPtr'[Event(v)'.conn]].roomid = 0
               /\ pc'[v] = "post" => RoomOf(Event(v).conn)' = Event(v)'.roomid
               /\ pc'[v] = "gate" /\ ~early' => room'[v] # None
    <3>1. ASSUME pc[v] = "post" PROVE RoomOf(Event(v).conn)' = Event(v)'.roomid
      <4>1. RoomOf(Event(v).conn)' = RoomOf(Event(v).conn)
        BY <1>1, <2>1, <3>1 DEF RoomOf
      <4> QED BY <1>11, <2>1, <3>1, <4>1 DEF Owned
    <3> QED BY <1>1, <1>11, <2>1, <3>1 DEF Owned
  <2>3. ASSUME NEW v \in Workers, NEW f \in Waiting(v)', f.kind = "HandleCreEnterRoo"
        PROVE  data'[f.conn] = f.sess
    <3>1. f \in Events /\ (f \in Waiting(v) \/ <<v, f>> \in N)
      BY <1>3, StepWaiting DEF IInv
    <3>2. f \in Waiting(v)
      BY <1>3, <2>3, <3>1 DEF ClientEvents, AudioEvents
    <3> QED BY <1>1, <1>11, <2>3, <3>2 DEF Owned
  <2>4. \A d \in Conns : data'[d] # None => LoggedIn(data[d])' /\ sess'[data'[d]].ssrc = d
    BY <1>1, <1>11 DEF Owned, LoggedIn
  <2> QED BY <1>1, <1>11, <2>2, <2>3, <2>4 DEF Owned
<1> QED BY <1>3, <1>4, <1>5, <1>7, <1>8, <1>9, <1>10, <1>11

\* What was asked for last, before and behind a new request.
LEMMA SendRoom ==
  ASSUME IInv, RightRoom, NEW c \in Conns, NEW e \in ClientEvents, e.conn = c, Send(c, e),
         \A d \in Conns : RoomOf(d)' = RoomOf(d),
         wants' = IF e.kind = "createenterroom" THEN [wants EXCEPT ![c] = e.roomid] ELSE wants,
         e.kind = "audio" => e.wants = wants[c]
  PROVE  RightRoom'
<1> DEFINE g == getWorker(c)
           n == Len(queue[g])
<1>1. /\ UNCHANGED <<merged, forwarded>>
      /\ queue' = [queue EXCEPT ![g] = Append(@, e)]
  BY DEF Send, outcome
<1>2. g \in Workers /\ n \in Nat /\ queue[g] \in Seq(Events) /\ queue \in [Workers -> Seq(Events)]
      /\ e \in Events
  BY WorkerIs, QueueTypes DEF IInv, Queues, Events
<1>3. /\ Len(queue'[g]) = n + 1 /\ queue'[g][n+1] = e
      /\ \A i \in 1..n : queue'[g][i] = queue[g][i]
      /\ \A v \in Workers \ {g} : queue'[v] = queue[v]
  <2>1. queue'[g] = Append(queue[g], e) /\ \A v \in Workers \ {g} : queue'[v] = queue[v]
    BY <1>1, <1>2
  <2> QED BY <1>2, <2>1, AppendProperties
<1>4. \A v \in Workers : Len(queue[v]) \in Nat
  BY QueueTypes DEF IInv
<1> HIDE DEF n, g
<1>5. ASSUME NEW d \in Conns, NEW k \in 1..Len(queue[getWorker(d)])
      PROVE  queue'[getWorker(d)][k] = queue[getWorker(d)][k] /\ (Asks(d, k)' <=> Asks(d, k))
  <2>1. queue'[getWorker(d)][k] = queue[getWorker(d)][k]
    BY <1>3, <1>5, WorkerIs DEF g, n
  <2> QED BY <2>1 DEF Asks
<1>6. ASSUME NEW d \in Conns, NEW i \in 1..Len(queue[getWorker(d)])+1, NEW r, AskedFor(d, i, r)
      PROVE  AskedFor(d, i, r)'
  <2>1. \A k \in 1..i-1 : k \in 1..Len(queue[getWorker(d)])
    BY <1>4, WorkerIs
  <2>2. \A j \in 1..i-1 : \A k \in j+1..i-1 : k \in 1..i-1
    OBVIOUS
  <2> QED BY <1>5, <1>6, <2>1, <2>2 DEF AskedFor
<1>7. ASSUME NEW d \in Conns PROVE AskedFor(d, Len(queue[getWorker(d)]) + 1, wants[d])'
  <2>1. AskedFor(d, Len(queue[getWorker(d)]) + 1, wants[d])
    BY DEF RightRoom
  <2>2. Len(queue[getWorker(d)]) \in Nat
        /\ Len(queue[getWorker(d)]) + 1 \in 1..Len(queue[getWorker(d)]) + 1
    BY <1>4, WorkerIs
  <2>3. ASSUME NEW l \in Nat, l = Len(queue'[getWorker(d)]), NEW r, r = wants'[d]
        PROVE  AskedFor(d, l + 1, r)'
    <3>1. CASE getWorker(d) # g
      <4>1. l = Len(queue[getWorker(d)]) /\ r = wants[d]
        <5>1. d # c
          BY <3>1 DEF g
        <5> QED BY <1>3, <2>3, <3>1, <5>1, WorkerIs DEF IInv, Queues
      <4>2. ASSUME NEW i \in Nat, i = l + 1 PROVE AskedFor(d, i, r)'
        BY <1>6, <2>1, <2>2, <4>1, <4>2
      <4> QED BY <4>2
    <3>2. CASE getWorker(d) = g /\ e.kind = "createenterroom" /\ d = c
      <4>1. l = n + 1 /\ r = e.roomid
        BY <1>3, <2>3, <3>2 DEF IInv, Queues
      <4>2. Asks(c, l)' /\ queue'[g][l].roomid = r
        BY <1>3, <3>2, <4>1 DEF Asks, g
      <4>3. l \in 1..(l+1)-1 /\ \A k \in l+1..(l+1)-1 : FALSE
        BY <1>2, <4>1
      <4> QED BY <3>2, <4>2, <4>3 DEF AskedFor, g
    <3>3. CASE getWorker(d) = g /\ ~(e.kind = "createenterroom" /\ d = c)
      <4>1. l = n + 1 /\ r = wants[d]
        BY <1>3, <2>3, <3>3 DEF IInv, Queues
      <4>2. ~Asks(d, l)'
        BY <1>3, <3>3, <4>1 DEF Asks
      <4>3. ASSUME NEW i \in Nat, i = l PROVE AskedFor(d, i, r)'
        <5>1. i = Len(queue[getWorker(d)]) + 1
          BY <3>3, <4>1, <4>3 DEF n
        <5> QED BY <1>6, <2>1, <2>2, <4>1, <5>1
      <4>4. /\ \A k \in 1..(l+1)-1 : k = l \/ k \in 1..l-1
            /\ \A j \in 1..l-1 : j \in 1..(l+1)-1 /\ \A k \in j+1..(l+1)-1 : k = l \/ k \in j+1..l-1
        BY <2>3
      <4>5. AskedFor(d, l, r)'
        BY <4>3
      <4> QED BY <4>2, <4>4, <4>5 DEF AskedFor
    <3> QED BY <3>1, <3>2, <3>3
  <2>4. Len(queue'[getWorker(d)]) \in Nat
    BY <1>2, <1>3, <2>2, WorkerIs DEF g
  <2> QED BY <2>3, <2>4 DEF AskedFor
<1>8. ASSUME NEW v \in Workers, NEW i \in 1..Len(queue'[v]), queue'[v][i].kind = "audio"
      PROVE  AskedFor(queue[v][i].conn, i, queue[v][i].wants)'
  <2> DEFINE f == queue'[v][i]
  <2>1. CASE i \in 1..Len(queue[v])
    <3>1. f = queue[v][i]
      BY <1>3, <2>1 DEF n
    <3>2. f \in Waiting(v) /\ f \in Events
      BY <2>1, <3>1, QueueTypes DEF Waiting, IInv
    <3>3. f \in ClientEvents /\ f.conn \in Conns
      BY <1>8, <3>2 DEF Events, ClientEvents, WorkerEvents, AudioEvents
    <3>4. getWorker(f.conn) = v
      BY <3>2, <3>3 DEF IInv, Queues
    <3>5. AskedFor(f.conn, i, f.wants)
      BY <1>8, <2>1, <3>1 DEF RightRoom
    <3>6. ASSUME NEW d \in Conns, d = f.conn, NEW r, r = f.wants PROVE AskedFor(d, i, r)'
      <4>1. i \in 1..Len(queue[getWorker(d)]) + 1
        BY <1>4, <2>1, <3>4, <3>6
      <4> QED BY <1>6, <3>5, <3>6, <4>1
    <3> QED BY <3>3, <3>6 DEF AskedFor
  <2>2. CASE ~(i \in 1..Len(queue[v]))
    <3>1. v = g /\ i = n + 1 /\ f = e
      <4>1. v = g
        BY <1>3, <2>2
      <4>2. i = n + 1
        BY <1>2, <1>3, <2>2, <4>1 DEF n
      <4> QED BY <1>3, <4>1, <4>2
    <3>2. AskedFor(c, n + 1, wants[c])
      BY DEF RightRoom, n, g
    <3>3. ASSUME NEW d \in Conns, d = f.conn, NEW r, r = f.wants PROVE AskedFor(d, i, r)'
      <4>1. d = c /\ r = wants[c]
        BY <1>8, <3>1, <3>3
      <4>2. i \in 1..Len(queue[getWorker(d)]) + 1
        BY <1>2, <3>1, <4>1 DEF n, g
      <4> QED BY <1>6, <3>1, <3>2, <4>1, <4>2
    <3>4. f.conn \in Conns
      BY <3>1
    <3> QED BY <3>3, <3>4 DEF AskedFor
  <2> QED BY <2>1, <2>2
<1>9. ASSUME NEW v \in Workers, NEW f \in Waiting(v)', f.kind = "RoomMergeData"
      PROVE  f.room = f.frame.wants
  <2>1. f \in Waiting(v) \/ f = e
    <3>1. PICK i \in 1..Len(queue'[v]) : f = queue'[v][i]
      BY DEF Waiting
    <3>2. CASE v # g
      BY <1>3, <3>1, <3>2 DEF Waiting
    <3>3. CASE v = g
      <4>1. i \in 1..n \/ i = n + 1
        BY <1>2, <1>3, <3>1, <3>3
      <4> QED BY <1>3, <3>1, <3>3, <4>1 DEF Waiting, n
    <3> QED BY <3>2, <3>3
  <2>2. f # e
    BY <1>9 DEF ClientEvents, AudioEvents
  <2> QED BY <1>9, <2>1, <2>2 DEF RightRoom
<1> QED BY <1>1, <1>7, <1>8, <1>9 DEF RightRoom

\* Logins, requests for rooms and video: no media waits that did not.
LEMMA PlainSend ==
  ASSUME IInv, NEW c \in Conns, NEW e \in ClientEvents, e.conn = c, e.kind # "audio", Send(c, e),
         UNCHANGED early,
         wants' = IF e.kind = "createenterroom" THEN [wants EXCEPT ![c] = e.roomid] ELSE wants
  PROVE  IInv'
<1>1. wants' \in [Conns -> RoomIds \cup {None}] /\ early' \in BOOLEAN /\ (early => early')
  BY DEF IInv, Queues, TypeOK, ClientEvents, AudioEvents
<1>2. /\ QueueStep({}, {<<getWorker(c), e>>})
      /\ \A d \in Conns : sent[d] <= sent'[d] /\ sent'[d] \in Nat
      /\ TypeOK' /\ Free' /\ HeldApart' /\ GivenOnce' /\ Handling' /\ Queues'
      /\ Owned => Owned'
      /\ \A d \in Conns : RoomOf(d)' = RoomOf(d)
  BY <1>1, SendKeeps
<1>3. UNCHANGED <<sessPtr, merged, entered>>
  BY DEF Send, lists, outcome
<1>4. PICK N : QueueStep({}, N) /\ N = {<<getWorker(c), e>>}
  BY <1>2
<1>5. \A v \in Workers, f \in Events : <<v, f>> \in N => f.kind \notin {"audio", "RoomMergeData"}
  BY <1>4 DEF ClientEvents, AudioEvents
<1>6. InTime'
  BY <1>3, <1>4, <1>5, QuietTime
<1>7. InOrder'
  BY <1>2, <1>3, <1>4, <1>5, QuietOrder
<1>8. ASSUME ~Shared' PROVE Owned' /\ RightRoom'
  <2>1. Owned /\ RightRoom
    BY <1>3, <1>8, SharedStays DEF IInv
  <2>2. RightRoom'
    BY <1>2, <2>1, SendRoom
  <2> QED BY <1>2, <2>1, <2>2
<1> QED BY <1>2, <1>6, <1>7, <1>8 DEF IInv

\* Audio is numbered behind all that its sender sent before.
LEMMA AudioOrder ==
  ASSUME IInv, NEW c \in Conns, NEW e \in AudioEvents, e.conn = c, e.n = sent[c],
         QueueStep({}, {<<getWorker(c), e>>}), UNCHANGED merged,
         sent'[c] = sent[c] + 1, \A d \in Conns : sent[d] <= sent'[d] /\ sent'[d] \in Nat
  PROVE  InOrder'
<1>1. PICK N : QueueStep({}, N) /\ N = {<<getWorker(c), e>>}
  OBVIOUS
<1>2. e.kind = "audio" /\ e \in Events /\ \A v \in Workers, f \in Events :
        <<v, f>> \in N => v = getWorker(c) /\ f = e
  BY <1>1 DEF AudioEvents, Events, ClientEvents
<1>3. \A v \in Workers : \A f \in Waiting(v) :
        /\ f.kind = "audio" => f.n < sent[f.conn]
        /\ f.kind = "RoomMergeData" => f.frame.n < sent[f.frame.conn]
  BY DEF IInv, InOrder
<1>4. \A v \in Workers : \A f \in Waiting(v) : f \in Events
  BY QueueTypes DEF IInv
<1>5. \A f \in Events :
        /\ f.kind = "audio" => f.conn \in Conns /\ f.n \in Nat
        /\ f.kind = "RoomMergeData" => f.frame.conn \in Conns /\ f.frame.n \in Nat
  BY DEF Events, ClientEvents, WorkerEvents, AudioEvents
<1>6. \A d \in Conns : sent[d] \in Nat
  BY DEF IInv, Queues
<1>7. \A v \in Workers : \A j \in 1..Len(queue'[v]) : \A i \in 1..j-1 :
        Later(queue'[v][i], queue'[v][j])
  <2>1. ASSUME NEW v \in Workers, NEW i \in 1..Len(queue[v]) PROVE Later(queue[v][i], e)
    <3>1. queue[v][i] \in Waiting(v)
      BY DEF Waiting
    <3> QED BY <1>2, <1>3, <3>1 DEF Later
  <2>2. \A v \in Workers, f \in Events :
          <<v, f>> \in N => \A i \in 1..Len(queue[v]) : Later(queue[v][i], f)
    BY <1>2, <2>1
  <2> QED BY <1>1, <2>2, LaterStep DEF IInv
<1>8. ASSUME NEW v \in Workers, NEW f \in Waiting(v)'
      PROVE  f \in Events /\ (f \in Waiting(v) \/ (v = getWorker(c) /\ f = e))
  BY <1>1, <1>2, StepWaiting DEF IInv
<1>9. ASSUME NEW v \in Workers, NEW f \in Waiting(v)'
      PROVE  /\ f.kind = "audio" => f.n < sent'[f.conn]
             /\ f.kind = "RoomMergeData" =>
                  /\ v = getWorker(f.room)
                  /\ f.frame.n < sent'[f.frame.conn]
                  /\ \A u \in Workers : \A h \in Waiting(u)' :
                       h.kind = "audio" /\ h.conn = f.frame.conn => f.frame.n < h.n
  <2>1. CASE f = e
    BY <1>2, <1>6, <2>1
  <2>2. CASE f \in Waiting(v)
    <3>1. f.kind = "audio" => f.n < sent'[f.conn]
      <4>1. f.kind = "audio" => f.n < sent[f.conn] /\ f.n \in Nat /\ f.conn \in Conns
        BY <1>3, <1>4, <1>5, <2>2
      <4> QED BY <1>6, <4>1
    <3>2. ASSUME f.kind = "RoomMergeData"
          PROVE  v = getWorker(f.room) /\ f.frame.n < sent'[f.frame.conn]
      <4>1. v = getWorker(f.room) /\ f.frame.n < sent[f.frame.conn]
            /\ f.frame.n \in Nat /\ f.frame.conn \in Conns
        BY <1>4, <1>5, <2>2, <3>2 DEF IInv, InOrder
      <4> QED BY <1>6, <4>1
    <3>3. ASSUME f.kind = "RoomMergeData", NEW u \in Workers, NEW h \in Waiting(u)',
                 h.kind = "audio", h.conn = f.frame.conn
          PROVE  f.frame.n < h.n
      <4>1. CASE h = e
        BY <1>3, <2>2, <3>3, <4>1
      <4>2. CASE h \in Waiting(u)
        BY <2>2, <3>3, <4>2 DEF IInv, InOrder
      <4> QED BY <1>8, <4>1, <4>2
    <3> QED BY <3>1, <3>2, <3>3
  <2> QED BY <1>8, <2>1, <2>2
<1>10. ASSUME NEW i \in 1..Len(merged)
       PROVE  LET m == merged[i] IN
              /\ m.frame.n < sent'[m.frame.conn]
              /\ \A v \in Workers : \A f \in Waiting(v)' :
                   /\ f.kind = "audio" /\ f.conn = m.frame.conn => m.frame.n < f.n
                   /\ f.kind = "RoomMergeData" /\ f.room = m.room /\ f.frame.conn = m.frame.conn =>
                        m.frame.n < f.frame.n
  <2> DEFINE m == merged[i]
  <2>1. m \in [room : RoomIds, frame : AudioEvents]
    BY ElementOfSeq DEF IInv, InOrder
  <2>2. m.frame.conn \in Conns /\ m.frame.n \in Nat
    BY <2>1 DEF AudioEvents
  <2>3. m.frame.n < sent[m.frame.conn]
    BY DEF IInv, InOrder
  <2>4. m.frame.n < sent'[m.frame.conn]
    BY <1>6, <2>2, <2>3
  <2>5. ASSUME NEW v \in Workers, NEW f \in Waiting(v)', f.kind = "audio", f.conn = m.frame.conn
        PROVE  m.frame.n < f.n
    <3>1. CASE f = e
      BY <2>3, <2>5, <3>1
    <3>2. CASE f \in Waiting(v)
      BY <2>5, <3>2 DEF IInv, InOrder
    <3> QED BY <1>8, <3>1, <3>2
  <2>6. ASSUME NEW v \in Workers, NEW f \in Waiting(v)', f.kind = "RoomMergeData",
               f.room = m.room, f.frame.conn = m.frame.conn
        PROVE  m.frame.n < f.frame.n
    <3>1. f \in Waiting(v)
      BY <1>2, <1>8, <2>6
    <3> QED BY <2>6, <3>1 DEF IInv, InOrder
  <2> QED BY <2>4, <2>5, <2>6
<1> QED BY <1>7, <1>9, <1>10 DEF IInv, InOrder

LEMMA SendAudioStep == ASSUME IInv, NEW c \in Conns, SendAudio(c) PROVE IInv'
<1> DEFINE e == [kind |-> "audio", conn |-> c, wants |-> wants[c], n |-> sent[c]]
<1>1. Send(c, e) /\ early' = (early \/ c \notin entered) /\ UNCHANGED wants
  BY DEF SendAudio
<1>2. e \in AudioEvents /\ e \in ClientEvents
  BY DEF IInv, Queues, AudioEvents, ClientEvents
<1>3. e.kind = "audio" /\ e.conn = c /\ e.n = sent[c] /\ e.wants = wants[c]
  OBVIOUS
<1> HIDE DEF e
<1>4. wants' \in [Conns -> RoomIds \cup {None}] /\ early' \in BOOLEAN /\ (early => early')
  BY <1>1 DEF IInv, Queues, TypeOK
<1>5. /\ QueueStep({}, {<<getWorker(c), e>>})
      /\ \A d \in Conns : sent[d] <= sent'[d] /\ sent'[d] \in Nat
      /\ sent'[c] = sent[c] + 1
      /\ TypeOK' /\ Free' /\ HeldApart' /\ GivenOnce' /\ Handling' /\ Queues'
      /\ Owned => Owned'
      /\ \A d \in Conns : RoomOf(d)' = RoomOf(d)
  BY <1>1, <1>2, <1>3, <1>4, SendKeeps
<1>6. UNCHANGED <<sessPtr, merged, entered>>
  BY <1>1 DEF Send, lists, outcome
<1>7. InOrder'
  BY <1>2, <1>3, <1>5, <1>6, AudioOrder
<1>8. InTime'
  <2>1. ASSUME ~early', NEW v \in Workers, NEW f \in Waiting(v)', f.kind = "audio"
        PROVE  f.conn \in entered
    <3>1. ~early /\ c \in entered
      BY <1>1, <2>1
    <3>2. f \in Waiting(v) \/ f = e
      <4>1. PICK N : QueueStep({}, N) /\ N = {<<getWorker(c), e>>}
        BY <1>5
      <4>2. f \in Waiting(v) \/ <<v, f>> \in N
        BY <2>1, <4>1, StepWaiting DEF IInv
      <4> QED BY <4>1, <4>2
    <3> QED BY <1>3, <2>1, <3>1, <3>2 DEF IInv, InTime
  <2> QED BY <1>6, <2>1 DEF InTime
<1>9. ASSUME ~Shared' PROVE Owned' /\ RightRoom'
  <2>1. Owned /\ RightRoom
    BY <1>6, <1>9, SharedStays DEF IInv
  <2>2. wants' = IF e.kind = "createenterroom" THEN [wants EXCEPT ![c] = e.roomid] ELSE wants
    BY <1>1, <1>3
  <2>3. RightRoom'
    BY <1>1, <1>2, <1>3, <1>5, <2>1, <2>2, SendRoom
  <2> QED BY <1>5, <2>1, <2>3
<1> QED BY <1>5, <1>7, <1>8, <1>9 DEF IInv

LEMMA ClientStep ==
  ASSUME IInv, NEW c \in Conns, SendLogin(c) \/ SendEnter(c) \/ SendAudio(c) \/ SendVideo(c)
  PROVE  IInv'
<1>1. CASE SendLogin(c)
  <2> DEFINE e == [kind |-> "login", conn |-> c]
  <2>1. Send(c, e) /\ UNCHANGED <<wants, early>>
    BY <1>1 DEF SendLogin
  <2>2. e \in ClientEvents /\ e.conn = c /\ e.kind = "login"
    BY DEF ClientEvents
  <2> HIDE DEF e
  <2> QED BY <2>1, <2>2, PlainSend
<1>2. CASE SendEnter(c)
  <2>1. PICK r \in RoomIds :
          /\ Send(c, [kind |-> "createenterroom", conn |-> c, roomid |-> r])
          /\ wants' = [wants EXCEPT ![c] = r] /\ UNCHANGED early
    BY <1>2 DEF SendEnter
  <2> DEFINE e == [kind |-> "createenterroom", conn |-> c, roomid |-> r]
  <2>2. Send(c, e)
    BY <2>1
  <2>3. e \in ClientEvents /\ e.conn = c /\ e.kind = "createenterroom" /\ e.roomid = r
    BY DEF ClientEvents
  <2> HIDE DEF e
  <2> QED BY <2>1, <2>2, <2>3, PlainSend
<1>3. CASE SendAudio(c)
  BY <1>3, SendAudioStep
<1>4. CASE SendVideo(c)
  <2> DEFINE e == [kind |-> "video", conn |-> c]
  <2>1. Send(c, e) /\ UNCHANGED <<wants, early>>
    BY <1>4 DEF SendVideo
  <2>2. e \in ClientEvents /\ e.conn = c /\ e.kind = "video"
    BY DEF ClientEvents
  <2> HIDE DEF e
  <2> QED BY <2>1, <2>2, PlainSend
<1> QED BY <1>1, <1>2, <1>3, <1>4

-----------------------------------------------------------------------------
(* The theorems.                                                           *)

LEMMA StutterStep == ASSUME IInv, UNCHANGED vars PROVE IInv'
<1>1. UNCHANGED <<sessFreePtr, sess, sessPtr, data, rooms, userList, queue, pc, room, crashed,
                  sent, wants, entered, early, merged, forwarded>>
  BY DEF vars, lists, places, client, outcome
<1>2. TypeOK' /\ InTime' /\ InOrder' /\ Queues'
  BY <1>1 DEF IInv, TypeOK, InTime, InOrder, Queues, Waiting
<1>3. Handling' /\ GivenOnce' /\ HeldApart'
  BY <1>1 DEF IInv, Handling, HandlingOf, LoggingIn, GivenOnce, HeldApart, Event
<1>4. Free'
  BY <1>1 DEF IInv, Free, Held, ToSet, Event
<1>5. Shared' <=> Shared
  BY <1>1, SharedStays
<1>6. ASSUME Owned PROVE Owned'
  BY <1>1, <1>6 DEF Owned, LoggedIn, RoomOf, Waiting, Event
<1>7. ASSUME RightRoom PROVE RightRoom'
  <2>1. QueueStep({}, {})
    BY <1>1, Stays DEF IInv
  <2>2. \A c \in Conns : RoomOf(c)' = RoomOf(c)
    BY <1>1 DEF RoomOf
  <2> QED BY <1>1, <1>7, <2>1, <2>2, QuietRoom DEF RightRoom
<1> QED BY <1>2, <1>3, <1>4, <1>5, <1>6, <1>7 DEF IInv

LEMMA InitHolds == Init => IInv
<1> SUFFICES ASSUME Init PROVE IInv
  OBVIOUS
<1>1. /\ sessFreePtr \in Seq(Sess) /\ Len(sessFreePtr) = SessNum
      /\ \A i \in Sess : sessFreePtr[i] = i
      /\ ToSet(sessFreePtr) = Sess
  <2>1. sessFreePtr = [i \in 1..SessNum |-> i] /\ SessNum \in Nat
    BY WorkerIs DEF Init
  <2>2. sessFreePtr \in Seq(Sess) /\ Len(sessFreePtr) = SessNum
    BY <2>1 DEF Sess
  <2> QED BY <2>1, <2>2 DEF Sess, ToSet
<1>2. \A w \in Workers : pc[w] = "next" /\ queue[w] = <<>> /\ Len(queue[w]) = 0 /\ Waiting(w) = {}
  BY DEF Init, Waiting
<1>3. TypeOK
  <2>1. sess \in [Sess -> SessRecord]
    BY DEF Init, Closed, SessRecord
  <2>2. sessFreePtr \in Seq(Sess) /\ Len(sessFreePtr) <= SessNum
    BY <1>1, WorkerIs
  <2>3. /\ sessPtr \in [Conns -> Sess \cup {None}] /\ data \in [Conns -> Sess \cup {None}]
        /\ rooms \subseteq RoomIds /\ userList \in [RoomIds -> Sess \cup {None}]
        /\ \A r \in RoomIds : userList[r] = None
    BY DEF Init
  <2>4. /\ pc \in [Workers -> {"next", "reset", "push", "login", "post", "enter", "gate"}]
        /\ room \in [Workers -> RoomIds \cup {None}]
        /\ entered \subseteq Conns /\ crashed \in BOOLEAN /\ early \in BOOLEAN
    BY DEF Init
  <2> QED BY <2>1, <2>2, <2>3, <2>4 DEF TypeOK, SessRecord
<1>4. Queues /\ Handling /\ GivenOnce /\ HeldApart /\ InTime
  <2>1. Queues
    BY <1>2 DEF Init, Queues
  <2>2. Handling /\ HeldApart
    BY <1>2 DEF Handling, HandlingOf, HeldApart, LoggingIn
  <2>3. GivenOnce
    BY DEF Init, GivenOnce
  <2> QED BY <1>2, <2>1, <2>2, <2>3 DEF InTime
<1>5. Free
  <2>1. Held = {}
    BY <1>2 DEF Held
  <2> QED BY <1>1, <2>1 DEF Free, Sess
<1>6. InOrder
  <2>1. merged = <<>> /\ Len(merged) = 0
    BY DEF Init
  <2> QED BY <1>2, <2>1 DEF InOrder
<1>7. Owned
  BY <1>2 DEF Init, Owned
<1>8. RightRoom
  <2>1. merged = <<>> /\ Len(merged) = 0 /\ forwarded = {}
    BY DEF Init
  <2>2. ASSUME NEW c \in Conns PROVE AskedFor(c, Len(queue[getWorker(c)]) + 1, wants[c])
    <3>1. RoomOf(c) = 0 /\ Len(queue[getWorker(c)]) = 0
      BY <1>2, WorkerIs DEF Init, RoomOf
    <3> QED BY <3>1 DEF AskedFor
  <2> QED BY <1>2, <2>1, <2>2 DEF RightRoom
<1> QED BY <1>3, <1>4, <1>5, <1>6, <1>7, <1>8 DEF IInv

LEMMA WorkerStep == ASSUME IInv, NEW w \in Workers, Handle(w) PROVE IInv'
<1>1. CASE sessGetFree(w)
  BY <1>1, sessGetFreeStep
<1>2. CASE sessFree(w)
  BY <1>2, sessFreeStep
<1>3. CASE sessPush(w)
  BY <1>3, sessPushStep
<1>4. CASE Login(w)
  BY <1>4, LoginStep
<1>5. CASE workHanLogin(w)
  BY <1>5, workHanLoginStep
<1>6. CASE AskForRoom(w)
  BY <1>6, AskForRoomStep
<1>7. CASE CreEnterRoom(w)
  BY <1>7, CreEnterRoomStep
<1>8. CASE CreateRoom(w)
  BY <1>8, CreateRoomStep
<1>9. CASE EnterRoom(w)
  BY <1>9, EnterRoomStep
<1>10. CASE ReadRoom(w)
  BY <1>10, ReadRoomStep
<1>11. CASE PreRoomMergeData(w)
  BY <1>11, PreRoomMergeDataStep
<1>12. CASE RoomMergeData(w)
  BY <1>12, RoomMergeDataStep
<1>13. CASE OutConsumeQueue(w)
  BY <1>13, OutConsumeQueueStep
<1>14. CASE Ignore(w)
  BY <1>14, IgnoreStep
<1> QED BY <1>1, <1>2, <1>3, <1>4, <1>5, <1>6, <1>7, <1>8, <1>9, <1>10, <1>11, <1>12, <1>13, <1>14
        DEF Handle

\* The invariant holds for any number of workers, connections, rooms, requests
\* and sessions, if there is a session for each worker.
THEOREM SessionsInvariant == Spec => []IInv
<1>1. IInv /\ [Next]_vars => IInv'
  <2> SUFFICES ASSUME IInv, [Next]_vars PROVE IInv'
    OBVIOUS
  <2>1. ASSUME NEW c \in Conns, SendLogin(c) \/ SendEnter(c) \/ SendAudio(c) \/ SendVideo(c)
        PROVE  IInv'
    BY <2>1, ClientStep
  <2>2. ASSUME NEW w \in Workers, Handle(w) PROVE IInv'
    BY <2>2, WorkerStep
  <2>3. CASE UNCHANGED vars
    BY <2>3, StutterStep
  <2> QED BY <2>1, <2>2, <2>3 DEF Next
<1> QED BY <1>1, InitHolds, PTL DEF Spec

\* sessGetFree, sessFree, sessPush: however the logins of the workers interleave,
\* every session is in the free list once or held by one worker.
THEOREM FreeListKept == Spec => []SessionsKept
<1>1. IInv => SessionsKept
  BY DEF IInv, Free, SessionsKept
<1> QED BY <1>1, SessionsInvariant, PTL

\* As long as no two connections share a session, audio is merged only in the
\* room asked for, in order, and video goes back to its sender only.
THEOREM OwnMediaApart == Spec => []MediaApart
<1>1. IInv => MediaApart
  <2> SUFFICES ASSUME IInv, ~Shared PROVE
        /\ \A i \in 1..Len(merged) : merged[i].room = merged[i].frame.wants
        /\ \A i, j \in 1..Len(merged) :
             i < j /\ merged[i].room = merged[j].room /\ merged[i].frame.conn = merged[j].frame.conn
               => merged[i].frame.n < merged[j].frame.n
        /\ \A f \in forwarded : f.from = f.to
    BY DEF MediaApart
  <2>1. RightRoom /\ InOrder
    BY DEF IInv
  <2>2. \A i, j \in 1..Len(merged) : i < j => i \in 1..j-1
    OBVIOUS
  <2> QED BY <2>1, <2>2 DEF RightRoom, InOrder
<1> QED BY <1>1, SessionsInvariant, PTL

\* A null room is used only after audio that came too early, or with a shared session.
THEOREM RoomAlwaysThere == Spec => []CrashOnlyIfEarly
<1>1. IInv => CrashOnlyIfEarly
  BY DEF IInv, Owned, CrashOnlyIfEarly
<1> QED BY <1>1, SessionsInvariant, PTL
=============================================================================
