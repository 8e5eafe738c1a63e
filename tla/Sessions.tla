------------------------------- MODULE Sessions -------------------------------
(***************************************************************************)
(* Who is logged in, in which room he is and where his audio and video go  *)
(* (session.cpp, comm_consumer.cpp, the entering of room.cpp,              *)
(* audio_consumer.cpp, video_consumer.cpp).                                *)
(*                                                                         *)
(* What a client sends is handled by the worker of his ssrc, what concerns *)
(* a room by the worker of its id.  A worker takes the events of its       *)
(* channel one by one (see Channel); a handler writes further events,      *)
(* mostly to other workers, and works on sessions that both may hold: it   *)
(* is a step for each look at what the other worker may change meanwhile.  *)
(*                                                                         *)
(* Left out: the texts sent back, the parameters of the audio, meSubList   *)
(* (only Logout, which is never called, reads it).                         *)
(***************************************************************************)
EXTENDS Naturals, Sequences, SequencesExt, FiniteSets

CONSTANTS
  HG_WORKER_NUM,  \* number of workers
  Conns,          \* the connections, by their ssrc
  RoomIds,        \* the rooms asked for
  SessNum,        \* sessions made at the start
  MaxRequests,    \* bound: requests of each client
  None            \* a null pointer

ASSUME SessionsAssumption ==
  /\ HG_WORKER_NUM \in Nat \ {0} /\ MaxRequests \in [Conns -> Nat]
  /\ Conns \subseteq Nat \ {0} /\ RoomIds \subseteq Nat \ {0}
  /\ SessNum \in Nat /\ SessNum >= HG_WORKER_NUM
  /\ None \notin Nat

Workers == 0..HG_WORKER_NUM-1
getWorker(id) == id % HG_WORKER_NUM
Sess == 1..SessNum

VARIABLES
  sessFreePtr, \* the list of free sessions
  sess,        \* the sessions' fields
  sessPtr,     \* asyncLogin's: the session found or taken for a connection
  data,        \* hgConn->data
  rooms,       \* g_app->rooms
  userList,    \* each room's users, by the room's id
  queue,       \* the channel of each worker; the event being handled is first
  pc,          \* where a worker is in its handler
  room,        \* AudioConsumer::recvCallback's: the session's room
  crashed,     \* a null room was used
  sent,        \* requests sent by each client
  wants,       \* history: the room each client asked for last
  entered,     \* history: clients whose entering a room was handled
  early,       \* history: audio was sent before
  merged,      \* history: what was handed to the rooms to be merged
  forwarded    \* history: whose video was sent to whom

lists   == <<sessFreePtr, sessPtr, data>>
places  == <<rooms, userList>>
client  == <<sent, wants, early>>
outcome == <<merged, forwarded>>
vars    == <<lists, sess, places, queue, pc, room, crashed, client, entered, outcome>>

\* What sessFree makes of a session.
Closed == [status |-> "CLOSE", ssrc |-> 0, roomid |-> 0, rroom |-> None, bySubscList |-> {}]

\* sessInit.
Init ==
  /\ sessFreePtr = [i \in 1..SessNum |-> i]
  /\ sess = [s \in Sess |-> Closed]
  /\ sessPtr = [c \in Conns |-> None] /\ data = [c \in Conns |-> None]
  /\ rooms = {} /\ userList = [r \in RoomIds |-> None]
  /\ queue = [w \in Workers |-> <<>>] /\ pc = [w \in Workers |-> "next"]
  /\ room = [w \in Workers |-> None] /\ crashed = FALSE
  /\ sent = [c \in Conns |-> 0] /\ wants = [c \in Conns |-> None]
  /\ entered = {} /\ early = FALSE /\ merged = <<>> /\ forwarded = {}

-----------------------------------------------------------------------------
(* The clients.  They wait for no answer.                                  *)

Send(c, e) ==
  /\ ~crashed /\ sent[c] < MaxRequests[c]
  /\ sent' = [sent EXCEPT ![c] = @ + 1]
  /\ queue' = [queue EXCEPT ![getWorker(c)] = Append(@, e)]
  /\ UNCHANGED <<lists, sess, places, pc, room, crashed, entered, outcome>>

SendLogin(c) == Send(c, [kind |-> "login", conn |-> c]) /\ UNCHANGED <<wants, early>>

SendEnter(c) ==
  \E r \in RoomIds :
    /\ Send(c, [kind |-> "createenterroom", conn |-> c, roomid |-> r])
    /\ wants' = [wants EXCEPT ![c] = r]
    /\ UNCHANGED early

SendAudio(c) ==
  /\ Send(c, [kind |-> "audio", conn |-> c, wants |-> wants[c], n |-> sent[c]])
  /\ early' = (early \/ c \notin entered)
  /\ UNCHANGED wants

SendVideo(c) == Send(c, [kind |-> "video", conn |-> c]) /\ UNCHANGED <<wants, early>>

-----------------------------------------------------------------------------
(* The workers                                                             *)

\* Worker w is at this place in the handler of an event of this kind.
At(w, place, kind) ==
  /\ ~crashed /\ queue[w] # <<>> /\ pc[w] = place /\ Head(queue[w]).kind = kind

Goto(w, place) == pc' = [pc EXCEPT ![w] = place] /\ UNCHANGED queue

Event(w) == Head(queue[w])
Taken(w) == [queue EXCEPT ![w] = Tail(@)]

\* The handler returns; or returns having written an event to a worker.
Done(w) == queue' = Taken(w) /\ pc' = [pc EXCEPT ![w] = "next"]
DoneAfter(w, to, e) ==
  /\ queue' = [Taken(w) EXCEPT ![to] = Append(@, e)]
  /\ pc' = [pc EXCEPT ![w] = "next"]

Crash(w) == crashed' = TRUE /\ Goto(w, pc[w])

-----------------------------------------------------------------------------
(* asyncLogin                                                              *)

\* Mutant of sessGetFree: whoever logs in again gets another session.
sessGetFreeAlways(w) ==
  /\ At(w, "next", "login")
  /\ sessPtr' = [sessPtr EXCEPT ![Event(w).conn] = Head(sessFreePtr)]
  /\ sessFreePtr' = Tail(sessFreePtr)
  /\ Goto(w, "reset")
  /\ UNCHANGED <<data, sess, places, room, crashed, client, entered, outcome>>

\* A connection's first login: its locked half ...
sessGetFree(w) ==
  /\ At(w, "next", "login") /\ data[Event(w).conn] = None
  /\ sessPtr' = [sessPtr EXCEPT ![Event(w).conn] = Head(sessFreePtr)]
  /\ sessFreePtr' = Tail(sessFreePtr)
  /\ Goto(w, "reset")
  /\ UNCHANGED <<data, sess, places, room, crashed, client, entered, outcome>>

\* ... and the call of sessFree after it, which resets the session ...
sessFree(w) ==
  /\ At(w, "reset", "login")
  /\ sess' = [sess EXCEPT ![sessPtr[Event(w).conn]] = Closed]
  /\ Goto(w, "push")
  /\ UNCHANGED <<lists, places, room, crashed, client, entered, outcome>>

\* Mutant of sessPush: the rest of the list is not linked to it.
sessPushAlone(w) ==
  /\ At(w, "push", "login")
  /\ sessFreePtr' = <<sessPtr[Event(w).conn]>>
  /\ Goto(w, "login")
  /\ UNCHANGED <<sessPtr, data, sess, places, room, crashed, client, entered, outcome>>

\* ... and puts it back to the free ones.
sessPush(w) ==
  /\ At(w, "push", "login")
  /\ sessFreePtr' = <<sessPtr[Event(w).conn]>> \o sessFreePtr
  /\ Goto(w, "login")
  /\ UNCHANGED <<sessPtr, data, sess, places, room, crashed, client, entered, outcome>>

Login(w) ==
  /\ \/ At(w, "login", "login")
     \/ At(w, "next", "login") /\ data[Event(w).conn] # None
  /\ LET c == Event(w).conn
         s == sessPtr[c]
     IN  /\ data' = [data EXCEPT ![c] = s]
         /\ sess' = [sess EXCEPT ![s].status = "LOGIN", ![s].ssrc = c]
         /\ DoneAfter(w, getWorker(c), [kind |-> "workHanLogin", sess |-> s, ssrc |-> c])
  /\ UNCHANGED <<sessFreePtr, sessPtr, places, room, crashed, client, entered, outcome>>

\* He who logged in is a subscriber of his own.
workHanLogin(w) ==
  /\ At(w, "next", "workHanLogin")
  /\ sess' = [sess EXCEPT ![Event(w).sess].bySubscList = @ \cup {Event(w).ssrc}]
  /\ Done(w)
  /\ UNCHANGED <<lists, places, room, crashed, client, entered, outcome>>

-----------------------------------------------------------------------------
(* Entering a room                                                         *)

LoggedIn(s) == s # None /\ sess[s].status = "LOGIN"

\* CommConsumer::recvCallback: the session's roomid is set at once ...
AskForRoom(w) ==
  /\ At(w, "next", "createenterroom") /\ LoggedIn(data[Event(w).conn])
  /\ sess' = [sess EXCEPT ![data[Event(w).conn]].roomid = Event(w).roomid]
  /\ Goto(w, "post")
  /\ UNCHANGED <<lists, places, room, crashed, client, entered, outcome>>

\* ... and the rest is left to the room's worker, if he is still logged in.
CreEnterRoom(w) ==
  /\ At(w, "post", "createenterroom")
  /\ LET c == Event(w).conn
         r == Event(w).roomid
     IN  IF LoggedIn(data[c])
         THEN DoneAfter(w, getWorker(r),
                [kind |-> "HandleCreEnterRoo", sess |-> data[c], roomid |-> r, conn |-> c])
         ELSE Done(w)
  /\ UNCHANGED <<lists, sess, places, room, crashed, client, entered, outcome>>

\* Who is not logged in gets no room, and enters it all the same.
CreateRoom(w) ==
  /\ At(w, "next", "HandleCreEnterRoo")
  /\ IF LoggedIn(Event(w).sess)
     THEN rooms' = rooms \cup {Event(w).roomid} /\ Goto(w, "enter") /\ UNCHANGED crashed
     ELSE Crash(w) /\ UNCHANGED rooms
  /\ UNCHANGED <<lists, sess, userList, room, client, entered, outcome>>

\* The list of users is keyed by the room: insert keeps the first.
EnterRoom(w) ==
  /\ At(w, "enter", "HandleCreEnterRoo")
  /\ LET s == Event(w).sess
         r == Event(w).roomid
     IN  /\ sess' = [sess EXCEPT ![s].rroom = r]
         /\ userList' = [userList EXCEPT ![r] = IF @ = None THEN s ELSE @]
  /\ entered' = entered \cup {Event(w).conn}
  /\ Done(w)
  /\ UNCHANGED <<lists, rooms, room, crashed, client, outcome>>

-----------------------------------------------------------------------------
(* Audio and video                                                         *)

\* AudioConsumer::recvCallback: the room is read ...
ReadRoom(w) ==
  /\ At(w, "next", "audio") /\ LoggedIn(data[Event(w).conn])
  /\ room' = [room EXCEPT ![w] = sess[data[Event(w).conn]].rroom]
  /\ Goto(w, "gate")
  /\ UNCHANGED <<lists, sess, places, crashed, client, entered, outcome>>

\* Mutant of InStep: no such test.
InStepAlways(w) == TRUE

\* "Against being out of step": the room is the one he asked for.
InStep(w) == room[w] = sess[data[Event(w).conn]].roomid

\* ... and the frame passed on to its worker.
PreRoomMergeData(w) ==
  /\ At(w, "gate", "audio")
  /\ IF room[w] = None THEN Crash(w)
     ELSE /\ IF InStep(w)
             THEN DoneAfter(w, getWorker(room[w]),
                    [kind |-> "RoomMergeData", room |-> room[w], frame |-> Event(w)])
             ELSE Done(w)
          /\ UNCHANGED crashed
  /\ UNCHANGED <<lists, sess, places, room, client, entered, outcome>>

RoomMergeData(w) ==
  /\ At(w, "next", "RoomMergeData")
  /\ merged' = Append(merged, [room |-> Event(w).room, frame |-> Event(w).frame])
  /\ Done(w)
  /\ UNCHANGED <<lists, sess, places, room, crashed, client, entered, forwarded>>

\* VideoConsumer: the subscribers of a session are entries with that session.
OutConsumeQueue(w) ==
  /\ At(w, "next", "video") /\ LoggedIn(data[Event(w).conn])
  /\ LET s == data[Event(w).conn]
     IN  forwarded' = forwarded \cup
           {[from |-> Event(w).conn, to |-> sess[s].ssrc] : q \in sess[s].bySubscList}
  /\ Done(w)
  /\ UNCHANGED <<lists, sess, places, room, crashed, client, entered, merged>>

\* recvCallback of all three: nobody is logged in.
Ignore(w) ==
  /\ \E kind \in {"createenterroom", "audio", "video"} : At(w, "next", kind)
  /\ ~LoggedIn(data[Event(w).conn])
  /\ Done(w)
  /\ UNCHANGED <<lists, sess, places, room, crashed, client, entered, outcome>>

-----------------------------------------------------------------------------
Handle(w) ==
  \/ sessGetFree(w) \/ sessFree(w) \/ sessPush(w) \/ Login(w) \/ workHanLogin(w)
  \/ AskForRoom(w) \/ CreEnterRoom(w) \/ CreateRoom(w) \/ EnterRoom(w)
  \/ ReadRoom(w) \/ PreRoomMergeData(w) \/ RoomMergeData(w)
  \/ OutConsumeQueue(w) \/ Ignore(w)

Next ==
  \/ \E c \in Conns : SendLogin(c) \/ SendEnter(c) \/ SendAudio(c) \/ SendVideo(c)
  \/ \E w \in Workers : Handle(w)

Spec == Init /\ [][Next]_vars

-----------------------------------------------------------------------------
(* Properties                                                              *)

\* Types.
TypeOK ==
  /\ sessFreePtr \in Seq(Sess) /\ Len(sessFreePtr) <= SessNum
  /\ sess \in [Sess -> [status : {"CLOSE", "LOGIN"}, ssrc : Conns \cup {0},
                        roomid : RoomIds \cup {0}, rroom : RoomIds \cup {None},
                        bySubscList : SUBSET Conns]]
  /\ sessPtr \in [Conns -> Sess \cup {None}] /\ data \in [Conns -> Sess \cup {None}]
  /\ rooms \subseteq RoomIds /\ userList \in [RoomIds -> Sess \cup {None}]
  /\ \A r \in RoomIds : userList[r] # None => r \in rooms
  /\ pc \in [Workers -> {"next", "reset", "push", "login", "post", "enter", "gate"}]
  /\ room \in [Workers -> RoomIds \cup {None}]
  /\ entered \subseteq Conns /\ crashed \in BOOLEAN /\ early \in BOOLEAN

\* Taken off the list and not yet put back.
Held ==
  {sessPtr[Event(w).conn] : w \in {v \in Workers :
     pc[v] \in {"reset", "push"} /\ queue[v] # <<>>}}

\* However the logins of two workers interleave, no session is lost from the
\* free list, none is in it twice, none while its fields are being reset; types
\* included.
SessionsKept ==
  /\ TypeOK
  /\ \A i, j \in 1..Len(sessFreePtr) : i # j => sessFreePtr[i] # sessFreePtr[j]
  /\ ToSet(sessFreePtr) \cup Held = Sess
  /\ ToSet(sessFreePtr) \cap Held = {}

\* Two connections were given the same session.
Shared ==
  \E c, d \in Conns : c # d /\ sessPtr[c] # None /\ sessPtr[c] = sessPtr[d]

\* As long as his session is his own, a client's audio is merged only in the
\* room that he had asked for when he sent it, in the order in which he sent
\* it, though rooms are entered on other workers and later; and his video goes
\* to nobody else.
MediaApart ==
  ~Shared =>
    /\ \A i \in 1..Len(merged) : merged[i].room = merged[i].frame.wants
    /\ \A i, j \in 1..Len(merged) :
         i < j /\ merged[i].room = merged[j].room /\ merged[i].frame.conn = merged[j].frame.conn
           => merged[i].frame.n < merged[j].frame.n
    /\ \A f \in forwarded : f.from = f.to

\* A null room is used only if audio was sent before a room was entered, or
\* two clients share a session: logging in again or moving to another room
\* never takes the room away from a client who has one.
CrashOnlyIfEarly == crashed => early \/ Shared

(* What the code's comments say and the code does not do.                  *)

\* "This thread scope set sess": a session is of one connection.
SessionOfOne == ~Shared
=============================================================================
