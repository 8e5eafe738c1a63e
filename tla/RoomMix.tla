------------------------------- MODULE RoomMix -------------------------------
(***************************************************************************)
(* The audio of a room (app/room.cpp).  Frames of all users are added up   *)
(* in a buffer of audioCaNum slots, one per 20 ms; RoomMergeData finds the *)
(* slot of a frame from the frame's time stamp, the user's last one and    *)
(* the time since the room began to play, and then sends to the users of   *)
(* the room every mix whose time has come.                                 *)
(*                                                                         *)
(* Everything here runs on the room's worker thread; only the clock moves  *)
(* meanwhile.  Time stamps of frames and slots are 16-bit numbers on a     *)
(* circle of HG_SEQ_MAX_NUM, the time since the room began is a 32-bit     *)
(* count: where the code mixes them, so does the model.  The samples of a  *)
(* frame are named by the user and the slot time it was stored for.  The   *)
(* mix a user gets holds his own voice too: it is computed without it and  *)
(* sent with it, so what he said is not kept apart here.                   *)
(***************************************************************************)
EXTENDS SeqArith, FiniteSets

CONSTANTS
  Users,        \* those who may enter the room
  audioCaNum,   \* slots of the buffer: samplesrate / frameperbuf
  FirstPts,     \* FirstPts[u]: the time stamp of the first frame of u
  Gaps,         \* by how much the time stamp of a user's next frame is higher: 0
                \* when he repeats one
  MaxFrames,    \* bound: frames of each user
  MaxEnters,    \* bound: how often a user enters
  MaxClock      \* bound: the time, in slots, since the room began to play

ASSUME RoomAssumption ==
  /\ audioCaNum \in Nat \ {0} /\ MaxFrames \in [Users -> Nat] /\ MaxClock \in Nat
  /\ MaxEnters \in [Users -> Nat]
  /\ Gaps \subseteq Nat
  /\ FirstPts \in [Users -> 0..HG_SEQ_MAX_NUM-1]

Slots == 0..audioCaNum-1
Pts   == 0..HG_SEQ_MAX_NUM-1
Time  == 0..MaxClock
Sound == Users \X Nat

U16(x) == x % (HG_SEQ_MAX_NUM + 1)

VARIABLES
  clock,        \* slots of time since startplay
  startplay,    \* the first frame has come
  nextptsplay,  \* the time of the next slot to be sent
  size,         \* rooBufinfo.size: the slots in use
  samptota,     \* rooBufinfo.samptota: the sounds added up in each slot
  userList,     \* those the mix is sent to
  entered,      \* how often each user has entered
  cpts, spts,   \* per user: time stamp and slot time of his last frame
  pc,           \* "idle", or "send" in the loop at the end of RoomMergeData
  diffpts,      \* RoomMergeData: the time read from the clock
  nextpts,      \* RoomMergeData: the loop's slot time
  frames,       \* environment: frames each user has sent
  last,         \* environment: the time stamp of the last of them
  due,          \* history: the sounds stored and not yet sent, with their time
  before,       \* history: those of them stored before their user entered again
  out           \* history: the time of the last mix sent

room  == <<startplay, nextptsplay, size, samptota>>
sess  == <<cpts, spts>>
local == <<pc, diffpts, nextpts>>
sent  == <<frames, last>>
vars  == <<clock, room, userList, entered, sess, local, sent, due, before, out>>

Init ==
  /\ clock = 0 /\ startplay = FALSE /\ nextptsplay = 0
  /\ size = [i \in Slots |-> 0] /\ samptota = [i \in Slots |-> {}]
  /\ userList = {} /\ entered = [u \in Users |-> 0]
  /\ cpts = [u \in Users |-> 0] /\ spts = [u \in Users |-> 0]
  /\ pc = "idle" /\ diffpts = 0 /\ nextpts = 0
  /\ frames = [u \in Users |-> 0] /\ last = FirstPts
  /\ due = {} /\ before = {} /\ out = -1

\* hgetSysTimeMicros.
Tick ==
  /\ startplay /\ clock < MaxClock
  /\ clock' = clock + 1
  /\ UNCHANGED <<room, userList, entered, sess, local, sent, due, before, out>>

-----------------------------------------------------------------------------
(* EnterRoom: the list is keyed by the id of the room, and insert leaves   *)
(* what is there.  He may enter again, while frames of his wait.           *)

EnterRoom(u) ==
  /\ pc = "idle" /\ entered[u] < MaxEnters[u]
  /\ entered' = [entered EXCEPT ![u] = @ + 1]
  /\ userList' = IF userList = {} THEN {u} ELSE userList
  /\ cpts' = [cpts EXCEPT ![u] = 0]
  /\ spts' = [spts EXCEPT ![u] = 0]
  /\ before' = before \cup {d \in due : d[1] = u}
  /\ UNCHANGED <<clock, room, local, sent, due, out>>

-----------------------------------------------------------------------------
(* RoomMergeData                                                           *)

\* The user's next frame and its time stamp: he counts on when he enters again.
Sends(u, p) ==
  /\ pc = "idle" /\ entered[u] > 0 /\ frames[u] < MaxFrames[u]
  /\ \/ frames[u] = 0 /\ p = FirstPts[u]
     \/ frames[u] > 0 /\ \E g \in Gaps : p = uint16Add(last[u], g)
  /\ frames' = [frames EXCEPT ![u] = @ + 1] /\ last' = [last EXCEPT ![u] = p]

\* Not newer than the user's last frame.
Old(u, p) == p # 0 /\ uint16Sub(p, cpts[u]) <= 0

Ignore(u, p) ==
  /\ Sends(u, p) /\ Old(u, p)
  /\ UNCHANGED <<clock, room, userList, entered, sess, local, due, before, out>>

\* uint32Sub of two 16-bit numbers: across a wrap they are too far apart.
Since(newd, oldd) == IF newd < oldd THEN -1 ELSE newd - oldd

\* The first frame starts the room's clock and counts from itself.
Now   == IF startplay THEN clock ELSE 0
Mine(u) == IF startplay THEN spts[u] ELSE 0
Theirs(u, p) == IF startplay THEN cpts[u] ELSE p

\* Mutant of realpts: a frame is played at once even if others wait.
RealptsAtOnce(u, p) == Now

\* Behind the user's frames that still wait, or at once if none does.
realpts(u, p) ==
  IF uint16Sub(U16(Mine(u)), U16(Now)) >= 0
  THEN uint16Add(U16(Mine(u)), U16(Since(p, Theirs(u, p))))
  ELSE Now

PlayFrom(u, p) == IF startplay THEN nextptsplay ELSE realpts(u, p)

\* Mutant of TooFar: the buffer is taken to be one slot longer.
TooFarByOne(u, p) ==
  uint16Sub(U16(realpts(u, p)), U16(PlayFrom(u, p))) > audioCaNum

TooFar(u, p) ==
  uint16Sub(U16(realpts(u, p)), U16(PlayFrom(u, p))) >= audioCaNum

\* Mutant of MergeAudioData: the slot is not cleared for its first frame.
MergeAddsAlways(t, sound) ==
  /\ samptota' = [samptota EXCEPT ![t % audioCaNum] = @ \cup {sound}]
  /\ size' = [size EXCEPT ![t % audioCaNum] = 1]

\* The first frame of a slot replaces what was there, others are added.
MergeAudioData(t, sound) ==
  LET i == t % audioCaNum
  IN  /\ samptota' = [samptota EXCEPT ![i] = IF size[i] = 0 THEN {sound} ELSE @ \cup {sound}]
      /\ size' = [size EXCEPT ![i] = 1]

Drop(u, p) == TooFar(u, p) /\ UNCHANGED <<size, samptota, due>>

\* A frame that is not half as long as the raw one is not added.
WrongSize(u, p) == ~TooFar(u, p) /\ UNCHANGED <<size, samptota, due>>

Keep(u, p) ==
  /\ ~TooFar(u, p)
  /\ MergeAudioData(realpts(u, p), <<u, realpts(u, p)>>)
  /\ due' = due \cup {<<u, realpts(u, p)>>}

Remember(u, p) ==
  /\ spts' = [spts EXCEPT ![u] = realpts(u, p)]
  /\ cpts' = [cpts EXCEPT ![u] = p]

RoomMergeData(u, p) ==
  /\ Sends(u, p) /\ ~Old(u, p)
  /\ Drop(u, p) \/ WrongSize(u, p) \/ Keep(u, p)
  /\ Remember(u, p)
  /\ before' = before \ {<<u, realpts(u, p)>>}
  /\ startplay' = TRUE
  /\ nextptsplay' = PlayFrom(u, p)
  /\ diffpts' = Now
  /\ IF uint16Sub(U16(Now), U16(PlayFrom(u, p))) > 0
     THEN pc' = "send" /\ nextpts' = PlayFrom(u, p)
     ELSE UNCHANGED <<pc, nextpts>>
  /\ UNCHANGED <<clock, userList, entered, out>>

-----------------------------------------------------------------------------
(* The loop at its end: one slot per step                                  *)

Index == nextpts % audioCaNum

\* The mix of the slot goes to the users of the list.
OutConsumeQueue == size[Index] # 0 /\ out' = nextpts
Silence         == size[Index] = 0 /\ UNCHANGED out

ClearSlot == size' = [size EXCEPT ![Index] = 0]

\* Mutants of Advance: the loop looks at one slot too many; an unused slot is
\* not passed.
AdvanceStopsLate ==
  /\ nextpts' = uint16Add(U16(nextpts), 1)
  /\ IF nextpts = diffpts THEN nextptsplay' = diffpts /\ pc' = "idle"
                          ELSE UNCHANGED <<nextptsplay, pc>>
AdvanceIfUsed ==
  /\ nextpts' = IF size[Index] # 0 THEN uint16Add(U16(nextpts), 1) ELSE nextpts
  /\ IF nextpts' = diffpts THEN nextptsplay' = diffpts /\ pc' = "idle"
                           ELSE UNCHANGED <<nextptsplay, pc>>

Advance ==
  /\ nextpts' = uint16Add(U16(nextpts), 1)
  /\ IF nextpts' = diffpts THEN nextptsplay' = diffpts /\ pc' = "idle"
                           ELSE UNCHANGED <<nextptsplay, pc>>

SendDue ==
  /\ pc = "send"
  /\ OutConsumeQueue \/ Silence
  /\ ClearSlot
  /\ Advance
  /\ due' = {d \in due : d[2] # nextpts} /\ before' = {d \in before : d[2] # nextpts}
  /\ UNCHANGED <<clock, startplay, samptota, userList, entered, cpts, spts, diffpts, sent>>

Next ==
  \/ Tick
  \/ \E u \in Users : EnterRoom(u)
  \/ \E u \in Users, p \in Pts : Ignore(u, p) \/ RoomMergeData(u, p)
  \/ SendDue

Spec == Init /\ [][Next]_vars

\* The worker thread goes on with a handler it has begun.
FairSpec == Spec /\ WF_vars(SendDue)

-----------------------------------------------------------------------------
(* Properties                                                              *)

\* Types: every time stamp is one, slots hold sounds of users who entered.
TypeOK ==
  /\ clock \in Time /\ diffpts \in Time /\ startplay \in BOOLEAN
  /\ nextptsplay \in Pts /\ nextpts \in Pts
  /\ size \in [Slots -> {0, 1}] /\ samptota \in [Slots -> SUBSET Sound]
  /\ entered \in [Users -> Nat] /\ userList \subseteq {u \in Users : entered[u] > 0}
  /\ cpts \in [Users -> Pts] /\ spts \in [Users -> Nat]
  /\ pc \in {"idle", "send"}
  /\ \A u \in Users : frames[u] \in 0..MaxFrames[u] /\ last \in [Users -> Pts]
  /\ due \subseteq Sound /\ before \subseteq due
  /\ out \in Pts \cup {-1}

\* Whatever is stored is in the slot of its time, and its time is one the loop
\* still comes to: no slot is shared by two times, nothing is left behind.  After
\* an event nothing waits whose time had passed when it was handled.
BufferWindow ==
  /\ TypeOK
  /\ \A d \in due :
       LET from == IF pc = "send" THEN nextpts ELSE nextptsplay
       IN  /\ uint16Sub(d[2], from) >= 0
           /\ uint16Sub(d[2], nextptsplay) < audioCaNum
           /\ size[d[2] % audioCaNum] = 1 /\ d \in samptota[d[2] % audioCaNum]
  /\ pc = "idle" => \A d \in due : d[2] >= diffpts

\* What is sent for a time is what was stored for it, all of it and nothing
\* else, and nothing is sent only if nothing was stored.
MixExact ==
  [][SendDue => (IF size[Index] # 0 THEN samptota[Index] ELSE {})
                  = {d \in due : d[2] = nextpts}]_vars

\* A mix is not sent before its time has passed, nor after a later one.
PlayedOnTime ==
  [][out' # out => out' < diffpts /\ out' > out]_vars

\* "In effect it is stored behind the buffer": a frame is stored later than
\* everything of the same user that still waits, unless that was stored before
\* he entered again: entering forgets it.
StoredBehind ==
  [][\A u \in Users : entered' = entered /\ cpts'[u] # cpts[u] =>
       \A d \in due \ before : d[1] = u => uint16Sub(U16(spts'[u]), d[2]) > 0]_vars

\* The loop ends, so that the worker comes to its next event.
LoopEnds == pc = "send" ~> pc = "idle"
=============================================================================
