---------------------------- MODULE RoomMixProofs -----------------------------
(***************************************************************************)
(* The room's buffer, for any users, any number of slots and any time, as  *)
(* long as neither the clock nor a time stamp comes half way round its     *)
(* circle: every mix is what was stored for its time, and is sent in its   *)
(* turn.                                                                   *)
(***************************************************************************)
EXTENDS RoomMix, DataProofs

\* How far apart the time stamps of a user's frames are at most.
WidestGap == CHOOSE g \in Gaps : \A x \in Gaps : x <= g

\* The hypothesis: no time stamp, and no time a frame is stored for, comes
\* to half the circle.
FirstHalf ==
  /\ WidestGap \in Nat /\ \A x \in Gaps : x <= WidestGap
  /\ MaxClock <= Half
  /\ \A u \in Users : FirstPts[u] + MaxFrames[u] * WidestGap + MaxClock <= Half

-----------------------------------------------------------------------------
(* The invariant                                                           *)

\* Types, with the domain of frames.
Types == TypeOK /\ frames \in [Users -> Nat]

\* The slot the loop, or the next one, begins with.
From == IF pc = "send" THEN nextpts ELSE nextptsplay

\* The times of the buffer follow the clock.
Clocks ==
  /\ nextptsplay <= diffpts /\ diffpts <= clock
  /\ pc = "idle" => nextptsplay = diffpts
  /\ pc = "send" => nextptsplay <= nextpts /\ nextpts < diffpts
  /\ ~startplay => clock = 0 /\ due = {}
  /\ out < From

\* Time stamps grow with the frames sent, slot times not faster than both.
Stamps ==
  \A u \in Users :
    /\ last[u] <= FirstPts[u] + frames[u] * WidestGap
    /\ cpts[u] <= last[u]
    /\ spts[u] <= clock + cpts[u]

\* What waits lies within one round of the buffer, in the slot of its time.
Waiting ==
  \A d \in due :
    /\ From <= d[2] /\ d[2] < nextptsplay + audioCaNum
    /\ d[2] <= clock + last[d[1]]
    /\ size[d[2] % audioCaNum] = 1 /\ d \in samptota[d[2] % audioCaNum]

\* A slot in use holds what waits for one time, all of it and nothing else.
SlotExact ==
  \A i \in Slots : size[i] = 1 =>
    \E d \in due : d[2] % audioCaNum = i /\ samptota[i] = {e \in due : e[2] = d[2]}

\* The user's last slot time is behind all he stored since he entered.
Behind == \A d \in due \ before : d[2] <= spts[d[1]]

IInv == Types /\ Clocks /\ Stamps /\ Waiting /\ SlotExact /\ Behind

-----------------------------------------------------------------------------
(* Numbers in the first half of the circle are compared as they are.       *)

LEMMA Circle ==
  /\ HG_SEQ_MAX_NUM \in Nat \ {0} /\ Half \in Nat
  /\ HG_SEQ_MAX_NUM = 2 * Half + 1
BY SeqAssumption DEF Half

LEMMA SubHalf ==
  ASSUME NEW a \in 0..Half, NEW b \in 0..Half
  PROVE  uint16Sub(a, b) = IF a < b THEN -1 ELSE a - b
BY Circle DEF uint16Sub

LEMMA U16Half ==
  ASSUME NEW a \in 0..Half
  PROVE  U16(a) = a
<1>1. a \in Nat /\ HG_SEQ_MAX_NUM + 1 \in Nat \ {0} /\ a < HG_SEQ_MAX_NUM + 1
  BY Circle
<1> QED BY <1>1, Remainder DEF U16

LEMMA AddHalf ==
  ASSUME NEW a \in Nat, NEW b \in Nat, a + b <= Half
  PROVE  uint16Add(a, b) = a + b
<1> DEFINE c == a + b
<1>1. c \in Nat /\ HG_SEQ_MAX_NUM \in Nat \ {0} /\ c < HG_SEQ_MAX_NUM
  BY Circle
<1> HIDE DEF c
<1>2. c % HG_SEQ_MAX_NUM = c
  BY <1>1, Remainder
<1> QED BY <1>2 DEF uint16Add, c

\* One more frame, one more gap; no more frames than all.
LEMMA MoreGaps ==
  ASSUME NEW g \in Nat, NEW n \in Nat, NEW m \in Nat, n <= m
  PROVE  /\ n * g \in Nat /\ m * g \in Nat /\ n * g <= m * g
         /\ (n + 1) * g = n * g + g
<1>1. n * g \in Nat /\ m * g \in Nat /\ (n + 1) * g = n * g + g
  OBVIOUS
<1>2. PICK k \in Nat : m = n + k
  <2>1. m - n \in Nat /\ m = n + (m - n)
    OBVIOUS
  <2> QED BY <2>1
<1>3. (n + k) * g = n * g + k * g /\ k * g \in Nat
  OBVIOUS
<1> QED BY <1>1, <1>2, <1>3

\* Slots of two times less than one round apart are different.
LEMMA SlotsDiffer ==
  ASSUME NEW a \in Nat, NEW b \in Nat, NEW f \in Nat,
         f <= a, a < f + audioCaNum, f <= b, b < f + audioCaNum,
         a % audioCaNum = b % audioCaNum
  PROVE  a = b
<1>1. audioCaNum \in Nat \ {0}
  BY RoomAssumption
<1>2. ASSUME a < b PROVE FALSE
  <2>1. b - a < audioCaNum
    BY <1>1, <1>2
  <2> QED BY <1>1, <1>2, <2>1, RemaindersDiffer
<1>3. ASSUME b < a PROVE FALSE
  <2>1. a - b < audioCaNum
    BY <1>1, <1>3
  <2> QED BY <1>1, <1>3, <2>1, RemaindersDiffer
<1> QED BY <1>2, <1>3

LEMMA SlotOf ==
  ASSUME NEW a \in Nat
  PROVE  a % audioCaNum \in Slots
BY RoomAssumption, Remainder DEF Slots

\* The types, field by field.
LEMMA Typed ==
  ASSUME Types
  PROVE  /\ clock \in Nat /\ clock <= MaxClock /\ diffpts \in Nat /\ startplay \in BOOLEAN
         /\ nextptsplay \in Nat /\ nextpts \in Nat /\ pc \in {"idle", "send"}
         /\ From \in Nat /\ audioCaNum \in Nat \ {0} /\ MaxClock \in Nat
         /\ \A u \in Users : /\ last[u] \in Nat /\ cpts[u] \in Nat /\ spts[u] \in Nat
                             /\ frames[u] \in Nat /\ frames[u] <= MaxFrames[u]
                             /\ MaxFrames[u] \in Nat /\ FirstPts[u] \in Nat
         /\ \A d \in due : d[1] \in Users /\ d[2] \in Nat /\ d = <<d[1], d[2]>>
         /\ before \subseteq due /\ (out \in Nat \/ out = -1)
         /\ size \in [Slots -> {0, 1}] /\ samptota \in [Slots -> SUBSET Sound]
<1>1. clock \in Nat /\ clock <= MaxClock /\ diffpts \in Nat /\ startplay \in BOOLEAN
  BY RoomAssumption DEF Types, TypeOK, Time
<1>2. nextptsplay \in Nat /\ nextpts \in Nat /\ pc \in {"idle", "send"}
  BY Circle DEF Types, TypeOK, Pts
<1>3. From \in Nat
  BY <1>2 DEF From
<1>4. \A u \in Users : MaxFrames[u] \in Nat /\ FirstPts[u] \in Nat
  BY RoomAssumption, Circle
<1>5. \A u \in Users : /\ last[u] \in Nat /\ cpts[u] \in Nat /\ spts[u] \in Nat
                       /\ frames[u] \in Nat /\ frames[u] <= MaxFrames[u]
  BY <1>4, Circle DEF Types, TypeOK, Pts
<1>6. \A d \in due : d[1] \in Users /\ d[2] \in Nat /\ d = <<d[1], d[2]>>
  BY DEF Types, TypeOK, Sound
<1>7. before \subseteq due /\ (out \in Nat \/ out = -1)
  BY Circle DEF Types, TypeOK, Pts
<1>8. size \in [Slots -> {0, 1}] /\ samptota \in [Slots -> SUBSET Sound]
  BY DEF Types, TypeOK
<1> QED BY <1>1, <1>2, <1>3, <1>4, <1>5, <1>6, <1>7, <1>8, RoomAssumption

\* No time comes to half the circle.
LEMMA StaysLow ==
  ASSUME FirstHalf, Types, Stamps
  PROVE  \A u \in Users : last[u] + clock <= Half
<1>1. ASSUME NEW u \in Users PROVE last[u] + clock <= Half
  <2>1. frames[u] * WidestGap \in Nat /\ MaxFrames[u] * WidestGap \in Nat
        /\ frames[u] * WidestGap <= MaxFrames[u] * WidestGap
    BY MoreGaps, Typed DEF FirstHalf
  <2>2. FirstPts[u] + MaxFrames[u] * WidestGap + MaxClock <= Half
    BY DEF FirstHalf
  <2>3. last[u] <= FirstPts[u] + frames[u] * WidestGap
    BY DEF Stamps
  <2> DEFINE a == frames[u] * WidestGap
             b == MaxFrames[u] * WidestGap
  <2> HIDE DEF a, b
  <2>4. /\ a \in Nat /\ b \in Nat /\ a <= b /\ last[u] <= FirstPts[u] + a
        /\ FirstPts[u] + b + MaxClock <= Half
    BY <2>1, <2>2, <2>3 DEF a, b
  <2>5. /\ last[u] \in Nat /\ clock \in Nat /\ clock <= MaxClock /\ MaxClock \in Nat
        /\ FirstPts[u] \in Nat /\ Half \in Nat
    BY Typed, Circle
  <2> QED BY <2>4, <2>5
<1> QED BY <1>1

-----------------------------------------------------------------------------
(* Where a frame is stored                                                 *)

\* The next time stamp is not lower than the last, and what it may grow to.
LEMMA NextStamp ==
  ASSUME FirstHalf, IInv, NEW u \in Users, NEW p \in Pts, Sends(u, p)
  PROVE  /\ p \in Nat /\ last[u] <= p
         /\ p <= FirstPts[u] + (frames[u] + 1) * WidestGap
         /\ p + clock <= Half
<1> DEFINE a == frames[u] * WidestGap
           b == MaxFrames[u] * WidestGap
           a1 == (frames[u] + 1) * WidestGap
<1>1. /\ a \in Nat /\ b \in Nat /\ a1 = a + WidestGap /\ a1 <= b
      /\ WidestGap \in Nat
  <2>1. frames[u] \in Nat /\ MaxFrames[u] \in Nat /\ frames[u] + 1 <= MaxFrames[u]
    BY Typed DEF Sends, IInv
  <2>2. WidestGap \in Nat
    BY DEF FirstHalf
  <2>3. a \in Nat /\ b \in Nat /\ a1 = a + WidestGap
    BY <2>1, <2>2, MoreGaps
  <2>4. frames[u] + 1 \in Nat
    BY <2>1
  <2>5. a1 <= b
    BY <2>1, <2>2, <2>4, MoreGaps
  <2> QED BY <2>2, <2>3, <2>5
<1>2. FirstPts[u] + b + MaxClock <= Half /\ last[u] <= FirstPts[u] + a
  BY DEF FirstHalf, IInv, Stamps
<1>3. /\ last[u] \in Nat /\ clock \in Nat /\ clock <= MaxClock /\ MaxClock \in Nat
      /\ FirstPts[u] \in Nat /\ Half \in Nat
  BY Typed, Circle DEF IInv
<1>4. last[u] <= p /\ p <= FirstPts[u] + a1 /\ p \in Nat
  <2>1. CASE frames[u] = 0 /\ p = FirstPts[u]
    <3>1. a = 0
      BY <2>1, <1>1
    <3> HIDE DEF a, b, a1
    <3> QED BY <1>1, <1>2, <1>3, <2>1, <3>1
  <2>2. CASE \E x \in Gaps : p = uint16Add(last[u], x)
    <3>1. PICK x \in Gaps : p = uint16Add(last[u], x)
      BY <2>2
    <3>2. x \in Nat /\ x <= WidestGap
      BY RoomAssumption DEF FirstHalf
    <3> HIDE DEF a, b, a1
    <3>3. last[u] + x <= Half
      BY <1>1, <1>2, <1>3, <3>2
    <3>4. p = last[u] + x
      BY <1>3, <3>1, <3>2, <3>3, AddHalf
    <3> QED BY <1>1, <1>2, <1>3, <3>2, <3>4
  <2> QED BY <2>1, <2>2 DEF Sends
<1> HIDE DEF a, b
<1>5. p + clock <= Half
  BY <1>1, <1>2, <1>3, <1>4
<1> QED BY <1>4, <1>5

\* A frame that is not old: it is stored at or after the time of the clock, behind
\* the user's last one, and not later than its time stamp allows.
LEMMA StoredAt ==
  ASSUME FirstHalf, IInv, NEW u \in Users, NEW p \in Pts, Sends(u, p), ~Old(u, p),
         NEW t, t = realpts(u, p), NEW f, f = PlayFrom(u, p)
  PROVE  /\ t \in Nat /\ f \in Nat /\ Now = clock
         /\ cpts[u] <= p /\ f <= clock /\ clock <= t /\ t <= clock + p /\ t <= Half
         /\ startplay => /\ f = nextptsplay /\ spts[u] <= t
                         /\ (p # cpts[u] => spts[u] < t)
         /\ ~startplay => f = 0 /\ t = 0
         /\ TooFar(u, p) <=> f + audioCaNum <= t
         /\ uint16Sub(U16(Now), U16(f)) > 0 <=> f < clock
<1>1. /\ last[u] \in Nat /\ cpts[u] \in Nat /\ spts[u] \in Nat /\ clock \in Nat
      /\ nextptsplay \in Nat /\ Half \in Nat /\ audioCaNum \in Nat \ {0}
      /\ startplay \in BOOLEAN
  BY Typed, Circle DEF IInv
<1>2. /\ cpts[u] <= last[u] /\ spts[u] <= clock + cpts[u] /\ nextptsplay <= clock
      /\ ~startplay => clock = 0
  BY <1>1, Typed DEF IInv, Stamps, Clocks
<1>3. p \in Nat /\ last[u] <= p /\ p + clock <= Half
  BY NextStamp
<1>4. Now = clock
  BY <1>2 DEF Now
<1>5. CASE ~startplay
  <2>1. Mine(u) = 0 /\ Theirs(u, p) = p /\ Since(p, p) = 0 /\ Now = 0
    BY <1>3, <1>5 DEF Mine, Theirs, Since, Now
  <2>2. U16(0) = 0 /\ uint16Sub(0, 0) = 0 /\ uint16Add(0, 0) = 0
    BY <1>1, U16Half, SubHalf, AddHalf
  <2>3. t = 0 /\ f = 0
    BY <1>5, <2>1, <2>2 DEF realpts, PlayFrom
  <2>4. TooFar(u, p) <=> f + audioCaNum <= t
    BY <1>1, <2>2, <2>3 DEF TooFar
  <2>5. uint16Sub(U16(Now), U16(f)) > 0 <=> f < clock
    BY <1>2, <1>5, <2>1, <2>2, <2>3
  <2> QED BY <1>1, <1>2, <1>3, <1>4, <1>5, <2>3, <2>4, <2>5
<1>6. CASE startplay
  <2>1. Mine(u) = spts[u] /\ Theirs(u, p) = cpts[u] /\ f = nextptsplay
    BY <1>6 DEF Mine, Theirs, PlayFrom
  <2>2. Since(p, cpts[u]) = p - cpts[u] /\ p - cpts[u] \in 0..Half
    BY <1>1, <1>2, <1>3 DEF Since
  <2>3. spts[u] \in 0..Half /\ clock \in 0..Half /\ f \in 0..Half
    BY <1>1, <1>2, <1>3, <2>1
  <2>4. uint16Sub(U16(spts[u]), U16(clock)) >= 0 <=> clock <= spts[u]
    <3>1. U16(spts[u]) = spts[u] /\ U16(clock) = clock
      BY <2>3, U16Half
    <3>2. uint16Sub(spts[u], clock) = IF spts[u] < clock THEN -1 ELSE spts[u] - clock
      BY <2>3, SubHalf
    <3> QED BY <1>1, <3>1, <3>2
  <2>5. t = IF clock <= spts[u] THEN spts[u] + (p - cpts[u]) ELSE clock
    <3>1. uint16Add(U16(spts[u]), U16(p - cpts[u])) = spts[u] + (p - cpts[u])
      <4>1. U16(spts[u]) = spts[u] /\ U16(p - cpts[u]) = p - cpts[u]
        BY <2>2, <2>3, U16Half
      <4>2. spts[u] + (p - cpts[u]) <= Half /\ p - cpts[u] \in Nat
        BY <1>1, <1>2, <1>3, <2>2
      <4> QED BY <1>1, <4>1, <4>2, AddHalf
    <3> QED BY <1>4, <2>1, <2>2, <2>4, <3>1 DEF realpts
  <2>6. /\ t \in Nat /\ clock <= t /\ t <= clock + p /\ spts[u] <= t /\ t <= Half
        /\ (p # cpts[u] => spts[u] < t) /\ cpts[u] <= p
    BY <1>1, <1>2, <1>3, <2>5
  <2>7. TooFar(u, p) <=> f + audioCaNum <= t
    <3>1. U16(t) = t /\ U16(f) = f
      BY <1>1, <2>3, <2>6, U16Half
    <3>2. uint16Sub(t, f) = IF t < f THEN -1 ELSE t - f
      BY <1>1, <2>3, <2>6, SubHalf
    <3>3. f <= t /\ f \in Nat
      BY <1>1, <1>2, <2>1, <2>6
    <3> QED BY <1>1, <2>6, <3>1, <3>2, <3>3 DEF TooFar
  <2>8. uint16Sub(U16(Now), U16(f)) > 0 <=> f < clock
    <3>1. U16(clock) = clock /\ U16(f) = f
      BY <2>3, U16Half
    <3>2. uint16Sub(clock, f) = IF clock < f THEN -1 ELSE clock - f
      BY <2>3, SubHalf
    <3> QED BY <1>1, <1>2, <1>4, <2>1, <3>1, <3>2
  <2> QED BY <1>1, <1>2, <1>4, <1>6, <2>1, <2>6, <2>7, <2>8
<1> QED BY <1>1, <1>5, <1>6

-----------------------------------------------------------------------------
(* The invariant holds at first and is kept                                *)

LEMMA InitInv ==
  ASSUME FirstHalf, Init
  PROVE  IInv
<1>1. /\ MaxClock \in Nat /\ MaxFrames \in [Users -> Nat] /\ audioCaNum \in Nat \ {0}
      /\ FirstPts \in [Users -> Pts] /\ 0 \in Pts
  BY RoomAssumption, Circle DEF Pts
<1>2. Types
  <2>1. clock \in Time /\ diffpts \in Time /\ startplay \in BOOLEAN /\ pc \in {"idle", "send"}
    <3>1. clock = 0 /\ diffpts = 0 /\ startplay = FALSE /\ pc = "idle"
      BY DEF Init
    <3>2. 0 \in Time
      BY <1>1 DEF Time
    <3> QED BY <3>1, <3>2
  <2>2. nextptsplay \in Pts /\ nextpts \in Pts /\ out \in Pts \cup {-1}
    BY <1>1 DEF Init
  <2>3. size \in [Slots -> {0, 1}] /\ samptota \in [Slots -> SUBSET Sound]
    BY DEF Init
  <2>4. /\ entered \in [Users -> Nat] /\ userList \subseteq {u \in Users : entered[u] > 0}
        /\ cpts \in [Users -> Pts] /\ spts \in [Users -> Nat]
        /\ due \subseteq Sound /\ before \subseteq due
    BY <1>1 DEF Init
  <2>5. /\ frames \in [Users -> Nat] /\ last \in [Users -> Pts]
        /\ \A u \in Users : frames[u] \in 0..MaxFrames[u]
    <3>1. \A u \in Users : frames[u] = 0 /\ MaxFrames[u] \in Nat
      BY <1>1 DEF Init
    <3> QED BY <1>1, <3>1 DEF Init
  <2> QED BY <2>1, <2>2, <2>3, <2>4, <2>5 DEF Types, TypeOK
<1>3. Clocks
  BY DEF Init, Clocks, From
<1>4. Stamps
  <2>1. ASSUME NEW u \in Users
        PROVE  /\ last[u] <= FirstPts[u] + frames[u] * WidestGap
               /\ cpts[u] <= last[u] /\ spts[u] <= clock + cpts[u]
    <3>1. frames[u] = 0 /\ last[u] = FirstPts[u] /\ cpts[u] = 0 /\ spts[u] = 0 /\ clock = 0
      BY DEF Init
    <3>2. 0 * WidestGap = 0 /\ FirstPts[u] \in Nat
      BY <1>1 DEF FirstHalf, Pts
    <3> QED BY <3>1, <3>2
  <2> QED BY <2>1 DEF Stamps
<1>5. Waiting /\ SlotExact /\ Behind
  BY DEF Init, Waiting, SlotExact, Behind, Slots
<1> QED BY <1>2, <1>3, <1>4, <1>5 DEF IInv

LEMMA TickStep ==
  ASSUME FirstHalf, IInv, Tick
  PROVE  IInv'
<1>0. /\ startplay /\ clock < MaxClock /\ clock' = clock + 1
      /\ UNCHANGED <<startplay, nextptsplay, size, samptota, userList, entered, cpts, spts,
                     pc, diffpts, nextpts, frames, last, due, before, out>>
  BY DEF Tick, room, sess, local, sent
<1>1. clock \in Nat /\ MaxClock \in Nat /\ clock' \in Nat /\ clock' <= MaxClock
  BY <1>0, Typed DEF IInv
<1>2. Types'
  BY <1>0, <1>1 DEF IInv, Types, TypeOK, Time
<1>3. Clocks'
  <2>1. diffpts \in Nat
    BY Typed DEF IInv
  <2> QED BY <1>0, <1>1, <2>1 DEF IInv, Clocks, From
<1>4. Stamps'
  <2>1. \A u \in Users : cpts[u] \in Nat /\ spts[u] \in Nat
    BY Typed DEF IInv
  <2> QED BY <1>0, <1>1, <2>1 DEF IInv, Stamps
<1>5. Waiting'
  <2>1. \A d \in due : d[2] \in Nat /\ last[d[1]] \in Nat
    BY Typed DEF IInv
  <2> QED BY <1>0, <1>1, <2>1 DEF IInv, Waiting, From
<1>6. SlotExact' /\ Behind'
  BY <1>0 DEF IInv, SlotExact, Behind
<1> QED BY <1>2, <1>3, <1>4, <1>5, <1>6 DEF IInv

LEMMA EnterStep ==
  ASSUME FirstHalf, IInv, NEW u \in Users, EnterRoom(u)
  PROVE  IInv'
<1>0. /\ entered' = [entered EXCEPT ![u] = @ + 1]
      /\ userList' = IF userList = {} THEN {u} ELSE userList
      /\ cpts' = [cpts EXCEPT ![u] = 0] /\ spts' = [spts EXCEPT ![u] = 0]
      /\ before' = before \cup {d \in due : d[1] = u}
      /\ UNCHANGED <<clock, startplay, nextptsplay, size, samptota,
                     pc, diffpts, nextpts, frames, last, due, out>>
  BY DEF EnterRoom, room, local, sent
<1>1. Types'
  <2>1. 0 \in Pts
    BY Circle DEF Pts
  <2>2. /\ entered \in [Users -> Nat] /\ userList \subseteq {w \in Users : entered[w] > 0}
        /\ cpts \in [Users -> Pts] /\ spts \in [Users -> Nat] /\ before \subseteq due
    BY DEF IInv, Types, TypeOK
  <2>3. /\ entered' \in [Users -> Nat] /\ userList' \subseteq {w \in Users : entered'[w] > 0}
    BY <1>0, <2>2
  <2>4. cpts' \in [Users -> Pts] /\ spts' \in [Users -> Nat] /\ before' \subseteq due'
    BY <1>0, <2>1, <2>2
  <2> QED BY <1>0, <2>3, <2>4 DEF IInv, Types, TypeOK
<1>2. Clocks'
  BY <1>0 DEF IInv, Clocks, From
<1>3. Stamps'
  <2>1. \A w \in Users : cpts[w] \in Nat /\ spts[w] \in Nat /\ last[w] \in Nat /\ clock \in Nat
    BY Typed DEF IInv
  <2>2. cpts \in [Users -> Pts] /\ spts \in [Users -> Nat]
    BY DEF IInv, Types, TypeOK
  <2>3. ASSUME NEW w \in Users
        PROVE  /\ last'[w] <= FirstPts[w] + frames'[w] * WidestGap
               /\ cpts'[w] <= last'[w] /\ spts'[w] <= clock' + cpts'[w]
    <3>1. last'[w] <= FirstPts[w] + frames'[w] * WidestGap
      BY <1>0 DEF IInv, Stamps
    <3>2. CASE w = u
      BY <1>0, <2>1, <2>2, <3>1, <3>2
    <3>3. CASE w # u
      BY <1>0, <2>1, <2>2, <3>1, <3>3 DEF IInv, Stamps
    <3> QED BY <3>2, <3>3
  <2> QED BY <2>3 DEF Stamps
<1>4. Waiting' /\ SlotExact'
  BY <1>0 DEF IInv, Waiting, SlotExact, From
<1>5. Behind'
  <2>1. \A d \in due : d[1] \in Users
    BY Typed DEF IInv
  <2>2. spts \in [Users -> Nat]
    BY DEF IInv, Types, TypeOK
  <2> QED BY <1>0, <2>1, <2>2 DEF IInv, Behind
<1> QED BY <1>1, <1>2, <1>3, <1>4, <1>5 DEF IInv

\* Whatever the handler does with a frame, the stamps of the users stay right.
LEMMA SendsStamps ==
  ASSUME FirstHalf, IInv, NEW u \in Users, NEW p \in Pts, Sends(u, p)
  PROVE  /\ frames' \in [Users -> Nat] /\ last' \in [Users -> Pts]
         /\ \A w \in Users : /\ frames'[w] \in 0..MaxFrames[w]
                             /\ last'[w] <= FirstPts[w] + frames'[w] * WidestGap
                             /\ last[w] <= last'[w]
         /\ last'[u] = p
<1>1. /\ frames \in [Users -> Nat] /\ last \in [Users -> Pts]
      /\ \A w \in Users : frames[w] \in 0..MaxFrames[w] /\ last[w] \in Nat
  BY Typed DEF IInv, Types, TypeOK
<1>2. frames' = [frames EXCEPT ![u] = @ + 1] /\ last' = [last EXCEPT ![u] = p]
      /\ frames[u] < MaxFrames[u]
  BY DEF Sends
<1>3. last[u] <= p /\ p <= FirstPts[u] + (frames[u] + 1) * WidestGap
  BY NextStamp
<1>4. \A w \in Users : last[w] <= FirstPts[w] + frames[w] * WidestGap
  BY DEF IInv, Stamps
<1>5. frames' \in [Users -> Nat] /\ last' \in [Users -> Pts] /\ last'[u] = p
  BY <1>1, <1>2
<1>6. ASSUME NEW w \in Users
      PROVE  /\ frames'[w] \in 0..MaxFrames[w]
             /\ last'[w] <= FirstPts[w] + frames'[w] * WidestGap
             /\ last[w] <= last'[w]
  <2>1. CASE w = u
    <3>1. frames'[w] = frames[u] + 1 /\ last'[w] = p
      BY <1>1, <1>2, <2>1
    <3>2. MaxFrames[w] \in Nat
      BY RoomAssumption
    <3> QED BY <1>1, <1>2, <1>3, <2>1, <3>1, <3>2
  <2>2. CASE w # u
    <3>1. frames'[w] = frames[w] /\ last'[w] = last[w]
      BY <1>1, <1>2, <2>2
    <3> QED BY <1>1, <1>4, <3>1
  <2> QED BY <2>1, <2>2
<1> QED BY <1>5, <1>6

LEMMA IgnoreStep ==
  ASSUME FirstHalf, IInv, NEW u \in Users, NEW p \in Pts, Ignore(u, p)
  PROVE  IInv'
<1>0. /\ Sends(u, p)
      /\ UNCHANGED <<clock, startplay, nextptsplay, size, samptota, userList, entered,
                     cpts, spts, pc, diffpts, nextpts, due, before, out>>
  BY DEF Ignore, room, sess, local
<1>1. /\ frames' \in [Users -> Nat] /\ last' \in [Users -> Pts]
      /\ \A w \in Users : /\ frames'[w] \in 0..MaxFrames[w]
                          /\ last'[w] <= FirstPts[w] + frames'[w] * WidestGap
                          /\ last[w] <= last'[w]
  BY <1>0, SendsStamps
<1>2. /\ \A w \in Users : cpts[w] \in Nat /\ last[w] \in Nat /\ last'[w] \in Nat
      /\ clock \in Nat
  BY <1>1, Typed, Circle DEF IInv, Pts
<1>3. Types'
  BY <1>0, <1>1 DEF IInv, Types, TypeOK
<1>4. Clocks' /\ SlotExact' /\ Behind'
  BY <1>0 DEF IInv, Clocks, From, SlotExact, Behind
<1>5. Stamps'
  BY <1>0, <1>1, <1>2 DEF IInv, Stamps
<1>6. Waiting'
  <2>1. \A d \in due : d[1] \in Users /\ d[2] \in Nat
    BY Typed DEF IInv
  <2> QED BY <1>0, <1>1, <1>2, <2>1 DEF IInv, Waiting, From
<1> QED BY <1>3, <1>4, <1>5, <1>6 DEF IInv

-----------------------------------------------------------------------------
(* RoomMergeData                                                           *)

\* What the handler does with a frame that is not old, the buffer apart.
MergedWith(u, p, t, f) ==
  /\ spts' = [spts EXCEPT ![u] = t] /\ cpts' = [cpts EXCEPT ![u] = p]
  /\ before' = before \ {<<u, t>>}
  /\ startplay' = TRUE /\ nextptsplay' = f /\ diffpts' = clock
  /\ pc' = (IF f < clock THEN "send" ELSE "idle")
  /\ nextpts' = (IF f < clock THEN f ELSE nextpts)
  /\ UNCHANGED <<clock, userList, entered, out>>

LEMMA MergeIs ==
  ASSUME FirstHalf, IInv, NEW u \in Users, NEW p \in Pts, RoomMergeData(u, p),
         NEW t, t = realpts(u, p), NEW f, f = PlayFrom(u, p)
  PROVE  /\ MergedWith(u, p, t, f)
         /\ \/ UNCHANGED <<size, samptota, due>>
            \/ t < f + audioCaNum /\ MergeAudioData(t, <<u, t>>) /\ due' = due \cup {<<u, t>>}
<1>1. Sends(u, p) /\ ~Old(u, p) /\ pc = "idle"
  BY DEF RoomMergeData, Sends
<1>2. /\ t \in Nat /\ f \in Nat /\ Now = clock /\ audioCaNum \in Nat
      /\ TooFar(u, p) <=> f + audioCaNum <= t
      /\ uint16Sub(U16(Now), U16(f)) > 0 <=> f < clock
  BY <1>1, StoredAt, Typed DEF IInv
<1>3. MergedWith(u, p, t, f)
  <2>1. CASE f < clock
    BY <1>2, <2>1 DEF RoomMergeData, MergedWith, Remember
  <2>2. CASE ~(f < clock)
    BY <1>1, <1>2, <2>2 DEF RoomMergeData, MergedWith, Remember
  <2> QED BY <2>1, <2>2
<1>4. Drop(u, p) \/ WrongSize(u, p) \/ Keep(u, p)
  BY DEF RoomMergeData
<1>5. CASE Drop(u, p) \/ WrongSize(u, p)
  BY <1>3, <1>5 DEF Drop, WrongSize
<1>6. CASE Keep(u, p)
  BY <1>2, <1>3, <1>6 DEF Keep
<1> QED BY <1>4, <1>5, <1>6

\* Before the first frame nothing is stored; from then on the loop is where the
\* next mix is.
LEMMA IdleFrom ==
  ASSUME IInv, pc = "idle"
  PROVE  /\ From = nextptsplay /\ out < nextptsplay
         /\ ~startplay => due = {}
  BY DEF IInv, Clocks, From

LEMMA MergeTypes ==
  ASSUME FirstHalf, IInv, NEW u \in Users, NEW p \in Pts, RoomMergeData(u, p)
  PROVE  Types'
<1> DEFINE t == realpts(u, p)
           f == PlayFrom(u, p)
<1>1. Sends(u, p) /\ ~Old(u, p)
  BY DEF RoomMergeData
<1>2. /\ t \in Nat /\ f \in Nat /\ f <= clock /\ clock <= t /\ t <= Half
  BY <1>1, StoredAt
<1>3. /\ MergedWith(u, p, t, f)
      /\ \/ UNCHANGED <<size, samptota, due>>
         \/ t < f + audioCaNum /\ MergeAudioData(t, <<u, t>>) /\ due' = due \cup {<<u, t>>}
  BY MergeIs
<1> HIDE DEF t, f
<1>4. /\ frames' \in [Users -> Nat] /\ last' \in [Users -> Pts]
      /\ \A w \in Users : frames'[w] \in 0..MaxFrames[w]
  BY <1>1, SendsStamps
<1>5. clock' \in Time /\ diffpts' \in Time /\ startplay' \in BOOLEAN /\ pc' \in {"idle", "send"}
  BY <1>3 DEF MergedWith, IInv, Types, TypeOK
<1>6. nextptsplay' \in Pts /\ nextpts' \in Pts /\ out' \in Pts \cup {-1}
  <2>1. clock \in Nat /\ Half \in Nat /\ HG_SEQ_MAX_NUM = 2 * Half + 1
    BY Circle, Typed DEF IInv
  <2>2. f \in Pts
    BY <1>2, <2>1 DEF Pts
  <2> QED BY <1>3, <2>2 DEF MergedWith, IInv, Types, TypeOK
<1>7. /\ entered' \in [Users -> Nat] /\ userList' \subseteq {w \in Users : entered'[w] > 0}
      /\ cpts' \in [Users -> Pts] /\ spts' \in [Users -> Nat]
  BY <1>2, <1>3 DEF MergedWith, IInv, Types, TypeOK
<1>8. size' \in [Slots -> {0, 1}] /\ samptota' \in [Slots -> SUBSET Sound]
      /\ due' \subseteq Sound
  <2>1. size \in [Slots -> {0, 1}] /\ samptota \in [Slots -> SUBSET Sound] /\ due \subseteq Sound
    BY DEF IInv, Types, TypeOK
  <2>2. <<u, t>> \in Sound
    BY <1>2 DEF Sound
  <2>3. CASE UNCHANGED <<size, samptota, due>>
    BY <2>1, <2>3
  <2>4. CASE MergeAudioData(t, <<u, t>>) /\ due' = due \cup {<<u, t>>}
    BY <2>1, <2>2, <2>4 DEF MergeAudioData
  <2> QED BY <1>3, <2>3, <2>4
<1>9. before' \subseteq due'
  BY <1>3 DEF MergedWith, IInv, Types, TypeOK
<1> QED BY <1>4, <1>5, <1>6, <1>7, <1>8, <1>9 DEF Types, TypeOK

LEMMA MergeClocksStamps ==
  ASSUME FirstHalf, IInv, NEW u \in Users, NEW p \in Pts, RoomMergeData(u, p)
  PROVE  Clocks' /\ Stamps' /\ From' = PlayFrom(u, p)
<1> DEFINE t == realpts(u, p)
           f == PlayFrom(u, p)
<1>1. Sends(u, p) /\ ~Old(u, p) /\ pc = "idle"
  BY DEF RoomMergeData, Sends
<1>2. /\ t \in Nat /\ f \in Nat /\ f <= clock /\ t <= clock + p
      /\ startplay => f = nextptsplay
      /\ ~startplay => f = 0
  BY <1>1, StoredAt
<1>3. MergedWith(u, p, t, f)
  BY MergeIs
<1> HIDE DEF t, f
<1>4. clock \in Nat /\ p \in Nat /\ nextptsplay \in Nat /\ (out \in Nat \/ out = -1)
      /\ \A w \in Users : cpts[w] \in Nat /\ spts[w] \in Nat /\ last[w] \in Nat
  BY <1>1, Typed, NextStamp DEF IInv
<1>5. From' = f
  BY <1>3 DEF MergedWith, From
<1>6. Clocks'
  <2>1. out < f
    <3>1. CASE startplay
      BY <1>1, <1>2, <3>1, IdleFrom
    <3>2. CASE ~startplay
      <4>1. nextptsplay = 0 /\ out < nextptsplay
        <5>1. diffpts <= clock /\ nextptsplay <= diffpts /\ clock = 0 /\ diffpts \in Nat
          BY <3>2, Typed DEF IInv, Clocks
        <5>2. out < nextptsplay
          BY <1>1, IdleFrom
        <5> QED BY <1>4, <5>1, <5>2
      <4> QED BY <1>2, <3>2, <4>1
    <3> QED BY <1>4, <3>1, <3>2, Typed DEF IInv
  <2> QED BY <1>2, <1>3, <1>4, <1>5, <2>1 DEF MergedWith, Clocks
<1>7. Stamps'
  <2>1. \A w \in Users : /\ last'[w] <= FirstPts[w] + frames'[w] * WidestGap
                         /\ last[w] <= last'[w] /\ last'[w] \in Nat
    BY <1>1, SendsStamps, Circle DEF Pts
  <2>2. last'[u] = p
    BY <1>1, SendsStamps
  <2>3. cpts \in [Users -> Pts] /\ spts \in [Users -> Nat]
    BY DEF IInv, Types, TypeOK
  <2>4. ASSUME NEW w \in Users
        PROVE  cpts'[w] <= last'[w] /\ spts'[w] <= clock' + cpts'[w]
    <3>1. CASE w = u
      <4>1. cpts'[w] = p /\ spts'[w] = t /\ clock' = clock
        BY <1>3, <2>3, <3>1 DEF MergedWith
      <4> QED BY <1>2, <1>4, <2>2, <3>1, <4>1
    <3>2. CASE w # u
      <4>1. cpts'[w] = cpts[w] /\ spts'[w] = spts[w] /\ clock' = clock
        BY <1>3, <2>3, <3>2 DEF MergedWith
      <4>2. cpts[w] <= last[w] /\ spts[w] <= clock + cpts[w]
        BY DEF IInv, Stamps
      <4> QED BY <1>4, <2>1, <4>1, <4>2
    <3> QED BY <3>1, <3>2
  <2> QED BY <2>1, <2>4 DEF Stamps
<1> QED BY <1>5, <1>6, <1>7 DEF f

\* Between the frames all that waits lies within one round from the next slot.
LEMMA WaitingIdle ==
  ASSUME FirstHalf, IInv, NEW u \in Users, NEW p \in Pts, RoomMergeData(u, p),
         NEW f, f = PlayFrom(u, p)
  PROVE  \A d \in due : f <= d[2] /\ d[2] < f + audioCaNum
<1>1. Sends(u, p) /\ ~Old(u, p) /\ pc = "idle"
  BY DEF RoomMergeData, Sends
<1>2. CASE startplay
  <2>1. f = nextptsplay /\ From = nextptsplay
    BY <1>1, <1>2, IdleFrom DEF PlayFrom
  <2> QED BY <2>1 DEF IInv, Waiting
<1>3. CASE ~startplay
  BY <1>1, <1>3, IdleFrom
<1> QED BY <1>2, <1>3

LEMMA MergeBuffer ==
  ASSUME FirstHalf, IInv, NEW u \in Users, NEW p \in Pts, RoomMergeData(u, p)
  PROVE  Waiting' /\ SlotExact'
<1> DEFINE t == realpts(u, p)
           f == PlayFrom(u, p)
           s == <<u, t>>
<1>1. Sends(u, p) /\ ~Old(u, p)
  BY DEF RoomMergeData
<1>2. /\ t \in Nat /\ f \in Nat /\ f <= clock /\ clock <= t /\ t <= clock + p
  BY <1>1, StoredAt
<1>3. /\ MergedWith(u, p, t, f)
      /\ \/ UNCHANGED <<size, samptota, due>>
         \/ t < f + audioCaNum /\ MergeAudioData(t, s) /\ due' = due \cup {s}
  BY MergeIs
<1>4. \A d \in due : f <= d[2] /\ d[2] < f + audioCaNum
  BY WaitingIdle
<1>5. From' = f /\ nextptsplay' = f /\ clock' = clock
  BY <1>3, MergeClocksStamps DEF MergedWith
<1>6. /\ last'[u] = p
      /\ \A w \in Users : last[w] <= last'[w] /\ last[w] \in Nat /\ last'[w] \in Nat
  BY <1>1, SendsStamps, Typed, Circle DEF IInv, Pts
<1>7. /\ \A d \in due : d[1] \in Users /\ d[2] \in Nat
      /\ clock \in Nat /\ p \in Nat /\ audioCaNum \in Nat \ {0}
      /\ size \in [Slots -> {0, 1}] /\ samptota \in [Slots -> SUBSET Sound]
  BY <1>1, NextStamp, Typed DEF IInv
<1>8. /\ Waiting /\ SlotExact
  BY DEF IInv
<1>9. \A d \in due : d[2] <= clock + last'[d[1]]
  BY <1>6, <1>7, <1>8 DEF Waiting
<1> HIDE DEF t, f
<1>10. CASE UNCHANGED <<size, samptota, due>>
  BY <1>4, <1>5, <1>8, <1>9, <1>10 DEF Waiting, SlotExact
<1>11. CASE t < f + audioCaNum /\ MergeAudioData(t, s) /\ due' = due \cup {s}
  <2> DEFINE i == t % audioCaNum
  <2>1. i \in Slots
    BY <1>2, SlotOf
  <2>2. \A d \in due : d[2] % audioCaNum \in Slots
    BY <1>7, SlotOf
  <2>3. ASSUME NEW d \in due, d[2] % audioCaNum = i PROVE d[2] = t
    <3>1. /\ d[2] \in Nat /\ f <= d[2] /\ d[2] < f + audioCaNum
          /\ t \in Nat /\ f <= t /\ t < f + audioCaNum /\ f \in Nat
      BY <1>2, <1>4, <1>7, <1>11
    <3> QED BY <2>3, <3>1, SlotsDiffer
  <2>4. s[1] = u /\ s[2] = t
    OBVIOUS
  <2>5. /\ samptota' = [samptota EXCEPT ![i] = IF size[i] = 0 THEN {s} ELSE @ \cup {s}]
        /\ size' = [size EXCEPT ![i] = 1]
    BY <1>11 DEF MergeAudioData
  <2> HIDE DEF s
  <2>6. samptota'[i] = {e \in due' : e[2] = t}
    <3>1. CASE size[i] = 0
      <4>1. \A d \in due : d[2] # t
        BY <1>8, <2>4, <3>1 DEF Waiting
      <4>2. samptota'[i] = {s}
        BY <1>7, <2>1, <2>5, <3>1
      <4> QED BY <1>11, <2>4, <4>1, <4>2
    <3>2. CASE size[i] # 0
      <4>1. size[i] = 1
        BY <1>7, <2>1, <3>2
      <4>2. PICK d \in due : d[2] % audioCaNum = i /\ samptota[i] = {e \in due : e[2] = d[2]}
        BY <1>8, <2>1, <4>1 DEF SlotExact
      <4>3. d[2] = t
        BY <2>3, <4>2
      <4>4. samptota'[i] = samptota[i] \cup {s}
        BY <1>7, <2>1, <2>5, <3>2
      <4> QED BY <1>11, <2>4, <4>2, <4>3, <4>4
    <3> QED BY <3>1, <3>2
  <2>7. \A j \in Slots : j # i => size'[j] = size[j] /\ samptota'[j] = samptota[j]
    BY <1>7, <2>5
  <2>8. size'[i] = 1
    BY <1>7, <2>1, <2>5
  <2> HIDE DEF i
  <2>9. Waiting'
    <3>1. ASSUME NEW d \in due'
          PROVE  /\ f <= d[2] /\ d[2] < f + audioCaNum
                 /\ d[2] <= clock + last'[d[1]]
                 /\ size'[d[2] % audioCaNum] = 1 /\ d \in samptota'[d[2] % audioCaNum]
      <4>1. CASE d = s
        <5>1. d[2] % audioCaNum = i
          BY <2>4, <4>1 DEF i
        <5>2. d[2] = t /\ d[1] = u
          BY <2>4, <4>1
        <5>3. size'[d[2] % audioCaNum] = 1 /\ d \in samptota'[d[2] % audioCaNum]
          BY <2>6, <2>8, <5>1, <5>2
        <5>4. f <= t /\ t < f + audioCaNum /\ t <= clock + p
          BY <1>2, <1>7, <1>11
        <5> QED BY <1>6, <5>2, <5>3, <5>4
      <4>2. CASE d # s
        <5>1. d \in due
          BY <1>11, <4>2
        <5>2. f <= d[2] /\ d[2] < f + audioCaNum /\ d[2] <= clock + last'[d[1]]
          BY <1>4, <1>9, <5>1
        <5>3. CASE d[2] % audioCaNum = i
          BY <2>3, <2>6, <2>8, <5>1, <5>2, <5>3
        <5>4. CASE d[2] % audioCaNum # i
          <6>1. size[d[2] % audioCaNum] = 1 /\ d \in samptota[d[2] % audioCaNum]
            BY <1>8, <5>1 DEF Waiting
          <6> QED BY <2>2, <2>7, <5>1, <5>2, <5>4, <6>1
        <5> QED BY <5>3, <5>4
      <4> QED BY <4>1, <4>2
    <3> QED BY <1>5, <3>1 DEF Waiting
  <2>10. SlotExact'
    <3>1. ASSUME NEW j \in Slots, size'[j] = 1
          PROVE  \E d \in due' : d[2] % audioCaNum = j /\ samptota'[j] = {e \in due' : e[2] = d[2]}
      <4>1. CASE j = i
        <5>1. s \in due' /\ s[2] % audioCaNum = i
          BY <1>11, <2>4 DEF i
        <5> QED BY <2>4, <2>6, <4>1, <5>1
      <4>2. CASE j # i
        <5>1. PICK d \in due : d[2] % audioCaNum = j /\ samptota[j] = {e \in due : e[2] = d[2]}
          BY <1>8, <2>7, <3>1, <4>2 DEF SlotExact
        <5>2. d[2] # t
          BY <4>2, <5>1 DEF i
        <5>3. {e \in due' : e[2] = d[2]} = {e \in due : e[2] = d[2]}
          BY <1>11, <2>4, <5>2
        <5> QED BY <1>11, <2>7, <4>2, <5>1, <5>3
      <4> QED BY <4>1, <4>2
    <3> QED BY <3>1 DEF SlotExact
  <2> QED BY <2>9, <2>10
<1> QED BY <1>3, <1>10, <1>11

\* The frame is stored at or behind the user's last one.
LEMMA MergeBehind ==
  ASSUME FirstHalf, IInv, NEW u \in Users, NEW p \in Pts, RoomMergeData(u, p)
  PROVE  /\ Behind'
         /\ p # cpts[u] => \A d \in due \ before : d[1] = u => d[2] < spts'[u]
<1> DEFINE t == realpts(u, p)
           f == PlayFrom(u, p)
<1>1. Sends(u, p) /\ ~Old(u, p) /\ pc = "idle"
  BY DEF RoomMergeData, Sends
<1>2. /\ t \in Nat
      /\ startplay => spts[u] <= t /\ (p # cpts[u] => spts[u] < t)
  BY <1>1, StoredAt
<1>3. /\ MergedWith(u, p, t, f)
      /\ due' = due \/ due' = due \cup {<<u, t>>}
  BY MergeIs
<1>4. spts \in [Users -> Nat] /\ \A d \in due : d[1] \in Users /\ d[2] \in Nat
  BY Typed DEF IInv, Types, TypeOK
<1> HIDE DEF t, f
<1>5. spts' = [spts EXCEPT ![u] = t] /\ before' = before \ {<<u, t>>}
  BY <1>3 DEF MergedWith
<1>6. ~startplay => due = {}
  BY <1>1, IdleFrom
<1>7. Behind
  BY DEF IInv
<1>8. ASSUME NEW d \in due' \ before'
      PROVE  d[2] <= spts'[d[1]]
  <2>1. CASE d = <<u, t>>
    BY <1>2, <1>4, <1>5, <2>1
  <2>2. CASE d # <<u, t>>
    <3>1. d \in due \ before
      BY <1>3, <1>5, <2>2
    <3>2. d[2] <= spts[d[1]] /\ startplay
      BY <1>6, <1>7, <3>1 DEF Behind
    <3>3. d[1] \in Users /\ d[2] \in Nat /\ spts[d[1]] \in Nat
      BY <1>4, <3>1
    <3>4. CASE d[1] = u
      BY <1>2, <1>4, <1>5, <3>2, <3>3, <3>4
    <3>5. CASE d[1] # u
      BY <1>4, <1>5, <3>2, <3>3, <3>5
    <3> QED BY <3>4, <3>5
  <2> QED BY <2>1, <2>2
<1>9. ASSUME p # cpts[u], NEW d \in due \ before, d[1] = u
      PROVE  d[2] < spts'[u]
  <2>1. d[2] <= spts[u] /\ startplay
    BY <1>6, <1>7, <1>9 DEF Behind
  <2>2. spts'[u] = t /\ spts[u] \in Nat /\ d[2] \in Nat
    BY <1>4, <1>5, <1>9
  <2> QED BY <1>2, <1>9, <2>1, <2>2
<1> QED BY <1>8, <1>9 DEF Behind

LEMMA MergeStep ==
  ASSUME FirstHalf, IInv, NEW u \in Users, NEW p \in Pts, RoomMergeData(u, p)
  PROVE  IInv'
BY MergeTypes, MergeClocksStamps, MergeBuffer, MergeBehind DEF IInv

-----------------------------------------------------------------------------
(* The loop                                                                *)

\* One turn: the slot of nextpts is emptied, and the next is one later.
LEMMA TurnIs ==
  ASSUME FirstHalf, IInv, SendDue
  PROVE  /\ pc = "send" /\ nextptsplay <= nextpts /\ nextpts < diffpts
         /\ nextpts' = nextpts + 1 /\ From' = nextpts + 1 /\ From = nextpts
         /\ nextptsplay <= nextptsplay' /\ nextptsplay' <= nextpts'
         /\ nextptsplay' \in Nat /\ nextpts' \in Nat /\ nextpts + 1 <= Half
         /\ pc' = "idle" => nextptsplay' = diffpts /\ nextpts' = diffpts
         /\ pc' = "send" => nextptsplay' = nextptsplay /\ nextpts' < diffpts
         /\ pc' \in {"idle", "send"}
         /\ size' = [size EXCEPT ![Index] = 0]
         /\ due' = {d \in due : d[2] # nextpts} /\ before' = {d \in before : d[2] # nextpts}
         /\ UNCHANGED <<clock, startplay, samptota, userList, entered, cpts, spts, diffpts,
                        frames, last>>
<1>1. /\ pc = "send" /\ Advance /\ ClearSlot
      /\ due' = {d \in due : d[2] # nextpts} /\ before' = {d \in before : d[2] # nextpts}
      /\ UNCHANGED <<clock, startplay, samptota, userList, entered, cpts, spts, diffpts,
                     frames, last>>
  BY DEF SendDue, sent
<1>2. /\ nextptsplay <= nextpts /\ nextpts < diffpts /\ diffpts <= clock
  BY <1>1 DEF IInv, Clocks
<1>3. /\ nextptsplay \in Nat /\ nextpts \in Nat /\ diffpts \in Nat /\ clock \in Nat
      /\ clock <= MaxClock /\ MaxClock <= Half /\ Half \in Nat /\ MaxClock \in Nat
  BY Typed, Circle DEF IInv, FirstHalf
<1>4. uint16Add(U16(nextpts), 1) = nextpts + 1 /\ nextpts + 1 <= Half
  <2>1. nextpts \in 0..Half /\ nextpts + 1 <= Half
    BY <1>2, <1>3
  <2> QED BY <1>3, <2>1, U16Half, AddHalf
<1>5. nextpts' = nextpts + 1
  BY <1>1, <1>4 DEF Advance
<1>6. IF nextpts' = diffpts THEN nextptsplay' = diffpts /\ pc' = "idle"
                            ELSE nextptsplay' = nextptsplay /\ pc' = "send"
  BY <1>1 DEF Advance
<1>7. From = nextpts
  BY <1>1 DEF From
<1>8. CASE nextpts' = diffpts
  <2>1. nextptsplay' = nextpts + 1 /\ From' = nextpts + 1 /\ pc' = "idle"
    BY <1>5, <1>6, <1>8 DEF From
  <2> QED BY <1>1, <1>2, <1>3, <1>4, <1>5, <1>7, <1>8, <2>1 DEF ClearSlot
<1>9. CASE nextpts' # diffpts
  <2>1. nextptsplay' = nextptsplay /\ From' = nextpts + 1 /\ pc' = "send"
    BY <1>5, <1>6, <1>9 DEF From
  <2> QED BY <1>1, <1>2, <1>3, <1>4, <1>5, <1>7, <1>9, <2>1 DEF ClearSlot
<1> QED BY <1>8, <1>9

\* What the slot holds is what waits for its time.
LEMMA TurnExact ==
  ASSUME FirstHalf, IInv, SendDue
  PROVE  /\ Index \in Slots
         /\ (IF size[Index] # 0 THEN samptota[Index] ELSE {}) = {d \in due : d[2] = nextpts}
         /\ \A d \in due : d[2] # nextpts => d[2] % audioCaNum # Index
<1>1. nextptsplay <= nextpts /\ From = nextpts
  BY TurnIs
<1>2. /\ nextptsplay \in Nat /\ nextpts \in Nat /\ audioCaNum \in Nat \ {0}
      /\ size \in [Slots -> {0, 1}] /\ \A d \in due : d[2] \in Nat
  BY Typed DEF IInv
<1>3. Index \in Slots
  BY <1>2, SlotOf DEF Index
<1>4. ASSUME NEW d \in due, d[2] # nextpts, d[2] % audioCaNum = Index PROVE FALSE
  <2>1. nextpts <= d[2] /\ d[2] < nextptsplay + audioCaNum /\ d[2] \in Nat
    BY <1>1, <1>2 DEF IInv, Waiting
  <2>2. d[2] < nextpts + audioCaNum /\ nextpts < nextpts + audioCaNum
    BY <1>1, <1>2, <2>1
  <2>3. d[2] % audioCaNum = nextpts % audioCaNum
    BY <1>4 DEF Index
  <2>4. d[2] = nextpts
    <3>1. d[2] \in Nat /\ nextpts \in Nat /\ nextpts <= d[2] /\ nextpts <= nextpts
      BY <1>2, <2>1
    <3> QED BY <2>2, <2>3, <3>1, SlotsDiffer
  <2> QED BY <1>4, <2>4
<1>5. CASE size[Index] # 0
  <2>1. size[Index] = 1
    BY <1>2, <1>3, <1>5
  <2>2. PICK d \in due : d[2] % audioCaNum = Index /\ samptota[Index] = {e \in due : e[2] = d[2]}
    BY <1>3, <2>1 DEF IInv, SlotExact
  <2>3. d[2] = nextpts
    BY <1>4, <2>2
  <2> QED BY <1>3, <1>4, <1>5, <2>2, <2>3
<1>6. CASE size[Index] = 0
  <2>1. \A d \in due : d[2] # nextpts
    <3>1. ASSUME NEW d \in due, d[2] = nextpts PROVE FALSE
      <4>1. size[Index] = 1
        BY <3>1 DEF IInv, Waiting, Index
      <4> QED BY <1>6, <4>1
    <3> QED BY <3>1
  <2> QED BY <1>3, <1>4, <1>6, <2>1
<1> QED BY <1>5, <1>6

LEMMA SendStep ==
  ASSUME FirstHalf, IInv, SendDue
  PROVE  IInv'
<1>1. /\ pc = "send" /\ nextptsplay <= nextpts /\ nextpts < diffpts
      /\ nextpts' = nextpts + 1 /\ From' = nextpts + 1 /\ From = nextpts
      /\ nextptsplay <= nextptsplay' /\ nextptsplay' <= nextpts'
      /\ nextptsplay' \in Nat /\ nextpts' \in Nat /\ nextpts + 1 <= Half
      /\ pc' = "idle" => nextptsplay' = diffpts /\ nextpts' = diffpts
      /\ pc' = "send" => nextptsplay' = nextptsplay /\ nextpts' < diffpts
      /\ pc' \in {"idle", "send"}
      /\ size' = [size EXCEPT ![Index] = 0]
      /\ due' = {d \in due : d[2] # nextpts} /\ before' = {d \in before : d[2] # nextpts}
      /\ UNCHANGED <<clock, startplay, samptota, userList, entered, cpts, spts, diffpts,
                     frames, last>>
  BY TurnIs
<1>2. Index \in Slots /\ \A d \in due : d[2] # nextpts => d[2] % audioCaNum # Index
  BY TurnExact
<1>3. /\ nextptsplay \in Nat /\ nextpts \in Nat /\ diffpts \in Nat /\ audioCaNum \in Nat \ {0}
      /\ size \in [Slots -> {0, 1}] /\ \A d \in due : d[2] \in Nat /\ d[1] \in Users
      /\ Half \in Nat /\ HG_SEQ_MAX_NUM = 2 * Half + 1 /\ (out \in Nat \/ out = -1)
  BY Typed, Circle DEF IInv
<1>4. out' = out \/ out' = nextpts
  BY DEF SendDue, OutConsumeQueue, Silence
<1>5. Types'
  <2>1. size' \in [Slots -> {0, 1}]
    BY <1>1, <1>2, <1>3
  <2>2. nextptsplay' \in Pts /\ nextpts' \in Pts /\ nextpts \in Pts
    BY <1>1, <1>3 DEF Pts
  <2>3. out' \in Pts \cup {-1}
    BY <1>4, <2>2 DEF IInv, Types, TypeOK
  <2>4. due' \subseteq Sound /\ before' \subseteq due'
    BY <1>1 DEF IInv, Types, TypeOK
  <2> QED BY <1>1, <2>1, <2>2, <2>3, <2>4 DEF IInv, Types, TypeOK
<1>6. Clocks'
  <2>1. out < nextpts /\ diffpts <= clock /\ startplay
    <3>1. ~startplay => clock = 0 /\ diffpts <= clock
      BY DEF IInv, Clocks
    <3>2. startplay
      BY <1>1, <1>3, <3>1
    <3> QED BY <1>1, <3>2 DEF IInv, Clocks
  <2>2. out' < From'
    BY <1>1, <1>3, <1>4, <2>1
  <2>3. nextptsplay' <= diffpts
    BY <1>1, <1>3
  <2> QED BY <1>1, <2>1, <2>2, <2>3 DEF Clocks
<1>7. Stamps'
  BY <1>1 DEF IInv, Stamps
<1>8. Waiting'
  <2>1. ASSUME NEW d \in due'
        PROVE  /\ From' <= d[2] /\ d[2] < nextptsplay' + audioCaNum
               /\ d[2] <= clock' + last'[d[1]]
               /\ size'[d[2] % audioCaNum] = 1 /\ d \in samptota'[d[2] % audioCaNum]
    <3>1. d \in due /\ d[2] # nextpts
      BY <1>1
    <3>2. /\ nextpts <= d[2] /\ d[2] < nextptsplay + audioCaNum /\ d[2] <= clock + last[d[1]]
          /\ size[d[2] % audioCaNum] = 1 /\ d \in samptota[d[2] % audioCaNum]
      BY <1>1, <3>1 DEF IInv, Waiting
    <3>3. From' <= d[2] /\ d[2] < nextptsplay' + audioCaNum
      <4>1. d[2] \in Nat
        BY <1>3, <3>1
      <4> QED BY <1>1, <1>3, <3>1, <3>2, <4>1
    <3>4. size'[d[2] % audioCaNum] = size[d[2] % audioCaNum]
      BY <1>1, <1>2, <1>3, <3>1
    <3> QED BY <1>1, <3>2, <3>3, <3>4
  <2> QED BY <2>1 DEF Waiting
<1>9. SlotExact'
  <2>1. ASSUME NEW i \in Slots, size'[i] = 1
        PROVE  \E d \in due' : d[2] % audioCaNum = i /\ samptota'[i] = {e \in due' : e[2] = d[2]}
    <3>1. i # Index /\ size[i] = 1
      BY <1>1, <1>2, <1>3, <2>1
    <3>2. PICK d \in due : d[2] % audioCaNum = i /\ samptota[i] = {e \in due : e[2] = d[2]}
      BY <3>1 DEF IInv, SlotExact
    <3>3. d[2] # nextpts
      BY <3>1, <3>2 DEF Index
    <3> QED BY <1>1, <3>2, <3>3
  <2> QED BY <2>1 DEF SlotExact
<1>10. Behind'
  BY <1>1 DEF IInv, Behind
<1> QED BY <1>5, <1>6, <1>7, <1>8, <1>9, <1>10 DEF IInv

-----------------------------------------------------------------------------
(* Theorems                                                                *)

LEMMA KeepsInv ==
  ASSUME FirstHalf, IInv, [Next]_vars
  PROVE  IInv'
<1>1. CASE Next
  BY <1>1, TickStep, EnterStep, IgnoreStep, MergeStep, SendStep DEF Next
<1>2. CASE UNCHANGED vars
  BY <1>2 DEF vars, room, sess, local, sent, IInv, Types, TypeOK, Clocks, Stamps, Waiting,
              SlotExact, Behind, From
<1> QED BY <1>1, <1>2

\* The invariant of the room's buffer.
THEOREM RoomInvariant ==
  ASSUME FirstHalf
  PROVE  Spec => []IInv
<1>1. Init => IInv
  BY InitInv
<1>2. IInv /\ [Next]_vars => IInv'
  BY KeepsInv
<1> QED BY <1>1, <1>2, PTL DEF Spec

\* What is stored is in the slot of its time, which the loop still comes to, and
\* no slot is shared by two times.
THEOREM RoomBufferWindow ==
  ASSUME FirstHalf
  PROVE  Spec => []BufferWindow
<1>1. IInv => BufferWindow
  <2> SUFFICES ASSUME IInv PROVE BufferWindow
    OBVIOUS
  <2>1. /\ From \in Nat /\ nextptsplay \in Nat /\ audioCaNum \in Nat /\ diffpts \in Nat
        /\ clock \in Nat /\ Half \in Nat
        /\ \A d \in due : d[1] \in Users /\ d[2] \in Nat
        /\ \A u \in Users : last[u] \in Nat
    BY Typed, Circle DEF IInv
  <2>2. nextptsplay <= From /\ (pc = "idle" => From = nextptsplay /\ nextptsplay = diffpts)
    BY <2>1, Typed DEF IInv, Clocks, From
  <2>3. ASSUME NEW d \in due
        PROVE  /\ uint16Sub(d[2], From) >= 0
               /\ uint16Sub(d[2], nextptsplay) < audioCaNum
               /\ size[d[2] % audioCaNum] = 1 /\ d \in samptota[d[2] % audioCaNum]
               /\ pc = "idle" => d[2] >= diffpts
    <3>1. /\ From <= d[2] /\ d[2] < nextptsplay + audioCaNum /\ d[2] <= clock + last[d[1]]
          /\ size[d[2] % audioCaNum] = 1 /\ d \in samptota[d[2] % audioCaNum]
      BY DEF IInv, Waiting
    <3>2. d[2] \in Nat /\ last[d[1]] \in Nat /\ last[d[1]] + clock <= Half
      BY <2>1, StaysLow DEF IInv
    <3>3. d[2] \in 0..Half /\ From \in 0..Half /\ nextptsplay \in 0..Half
      BY <2>1, <2>2, <3>1, <3>2
    <3>4. uint16Sub(d[2], From) = d[2] - From /\ uint16Sub(d[2], nextptsplay) = d[2] - nextptsplay
      <4>1. ~(d[2] < From) /\ ~(d[2] < nextptsplay)
        BY <2>1, <2>2, <3>1, <3>2
      <4> QED BY <3>3, <4>1, SubHalf
    <3> QED BY <2>1, <2>2, <3>1, <3>2, <3>4
  <2> QED BY <2>3 DEF BufferWindow, IInv, Types, From
<1> QED BY <1>1, RoomInvariant, PTL

\* A mix is what was stored for its time, all of it and nothing else.
THEOREM RoomMixExact ==
  ASSUME FirstHalf
  PROVE  Spec => MixExact
<1>1. IInv /\ [Next]_vars =>
        [SendDue => (IF size[Index] # 0 THEN samptota[Index] ELSE {})
                      = {d \in due : d[2] = nextpts}]_vars
  BY TurnExact
<1> QED BY <1>1, RoomInvariant, PTL DEF Spec, MixExact

\* Mixes are sent in the order of their times, and each after its time.
THEOREM RoomPlayedOnTime ==
  ASSUME FirstHalf
  PROVE  Spec => PlayedOnTime
<1>1. IInv /\ [Next]_vars => [out' # out => out' < diffpts /\ out' > out]_vars
  <2> SUFFICES ASSUME IInv, Next, out' # out PROVE out' < diffpts /\ out' > out
    OBVIOUS
  <2>1. SendDue
    BY DEF Next, Tick, EnterRoom, Ignore, RoomMergeData
  <2>2. out' = nextpts
    BY <2>1 DEF SendDue, OutConsumeQueue, Silence
  <2>3. nextpts < diffpts /\ From = nextpts
    BY <2>1, TurnIs
  <2>4. out < nextpts
    BY <2>3 DEF IInv, Clocks
  <2>5. nextpts \in Nat /\ (out \in Nat \/ out = -1)
    BY Typed DEF IInv
  <2> QED BY <2>2, <2>3, <2>4, <2>5
<1> QED BY <1>1, RoomInvariant, PTL DEF Spec, PlayedOnTime

\* A frame is stored behind all that waits of the same user.
THEOREM RoomStoredBehind ==
  ASSUME FirstHalf
  PROVE  Spec => StoredBehind
<1>1. IInv /\ [Next]_vars =>
        [\A u \in Users : entered' = entered /\ cpts'[u] # cpts[u] =>
           \A d \in due \ before : d[1] = u => uint16Sub(U16(spts'[u]), d[2]) > 0]_vars
  <2> SUFFICES ASSUME IInv, Next, NEW u \in Users, entered' = entered, cpts'[u] # cpts[u],
                      NEW d \in due \ before, d[1] = u
               PROVE  uint16Sub(U16(spts'[u]), d[2]) > 0
    OBVIOUS
  <2>1. /\ entered \in [Users -> Nat] /\ cpts \in [Users -> Pts] /\ spts \in [Users -> Nat]
        /\ d[2] \in Nat /\ Half \in Nat
    BY Typed, Circle DEF IInv, Types, TypeOK
  <2>2. PICK p \in Pts : RoomMergeData(u, p)
    <3>1. ~Tick /\ ~SendDue
      BY DEF Tick, SendDue, sess
    <3>2. \A w \in Users : ~EnterRoom(w)
      <4>1. ASSUME NEW w \in Users, EnterRoom(w) PROVE FALSE
        <5>1. entered'[w] = entered[w] + 1
          BY <2>1, <4>1 DEF EnterRoom
        <5> QED BY <2>1, <5>1
      <4> QED BY <4>1
    <3>3. \A w \in Users, p \in Pts : ~Ignore(w, p)
      BY DEF Ignore, sess
    <3>4. PICK w \in Users, p \in Pts : RoomMergeData(w, p)
      BY <3>1, <3>2, <3>3 DEF Next
    <3>5. w = u
      <4>1. cpts' = [cpts EXCEPT ![w] = p]
        BY <3>4 DEF RoomMergeData, Remember
      <4> QED BY <2>1, <4>1
    <3> QED BY <3>4, <3>5
  <2>3. spts'[u] = realpts(u, p) /\ cpts'[u] = p
    BY <2>1, <2>2 DEF RoomMergeData, Remember
  <2>4. realpts(u, p) \in Nat /\ realpts(u, p) <= Half
    BY <2>2, StoredAt DEF RoomMergeData
  <2>5. d[2] < spts'[u]
    BY <2>2, <2>3, MergeBehind
  <2>6. spts'[u] \in 0..Half /\ d[2] \in 0..Half
    BY <2>1, <2>3, <2>4, <2>5
  <2>7. U16(spts'[u]) = spts'[u] /\ uint16Sub(spts'[u], d[2]) = spts'[u] - d[2]
    BY <2>1, <2>5, <2>6, U16Half, SubHalf
  <2> QED BY <2>1, <2>5, <2>6, <2>7
<1> QED BY <1>1, RoomInvariant, PTL DEF Spec, StoredBehind
=============================================================================
