---------------------------- MODULE ChannelProofs ----------------------------
(***************************************************************************)
(* HgChannel, for any number of writers, any events that fit in the ring,  *)
(* any ring size and any bound on the number of events: events are handled *)
(* in order and exactly once, no wakeup is lost, and the channel is the    *)
(* queue of ChannelSpec.  For any length of a node, the chain of           *)
(* ChannelNodes goes on holding the bytes that Channel says it does.       *)
(***************************************************************************)
EXTENDS ChannelNodes, DataProofs, FiniteSetTheorems, SequenceTheorems

\* The length of an event is a positive number, and its bytes are bytes.
LEMMA EventBytes ==
  ASSUME NEW e \in Events
  PROVE  /\ EvLen(e) \in Nat \ {0} /\ EvLen(e) <= Cap
         /\ EvBytes(e) \in Seq(Byte)
         /\ Len(EvBytes(e)) = EvLen(e)
         /\ \A i \in 1..EvLen(e) : EvBytes(e)[i] = <<e, i>>
<1>1. EvLen(e) \in Nat \ {0} /\ EvLen(e) <= Cap
  BY ChannelAssumption DEF EvLen
<1>2. \A i \in 1..EvLen(e) : <<e, i>> \in Byte
  BY <1>1 DEF Byte
<1>3. EvBytes(e) \in [1..EvLen(e) -> Byte]
  BY <1>2 DEF EvBytes
<1>4. EvBytes(e) \in Seq(Byte) /\ Len(EvBytes(e)) = EvLen(e)
  BY <1>1, <1>3
<1>5. \A i \in 1..EvLen(e) : EvBytes(e)[i] = <<e, i>>
  BY DEF EvBytes
<1> QED BY <1>1, <1>4, <1>5

\* The atomic facts that the type invariant gives the other proofs.
LEMMA Types ==
  ASSUME TypeOK
  PROVE  /\ Len(sent) \in Nat /\ Len(handled) \in Nat /\ Len(hct) \in Nat
         /\ tcpbuf.len \in 0..Cap /\ tcpbuf.cap = Cap /\ Cap \in Nat \ {0}
         /\ \A k \in 1..Len(sent) : /\ sent[k].at \in Nat
                                    /\ sent[k].ev \in Events
                                    /\ EvLen(sent[k].ev) \in Nat \ {0}
                                    /\ EvLen(sent[k].ev) <= Cap
         /\ WritePos \in Nat /\ ReadPos \in Int
         /\ WritePos = ReadPos + tcpbuf.len + Len(hct)
<1>1. /\ hct \in Seq(Byte) /\ sent \in Seq(LogEntry) /\ handled \in Seq(Seq(Byte))
      /\ tcpbuf \in Ring(Byte, Cap)
  BY DEF TypeOK
<1>2. tcpbuf.len \in 0..Cap /\ tcpbuf.cap = Cap /\ Cap \in Nat \ {0}
  BY <1>1, ChannelAssumption DEF Ring
<1>3. Len(sent) \in Nat /\ Len(handled) \in Nat /\ Len(hct) \in Nat
  BY <1>1, LenProperties
<1>4. \A k \in 1..Len(sent) : sent[k].at \in Nat /\ sent[k].ev \in Events
  <2>1. \A k \in 1..Len(sent) : sent[k] \in LogEntry
    BY <1>1, ElementOfSeq
  <2> QED BY <2>1 DEF LogEntry
<1>5. \A k \in 1..Len(sent) : EvLen(sent[k].ev) \in Nat \ {0} /\ EvLen(sent[k].ev) <= Cap
  BY <1>4, EventBytes
<1>6. WritePos \in Nat
  <2>1. CASE sent = <<>>
    BY <2>1 DEF WritePos
  <2>2. CASE sent # <<>>
    <3>1. Len(sent) \in 1..Len(sent)
      BY <1>1, <2>2, EmptySeq, <1>3
    <3> QED BY <1>4, <1>5, <2>2, <3>1 DEF WritePos
  <2> QED BY <2>1, <2>2
<1> QED BY <1>2, <1>3, <1>4, <1>5, <1>6 DEF ReadPos

\* The set of threads about to post is finite.
LEMMA PostingFinite ==
  ASSUME TypeOK
  PROVE  IsFiniteSet(posting) /\ Cardinality(posting) \in Nat
<1>1. IsFiniteSet(Threads)
  BY ChannelAssumption, FS_AddElement DEF Threads
<1> QED BY <1>1, FS_Subset, FS_CardinalityType DEF TypeOK

\* The strengthening holds before anything is written.
LEMMA InitIInv == Init => IInv
<1> SUFFICES ASSUME Init PROVE IInv
  OBVIOUS
<1> USE ChannelAssumption
<1>1. NewRing(Cap, <<>>) \in Ring(Byte, Cap) /\ Shape(NewRing(Cap, <<>>))
  BY NewRingShape DEF Byte
<1>2. tcpbuf.len = 0
  BY DEF Init, NewRing
<1>3. Cardinality(posting) = 0
  BY FS_EmptySet DEF Init
<1>4. TypeOK
  BY <1>1 DEF Init, TypeOK
<1>5. LogOrder /\ ExactlyOnceInOrder
  BY DEF Init, LogOrder, ExactlyOnceInOrder
<1>6. StreamIntact
  BY <1>1, <1>2 DEF Init, StreamIntact, ReadPos, WritePos
<1>7. TurnCovers
  BY <1>3 DEF Init, TurnCovers, Unhandled
<1> QED BY <1>4, <1>5, <1>6, <1>7 DEF IInv

-----------------------------------------------------------------------------
(* One lemma per action.                                                   *)

\* WriteChan puts an event behind everything already in the stream, and
\* whoever wrote it owes a token.
LEMMA WriteChanStep ==
  ASSUME IInv, NEW t \in Threads, NEW e \in Events, WriteChan(t, e)
  PROVE  IInv'
<1>0. TypeOK /\ LogOrder /\ StreamIntact /\ TurnCovers /\ ExactlyOnceInOrder
  BY DEF IInv
<1>a. /\ hct' = hct \o EvBytes(e)
      /\ sent' = Append(sent, [ev |-> e, at |-> WritePos])
      /\ posting' = posting \cup {t} /\ t \notin posting
      /\ tcpbuf' = tcpbuf /\ eventSem' = eventSem /\ pc' = pc /\ handled' = handled
  BY DEF WriteChan
<1>b. hct \in Seq(Byte) /\ sent \in Seq(LogEntry) /\ [ev |-> e, at |-> WritePos] \in LogEntry
  BY <1>0, Types DEF TypeOK, LogEntry
<1>1. PICK n \in Nat :
         /\ n = Len(sent) /\ Len(sent') = n + 1 /\ sent' # <<>>
         /\ \A k \in 1..n : sent'[k] = sent[k]
         /\ sent'[n+1].ev = e /\ sent'[n+1].at = WritePos
         /\ sent' \in Seq(LogEntry)
  <2>1. Len(sent) \in Nat
    BY <1>0, Types
  <2>2. sent'[Len(sent)+1] = [ev |-> e, at |-> WritePos]
    BY <1>a, <1>b, AppendProperties
  <2>3. /\ Len(sent') = Len(sent) + 1 /\ sent' # <<>> /\ sent' \in Seq(LogEntry)
        /\ \A k \in 1..Len(sent) : sent'[k] = sent[k]
    BY <1>a, <1>b, AppendProperties
  <2> QED BY <2>1, <2>2, <2>3
<1>2. /\ Len(hct') = Len(hct) + EvLen(e) /\ hct' \in Seq(Byte)
      /\ \A i \in 1..Len(hct) : hct'[i] = hct[i]
      /\ \A i \in 1..EvLen(e) : hct'[Len(hct) + i] = <<e, i>>
  <2>1. /\ EvBytes(e) \in Seq(Byte) /\ Len(EvBytes(e)) = EvLen(e)
        /\ EvLen(e) \in Nat /\ Len(hct) \in Nat
        /\ \A i \in 1..EvLen(e) : EvBytes(e)[i] = <<e, i>>
    BY <1>0, EventBytes, Types
  <2>2. /\ hct' \in Seq(Byte) /\ Len(hct') = Len(hct) + Len(EvBytes(e))
        /\ \A i \in 1..Len(hct) + Len(EvBytes(e)) :
             hct'[i] = IF i <= Len(hct) THEN hct[i] ELSE EvBytes(e)[i - Len(hct)]
    BY <1>a, <1>b, <2>1, ConcatProperties
  <2>3. \A i \in 1..Len(hct) : hct'[i] = hct[i]
    BY <2>1, <2>2
  <2>4. ASSUME NEW i \in 1..EvLen(e) PROVE hct'[Len(hct) + i] = <<e, i>>
    <3>1. /\ Len(hct) + i \in 1..Len(hct) + Len(EvBytes(e))
          /\ ~(Len(hct) + i <= Len(hct)) /\ (Len(hct) + i) - Len(hct) = i
      BY <2>1
    <3> QED BY <2>1, <2>2, <3>1
  <2> QED BY <2>1, <2>2, <2>3, <2>4
<1>3. TypeOK'
  BY <1>0, <1>a, <1>1, <1>2 DEF TypeOK
<1>4. WritePos' = WritePos + EvLen(e) /\ ReadPos' = ReadPos
  <2>1. WritePos' = WritePos + EvLen(e)
    BY <1>1 DEF WritePos
  <2> QED BY <1>a, <1>2, <2>1, <1>0, Types, EventBytes DEF ReadPos
<1>c. /\ \A k \in 1..n : sent[k].at \in Nat /\ EvLen(sent[k].ev) \in Nat \ {0}
      /\ WritePos \in Nat /\ EvLen(e) \in Nat \ {0}
      /\ Len(handled) \in Nat /\ Len(handled) <= n
  BY <1>0, <1>1, Types, EventBytes DEF StreamIntact
<1>d. /\ \A k \in 1..n : sent[k].at + EvLen(sent[k].ev) <= WritePos
      /\ \A j, k \in 1..n : j < k => sent[j].at + EvLen(sent[j].ev) <= sent[k].at
      /\ \A k \in 1..n-1 : sent[k+1].at = sent[k].at + EvLen(sent[k].ev)
      /\ n > 0 => WritePos = sent[n].at + EvLen(sent[n].ev)
  <2>1. n = Len(sent)
    BY <1>1
  <2>2. /\ \A k \in 1..n : sent[k].at + EvLen(sent[k].ev) <= WritePos
        /\ \A j, k \in 1..n : j < k => sent[j].at + EvLen(sent[j].ev) <= sent[k].at
        /\ \A k \in 1..n-1 : sent[k+1].at = sent[k].at + EvLen(sent[k].ev)
    BY <1>0, <2>1, Zenon DEF LogOrder
  <2>3. n > 0 => sent # <<>>
    BY <1>b, <2>1, EmptySeq
  <2>4. n > 0 => WritePos = sent[n].at + EvLen(sent[n].ev)
    BY <2>1, <2>3, Zenon DEF WritePos
  <2> QED BY <2>2, <2>4
<1> HIDE DEF LogOrder
<1>5. LogOrder'
  <2>1. \A k \in 1..n+1 : sent'[k].at + EvLen(sent'[k].ev) <= WritePos'
    <3>1. \A k \in 1..n : sent'[k] = sent[k]
      BY <1>1
    <3>2. sent'[n+1].at = WritePos /\ EvLen(sent'[n+1].ev) = EvLen(e)
      BY <1>1
    <3>3. ASSUME NEW k \in 1..n+1
          PROVE  sent'[k].at + EvLen(sent'[k].ev) <= WritePos'
      <4>1. CASE k = n + 1
        BY <1>4, <1>c, <3>2, <4>1
      <4>2. CASE k # n + 1
        <5>1. k \in 1..n /\ sent[k].at \in Nat /\ EvLen(sent[k].ev) \in Nat
          BY <1>c, <4>2
        <5>2. sent[k].at + EvLen(sent[k].ev) <= WritePos
          BY <1>d, <5>1, Zenon
        <5>3. PICK x : x = sent[k].at + EvLen(sent[k].ev)
          OBVIOUS
        <5>4. x \in Nat
          BY <5>1, <5>3
        <5>5. WritePos \in Nat /\ EvLen(e) \in Nat /\ x <= WritePos
          BY <1>c, <5>2, <5>3
        <5>6. x <= WritePos + EvLen(e)
          BY <5>4, <5>5
        <5> QED BY <1>4, <3>1, <5>1, <5>3, <5>6, Zenon
      <4> QED BY <4>1, <4>2
    <3> QED BY <3>3
  <2>2. ASSUME NEW j \in 1..n+1, NEW k \in 1..n+1, j < k
        PROVE  sent'[j].at + EvLen(sent'[j].ev) <= sent'[k].at
    <3>1. j \in 1..n /\ sent'[j] = sent[j]
      BY <1>1, <2>2
    <3>2. CASE k = n + 1
      BY <1>1, <1>d, <3>1, <3>2
    <3>3. CASE k # n + 1
      <4>1. k \in 1..n /\ sent'[k] = sent[k]
        BY <1>1, <3>3
      <4> QED BY <1>d, <2>2, <3>1, <4>1
    <3> QED BY <3>2, <3>3
  <2>3. ASSUME NEW k \in 1..n
        PROVE  sent'[k+1].at = sent'[k].at + EvLen(sent'[k].ev)
    <3>1. CASE k = n
      BY <1>1, <1>d, <3>1
    <3>2. CASE k # n
      <4>1. k \in 1..n-1 /\ k+1 \in 1..n
        BY <3>2
      <4> QED BY <1>1, <1>d, <4>1
    <3> QED BY <3>1, <3>2
  <2> QED BY <1>1, <2>1, <2>2, <2>3 DEF LogOrder
<1>6. StreamIntact'
  <2>1. ReadPos' = IF Len(handled') < Len(sent') THEN sent'[Len(handled')+1].at ELSE WritePos'
    <3>0. PICK h \in Nat : h = Len(handled) /\ h <= n
      BY <1>c
    <3>1. ReadPos = IF h < n THEN sent[h+1].at ELSE WritePos
      BY <1>0, <1>1, <3>0 DEF StreamIntact
    <3>2. Len(handled') = h /\ Len(sent') = n + 1 /\ h < n + 1
      BY <1>a, <1>1, <3>0
    <3>3. sent'[h+1].at = ReadPos
      <4>1. CASE h < n
        BY <1>1, <3>1, <4>1
      <4>2. CASE h = n
        BY <1>1, <3>1, <4>2
      <4> QED BY <3>0, <4>1, <4>2
    <3> QED BY <1>4, <3>2, <3>3
  <2>2. ASSUME NEW k \in Len(handled)+1..n+1, NEW i \in 1..EvLen(sent'[k].ev)
        PROVE  Ahead(sent[k].at - ReadPos + i)' = <<sent'[k].ev, i>>
    <3>0. /\ WritePos = ReadPos + tcpbuf.len + Len(hct) /\ ReadPos \in Int
          /\ tcpbuf.len \in Nat /\ Len(hct) \in Nat
      BY <1>0, Types
    <3>1. CASE k = n + 1
      <4>0. sent'[k].at = WritePos /\ sent'[k].ev = e /\ i \in 1..EvLen(e) /\ i \in Nat
        BY <1>1, <1>c, <3>1
      <4>1. PICK l \in Nat : l = Len(hct)
        BY <3>0
      <4>2. PICK m \in Nat : m = tcpbuf.len
        BY <3>0
      <4>a. PICK rp \in Int : rp = ReadPos
        BY <3>0
      <4>b. WritePos = rp + m + l
        BY <3>0, <4>1, <4>2, <4>a
      <4>c. rp + m + l - rp + i = m + (l + i)
            /\ ~(m + (l + i) <= m) /\ m + (l + i) - m = l + i
        BY <4>0
      <4>3. /\ sent'[k].at - ReadPos + i = m + (l + i)
            /\ ~(m + (l + i) <= m) /\ m + (l + i) - m = l + i
        BY <4>0, <4>a, <4>b, <4>c
      <4>d. PICK x \in Int : x = m + (l + i)
        BY <4>0
      <4>e. Ahead(x)' = hct'[x - tcpbuf'.len]
        BY <1>a, <4>2, <4>c, <4>d DEF Ahead
      <4>4. Ahead(x)' = hct'[l + i]
        <5>1. tcpbuf'.len = m /\ x - m = l + i
          BY <1>a, <4>2, <4>c, <4>d
        <5> QED BY <4>e, <5>1
      <4>5. hct'[l + i] = <<e, i>>
        BY <1>2, <4>0, <4>1
      <4>6. (sent'[k].at - ReadPos' + i) = x
        BY <1>4, <4>3, <4>d
      <4> QED BY <4>0, <4>4, <4>5, <4>6
    <3>2. CASE k # n + 1
      <4>1. k \in Len(handled)+1..n /\ k \in 1..n /\ sent'[k] = sent[k]
        BY <1>1, <1>c, <3>2
      <4>2. Ahead(sent[k].at - ReadPos + i) = <<sent[k].ev, i>>
        BY <1>0, <1>1, <4>1 DEF StreamIntact
      <4>3. /\ sent[k].at + EvLen(sent[k].ev) <= WritePos
            /\ sent[k].at \in Nat /\ EvLen(sent[k].ev) \in Nat
            /\ i \in 1..EvLen(sent[k].ev)
        BY <1>c, <1>d, <4>1
      <4>a. PICK a \in Nat, l \in Nat, rp \in Int :
               a = sent[k].at /\ l = EvLen(sent[k].ev) /\ rp = ReadPos
        BY <3>0, <4>3
      <4>b. a - rp + i \in Int /\ i \in Int /\ i <= l /\ a + l <= WritePos
        BY <4>3, <4>a
      <4>4. PICK j \in Int : j = a - rp + i
        BY <4>b
      <4>c. PICK tl \in Nat, hl \in Nat : tl = tcpbuf.len /\ hl = Len(hct)
        BY <3>0
      <4>d. a + l <= rp + tl + hl
        BY <3>0, <4>a, <4>b, <4>c
      <4>5. j <= tl + hl
        BY <4>b, <4>4, <4>d
      <4>6. Ahead(j)' = Ahead(j)
        <5>1. CASE j <= tcpbuf.len
          BY <1>a, <5>1 DEF Ahead
        <5>2. CASE ~(j <= tcpbuf.len)
          <6>1. j - tcpbuf.len \in 1..Len(hct)
            BY <4>5, <4>c, <5>2
          <6> QED BY <1>a, <1>2, <5>2, <6>1 DEF Ahead
        <5> QED BY <5>1, <5>2
      <4> QED BY <1>4, <4>1, <4>2, <4>a, <4>4, <4>6
    <3> QED BY <3>1, <3>2
  <2>3. Shape(tcpbuf') /\ Len(handled') <= Len(sent')
    BY <1>0, <1>a, <1>1, <1>c DEF StreamIntact
  <2>4. Len(sent') = n + 1 /\ handled' = handled /\ ReadPos' = ReadPos
    BY <1>a, <1>1, <1>4
  <2>5. \A k \in Len(handled')+1..Len(sent') : \A i \in 1..EvLen(sent'[k].ev) :
          Ahead(sent[k].at - ReadPos + i)' = <<sent'[k].ev, i>>
    BY <2>2, <2>4, Zenon
  <2> QED BY <2>1, <2>3, <2>5 DEF StreamIntact
<1>7. TurnCovers'
  <2>1. Cardinality(posting') = Cardinality(posting) + 1 /\ Cardinality(posting) \in Nat
    BY <1>0, <1>a, PostingFinite, FS_AddElement
  <2>2. Unhandled' = Unhandled + 1 /\ Unhandled \in Nat
    BY <1>a, <1>1, <1>c DEF Unhandled
  <2>3. WholeEvent => WholeEvent'
    BY <1>a, <1>1, <1>c, <2>2 DEF WholeEvent, Unhandled
  <2>4. eventSem \in Nat
    BY <1>0 DEF TypeOK
  <2> QED BY <1>0, <1>a, <2>1, <2>2, <2>3, <2>4 DEF TurnCovers
<1>8. ExactlyOnceInOrder'
  BY <1>0, <1>a, <1>1, <1>c DEF ExactlyOnceInOrder
<1> QED BY <1>3, <1>5, <1>6, <1>7, <1>8 DEF IInv

\* The lengths involved, as numbers.
LEMMA Sizes ==
  ASSUME TypeOK, StreamIntact
  PROVE  \E s \in Nat, h \in Nat, tl \in Nat, hl \in Nat, rp \in Int :
           /\ s = Len(sent) /\ h = Len(handled) /\ tl = tcpbuf.len /\ hl = Len(hct)
           /\ rp = ReadPos /\ h <= s
<1>1. /\ Len(sent) \in Nat /\ Len(handled) \in Nat /\ tcpbuf.len \in Nat
      /\ Len(hct) \in Nat /\ ReadPos \in Int
  BY Types
<1>2. Len(handled) <= Len(sent)
  BY DEF StreamIntact
<1> QED BY <1>1, <1>2

\* What the consumer finds in front of it: the first unhandled event, whole
\* between ring and chain; or nothing at all.
LEMMA StreamFront ==
  ASSUME TypeOK, LogOrder, StreamIntact
  PROVE  /\ Unhandled \in Nat
         /\ Unhandled = 0 => tcpbuf.len = 0
         /\ Unhandled > 0 =>
              /\ Len(handled) + 1 \in 1..Len(sent)
              /\ sent[Len(handled)+1].at = ReadPos
              /\ EvLen(sent[Len(handled)+1].ev) <= tcpbuf.len + Len(hct)
              /\ \A i \in 1..EvLen(sent[Len(handled)+1].ev) :
                   Ahead(i) = <<sent[Len(handled)+1].ev, i>>
<1>1. PICK s \in Nat, h \in Nat, tl \in Nat, hl \in Nat, rp \in Int :
        /\ s = Len(sent) /\ h = Len(handled) /\ tl = tcpbuf.len /\ hl = Len(hct)
        /\ rp = ReadPos /\ h <= s
  BY Sizes
<1>2. WritePos = rp + tl + hl
  BY <1>1, Types
<1>3. CASE h = s
  <2>1. rp = WritePos
    BY <1>1, <1>3 DEF StreamIntact
  <2>2. Unhandled = 0
    BY <1>1, <1>3 DEF Unhandled
  <2>3. tl = 0
    BY <1>2, <2>1
  <2> QED BY <1>1, <2>2, <2>3
<1>4. CASE h < s
  <2>1. Unhandled \in Nat /\ Unhandled > 0 /\ h + 1 \in 1..s
    BY <1>1, <1>4 DEF Unhandled
  <2>2. sent[h+1].at = rp
    BY <1>1, <1>4 DEF StreamIntact
  <2>3. PICK l \in Nat : l = EvLen(sent[h+1].ev)
    BY <1>1, <2>1, Types
  <2>4. rp + l <= WritePos
    BY <1>1, <2>1, <2>2, <2>3 DEF LogOrder
  <2>5. l <= tl + hl
    BY <1>2, <2>4
  <2>6. ASSUME NEW i \in 1..EvLen(sent[h+1].ev)
        PROVE  Ahead(i) = <<sent[h+1].ev, i>>
    <3>1. Ahead(sent[h+1].at - ReadPos + i) = <<sent[h+1].ev, i>>
      <4>1. h + 1 \in Len(handled)+1..Len(sent)
        BY <1>1, <2>1
      <4>2. \A k \in Len(handled)+1..Len(sent) : \A j \in 1..EvLen(sent[k].ev) :
              Ahead(sent[k].at - ReadPos + j) = <<sent[k].ev, j>>
        BY DEF StreamIntact
      <4> QED BY <4>1, <4>2
    <3>2. i \in Int /\ rp - rp + i = i
      BY <2>3
    <3> QED BY <1>1, <2>2, <3>1, <3>2
  <2> QED BY <1>1, <2>1, <2>2, <2>3, <2>5, <2>6
<1> QED BY <1>1, <1>3, <1>4

\* Every byte of an unhandled event lies in the ring or in the chain.
LEMMA StreamRange ==
  ASSUME TypeOK, LogOrder, StreamIntact,
         NEW k \in Len(handled)+1..Len(sent), NEW i \in 1..EvLen(sent[k].ev)
  PROVE  /\ sent[k].at - ReadPos + i \in 1..tcpbuf.len + Len(hct)
         /\ Len(handled) + 1 < k =>
              ReadPos + EvLen(sent[Len(handled)+1].ev) <= sent[k].at
<1>1. PICK s \in Nat, h \in Nat, tl \in Nat, hl \in Nat, rp \in Int :
        /\ s = Len(sent) /\ h = Len(handled) /\ tl = tcpbuf.len /\ hl = Len(hct)
        /\ rp = ReadPos /\ h <= s
  BY Sizes
<1>2. WritePos = rp + tl + hl
  BY <1>1, Types
<1>3. k \in 1..s /\ h + 1 \in 1..s /\ h + 1 <= k /\ h < s
  BY <1>1
<1>4. PICK a \in Nat, l \in Nat, a1 \in Nat, l1 \in Nat :
        /\ a = sent[k].at /\ l = EvLen(sent[k].ev)
        /\ a1 = sent[h+1].at /\ l1 = EvLen(sent[h+1].ev)
  BY <1>1, <1>3, Types
<1>5. a1 = rp
  BY <1>1, <1>3, <1>4 DEF StreamIntact
<1>6. a + l <= rp + tl + hl
  BY <1>1, <1>2, <1>3, <1>4 DEF LogOrder
<1>7. h + 1 < k => a1 + l1 <= a
  BY <1>1, <1>3, <1>4 DEF LogOrder
<1>8. h + 1 = k => a = a1
  BY <1>4
<1>9. rp <= a
  BY <1>3, <1>5, <1>7, <1>8
<1>10. i \in 1..l
  BY <1>4
<1>11. a - rp + i \in 1..tl + hl
  BY <1>6, <1>9, <1>10
<1> QED BY <1>1, <1>4, <1>5, <1>7, <1>11

\* A step that leaves stream and history alone keeps what is said of them.
LEMMA StreamFrame ==
  ASSUME hct' = hct, tcpbuf' = tcpbuf, sent' = sent, handled' = handled, IInv
  PROVE  /\ LogOrder' /\ StreamIntact' /\ ExactlyOnceInOrder'
         /\ WholeEvent' = WholeEvent /\ Unhandled' = Unhandled
         /\ Unhandled \in Nat /\ Cardinality(posting) \in Nat /\ eventSem \in Nat
<1>1. TypeOK /\ LogOrder /\ StreamIntact /\ ExactlyOnceInOrder
  BY DEF IInv
<1>2. ReadPos' = ReadPos /\ WritePos' = WritePos
  BY DEF ReadPos, WritePos
<1>3. LogOrder'
  BY <1>1, <1>2 DEF LogOrder
<1>4. StreamIntact'
  BY <1>1, <1>2 DEF StreamIntact, Ahead
<1>5. ExactlyOnceInOrder'
  BY <1>1 DEF ExactlyOnceInOrder
<1>6. WholeEvent' = WholeEvent /\ Unhandled' = Unhandled
  BY DEF WholeEvent, Unhandled
<1>7. Unhandled \in Nat /\ Cardinality(posting) \in Nat /\ eventSem \in Nat
  BY <1>1, StreamFront, PostingFinite DEF TypeOK
<1> QED BY <1>3, <1>4, <1>5, <1>6, <1>7

\* Post turns a debt into a token.
LEMMA PostStep ==
  ASSUME IInv, NEW t \in Threads, Post(t)
  PROVE  IInv'
<1>1. /\ posting' = posting \ {t} /\ t \in posting /\ eventSem' = eventSem + 1
      /\ hct' = hct /\ tcpbuf' = tcpbuf /\ sent' = sent /\ handled' = handled /\ pc' = pc
  BY DEF Post
<1>2. TypeOK /\ TurnCovers
  BY DEF IInv
<1>3. Cardinality(posting') = Cardinality(posting) - 1
  BY <1>1, <1>2, PostingFinite, FS_RemoveElement
<1>4. TypeOK'
  BY <1>1, <1>2 DEF TypeOK
<1>5. TurnCovers'
  <2>1. eventSem' + Cardinality(posting') = eventSem + Cardinality(posting)
    BY <1>1, <1>3, StreamFrame
  <2> QED BY <1>1, <1>2, <2>1, StreamFrame DEF TurnCovers
<1> QED BY <1>1, <1>4, <1>5, StreamFrame DEF IInv

\* Taking a token starts a turn that is worth as much.
LEMMA SemWaitStep == IInv /\ SemWait => IInv'
<1> SUFFICES ASSUME IInv, SemWait PROVE IInv'
  OBVIOUS
<1>1. /\ eventSem' = eventSem - 1 /\ eventSem > 0 /\ pc = "wait" /\ pc' = "move"
      /\ hct' = hct /\ tcpbuf' = tcpbuf /\ sent' = sent /\ handled' = handled
      /\ posting' = posting
  BY DEF SemWait
<1>2. TypeOK /\ TurnCovers
  BY DEF IInv
<1>3. TypeOK'
  BY <1>1, <1>2 DEF TypeOK
<1>4. TurnCovers'
  BY <1>1, <1>2, StreamFrame DEF TurnCovers
<1> QED BY <1>1, <1>3, <1>4, StreamFrame DEF IInv

\* Returning to Handlemsg keeps the surplus of the handler that ran.
LEMMA ReturnStep == IInv /\ Return => IInv'
<1> SUFFICES ASSUME IInv, Return PROVE IInv'
  OBVIOUS
<1>1. /\ eventSem' = eventSem /\ pc = "handler" /\ pc' = "read"
      /\ hct' = hct /\ tcpbuf' = tcpbuf /\ sent' = sent /\ handled' = handled
      /\ posting' = posting
  BY DEF Return
<1>2. TypeOK /\ TurnCovers
  BY DEF IInv
<1>3. TypeOK'
  BY <1>1, <1>2 DEF TypeOK
<1>4. TurnCovers'
  BY <1>1, <1>2, StreamFrame DEF TurnCovers
<1> QED BY <1>1, <1>3, <1>4, StreamFrame DEF IInv

\* Handlemsg gives up only when the ring holds no whole event, and leaves the
\* ring as it found it.
LEMMA GiveUpStep == IInv /\ (NoHead \/ NoBody) => IInv'
<1> SUFFICES ASSUME IInv, NoHead \/ NoBody PROVE IInv'
  OBVIOUS
<1>1. TypeOK /\ LogOrder /\ StreamIntact /\ TurnCovers
  BY DEF IInv
<1>2. /\ eventSem' = eventSem /\ pc = "read" /\ pc' = "wait" /\ posting' = posting
      /\ hct' = hct /\ sent' = sent /\ handled' = handled
  BY DEF NoHead, NoBody
<1>3. tcpbuf' = tcpbuf /\ ~WholeEvent
  <2>0. /\ HeadLen \in Nat \ {0} /\ tcpbuf \in Ring(Byte, Cap) /\ tcpbuf.len \in Nat
        /\ Cap \in Nat \ {0}
    BY <1>1, ChannelAssumption, Types DEF TypeOK
  <2> DEFINE e == sent[Len(handled)+1].ev
  <2>1. WholeEvent => /\ e \in Events /\ Psize[e] \in Nat \ {0}
                      /\ HeadLen + Psize[e] <= tcpbuf.len
                      /\ \A i \in 1..HeadLen + Psize[e] : Unread(tcpbuf, i) = <<e, i>>
    <3> SUFFICES ASSUME WholeEvent
                 PROVE  /\ e \in Events /\ Psize[e] \in Nat \ {0}
                        /\ HeadLen + Psize[e] <= tcpbuf.len
                        /\ \A i \in 1..HeadLen + Psize[e] : Unread(tcpbuf, i) = <<e, i>>
      OBVIOUS
    <3>1. Unhandled > 0 /\ EvLen(e) <= tcpbuf.len
      BY DEF WholeEvent
    <3>2. e \in Events /\ \A i \in 1..EvLen(e) : Ahead(i) = <<e, i>>
      BY <1>1, <3>1, StreamFront, Types
    <3>3. Psize[e] \in Nat \ {0} /\ EvLen(e) = HeadLen + Psize[e]
      BY <3>2, ChannelAssumption DEF EvLen
    <3>4. ASSUME NEW i \in 1..HeadLen + Psize[e] PROVE Unread(tcpbuf, i) = <<e, i>>
      <4>1. i \in 1..EvLen(e) /\ i <= tcpbuf.len
        BY <2>0, <3>1, <3>3
      <4>2. Ahead(i) = Unread(tcpbuf, i)
        BY <4>1 DEF Ahead
      <4> QED BY <3>2, <4>1, <4>2
    <3> QED BY <3>1, <3>2, <3>3, <3>4
  <2>2. CASE NoHead
    <3>1. ~(tcpbuf.len >= HeadLen)
      BY <2>0, <2>2 DEF NoHead, CanRead
    <3> HIDE DEF e
    <3>2. ~WholeEvent
      BY <2>0, <2>1, <3>1
    <3> QED BY <2>2, <3>2 DEF NoHead
  <2>3. CASE NoBody
    <3>1. CanRead(tcpbuf, HeadLen) /\ ~CanRead(PastHead, PsizeOf(Head1))
      BY <2>3 DEF NoBody
    <3>2. tcpbuf' = tcpbuf
      BY <2>0, <2>3, <3>1, PutBack DEF NoBody, PastHead
    <3>3. PastHead.len = tcpbuf.len - HeadLen
      BY DEF PastHead, AfterRead
    <3> HIDE DEF e
    <3>4. WholeEvent => PsizeOf(Head1) = Psize[e]
      <4>1. WholeEvent => Unread(tcpbuf, 1) = <<e, 1>>
        BY <2>0, <2>1
      <4>2. Head1[1] = Unread(tcpbuf, 1)
        BY <2>0 DEF Head1, ReadBytes
      <4> QED BY <4>1, <4>2 DEF PsizeOf
    <3>5. ~WholeEvent
      BY <2>0, <2>1, <3>1, <3>3, <3>4 DEF CanRead
    <3> QED BY <3>2, <3>5
  <2> QED BY <2>2, <2>3
<1>4. TypeOK'
  BY <1>1, <1>2, <1>3 DEF TypeOK
<1>5. TurnCovers'
  BY <1>1, <1>2, <1>3, StreamFrame DEF TurnCovers
<1> QED BY <1>2, <1>3, <1>4, <1>5, StreamFrame DEF IInv

\* Moving bytes from the chain into the ring changes neither their order nor
\* what lies ahead, and leaves either the chain empty or the ring full.
LEMMA MoveBytes ==
  ASSUME IInv, Move
  PROVE  /\ hct' \in Seq(Byte) /\ tcpbuf' \in Ring(Byte, Cap) /\ Shape(tcpbuf')
         /\ tcpbuf'.len + Len(hct') = tcpbuf.len + Len(hct)
         /\ Len(hct') = 0 \/ tcpbuf'.len = Cap
         /\ \A j \in 1..tcpbuf.len + Len(hct) : Ahead(j)' = Ahead(j)
<1> DEFINE w == Hg_Buf_WriteN(tcpbuf, hct)
<1>0. /\ tcpbuf' = w.ring /\ hct' = SubSeq(hct, w.total + 1, Len(hct))
  BY DEF Move
<1>1. /\ hct \in Seq(Byte) /\ tcpbuf \in Ring(Byte, Cap) /\ Shape(tcpbuf)
      /\ Cap \in Nat \ {0} /\ TypeOK
  BY ChannelAssumption DEF IInv, TypeOK, StreamIntact
<1>2. PICK m \in Nat, n \in Nat : m = tcpbuf.len /\ n = Len(hct) /\ m <= Cap
  BY <1>1, Types
<1>3. /\ w.ring \in Ring(Byte, Cap) /\ Shape(w.ring)
      /\ w.total \in 0..n /\ w.total = Free(n, m, Cap)
      /\ w.ring.len = m + w.total
      /\ \A i \in 1..m : Unread(w.ring, i) = Unread(tcpbuf, i)
      /\ \A i \in 1..w.total : Unread(w.ring, m + i) = hct[i]
  BY <1>1, <1>2, WriteN
<1> HIDE DEF w
<1>4. PICK c \in 0..n : c = w.total
  BY <1>3
<1>5. /\ hct' \in Seq(Byte) /\ Len(hct') = n - c
      /\ \A i \in 1..n - c : hct'[i] = hct[c + i]
  <2>1. \A i \in c+1..n : hct[i] \in Byte
    BY <1>1, <1>2
  <2>2. /\ hct' \in Seq(Byte) /\ Len(hct') = IF c + 1 <= n THEN n - (c + 1) + 1 ELSE 0
        /\ \A i \in 1..n - (c + 1) + 1 : hct'[i] = hct[(c + 1) + i - 1]
    <3>1. c + 1 \in Int /\ n \in Int /\ hct' = SubSeq(hct, c + 1, n)
      BY <1>0, <1>2, <1>4
    <3> QED BY <2>1, <3>1, SubSeqProperties
  <2>3. n - (c + 1) + 1 = n - c
    OBVIOUS
  <2>4. ASSUME NEW i \in 1..n - c PROVE hct'[i] = hct[c + i]
    <3>1. (c + 1) + i - 1 = c + i
      OBVIOUS
    <3> QED BY <2>2, <2>3, <3>1
  <2> QED BY <2>2, <2>3, <2>4
<1>6. tcpbuf'.len = m + c
  BY <1>0, <1>3, <1>4
<1>7. m + c + (n - c) = m + n /\ (n - c = 0 \/ m + c = Cap)
  <2>1. CASE n <= Cap - m
    <3>1. c = n
      BY <1>3, <1>4, <2>1 DEF Free
    <3> QED BY <3>1
  <2>2. CASE ~(n <= Cap - m)
    <3>1. c = Cap - m /\ Cap \in Nat
      BY <1>1, <1>3, <1>4, <2>2 DEF Free
    <3> QED BY <3>1
  <2> QED BY <2>1, <2>2
<1>8. ASSUME NEW j \in 1..m + n PROVE Ahead(j)' = Ahead(j)
  <2>1. CASE j <= m
    <3>1. Ahead(j) = Unread(tcpbuf, j) /\ Ahead(j)' = Unread(tcpbuf', j)
      BY <1>2, <1>4, <1>6, <2>1 DEF Ahead
    <3> QED BY <1>0, <1>3, <2>1, <3>1
  <2>2. CASE m < j /\ j <= m + c
    <3>1. PICK i \in 1..c : j = m + i
      <4>1. j - m \in 1..c /\ j = m + (j - m)
        BY <2>2
      <4> QED BY <4>1
    <3>2. j - m = i
      BY <3>1
    <3>3. Ahead(j) = hct[j - m] /\ Ahead(j)' = Unread(tcpbuf', j)
      BY <1>2, <1>4, <1>6, <2>2 DEF Ahead
    <3> QED BY <1>0, <1>3, <1>4, <3>1, <3>2, <3>3
  <2>3. CASE m + c < j
    <3>1. j - (m + c) \in 1..n - c /\ c + (j - (m + c)) = j - m
      BY <2>3
    <3>2. Ahead(j) = hct[j - m] /\ Ahead(j)' = hct'[j - (m + c)]
      BY <1>2, <1>4, <1>6, <2>3 DEF Ahead
    <3> QED BY <1>5, <3>1, <3>2
  <2> QED BY <2>1, <2>2, <2>3
<1> QED BY <1>0, <1>2, <1>3, <1>5, <1>6, <1>7, <1>8

\* After a move the ring holds a whole event unless there is none at all:
\* this is where an event must fit in the ring.
LEMMA MoveStep == IInv /\ Move => IInv'
<1> SUFFICES ASSUME IInv, Move PROVE IInv'
  OBVIOUS
<1>1. TypeOK /\ LogOrder /\ StreamIntact /\ TurnCovers /\ ExactlyOnceInOrder
  BY DEF IInv
<1>2. /\ eventSem' = eventSem /\ pc = "move" /\ pc' = "read" /\ posting' = posting
      /\ sent' = sent /\ handled' = handled
  BY DEF Move
<1>3. TypeOK'
  BY <1>1, <1>2, MoveBytes DEF TypeOK
<1>4. WritePos' = WritePos /\ ReadPos' = ReadPos
  <2>1. WritePos' = WritePos
    BY <1>2 DEF WritePos
  <2>2. /\ WritePos = ReadPos + tcpbuf.len + Len(hct) /\ ReadPos \in Int
        /\ tcpbuf.len \in Nat /\ Len(hct) \in Nat
    BY <1>1, Types
  <2>3. tcpbuf'.len \in Nat /\ Len(hct') \in Nat
        /\ tcpbuf'.len + Len(hct') = tcpbuf.len + Len(hct)
    BY MoveBytes, LenProperties DEF Ring
  <2>4. PICK a \in Nat, b \in Nat, c \in Nat, d \in Nat :
           a = tcpbuf.len /\ b = Len(hct) /\ c = tcpbuf'.len /\ d = Len(hct')
    BY <2>2, <2>3
  <2>5. PICK rp \in Int : rp = ReadPos
    BY <2>2
  <2>6. WritePos = rp + a + b /\ a + b = c + d
    BY <2>2, <2>3, <2>4, <2>5
  <2>7. rp + a + b - d - c = rp
    BY <2>6
  <2>8. ReadPos' = WritePos - d - c
    BY <2>1, <2>4 DEF ReadPos
  <2> QED BY <2>1, <2>5, <2>6, <2>7, <2>8
<1>5. LogOrder' /\ ExactlyOnceInOrder'
  BY <1>1, <1>2, <1>4 DEF LogOrder, ExactlyOnceInOrder
<1>6. StreamIntact'
  <2>1. ASSUME NEW k \in Len(handled)+1..Len(sent), NEW i \in 1..EvLen(sent[k].ev)
        PROVE  Ahead(sent[k].at - ReadPos + i)' = <<sent[k].ev, i>>
    <3>1. Ahead(sent[k].at - ReadPos + i) = <<sent[k].ev, i>>
      BY <1>1 DEF StreamIntact
    <3>2. sent[k].at - ReadPos + i \in 1..tcpbuf.len + Len(hct)
      BY <1>1, StreamRange
    <3> QED BY <1>2, <1>4, <3>1, <3>2, MoveBytes
  <2> QED BY <1>1, <1>2, <1>4, <2>1, MoveBytes DEF StreamIntact
<1>7. TurnCovers'
  <2>1. Unhandled' = Unhandled /\ Unhandled \in Nat
    BY <1>1, <1>2, StreamFront DEF Unhandled
  <2>2. Unhandled > 0 => WholeEvent'
    <3> SUFFICES ASSUME Unhandled > 0 PROVE WholeEvent'
      OBVIOUS
    <3>1. PICK l \in Nat : l = EvLen(sent[Len(handled)+1].ev) /\ l <= Cap
                           /\ l <= tcpbuf.len + Len(hct)
      BY <1>1, StreamFront, Types
    <3>2. tcpbuf'.len \in Nat /\ Len(hct') \in Nat
          /\ tcpbuf'.len + Len(hct') = tcpbuf.len + Len(hct)
          /\ (Len(hct') = 0 \/ tcpbuf'.len = Cap)
      BY MoveBytes, LenProperties DEF Ring
    <3>3. l <= tcpbuf'.len
      BY <3>1, <3>2
    <3> QED BY <1>2, <2>1, <3>1, <3>3 DEF WholeEvent
  <2>3. eventSem \in Nat /\ Cardinality(posting) \in Nat
    BY <1>1, PostingFinite DEF TypeOK
  <2> QED BY <1>1, <1>2, <2>1, <2>2, <2>3 DEF TurnCovers
<1> QED BY <1>3, <1>5, <1>6, <1>7 DEF IInv

\* A handler is called with the bytes of the first unhandled event, and the
\* ring then starts at the next one.
LEMMA HandleBytes ==
  ASSUME IInv, HandleNext
  PROVE  LET e == sent[Len(handled)+1].ev
         IN  /\ Unhandled > 0 /\ EvLen(e) <= tcpbuf.len
             /\ handled' = Append(handled, EvBytes(e))
             /\ tcpbuf' \in Ring(Byte, Cap) /\ Shape(tcpbuf')
             /\ tcpbuf'.len = tcpbuf.len - EvLen(e)
             /\ \A j \in 1..tcpbuf.len - EvLen(e) :
                  Unread(tcpbuf', j) = Unread(tcpbuf, EvLen(e) + j)
<1> DEFINE e == sent[Len(handled)+1].ev
           n == PsizeOf(Head1)
<1>0. /\ tcpbuf \in Ring(Byte, Cap) /\ Shape(tcpbuf) /\ tcpbuf.len \in Nat
      /\ Cap \in Nat \ {0} /\ HeadLen \in Nat \ {0}
      /\ TypeOK /\ LogOrder /\ StreamIntact
  BY ChannelAssumption, Types DEF IInv, TypeOK, StreamIntact
<1>1. /\ CanRead(tcpbuf, HeadLen) /\ CanRead(PastHead, n)
      /\ handled' = Append(handled, Head1 \o ReadBytes(PastHead, n))
      /\ tcpbuf' = AfterRead(PastHead, n)
  BY DEF HandleNext
<1>2. Unhandled > 0
  BY <1>0, <1>1, StreamFront DEF CanRead
<1>3. /\ e \in Events /\ Psize[e] \in Nat \ {0} /\ EvLen(e) = HeadLen + Psize[e]
      /\ \A i \in 1..EvLen(e) : Ahead(i) = <<e, i>>
  <2>1. e \in Events /\ \A i \in 1..EvLen(e) : Ahead(i) = <<e, i>>
    BY <1>0, <1>2, StreamFront, Types
  <2> QED BY <2>1, ChannelAssumption DEF EvLen
<1> HIDE DEF e, n
<1>4. PICK m \in Nat : m = tcpbuf.len /\ HeadLen <= m
  BY <1>0, <1>1 DEF CanRead
<1>5. \A i \in 1..EvLen(e) : i <= m => Unread(tcpbuf, i) = <<e, i>>
  BY <1>3, <1>4 DEF Ahead
<1>6. \A i \in 1..HeadLen : Head1[i] = <<e, i>>
  <2>1. ASSUME NEW i \in 1..HeadLen PROVE Head1[i] = <<e, i>>
    <3>1. i \in 1..EvLen(e) /\ i <= m
      BY <1>0, <1>3, <1>4
    <3>2. Head1[i] = Unread(tcpbuf, i)
      BY DEF Head1, ReadBytes
    <3> QED BY <1>5, <3>1, <3>2
  <2> QED BY <2>1
<1>7. n = Psize[e]
  <2>1. Head1[1] = <<e, 1>>
    BY <1>0, <1>6
  <2> QED BY <2>1 DEF n, PsizeOf
<1>8. /\ PastHead \in Ring(Byte, Cap) /\ Shape(PastHead) /\ PastHead.len = m - HeadLen
      /\ \A i \in 1..m - HeadLen : Unread(PastHead, i) = Unread(tcpbuf, HeadLen + i)
  <2>1. HeadLen \in Nat
    BY <1>0
  <2> QED BY <1>0, <1>1, <1>4, <2>1, ReadN DEF PastHead
<1>9. Psize[e] <= m - HeadLen /\ EvLen(e) <= m
  BY <1>0, <1>1, <1>3, <1>4, <1>7, <1>8 DEF CanRead
<1>10. /\ tcpbuf' \in Ring(Byte, Cap) /\ Shape(tcpbuf')
       /\ tcpbuf'.len = (m - HeadLen) - Psize[e]
       /\ \A i \in 1..(m - HeadLen) - Psize[e] :
            Unread(tcpbuf', i) = Unread(PastHead, Psize[e] + i)
  <2>1. Psize[e] \in Nat
    BY <1>3
  <2> QED BY <1>0, <1>1, <1>7, <1>8, <2>1, ReadN
<1>11. tcpbuf'.len = m - EvLen(e)
  BY <1>0, <1>3, <1>10
<1>12. ASSUME NEW j \in 1..m - EvLen(e)
       PROVE  Unread(tcpbuf', j) = Unread(tcpbuf, EvLen(e) + j)
  <2>1. j \in 1..(m - HeadLen) - Psize[e] /\ Psize[e] + j \in 1..m - HeadLen
        /\ HeadLen + (Psize[e] + j) = EvLen(e) + j
    BY <1>0, <1>3, <1>4
  <2> QED BY <1>8, <1>10, <2>1
<1>13. Head1 \o ReadBytes(PastHead, n) = EvBytes(e)
  <2> DEFINE hd == Head1
             bd == ReadBytes(PastHead, n)
  <2>1. hd \in Seq(Byte) /\ Len(hd) = HeadLen /\ \A i \in 1..HeadLen : hd[i] = <<e, i>>
    <3>1. \A i \in 1..HeadLen : <<e, i>> \in Byte
      BY <1>0, <1>3 DEF Byte
    <3>2. Head1 \in [1..HeadLen -> Byte]
      BY <1>6, <3>1 DEF Head1, ReadBytes
    <3> QED BY <1>0, <1>6, <3>2
  <2>2. \A i \in 1..Psize[e] : bd[i] = <<e, HeadLen + i>>
    <3>1. ASSUME NEW i \in 1..Psize[e] PROVE bd[i] = <<e, HeadLen + i>>
      <4>1. /\ i \in 1..m - HeadLen /\ HeadLen + i \in 1..EvLen(e) /\ HeadLen + i <= m
        BY <1>0, <1>3, <1>4, <1>9
      <4>2. bd[i] = Unread(PastHead, i)
        BY <1>7 DEF ReadBytes
      <4> QED BY <1>5, <1>8, <4>1, <4>2
    <3> QED BY <3>1
  <2>3. bd \in Seq(Byte) /\ Len(bd) = Psize[e]
    <3>1. \A i \in 1..Psize[e] : <<e, HeadLen + i>> \in Byte
      BY <1>0, <1>3 DEF Byte
    <3>2. bd \in [1..Psize[e] -> Byte]
      BY <1>7, <2>2, <3>1 DEF ReadBytes
    <3> QED BY <1>3, <3>2
  <2>4. /\ EvBytes(e) \in Seq(Byte) /\ Len(EvBytes(e)) = HeadLen + Psize[e]
        /\ \A i \in 1..HeadLen + Psize[e] : EvBytes(e)[i] = <<e, i>>
    BY <1>3, EventBytes
  <2> HIDE DEF hd, bd
  <2>5. /\ hd \o bd \in Seq(Byte) /\ Len(hd \o bd) = HeadLen + Psize[e]
        /\ \A i \in 1..HeadLen + Psize[e] :
             (hd \o bd)[i] = IF i <= HeadLen THEN hd[i] ELSE bd[i - HeadLen]
    <3>1. /\ hd \o bd \in Seq(Byte) /\ Len(hd \o bd) = Len(hd) + Len(bd)
          /\ \A i \in 1..Len(hd) + Len(bd) :
               (hd \o bd)[i] = IF i <= Len(hd) THEN hd[i] ELSE bd[i - Len(hd)]
      BY <2>1, <2>3, ConcatProperties, Zenon
    <3> QED BY <2>1, <2>3, <3>1, Zenon
  <2>6. ASSUME NEW i \in 1..HeadLen + Psize[e] PROVE (hd \o bd)[i] = <<e, i>>
    <3>1. CASE i <= HeadLen
      BY <1>0, <2>1, <2>5, <3>1
    <3>2. CASE ~(i <= HeadLen)
      <4>1. i - HeadLen \in 1..Psize[e] /\ HeadLen + (i - HeadLen) = i
        BY <1>0, <1>3, <3>2
      <4> QED BY <2>2, <2>5, <3>2, <4>1
    <3> QED BY <3>1, <3>2
  <2>7. hd \o bd = EvBytes(e)
    BY <2>4, <2>5, <2>6, SeqEqual
  <2> QED BY <2>7 DEF hd, bd
<1> QED BY <1>1, <1>2, <1>4, <1>9, <1>10, <1>11, <1>12, <1>13 DEF e

\* Handling an event uses up the turn that covered it.
LEMMA HandleStep == IInv /\ HandleNext => IInv'
<1> SUFFICES ASSUME IInv, HandleNext PROVE IInv'
  OBVIOUS
<1> DEFINE e == sent[Len(handled)+1].ev
<1>0. TypeOK /\ LogOrder /\ StreamIntact /\ TurnCovers /\ ExactlyOnceInOrder
  BY DEF IInv
<1>1. /\ eventSem' = eventSem /\ pc = "read" /\ pc' = "handler" /\ posting' = posting
      /\ sent' = sent /\ hct' = hct
  BY DEF HandleNext
<1>2. PICK s \in Nat, h \in Nat, tl \in Nat, hl \in Nat, rp \in Int :
        /\ s = Len(sent) /\ h = Len(handled) /\ tl = tcpbuf.len /\ hl = Len(hct)
        /\ rp = ReadPos /\ h <= s
  BY <1>0, Sizes
<1>3. /\ Unhandled > 0 /\ EvLen(e) <= tl
      /\ handled' = Append(handled, EvBytes(e))
      /\ tcpbuf' \in Ring(Byte, Cap) /\ Shape(tcpbuf')
      /\ tcpbuf'.len = tl - EvLen(e)
      /\ \A j \in 1..tl - EvLen(e) : Unread(tcpbuf', j) = Unread(tcpbuf, EvLen(e) + j)
  BY <1>2, HandleBytes
<1>4. h + 1 \in 1..s /\ e = sent[h+1].ev /\ e \in Events /\ sent[h+1].at = rp
  BY <1>0, <1>2, <1>3, StreamFront, Types
<1>5. PICK l \in Nat : l = EvLen(e) /\ l > 0
  BY <1>4, EventBytes
<1> HIDE DEF e
<1>6. /\ handled' \in Seq(Seq(Byte)) /\ Len(handled') = h + 1
      /\ \A k \in 1..h : handled'[k] = handled[k]
      /\ handled'[h+1] = EvBytes(e)
  <2>1. handled \in Seq(Seq(Byte)) /\ EvBytes(e) \in Seq(Byte)
    BY <1>0, <1>4, EventBytes DEF TypeOK
  <2> QED BY <1>2, <1>3, <2>1, AppendProperties
<1>7. TypeOK'
  BY <1>0, <1>1, <1>3, <1>6 DEF TypeOK
<1>8. WritePos' = WritePos /\ WritePos = rp + tl + hl /\ ReadPos' = rp + l
  <2>1. WritePos' = WritePos
    BY <1>1 DEF WritePos
  <2>2. WritePos = rp + tl + hl
    BY <1>0, <1>2, Types
  <2>3. ReadPos' = WritePos - hl - (tl - l)
    BY <1>1, <1>2, <1>3, <1>5, <2>1 DEF ReadPos
  <2>4. rp + tl + hl - hl - (tl - l) = rp + l
    OBVIOUS
  <2> QED BY <2>1, <2>2, <2>3, <2>4
<1>9. LogOrder'
  BY <1>0, <1>1, <1>8 DEF LogOrder
<1>10. ExactlyOnceInOrder'
  <2>1. \A k \in 1..h : handled[k] = EvBytes(sent[k].ev)
    BY <1>0, <1>2 DEF ExactlyOnceInOrder
  <2>2. ASSUME NEW k \in 1..h+1 PROVE handled'[k] = EvBytes(sent[k].ev)
    <3>1. CASE k = h + 1
      BY <1>4, <1>6, <3>1
    <3>2. CASE k # h + 1
      <4>1. k \in 1..h
        BY <3>2
      <4> QED BY <1>6, <2>1, <4>1
    <3> QED BY <3>1, <3>2
  <2>3. Len(handled') <= Len(sent')
    BY <1>1, <1>2, <1>4, <1>6
  <2> QED BY <1>1, <1>6, <2>2, <2>3 DEF ExactlyOnceInOrder
<1>11. StreamIntact'
  <2>1. ReadPos' = IF Len(handled') < Len(sent') THEN sent'[Len(handled')+1].at ELSE WritePos'
    <3>1. CASE h + 1 < s
      <4>1. h + 1 \in 1..s-1
        BY <1>2, <1>4, <3>1
      <4>2. sent[(h+1)+1].at = rp + l
        BY <1>0, <1>2, <1>4, <1>5, <4>1 DEF LogOrder
      <4> QED BY <1>1, <1>2, <1>6, <1>8, <3>1, <4>2
    <3>2. CASE h + 1 = s
      <4>1. sent # <<>>
        BY <1>2, <3>2, EmptySeq
      <4>2. WritePos = rp + l
        BY <1>2, <1>4, <1>5, <3>2, <4>1 DEF WritePos
      <4> QED BY <1>1, <1>2, <1>6, <1>8, <3>2, <4>2
    <3> QED BY <1>4, <3>1, <3>2
  <2>2. ASSUME NEW k \in (h+1)+1..s, NEW i \in 1..EvLen(sent[k].ev)
        PROVE  Ahead(sent[k].at - ReadPos + i)' = <<sent[k].ev, i>>
    <3>1. k \in Len(handled)+1..Len(sent) /\ Len(handled) + 1 < k /\ k \in 1..s
      BY <1>2
    <3>2. PICK a \in Nat, lk \in Nat : a = sent[k].at /\ lk = EvLen(sent[k].ev)
      BY <1>0, <1>2, <3>1, Types
    <3>3. /\ Ahead(a - rp + i) = <<sent[k].ev, i>>
      BY <1>0, <1>2, <3>1, <3>2 DEF StreamIntact
    <3>4. a - rp + i \in 1..tl + hl /\ rp + l <= a
      BY <1>0, <1>2, <1>4, <1>5, <3>1, <3>2, StreamRange
    <3>5. i \in Nat /\ i > 0
      BY <3>2
    <3>6. PICK j \in Nat : j = a - (rp + l) + i /\ j > 0 /\ l + j = a - rp + i
                            /\ l + j <= tl + hl
      <4>1. a - (rp + l) + i \in Nat
        BY <3>4, <3>5
      <4>2. a - (rp + l) + i > 0
        BY <3>4, <3>5
      <4>3. l + (a - (rp + l) + i) = a - rp + i
        BY <3>5
      <4> QED BY <3>4, <4>1, <4>2, <4>3
    <3>7. Ahead(j)' = Ahead(l + j)
      <4>1. CASE j <= tl - l
        <5>1. l + j <= tl /\ j \in 1..tl - l
          BY <3>6, <4>1
        <5>2. Ahead(j)' = Unread(tcpbuf', j) /\ Ahead(l + j) = Unread(tcpbuf, l + j)
          BY <1>2, <1>3, <1>5, <4>1, <5>1 DEF Ahead
        <5> QED BY <1>3, <1>5, <5>1, <5>2
      <4>2. CASE ~(j <= tl - l)
        <5>1. ~(l + j <= tl) /\ j - (tl - l) = (l + j) - tl
          BY <3>6, <4>2
        <5>2. Ahead(j)' = hct'[j - (tl - l)] /\ Ahead(l + j) = hct[(l + j) - tl]
          BY <1>2, <1>3, <1>5, <4>2, <5>1 DEF Ahead
        <5> QED BY <1>1, <5>1, <5>2
      <4> QED BY <4>1, <4>2
    <3>8. (sent'[k].at - ReadPos' + i) = j
      BY <1>1, <1>8, <3>2, <3>6
    <3> QED BY <3>3, <3>6, <3>7, <3>8, <1>1
  <2>3. /\ Len(handled') = h + 1 /\ Len(sent') = s /\ h + 1 <= s /\ sent' = sent
        /\ Shape(tcpbuf')
    BY <1>1, <1>2, <1>3, <1>4, <1>6
  <2> QED BY <2>1, <2>2, <2>3 DEF StreamIntact
<1>12. TurnCovers'
  <2>1. Unhandled \in Nat /\ Unhandled' = Unhandled - 1
    BY <1>0, <1>1, <1>2, <1>6, StreamFront DEF Unhandled
  <2>2. eventSem \in Nat /\ Cardinality(posting) \in Nat
    BY <1>0, PostingFinite DEF TypeOK
  <2> QED BY <1>0, <1>1, <2>1, <2>2 DEF TurnCovers
<1> QED BY <1>7, <1>9, <1>10, <1>11, <1>12 DEF IInv

-----------------------------------------------------------------------------
(* The theorems.                                                           *)

\* IInv is inductive.
THEOREM ChannelInvariant == Spec => []IInv
<1>1. IInv /\ UNCHANGED vars => IInv'
  <2> SUFFICES ASSUME IInv, UNCHANGED vars PROVE IInv'
    OBVIOUS
  <2>1. /\ hct' = hct /\ tcpbuf' = tcpbuf /\ sent' = sent /\ handled' = handled
        /\ eventSem' = eventSem /\ posting' = posting /\ pc' = pc
    BY DEF vars
  <2>2. TypeOK' /\ TurnCovers'
    BY <2>1, StreamFrame DEF IInv, TypeOK, TurnCovers
  <2> QED BY <2>1, <2>2, StreamFrame DEF IInv
<1>2. IInv /\ Next => IInv'
  BY WriteChanStep, PostStep, SemWaitStep, MoveStep, HandleStep, ReturnStep, GiveUpStep
     DEF Next, Drive
<1> QED BY InitIInv, <1>1, <1>2, PTL DEF Spec

\* Every variable of the channel keeps its type; in particular start, end and
\* len of the ring stay in range.
THEOREM ChannelTypeOK == Spec => []TypeOK
<1>1. IInv => TypeOK
  BY DEF IInv
<1> QED BY <1>1, ChannelInvariant, PTL

\* Handlers run once per event, in the order of the WriteChan calls, with the
\* bytes that were written, however ring and chain split them.
THEOREM ChannelExactlyOnceInOrder == Spec => []ExactlyOnceInOrder
<1>1. IInv => ExactlyOnceInOrder
  BY DEF IInv
<1> QED BY <1>1, ChannelInvariant, PTL

\* No schedule of writers, posts and turns leaves an event without a wakeup.
THEOREM ChannelNoLostWakeup == Spec => []NoLostWakeup
<1>1. IInv => NoLostWakeup
  <2> SUFFICES ASSUME IInv PROVE NoLostWakeup
    OBVIOUS
  <2>1. TypeOK /\ TurnCovers /\ Unhandled \in Nat
    BY StreamFront DEF IInv
  <2>2. eventSem \in Nat /\ Cardinality(posting) \in Nat
        /\ pc \in {"wait", "move", "read", "handler"}
    BY <2>1, PostingFinite DEF TypeOK
  <2> QED BY <2>1, <2>2 DEF TurnCovers, NoLostWakeup, Unhandled
<1> QED BY <1>1, ChannelInvariant, PTL
-----------------------------------------------------------------------------
(* The refinement of ChannelSpec.                                          *)

\* What the channel accepted, as ChannelSpec sees it.
Accepted == [k \in 1..Len(sent) |-> EvBytes(sent[k].ev)]

\* A step that neither accepts nor handles an event is a stutter of ChannelSpec.
LEMMA QuietStep ==
  ASSUME sent' = sent, handled' = handled
  PROVE  UNCHANGED Abstract!cvars
BY DEF Abstract!cvars

\* WriteChan accepts an event of ChannelSpec.
LEMMA WriteChanAccepts ==
  ASSUME IInv, NEW t \in Threads, NEW e \in Events, WriteChan(t, e)
  PROVE  Abstract!Accept
<1>1. sent \in Seq(LogEntry) /\ [ev |-> e, at |-> WritePos] \in LogEntry
  BY Types DEF IInv, TypeOK, LogEntry
<1>2. sent' = Append(sent, [ev |-> e, at |-> WritePos]) /\ handled' = handled
  BY DEF WriteChan
<1>3. PICK n \in Nat : n = Len(sent)
  BY <1>1, LenProperties
<1>4. /\ Len(sent') = n + 1 /\ sent'[n+1].ev = e
      /\ \A k \in 1..n : sent'[k] = sent[k]
  BY <1>1, <1>2, <1>3, AppendProperties
<1>5. Accepted' = Append(Accepted, EvBytes(e))
  <2>1. Accepted' = [k \in 1..n+1 |-> EvBytes(sent'[k].ev)]
    BY <1>4 DEF Accepted
  <2>2. Accepted = [k \in 1..n |-> EvBytes(sent[k].ev)]
    BY <1>3 DEF Accepted
  <2>3. Append(Accepted, EvBytes(e))
          = [k \in 1..n+1 |-> IF k = n + 1 THEN EvBytes(e) ELSE EvBytes(sent[k].ev)]
    <3>1. Len(Accepted) = n
      BY <1>3, <2>2
    <3> QED BY <1>3, <2>2, <3>1
  <2>4. \A k \in 1..n+1 :
          EvBytes(sent'[k].ev) = IF k = n + 1 THEN EvBytes(e) ELSE EvBytes(sent[k].ev)
    <3> TAKE k \in 1..n+1
    <3>1. CASE k = n + 1
      BY <1>4, <3>1
    <3>2. CASE k # n + 1
      <4>1. k \in 1..n
        BY <1>3, <3>2
      <4> QED BY <1>4, <3>2, <4>1
    <3> QED BY <3>1, <3>2
  <2> QED BY <2>1, <2>3, <2>4, Zenon
<1> QED BY <1>2, <1>5 DEF Abstract!Accept, Accepted

\* A handler that runs delivers the next event of ChannelSpec.
LEMMA HandleDelivers ==
  ASSUME IInv, HandleNext
  PROVE  Abstract!Deliver
<1>0. TypeOK /\ LogOrder /\ StreamIntact
  BY DEF IInv
<1>1. PICK s \in Nat, h \in Nat : s = Len(sent) /\ h = Len(handled)
  BY <1>0, Types
<1>2. Unhandled > 0 /\ handled' = Append(handled, EvBytes(sent[h+1].ev))
  BY <1>1, HandleBytes
<1>3. h + 1 \in 1..s
  BY <1>0, <1>1, <1>2, StreamFront
<1>4. Accepted[h+1] = EvBytes(sent[h+1].ev) /\ Len(Accepted) = s
  BY <1>1, <1>3 DEF Accepted
<1>5. sent' = sent
  BY DEF HandleNext
<1>6. Len(handled) < Len(Accepted)
  BY <1>1, <1>3, <1>4
<1>7. handled' = Append(handled, Accepted[Len(handled) + 1])
  BY <1>1, <1>2, <1>4
<1>8. Accepted' = Accepted
  BY <1>5 DEF Accepted
<1> QED BY <1>6, <1>7, <1>8 DEF Abstract!Deliver, Accepted

\* The channel implements the queue of ChannelSpec: the initial state is its
\* initial state, WriteChan accepts, HandleNext delivers the oldest event, and
\* every other step of a thread is invisible (liveness is left to TLC).
THEOREM ChannelImplementsQueue == Spec => Abstract!CSafe
<1>1. Init => Abstract!CInit
  BY DEF Init, Abstract!CInit
<1>2. IInv /\ [Next]_vars => [Abstract!CNext]_(Abstract!cvars)
  <2> SUFFICES ASSUME IInv, [Next]_vars
               PROVE  Abstract!CNext \/ UNCHANGED Abstract!cvars
    OBVIOUS
  <2>1. CASE \E t \in Threads, e \in Events : WriteChan(t, e)
    BY <2>1, WriteChanAccepts DEF Abstract!CNext
  <2>2. CASE HandleNext
    BY <2>2, HandleDelivers DEF Abstract!CNext
  <2>3. CASE \E t \in Threads : Post(t)
    BY <2>3, QuietStep DEF Post
  <2>4. CASE SemWait \/ Move \/ Return \/ NoHead \/ NoBody
    BY <2>4, QuietStep DEF SemWait, Move, Return, NoHead, NoBody
  <2>5. CASE UNCHANGED vars
    BY <2>5, QuietStep DEF vars
  <2> QED BY <2>1, <2>2, <2>3, <2>4, <2>5 DEF Next, Drive
<1> QED BY <1>1, <1>2, ChannelInvariant, PTL DEF Spec, Abstract!CSafe

-----------------------------------------------------------------------------
(* The chain of nodes.                                                     *)

\* A list of nodes is what its recursive definition says.
LEMMA LinksDef ==
  ASSUME NEW c, NEW n, Len(c.node) \in Nat
  PROVE  /\ Links(c, n)[0] = n
         /\ \A k \in 1..Len(c.node) : Links(c, n)[k] = (IF Links(c, n)[k-1] = Null THEN Null ELSE c.node[Links(c, n)[k-1]].next)
<1> DEFINE Is(g, m) == g = [k \in 0..m |-> IF k = 0 THEN n ELSE (IF g[k-1] = Null THEN Null ELSE c.node[g[k-1]].next)]
           S == {m \in Nat : \E g : Is(g, m)}
<1>1. 0 \in S
  <2>1. Is([k \in 0..0 |-> n], 0)
    OBVIOUS
  <2> QED BY <2>1
<1>2. ASSUME NEW m \in S PROVE m + 1 \in S
  <2>1. PICK g : Is(g, m)
    OBVIOUS
  <2> DEFINE h == [k \in 0..m+1 |-> IF k = m + 1 THEN (IF g[m] = Null THEN Null ELSE c.node[g[m]].next) ELSE g[k]]
  <2>2. ASSUME NEW k \in 0..m+1
        PROVE  h[k] = IF k = 0 THEN n ELSE (IF h[k-1] = Null THEN Null ELSE c.node[h[k-1]].next)
    <3>1. CASE k = m + 1
      <4>1. h[k-1] = g[m] /\ k # 0
        BY <3>1
      <4> QED BY <3>1, <4>1
    <3>2. CASE k # m + 1
      <4>1. k \in 0..m /\ h[k] = g[k] /\ (k # 0 => h[k-1] = g[k-1])
        BY <3>2
      <4> HIDE DEF h
      <4> QED BY <2>1, <4>1
    <3> QED BY <3>1, <3>2
  <2>3. Is(h, m + 1)
    <3>1. h = [k \in 0..m+1 |-> h[k]]
      OBVIOUS
    <3> HIDE DEF h
    <3> QED BY <2>2, <3>1
  <2> HIDE DEF Is, h
  <2> QED BY <2>3
<1>3. S = Nat
  <2>1. S \in SUBSET Nat
    OBVIOUS
  <2> HIDE DEF S
  <2> QED BY <1>1, <1>2, <2>1, AllNumbers
<1>4. \E g : Is(g, Len(c.node))
  <2> HIDE DEF Is
  <2> QED BY <1>3
<1>5. Is(Links(c, n), Len(c.node))
  BY <1>4, Zenon DEF Links
<1>6. \A k \in 0..Len(c.node) : Links(c, n)[k] = IF k = 0 THEN n ELSE (IF Links(c, n)[k-1] = Null THEN Null ELSE c.node[Links(c, n)[k-1]].next)
  BY <1>5, Zenon
<1>7. 0 \in 0..Len(c.node) /\ \A k \in 1..Len(c.node) : k \in 0..Len(c.node) /\ k # 0
  OBVIOUS
<1> QED BY <1>6, <1>7, Zenon

\* So are the bytes of a list of nodes,
Grows(c, list, g) ==
  /\ g[0] = <<>>
  /\ \A k \in 1..Len(list) : g[k] = g[k-1] \o Bytes(c.node[list[k]])

\* which grow by one node at a time.
LEMMA ContentToDef ==
  ASSUME NEW c, NEW list, Len(list) \in Nat
  PROVE  Grows(c, list, ContentTo(c, list))
<1> DEFINE Is(g, m) == g = [k \in 0..m |-> IF k = 0 THEN <<>> ELSE g[k-1] \o Bytes(c.node[list[k]])]
           S == {m \in Nat : \E g : Is(g, m)}
<1>1. 0 \in S
  <2>1. Is([k \in 0..0 |-> <<>>], 0)
    OBVIOUS
  <2> QED BY <2>1
<1>2. ASSUME NEW m \in S PROVE m + 1 \in S
  <2>1. PICK g : Is(g, m)
    OBVIOUS
  <2> DEFINE h == [k \in 0..m+1 |-> IF k = m + 1 THEN g[m] \o Bytes(c.node[list[(m+1)]]) ELSE g[k]]
  <2>2. ASSUME NEW k \in 0..m+1
        PROVE  h[k] = IF k = 0 THEN <<>> ELSE h[k-1] \o Bytes(c.node[list[k]])
    <3>1. CASE k = m + 1
      <4>1. h[k-1] = g[m] /\ k # 0
        BY <3>1
      <4> QED BY <3>1, <4>1
    <3>2. CASE k # m + 1
      <4>1. k \in 0..m /\ h[k] = g[k] /\ (k # 0 => h[k-1] = g[k-1])
        BY <3>2
      <4> HIDE DEF h
      <4> QED BY <2>1, <4>1
    <3> QED BY <3>1, <3>2
  <2>3. Is(h, m + 1)
    <3>1. h = [k \in 0..m+1 |-> h[k]]
      OBVIOUS
    <3> HIDE DEF h
    <3> QED BY <2>2, <3>1
  <2> HIDE DEF Is, h
  <2> QED BY <2>3
<1>3. S = Nat
  <2>1. S \in SUBSET Nat
    OBVIOUS
  <2> HIDE DEF S
  <2> QED BY <1>1, <1>2, <2>1, AllNumbers
<1>4. \E g : Is(g, Len(list))
  <2> HIDE DEF Is
  <2> QED BY <1>3
<1>5. Is(ContentTo(c, list), Len(list))
  BY <1>4, Zenon DEF ContentTo
<1>6. \A k \in 0..Len(list) : ContentTo(c, list)[k] = IF k = 0 THEN <<>> ELSE ContentTo(c, list)[k-1] \o Bytes(c.node[list[k]])
  BY <1>5, Zenon
<1>7. 0 \in 0..Len(list) /\ \A k \in 1..Len(list) : k \in 0..Len(list) /\ k # 0
  OBVIOUS
<1> QED BY <1>6, <1>7, Zenon DEF Grows

\* the turns of WriteChan,
LEMMA WriteTurnsDef ==
  ASSUME NEW c, NEW bytes, Len(bytes) \in Nat
  PROVE  /\ WriteTurns(c, bytes)[0] = [chain |-> c, rest |-> bytes]
         /\ \A k \in 1..Len(bytes) : WriteTurns(c, bytes)[k] = WriteTurn(WriteTurns(c, bytes)[k-1])
<1> DEFINE Is(g, m) == g = [k \in 0..m |-> IF k = 0 THEN [chain |-> c, rest |-> bytes] ELSE WriteTurn(g[k-1])]
           S == {m \in Nat : \E g : Is(g, m)}
<1>1. 0 \in S
  <2>1. Is([k \in 0..0 |-> [chain |-> c, rest |-> bytes]], 0)
    OBVIOUS
  <2> QED BY <2>1
<1>2. ASSUME NEW m \in S PROVE m + 1 \in S
  <2>1. PICK g : Is(g, m)
    OBVIOUS
  <2> DEFINE h == [k \in 0..m+1 |-> IF k = m + 1 THEN WriteTurn(g[m]) ELSE g[k]]
  <2>2. ASSUME NEW k \in 0..m+1
        PROVE  h[k] = IF k = 0 THEN [chain |-> c, rest |-> bytes] ELSE WriteTurn(h[k-1])
    <3>1. CASE k = m + 1
      <4>1. h[k-1] = g[m] /\ k # 0
        BY <3>1
      <4> QED BY <3>1, <4>1
    <3>2. CASE k # m + 1
      <4>1. k \in 0..m /\ h[k] = g[k] /\ (k # 0 => h[k-1] = g[k-1])
        BY <3>2
      <4> HIDE DEF h
      <4> QED BY <2>1, <4>1
    <3> QED BY <3>1, <3>2
  <2>3. Is(h, m + 1)
    <3>1. h = [k \in 0..m+1 |-> h[k]]
      OBVIOUS
    <3> HIDE DEF h
    <3> QED BY <2>2, <3>1
  <2> HIDE DEF Is, h
  <2> QED BY <2>3
<1>3. S = Nat
  <2>1. S \in SUBSET Nat
    OBVIOUS
  <2> HIDE DEF S
  <2> QED BY <1>1, <1>2, <2>1, AllNumbers
<1>4. \E g : Is(g, Len(bytes))
  <2> HIDE DEF Is
  <2> QED BY <1>3
<1>5. Is(WriteTurns(c, bytes), Len(bytes))
  BY <1>4, Zenon DEF WriteTurns
<1>6. \A k \in 0..Len(bytes) : WriteTurns(c, bytes)[k] = IF k = 0 THEN [chain |-> c, rest |-> bytes] ELSE WriteTurn(WriteTurns(c, bytes)[k-1])
  BY <1>5, Zenon
<1>7. 0 \in 0..Len(bytes) /\ \A k \in 1..Len(bytes) : k \in 0..Len(bytes) /\ k # 0
  OBVIOUS
<1> QED BY <1>6, <1>7, Zenon

\* and those of Drive.
LEMMA DriveTurnsDef ==
  ASSUME NEW c, NEW ring, Len(From(c, c.left)) \in Nat
  PROVE  /\ DriveTurns(c, ring)[0] = [chain |-> c, ring |-> ring, full |-> FALSE]
         /\ \A k \in 1..Len(From(c, c.left)) : DriveTurns(c, ring)[k] = DriveTurn(DriveTurns(c, ring)[k-1])
<1> DEFINE Is(g, m) == g = [k \in 0..m |-> IF k = 0 THEN [chain |-> c, ring |-> ring, full |-> FALSE] ELSE DriveTurn(g[k-1])]
           S == {m \in Nat : \E g : Is(g, m)}
<1>1. 0 \in S
  <2>1. Is([k \in 0..0 |-> [chain |-> c, ring |-> ring, full |-> FALSE]], 0)
    OBVIOUS
  <2> QED BY <2>1
<1>2. ASSUME NEW m \in S PROVE m + 1 \in S
  <2>1. PICK g : Is(g, m)
    OBVIOUS
  <2> DEFINE h == [k \in 0..m+1 |-> IF k = m + 1 THEN DriveTurn(g[m]) ELSE g[k]]
  <2>2. ASSUME NEW k \in 0..m+1
        PROVE  h[k] = IF k = 0 THEN [chain |-> c, ring |-> ring, full |-> FALSE] ELSE DriveTurn(h[k-1])
    <3>1. CASE k = m + 1
      <4>1. h[k-1] = g[m] /\ k # 0
        BY <3>1
      <4> QED BY <3>1, <4>1
    <3>2. CASE k # m + 1
      <4>1. k \in 0..m /\ h[k] = g[k] /\ (k # 0 => h[k-1] = g[k-1])
        BY <3>2
      <4> HIDE DEF h
      <4> QED BY <2>1, <4>1
    <3> QED BY <3>1, <3>2
  <2>3. Is(h, m + 1)
    <3>1. h = [k \in 0..m+1 |-> h[k]]
      OBVIOUS
    <3> HIDE DEF h
    <3> QED BY <2>2, <3>1
  <2> HIDE DEF Is, h
  <2> QED BY <2>3
<1>3. S = Nat
  <2>1. S \in SUBSET Nat
    OBVIOUS
  <2> HIDE DEF S
  <2> QED BY <1>1, <1>2, <2>1, AllNumbers
<1>4. \E g : Is(g, Len(From(c, c.left)))
  <2> HIDE DEF Is
  <2> QED BY <1>3
<1>5. Is(DriveTurns(c, ring), Len(From(c, c.left)))
  BY <1>4, Zenon DEF DriveTurns
<1>6. \A k \in 0..Len(From(c, c.left)) : DriveTurns(c, ring)[k] = IF k = 0 THEN [chain |-> c, ring |-> ring, full |-> FALSE] ELSE DriveTurn(DriveTurns(c, ring)[k-1])
  BY <1>5, Zenon
<1>7. 0 \in 0..Len(From(c, c.left)) /\ \A k \in 1..Len(From(c, c.left)) : k \in 0..Len(From(c, c.left)) /\ k # 0
  OBVIOUS
<1> QED BY <1>6, <1>7, Zenon

\* Chains and their nodes.
Node ==
  [next : Nat, data : [0..NodeLen-1 -> Byte], start : 0..NodeLen-1, end : 0..NodeLen-1,
   len : 0..NodeLen]
Chain == [node : Seq(Node), left : Nat, right : Nat, freen : Nat]

\* A node may get another successor, and a chain another node in a place.
WithNext(nodes, x, n) == [nodes EXCEPT ![x].next = n]

\* The first changes the successor of that node alone.
LEMMA NextNode ==
  ASSUME NEW nodes \in Seq(Node), NEW x \in 1..Len(nodes), NEW n \in Nat
  PROVE  /\ WithNext(nodes, x, n) \in Seq(Node)
         /\ Len(WithNext(nodes, x, n)) = Len(nodes)
         /\ \A k \in 1..Len(nodes) : WithNext(nodes, x, n)[k] =
              IF k = x THEN [nodes[k] EXCEPT !.next = n] ELSE nodes[k]
<1> DEFINE node == [nodes[x] EXCEPT !.next = n]
<1>1. node \in Node
  <2>1. PICK m \in Node : m = nodes[x]
    OBVIOUS
  <2>2. [m EXCEPT !.next = n] \in Node
    BY DEF Node
  <2> QED BY <2>1, <2>2
<1>2. WithNext(nodes, x, n) = [nodes EXCEPT ![x] = node]
  BY DEF WithNext
<1> HIDE DEF node
<1>3. /\ [nodes EXCEPT ![x] = node] \in Seq(Node)
      /\ Len([nodes EXCEPT ![x] = node]) = Len(nodes)
      /\ \A k \in 1..Len(nodes) : [nodes EXCEPT ![x] = node][k] = IF k = x THEN node ELSE nodes[k]
  BY <1>1
<1> QED BY <1>2, <1>3 DEF node

\* The second leaves the rest of the chain as it is.
LEMMA SetNode ==
  ASSUME NEW c \in Chain, NEW x \in 1..Len(c.node), NEW node \in Node,
         NEW d, d = [c EXCEPT !.node[x] = node]
  PROVE  /\ d \in Chain /\ d.left = c.left /\ d.right = c.right /\ d.freen = c.freen
         /\ Len(d.node) = Len(c.node)
         /\ \A k \in 1..Len(c.node) : d.node[k] = IF k = x THEN node ELSE c.node[k]
<1>1. d.node = [c.node EXCEPT ![x] = node]
  BY DEF Chain
<1>2. d.left = c.left /\ d.freen = c.freen /\ d.right = c.right
  BY DEF Chain
<1>3. /\ d.node \in Seq(Node) /\ Len(d.node) = Len(c.node)
      /\ \A k \in 1..Len(c.node) : d.node[k] = IF k = x THEN node ELSE c.node[k]
  <2>1. c.node \in Seq(Node)
    BY DEF Chain
  <2> QED BY <1>1, <2>1
<1>4. d = [c EXCEPT !.node = [c.node EXCEPT ![x] = node]]
  BY DEF Chain
<1>5. d \in Chain
  BY <1>3, <1>4, <1>1 DEF Chain
<1> QED BY <1>2, <1>3, <1>5

\* What the operations on the lists do to the fields of a chain.
LEMMA PushRFields ==
  ASSUME NEW c \in Chain, NEW n \in Nat, c.right # Null => c.right \in 1..Len(c.node),
         NEW d, d = Hg_SinglePushR(c, n)
  PROVE  /\ d \in Chain /\ d.left = (IF c.right = Null THEN n ELSE c.left)
         /\ d.right = n /\ d.freen = c.freen /\ Len(d.node) = Len(c.node)
         /\ \A k \in 1..Len(c.node) : d.node[k] =
              IF c.right # Null /\ k = c.right THEN [c.node[k] EXCEPT !.next = n] ELSE c.node[k]
<1>1. CASE c.right = Null
  <2>1. d = [c EXCEPT !.left = n, !.right = n]
    BY <1>1 DEF Hg_SinglePushR
  <2>2. d \in Chain /\ d.left = n /\ d.right = n /\ d.freen = c.freen /\ d.node = c.node
    BY <2>1 DEF Chain
  <2> QED BY <1>1, <2>2
<1>2. CASE c.right # Null
  <2>1. d = [c EXCEPT !.node[c.right].next = n, !.right = n]
    BY <1>2 DEF Hg_SinglePushR
  <2>2. d.node = WithNext(c.node, c.right, n)
    BY <2>1 DEF Chain, WithNext
  <2>3. d.left = c.left /\ d.freen = c.freen /\ d.right = n
    BY <2>1 DEF Chain
  <2>4. /\ d.node \in Seq(Node) /\ Len(d.node) = Len(c.node)
        /\ \A k \in 1..Len(c.node) : d.node[k] =
             IF k = c.right THEN [c.node[k] EXCEPT !.next = n] ELSE c.node[k]
    <3>1. c.node \in Seq(Node)
      BY DEF Chain
    <3>2. c.right \in 1..Len(c.node)
      BY <1>2
    <3>3. PICK nodes \in Seq(Node) : nodes = c.node
      BY <3>1
    <3>4. PICK x \in 1..Len(nodes) : x = c.right
      BY <3>2, <3>3
    <3>5. d.node = WithNext(nodes, x, n)
      BY <2>2, <3>3, <3>4
    <3>6. /\ WithNext(nodes, x, n) \in Seq(Node)
          /\ Len(WithNext(nodes, x, n)) = Len(nodes)
          /\ \A k \in 1..Len(nodes) : WithNext(nodes, x, n)[k] =
               IF k = x THEN [nodes[k] EXCEPT !.next = n] ELSE nodes[k]
      BY NextNode
    <3> QED BY <3>3, <3>4, <3>5, <3>6
  <2>5. d = [c EXCEPT !.node = WithNext(c.node, c.right, n), !.right = n]
    BY <2>1 DEF Chain, WithNext
  <2>6. d \in Chain
    BY <2>2, <2>4, <2>5 DEF Chain
  <2> QED BY <1>2, <2>3, <2>4, <2>6
<1> QED BY <1>1, <1>2

\* Hg_SingleDelchainL moves the leftmost node to the head of the free list.
LEMMA DelchainFields ==
  ASSUME NEW c \in Chain, c.left \in 1..Len(c.node), NEW d, d = Hg_SingleDelchainL(c)
  PROVE  /\ d \in Chain /\ d.left = c.node[c.left].next
         /\ d.right = (IF c.node[c.left].next = Null THEN Null ELSE c.right)
         /\ d.freen = c.left /\ Len(d.node) = Len(c.node)
         /\ \A k \in 1..Len(c.node) : d.node[k] =
              IF k = c.left THEN [c.node[k] EXCEPT !.next = c.freen] ELSE c.node[k]
<1>1. /\ c.node \in Seq(Node) /\ c.freen \in Nat /\ c.left \in Nat /\ c.right \in Nat
      /\ c.node[c.left].next \in Nat /\ Null \in Nat
  <2>1. c.node \in Seq(Node) /\ c.freen \in Nat /\ c.left \in Nat /\ c.right \in Nat
    BY DEF Chain
  <2>2. c.node[c.left] \in Node
    BY <2>1
  <2> QED BY <2>1, <2>2 DEF Node, Null
<1>2. PICK next \in Nat, right \in Nat :
        /\ next = c.node[c.left].next
        /\ right = IF c.node[c.left].next = Null THEN Null ELSE c.right
  BY <1>1
<1>3. d = [c EXCEPT !.left = next, !.right = right,
                    !.node[c.left].next = c.freen, !.freen = c.left]
  BY <1>2 DEF Hg_SingleDelchainL
<1>4. d.node = WithNext(c.node, c.left, c.freen)
  BY <1>3 DEF Chain, WithNext
<1>5. d.left = next /\ d.right = right /\ d.freen = c.left
  BY <1>3 DEF Chain
<1>6. /\ d.node \in Seq(Node) /\ Len(d.node) = Len(c.node)
      /\ \A k \in 1..Len(c.node) : d.node[k] =
           IF k = c.left THEN [c.node[k] EXCEPT !.next = c.freen] ELSE c.node[k]
  <2>1. PICK nodes \in Seq(Node) : nodes = c.node
    BY <1>1
  <2>2. PICK x \in 1..Len(nodes), n \in Nat : x = c.left /\ n = c.freen
    BY <1>1, <2>1
  <2>3. d.node = WithNext(nodes, x, n)
    BY <1>4, <2>1, <2>2
  <2>4. /\ WithNext(nodes, x, n) \in Seq(Node)
        /\ Len(WithNext(nodes, x, n)) = Len(nodes)
        /\ \A k \in 1..Len(nodes) : WithNext(nodes, x, n)[k] =
             IF k = x THEN [nodes[k] EXCEPT !.next = n] ELSE nodes[k]
    BY NextNode
  <2> QED BY <2>1, <2>2, <2>3, <2>4
<1>7. d = [c EXCEPT !.left = next, !.right = right,
                    !.node = WithNext(c.node, c.left, c.freen), !.freen = c.left]
  BY <1>3 DEF Chain, WithNext
<1>8. d \in Chain
  BY <1>1, <1>4, <1>6, <1>7 DEF Chain
<1> QED BY <1>2, <1>5, <1>6, <1>8

\* A node's bytes do not wrap, and its end is behind them.
Straight(node) ==
  node.start + node.len <= NodeLen /\ node.end = Wrap(node.start + node.len, NodeLen)

\* The links lead from node n through list s.
Path(c, n, s) ==
  /\ n = IF Len(s) = 0 THEN Null ELSE s[1]
  /\ \A k \in 1..Len(s) : c.node[s[k]].next = IF k < Len(s) THEN s[k+1] ELSE Null

Distinct(s) == \A i, j \in 1..Len(s) : s[i] = s[j] => i = j

\* Each node is once in list u, the chain from left to right, or once in f,
\* the free list.
Lists(c, u, f) ==
  /\ c \in Chain /\ u \in Seq(1..Len(c.node)) /\ f \in Seq(1..Len(c.node))
  /\ Path(c, c.left, u) /\ Path(c, c.freen, f)
  /\ c.right = IF Len(u) = 0 THEN Null ELSE u[Len(u)]
  /\ Len(u) + Len(f) = Len(c.node)
  /\ Distinct(u) /\ Distinct(f)
  /\ \A i \in 1..Len(u), j \in 1..Len(f) : u[i] # f[j]
  /\ \A n \in 1..Len(c.node) :
       (\E i \in 1..Len(u) : u[i] = n) \/ (\E j \in 1..Len(f) : f[j] = n)
  /\ \A i \in 1..Len(u) : Straight(c.node[u[i]])

\* From finds the list.
LEMMA PathFrom ==
  ASSUME NEW c \in Chain, NEW n, NEW s \in Seq(1..Len(c.node)), Path(c, n, s),
         Len(s) <= Len(c.node)
  PROVE  From(c, n) = s
<1>1. PICK l \in Nat : l = Len(c.node)
  BY DEF Chain
<1>2. PICK m \in Nat : m = Len(s) /\ m <= l
  BY <1>1
<1>3. /\ Links(c, n)[0] = n
      /\ \A k \in 1..l : Links(c, n)[k] =
           (IF Links(c, n)[k-1] = Null THEN Null ELSE c.node[Links(c, n)[k-1]].next)
  BY <1>1, LinksDef
<1>4. /\ n = IF m = 0 THEN Null ELSE s[1]
      /\ \A k \in 1..m : c.node[s[k]].next = IF k < m THEN s[k+1] ELSE Null
      /\ \A k \in 1..m : s[k] \in 1..l
  BY <1>1, <1>2 DEF Path
<1> DEFINE S == {k \in Nat : k <= l => Links(c, n)[k] = IF k < m THEN s[k+1] ELSE Null}
<1>5. 0 \in S
  BY <1>3, <1>4
<1>6. ASSUME NEW k \in S PROVE k + 1 \in S
  <2>1. SUFFICES ASSUME k + 1 <= l
                 PROVE  Links(c, n)[k+1] = IF k + 1 < m THEN s[(k+1)+1] ELSE Null
    OBVIOUS
  <2>2. /\ Links(c, n)[k] = IF k < m THEN s[k+1] ELSE Null
        /\ k + 1 \in 1..l /\ (k + 1) - 1 = k
    BY <2>1
  <2>3. Links(c, n)[k+1] = (IF Links(c, n)[k] = Null THEN Null ELSE c.node[Links(c, n)[k]].next)
    BY <1>3, <2>2
  <2> HIDE DEF S
  <2>4. CASE k < m
    <3>1. k + 1 \in 1..m /\ s[k+1] # Null /\ k \in Nat
      BY <1>4, <2>2, <2>4 DEF Null
    <3> QED BY <1>4, <2>2, <2>3, <2>4, <3>1
  <2>5. CASE ~(k < m)
    BY <2>2, <2>3, <2>5
  <2> QED BY <2>4, <2>5
<1>7. S = Nat
  <2>1. S \in SUBSET Nat
    OBVIOUS
  <2> HIDE DEF S
  <2> QED BY <1>5, <1>6, <2>1, AllNumbers
<1>8. \A k \in 1..l : Links(c, n)[k-1] = IF k <= m THEN s[k] ELSE Null
  <2> TAKE k \in 1..l
  <2>1. k - 1 \in S /\ k - 1 <= l /\ (k - 1) + 1 = k /\ (k - 1 < m <=> k <= m)
    BY <1>7
  <2> QED BY <2>1
<1> HIDE DEF S
<1>9. {k \in 1..l : Links(c, n)[k-1] # Null} = 1..m
  BY SMTT(30), <1>2, <1>4, <1>8 DEF Null
<1>10. Cardinality(1..m) = m
  <2>1. Cardinality(1..m) = IF 1 > m THEN 0 ELSE m - 1 + 1
    BY FS_Interval
  <2> QED BY <2>1
<1>11. From(c, n) = [k \in 1..m |-> Links(c, n)[k-1]]
  BY <1>1, <1>9, <1>10 DEF From
<1>12. From(c, n) = [k \in 1..m |-> s[k]]
  BY <1>2, <1>8, <1>11
<1> QED BY <1>2, <1>12

\* The lists that From follows are those the chain keeps.
LEMMA ListsFrom ==
  ASSUME NEW c, NEW u, NEW f, Lists(c, u, f)
  PROVE  From(c, c.left) = u /\ From(c, c.freen) = f
<1>1. Len(u) \in Nat /\ Len(f) \in Nat /\ Len(u) + Len(f) = Len(c.node)
  BY DEF Lists
<1> QED BY <1>1, PathFrom DEF Lists

\* A node of the chain may get other bytes.
LEMMA ListsData ==
  ASSUME NEW c, NEW u, NEW f, Lists(c, u, f), NEW i \in 1..Len(u),
         NEW node \in Node, node.next = c.node[u[i]].next, Straight(node)
  PROVE  Lists([c EXCEPT !.node[u[i]] = node], u, f)
<1> DEFINE d == [c EXCEPT !.node[u[i]] = node]
<1>1. c \in Chain /\ u \in Seq(1..Len(c.node)) /\ f \in Seq(1..Len(c.node)) /\ u[i] \in 1..Len(c.node)
  BY DEF Lists
<1>2. d = [c EXCEPT !.node[u[i]] = node]
  OBVIOUS
<1> HIDE DEF d
<1>3. /\ d \in Chain /\ d.left = c.left /\ d.right = c.right /\ d.freen = c.freen
      /\ Len(d.node) = Len(c.node)
      /\ \A k \in 1..Len(c.node) : d.node[k] = IF k = u[i] THEN node ELSE c.node[k]
  BY <1>1, <1>2, SetNode
<1>4. \A k \in 1..Len(c.node) : d.node[k].next = c.node[k].next
  BY <1>3
<1>5. \A k \in 1..Len(c.node) : Straight(c.node[k]) => Straight(d.node[k])
  BY <1>3
<1>6. Path(d, d.left, u) /\ Path(d, d.freen, f)
  <2>1. PICK l : l = 1..Len(c.node)
    OBVIOUS
  <2>2. u \in Seq(l) /\ f \in Seq(l)
    BY <2>1, Zenon DEF Lists
  <2>3. (\A k \in 1..Len(u) : u[k] \in l) /\ (\A k \in 1..Len(f) : f[k] \in l)
    BY <2>2
  <2> QED BY <1>3, <1>4, <2>1, <2>3 DEF Lists, Path
<1>7. \A k \in 1..Len(u) : Straight(d.node[u[k]])
  <2>1. \A k \in 1..Len(u) : u[k] \in 1..Len(c.node)
    BY <1>1
  <2> QED BY <1>5, <2>1 DEF Lists
<1>8. Lists(d, u, f)
  BY <1>1, <1>3, <1>6, <1>7 DEF Lists
<1> QED BY <1>8 DEF d

\* Two nodes hold the same bytes in the same place.
Alike(m, n) == m.data = n.data /\ m.start = n.start /\ m.end = n.end /\ m.len = n.len

\* Such nodes hold the same bytes without a wrap.
LEMMA AlikeBytes ==
  ASSUME NEW m, NEW n, Alike(m, n)
  PROVE  Bytes(m) = Bytes(n) /\ (Straight(n) => Straight(m))
BY DEF Alike, Bytes, Straight

\* A node with another successor is alike.
LEMMA AlikeNext ==
  ASSUME NEW m \in Node, NEW n \in Nat
  PROVE  /\ Alike([m EXCEPT !.next = n], m) /\ [m EXCEPT !.next = n].next = n
         /\ [m EXCEPT !.next = n] \in Node
BY DEF Alike, Node

\* The lists without node x, which is in neither of them.
Loose(c, u, x, f) ==
  /\ c \in Chain /\ u \in Seq(1..Len(c.node)) /\ f \in Seq(1..Len(c.node)) /\ x \in 1..Len(c.node)
  /\ Path(c, c.left, u) /\ Path(c, c.freen, f)
  /\ c.right = IF Len(u) = 0 THEN Null ELSE u[Len(u)]
  /\ Len(u) + 1 + Len(f) = Len(c.node)
  /\ Distinct(u) /\ Distinct(f)
  /\ \A i \in 1..Len(u), j \in 1..Len(f) : u[i] # f[j]
  /\ (\A i \in 1..Len(u) : u[i] # x) /\ (\A j \in 1..Len(f) : f[j] # x)
  /\ \A n \in 1..Len(c.node) :
       n = x \/ (\E i \in 1..Len(u) : u[i] = n) \/ (\E j \in 1..Len(f) : f[j] = n)
  /\ \A i \in 1..Len(u) : Straight(c.node[u[i]])
  /\ c.node[x].next = Null /\ Straight(c.node[x])

\* Hg_SinglePushR puts it at the right end of the chain.
LEMMA ListsPush ==
  ASSUME NEW c, NEW u, NEW x, NEW f, Loose(c, u, x, f), NEW d, d = Hg_SinglePushR(c, x)
  PROVE  /\ Lists(d, Append(u, x), f) /\ d.node[x] = c.node[x]
         /\ \A k \in 1..Len(c.node) : Alike(d.node[k], c.node[k])
<1> DEFINE v == Append(u, x)
<1>1. /\ c \in Chain /\ c.node \in Seq(Node) /\ x \in 1..Len(c.node) /\ x \in Nat
      /\ c.right # Null => c.right \in 1..Len(c.node)
  <2>1. c \in Chain /\ c.node \in Seq(Node) /\ x \in 1..Len(c.node)
    BY DEF Loose, Chain
  <2>2. u \in Seq(1..Len(c.node)) /\ c.right = IF Len(u) = 0 THEN Null ELSE u[Len(u)]
    BY DEF Loose
  <2> QED BY <2>1, <2>2
<1>2. PICK m \in Nat, q \in Nat, l \in Nat : m = Len(u) /\ q = Len(f) /\ l = Len(c.node)
  BY <1>1 DEF Loose
<1>3. /\ d \in Chain /\ d.left = (IF c.right = Null THEN x ELSE c.left)
      /\ d.right = x /\ d.freen = c.freen /\ Len(d.node) = l
      /\ \A k \in 1..l : d.node[k] =
           IF c.right # Null /\ k = c.right THEN [c.node[k] EXCEPT !.next = x] ELSE c.node[k]
  BY <1>1, <1>2, PushRFields
<1>4. /\ \A k \in 1..m : u[k] \in 1..l /\ u[k] # x
      /\ \A k \in 1..q : f[k] \in 1..l /\ f[k] # x
      /\ c.right = IF m = 0 THEN Null ELSE u[m]
      /\ Null = 0
  <2>1. u \in Seq(1..l) /\ f \in Seq(1..l)
    BY <1>2, Zenon DEF Loose
  <2>2. (\A k \in 1..m : u[k] # x) /\ (\A k \in 1..q : f[k] # x)
    BY <1>2, Zenon DEF Loose
  <2>3. c.right = IF m = 0 THEN Null ELSE u[m]
    BY <1>2, Zenon DEF Loose
  <2>4. (\A k \in 1..m : u[k] \in 1..l) /\ (\A k \in 1..q : f[k] \in 1..l)
    BY <1>2, <2>1
  <2> QED BY <2>2, <2>3, <2>4 DEF Null
<1>5. /\ v \in Seq(1..l) /\ Len(v) = m + 1 /\ v[m+1] = x /\ \A k \in 1..m : v[k] = u[k]
      /\ f \in Seq(1..l) /\ x \in 1..l
  BY <1>1, <1>2 DEF Loose
<1>6. \A k \in 1..l : Alike(d.node[k], c.node[k])
  <2> TAKE k \in 1..l
  <2>1. c.node[k] \in Node
    BY <1>1, <1>2
  <2>2. Alike(c.node[k], c.node[k])
    BY DEF Alike
  <2>3. Alike([c.node[k] EXCEPT !.next = x], c.node[k])
    BY <1>1, <2>1, AlikeNext
  <2> QED BY <1>3, <2>2, <2>3
<1>7. \A k \in 1..l : d.node[k].next = IF m # 0 /\ k = u[m] THEN x ELSE c.node[k].next
  <2> TAKE k \in 1..l
  <2>1. c.node[k] \in Node
    BY <1>1, <1>2
  <2>2. [c.node[k] EXCEPT !.next = x].next = x
    BY <1>1, <2>1, AlikeNext
  <2>3. c.right # Null <=> m # 0
    BY <1>4
  <2> QED BY <1>3, <1>4, <2>2, <2>3
<1>8. /\ \A i, j \in 1..m : u[i] = u[j] => i = j
      /\ \A i, j \in 1..q : f[i] = f[j] => i = j
      /\ \A i \in 1..m, j \in 1..q : u[i] # f[j]
      /\ c.left = (IF m = 0 THEN Null ELSE u[1])
      /\ c.freen = (IF q = 0 THEN Null ELSE f[1])
      /\ \A k \in 1..m : c.node[u[k]].next = IF k < m THEN u[k+1] ELSE Null
      /\ \A k \in 1..q : c.node[f[k]].next = IF k < q THEN f[k+1] ELSE Null
      /\ c.node[x].next = Null /\ m + 1 + q = l
  BY <1>2, Zenon DEF Loose, Path, Distinct
<1> HIDE DEF v
<1>9. Path(d, d.left, v)
  <2>1. d.left = v[1] /\ Len(v) # 0
    <3>1. CASE m = 0
      BY <1>3, <1>4, <1>5, <3>1
    <3>2. CASE m # 0
      <4>1. m \in 1..m /\ 1 \in 1..m /\ m + 1 # 0
        BY <3>2
      <4>2. c.right # Null
        BY <1>4, <3>2, <4>1
      <4> QED BY <1>3, <1>5, <1>8, <3>2, <4>1, <4>2
    <3> QED BY <3>1, <3>2
  <2>2. ASSUME NEW k \in 1..m+1
        PROVE  d.node[v[k]].next = IF k < m + 1 THEN v[k+1] ELSE Null
    <3>1. CASE k = m + 1
      <4>1. ~(m # 0 /\ x = u[m])
        BY <1>4
      <4> QED BY <1>5, <1>7, <1>8, <3>1, <4>1
    <3>2. CASE k = m
      <4>1. v[k] = u[m] /\ u[m] \in 1..l /\ m # 0 /\ v[k+1] = x /\ k < m + 1
        BY <1>4, <1>5, <3>2
      <4> QED BY <1>7, <4>1
    <3>3. CASE k < m
      <4>1. k \in 1..m /\ k + 1 \in 1..m /\ m \in 1..m
        BY <3>3
      <4>2. v[k] = u[k] /\ u[k] \in 1..l /\ u[k] # u[m] /\ v[k+1] = u[k+1]
        BY <1>4, <1>5, <1>8, <3>3, <4>1
      <4> QED BY <1>7, <1>8, <3>3, <4>1, <4>2
    <3> QED BY <3>1, <3>2, <3>3
  <2> QED BY <1>5, <2>1, <2>2 DEF Path
<1>10. Path(d, d.freen, f)
  <2>1. \A k \in 1..q : f[k] \in 1..l /\ ~(m # 0 /\ f[k] = u[m])
    BY <1>4, <1>8
  <2>2. \A k \in 1..q : d.node[f[k]].next = IF k < q THEN f[k+1] ELSE Null
    BY <1>7, <1>8, <2>1
  <2> QED BY <1>2, <1>3, <1>8, <2>2 DEF Path
<1>11. Distinct(v) /\ Distinct(f)
  <2>1. ASSUME NEW i \in 1..m+1, NEW j \in 1..m+1, v[i] = v[j] PROVE i = j
    <3>1. (i \in 1..m \/ i = m + 1) /\ (j \in 1..m \/ j = m + 1)
      OBVIOUS
    <3>2. CASE i \in 1..m /\ j \in 1..m
      BY <1>5, <1>8, <2>1, <3>2
    <3>3. CASE i = m + 1 /\ j \in 1..m
      BY <1>4, <1>5, <2>1, <3>3
    <3>4. CASE i \in 1..m /\ j = m + 1
      BY <1>4, <1>5, <2>1, <3>4
    <3> QED BY <3>1, <3>2, <3>3, <3>4
  <2>2. Distinct(f)
    BY DEF Loose
  <2> QED BY <1>5, <2>1, <2>2 DEF Distinct
<1>12. ASSUME NEW i \in 1..m+1, NEW j \in 1..q PROVE v[i] # f[j]
  <2>1. CASE i = m + 1
    <3>1. v[i] = x
      BY <1>5, <2>1
    <3>2. f[j] # x
      BY <1>4
    <3> QED BY <3>1, <3>2, Zenon
  <2>2. CASE i # m + 1
    <3>1. i \in 1..m
      BY <2>2
    <3>2. v[i] = u[i]
      BY <1>5, <3>1
    <3>3. u[i] # f[j]
      BY <1>8, <3>1, Zenon
    <3> QED BY <3>2, <3>3, Zenon
  <2> QED BY <2>1, <2>2
<1>13. \A n \in 1..l : (\E i \in 1..m+1 : v[i] = n) \/ (\E j \in 1..q : f[j] = n)
  <2> TAKE n \in 1..l
  <2>1. n = x \/ (\E i \in 1..m : u[i] = n) \/ (\E j \in 1..q : f[j] = n)
    BY <1>2 DEF Loose
  <2> QED BY <1>5, <2>1
<1>14. \A i \in 1..m+1 : Straight(d.node[v[i]])
  <2> TAKE i \in 1..m+1
  <2>1. Straight(c.node[v[i]]) /\ v[i] \in 1..l
    <3>1. CASE i = m + 1
      BY <1>5, <3>1 DEF Loose
    <3>2. CASE i # m + 1
      <4>1. i \in 1..m
        BY <3>2
      <4> QED BY <1>2, <1>4, <1>5, <4>1 DEF Loose
    <3> QED BY <3>1, <3>2
  <2> QED BY <1>6, <2>1, AlikeBytes
<1>15. d.right = v[m+1] /\ Len(v) + Len(f) = l /\ Len(v) # 0
  BY <1>2, <1>3, <1>5, <1>8
<1>16. Lists(d, v, f)
  BY <1>2, <1>3, <1>5, <1>9, <1>10, <1>11, <1>12, <1>13, <1>14, <1>15 DEF Lists
<1>17. d.node[x] = c.node[x]
  <2>1. m # 0 => m \in 1..m
    OBVIOUS
  <2>2. c.right # x
    BY <1>1, <1>4, <2>1
  <2> QED BY <1>3, <1>5, <2>2
<1> QED BY <1>2, <1>6, <1>16, <1>17 DEF v

\* A node fresh from the allocator is empty and points nowhere.
LEMMA NewNodeType ==
  /\ NewNode \in Node /\ NewNode.next = Null /\ Straight(NewNode)
  /\ NewNode.start = 0 /\ NewNode.end = 0 /\ NewNode.len = 0
  /\ \A data \in [0..NodeLen-1 -> Byte] :
       LET n == [NewNode EXCEPT !.data = data]
       IN  /\ n \in Node /\ n.next = Null /\ Straight(n)
           /\ n.start = 0 /\ n.end = 0 /\ n.len = 0
<1>1. NodeLen \in Nat \ {0} /\ <<>> \in Byte
  BY NodesAssumption DEF Byte
<1>2. [j \in 0..NodeLen-1 |-> <<>>] \in [0..NodeLen-1 -> Byte]
  BY <1>1
<1>3. 0 \in 0..NodeLen-1 /\ 0 \in 0..NodeLen /\ Wrap(0 + 0, NodeLen) = 0 /\ 0 + 0 <= NodeLen
  BY <1>1 DEF Wrap
<1>4. /\ NewNode \in Node /\ NewNode.next = Null
      /\ NewNode.start = 0 /\ NewNode.end = 0 /\ NewNode.len = 0
  BY <1>2, <1>3 DEF NewNode, Node, Null
<1>5. ASSUME NEW data \in [0..NodeLen-1 -> Byte]
      PROVE  LET n == [NewNode EXCEPT !.data = data]
             IN  /\ n \in Node /\ n.next = Null
                 /\ n.start = 0 /\ n.end = 0 /\ n.len = 0
  BY <1>2, <1>3 DEF NewNode, Node, Null
<1> QED BY <1>3, <1>4, <1>5 DEF Straight

\* Hg_SingleNewNode puts an empty node at the right end, a new one or one
\* from the free list.
LEMMA ListsNew ==
  ASSUME NEW c, NEW u, NEW f, Lists(c, u, f), NEW d, d = Hg_SingleNewNode(c)
  PROVE  \E x \in 1..Len(d.node), g \in Seq(1..Len(d.node)) :
           /\ Lists(d, Append(u, x), g)
           /\ d.node[x].start = 0 /\ d.node[x].end = 0 /\ d.node[x].len = 0
           /\ \A k \in 1..Len(u) : Alike(d.node[u[k]], c.node[u[k]])
<1>1. /\ c \in Chain /\ c.node \in Seq(Node) /\ c.freen \in Nat
      /\ u \in Seq(1..Len(c.node)) /\ f \in Seq(1..Len(c.node))
  BY DEF Lists, Chain
<1>2. PICK m \in Nat, q \in Nat, l \in Nat : m = Len(u) /\ q = Len(f) /\ l = Len(c.node)
  BY <1>1
<1>3. /\ \A k \in 1..m : u[k] \in 1..l
      /\ \A k \in 1..q : f[k] \in 1..l
      /\ Null = 0
  BY <1>1, <1>2 DEF Null
<1>4. /\ \A i, j \in 1..m : u[i] = u[j] => i = j
      /\ \A i, j \in 1..q : f[i] = f[j] => i = j
      /\ \A i \in 1..m, j \in 1..q : u[i] # f[j]
      /\ c.left = (IF m = 0 THEN Null ELSE u[1])
      /\ c.right = (IF m = 0 THEN Null ELSE u[m])
      /\ c.freen = (IF q = 0 THEN Null ELSE f[1])
      /\ \A k \in 1..m : c.node[u[k]].next = IF k < m THEN u[k+1] ELSE Null
      /\ \A k \in 1..q : c.node[f[k]].next = IF k < q THEN f[k+1] ELSE Null
      /\ m + q = l
      /\ \A n \in 1..l : (\E i \in 1..m : u[i] = n) \/ (\E j \in 1..q : f[j] = n)
      /\ \A i \in 1..m : Straight(c.node[u[i]])
  BY <1>2, Zenon DEF Lists, Path, Distinct
<1>5. ASSUME NEW b, NEW x, NEW g, Loose(b, u, x, g), d = Hg_SinglePushR(b, x), Len(b.node) \in Nat,
             b.node[x].start = 0, b.node[x].end = 0, b.node[x].len = 0,
             \A k \in 1..m : u[k] \in 1..Len(b.node) /\ b.node[u[k]] = c.node[u[k]]
      PROVE  \E x1 \in 1..Len(d.node), g1 \in Seq(1..Len(d.node)) :
               /\ Lists(d, Append(u, x1), g1)
               /\ d.node[x1].start = 0 /\ d.node[x1].end = 0 /\ d.node[x1].len = 0
               /\ \A k \in 1..m : Alike(d.node[u[k]], c.node[u[k]])
  <2>1. /\ Lists(d, Append(u, x), g) /\ d.node[x] = b.node[x]
        /\ \A k \in 1..Len(b.node) : Alike(d.node[k], b.node[k])
    BY <1>5, ListsPush
  <2>2. g \in Seq(1..Len(d.node)) /\ Append(u, x) \in Seq(1..Len(d.node))
    BY <2>1 DEF Lists
  <2>3. x \in 1..Len(d.node)
    <3>1. Append(u, x)[m+1] = x /\ Len(Append(u, x)) = m + 1
      BY <1>1, <1>2
    <3>2. m + 1 \in 1..Len(Append(u, x))
      BY <3>1
    <3> QED BY <2>2, <3>1, <3>2, ElementOfSeq
  <2>4. \A k \in 1..m : Alike(d.node[u[k]], c.node[u[k]])
    BY <1>5, <2>1
  <2>5. d.node[x].start = 0 /\ d.node[x].end = 0 /\ d.node[x].len = 0
    BY <1>5, <2>1
  <2> QED BY <2>1, <2>2, <2>3, <2>4, <2>5
<1>6. CASE c.freen = Null
  <2> DEFINE b == [c EXCEPT !.node = Append(@, NewNode)]
  <2>1. d = Hg_SinglePushR(b, l + 1)
    BY <1>2, <1>6 DEF Hg_SingleNewNode
  <2>2. /\ b \in Chain /\ b.left = c.left /\ b.right = c.right /\ b.freen = c.freen
        /\ b.node = Append(c.node, NewNode)
    <3>1. PICK s \in Seq(Node) : s = Append(c.node, NewNode)
      <4>1. NewNode \in Node
        BY NewNodeType
      <4>2. Append(c.node, NewNode) \in Seq(Node)
        BY <1>1, <4>1, AppendProperties, Zenon
      <4> QED BY <4>2
    <3>2. b = [c EXCEPT !.node = s]
      BY <3>1
    <3> HIDE DEF b
    <3> QED BY <1>1, <3>1, <3>2 DEF Chain
  <2> HIDE DEF b
  <2>3. /\ Len(b.node) = l + 1 /\ b.node[l+1] = NewNode
        /\ \A k \in 1..l : b.node[k] = c.node[k]
    BY <1>1, <1>2, <2>2, NewNodeType
  <2>4. q = 0
    <3>1. q # 0 => 1 \in 1..q
      OBVIOUS
    <3> QED BY <1>3, <1>4, <1>6, <3>1
  <2>5. u \in Seq(1..l+1) /\ f \in Seq(1..l+1)
    BY <1>1, <1>2
  <2>6. \A k \in 1..m : u[k] \in 1..l /\ u[k] \in 1..Len(b.node) /\ b.node[u[k]] = c.node[u[k]]
    BY <1>3, <2>3
  <2>7. Path(b, b.left, u) /\ Path(b, b.freen, f)
    <3>1. \A k \in 1..m : b.node[u[k]].next = IF k < m THEN u[k+1] ELSE Null
      BY <1>4, <2>6
    <3>2. b.left = (IF m = 0 THEN Null ELSE u[1]) /\ b.freen = Null
      BY <1>4, <1>6, <2>2
    <3>3. \A k \in 1..Len(f) : FALSE
      BY <1>2, <2>4
    <3> QED BY <1>2, <2>4, <3>1, <3>2, <3>3 DEF Path
  <2>8. \A n \in 1..l+1 : n = l + 1 \/ (\E i \in 1..m : u[i] = n) \/ (\E j \in 1..q : f[j] = n)
    <3> TAKE n \in 1..l+1
    <3>1. CASE n # l + 1
      <4>1. n \in 1..l
        BY <3>1
      <4> QED BY <1>4, <4>1
    <3> QED BY <3>1
  <2>9. Distinct(u) /\ Distinct(f)
    BY DEF Lists
  <2>10. (\A i \in 1..m : u[i] # l + 1) /\ (\A j \in 1..q : f[j] # l + 1)
    BY <1>3
  <2>11. \A i \in 1..m : Straight(b.node[u[i]])
    BY <1>4, <2>6
  <2>12. b.right = (IF m = 0 THEN Null ELSE u[m]) /\ m + 1 + q = l + 1 /\ l + 1 \in 1..l+1
    BY <1>4, <2>2
  <2>13. Loose(b, u, l + 1, f)
    BY <1>2, <1>4, <2>2, <2>3, <2>5, <2>7, <2>8, <2>9, <2>10, <2>11, <2>12, NewNodeType DEF Loose
  <2>14. \A k \in 1..m : u[k] \in 1..Len(b.node) /\ b.node[u[k]] = c.node[u[k]]
    BY <2>6
  <2>15. b.node[l+1].start = 0 /\ b.node[l+1].end = 0 /\ b.node[l+1].len = 0 /\ Len(b.node) \in Nat
    BY <2>3, NewNodeType
  <2> QED BY <1>2, <1>5, <2>1, <2>13, <2>14, <2>15
<1>7. CASE c.freen # Null
  <2>1. q # 0 /\ c.freen = f[1] /\ 1 \in 1..q /\ f[1] \in 1..l
    <3>1. q # 0 => 1 \in 1..q
      OBVIOUS
    <3> QED BY <1>3, <1>4, <1>7, <3>1
  <2>2. PICK x \in 1..l : x = f[1] /\ x = c.freen
    BY <2>1
  <2>3. c.node[x] \in Node /\ c.node[x].data \in [0..NodeLen-1 -> Byte] /\ c.node[x].next \in Nat
    <3>1. c.node[x] \in Node
      BY <1>1, <1>2
    <3> QED BY <3>1 DEF Node
  <2> DEFINE n0 == [NewNode EXCEPT !.data = c.node[x].data]
             b  == [c EXCEPT !.freen = c.node[x].next, !.node[x] = n0]
  <2>4. d = Hg_SinglePushR(b, x)
    BY <1>7, <2>2 DEF Hg_SingleNewNode
  <2>5. /\ n0 \in Node /\ n0.next = Null /\ Straight(n0)
        /\ n0.start = 0 /\ n0.end = 0 /\ n0.len = 0
    BY <2>3, NewNodeType
  <2> HIDE DEF n0
  <2>6. b.node = [c.node EXCEPT ![x] = n0]
    BY <1>1 DEF Chain
  <2>7. /\ b.node \in Seq(Node) /\ Len(b.node) = l /\ b.node[x] = n0
        /\ \A k \in 1..l : k # x => b.node[k] = c.node[k]
    BY <1>1, <1>2, <2>5, <2>6
  <2>8. b = [c EXCEPT !.freen = c.node[x].next, !.node = [c.node EXCEPT ![x] = n0]]
    BY <1>1 DEF Chain
  <2>9. b \in Chain /\ b.left = c.left /\ b.right = c.right /\ b.freen = c.node[x].next
    BY <1>1, <2>3, <2>6, <2>7, <2>8 DEF Chain
  <2> HIDE DEF b
  <2> DEFINE g == Tail(f)
  <2>10. g \in Seq(1..l) /\ Len(g) = q - 1 /\ \A k \in 1..q-1 : g[k] = f[k+1]
    BY <1>1, <1>2, <2>1
  <2> HIDE DEF g
  <2>11. \A k \in 1..m : u[k] \in 1..l /\ u[k] # x /\ b.node[u[k]] = c.node[u[k]]
    BY <1>3, <1>4, <2>1, <2>2, <2>7
  <2>12. \A k \in 1..q-1 : g[k] = f[k+1] /\ k + 1 \in 1..q /\ f[k+1] # x /\ b.node[g[k]] = c.node[g[k]]
    <3> TAKE k \in 1..q-1
    <3>1. k + 1 \in 1..q /\ k + 1 # 1 /\ 1 \in 1..q
      BY <2>1
    <3>2. f[k+1] # x
      BY <1>4, <2>2, <3>1
    <3>3. g[k] = f[k+1]
      BY <2>10
    <3>4. f[k+1] \in 1..l
      BY <1>3, <3>1
    <3>5. b.node[f[k+1]] = c.node[f[k+1]]
      BY <2>7, <3>2, <3>4
    <3> QED BY <3>1, <3>2, <3>3, <3>5
  <2>13. Path(b, b.left, u)
    <3>1. \A k \in 1..m : b.node[u[k]].next = IF k < m THEN u[k+1] ELSE Null
      BY <1>4, <2>11
    <3>2. b.left = (IF m = 0 THEN Null ELSE u[1])
      BY <1>4, <2>9
    <3> QED BY <1>2, <3>1, <3>2 DEF Path
  <2>14. Path(b, b.freen, g)
    <3>1. b.freen = IF q - 1 = 0 THEN Null ELSE g[1]
      <4>1. c.node[f[1]].next = IF 1 < q THEN f[1+1] ELSE Null
        BY <1>4, <2>1
      <4>2. q - 1 # 0 => 1 \in 1..q-1 /\ 1 < q
        BY <2>1
      <4>3. q - 1 = 0 => ~(1 < q)
        OBVIOUS
      <4> QED BY <2>2, <2>9, <2>10, <4>1, <4>2, <4>3
    <3>2. ASSUME NEW k \in 1..q-1
          PROVE  b.node[g[k]].next = IF k < q - 1 THEN g[k+1] ELSE Null
      <4>1. c.node[f[k+1]].next = IF k + 1 < q THEN f[(k+1)+1] ELSE Null
        BY <1>4, <2>12
      <4>2. k < q - 1 => k + 1 \in 1..q-1
        OBVIOUS
      <4>3. k < q - 1 <=> k + 1 < q
        OBVIOUS
      <4> QED BY <2>10, <2>12, <4>1, <4>2, <4>3
    <3> QED BY <2>10, <3>1, <3>2 DEF Path
  <2>15. Distinct(u) /\ Distinct(g)
    <3>1. ASSUME NEW i \in 1..q-1, NEW j \in 1..q-1, g[i] = g[j] PROVE i = j
      <4>1. i + 1 = j + 1
        BY <1>4, <2>12, <3>1
      <4> QED BY <4>1
    <3> QED BY <2>10, <3>1 DEF Distinct, Lists
  <2>16. \A i \in 1..m, j \in 1..q-1 : u[i] # g[j]
    BY <1>4, <2>12
  <2>17. (\A i \in 1..m : u[i] # x) /\ (\A j \in 1..q-1 : g[j] # x)
    BY <2>11, <2>12
  <2>18. \A n \in 1..l : n = x \/ (\E i \in 1..m : u[i] = n) \/ (\E j \in 1..q-1 : g[j] = n)
    <3> TAKE n \in 1..l
    <3>1. ASSUME NEW j \in 1..q, f[j] = n, n # x PROVE \E k \in 1..q-1 : g[k] = n
      <4>1. j # 1
        BY <2>2, <3>1
      <4>2. j - 1 \in 1..q-1 /\ (j - 1) + 1 = j
        BY <4>1
      <4>3. g[j-1] = n
        BY <2>10, <3>1, <4>2
      <4> QED BY <4>2, <4>3
    <3> QED BY <1>4, <3>1
  <2>19. \A i \in 1..m : Straight(b.node[u[i]])
    BY <1>4, <2>11
  <2>20. b.right = (IF m = 0 THEN Null ELSE u[m]) /\ m + 1 + (q - 1) = l
    BY <1>4, <2>9
  <2>21. Loose(b, u, x, g)
    BY <1>1, <1>2, <2>5, <2>7, <2>9, <2>10, <2>13, <2>14, <2>15, <2>16, <2>17, <2>18, <2>19, <2>20 DEF Loose
  <2> QED BY <1>2, <1>5, <2>4, <2>5, <2>7, <2>11, <2>21
<1> QED BY <1>6, <1>7

\* Hg_SingleDelchainL moves the leftmost node to the free list.
LEMMA ListsDelchain ==
  ASSUME NEW c, NEW u, NEW f, Lists(c, u, f), Len(u) # 0, NEW d, d = Hg_SingleDelchainL(c)
  PROVE  /\ Lists(d, Tail(u), <<u[1]>> \o f)
         /\ \A k \in 1..Len(c.node) : Alike(d.node[k], c.node[k])
<1> DEFINE v == Tail(u)
           g == <<u[1]>> \o f
<1>1. /\ c \in Chain /\ c.node \in Seq(Node) /\ c.freen \in Nat
      /\ u \in Seq(1..Len(c.node)) /\ f \in Seq(1..Len(c.node))
  BY DEF Lists, Chain
<1>2. PICK m \in Nat, q \in Nat, l \in Nat : m = Len(u) /\ q = Len(f) /\ l = Len(c.node) /\ m # 0
  BY <1>1
<1>3. /\ \A k \in 1..m : u[k] \in 1..l
      /\ \A k \in 1..q : f[k] \in 1..l
      /\ Null = 0 /\ 1 \in 1..m /\ m \in 1..m
  BY SMTT(30), <1>1, <1>2 DEF Null
<1>4. /\ \A i, j \in 1..m : u[i] = u[j] => i = j
      /\ \A i, j \in 1..q : f[i] = f[j] => i = j
      /\ \A i \in 1..m, j \in 1..q : u[i] # f[j]
      /\ c.left = (IF m = 0 THEN Null ELSE u[1])
      /\ c.right = (IF m = 0 THEN Null ELSE u[m])
      /\ c.freen = (IF q = 0 THEN Null ELSE f[1])
      /\ \A k \in 1..m : c.node[u[k]].next = IF k < m THEN u[k+1] ELSE Null
      /\ \A k \in 1..q : c.node[f[k]].next = IF k < q THEN f[k+1] ELSE Null
      /\ m + q = l
      /\ \A n \in 1..l : (\E i \in 1..m : u[i] = n) \/ (\E j \in 1..q : f[j] = n)
      /\ \A i \in 1..m : Straight(c.node[u[i]])
  BY <1>2, Zenon DEF Lists, Path, Distinct
<1>5. c.left = u[1] /\ c.left \in 1..l /\ c.right = u[m]
  BY <1>2, <1>3, <1>4
<1>6. /\ d \in Chain /\ d.left = c.node[c.left].next
      /\ d.right = (IF c.node[c.left].next = Null THEN Null ELSE c.right)
      /\ d.freen = c.left /\ Len(d.node) = l
      /\ \A k \in 1..l : d.node[k] =
           IF k = c.left THEN [c.node[k] EXCEPT !.next = c.freen] ELSE c.node[k]
  <2>1. c.left \in 1..Len(c.node)
    BY <1>2, <1>5
  <2> QED BY <1>1, <1>2, <2>1, DelchainFields
<1>7. /\ v \in Seq(1..l) /\ Len(v) = m - 1 /\ \A k \in 1..m-1 : v[k] = u[k+1]
      /\ g \in Seq(1..l) /\ Len(g) = q + 1 /\ g[1] = u[1] /\ \A k \in 2..q+1 : g[k] = f[k-1]
  <2>1. v \in Seq(1..l) /\ Len(v) = m - 1 /\ \A k \in 1..m-1 : v[k] = u[k+1]
    BY <1>1, <1>2
  <2>2. <<u[1]>> \in Seq(1..l) /\ Len(<<u[1]>>) = 1 /\ <<u[1]>>[1] = u[1] /\ f \in Seq(1..l)
    BY <1>1, <1>2, <1>3
  <2>3. /\ g \in Seq(1..l) /\ Len(g) = 1 + q
        /\ \A i \in 1..1+q : g[i] = IF i <= 1 THEN <<u[1]>>[i] ELSE f[i-1]
    BY <1>2, <2>2, ConcatProperties
  <2> HIDE DEF g, v
  <2>4. 1 \in 1..1+q /\ g[1] = u[1] /\ Len(g) = q + 1
    BY <2>2, <2>3
  <2>5. ASSUME NEW k \in 2..q+1 PROVE g[k] = f[k-1]
    <3>1. k \in 1..1+q /\ ~(k <= 1)
      OBVIOUS
    <3> QED BY <2>3, <3>1
  <2> QED BY <2>1, <2>3, <2>4, <2>5
<1> HIDE DEF g, v
<1>8. \A k \in 1..l : Alike(d.node[k], c.node[k])
  <2> TAKE k \in 1..l
  <2>1. c.node[k] \in Node
    BY <1>1, <1>2
  <2>2. Alike(c.node[k], c.node[k])
    BY DEF Alike
  <2>3. Alike([c.node[k] EXCEPT !.next = c.freen], c.node[k])
    BY <1>1, <2>1, AlikeNext
  <2> QED BY <1>6, <2>2, <2>3
<1>9. \A k \in 1..l : d.node[k].next = IF k = u[1] THEN c.freen ELSE c.node[k].next
  <2> TAKE k \in 1..l
  <2>1. c.node[k] \in Node
    BY <1>1, <1>2
  <2>2. [c.node[k] EXCEPT !.next = c.freen].next = c.freen
    BY <1>1, <2>1, AlikeNext
  <2>3. CASE k = u[1]
    <3>1. d.node[k] = [c.node[k] EXCEPT !.next = c.freen]
      BY <1>5, <1>6, <2>3
    <3> QED BY <2>2, <2>3, <3>1
  <2>4. CASE k # u[1]
    <3>1. d.node[k] = c.node[k]
      BY <1>5, <1>6, <2>4
    <3> QED BY <2>4, <3>1
  <2> QED BY <2>3, <2>4
<1>10. c.node[u[1]].next = IF 1 < m THEN u[2] ELSE Null
  <2>1. 1 + 1 = 2
    OBVIOUS
  <2> QED BY <1>3, <1>4, <2>1
<1>11. ASSUME NEW k \in 1..m-1
       PROVE  k + 1 \in 1..m /\ v[k] = u[k+1] /\ u[k+1] \in 1..l /\ u[k+1] # u[1]
  <2>1. k + 1 \in 1..m /\ k + 1 # 1
    OBVIOUS
  <2> QED BY <1>3, <1>4, <1>7, <2>1
<1>12. Path(d, d.left, v)
  <2>1. d.left = IF m - 1 = 0 THEN Null ELSE v[1]
    <3>1. CASE m = 1
      BY <1>5, <1>6, <1>10, <3>1
    <3>2. CASE m # 1
      <4>1. 1 \in 1..m-1 /\ 1 < m /\ m - 1 # 0 /\ 1 + 1 = 2
        BY <1>2, <3>2
      <4> QED BY SMTT(30), <1>5, <1>6, <1>7, <1>10, <4>1
    <3> QED BY <3>1, <3>2
  <2>2. ASSUME NEW k \in 1..m-1
        PROVE  d.node[v[k]].next = IF k < m - 1 THEN v[k+1] ELSE Null
    <3>1. c.node[u[k+1]].next = IF k + 1 < m THEN u[(k+1)+1] ELSE Null
      BY <1>4, <1>11
    <3>2. d.node[v[k]].next = c.node[u[k+1]].next
      BY <1>9, <1>11
    <3>3. k < m - 1 => k + 1 \in 1..m-1
      OBVIOUS
    <3>4. k < m - 1 <=> k + 1 < m
      OBVIOUS
    <3> QED BY <1>7, <3>1, <3>2, <3>3, <3>4
  <2> QED BY <1>7, <2>1, <2>2 DEF Path
<1>13. Path(d, d.freen, g)
  <2>1. d.freen = g[1] /\ q + 1 # 0
    BY <1>5, <1>6, <1>7
  <2>2. ASSUME NEW k \in 1..q+1
        PROVE  d.node[g[k]].next = IF k < q + 1 THEN g[k+1] ELSE Null
    <3>1. CASE k = 1
      <4>1. d.node[g[k]].next = c.freen
        BY <1>3, <1>7, <1>9, <3>1
      <4>2. q # 0 => 2 \in 2..q+1 /\ 2 - 1 = 1 /\ 1 < q + 1 /\ 1 + 1 = 2
        OBVIOUS
      <4> QED BY <1>4, <1>7, <3>1, <4>1, <4>2
    <3>2. CASE k # 1
      <4>1. k \in 2..q+1 /\ k - 1 \in 1..q /\ (k - 1) + 1 = k
        BY <3>2
      <4>2. g[k] = f[k-1] /\ f[k-1] \in 1..l /\ f[k-1] # u[1]
        BY <1>3, <1>4, <1>7, <4>1
      <4>3. d.node[g[k]].next = c.node[f[k-1]].next
        BY <1>9, <4>2
      <4>4. c.node[f[k-1]].next = IF k - 1 < q THEN f[k] ELSE Null
        BY <1>4, <4>1
      <4>5. k < q + 1 => k + 1 \in 2..q+1 /\ (k + 1) - 1 = k /\ k - 1 < q
        OBVIOUS
      <4>6. ~(k < q + 1) => ~(k - 1 < q)
        OBVIOUS
      <4> QED BY <1>7, <4>3, <4>4, <4>5, <4>6
    <3> QED BY <3>1, <3>2
  <2> QED BY <1>7, <2>1, <2>2 DEF Path
<1>14. Distinct(v)
  <2>1. ASSUME NEW i \in 1..m-1, NEW j \in 1..m-1, v[i] = v[j] PROVE i = j
    <3>1. i + 1 = j + 1
      BY <1>4, <1>11, <2>1
    <3> QED BY <3>1
  <2> QED BY <1>7, <2>1 DEF Distinct
<1>15. ASSUME NEW k \in 2..q+1
       PROVE  k - 1 \in 1..q /\ g[k] = f[k-1] /\ g[k] # u[1]
  <2>1. k - 1 \in 1..q
    OBVIOUS
  <2> QED BY <1>3, <1>4, <1>7, <2>1
<1>16. Distinct(g)
  <2>1. ASSUME NEW i \in 1..q+1, NEW j \in 1..q+1, g[i] = g[j] PROVE i = j
    <3>1. (i = 1 \/ i \in 2..q+1) /\ (j = 1 \/ j \in 2..q+1)
      OBVIOUS
    <3>2. CASE i \in 2..q+1 /\ j \in 2..q+1
      <4>1. i - 1 = j - 1
        BY <1>4, <1>15, <2>1, <3>2
      <4> QED BY <4>1
    <3>3. CASE i = 1 /\ j \in 2..q+1
      BY <1>7, <1>15, <2>1, <3>3
    <3>4. CASE i \in 2..q+1 /\ j = 1
      BY <1>7, <1>15, <2>1, <3>4
    <3> QED BY <3>1, <3>2, <3>3, <3>4
  <2> QED BY <1>7, <2>1 DEF Distinct
<1>17. ASSUME NEW i \in 1..m-1, NEW j \in 1..q+1 PROVE v[i] # g[j]
  <2>1. CASE j = 1
    BY <1>7, <1>11, <2>1
  <2>2. CASE j # 1
    <3>1. j \in 2..q+1
      BY <2>2
    <3> QED BY <1>4, <1>11, <1>15, <3>1
  <2> QED BY <2>1, <2>2
<1>18. \A n \in 1..l : (\E i \in 1..m-1 : v[i] = n) \/ (\E j \in 1..q+1 : g[j] = n)
  <2> TAKE n \in 1..l
  <2>1. ASSUME NEW i \in 1..m, u[i] = n PROVE (\E k \in 1..m-1 : v[k] = n) \/ (\E j \in 1..q+1 : g[j] = n)
    <3>1. CASE i = 1
      <4>1. 1 \in 1..q+1 /\ g[1] = n
        BY <1>7, <2>1, <3>1
      <4> QED BY <4>1
    <3>2. CASE i # 1
      <4>1. i - 1 \in 1..m-1 /\ (i - 1) + 1 = i
        BY <3>2
      <4>2. v[i-1] = n
        BY <1>7, <2>1, <4>1
      <4> QED BY <4>1, <4>2
    <3> QED BY <3>1, <3>2
  <2>2. ASSUME NEW j \in 1..q, f[j] = n PROVE \E k \in 1..q+1 : g[k] = n
    <3>1. j + 1 \in 2..q+1 /\ j + 1 \in 1..q+1 /\ (j + 1) - 1 = j
      OBVIOUS
    <3>2. g[j+1] = n
      BY <1>7, <2>2, <3>1
    <3> QED BY <3>1, <3>2
  <2> QED BY <1>4, <2>1, <2>2
<1>19. \A i \in 1..m-1 : Straight(d.node[v[i]])
  <2> TAKE i \in 1..m-1
  <2>1. Straight(c.node[v[i]]) /\ v[i] \in 1..l
    BY <1>4, <1>11
  <2> QED BY <1>8, <2>1, AlikeBytes
<1>20. d.right = IF m - 1 = 0 THEN Null ELSE v[m-1]
  <2>1. CASE m = 1
    BY <1>5, <1>6, <1>10, <2>1
  <2>2. CASE m # 1
    <3>1. m - 1 \in 1..m-1 /\ (m - 1) + 1 = m /\ 1 < m /\ m - 1 # 0 /\ 2 \in 1..m
      BY <1>2, <2>2
    <3>2. u[2] # Null
      BY <1>3, <3>1
    <3> QED BY <1>5, <1>6, <1>7, <1>10, <3>1, <3>2
  <2> QED BY <2>1, <2>2
<1>21. (m - 1) + (q + 1) = l
  BY <1>4
<1>22. Lists(d, v, g)
  BY <1>6, <1>7, <1>12, <1>13, <1>14, <1>16, <1>17, <1>18, <1>19, <1>20, <1>21 DEF Lists
<1> QED BY <1>2, <1>8, <1>22 DEF v, g

\* The bytes of a node of the chain are bytes.
LEMMA NodeBytes ==
  ASSUME NEW node \in Node, Straight(node)
  PROVE  /\ Bytes(node) \in Seq(Byte) /\ Len(Bytes(node)) = node.len
         /\ \A i \in 1..node.len : Bytes(node)[i] = node.data[node.start + i - 1]
<1>1. /\ node.data \in [0..NodeLen-1 -> Byte] /\ node.start \in 0..NodeLen-1
      /\ node.len \in 0..NodeLen /\ node.start + node.len <= NodeLen /\ NodeLen \in Nat
  BY NodesAssumption DEF Node, Straight
<1>2. PICK l \in Nat, s \in Nat : l = node.len /\ s = node.start /\ s + l <= NodeLen
  BY <1>1
<1>3. \A i \in 1..l : s + i - 1 \in 0..NodeLen-1
  BY <1>1, <1>2
<1>4. \A i \in 1..l : node.data[s + i - 1] \in Byte
  BY <1>1, <1>3
<1>5. Bytes(node) = [i \in 1..l |-> node.data[s + i - 1]]
  BY <1>2 DEF Bytes
<1>6. Bytes(node) \in [1..l -> Byte]
  BY <1>4, <1>5
<1>7. Bytes(node) \in Seq(Byte) /\ Len(Bytes(node)) = l
  BY <1>2, <1>6
<1> QED BY <1>2, <1>5, <1>7

\* Every node in use is straight and has bytes.
LEMMA ListsBytes ==
  ASSUME NEW c, NEW u, NEW f, Lists(c, u, f), NEW i \in 1..Len(u)
  PROVE  /\ u[i] \in 1..Len(c.node) /\ c.node[u[i]] \in Node
         /\ Straight(c.node[u[i]]) /\ Bytes(c.node[u[i]]) \in Seq(Byte)
<1>1. c.node \in Seq(Node) /\ u \in Seq(1..Len(c.node))
  BY DEF Lists, Chain
<1>2. u[i] \in 1..Len(c.node) /\ c.node[u[i]] \in Node
  BY <1>1
<1>3. Straight(c.node[u[i]])
  BY DEF Lists
<1> QED BY <1>2, <1>3, NodeBytes

\* Lists of nodes with the same bytes have the same bytes.
SameBytes(c, s, d, t, m) == \A k \in 1..m : Bytes(c.node[s[k]]) = Bytes(d.node[t[k]])

\* by induction on the number of nodes.
LEMMA ContentSame ==
  ASSUME NEW c, NEW s, Len(s) \in Nat, NEW d, NEW t, Len(t) \in Nat,
         NEW m \in Nat, m <= Len(s), m <= Len(t), SameBytes(c, s, d, t, m)
  PROVE  ContentTo(c, s)[m] = ContentTo(d, t)[m]
<1> DEFINE S == {k \in Nat : k <= m => ContentTo(c, s)[k] = ContentTo(d, t)[k]}
<1>1. /\ ContentTo(c, s)[0] = <<>> /\ ContentTo(d, t)[0] = <<>>
      /\ \A k \in 1..Len(s) : ContentTo(c, s)[k] = ContentTo(c, s)[k-1] \o Bytes(c.node[s[k]])
      /\ \A k \in 1..Len(t) : ContentTo(d, t)[k] = ContentTo(d, t)[k-1] \o Bytes(d.node[t[k]])
  <2>1. Grows(c, s, ContentTo(c, s)) /\ Grows(d, t, ContentTo(d, t))
    BY ContentToDef
  <2> QED BY <2>1 DEF Grows
<1>2. 0 \in S
  BY <1>1
<1>3. ASSUME NEW k \in S PROVE k + 1 \in S
  <2>1. SUFFICES ASSUME k + 1 <= m PROVE ContentTo(c, s)[k+1] = ContentTo(d, t)[k+1]
    OBVIOUS
  <2>2. k + 1 \in 1..m /\ k + 1 \in 1..Len(s) /\ k + 1 \in 1..Len(t) /\ (k + 1) - 1 = k /\ k <= m
    BY <2>1
  <2>3. ContentTo(c, s)[k] = ContentTo(d, t)[k]
    BY <2>2
  <2> HIDE DEF S
  <2>4. ContentTo(c, s)[k+1] = ContentTo(c, s)[(k+1)-1] \o Bytes(c.node[s[k+1]])
    BY <1>1, <2>2, Zenon
  <2>5. ContentTo(d, t)[k+1] = ContentTo(d, t)[(k+1)-1] \o Bytes(d.node[t[k+1]])
    BY <1>1, <2>2, Zenon
  <2> QED BY <2>2, <2>3, <2>4, <2>5 DEF SameBytes
<1>4. S = Nat
  <2>1. S \in SUBSET Nat
    OBVIOUS
  <2> HIDE DEF S
  <2> QED BY <1>2, <1>3, <2>1, AllNumbers
<1> QED BY <1>4

\* The same for one list in two chains.
LEMMA SameContent ==
  ASSUME NEW c, NEW d, NEW v, Len(v) \in Nat, SameBytes(d, v, c, v, Len(v))
  PROVE  Content(d, v) = Content(c, v)
<1>1. PICK m \in Nat : m = Len(v) /\ m <= Len(v)
  OBVIOUS
<1>2. SameBytes(d, v, c, v, m)
  BY <1>1
<1>3. ContentTo(d, v)[m] = ContentTo(c, v)[m]
  BY <1>1, <1>2, ContentSame
<1> QED BY <1>1, <1>3 DEF Content

\* The bytes of a list of nodes are a sequence of bytes.
LEMMA ContentType ==
  ASSUME NEW c, NEW s, Len(s) \in Nat,
         \A k \in 1..Len(s) : Bytes(c.node[s[k]]) \in Seq(Byte)
  PROVE  \A k \in 0..Len(s) : ContentTo(c, s)[k] \in Seq(Byte)
<1> DEFINE S == {k \in Nat : k <= Len(s) => ContentTo(c, s)[k] \in Seq(Byte)}
<1>1. /\ ContentTo(c, s)[0] = <<>>
      /\ \A k \in 1..Len(s) : ContentTo(c, s)[k] = ContentTo(c, s)[k-1] \o Bytes(c.node[s[k]])
  <2>1. Grows(c, s, ContentTo(c, s))
    BY ContentToDef
  <2> QED BY <2>1 DEF Grows
<1>2. 0 \in S
  <2>1. <<>> \in Seq(Byte)
    BY EmptySeq
  <2> QED BY <1>1, <2>1
<1>3. ASSUME NEW k \in S PROVE k + 1 \in S
  <2>1. SUFFICES ASSUME k + 1 <= Len(s) PROVE ContentTo(c, s)[k+1] \in Seq(Byte)
    OBVIOUS
  <2>2. k + 1 \in 1..Len(s) /\ (k + 1) - 1 = k /\ k <= Len(s)
    BY <2>1
  <2>3. ContentTo(c, s)[k] \in Seq(Byte)
    BY <2>2
  <2> HIDE DEF S
  <2>4. ContentTo(c, s)[k+1] = ContentTo(c, s)[(k+1)-1] \o Bytes(c.node[s[k+1]])
    BY <1>1, <2>2, Zenon
  <2> QED BY <2>2, <2>3, <2>4, ConcatProperties
<1>4. S = Nat
  <2>1. S \in SUBSET Nat
    OBVIOUS
  <2> HIDE DEF S
  <2> QED BY <1>2, <1>3, <2>1, AllNumbers
<1> QED BY <1>4

\* The first node's bytes come first.
LEMMA ContentHead ==
  ASSUME NEW c, NEW N, NEW s \in Seq(N), Len(s) # 0,
         \A k \in 1..Len(s) : Bytes(c.node[s[k]]) \in Seq(Byte)
  PROVE  Content(c, s) = Bytes(c.node[s[1]]) \o Content(c, Tail(s))
<1> DEFINE t == Tail(s)
<1>1. PICK m \in Nat : m = Len(s) /\ m # 0
  OBVIOUS
<1>2. Len(t) = m - 1 /\ \A k \in 1..m-1 : t[k] = s[k+1]
  BY <1>1
<1> HIDE DEF t
<1>3. PICK B \in Seq(Byte) : B = Bytes(c.node[s[1]])
  BY <1>1
<1>4. /\ ContentTo(c, s)[0] = <<>>
      /\ \A k \in 1..m : ContentTo(c, s)[k] = ContentTo(c, s)[k-1] \o Bytes(c.node[s[k]])
  <2>1. Grows(c, s, ContentTo(c, s))
    BY ContentToDef
  <2> QED BY <1>1, <2>1 DEF Grows
<1>5. /\ ContentTo(c, t)[0] = <<>>
      /\ \A k \in 1..m-1 : ContentTo(c, t)[k] = ContentTo(c, t)[k-1] \o Bytes(c.node[s[k+1]])
  <2>1. Len(t) \in Nat
    BY <1>1, <1>2
  <2>2. Grows(c, t, ContentTo(c, t))
    BY <2>1, ContentToDef
  <2> QED BY <1>2, <2>1, <2>2 DEF Grows
<1>6. \A k \in 0..m-1 : ContentTo(c, t)[k] \in Seq(Byte)
  <2>1. \A k \in 1..Len(t) : Bytes(c.node[t[k]]) \in Seq(Byte)
    BY <1>1, <1>2
  <2>2. Len(t) \in Nat
    BY <1>1, <1>2
  <2>3. \A k \in 0..Len(t) : ContentTo(c, t)[k] \in Seq(Byte)
    BY <2>1, <2>2, ContentType, Zenon
  <2> QED BY <1>2, <2>3
<1> DEFINE S == {k \in Nat : k <= m - 1 => ContentTo(c, s)[k+1] = B \o ContentTo(c, t)[k]}
<1>7. 0 \in S
  <2>1. ContentTo(c, s)[1] = <<>> \o B
    <3>1. 1 \in 1..m /\ 1 - 1 = 0
      BY <1>1
    <3> QED BY <1>3, <1>4, <3>1
  <2>2. <<>> \o B = B /\ B \o <<>> = B
    BY ConcatEmptySeq
  <2> QED BY <1>5, <2>1, <2>2
<1>8. ASSUME NEW k \in S PROVE k + 1 \in S
  <2>1. SUFFICES ASSUME k + 1 <= m - 1
                 PROVE  ContentTo(c, s)[(k+1)+1] = B \o ContentTo(c, t)[k+1]
    OBVIOUS
  <2>2. /\ k + 1 \in 1..m-1 /\ (k + 1) - 1 = k /\ k \in 0..m-1
        /\ (k + 1) + 1 \in 1..m /\ ((k + 1) + 1) - 1 = k + 1
    BY <2>1
  <2>3. ContentTo(c, s)[k+1] = B \o ContentTo(c, t)[k]
    BY <2>2
  <2> HIDE DEF S
  <2>4. PICK C \in Seq(Byte) : C = ContentTo(c, t)[k]
    BY <1>6, <2>2
  <2>5. PICK D \in Seq(Byte) : D = Bytes(c.node[s[(k+1)+1]])
    BY <1>1, <2>2
  <2>6. ContentTo(c, s)[(k+1)+1] = (B \o C) \o D
    BY <1>4, <2>2, <2>3, <2>4, <2>5
  <2>7. ContentTo(c, t)[k+1] = C \o D
    BY <1>5, <2>2, <2>4, <2>5
  <2> QED BY <2>6, <2>7, ConcatAssociative
<1>9. S = Nat
  <2>1. S \in SUBSET Nat
    OBVIOUS
  <2> HIDE DEF S
  <2> QED BY <1>7, <1>8, <2>1, AllNumbers
<1>10. m - 1 \in Nat /\ (m - 1) + 1 = m
  BY <1>1
<1>11. ContentTo(c, s)[m] = B \o ContentTo(c, t)[m-1]
  <2>1. m - 1 \in S
    <3> HIDE DEF S
    <3> QED BY <1>9, <1>10
  <2> QED BY <1>10, <2>1
<1> QED BY <1>1, <1>2, <1>3, <1>11 DEF Content, t

\* The last node's bytes come last.
LEMMA ContentLast ==
  ASSUME NEW c, NEW s, Len(s) \in Nat \ {0}
  PROVE  Content(c, s) = ContentTo(c, s)[Len(s)-1] \o Bytes(c.node[s[Len(s)]])
<1>1. Len(s) \in 1..Len(s)
  OBVIOUS
<1>2. Grows(c, s, ContentTo(c, s))
  BY ContentToDef
<1> QED BY <1>1, <1>2 DEF Content, Grows

\* A copy to the end of a node's bytes, which fits, puts them behind these.
LEMMA FillNode ==
  ASSUME NEW node \in Node, Straight(node), NEW rest \in Seq(Byte),
         NEW n \in Nat \ {0}, n <= Len(rest), n <= NodeLen - node.len - node.start,
         NEW m, m = Filled(node, rest, n)
  PROVE  /\ m \in Node /\ m.next = node.next /\ Straight(m)
         /\ Bytes(m) = Bytes(node) \o SubSeq(rest, 1, n)
<1>1. PICK l \in Nat, s \in Nat : l = node.len /\ s = node.start
  BY DEF Node
<1>2. /\ node.data \in [0..NodeLen-1 -> Byte] /\ NodeLen \in Nat \ {0}
      /\ l + s + n <= NodeLen /\ node.end = s + l /\ node.next \in Nat
  <2>1. /\ node.data \in [0..NodeLen-1 -> Byte] /\ NodeLen \in Nat \ {0}
        /\ l + s + n <= NodeLen /\ node.next \in Nat
    BY <1>1, NodesAssumption DEF Node
  <2>2. node.end = Wrap(s + l, NodeLen)
    BY <1>1 DEF Straight
  <2> QED BY <2>1, <2>2 DEF Wrap
<1> DEFINE D == Memcpy(node.data, s + l, rest, 0, n)
           e == Wrap(s + l + n, NodeLen)
<1>3. /\ D \in [0..NodeLen-1 -> Byte]
      /\ \A j \in 0..NodeLen-1 :
           D[j] = IF s + l <= j /\ j < s + l + n THEN rest[0 + j - (s + l) + 1] ELSE node.data[j]
  <2>1. PICK at \in Nat, from \in Nat : at = s + l /\ from = 0 /\ from + n <= Len(rest)
    BY <1>2
  <2>2. PICK data \in [0..NodeLen-1 -> Byte] : data = node.data
    BY <1>2
  <2>3. /\ Memcpy(data, at, rest, from, n) \in [0..NodeLen-1 -> Byte]
        /\ \A j \in 0..NodeLen-1 :
             Memcpy(data, at, rest, from, n)[j] =
               IF at <= j /\ j < at + n THEN rest[from + j - at + 1] ELSE data[j]
    BY <1>2, <2>1 DEF Memcpy
  <2>4. D = Memcpy(data, at, rest, from, n)
    BY <2>1, <2>2
  <2> HIDE DEF D
  <2> QED BY <2>1, <2>2, <2>3, <2>4
<1>4. e \in 0..NodeLen-1 /\ e = Wrap(s + (l + n), NodeLen)
  BY <1>2 DEF Wrap
<1>5. m = [node EXCEPT !.data = D, !.len = l + n, !.end = e]
  BY <1>1, <1>2 DEF Filled
<1> HIDE DEF D, e
<1>6. /\ m.data = D /\ m.len = l + n /\ m.end = e /\ m.start = s /\ m.next = node.next
      /\ m \in Node
  <2>1. l + n \in 0..NodeLen
    BY <1>2
  <2>2. PICK k \in 0..NodeLen : k = l + n
    BY <2>1
  <2>3. m = [node EXCEPT !.data = D, !.len = k, !.end = e]
    BY <1>5, <2>2
  <2>4. m.data = D /\ m.len = k /\ m.end = e /\ m.start = node.start /\ m.next = node.next
    BY <2>3 DEF Node
  <2>5. m \in Node
    BY <1>3, <1>4, <2>3 DEF Node
  <2> QED BY <1>1, <2>2, <2>4, <2>5
<1>7. Straight(m)
  BY <1>2, <1>4, <1>6 DEF Straight
<1>8. /\ Bytes(m) \in Seq(Byte) /\ Len(Bytes(m)) = l + n
      /\ \A i \in 1..l+n : Bytes(m)[i] = D[s + i - 1]
  BY <1>6, <1>7, NodeBytes
<1>9. /\ Bytes(node) \in Seq(Byte) /\ Len(Bytes(node)) = l
      /\ \A i \in 1..l : Bytes(node)[i] = node.data[s + i - 1]
  BY <1>1, NodeBytes
<1> DEFINE f == SubSeq(rest, 1, n)
           B == Bytes(node)
           A == Bytes(m)
<1>10. f \in Seq(Byte) /\ Len(f) = n /\ \A i \in 1..n : f[i] = rest[i]
  BY <1>2
<1> HIDE DEF f, A, B
<1>11. /\ B \o f \in Seq(Byte) /\ Len(B \o f) = l + n
       /\ \A i \in 1..l : (B \o f)[i] = B[i]
       /\ \A i \in l+1..l+n : (B \o f)[i] = f[i - l]
  <2>1. B \in Seq(Byte) /\ Len(B) = l
    BY <1>9 DEF B
  <2>2. PICK C \in Seq(Byte), g \in Seq(Byte) : C = B /\ g = f
    BY <1>10, <2>1
  <2>3. Len(C) = l /\ Len(g) = n
    BY <1>10, <2>1, <2>2
  <2>4. C \o g \in Seq(Byte) /\ Len(C \o g) = l + n
    BY <2>3
  <2>5. \A i \in 1..l : (C \o g)[i] = C[i]
    BY <2>3
  <2>6. \A i \in l+1..l+n : (C \o g)[i] = g[i - l]
    <3>1. \A i \in 1..Len(C)+Len(g) : (C \o g)[i] = IF i <= Len(C) THEN C[i] ELSE g[i - Len(C)]
      BY ConcatProperties, Zenon
    <3>2. \A i \in l+1..l+n : i \in 1..Len(C)+Len(g) /\ ~(i <= Len(C))
      BY <2>3
    <3> QED BY <2>3, <3>1, <3>2
  <2> QED BY <2>2, <2>4, <2>5, <2>6
<1>12. \A i \in 1..l+n : A[i] = (B \o f)[i]
  <2> TAKE i \in 1..l+n
  <2>1. A[i] = D[s + i - 1] /\ s + i - 1 \in 0..NodeLen-1
    BY <1>2, <1>8 DEF A
  <2>2. CASE i <= l
    <3>1. i \in 1..l /\ ~(s + l <= s + i - 1)
      BY <2>2
    <3>2. D[s + i - 1] = node.data[s + i - 1]
      BY <1>3, <2>1, <3>1
    <3>3. B[i] = node.data[s + i - 1] /\ (B \o f)[i] = B[i]
      BY <1>9, <1>11, <3>1 DEF B
    <3> QED BY <2>1, <3>2, <3>3
  <2>3. CASE i > l
    <3>1. /\ i \in l+1..l+n /\ i - l \in 1..n /\ s + l <= s + i - 1 /\ s + i - 1 < s + l + n
          /\ 0 + (s + i - 1) - (s + l) + 1 = i - l
      BY <2>3
    <3>2. D[s + i - 1] = rest[i - l]
      BY <1>3, <2>1, <3>1
    <3>3. (B \o f)[i] = f[i - l] /\ f[i - l] = rest[i - l]
      BY <1>10, <1>11, <3>1
    <3> QED BY <2>1, <3>2, <3>3, Zenon
  <2>4. i <= l \/ i > l
    OBVIOUS
  <2> QED BY <2>2, <2>3, <2>4, Zenon
<1>13. A \in Seq(Byte) /\ Len(A) = l + n
  BY <1>8 DEF A
<1>14. A = B \o f
  BY <1>11, <1>12, <1>13, SeqEqual
<1> QED BY <1>6, <1>7, <1>14 DEF A, B, f

\* The bytes of a list are bytes.
LEMMA ListsContent ==
  ASSUME NEW c, NEW u, NEW f, Lists(c, u, f)
  PROVE  /\ Len(u) \in Nat /\ Content(c, u) \in Seq(Byte)
         /\ \A k \in 0..Len(u) : ContentTo(c, u)[k] \in Seq(Byte)
<1>1. Len(u) \in Nat
  BY DEF Lists
<1>2. \A i \in 1..Len(u) : Bytes(c.node[u[i]]) \in Seq(Byte)
  BY ListsBytes
<1>3. \A k \in 0..Len(u) : ContentTo(c, u)[k] \in Seq(Byte)
  BY <1>1, <1>2, ContentType, Zenon
<1>4. Len(u) \in 0..Len(u)
  BY <1>1
<1> QED BY <1>1, <1>3, <1>4 DEF Content

\* Concatenation is associative.
Assoc(a, b, c) == (a \o b) \o c = a \o (b \o c)

\* It is so of any bytes.
LEMMA AnyAssoc ==
  ASSUME NEW a \in Seq(Byte), NEW b \in Seq(Byte), NEW c \in Seq(Byte)
  PROVE  Assoc(a, b, c)
BY ConcatAssociative DEF Assoc

\* Bytes put behind those of the last node are behind those of the list.
Longer(d, v, g, c, u, a) == Lists(d, v, g) /\ Content(d, v) = Content(c, u) \o a
Grown(c, d, x, a) == Bytes(d.node[x]) = Bytes(c.node[x]) \o a

\* This is so when the other nodes of the list keep theirs.
LEMMA LastGrown ==
  ASSUME NEW c, NEW u, NEW f, Lists(c, u, f), NEW d, Lists(d, u, f), NEW a \in Seq(Byte),
         NEW s \in Nat, Len(u) = s + 1, SameBytes(c, u, d, u, s),
         Grown(c, d, u[s+1], a)
  PROVE  Longer(d, u, f, c, u, a)
<1>1. /\ Len(u) \in Nat \ {0} /\ Len(u) - 1 = s /\ s <= Len(u)
      /\ s \in 0..Len(u) /\ s + 1 \in 1..Len(u)
  OBVIOUS
<1>2. ContentTo(c, u)[s] = ContentTo(d, u)[s]
  BY <1>1, ContentSame
<1>3. /\ Content(c, u) = ContentTo(c, u)[Len(u)-1] \o Bytes(c.node[u[Len(u)]])
      /\ Content(d, u) = ContentTo(d, u)[Len(u)-1] \o Bytes(d.node[u[Len(u)]])
  BY <1>1, ContentLast
<1>4. PICK h \in Seq(Byte), b \in Seq(Byte) : h = ContentTo(c, u)[s] /\ b = Bytes(c.node[u[s+1]])
  <2>1. ContentTo(c, u)[s] \in Seq(Byte)
    BY <1>1, ListsContent
  <2>2. Bytes(c.node[u[s+1]]) \in Seq(Byte)
    BY <1>1, ListsBytes
  <2> QED BY <2>1, <2>2
<1>5. Content(c, u) = h \o b /\ Content(d, u) = h \o (b \o a)
  BY <1>1, <1>2, <1>3, <1>4 DEF Grown
<1>6. Assoc(h, b, a)
  BY AnyAssoc
<1> QED BY <1>5, <1>6, Zenon DEF Longer, Assoc

\* m is a node with the first n bytes of rest behind those of node
FilledRight(m, node, rest, n) ==
  /\ m \in Node /\ m.next = node.next /\ Straight(m)
  /\ Bytes(m) = Bytes(node) \o SubSeq(rest, 1, n)

\* Filling a node, with the result as one fact.
LEMMA FillNodeRight ==
  ASSUME NEW node \in Node, Straight(node), NEW rest \in Seq(Byte),
         NEW n \in Nat \ {0}, n <= Len(rest), n <= NodeLen - node.len - node.start
  PROVE  FilledRight(Filled(node, rest, n), node, rest, n)
<1>1. PICK m : m = Filled(node, rest, n)
  OBVIOUS
<1>2. /\ m \in Node /\ m.next = node.next /\ Straight(m)
      /\ Bytes(m) = Bytes(node) \o SubSeq(rest, 1, n)
  BY <1>1, FillNode
<1>3. FilledRight(m, node, rest, n)
  BY <1>2, Zenon DEF FilledRight
<1> QED BY <1>1, <1>3, Zenon

\* So a turn of WriteChan appends to the bytes of the chain, when the
\* rightmost node has room
LastFilled(c, rest, n) == [c EXCEPT !.node[c.right] = Filled(@, rest, n)]

\* the bytes copied are behind those of the list.
LEMMA FillLast ==
  ASSUME NEW c, NEW u, NEW f, Lists(c, u, f), Len(u) # 0, NEW rest \in Seq(Byte),
         NEW n \in Nat \ {0}, n <= Len(rest), n <= Idle(c),
         NEW a0 \in Seq(Byte), a0 = SubSeq(rest, 1, n)
  PROVE  Longer(LastFilled(c, rest, n), u, f, c, u, a0)
<1>1. PICK t \in Nat \ {0} : t = Len(u)
  <2>1. u \in Seq(1..Len(c.node))
    BY DEF Lists
  <2> QED BY <2>1
<1>2. PICK i \in 1..Len(u), x \in 1..Len(c.node), node \in Node :
        i = t /\ x = u[i] /\ node = c.node[u[i]] /\ c.right = x /\ Straight(node)
  <2>1. t \in 1..Len(u)
    BY <1>1
  <2>2. c.right = u[t]
    BY <1>1 DEF Lists
  <2> QED BY <2>1, <2>2, ListsBytes
<1>3. n <= NodeLen - node.len - node.start
  <2>1. c.right # Null
    BY <1>2 DEF Null
  <2> QED BY <1>2, <2>1 DEF Idle
<1>4. PICK m \in Node : m = Filled(node, rest, n) /\ m.next = node.next /\ Straight(m)
                        /\ Bytes(m) = Bytes(node) \o SubSeq(rest, 1, n)
  <2>1. PICK m : m = Filled(node, rest, n)
    OBVIOUS
  <2>2. FilledRight(Filled(node, rest, n), node, rest, n)
    BY <1>2, <1>3, FillNodeRight
  <2>3. FilledRight(m, node, rest, n)
    BY <2>1, <2>2, Zenon
  <2> QED BY <2>1, <2>3, Zenon DEF FilledRight
<1>5. PICK d : d = [c EXCEPT !.node[u[i]] = m]
  OBVIOUS
<1>6. LastFilled(c, rest, n) = d
  BY <1>2, <1>4, <1>5 DEF LastFilled
<1>7. Lists(d, u, f)
  BY <1>2, <1>4, <1>5, ListsData
<1>8. \A k \in 1..Len(c.node) : d.node[k] = IF k = x THEN m ELSE c.node[k]
  <2>1. c \in Chain /\ d = [c EXCEPT !.node[x] = m]
    BY <1>2, <1>5 DEF Lists
  <2>2. /\ d \in Chain /\ d.left = c.left /\ d.right = c.right /\ d.freen = c.freen
        /\ Len(d.node) = Len(c.node)
        /\ \A k \in 1..Len(c.node) : d.node[k] = IF k = x THEN m ELSE c.node[k]
    BY <2>1, SetNode
  <2> QED BY <2>2
<1>9. PICK s \in Nat : s = t - 1 /\ s + 1 = t /\ Len(u) = s + 1
  BY <1>1
<1>10. \A k \in 1..s : d.node[u[k]] = c.node[u[k]]
  <2> TAKE k \in 1..s
  <2>1. k \in 1..Len(u) /\ k # t
    BY <1>1, <1>9
  <2>2. u[k] \in 1..Len(c.node)
    BY <2>1, ListsBytes
  <2>3. \A p, q \in 1..Len(u) : u[p] = u[q] => p = q
    BY Zenon DEF Lists, Distinct
  <2>4. u[k] # x
    BY <1>2, <2>1, <2>3
  <2> QED BY <1>8, <2>2, <2>4
<1>11. PICK a \in Seq(Byte) : a = SubSeq(rest, 1, n)
  <2>1. SubSeq(rest, 1, n) \in Seq(Byte)
    OBVIOUS
  <2> QED BY <2>1
<1>12. Grown(c, d, u[s+1], a)
  BY <1>2, <1>4, <1>8, <1>9, <1>11 DEF Grown
<1>13. SameBytes(c, u, d, u, s)
  BY <1>10 DEF SameBytes
<1>14. Longer(d, u, f, c, u, a)
  BY <1>7, <1>9, <1>12, <1>13, LastGrown
<1> QED BY <1>6, <1>11, <1>14, Zenon

\* which it is made to have.
LEMMA RoomMade ==
  ASSUME NEW c, NEW u, NEW f, Lists(c, u, f), NEW d, d = Hg_GetSingleOrIdleBuf(c)
  PROVE  \E v, g : /\ Lists(d, v, g) /\ Len(v) # 0 /\ Idle(d) \in Nat \ {0}
                   /\ Content(d, v) = Content(c, u)
<1>1. PICK t \in Nat : t = Len(u)
  BY DEF Lists
<1>2. Idle(c) \in Int
  <2>1. CASE t = 0
    BY <1>1, <2>1 DEF Idle, Lists
  <2>2. CASE t # 0
    <3>1. t \in 1..Len(u) /\ c.right = u[t]
      BY <1>1, <2>2 DEF Lists
    <3>2. PICK node \in Node : node = c.node[c.right]
      BY <3>1, ListsBytes
    <3>3. NodeLen \in Int /\ node.len \in Int /\ node.start \in Int
      BY NodesAssumption DEF Node
    <3>4. Idle(c) = IF c.right = Null THEN 0 ELSE NodeLen - node.len - node.start
      BY <3>2 DEF Idle
    <3> QED BY <3>3, <3>4
  <2> QED BY <2>1, <2>2
<1>3. CASE Idle(c) > 0
  <2>1. d = c
    BY <1>3 DEF Hg_GetSingleOrIdleBuf
  <2>2. Len(u) # 0
    BY <1>3 DEF Idle, Lists
  <2> QED BY <1>2, <1>3, <2>1, <2>2
<1>4. CASE ~(Idle(c) > 0)
  <2>1. d = Hg_SingleNewNode(c)
    BY <1>4 DEF Hg_GetSingleOrIdleBuf
  <2>2. PICK x \in 1..Len(d.node), g \in Seq(1..Len(d.node)) :
           /\ Lists(d, Append(u, x), g)
           /\ d.node[x].start = 0 /\ d.node[x].end = 0 /\ d.node[x].len = 0
           /\ \A k \in 1..Len(u) : Alike(d.node[u[k]], c.node[u[k]])
    BY <2>1, ListsNew
  <2>3. PICK v : v = Append(u, x)
    OBVIOUS
  <2>4. Len(v) = t + 1 /\ v[t+1] = x /\ \A k \in 1..t : v[k] = u[k]
    BY <1>1, <2>3 DEF Lists
  <2>5. Lists(d, v, g)
    BY <2>2, <2>3
  <2>6. d.right = x
    BY <1>1, <2>4, <2>5 DEF Lists
  <2>7. Idle(d) = NodeLen
    BY <2>2, <2>6, NodesAssumption DEF Idle, Null
  <2>8. ContentTo(d, v)[t] = ContentTo(c, u)[t]
    <3>1. SameBytes(d, v, c, u, t)
      BY <1>1, <2>2, <2>4, AlikeBytes DEF SameBytes
    <3>2. Len(v) \in Nat /\ Len(u) \in Nat /\ t <= Len(v) /\ t <= Len(u)
      BY <1>1, <2>4
    <3> QED BY <3>1, <3>2, ContentSame
  <2>9. Bytes(d.node[x]) = <<>>
    BY <2>2 DEF Bytes
  <2>10. Content(d, v) = ContentTo(d, v)[t] \o <<>>
    <3>1. Len(v) \in Nat \ {0}
      BY <2>4
    <3>2. Content(d, v) = ContentTo(d, v)[Len(v)-1] \o Bytes(d.node[v[Len(v)]])
      BY <3>1, ContentLast
    <3>3. Len(v) - 1 = t /\ v[Len(v)] = x
      BY <2>4
    <3> QED BY <2>9, <3>2, <3>3, Zenon
  <2>11. ContentTo(c, u)[t] \in Seq(Byte) /\ Content(c, u) = ContentTo(c, u)[t]
    BY <1>1, ListsContent DEF Content
  <2>12. Content(d, v) = Content(c, u)
    BY <2>8, <2>10, <2>11, ConcatEmptySeq
  <2> QED BY <2>4, <2>5, <2>7, <2>12, NodesAssumption
<1> QED BY <1>3, <1>4

\* A sequence is a first part and the rest.
LEMMA Parts ==
  ASSUME NEW S, NEW s \in Seq(S), NEW n \in 0..Len(s)
  PROVE  /\ SubSeq(s, 1, n) \in Seq(S) /\ SubSeq(s, n + 1, Len(s)) \in Seq(S)
         /\ Len(SubSeq(s, 1, n)) = n /\ Len(SubSeq(s, n + 1, Len(s))) = Len(s) - n
         /\ s = SubSeq(s, 1, n) \o SubSeq(s, n + 1, Len(s))
<1>1. /\ SubSeq(s, 1, n) \in Seq(S) /\ SubSeq(s, n + 1, Len(s)) \in Seq(S)
      /\ Len(SubSeq(s, 1, n)) = n /\ Len(SubSeq(s, n + 1, Len(s))) = Len(s) - n
      /\ \A i \in 1..n : SubSeq(s, 1, n)[i] = s[i]
      /\ \A i \in 1..Len(s)-n : SubSeq(s, n + 1, Len(s))[i] = s[n + i]
  OBVIOUS
<1>2. PICK a \in Seq(S), b \in Seq(S) : a = SubSeq(s, 1, n) /\ b = SubSeq(s, n + 1, Len(s))
  BY <1>1
<1>3. /\ Len(a) = n /\ Len(b) = Len(s) - n
      /\ \A i \in 1..n : a[i] = s[i]
      /\ \A i \in 1..Len(s)-n : b[i] = s[n + i]
  BY <1>1, <1>2
<1>4. /\ a \o b \in Seq(S) /\ Len(a \o b) = Len(s)
      /\ \A i \in 1..Len(s) : (a \o b)[i] = IF i <= n THEN a[i] ELSE b[i - n]
  BY <1>3
<1>5. \A i \in 1..Len(s) : (a \o b)[i] = s[i]
  <2> TAKE i \in 1..Len(s)
  <2>1. CASE i <= n
    BY <1>3, <1>4, <2>1
  <2>2. CASE ~(i <= n)
    <3>1. i - n \in 1..Len(s)-n /\ n + (i - n) = i
      BY <2>2
    <3>2. b[i - n] = s[i]
      BY <1>3, <3>1
    <3> QED BY <1>4, <2>2, <3>2
  <2> QED BY <2>1, <2>2
<1>6. s = a \o b
  BY <1>4, <1>5, SeqEqual
<1> QED BY <1>1, <1>2, <1>6

\* A turn of WriteChan takes bytes from what is left to write.
Turned(x, c, u, rest) ==
  \E d, v, g : \E a, b \in Seq(Byte) :
    /\ x = [chain |-> d, rest |-> b] /\ Longer(d, v, g, c, u, a)
    /\ rest = a \o b /\ Len(b) < Len(rest)

\* Each turn does so: it fills the rightmost node or takes another one.
LEMMA WriteTurnStep ==
  ASSUME NEW c, NEW u, NEW f, Lists(c, u, f), NEW rest \in Seq(Byte), rest # <<>>,
         NEW x, x = WriteTurn([chain |-> c, rest |-> rest])
  PROVE  Turned(x, c, u, rest)
<1>1. PICK e : e = Hg_GetSingleOrIdleBuf(c)
  OBVIOUS
<1>2. PICK v, g : /\ Lists(e, v, g) /\ Len(v) # 0 /\ Idle(e) \in Nat \ {0}
                  /\ Content(e, v) = Content(c, u)
  BY <1>1, RoomMade
<1>3. PICK n \in Nat \ {0} : /\ n = (IF Idle(e) <= Len(rest) THEN Idle(e) ELSE Len(rest))
                             /\ n <= Len(rest) /\ n <= Idle(e)
  <2>1. Len(rest) \in Nat \ {0}
    OBVIOUS
  <2> QED BY <1>2, <2>1
<1>4. PICK d : d = LastFilled(e, rest, n)
  OBVIOUS
<1>5. PICK a \in Seq(Byte), b \in Seq(Byte) :
        /\ a = SubSeq(rest, 1, n) /\ b = SubSeq(rest, n + 1, Len(rest))
        /\ rest = a \o b /\ Len(b) < Len(rest)
  <2>1. n \in 0..Len(rest)
    BY <1>3
  <2>2. /\ SubSeq(rest, 1, n) \in Seq(Byte) /\ SubSeq(rest, n + 1, Len(rest)) \in Seq(Byte)
        /\ Len(SubSeq(rest, n + 1, Len(rest))) = Len(rest) - n
        /\ rest = SubSeq(rest, 1, n) \o SubSeq(rest, n + 1, Len(rest))
    BY <2>1, Parts
  <2>3. Len(rest) - n < Len(rest)
    BY <2>1
  <2> QED BY <2>2, <2>3
<1>6. x = [chain |-> d, rest |-> b]
  BY <1>1, <1>3, <1>4, <1>5 DEF WriteTurn, LastFilled
<1>7. Lists(d, v, g) /\ Content(d, v) = Content(e, v) \o a
  <2>1. Longer(LastFilled(e, rest, n), v, g, e, v, a)
    BY <1>2, <1>3, <1>5, FillLast
  <2> QED BY <1>4, <2>1, Zenon DEF Longer
<1>8. Longer(d, v, g, c, u, a)
  BY <1>2, <1>7, Zenon DEF Longer
<1> QED BY <1>5, <1>6, <1>8, Zenon DEF Turned

\* The chain holds bytes.
Holds(c, bytes) == \E u, f : Lists(c, u, f) /\ Content(c, u) = bytes

\* What a chain holds is a sequence of bytes.
LEMMA HoldsBytes ==
  ASSUME NEW c, NEW bytes, Holds(c, bytes)
  PROVE  bytes \in Seq(Byte)
BY ListsContent DEF Holds

\* WriteChan puts an event's bytes behind those of the chain.
LEMMA WrittenHolds ==
  ASSUME NEW c, NEW h, Holds(c, h), NEW bytes \in Seq(Byte)
  PROVE  Holds(Written(c, bytes), h \o bytes)
<1>1. PICK n \in Nat : n = Len(bytes)
  OBVIOUS
<1>2. h \in Seq(Byte)
  BY HoldsBytes
<1> DEFINE t == WriteTurns(c, bytes)
           Reached(k) ==
             \E d : \E p, q \in Seq(Byte) :
               /\ t[k] = [chain |-> d, rest |-> q] /\ Holds(d, h \o p)
               /\ bytes = p \o q /\ Len(q) <= n - k
           S == {k \in Nat : k <= n => Reached(k)}
<1>3. t[0] = [chain |-> c, rest |-> bytes] /\ \A k \in 1..n : t[k] = WriteTurn(t[k-1])
  <2> HIDE DEF t
  <2>1. /\ t[0] = [chain |-> c, rest |-> bytes]
        /\ \A k \in 1..Len(bytes) : t[k] = WriteTurn(t[k-1])
    BY <1>1, WriteTurnsDef DEF t
  <2> QED BY <1>1, <2>1
<1> HIDE DEF t
<1>4. Reached(0)
  <2>1. <<>> \in Seq(Byte) /\ <<>> \o bytes = bytes /\ h \o <<>> = h /\ Len(bytes) <= n - 0
    BY <1>1, <1>2, ConcatEmptySeq, EmptySeq
  <2> QED BY <1>3, <2>1
<1>5. ASSUME NEW k \in Nat, k + 1 <= n, Reached(k) PROVE Reached(k+1)
  <2>1. PICK d : \E p1, q1 \in Seq(Byte) :
               /\ t[k] = [chain |-> d, rest |-> q1] /\ Holds(d, h \o p1)
               /\ bytes = p1 \o q1 /\ Len(q1) <= n - k
    BY <1>5
  <2>2. PICK p \in Seq(Byte), q \in Seq(Byte) :
               /\ t[k] = [chain |-> d, rest |-> q] /\ Holds(d, h \o p)
               /\ bytes = p \o q /\ Len(q) <= n - k
    BY <2>1
  <2>3. k + 1 \in 1..n /\ (k + 1) - 1 = k
    BY <1>5
  <2>4. t[k+1] = WriteTurn([chain |-> d, rest |-> q])
    BY <1>3, <2>2, <2>3
  <2>5. CASE q = <<>>
    <3>1. t[k+1] = [chain |-> d, rest |-> q] /\ Len(q) <= n - (k + 1)
      BY <1>5, <2>4, <2>5 DEF WriteTurn
    <3> QED BY <2>2, <3>1
  <2>6. CASE q # <<>>
    <3>1. PICK u, f : Lists(d, u, f) /\ Content(d, u) = h \o p
      BY <2>2 DEF Holds
    <3>2. PICK e, v, g : \E a1, b1 \in Seq(Byte) :
             /\ t[k+1] = [chain |-> e, rest |-> b1] /\ Longer(e, v, g, d, u, a1)
             /\ q = a1 \o b1 /\ Len(b1) < Len(q)
      <4>1. Turned(t[k+1], d, u, q)
        BY <2>4, <2>6, <3>1, WriteTurnStep
      <4> QED BY <4>1, Zenon DEF Turned
    <3>3. PICK a \in Seq(Byte), b \in Seq(Byte) :
             /\ t[k+1] = [chain |-> e, rest |-> b] /\ Longer(e, v, g, d, u, a)
             /\ q = a \o b /\ Len(b) < Len(q)
      BY <3>2, Zenon
    <3>4. Lists(e, v, g) /\ Content(e, v) = (h \o p) \o a
      BY <3>1, <3>3, Zenon DEF Longer
    <3>5. p \o a \in Seq(Byte) /\ (h \o p) \o a = h \o (p \o a) /\ (p \o a) \o b = p \o (a \o b)
      <4>1. p \o a \in Seq(Byte)
        OBVIOUS
      <4>2. (h \o p) \o a = h \o (p \o a)
        <5>1. PICK o \in Seq(Byte) : o = h
          BY <1>2
        <5>2. Assoc(o, p, a)
          BY AnyAssoc
        <5> QED BY <5>1, <5>2, Zenon DEF Assoc
      <4>3. (p \o a) \o b = p \o (a \o b)
        <5>1. Assoc(p, a, b)
          BY AnyAssoc
        <5> QED BY <5>1, Zenon DEF Assoc
      <4> QED BY <4>1, <4>2, <4>3
    <3>6. Holds(e, h \o (p \o a))
      BY <3>4, <3>5, Zenon DEF Holds
    <3>7. bytes = (p \o a) \o b
      BY <2>2, <3>3, <3>5, Zenon
    <3>8. Len(b) <= n - (k + 1)
      <4>1. Len(b) \in Nat /\ Len(q) \in Nat /\ Len(b) < Len(q) /\ Len(q) <= n - k
        BY <2>2, <3>3, LenProperties
      <4> QED BY <4>1
    <3> QED BY <3>3, <3>5, <3>6, <3>7, <3>8
  <2> QED BY <2>5, <2>6
<1>6. S = Nat
  <2>1. 0 \in S /\ S \in SUBSET Nat
    BY <1>4
  <2>2. \A k \in S : k + 1 \in S
    <3> HIDE DEF Reached
    <3> QED BY <1>5
  <2> HIDE DEF S
  <2> QED BY <2>1, <2>2, AllNumbers
<1>7. Reached(n)
  <2> HIDE DEF Reached
  <2>1. n \in S /\ n <= n
    BY <1>6
  <2> QED BY <2>1
<1>8. PICK d : \E p1, q1 \in Seq(Byte) :
               /\ t[n] = [chain |-> d, rest |-> q1] /\ Holds(d, h \o p1)
               /\ bytes = p1 \o q1 /\ Len(q1) <= n - n
  BY <1>7
<1>9. PICK p \in Seq(Byte), q \in Seq(Byte) :
               /\ t[n] = [chain |-> d, rest |-> q] /\ Holds(d, h \o p)
               /\ bytes = p \o q /\ Len(q) <= n - n
  BY <1>8
<1>10. bytes = p
  <2>1. q = <<>>
    BY <1>9
  <2>2. p \o <<>> = p
    BY ConcatEmptySeq
  <2> QED BY <1>9, <2>1, <2>2
<1>11. Written(c, bytes) = d
  BY <1>1, <1>9 DEF Written, t
<1> QED BY <1>9, <1>10, <1>11

\* What is taken off a node are its first bytes.
LEMMA ShortenNode ==
  ASSUME NEW node \in Node, Straight(node), NEW n \in Nat, n < node.len,
         NEW m, m = Shortened(node, n)
  PROVE  /\ m \in Node /\ m.next = node.next /\ Straight(m)
         /\ Bytes(m) = SubSeq(Bytes(node), n + 1, Len(Bytes(node)))
<1>1. PICK l \in Nat, s \in Nat : l = node.len /\ s = node.start
  BY DEF Node
<1>2. NodeLen \in Nat /\ l \in 0..NodeLen /\ s + l <= NodeLen /\ n < l
  BY <1>1, NodesAssumption DEF Node, Straight
<1>3. PICK s2 \in 0..NodeLen-1, l2 \in 0..NodeLen : s2 = s + n /\ l2 = l - n
  BY <1>2
<1>4. m = [node EXCEPT !.start = s2, !.len = l2]
  <2>1. Wrap(s + n, NodeLen) = s2
    BY <1>2, <1>3 DEF Wrap
  <2> QED BY <1>1, <1>3, <2>1 DEF Shortened
<1>5. /\ m.start = s2 /\ m.len = l2 /\ m.data = node.data /\ m.end = node.end
      /\ m.next = node.next /\ m \in Node
  BY <1>4 DEF Node
<1>6. Straight(m)
  <2>1. s2 + l2 = s + l
    BY <1>2, <1>3
  <2> QED BY <1>1, <1>5, <2>1 DEF Straight
<1>7. /\ Bytes(m) \in Seq(Byte) /\ Len(Bytes(m)) = l2
      /\ \A i \in 1..l2 : Bytes(m)[i] = node.data[s2 + i - 1]
  BY <1>5, <1>6, NodeBytes
<1>8. /\ Bytes(node) \in Seq(Byte) /\ Len(Bytes(node)) = l
      /\ \A i \in 1..l : Bytes(node)[i] = node.data[s + i - 1]
  BY <1>1, NodeBytes
<1> DEFINE B == Bytes(node)
           A == Bytes(m)
           C == SubSeq(B, n + 1, l)
<1>9. /\ C \in Seq(Byte) /\ Len(C) = l2 /\ \A i \in 1..l2 : C[i] = B[n + i]
  <2>1. B \in Seq(Byte) /\ Len(B) = l
    BY <1>8
  <2> HIDE DEF B
  <2> QED BY <1>2, <1>3, <2>1
<1> HIDE DEF A, B, C
<1>10. \A i \in 1..l2 : A[i] = C[i]
  <2> TAKE i \in 1..l2
  <2>1. n + i \in 1..l /\ s2 + i - 1 = s + (n + i) - 1
    BY <1>2, <1>3
  <2>2. A[i] = node.data[s2 + i - 1]
    BY <1>7 DEF A
  <2>3. B[n + i] = node.data[s + (n + i) - 1]
    BY <1>8, <2>1 DEF B
  <2>4. C[i] = B[n + i]
    BY <1>9
  <2> QED BY <2>1, <2>2, <2>3, <2>4
<1>11. A \in Seq(Byte) /\ Len(A) = l2
  BY <1>7 DEF A
<1>12. A = C
  BY <1>9, <1>10, <1>11, SeqEqual
<1> QED BY <1>5, <1>6, <1>8, <1>12 DEF A, B, C

\* A list with bytes taken off its front.
Shorter(e, v, g, c, u, a) == Lists(e, v, g) /\ Content(c, u) = a \o Content(e, v)

FirstShortened(c, n) == [c EXCEPT !.node[c.left] = Shortened(@, n)]

\* The leftmost node is the first of the list.
LEMMA ListsFirst ==
  ASSUME NEW c, NEW u, NEW f, Lists(c, u, f), Len(u) # 0
  PROVE  /\ 1 \in 1..Len(u) /\ u[1] \in 1..Len(c.node) /\ c.left = u[1]
         /\ c.node[u[1]] \in Node /\ Straight(c.node[u[1]])
         /\ Bytes(c.node[u[1]]) \in Seq(Byte)
         /\ Len(Bytes(c.node[u[1]])) = c.node[u[1]].len
<1>1. u \in Seq(1..Len(c.node)) /\ c.left = u[1]
  <2>1. u \in Seq(1..Len(c.node))
    BY DEF Lists
  <2>2. Path(c, c.left, u)
    BY DEF Lists
  <2> QED BY <2>1, <2>2 DEF Path
<1>2. 1 \in 1..Len(u)
  BY <1>1
<1> QED BY <1>1, <1>2, ListsBytes, NodeBytes

\* Taking bytes off the leftmost node takes them off the list.
LEMMA ShortenFirst ==
  ASSUME NEW c, NEW u, NEW f, Lists(c, u, f), Len(u) # 0,
         NEW n \in Nat, n < c.node[u[1]].len,
         NEW B \in Seq(Byte), B = Bytes(c.node[u[1]]),
         NEW a \in Seq(Byte), a = SubSeq(B, 1, n)
  PROVE  Shorter(FirstShortened(c, n), u, f, c, u, a)
<1>1. PICK i \in 1..Len(u), x \in 1..Len(c.node), node \in Node :
        /\ i = 1 /\ x = u[i] /\ node = c.node[u[i]] /\ c.left = x /\ Straight(node)
        /\ Len(Bytes(node)) = node.len
  BY ListsFirst
<1>2. PICK m \in Node : /\ m = Shortened(node, n) /\ m.next = node.next /\ Straight(m)
                        /\ Bytes(m) = SubSeq(B, n + 1, Len(B))
  BY <1>1, ShortenNode
<1>3. PICK d : d = [c EXCEPT !.node[u[i]] = m]
  OBVIOUS
<1>4. FirstShortened(c, n) = d
  BY <1>1, <1>2, <1>3 DEF FirstShortened
<1>5. Lists(d, u, f)
  BY <1>1, <1>2, <1>3, ListsData
<1>6. \A k \in 1..Len(c.node) : d.node[k] = IF k = x THEN m ELSE c.node[k]
  <2>1. c \in Chain /\ d = [c EXCEPT !.node[x] = m]
    BY <1>1, <1>3 DEF Lists
  <2>2. /\ d \in Chain /\ d.left = c.left /\ d.right = c.right /\ d.freen = c.freen
        /\ Len(d.node) = Len(c.node)
        /\ \A k \in 1..Len(c.node) : d.node[k] = IF k = x THEN m ELSE c.node[k]
    BY SMTT(30), <2>1, SetNode
  <2> QED BY <2>2
<1>7. PICK N : u \in Seq(N)
  BY DEF Lists
<1>8. /\ Content(c, u) = Bytes(c.node[u[1]]) \o Content(c, Tail(u))
      /\ Content(d, u) = Bytes(d.node[u[1]]) \o Content(d, Tail(u))
  <2>1. \A k \in 1..Len(u) : Bytes(c.node[u[k]]) \in Seq(Byte)
    BY ListsBytes
  <2>2. \A k \in 1..Len(u) : Bytes(d.node[u[k]]) \in Seq(Byte)
    BY <1>5, ListsBytes
  <2> QED BY <1>7, <2>1, <2>2, ContentHead
<1>9. PICK t : t = Tail(u)
  OBVIOUS
<1>10. Len(t) = Len(u) - 1 /\ Len(t) \in Nat /\ \A k \in 1..Len(t) : t[k] = u[k+1]
  BY <1>7, <1>9
<1>11. \A k \in 1..Len(t) : d.node[t[k]] = c.node[t[k]]
  <2> TAKE k \in 1..Len(t)
  <2>1. k + 1 \in 1..Len(u) /\ k + 1 # 1 /\ t[k] = u[k+1]
    BY <1>10
  <2>2. u[k+1] \in 1..Len(c.node)
    BY <2>1, ListsBytes
  <2>3. \A p, q \in 1..Len(u) : u[p] = u[q] => p = q
    BY Zenon DEF Lists, Distinct
  <2>4. u[k+1] # x
    BY <1>1, <2>1, <2>3
  <2> QED BY <1>6, <2>1, <2>2, <2>4
<1>12. Content(d, t) = Content(c, t)
  <2>1. SameBytes(d, t, c, t, Len(t))
    BY <1>11 DEF SameBytes
  <2>2. Len(t) \in Nat
    BY <1>10
  <2> QED BY <2>1, <2>2, SameContent, Zenon
<1>13. PICK b \in Seq(Byte) : b = Bytes(m) /\ B = a \o b
  <2>1. n \in 0..Len(B)
    BY <1>1
  <2>2. SubSeq(B, n + 1, Len(B)) \in Seq(Byte) /\ B = SubSeq(B, 1, n) \o SubSeq(B, n + 1, Len(B))
    BY <2>1, Parts
  <2>3. B = a \o Bytes(m) /\ Bytes(m) \in Seq(Byte)
    BY <1>2, <2>2, Zenon
  <2> QED BY <2>3, Zenon
<1>14. PICK o \in Seq(Byte) : o = Content(c, t)
  <2>1. \A k \in 1..Len(t) : Bytes(c.node[t[k]]) \in Seq(Byte)
    <3> TAKE k \in 1..Len(t)
    <3>1. k + 1 \in 1..Len(u) /\ t[k] = u[k+1]
      BY <1>10
    <3> QED BY <3>1, ListsBytes
  <2>2. \A k \in 0..Len(t) : ContentTo(c, t)[k] \in Seq(Byte)
    BY <1>10, <2>1, ContentType, Zenon
  <2>3. Len(t) \in 0..Len(t)
    BY <1>10
  <2> QED BY <2>2, <2>3 DEF Content
<1>15. Content(c, u) = (a \o b) \o o /\ Content(d, u) = b \o o
  <2>1. d.node[u[1]] = m
    BY <1>1, <1>6
  <2> QED BY <1>8, <1>9, <1>12, <1>13, <1>14, <2>1, Zenon
<1>16. Assoc(a, b, o)
  BY AnyAssoc
<1> QED BY <1>4, <1>5, <1>15, <1>16, Zenon DEF Assoc, Shorter

\* Without its first node a list is without that node's bytes.
LEMMA DropFirst ==
  ASSUME NEW c, NEW u, NEW f, Lists(c, u, f), Len(u) # 0,
         NEW B \in Seq(Byte), B = Bytes(c.node[u[1]]),
         NEW v, v = Tail(u), NEW g, g = <<u[1]>> \o f
  PROVE  Shorter(Hg_SingleDelchainL(c), v, g, c, u, B) /\ Len(v) = Len(u) - 1
<1>1. PICK d : d = Hg_SingleDelchainL(c)
  OBVIOUS
<1>2. Lists(d, v, g) /\ \A k \in 1..Len(c.node) : Alike(d.node[k], c.node[k])
  BY <1>1, ListsDelchain
<1>3. PICK N : u \in Seq(N)
  BY DEF Lists
<1>4. Len(v) = Len(u) - 1 /\ Len(v) \in Nat /\ \A k \in 1..Len(v) : v[k] = u[k+1]
  BY <1>3
<1>5. Content(c, u) = B \o Content(c, v)
  <2>1. \A k \in 1..Len(u) : Bytes(c.node[u[k]]) \in Seq(Byte)
    BY ListsBytes
  <2>2. Content(c, u) = Bytes(c.node[u[1]]) \o Content(c, Tail(u))
    BY <1>3, <2>1, ContentHead
  <2> QED BY <2>2
<1>6. Content(d, v) = Content(c, v)
  <2>1. SameBytes(d, v, c, v, Len(v))
    <3>1. ASSUME NEW k \in 1..Len(v) PROVE Bytes(d.node[v[k]]) = Bytes(c.node[v[k]])
      <4>1. k + 1 \in 1..Len(u) /\ v[k] = u[k+1]
        BY <1>4
      <4>2. u[k+1] \in 1..Len(c.node)
        BY <4>1, ListsBytes
      <4> QED BY <1>2, <4>1, <4>2, AlikeBytes
    <3> QED BY <3>1 DEF SameBytes
  <2> QED BY <1>4, <2>1, SameContent, Zenon
<1> QED BY <1>1, <1>2, <1>4, <1>5, <1>6, Zenon DEF Shorter

\* A turn of Drive moves bytes from the front of the chain to the ring, those
\* of a node or as many as the ring takes.
Moved(x, ring, c, u) ==
  \E e, v, g : \E a \in Seq(Byte), b \in BOOLEAN :
    /\ x = [ring |-> Hg_Buf_WriteN(ring, a).ring, full |-> b, chain |-> e]
    /\ Shorter(e, v, g, c, u, a)
    /\ Len(a) <= Cap - ring.len
    /\ b => Len(a) = Cap - ring.len
    /\ ~b => Len(v) = Len(u) - 1

\* A turn of the drain does so.
LEMMA DriveTurnStep ==
  ASSUME NEW c, NEW u, NEW f, Lists(c, u, f), Len(u) # 0,
         NEW ring \in Ring(Byte, Cap), Shape(ring),
         NEW x, x = DriveTurn([chain |-> c, ring |-> ring, full |-> FALSE])
  PROVE  Moved(x, ring, c, u)
<1>1. Cap \in Nat \ {0} /\ ring.len \in 0..Cap
  BY ChannelAssumption DEF Ring
<1>2. PICK B \in Seq(Byte) : /\ B = Bytes(c.node[u[1]]) /\ B = Bytes(c.node[c.left])
                             /\ Len(B) = c.node[u[1]].len /\ c.left = u[1]
  BY ListsFirst
<1>3. PICK w : w = Hg_Buf_WriteN(ring, B)
  OBVIOUS
<1>4. w.total \in 0..Len(B) /\ w.total = Free(Len(B), ring.len, Cap)
  BY <1>1, <1>3, WriteN
<1>5. CASE w.total < Len(B)
  <2>1. PICK n \in Nat : n = w.total /\ n < Len(B) /\ n = Cap - ring.len /\ n <= Cap
    BY <1>1, <1>4, <1>5 DEF Free
  <2>2. PICK a \in Seq(Byte) : a = SubSeq(B, 1, n) /\ Len(a) = n /\ \A i \in 1..n : a[i] = B[i]
    <3>1. n \in 0..Len(B)
      BY <2>1
    <3>2. SubSeq(B, 1, n) \in Seq(Byte) /\ Len(SubSeq(B, 1, n)) = n
      BY <3>1, Parts
    <3>3. \A i \in 1..n : SubSeq(B, 1, n)[i] = B[i]
      BY <3>1
    <3> QED BY <3>2, <3>3
  <2>3. Hg_Buf_WriteN(ring, a) = w
    <3>1. Free(Len(a), ring.len, Cap) = n /\ Free(Len(B), ring.len, Cap) = n
      BY <1>1, <1>4, <2>1, <2>2 DEF Free
    <3> QED BY <1>1, <1>3, <2>2, <3>1, WriteNFirst
  <2>4. x = [ring |-> w.ring, full |-> TRUE, chain |-> FirstShortened(c, n)]
    BY <1>2, <1>3, <1>5, <2>1 DEF DriveTurn, FirstShortened
  <2>5. Shorter(FirstShortened(c, n), u, f, c, u, a)
    BY <1>2, <2>1, <2>2, ShortenFirst
  <2>6. Len(a) <= Cap - ring.len /\ Len(a) = Cap - ring.len
    BY <1>1, <2>1, <2>2
  <2> QED BY <2>3, <2>4, <2>5, <2>6, Zenon DEF Moved
<1>6. CASE ~(w.total < Len(B))
  <2>1. Len(B) <= Cap - ring.len
    BY <1>1, <1>4, <1>6 DEF Free
  <2>2. x = [ring |-> w.ring, full |-> FALSE, chain |-> Hg_SingleDelchainL(c)]
    BY <1>2, <1>3, <1>6 DEF DriveTurn
  <2>3. PICK v, g : v = Tail(u) /\ g = <<u[1]>> \o f
    OBVIOUS
  <2>4. Shorter(Hg_SingleDelchainL(c), v, g, c, u, B) /\ Len(v) = Len(u) - 1
    BY <1>2, <2>3, DropFirst
  <2>5. x = [ring |-> Hg_Buf_WriteN(ring, B).ring, full |-> FALSE, chain |-> Hg_SingleDelchainL(c)]
    BY <1>3, <2>2
  <2> QED BY <2>1, <2>4, <2>5, Zenon DEF Moved
<1> QED BY <1>5, <1>6

\* Drive, node by node, puts in the ring what all bytes at once would, and
\* leaves the rest in the chain.
DrainOf(x, ring, h, n) ==
  \E d, u, f : \E p, q \in Seq(Byte), b \in BOOLEAN :
    /\ x = [ring |-> Hg_Buf_WriteN(ring, p).ring, full |-> b, chain |-> d]
    /\ Lists(d, u, f) /\ Content(d, u) = q /\ h = p \o q
    /\ Len(p) <= Cap - ring.len
    /\ b => Len(p) = Cap - ring.len
    /\ ~b => Len(u) = n

\* Each further turn, in a chain that has a node left, keeps this true.
LEMMA DrainTurn ==
  ASSUME NEW x, NEW ring \in Ring(Byte, Cap), Shape(ring), NEW h, NEW n \in Nat,
         DrainOf(x, ring, h, n + 1), NEW y, y = DriveTurn(x)
  PROVE  DrainOf(y, ring, h, n)
<1>1. PICK d, u, f : \E p1, q1 \in Seq(Byte), b1 \in BOOLEAN :
        /\ x = [ring |-> Hg_Buf_WriteN(ring, p1).ring, full |-> b1, chain |-> d]
        /\ Lists(d, u, f) /\ Content(d, u) = q1 /\ h = p1 \o q1
        /\ Len(p1) <= Cap - ring.len
        /\ b1 => Len(p1) = Cap - ring.len
        /\ ~b1 => Len(u) = n + 1
  BY Zenon DEF DrainOf
<1>2. PICK p \in Seq(Byte), q \in Seq(Byte), b \in BOOLEAN :
        /\ x = [ring |-> Hg_Buf_WriteN(ring, p).ring, full |-> b, chain |-> d]
        /\ Lists(d, u, f) /\ Content(d, u) = q /\ h = p \o q
        /\ Len(p) <= Cap - ring.len
        /\ b => Len(p) = Cap - ring.len
        /\ ~b => Len(u) = n + 1
  BY <1>1
<1>3. CASE b
  <2>1. y = x
    BY <1>2, <1>3 DEF DriveTurn
  <2> QED BY <1>2, <1>3, <2>1, Zenon DEF DrainOf
<1>4. CASE ~b
  <2>1. PICK r1 \in Ring(Byte, Cap) :
          /\ r1 = Hg_Buf_WriteN(ring, p).ring /\ Shape(r1)
          /\ Cap - r1.len = Cap - ring.len - Len(p)
    <3>1. Cap \in Nat \ {0} /\ ring.len \in 0..Cap /\ Len(p) \in Nat
      BY ChannelAssumption DEF Ring
    <3>2. LET w == Hg_Buf_WriteN(ring, p)
          IN  /\ w.ring \in Ring(Byte, Cap) /\ Shape(w.ring)
              /\ w.total \in 0..Len(p) /\ w.total = Free(Len(p), ring.len, Cap)
              /\ w.ring.len = ring.len + w.total
      BY <3>1, WriteN
    <3>3. Free(Len(p), ring.len, Cap) = Len(p)
      BY <1>2, <3>1 DEF Free
    <3> QED BY <3>1, <3>2, <3>3
  <2>2. x = [chain |-> d, ring |-> r1, full |-> FALSE]
    BY <1>2, <1>4, <2>1
  <2>3. Len(u) # 0
    BY <1>2, <1>4
  <2>4. Moved(y, r1, d, u)
    BY <1>2, <2>1, <2>2, <2>3, DriveTurnStep
  <2>5. PICK e, v, g : \E a1 \in Seq(Byte), o1 \in BOOLEAN :
          /\ y = [ring |-> Hg_Buf_WriteN(r1, a1).ring, full |-> o1, chain |-> e]
          /\ Shorter(e, v, g, d, u, a1)
          /\ Len(a1) <= Cap - r1.len
          /\ o1 => Len(a1) = Cap - r1.len
          /\ ~o1 => Len(v) = Len(u) - 1
    BY <2>4, Zenon DEF Moved
  <2>6. PICK a \in Seq(Byte), o \in BOOLEAN :
          /\ y = [ring |-> Hg_Buf_WriteN(r1, a).ring, full |-> o, chain |-> e]
          /\ Shorter(e, v, g, d, u, a)
          /\ Len(a) <= Cap - r1.len
          /\ o => Len(a) = Cap - r1.len
          /\ ~o => Len(v) = Len(u) - 1
    BY <2>5
  <2>7. PICK q2 \in Seq(Byte) : /\ q2 = Content(e, v) /\ Lists(e, v, g) /\ q = a \o q2
    <3>1. Lists(e, v, g) /\ q = a \o Content(e, v)
      BY <1>2, <2>6, Zenon DEF Shorter
    <3> QED BY <3>1, ListsContent
  <2>8. PICK p2 \in Seq(Byte) : p2 = p \o a /\ Len(p2) = Len(p) + Len(a)
    <3>1. p \o a \in Seq(Byte) /\ Len(p \o a) = Len(p) + Len(a)
      BY ConcatProperties
    <3> QED BY <3>1
  <2>9. h = p2 \o q2
    <3>1. Assoc(p, a, q2)
      BY AnyAssoc
    <3> QED BY <1>2, <2>7, <2>8, <3>1, Zenon DEF Assoc
  <2>10. Hg_Buf_WriteN(r1, a).ring = Hg_Buf_WriteN(ring, p2).ring
    <3>1. Cap \in Nat \ {0} /\ Len(p) <= Cap - ring.len
      BY <1>2, ChannelAssumption
    <3>2. LET w1 == Hg_Buf_WriteN(ring, p)
              w2 == Hg_Buf_WriteN(w1.ring, a)
              w  == Hg_Buf_WriteN(ring, p \o a)
          IN  w1.total = Len(p) /\ w.ring = w2.ring /\ w.total = Len(p) + w2.total
      BY <3>1, WriteNTwice
    <3> QED BY <2>1, <2>8, <3>2
  <2>11. /\ Len(p2) <= Cap - ring.len
         /\ o => Len(p2) = Cap - ring.len
         /\ ~o => Len(v) = n
    <3>1. Cap \in Nat /\ ring.len \in Nat /\ r1.len \in Nat /\ Len(p) \in Nat /\ Len(a) \in Nat
      BY ChannelAssumption DEF Ring
    <3>2. Len(u) = n + 1
      BY <1>2, <1>4
    <3>3. PICK m \in Nat, l \in Nat, r2 \in Int, r3 \in Int :
            m = Len(p) /\ l = Len(a) /\ r2 = Cap - ring.len /\ r3 = Cap - r1.len
      BY <3>1
    <3>4. r3 = r2 - m /\ Len(p2) = m + l /\ l <= r3 /\ (o => l = r3)
      BY <2>1, <2>6, <2>8, <3>3
    <3>5. m + l <= r2 /\ (l = r3 => m + l = r2)
      BY <3>4
    <3>6. ~o => Len(v) = n
      BY <2>6, <3>2
    <3> QED BY <3>3, <3>4, <3>5, <3>6
  <2>12. y = [ring |-> Hg_Buf_WriteN(ring, p2).ring, full |-> o, chain |-> e]
    BY <2>6, <2>10, Zenon
  <2> QED BY <2>7, <2>9, <2>11, <2>12, Zenon DEF DrainOf
<1> QED BY <1>3, <1>4

\* So the whole drain writes what the ring takes and keeps the rest.
LEMMA DrainedHolds ==
  ASSUME NEW c, NEW h, Holds(c, h), NEW ring \in Ring(Byte, Cap), Shape(ring)
  PROVE  LET w == Hg_Buf_WriteN(ring, h)
         IN  /\ Drained(c, ring).ring = w.ring
             /\ Holds(Drained(c, ring).chain, SubSeq(h, w.total + 1, Len(h)))
<1>1. PICK u, f : Lists(c, u, f) /\ Content(c, u) = h
  BY DEF Holds
<1>2. PICK n \in Nat : n = Len(u) /\ n = Len(From(c, c.left))
  <2>1. Len(u) \in Nat
    BY <1>1, ListsContent
  <2>2. From(c, c.left) = u
    BY <1>1, ListsFrom
  <2> QED BY <2>1, <2>2
<1>3. h \in Seq(Byte) /\ Cap \in Nat \ {0} /\ ring.len \in 0..Cap /\ Len(h) \in Nat
  <2>1. h \in Seq(Byte)
    BY HoldsBytes
  <2> QED BY <2>1, ChannelAssumption DEF Ring
<1> DEFINE t == DriveTurns(c, ring)
           S == {k \in Nat : k <= n => DrainOf(t[k], ring, h, n - k)}
<1>4. t[0] = [chain |-> c, ring |-> ring, full |-> FALSE] /\ \A k \in 1..n : t[k] = DriveTurn(t[k-1])
  <2> HIDE DEF t
  <2>1. /\ t[0] = [chain |-> c, ring |-> ring, full |-> FALSE]
        /\ \A k \in 1..Len(From(c, c.left)) : t[k] = DriveTurn(t[k-1])
    BY <1>2, DriveTurnsDef DEF t
  <2> QED BY <1>2, <2>1
<1> HIDE DEF t
<1>5. DrainOf(t[0], ring, h, n - 0)
  <2>1. PICK p \in Seq(Byte) : p = <<>> /\ Len(p) = 0 /\ p \o h = h
    <3>1. <<>> \in Seq(Byte) /\ Len(<<>>) = 0 /\ <<>> \o h = h
      BY <1>3, EmptySeq, ConcatEmptySeq
    <3> QED BY <3>1
  <2>2. Hg_Buf_WriteN(ring, p).ring = ring
    BY <1>3, <2>1, WriteNNone
  <2>3. t[0] = [ring |-> Hg_Buf_WriteN(ring, p).ring, full |-> FALSE, chain |-> c]
    BY <1>4, <2>2
  <2>4. Len(p) <= Cap - ring.len /\ Len(u) = n - 0 /\ h = p \o h
    BY <1>2, <1>3, <2>1
  <2> QED BY <1>1, <1>3, <2>3, <2>4, Zenon DEF DrainOf
<1>6. ASSUME NEW k \in Nat, k + 1 <= n, DrainOf(t[k], ring, h, n - k)
      PROVE  DrainOf(t[k+1], ring, h, n - (k + 1))
  <2>1. PICK o \in Nat : o = n - (k + 1) /\ o + 1 = n - k
    BY <1>6
  <2>2. t[k+1] = DriveTurn(t[k])
    <3>1. k + 1 \in 1..n /\ (k + 1) - 1 = k
      BY <1>6
    <3> QED BY <1>4, <3>1
  <2>3. DrainOf(t[k+1], ring, h, o)
    BY <1>6, <2>1, <2>2, DrainTurn
  <2> QED BY <2>1, <2>3
<1>7. S = Nat
  <2>1. 0 \in S /\ S \in SUBSET Nat
    BY <1>5
  <2>2. \A k \in S : k + 1 \in S
    BY <1>6
  <2> HIDE DEF S
  <2> QED BY <2>1, <2>2, AllNumbers
<1>8. DrainOf(t[n], ring, h, n - n)
  <2>1. n \in S /\ n <= n
    BY <1>7
  <2> QED BY <2>1
<1>9. PICK d, v, g : \E p1, q1 \in Seq(Byte), b1 \in BOOLEAN :
        /\ t[n] = [ring |-> Hg_Buf_WriteN(ring, p1).ring, full |-> b1, chain |-> d]
        /\ Lists(d, v, g) /\ Content(d, v) = q1 /\ h = p1 \o q1
        /\ Len(p1) <= Cap - ring.len
        /\ b1 => Len(p1) = Cap - ring.len
        /\ ~b1 => Len(v) = n - n
  BY <1>8, Zenon DEF DrainOf
<1>10. PICK p \in Seq(Byte), q \in Seq(Byte), b \in BOOLEAN :
        /\ t[n] = [ring |-> Hg_Buf_WriteN(ring, p).ring, full |-> b, chain |-> d]
        /\ Lists(d, v, g) /\ Content(d, v) = q /\ h = p \o q
        /\ Len(p) <= Cap - ring.len
        /\ b => Len(p) = Cap - ring.len
        /\ ~b => Len(v) = n - n
  BY <1>9
<1>11. Drained(c, ring) = t[n]
  BY <1>2 DEF Drained, t
<1>12. /\ Len(h) = Len(p) + Len(q) /\ Len(p) \in Nat /\ Len(q) \in Nat
       /\ \A i \in 1..Len(p) : p[i] = h[i]
       /\ q = SubSeq(h, Len(p) + 1, Len(h))
  <2>1. /\ Len(p \o q) = Len(p) + Len(q) /\ Len(p) \in Nat /\ Len(q) \in Nat
        /\ \A i \in 1..Len(p) : (p \o q)[i] = p[i]
    OBVIOUS
  <2>2. q = SubSeq(p \o q, Len(p) + 1, Len(p) + Len(q))
    OBVIOUS
  <2> QED BY <1>10, <2>1, <2>2
<1>13. ~b => Len(q) = 0
  <2>1. ASSUME ~b PROVE Len(q) = 0
    <3>1. Len(v) = 0
      BY <1>10, <2>1
    <3>2. Grows(d, v, ContentTo(d, v))
      BY <3>1, ContentToDef
    <3>3. Content(d, v) = <<>>
      BY <3>1, <3>2 DEF Grows, Content
    <3> QED BY <1>10, <3>3
  <2> QED BY <2>1
<1>14. Free(Len(p), ring.len, Cap) = Len(p) /\ Free(Len(h), ring.len, Cap) = Len(p)
  <2>1. PICK m \in Nat, l \in Nat, r2 \in Int :
          m = Len(p) /\ l = Len(q) /\ r2 = Cap - ring.len /\ Len(h) = m + l
    BY <1>3, <1>12
  <2>2. m <= r2 /\ (m = r2 \/ l = 0)
    BY <1>10, <1>13, <2>1
  <2> QED BY <2>1, <2>2 DEF Free
<1>15. Hg_Buf_WriteN(ring, p) = Hg_Buf_WriteN(ring, h)
  <2>1. PICK cap \in Nat \ {0}, o \in Seq(Byte) : cap = Cap /\ o = h
    BY <1>3
  <2>2. Free(Len(p), ring.len, cap) = Free(Len(o), ring.len, cap)
    BY <1>14, <2>1
  <2>3. \A i \in 1..Free(Len(o), ring.len, cap) : p[i] = o[i]
    BY <1>12, <1>14, <2>1
  <2>4. ring \in Ring(Byte, cap)
    BY <2>1
  <2>5. Hg_Buf_WriteN(ring, p) = Hg_Buf_WriteN(ring, o)
    BY <2>2, <2>3, <2>4, WriteNFirst
  <2> QED BY <2>1, <2>5
<1>16. Hg_Buf_WriteN(ring, h).total = Len(p)
  <2>1. Hg_Buf_WriteN(ring, h).total = Free(Len(h), ring.len, Cap)
    BY <1>3, WriteN
  <2> QED BY <1>14, <2>1
<1>17. Drained(c, ring).ring = Hg_Buf_WriteN(ring, h).ring /\ Drained(c, ring).chain = d
  BY <1>10, <1>11, <1>15
<1>18. Holds(d, SubSeq(h, Len(p) + 1, Len(h)))
  BY <1>10, <1>12, Zenon DEF Holds
<1> QED BY <1>16, <1>17, <1>18

\* The bytes of a new chain.
LEMMA NodesInitHolds == NodesInit => Holds(chain, hct)
<1>1. SUFFICES ASSUME NodesInit PROVE Holds(chain, hct)
  OBVIOUS
<1>2. chain = [node |-> <<>>, left |-> Null, right |-> Null, freen |-> Null] /\ hct = <<>>
  BY <1>1 DEF NodesInit, Init
<1>3. PICK u : u = <<>>
  OBVIOUS
<1>4. /\ chain \in Chain /\ Len(chain.node) = 0 /\ u \in Seq(1..Len(chain.node)) /\ Len(u) = 0
  <2>1. <<>> \in Seq(Node) /\ <<>> \in Seq(1..0) /\ Len(<<>>) = 0
    BY EmptySeq
  <2> QED BY <1>2, <1>3, <2>1 DEF Chain, Null
<1>5. Lists(chain, u, u)
  BY <1>2, <1>4 DEF Lists, Path, Distinct
<1>6. Content(chain, u) = <<>>
  <2>1. Grows(chain, u, ContentTo(chain, u))
    BY <1>4, ContentToDef
  <2> QED BY <1>4, <2>1 DEF Grows, Content
<1> QED BY <1>2, <1>5, <1>6, Zenon DEF Holds

\* A chain that holds the bytes of hct agrees with it in all that NodesAgree says.
LEMMA HoldsAgree == TypeOK /\ Shape(tcpbuf) /\ Holds(chain, hct) => NodesAgree
<1>1. SUFFICES ASSUME TypeOK, Shape(tcpbuf), Holds(chain, hct) PROVE NodesAgree
  OBVIOUS
<1>2. PICK u, f : Lists(chain, u, f) /\ Content(chain, u) = hct
  BY <1>1 DEF Holds
<1>3. From(chain, chain.left) = u /\ From(chain, chain.freen) = f
  BY <1>2, ListsFrom
<1>4. /\ u \in Seq(1..Len(chain.node)) /\ f \in Seq(1..Len(chain.node))
      /\ chain.node \in Seq(Node)
      /\ chain.right = IF Len(u) = 0 THEN Null ELSE u[Len(u)]
      /\ Len(u) + Len(f) = Len(chain.node)
      /\ \A n \in 1..Len(chain.node) :
           (\E i \in 1..Len(u) : u[i] = n) \/ (\E j \in 1..Len(f) : f[j] = n)
  BY <1>2 DEF Lists, Chain
<1>5. chain.right = IF u = <<>> THEN Null ELSE Last(u)
  BY <1>4 DEF Last
<1>6. ToSet(u) \cup ToSet(f) = DOMAIN chain.node
  <2>1. DOMAIN chain.node = 1..Len(chain.node) /\ DOMAIN u = 1..Len(u) /\ DOMAIN f = 1..Len(f)
    BY <1>4
  <2>2. ToSet(u) \subseteq 1..Len(chain.node) /\ ToSet(f) \subseteq 1..Len(chain.node)
    <3>1. (\A i \in 1..Len(u) : u[i] \in 1..Len(chain.node)) /\ (\A j \in 1..Len(f) : f[j] \in 1..Len(chain.node))
      <4>1. PICK l : l = 1..Len(chain.node)
        OBVIOUS
      <4>2. u \in Seq(l) /\ f \in Seq(l)
        BY <1>4, <4>1, Zenon
      <4>3. (\A i \in 1..Len(u) : u[i] \in l) /\ (\A j \in 1..Len(f) : f[j] \in l)
        BY <4>2
      <4> QED BY <4>1, <4>3, Zenon
    <3>2. ToSet(u) = {u[i] : i \in 1..Len(u)} /\ ToSet(f) = {f[j] : j \in 1..Len(f)}
      BY <2>1, Zenon DEF ToSet
    <3> QED BY <3>1, <3>2
  <2>3. 1..Len(chain.node) \subseteq ToSet(u) \cup ToSet(f)
    BY <1>4, <2>1 DEF ToSet
  <2> QED BY <2>1, <2>2, <2>3
<1>7. Drained(chain, tcpbuf).ring = Hg_Buf_WriteN(tcpbuf, hct).ring
  BY <1>1, DrainedHolds DEF TypeOK
<1> QED BY <1>2, <1>3, <1>4, <1>5, <1>6, <1>7 DEF NodesAgree

\* Every step of the detailed channel is one of Channel.
LEMMA NodesSteps == [NodesNext]_nodeVars => [Next]_vars
BY DEF NodesNext, NodesWriteChan, NodesPost, NodesDrive, NodesMove, nodeVars, Next, Drive

\* Every step keeps the bytes of the chain those of the queue.
LEMMA NodesHold ==
  ASSUME IInv, Holds(chain, hct), [NodesNext]_nodeVars
  PROVE  Holds(chain, hct)'
<1>1. ASSUME NEW t \in Threads, NEW e \in Events, NodesWriteChan(t, e)
      PROVE  Holds(chain', hct')
  <2>1. hct' = hct \o EvBytes(e) /\ chain' = Written(chain, EvBytes(e))
    BY <1>1 DEF NodesWriteChan, WriteChan
  <2>2. EvBytes(e) \in Seq(Byte)
    BY EventBytes
  <2> QED BY <2>1, <2>2, WrittenHolds
<1>2. CASE NodesMove
  <2>1. /\ hct' = SubSeq(hct, Hg_Buf_WriteN(tcpbuf, hct).total + 1, Len(hct))
        /\ chain' = Drained(chain, tcpbuf).chain
    BY <1>2 DEF NodesMove, Move
  <2>2. tcpbuf \in Ring(Byte, Cap) /\ Shape(tcpbuf)
    BY DEF IInv, TypeOK, StreamIntact
  <2> QED BY <2>1, <2>2, DrainedHolds
<1>3. ASSUME hct' = hct, chain' = chain
      PROVE  Holds(chain', hct')
  BY <1>3
<1>4. ASSUME NEW t \in Threads, NodesPost(t)
      PROVE  Holds(chain', hct')
  BY <1>3, <1>4 DEF NodesPost, Post
<1>5. CASE (SemWait \/ HandleNext \/ Return \/ NoHead \/ NoBody) /\ UNCHANGED chain
  BY <1>3, <1>5 DEF SemWait, HandleNext, Return, NoHead, NoBody
<1>6. CASE UNCHANGED nodeVars
  BY <1>3, <1>6 DEF nodeVars, vars
<1>7. Holds(chain', hct')
  BY <1>1, <1>2, <1>4, <1>5, <1>6 DEF NodesNext, NodesDrive
<1> QED BY <1>7

\* The detailed channel implements Channel, whose theorems it inherits.
THEOREM NodesImplementChannel == NodesSpec => Spec
<1>1. NodesInit => Init
  BY DEF NodesInit
<1> QED BY <1>1, NodesSteps, PTL DEF NodesSpec, Spec

\* However events are cut over the nodes, the chain holds the bytes of hct.
THEOREM NodesAlwaysAgree == NodesSpec => []NodesAgree
<1>1. NodesSpec => []IInv
  BY NodesImplementChannel, ChannelInvariant, PTL
<1>2. IInv /\ Holds(chain, hct) => NodesAgree
  BY HoldsAgree DEF IInv, StreamIntact
<1> QED BY <1>1, <1>2, NodesInitHolds, NodesHold, PTL DEF NodesSpec
=============================================================================
