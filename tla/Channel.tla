------------------------------- MODULE Channel -------------------------------
(***************************************************************************)
(* HgChannel (threads/hg_channel.cpp), the queue in front of every worker  *)
(* thread and of the main thread.  Any thread writes an event, a fixed     *)
(* head followed by psize bytes of parameters, into a chain of nodes under *)
(* a spin lock and posts a semaphore AFTER the lock is released; the one   *)
(* thread that owns the channel loops in Drive: it takes a token, moves    *)
(* what fits from the chain into its private ring under the same lock, and *)
(* runs, with the lock free, the handler of every whole event in the ring. *)
(* A handler may itself write to the channel that runs it.                 *)
(*                                                                         *)
(* What the spin lock protects (hct) is touched only inside the two        *)
(* critical sections, so each of them is one step.  The nodes of the chain *)
(* are a representation of one byte sequence (a node is written at its     *)
(* right end and drained from its left): hct is that sequence.             *)
(***************************************************************************)
EXTENDS RingBuf, FiniteSets

CONSTANTS
  Writers,    \* the threads that write to the channel and do not own it
  Consumer,   \* the thread that loops in Drive
  Events,     \* the events that may be written
  Psize,      \* the number of parameter bytes of each event
  HeadLen,    \* sizeof(t_huageEvent)
  Cap,        \* HG_CHANNEL_LEN_MAX, the size of the ring
  MaxSent     \* bound on the number of events written

EvLen(e) == HeadLen + Psize[e]

\* Every event that the program queues carries at least a pointer, and head
\* and parameters fit in the ring.
ASSUME ChannelAssumption ==
  /\ Consumer \notin Writers
  /\ IsFiniteSet(Writers)
  /\ HeadLen \in Nat \ {0}
  /\ Cap \in Nat \ {0}
  /\ MaxSent \in Nat
  /\ Psize \in [Events -> Nat \ {0}]
  /\ \A e \in Events : HeadLen + Psize[e] <= Cap

Threads == Writers \cup {Consumer}

\* The bytes of an event, as they are copied; <<>> is a cell never written.
EvBytes(e) == [i \in 1..EvLen(e) |-> <<e, i>>]
Byte == (Events \X Nat) \cup {<<>>}

\* What the history keeps of a WriteChan: the event, and its stream offset.
LogEntry == [ev : Events, at : Nat]

VARIABLES
  hct,        \* bytes in the chain, oldest first (under the spin lock)
  tcpbuf,     \* the ring, private to the consumer
  eventSem,   \* value of the semaphore
  posting,    \* threads that have released the lock and not yet posted
  pc,         \* where the consumer is in Drive / Handlemsg
  sent,       \* history: what WriteChan accepted, and at which stream offset
  handled     \* history: head and parameters each handler was called with

vars == <<hct, tcpbuf, eventSem, posting, pc, sent, handled>>

Init ==
  /\ hct = <<>>
  /\ tcpbuf = NewRing(Cap, <<>>)
  /\ eventSem = 0
  /\ posting = {}
  /\ pc = "wait"
  /\ sent = <<>>
  /\ handled = <<>>

\* Bytes ever written, and bytes ever handed to a handler.
WritePos == IF sent = <<>> THEN 0 ELSE sent[Len(sent)].at + EvLen(sent[Len(sent)].ev)
ReadPos  == WritePos - Len(hct) - tcpbuf.len

-----------------------------------------------------------------------------
(* WriteChan(data, size, 1)                                                *)

\* Mutant of WriteChan: the semaphore is posted for an empty chain only.
WriteChanPostsIfEmpty(t, e) ==
  /\ Len(sent) < MaxSent
  /\ t \notin posting
  /\ t = Consumer => pc = "handler"
  /\ hct' = hct \o EvBytes(e)
  /\ sent' = Append(sent, [ev |-> e, at |-> WritePos])
  /\ posting' = IF hct = <<>> THEN posting \cup {t} ELSE posting
  /\ UNCHANGED <<tcpbuf, eventSem, pc, handled>>

\* The critical section: the event goes whole to the right end of the chain.
\* The consumer writes only from inside a handler.
WriteChan(t, e) ==
  /\ Len(sent) < MaxSent
  /\ t \notin posting
  /\ t = Consumer => pc = "handler"
  /\ hct' = hct \o EvBytes(e)
  /\ sent' = Append(sent, [ev |-> e, at |-> WritePos])
  /\ posting' = posting \cup {t}
  /\ UNCHANGED <<tcpbuf, eventSem, pc, handled>>

\* sem_post, after the lock is released.
Post(t) ==
  /\ t \in posting
  /\ posting' = posting \ {t}
  /\ eventSem' = eventSem + 1
  /\ UNCHANGED <<hct, tcpbuf, pc, sent, handled>>

-----------------------------------------------------------------------------
(* Drive(data, 1)                                                          *)

\* Mutant of SemWait: the turn takes all tokens.
SemWaitTakesAll ==
  /\ pc = "wait"
  /\ eventSem > 0
  /\ eventSem' = 0
  /\ pc' = "move"
  /\ UNCHANGED <<hct, tcpbuf, posting, sent, handled>>

SemWait ==
  /\ pc = "wait"
  /\ eventSem > 0
  /\ eventSem' = eventSem - 1
  /\ pc' = "move"
  /\ UNCHANGED <<hct, tcpbuf, posting, sent, handled>>

\* Mutant of Move: what does not fit in the ring is dropped from the chain.
MoveDropsRest ==
  /\ pc = "move"
  /\ tcpbuf' = Hg_Buf_WriteN(tcpbuf, hct).ring
  /\ hct' = <<>>
  /\ pc' = "read"
  /\ UNCHANGED <<eventSem, posting, sent, handled>>

\* The second critical section: from the left of the chain into the ring
\* until the chain is empty or the ring is full.
Move ==
  /\ pc = "move"
  /\ LET w == Hg_Buf_WriteN(tcpbuf, hct)
     IN  /\ tcpbuf' = w.ring
         /\ hct' = SubSeq(hct, w.total + 1, Len(hct))
  /\ pc' = "read"
  /\ UNCHANGED <<eventSem, posting, sent, handled>>

-----------------------------------------------------------------------------
(* Handlemsg: the head is read first and says how many bytes follow.       *)

Head1    == ReadBytes(tcpbuf, HeadLen)
PastHead == AfterRead(tcpbuf, HeadLen)
PsizeOf(head) == Psize[head[1][1]]

HandleNext ==
  /\ pc = "read"
  /\ CanRead(tcpbuf, HeadLen)
  /\ CanRead(PastHead, PsizeOf(Head1))
  /\ LET n == PsizeOf(Head1)
     IN  /\ handled' = Append(handled, Head1 \o ReadBytes(PastHead, n))
         /\ tcpbuf' = AfterRead(PastHead, n)
  /\ pc' = "handler"
  /\ UNCHANGED <<hct, eventSem, posting, sent>>

\* The handler returns; anything it wrote has been posted.
Return ==
  /\ pc = "handler"
  /\ Consumer \notin posting
  /\ pc' = "read"
  /\ UNCHANGED <<hct, tcpbuf, eventSem, posting, sent, handled>>

NoHead ==
  /\ pc = "read"
  /\ ~CanRead(tcpbuf, HeadLen)
  /\ pc' = "wait"
  /\ UNCHANGED <<hct, tcpbuf, eventSem, posting, sent, handled>>

\* A head whose parameters are still in the chain is put back.
NoBody ==
  /\ pc = "read"
  /\ CanRead(tcpbuf, HeadLen)
  /\ ~CanRead(PastHead, PsizeOf(Head1))
  /\ tcpbuf' = PushBack(PastHead, HeadLen)
  /\ pc' = "wait"
  /\ UNCHANGED <<hct, eventSem, posting, sent, handled>>

Drive == SemWait \/ Move \/ HandleNext \/ Return \/ NoHead \/ NoBody

Next ==
  \/ \E t \in Threads, e \in Events : WriteChan(t, e)
  \/ \E t \in Threads : Post(t)
  \/ Drive

\* Threads are scheduled: Drive is an endless loop, a thread that released
\* the lock goes on to post.  Nothing forces a thread to write.
Fairness == WF_vars(Drive) /\ \A t \in Threads : WF_vars(Post(t))

Spec == Init /\ [][Next]_vars
FairSpec == Spec /\ Fairness

-----------------------------------------------------------------------------
(* Properties                                                              *)

\* Types: chain and ring hold bytes of events, the indices of the ring are in
\* range, the semaphore counts.
TypeOK ==
  /\ hct \in Seq(Byte)
  /\ tcpbuf \in Ring(Byte, Cap)
  /\ eventSem \in Nat
  /\ posting \subseteq Threads
  /\ pc \in {"wait", "move", "read", "handler"}
  /\ sent \in Seq(LogEntry)
  /\ handled \in Seq(Seq(Byte))

\* Handlers run in the order in which WriteChan accepted the events, once
\* each, with exactly the head and the parameters that were written: no wrap
\* of the ring, split event or put-back head tears or repeats one.
ExactlyOnceInOrder ==
  /\ Len(handled) <= Len(sent)
  /\ \A k \in 1..Len(handled) : handled[k] = EvBytes(sent[k].ev)

\* No wakeup is lost: every unhandled event is covered by a token, by a
\* thread about to post one, or by the turn the consumer is taking now.  The
\* post comes after the unlock and one turn may drain several events or be
\* cut short by a full ring, so tokens and events do not correspond one to one.
NoLostWakeup ==
  Len(sent) - Len(handled) <=
    eventSem + Cardinality(posting) + (IF pc = "wait" THEN 0 ELSE 1)

(* The inductive invariant behind the two.  Ring and chain together are the *)
(* stream from the first unhandled event on: the j-th byte of it is Ahead.  *)
Ahead(j) == IF j <= tcpbuf.len THEN Unread(tcpbuf, j) ELSE hct[j - tcpbuf.len]

Unhandled == Len(sent) - Len(handled)

\* Events lie behind one another in the stream.
LogOrder ==
  /\ \A k \in 1..Len(sent) : sent[k].at + EvLen(sent[k].ev) <= WritePos
  /\ \A j, k \in 1..Len(sent) :
       j < k => sent[j].at + EvLen(sent[j].ev) <= sent[k].at
  /\ \A k \in 1..Len(sent)-1 :
       sent[k+1].at = sent[k].at + EvLen(sent[k].ev)

\* Between two steps the consumer stands at the start of an event, and what
\* lies ahead of it is exactly the unhandled events.
StreamIntact ==
  /\ Shape(tcpbuf)
  /\ Len(handled) <= Len(sent)
  /\ ReadPos = IF Len(handled) < Len(sent) THEN sent[Len(handled)+1].at ELSE WritePos
  /\ \A k \in Len(handled)+1..Len(sent) : \A i \in 1..EvLen(sent[k].ev) :
       Ahead(sent[k].at - ReadPos + i) = <<sent[k].ev, i>>

\* The ring holds a whole event.
WholeEvent == Unhandled > 0 /\ EvLen(sent[Len(handled)+1].ev) <= tcpbuf.len

\* A turn is worth one event: it gives its surplus back once it has run a
\* handler, or when it finds no whole event in the ring.
TurnCovers ==
  LET tokens == eventSem + Cardinality(posting)
  IN  /\ pc \in {"wait", "handler"} => Unhandled <= tokens
      /\ pc \in {"move", "read"} => Unhandled <= tokens + 1
      /\ pc = "read" /\ ~WholeEvent => Unhandled <= tokens

\* The inductive invariant: the stream of bytes from the first unhandled event
\* on is whole in ring and chain, and tokens and turns cover the events in it.
IInv == TypeOK /\ LogOrder /\ StreamIntact /\ TurnCovers /\ ExactlyOnceInOrder

\* Every accepted event is handled in the end, even one that found the ring
\* full or that a handler wrote to its own channel.
EveryEventHandled ==
  \A k \in 1..MaxSent : Len(sent) >= k ~> Len(handled) >= k

\* The channel implements the ordered exactly-once queue of ChannelSpec.
Abstract == INSTANCE ChannelSpec WITH
  Event     <- {EvBytes(e) : e \in Events},
  accepted  <- [k \in 1..Len(sent) |-> EvBytes(sent[k].ev)],
  delivered <- handled
RefinesQueue == Abstract!CSpec
=============================================================================
