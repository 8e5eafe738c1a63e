----------------------------- MODULE ChannelNodes -----------------------------
(***************************************************************************)
(* The chain of nodes behind hct of Channel (threads/hg_channel.cpp,       *)
(* common/hg_buf.cpp): buffers of NodeLen bytes in a singly linked list,   *)
(* written at its right end and drained from its left.  A node that is     *)
(* used up goes to the free list freen, from which the next one is taken.  *)
(* Channel says what the channel does with the bytes; here WriteChan and   *)
(* Drive do it with the nodes, node by node, and NodesAgree says that the  *)
(* nodes go on holding the bytes of hct.                                   *)
(***************************************************************************)
EXTENDS Channel, SequencesExt

CONSTANT NodeLen   \* HG_HG_MAX_BUF_BLOSIZE

ASSUME NodesAssumption == NodeLen \in Nat \ {0}

VARIABLE chain   \* node: the nodes ever made; left, right and freen: their lists

nodeVars == <<vars, chain>>

Null == 0

\* t_chainNode and its t_chainNodeData, from memoryAlloc and init().
NewNode ==
  [next |-> Null, data |-> [j \in 0..NodeLen-1 |-> <<>>], start |-> 0, end |-> 0, len |-> 0]

NodesInit ==
  /\ Init
  /\ chain = [node |-> <<>>, left |-> Null, right |-> Null, freen |-> Null]

-----------------------------------------------------------------------------
(* The lists (hg_buf.cpp)                                                  *)

Hg_SinglePushR(c, n) ==
  IF c.right = Null THEN [c EXCEPT !.left = n, !.right = n]
  ELSE [c EXCEPT !.node[c.right].next = n, !.right = n]

\* A free node, reset, or a new one.
Hg_SingleNewNode(c) ==
  IF c.freen = Null
  THEN Hg_SinglePushR([c EXCEPT !.node = Append(@, NewNode)], Len(c.node) + 1)
  ELSE Hg_SinglePushR(
         [c EXCEPT !.freen = c.node[c.freen].next,
                   !.node[c.freen] = [NewNode EXCEPT !.data = c.node[c.freen].data]],
         c.freen)

\* Mutant of Hg_SingleDelchainL: the right end of an emptied chain stays.
DelchainKeepsRight(c) ==
  [c EXCEPT !.left = c.node[c.left].next,
            !.node[c.left].next = c.freen, !.freen = c.left]

\* The leftmost node goes to the free list.
Hg_SingleDelchainL(c) ==
  LET next == c.node[c.left].next
  IN  [c EXCEPT !.left = next, !.right = IF next = Null THEN Null ELSE @,
                !.node[c.left].next = c.freen, !.freen = c.left]

-----------------------------------------------------------------------------
(* WriteChan                                                               *)

\* What is left to the right of a node's bytes; what was drained is not.
Idle(c) ==
  IF c.right = Null THEN 0 ELSE NodeLen - c.node[c.right].len - c.node[c.right].start

Hg_GetSingleOrIdleBuf(c) == IF Idle(c) > 0 THEN c ELSE Hg_SingleNewNode(c)

\* The first n bytes go behind those of a node.
Filled(node, bytes, n) ==
  [node EXCEPT !.data = Memcpy(@, node.end, bytes, 0, n),
               !.len = @ + n, !.end = Wrap(@ + n, NodeLen)]

\* One turn of its loop: as much as the rightmost node takes.
WriteTurn(w) ==
  IF w.rest = <<>> THEN w
  ELSE LET c      == Hg_GetSingleOrIdleBuf(w.chain)
           realcp == IF Idle(c) <= Len(w.rest) THEN Idle(c) ELSE Len(w.rest)
       IN  [chain |-> [c EXCEPT !.node[c.right] = Filled(@, w.rest, realcp)],
            rest  |-> SubSeq(w.rest, realcp + 1, Len(w.rest))]

\* All turns: each takes at least one byte.
WriteTurns(c, bytes) ==
  LET after[k \in 0..Len(bytes)] ==
        IF k = 0 THEN [chain |-> c, rest |-> bytes] ELSE WriteTurn(after[k-1])
  IN  after
Written(c, bytes) == WriteTurns(c, bytes)[Len(bytes)].chain

NodesWriteChan(t, e) == WriteChan(t, e) /\ chain' = Written(chain, EvBytes(e))

-----------------------------------------------------------------------------
(* Drive                                                                   *)

\* The nodes of a list in their order, from node n on.
Links(c, n) ==
  LET nth[k \in 0..Len(c.node)] ==
        IF k = 0 THEN n
        ELSE IF nth[k-1] = Null THEN Null ELSE c.node[nth[k-1]].next
  IN  nth
From(c, n) ==
  LET there == {k \in 1..Len(c.node) : Links(c, n)[k-1] # Null}
  IN  [k \in 1..Cardinality(there) |-> Links(c, n)[k-1]]

Bytes(node) == [i \in 1..node.len |-> node.data[node.start + i - 1]]

\* The first n bytes are taken off a node.
Shortened(node, n) == [node EXCEPT !.start = Wrap(@ + n, NodeLen), !.len = @ - n]

\* One turn of its loop: the leftmost node is emptied, or what the ring took
\* is taken off it and the loop ends.
DriveTurn(d) ==
  LET c == d.chain
      w == Hg_Buf_WriteN(d.ring, Bytes(c.node[c.left]))
  IN  IF d.full THEN d
      ELSE IF w.total < c.node[c.left].len
      THEN [ring |-> w.ring, full |-> TRUE,
            chain |-> [c EXCEPT !.node[c.left] = Shortened(@, w.total)]]
      ELSE [ring |-> w.ring, full |-> FALSE, chain |-> Hg_SingleDelchainL(c)]

\* All turns: at most one for each node of the chain.
DriveTurns(c, ring) ==
  LET after[k \in 0..Len(From(c, c.left))] ==
        IF k = 0 THEN [chain |-> c, ring |-> ring, full |-> FALSE] ELSE DriveTurn(after[k-1])
  IN  after
Drained(c, ring) == DriveTurns(c, ring)[Len(From(c, c.left))]

NodesMove == Move /\ chain' = Drained(chain, tcpbuf).chain

\* The rest of Drive and Handlemsg, and sem_post, leave the chain alone.
NodesDrive ==
  \/ NodesMove
  \/ (SemWait \/ HandleNext \/ Return \/ NoHead \/ NoBody) /\ UNCHANGED chain
NodesPost(t) == Post(t) /\ UNCHANGED chain

NodesNext ==
  \/ \E t \in Threads, e \in Events : NodesWriteChan(t, e)
  \/ \E t \in Threads : NodesPost(t)
  \/ NodesDrive

NodesSpec == NodesInit /\ [][NodesNext]_nodeVars

\* The fairness is that of Channel: the chain is never in the way of a thread.
NodesFairSpec == NodesSpec /\ Fairness

-----------------------------------------------------------------------------
\* The bytes of a list of nodes, one node after the other.
ContentTo(c, list) ==
  LET upTo[k \in 0..Len(list)] ==
        IF k = 0 THEN <<>> ELSE upTo[k-1] \o Bytes(c.node[list[k]])
  IN  upTo
Content(c, list) == ContentTo(c, list)[Len(list)]

\* Read from left to right the nodes hold the bytes of hct; each node made is
\* once in the chain or once in the free list; and moving node after node fills
\* the ring as moving all bytes at once does.  However an event is cut over
\* nodes half drained, none is dropped, read twice, or written while it is free.
NodesAgree ==
  LET used == From(chain, chain.left)
      free == From(chain, chain.freen)
  IN  /\ Content(chain, used) = hct
      /\ chain.right = IF used = <<>> THEN Null ELSE Last(used)
      /\ Len(used) + Len(free) = Len(chain.node)
      /\ ToSet(used) \cup ToSet(free) = DOMAIN chain.node
      /\ pc = "move" => Drained(chain, tcpbuf).ring = Hg_Buf_WriteN(tcpbuf, hct).ring
=============================================================================
