-------------------------------- MODULE Pool --------------------------------
(***************************************************************************)
(* The memory pool (common/hg_pool.c).  Blocks are cut from the last of a  *)
(* list of nodes, each tLen bytes long, from low offsets to high; a block  *)
(* starts with a head of HG_ADDR_HEAD bytes that holds its offset in the   *)
(* node and its size.  memoryFree only counts: when all that was cut from  *)
(* a node is given back the node goes to the free list, to be cut again    *)
(* from its beginning.  A pool has no lock: its owner is one thread.       *)
(*                                                                         *)
(* The two lists are sequences here; PoolLinks adds the links that         *)
(* represent them.                                                         *)
(***************************************************************************)
EXTENDS Integers, Sequences, FiniteSets

CONSTANTS
  Node,          \* the nodes malloc can return
  tLen,          \* bytes of a node that can be used
  HG_ADDR_HEAD,  \* bytes of a block's head
  Sizes          \* the sizes asked for

Reals(size) == size + HG_ADDR_HEAD

\* memoryAlloc asserts that a block fits in a node.
ASSUME PoolAssumption ==
  /\ tLen \in Nat /\ HG_ADDR_HEAD \in Nat \ {0} /\ Sizes \subseteq Nat
  /\ \A size \in Sizes : Reals(size) <= tLen

VARIABLES
  nodes,    \* mypool: the nodes in use, blocks are cut from the last
  free,     \* mypool->free: the nodes with nothing in use
  made,     \* the nodes malloc has returned so far
  s,        \* per node the bytes in use
  roffset,  \* per node the bytes cut
  live      \* history: the blocks handed out and not given back

vars == <<nodes, free, made, s, roffset, live>>

Block == [node : Node, off : Nat, size : Sizes]

\* memoryCreate.
Init ==
  /\ nodes = <<>> /\ free = <<>> /\ made = {}
  /\ s = [n \in Node |-> 0] /\ roffset = [n \in Node |-> 0]
  /\ live = {}

-----------------------------------------------------------------------------
(* memoryAlloc                                                             *)

Right == nodes[Len(nodes)]

Fits(size) == nodes # <<>> /\ tLen - roffset[Right] >= Reals(size)

\* Mutant of Cut: the next block is cut where the head's room ends.
CutShort(n, off, used, size) ==
  /\ roffset' = [roffset EXCEPT ![n] = off + size]
  /\ s' = [s EXCEPT ![n] = used + Reals(size)]
  /\ live' = live \cup {[node |-> n, off |-> off, size |-> size]}

\* Cuts a block at off from a node with so many bytes in use.
Cut(n, off, used, size) ==
  /\ roffset' = [roffset EXCEPT ![n] = off + Reals(size)]
  /\ s' = [s EXCEPT ![n] = used + Reals(size)]
  /\ live' = live \cup {[node |-> n, off |-> off, size |-> size]}

FromLast(size) ==
  /\ Fits(size)
  /\ Cut(Right, roffset[Right], s[Right], size)
  /\ UNCHANGED <<nodes, free, made>>

\* memoryNewNode takes the node that has been free the longest, emptied.
FromFree(size) ==
  /\ ~Fits(size) /\ free # <<>>
  /\ nodes' = Append(nodes, Head(free))
  /\ free' = Tail(free)
  /\ Cut(Head(free), 0, 0, size)
  /\ UNCHANGED made

FromMalloc(size) ==
  /\ ~Fits(size) /\ free = <<>>
  /\ \E n \in Node \ made :
       /\ made' = made \cup {n}
       /\ nodes' = Append(nodes, n)
       /\ Cut(n, 0, 0, size)
  /\ UNCHANGED free

memoryAlloc(size) == FromLast(size) \/ FromFree(size) \/ FromMalloc(size)

-----------------------------------------------------------------------------
(* memoryFree, of a block handed out and not given back                    *)

IndexOf(q, n) == CHOOSE i \in 1..Len(q) : q[i] = n

Without(q, n) ==
  [i \in 1..Len(q)-1 |-> IF i < IndexOf(q, n) THEN q[i] ELSE q[i+1]]

\* Mutant of Rest: the head is not given back.
RestKeepsHead(b) == s[b.node] - b.size

\* What stays in use of the block's node.
Rest(b) == s[b.node] - Reals(b.size)

\* Mutant of memoryFree: the node is given back with the last block cut from it.
memoryFreeLast(b) ==
  /\ live' = live \ {b}
  /\ s' = [s EXCEPT ![b.node] = Rest(b)]
  /\ \/ /\ b.off + Reals(b.size) = roffset[b.node]
        /\ nodes' = Without(nodes, b.node)
        /\ free' = Append(free, b.node)
     \/ b.off + Reals(b.size) # roffset[b.node] /\ UNCHANGED <<nodes, free>>
  /\ UNCHANGED <<made, roffset>>

memoryFree(b) ==
  /\ live' = live \ {b}
  /\ s' = [s EXCEPT ![b.node] = Rest(b)]
  /\ \/ /\ Rest(b) = 0
        /\ nodes' = Without(nodes, b.node)
        /\ free' = Append(free, b.node)
     \/ Rest(b) # 0 /\ UNCHANGED <<nodes, free>>
  /\ UNCHANGED <<made, roffset>>

Next ==
  \/ \E size \in Sizes : memoryAlloc(size)
  \/ \E b \in live : memoryFree(b)

Spec == Init /\ [][Next]_vars

-----------------------------------------------------------------------------
(* Properties                                                              *)

\* Types.
TypeOK ==
  /\ nodes \in Seq(Node) /\ free \in Seq(Node) /\ made \subseteq Node
  /\ s \in [Node -> Nat] /\ roffset \in [Node -> 0..tLen]
  /\ live \subseteq Block

\* The bytes of a block, its head included.
Bytes(b) == b.off .. b.off + Reals(b.size) - 1

\* Blocks in use share no byte, whatever was cut and given back before, so that
\* nobody writes on another's data or on the head that memoryFree reads.
NoOverlap ==
  \A b, c \in live : b # c /\ b.node = c.node => Bytes(b) \cap Bytes(c) = {}

In(q, n) == \E i \in 1..Len(q) : q[i] = n
Distinct(q) == \A i, j \in 1..Len(q) : q[i] = q[j] => i = j

\* No node is lost or listed twice: what malloc returned is in one list, once,
\* and in the free list if and only if no block in use was cut from it.
NodesAccounted ==
  /\ Distinct(nodes) /\ Distinct(free)
  /\ \A n \in Node :
       /\ In(nodes, n) <=> \E b \in live : b.node = n
       /\ In(free, n)  <=> n \in made /\ ~In(nodes, n)

-----------------------------------------------------------------------------
(* The inductive invariant                                                 *)

\* The bytes of a node that some blocks use.
Used(blocks, n) == UNION {Bytes(b) : b \in {c \in blocks : c.node = n}}

\* Blocks lie in what has been cut of their node.
InNode == \A b \in live : b.node \in made /\ Bytes(b) \subseteq 0..roffset[b.node]-1

\* s counts the bytes in use.
Counted == \A n \in Node : s[n] = Cardinality(Used(live, n))

\* Which list a node is in can be told from its count.
Listed ==
  /\ Distinct(nodes) /\ Distinct(free)
  /\ \A n \in Node :
       /\ In(nodes, n) <=> s[n] # 0
       /\ In(free, n)  <=> n \in made /\ s[n] = 0

IInv == TypeOK /\ InNode /\ NoOverlap /\ Counted /\ Listed
=============================================================================
