--------------------------- MODULE ResourceProofs ---------------------------
(***************************************************************************)
(* Theorems about what the server takes and gives back.                    *)
(*                                                                         *)
(* First the memory pool, for any nodes, node length and sizes: no blocks  *)
(* overlap, no node is lost, and the links of its two lists represent the  *)
(* lists, in any order of calls.                                           *)
(*                                                                         *)
(* Then sockets, fd events and connections, for any clients, any numbers   *)
(* of workers, events and connections and any bounds: what Connections     *)
(* says of them holds of every behaviour.                                  *)
(***************************************************************************)
EXTENDS Connections, PoolLinks, DataProofs, FiniteSetTheorems, SequenceTheorems

-----------------------------------------------------------------------------
(* Lists of distinct nodes                                                 *)

\* A node put at the end.
LEMMA AtEnd ==
  ASSUME NEW q \in Seq(Node), NEW n \in Node, Distinct(q), ~In(q, n)
  PROVE  /\ Append(q, n) \in Seq(Node) /\ Distinct(Append(q, n))
         /\ \A m : In(Append(q, n), m) <=> In(q, m) \/ m = n
<1>1. /\ Append(q, n) \in Seq(Node) /\ Len(Append(q, n)) = Len(q) + 1
      /\ \A i \in 1..Len(q) : Append(q, n)[i] = q[i]
      /\ Append(q, n)[Len(q)+1] = n
  BY AppendProperties
<1>2. Len(q) \in Nat
  BY LenProperties
<1>3. Distinct(Append(q, n))
  BY <1>1, <1>2 DEF Distinct, In
<1>4. ASSUME NEW m PROVE In(Append(q, n), m) <=> In(q, m) \/ m = n
  BY <1>1, <1>2 DEF In
<1> QED BY <1>1, <1>3, <1>4

\* The first node taken off.
LEMMA OffFront ==
  ASSUME NEW q \in Seq(Node), Distinct(q), q # <<>>
  PROVE  /\ Head(q) \in Node /\ In(q, Head(q))
         /\ Tail(q) \in Seq(Node) /\ Distinct(Tail(q))
         /\ \A m : In(Tail(q), m) <=> In(q, m) /\ m # Head(q)
<1>1. /\ Head(q) = q[1] /\ Head(q) \in Node
      /\ Tail(q) \in Seq(Node) /\ Len(Tail(q)) = Len(q) - 1
      /\ \A i \in 1..Len(Tail(q)) : Tail(q)[i] = q[i+1]
  BY HeadTailProperties
<1>2. Len(q) \in Nat \ {0}
  BY LenProperties, EmptySeq
<1>3. In(q, Head(q))
  BY <1>1, <1>2 DEF In
<1>4. Distinct(Tail(q))
  <2> SUFFICES ASSUME NEW i \in 1..Len(Tail(q)), NEW j \in 1..Len(Tail(q)), Tail(q)[i] = Tail(q)[j]
               PROVE  i = j
    BY DEF Distinct
  <2>1. i+1 \in 1..Len(q) /\ j+1 \in 1..Len(q) /\ q[i+1] = q[j+1]
    BY <1>1, <1>2
  <2>2. i+1 = j+1
    BY <2>1 DEF Distinct
  <2> QED BY <2>2, <1>1, <1>2
<1>5. ASSUME NEW m, In(Tail(q), m) PROVE In(q, m) /\ m # Head(q)
  <2>1. PICK i \in 1..Len(Tail(q)) : Tail(q)[i] = m
    BY <1>5 DEF In
  <2>2. i+1 \in 1..Len(q) /\ q[i+1] = m /\ 1 \in 1..Len(q) /\ i+1 # 1
    BY <2>1, <1>1, <1>2
  <2>3. q[1] # m
    BY <2>2 DEF Distinct
  <2> QED BY <2>2, <2>3, <1>1 DEF In
<1>6. ASSUME NEW m, In(q, m), m # Head(q) PROVE In(Tail(q), m)
  <2>1. PICK i \in 1..Len(q) : q[i] = m
    BY <1>6 DEF In
  <2>2. i # 1
    BY <2>1, <1>6, <1>1
  <2>3. i-1 \in 1..Len(Tail(q)) /\ (i-1)+1 = i
    BY <2>2, <1>1, <1>2
  <2>4. Tail(q)[i-1] = m
    BY <2>3, <2>1, <1>1
  <2> QED BY <2>3, <2>4 DEF In
<1> QED BY <1>1, <1>3, <1>4, <1>5, <1>6

\* A node taken out of the middle.
LEMMA TakenOut ==
  ASSUME NEW q \in Seq(Node), NEW n \in Node, Distinct(q), In(q, n)
  PROVE  /\ Without(q, n) \in Seq(Node) /\ Distinct(Without(q, n))
         /\ \A m : In(Without(q, n), m) <=> In(q, m) /\ m # n
<1> DEFINE k == IndexOf(q, n)
           w == Without(q, n)
<1>1. k \in 1..Len(q) /\ q[k] = n
  BY DEF IndexOf, In
<1>2. Len(q) \in Nat /\ \A i \in 1..Len(q) : q[i] \in Node
  BY LenProperties, ElementOfSeq
<1>3. w = [i \in 1..Len(q)-1 |-> IF i < k THEN q[i] ELSE q[i+1]]
  BY DEF Without
<1> HIDE DEF k, w
<1>4. \A i \in 1..Len(q)-1 : w[i] \in Node
  BY <1>1, <1>2, <1>3
<1>5. w \in [1..Len(q)-1 -> Node]
  BY <1>3, <1>4
<1>6. w \in Seq(Node) /\ Len(w) = Len(q)-1
  <2>1. Len(q)-1 \in Nat
    BY <1>1, <1>2
  <2> QED BY <2>1, <1>5, LenProperties, IsASeq
<1>7. Distinct(w)
  BY <1>1, <1>2, <1>3, <1>6 DEF Distinct
<1>8. ASSUME NEW m, In(w, m) PROVE In(q, m) /\ m # n
  <2>1. PICK i \in 1..Len(q)-1 : w[i] = m
    BY <1>8, <1>6 DEF In
  <2>2. PICK j \in 1..Len(q) : q[j] = m /\ j # k
    BY <2>1, <1>1, <1>2, <1>3
  <2> QED BY <2>2, <1>1 DEF In, Distinct
<1>9. ASSUME NEW m, In(q, m), m # n PROVE In(w, m)
  <2>1. PICK j \in 1..Len(q) : q[j] = m
    BY <1>9 DEF In
  <2>2. j # k
    BY <2>1, <1>9, <1>1
  <2>3. CASE j < k
    <3>1. j \in 1..Len(q)-1 /\ w[j] = m
      BY <2>3, <2>1, <1>1, <1>2, <1>3
    <3> QED BY <3>1, <1>6 DEF In
  <2>4. CASE j > k
    <3>1. j-1 \in 1..Len(q)-1 /\ ~(j-1 < k) /\ (j-1)+1 = j
      BY <2>4, <2>1, <1>1, <1>2
    <3>2. w[j-1] = m
      BY <3>1, <2>1, <1>3
    <3> QED BY <3>1, <3>2, <1>6 DEF In
  <2> QED BY <2>2, <2>3, <2>4, <1>1, <1>2
<1> QED BY <1>6, <1>7, <1>8, <1>9 DEF w

-----------------------------------------------------------------------------
(* Bytes in use                                                            *)

LEMMA BytesOf ==
  ASSUME NEW b \in Block
  PROVE  /\ Reals(b.size) \in Nat \ {0} /\ b.off \in Nat
         /\ Bytes(b) \subseteq Nat /\ Bytes(b) # {} /\ IsFiniteSet(Bytes(b))
         /\ Cardinality(Bytes(b)) = Reals(b.size)
<1>1. b.off \in Nat /\ b.size \in Nat
  BY PoolAssumption DEF Block
<1>2. Reals(b.size) \in Nat \ {0}
  BY <1>1, PoolAssumption DEF Reals
<1> DEFINE lo == b.off
           hi == b.off + Reals(b.size) - 1
<1>3. lo \in Int /\ hi \in Int /\ lo <= hi /\ hi - lo + 1 = Reals(b.size)
  BY <1>1, <1>2
<1>4. Bytes(b) = lo..hi
  BY DEF Bytes
<1> HIDE DEF lo, hi
<1>5. IsFiniteSet(lo..hi) /\ Cardinality(lo..hi) = Reals(b.size)
  BY <1>3, FS_Interval
<1>6. lo..hi \subseteq Nat /\ lo \in lo..hi
  BY <1>1, <1>3 DEF lo
<1> QED BY <1>1, <1>2, <1>4, <1>5, <1>6

\* A node has no byte in use if and only if no block of it is.
LEMMA NothingUsed ==
  ASSUME NEW blocks \in SUBSET Block, NEW n
  PROVE  Used(blocks, n) = {} <=> ~ \E b \in blocks : b.node = n
<1>1. \A b \in blocks : Bytes(b) # {}
  BY BytesOf
<1> QED BY <1>1 DEF Used

LEMMA UsedIsFinite ==
  ASSUME TypeOK, InNode, NEW n \in Node
  PROVE  /\ Used(live, n) \subseteq 0..roffset[n]-1
         /\ IsFiniteSet(Used(live, n)) /\ Cardinality(Used(live, n)) \in Nat
         /\ Cardinality(Used(live, n)) = 0 <=> Used(live, n) = {}
<1>1. Used(live, n) \subseteq 0..roffset[n]-1
  BY DEF InNode, Used
<1>2. roffset[n] \in Nat /\ roffset[n]-1 \in Int
  BY PoolAssumption DEF TypeOK
<1>3. IsFiniteSet(0..roffset[n]-1)
  BY <1>2, FS_Interval
<1>4. IsFiniteSet(Used(live, n))
  BY <1>1, <1>3, FS_Subset
<1> QED BY <1>1, <1>4, FS_CardinalityType, FS_EmptySet

-----------------------------------------------------------------------------
(* Cutting a block                                                         *)

\* A block cut behind all that is in use of a node, with the count of what is.
LEMMA CutStep ==
  ASSUME TypeOK, InNode, NoOverlap, Counted,
         NEW size \in Sizes, NEW n \in Node, NEW off \in Nat,
         off + Reals(size) <= tLen,
         Used(live, n) \subseteq 0..off-1,
         made \subseteq made', n \in made',
         Cut(n, off, Cardinality(Used(live, n)), size)
  PROVE  /\ s' \in [Node -> Nat] /\ roffset' \in [Node -> 0..tLen]
         /\ live' \subseteq Block
         /\ InNode' /\ NoOverlap' /\ Counted'
         /\ s'[n] # 0 /\ \A m \in Node \ {n} : s'[m] = s[m]
<1> DEFINE new == [node |-> n, off |-> off, size |-> size]
           U == Used(live, n)
<1>1. new \in Block /\ new.node = n /\ new.off = off /\ new.size = size
  BY DEF Block
<1>2. Reals(size) \in Nat \ {0} /\ IsFiniteSet(Bytes(new)) /\ Cardinality(Bytes(new)) = Reals(size)
  BY <1>1, BytesOf
<1>3. Bytes(new) = off..off + Reals(size) - 1
  BY <1>1 DEF Bytes
<1>4. live' = live \cup {new}
  BY DEF Cut
<1>5. IsFiniteSet(U) /\ Cardinality(U) \in Nat
  BY UsedIsFinite
<1> HIDE DEF new
<1>6. U \cap Bytes(new) = {}
  BY <1>2, <1>3
<1>7. /\ s' = [s EXCEPT ![n] = Cardinality(U) + Reals(size)]
      /\ roffset' = [roffset EXCEPT ![n] = off + Reals(size)]
  BY DEF Cut
<1>8. s' \in [Node -> Nat] /\ s'[n] = Cardinality(U) + Reals(size) /\ s'[n] # 0
  BY <1>2, <1>5, <1>7 DEF TypeOK
<1>9. roffset' \in [Node -> 0..tLen] /\ roffset'[n] = off + Reals(size)
  BY <1>2, <1>7, PoolAssumption DEF TypeOK
<1>10. \A m \in Node \ {n} : s'[m] = s[m] /\ roffset'[m] = roffset[m]
  BY <1>7 DEF TypeOK
<1>11. live' \subseteq Block
  BY <1>1, <1>4 DEF TypeOK
<1>12. InNode'
  <2> SUFFICES ASSUME NEW b \in live'
               PROVE  b.node \in made' /\ Bytes(b) \subseteq 0..roffset'[b.node]-1
    BY DEF InNode, Bytes, Reals
  <2>1. CASE b = new
    <3>1. Bytes(new) \subseteq 0..roffset'[n]-1
      BY <1>2, <1>3, <1>9
    <3> QED BY <2>1, <3>1, <1>1
  <2>2. CASE b \in live /\ b.node = n
    <3>1. Bytes(b) \subseteq 0..off-1
      BY <2>2 DEF Used
    <3>2. 0..off-1 \subseteq 0..roffset'[n]-1
      BY <1>2, <1>9
    <3> QED BY <2>2, <3>1, <3>2
  <2>3. CASE b \in live /\ b.node # n
    <3>1. b.node \in Node /\ b.node \in made /\ Bytes(b) \subseteq 0..roffset[b.node]-1
      BY <2>3 DEF InNode, TypeOK, Block
    <3> QED BY <2>3, <3>1, <1>10
  <2> QED BY <2>1, <2>2, <2>3, <1>4
<1>13. NoOverlap'
  <2>1. ASSUME NEW b \in live, b.node = n PROVE Bytes(b) \cap Bytes(new) = {}
    BY <2>1, <1>6 DEF Used
  <2> SUFFICES ASSUME NEW b \in live', NEW c \in live', b # c, b.node = c.node
               PROVE  Bytes(b) \cap Bytes(c) = {}
    BY DEF NoOverlap, Bytes, Reals
  <2>2. CASE b \in live /\ c \in live
    BY <2>2 DEF NoOverlap
  <2>3. CASE b = new \/ c = new
    BY <2>1, <2>3, <1>1, <1>4
  <2> QED BY <2>2, <2>3, <1>4
<1>14. Counted'
  <2> SUFFICES ASSUME NEW m \in Node PROVE s'[m] = Cardinality(Used(live', m))
    BY DEF Counted, Used, Bytes, Reals
  <2>1. CASE m = n
    <3>1. Used(live', n) = U \cup Bytes(new)
      BY <1>1, <1>4 DEF Used
    <3>2. Cardinality(U \cup Bytes(new)) = Cardinality(U) + Reals(size) - Cardinality(U \cap Bytes(new))
      BY <1>2, <1>5, FS_Union
    <3>3. Cardinality(U \cap Bytes(new)) = 0
      BY <1>6, FS_EmptySet
    <3> HIDE DEF U
    <3> QED BY <2>1, <3>1, <3>2, <3>3, <1>2, <1>5, <1>8
  <2>2. CASE m # n
    <3>1. Used(live', m) = Used(live, m)
      BY <2>2, <1>1, <1>4 DEF Used
    <3> QED BY <2>2, <3>1, <1>10 DEF Counted
  <2> QED BY <2>1, <2>2
<1> QED BY <1>8, <1>9, <1>10, <1>11, <1>12, <1>13, <1>14

-----------------------------------------------------------------------------
(* memoryAlloc                                                             *)

LEMMA FromLastStep ==
  ASSUME IInv, NEW size \in Sizes, FromLast(size)
  PROVE  IInv'
<1> DEFINE n == Right
<1>1. Len(nodes) \in Nat \ {0} /\ Len(nodes) \in 1..Len(nodes)
  BY EmptySeq, LenProperties DEF IInv, TypeOK, FromLast, Fits
<1>2. n \in Node /\ In(nodes, n)
  BY <1>1, ElementOfSeq DEF IInv, TypeOK, Right, In
<1>3. n \in made /\ s[n] # 0 /\ ~In(free, n)
  <2>1. s[n] # 0 /\ ~In(free, n)
    BY <1>2 DEF IInv, Listed
  <2>2. Used(live, n) # {}
    BY <2>1, <1>2, FS_EmptySet DEF IInv, Counted
  <2>3. PICK b \in live : b.node = n
    BY <2>2, NothingUsed DEF IInv, TypeOK
  <2> QED BY <2>1, <2>3 DEF IInv, InNode
<1>4. roffset[n] \in Nat /\ roffset[n] + Reals(size) <= tLen
  <2>1. roffset[n] \in Nat /\ Reals(size) \in Nat
    BY <1>2, PoolAssumption DEF IInv, TypeOK, Reals
  <2> QED BY <2>1, PoolAssumption DEF FromLast, Fits
<1>5. Used(live, n) \subseteq 0..roffset[n]-1
  BY <1>2, UsedIsFinite DEF IInv
<1>6. Cut(n, roffset[n], Cardinality(Used(live, n)), size)
  BY <1>2 DEF FromLast, IInv, Counted
<1>7. nodes' = nodes /\ free' = free /\ made' = made
  BY DEF FromLast
<1> HIDE DEF n
<1>8. /\ s' \in [Node -> Nat] /\ roffset' \in [Node -> 0..tLen] /\ live' \subseteq Block
      /\ InNode' /\ NoOverlap' /\ Counted'
      /\ s'[n] # 0 /\ \A m \in Node \ {n} : s'[m] = s[m]
  BY <1>2, <1>3, <1>4, <1>5, <1>6, <1>7, CutStep DEF IInv
<1>9. TypeOK'
  BY <1>7, <1>8 DEF IInv, TypeOK
<1>10. Listed'
  BY SMTT(30), <1>2, <1>3, <1>7, <1>8 DEF IInv, Listed, In, Distinct
<1> QED BY <1>8, <1>9, <1>10 DEF IInv

\* The node joins the list: one that was free, or one malloc returned.
LEMMA NewNodeStep ==
  ASSUME IInv, NEW size \in Sizes, NEW n \in Node,
         ~In(nodes, n),
         made' \in SUBSET Node, made \subseteq made', n \in made',
         nodes' = Append(nodes, n),
         free' \in Seq(Node), Distinct(free'),
         \A m \in Node : In(free', m) <=> m \in made' /\ s[m] = 0 /\ m # n,
         \A m \in made' \ made : m = n,
         Cut(n, 0, 0, size)
  PROVE  IInv'
<1>1. s[n] = 0
  BY DEF IInv, Listed
<1>2. Cardinality(Used(live, n)) = 0 /\ Used(live, n) = {}
  BY <1>1, UsedIsFinite DEF IInv, Counted
<1>3. 0 \in Nat /\ 0 + Reals(size) <= tLen
  BY PoolAssumption DEF Reals
<1>4. Used(live, n) \subseteq 0..0-1
  BY <1>2
<1>5. Cut(n, 0, Cardinality(Used(live, n)), size)
  BY <1>2
<1>6. /\ s' \in [Node -> Nat] /\ roffset' \in [Node -> 0..tLen] /\ live' \subseteq Block
      /\ InNode' /\ NoOverlap' /\ Counted'
      /\ s'[n] # 0 /\ \A m \in Node \ {n} : s'[m] = s[m]
  BY <1>3, <1>4, <1>5, CutStep DEF IInv
<1>7. /\ nodes' \in Seq(Node) /\ Distinct(nodes')
      /\ \A m \in Node : In(nodes', m) <=> In(nodes, m) \/ m = n
  BY AtEnd DEF IInv, TypeOK, Listed
<1>8. TypeOK'
  BY <1>6, <1>7 DEF IInv, TypeOK
<1>9. Listed'
  <2>1. ASSUME NEW m \in Node PROVE In(nodes', m) <=> s'[m] # 0
    BY <1>6, <1>7 DEF IInv, Listed
  <2>2. ASSUME NEW m \in Node PROVE In(free', m) <=> m \in made' /\ s'[m] = 0
    BY <1>6 DEF IInv, Listed
  <2> QED BY <1>7, <2>1, <2>2 DEF Listed, In, Distinct
<1> QED BY <1>6, <1>8, <1>9 DEF IInv

LEMMA FromFreeStep ==
  ASSUME IInv, NEW size \in Sizes, FromFree(size)
  PROVE  IInv'
<1> DEFINE n == Head(free)
<1>1. /\ n \in Node /\ In(free, n) /\ Tail(free) \in Seq(Node) /\ Distinct(Tail(free))
      /\ \A m : In(Tail(free), m) <=> In(free, m) /\ m # n
  BY OffFront DEF IInv, TypeOK, Listed, FromFree
<1>2. free' = Tail(free) /\ made' = made /\ nodes' = Append(nodes, n) /\ Cut(n, 0, 0, size)
  BY DEF FromFree
<1> HIDE DEF n
<1>3. n \in made /\ ~In(nodes, n)
  BY <1>1 DEF IInv, Listed
<1>4. \A m \in Node : In(free', m) <=> m \in made' /\ s[m] = 0 /\ m # n
  BY <1>1, <1>2 DEF IInv, Listed
<1>5. free' \in Seq(Node) /\ Distinct(free') /\ made' \in SUBSET Node
  BY <1>1, <1>2 DEF IInv, TypeOK
<1> QED BY <1>1, <1>2, <1>3, <1>4, <1>5, NewNodeStep

\* A node malloc has not returned is in no list.
LEMMA NotMade ==
  ASSUME IInv, NEW n \in Node \ made
  PROVE  ~In(nodes, n) /\ ~In(free, n)
<1>1. ASSUME In(nodes, n) PROVE FALSE
  <2>1. Used(live, n) # {}
    BY <1>1, UsedIsFinite DEF IInv, Listed, Counted
  <2>2. PICK b \in live : b.node = n
    BY <2>1, NothingUsed DEF IInv, TypeOK
  <2> QED BY <2>2 DEF IInv, InNode
<1> QED BY <1>1 DEF IInv, Listed

LEMMA FromMallocStep ==
  ASSUME IInv, NEW size \in Sizes, FromMalloc(size)
  PROVE  IInv'
<1>1. PICK n \in Node \ made : made' = made \cup {n} /\ nodes' = Append(nodes, n) /\ Cut(n, 0, 0, size)
  BY DEF FromMalloc
<1>2. free = <<>> /\ free' = <<>>
  BY DEF FromMalloc
<1>3. \A m : ~In(free, m)
  BY <1>2 DEF In
<1>4. ~In(nodes, n)
  BY NotMade
<1>5. \A m \in Node : In(free', m) <=> m \in made' /\ s[m] = 0 /\ m # n
  BY <1>1, <1>2, <1>3 DEF IInv, Listed
<1>6. free' \in Seq(Node) /\ Distinct(free') /\ made' \in SUBSET Node
  BY <1>1, <1>2 DEF IInv, TypeOK, Listed
<1> QED BY <1>1, <1>4, <1>5, <1>6, NewNodeStep

-----------------------------------------------------------------------------
(* memoryFree                                                              *)

\* Counts go down by the block's bytes, and to nothing with the last block.
LEMMA Uncounted ==
  ASSUME IInv, NEW b \in live, memoryFree(b)
  PROVE  /\ s' \in [Node -> Nat] /\ s[b.node] # 0 /\ s'[b.node] = Rest(b)
         /\ \A m \in Node \ {b.node} : s'[m] = s[m]
         /\ Counted'
<1> DEFINE n == b.node
           U == Used(live, n)
<1>1. b \in Block /\ n \in Node
  BY DEF IInv, TypeOK, Block
<1>2. IsFiniteSet(U) /\ Cardinality(U) \in Nat /\ s[n] = Cardinality(U)
  BY <1>1, UsedIsFinite DEF IInv, Counted
<1>3. Reals(b.size) \in Nat \ {0} /\ IsFiniteSet(Bytes(b)) /\ Cardinality(Bytes(b)) = Reals(b.size)
  BY <1>1, BytesOf
<1>4. Bytes(b) \subseteq U
  BY DEF Used
<1>5. Used(live', n) = U \ Bytes(b)
  <2>1. live' = live \ {b}
    BY DEF memoryFree
  <2>2. \A c \in live : c # b /\ c.node = n => Bytes(c) \cap Bytes(b) = {}
    BY DEF IInv, NoOverlap
  <2> QED BY <2>1, <2>2 DEF Used
<1> HIDE DEF U, n
<1>6. U \cap Bytes(b) = Bytes(b)
  BY <1>4
<1>7. Cardinality(U \ Bytes(b)) = Cardinality(U) - Reals(b.size)
  <2>1. Cardinality(U \ Bytes(b)) = Cardinality(U) - Cardinality(U \cap Bytes(b))
    BY <1>2, FS_Difference
  <2>2. Cardinality(U \cap Bytes(b)) = Reals(b.size)
    BY <1>3, <1>6
  <2> QED BY <2>1, <2>2
<1>8. IsFiniteSet(U \ Bytes(b)) /\ Cardinality(U \ Bytes(b)) \in Nat
  BY <1>2, FS_Difference, FS_CardinalityType
<1>9. s' = [s EXCEPT ![n] = Rest(b)] /\ Rest(b) = Cardinality(U \ Bytes(b))
  BY <1>2, <1>7 DEF memoryFree, Rest, n
<1>10. s' \in [Node -> Nat] /\ s'[n] = Rest(b) /\ \A m \in Node \ {n} : s'[m] = s[m]
  BY <1>1, <1>8, <1>9 DEF IInv, TypeOK
<1>11. s[n] # 0
  BY <1>2, <1>3, <1>7, <1>8
<1>12. Counted'
  <2> SUFFICES ASSUME NEW m \in Node PROVE s'[m] = Cardinality(Used(live', m))
    BY DEF Counted, Used, Bytes, Reals
  <2>1. CASE m = n
    BY <2>1, <1>5, <1>9, <1>10
  <2>2. CASE m # n
    <3>1. Used(live', m) = Used(live, m)
      BY <2>2 DEF memoryFree, Used, n
    <3> QED BY <2>2, <3>1, <1>10 DEF IInv, Counted
  <2> QED BY <2>1, <2>2
<1> QED BY <1>10, <1>11, <1>12 DEF n

LEMMA FreeStep ==
  ASSUME IInv, NEW b \in live, memoryFree(b)
  PROVE  IInv'
<1> DEFINE n == b.node
<1>1. n \in Node /\ n \in made
  BY DEF IInv, TypeOK, Block, InNode
<1>2. /\ s' \in [Node -> Nat] /\ s[n] # 0 /\ s'[n] = Rest(b)
      /\ \A m \in Node \ {n} : s'[m] = s[m]
      /\ Counted'
  BY Uncounted
<1>3. live' \subseteq live /\ made' = made /\ roffset' = roffset
  BY DEF memoryFree
<1>4. In(nodes, n) /\ ~In(free, n)
  BY <1>1, <1>2 DEF IInv, Listed
<1>5. InNode' /\ NoOverlap'
  BY <1>3 DEF IInv, InNode, NoOverlap, Bytes, Reals
<1>6. /\ nodes' \in Seq(Node) /\ free' \in Seq(Node)
      /\ Listed'
  <2>1. CASE Rest(b) = 0 /\ nodes' = Without(nodes, n) /\ free' = Append(free, n)
    <3>1. /\ nodes' \in Seq(Node) /\ Distinct(nodes')
          /\ \A m : In(nodes', m) <=> In(nodes, m) /\ m # n
      BY <1>1, <1>4, <2>1, TakenOut DEF IInv, TypeOK, Listed
    <3>2. /\ free' \in Seq(Node) /\ Distinct(free')
          /\ \A m : In(free', m) <=> In(free, m) \/ m = n
      BY <1>1, <1>4, <2>1, AtEnd DEF IInv, TypeOK, Listed
    <3> HIDE DEF n
    <3>3. ASSUME NEW m \in Node PROVE In(nodes', m) <=> s'[m] # 0
      BY <3>1, <1>2, <2>1 DEF IInv, Listed
    <3>4. ASSUME NEW m \in Node PROVE In(free', m) <=> m \in made' /\ s'[m] = 0
      BY <3>2, <1>1, <1>2, <1>3, <2>1 DEF IInv, Listed
    <3> QED BY <3>1, <3>2, <3>3, <3>4 DEF Listed, In, Distinct
  <2>2. CASE Rest(b) # 0 /\ nodes' = nodes /\ free' = free
    <3> HIDE DEF n
    <3>1. ASSUME NEW m \in Node PROVE (s'[m] # 0 <=> s[m] # 0)
      BY <1>2, <2>2
    <3> QED BY <3>1, <2>2, <1>3 DEF IInv, TypeOK, Listed, In, Distinct
  <2> QED BY <2>1, <2>2 DEF memoryFree
<1>7. TypeOK'
  BY <1>2, <1>3, <1>6 DEF IInv, TypeOK
<1> QED BY <1>2, <1>5, <1>6, <1>7 DEF IInv

-----------------------------------------------------------------------------
(* The invariant and what follows from it                                  *)

LEMMA InitEstablishes == Init => IInv
<1> SUFFICES ASSUME Init PROVE IInv
  OBVIOUS
<1>1. TypeOK
  BY EmptySeq, PoolAssumption DEF Init, TypeOK
<1>2. InNode /\ NoOverlap
  BY DEF Init, InNode, NoOverlap
<1>3. Counted
  <2>1. \A n : Used({}, n) = {}
    BY DEF Used
  <2> QED BY <2>1, FS_EmptySet DEF Init, Counted
<1>4. Listed
  BY DEF Init, Listed, In, Distinct
<1> QED BY <1>1, <1>2, <1>3, <1>4 DEF IInv

LEMMA StepPreserves == IInv /\ [Next]_vars => IInv'
<1> SUFFICES ASSUME IInv, [Next]_vars PROVE IInv'
  OBVIOUS
<1>1. ASSUME NEW size \in Sizes, memoryAlloc(size) PROVE IInv'
  BY <1>1, FromLastStep, FromFreeStep, FromMallocStep DEF memoryAlloc
<1>2. ASSUME NEW b \in live, memoryFree(b) PROVE IInv'
  BY <1>2, FreeStep
<1>3. CASE UNCHANGED vars
  <2>1. TypeOK' /\ InNode' /\ NoOverlap'
    BY <1>3 DEF vars, IInv, TypeOK, InNode, NoOverlap
  <2>2. Counted'
    BY <1>3 DEF vars, IInv, Counted, Used, Bytes
  <2>3. Listed'
    BY <1>3 DEF vars, IInv, Listed, Reals, In, Distinct
  <2> QED BY <2>1, <2>2, <2>3 DEF IInv
<1> QED BY <1>1, <1>2, <1>3 DEF Next

\* s counts the bytes in use, the lists tell which nodes have any, and blocks in
\* use lie apart in what has been cut: at all times.
THEOREM PoolInvariant == Spec => []IInv
<1> QED BY InitEstablishes, StepPreserves, PTL DEF Spec

\* Type correctness.
THEOREM PoolTypeOK == Spec => []TypeOK
<1>1. IInv => TypeOK
  BY DEF IInv
<1> QED BY <1>1, PoolInvariant, PTL

\* Blocks in use never share a byte, for any sizes and any order of calls.
THEOREM PoolNoOverlap == Spec => []NoOverlap
<1>1. IInv => NoOverlap
  BY DEF IInv
<1> QED BY <1>1, PoolInvariant, PTL

\* No node is lost, listed twice, or free while a block of it is in use.
THEOREM PoolNodesAccounted == Spec => []NodesAccounted
<1>1. IInv => NodesAccounted
  <2> SUFFICES ASSUME IInv PROVE NodesAccounted
    OBVIOUS
  <2>1. ASSUME NEW n \in Node PROVE s[n] # 0 <=> \E b \in live : b.node = n
    BY UsedIsFinite, NothingUsed DEF IInv, Counted, TypeOK
  <2> QED BY <2>1 DEF IInv, Listed, NodesAccounted
<1> QED BY <1>1, PoolInvariant, PTL

-----------------------------------------------------------------------------
(* The links of the lists                                                  *)

Link == Node \cup {Null}

LinksType(k) ==
  k \in [l : [Node -> Link], r : [Node -> Link],
         left : [Lists -> Link], right : [Lists -> Link], size : [Lists -> Int]]

Apart(a, b) == \A n \in Node : ~(In(a, n) /\ In(b, n))

-----------------------------------------------------------------------------
(* memoryRightPush                                                         *)

\* What a push leaves where.
LEMMA PushFields ==
  ASSUME NEW k, LinksType(k), NEW q \in Lists, NEW n \in Node
  PROVE  LET p == memoryRightPush(k, q, n)
             old == k.right[q]
         IN  /\ LinksType(p)
             /\ p.l[n] = old /\ \A m \in Node \ {n} : p.l[m] = k.l[m]
             /\ old # Null => p.r[old] = n
             /\ old # n => p.r[n] = Null
             /\ \A m \in Node \ {n, old} : p.r[m] = k.r[m]
             /\ p.right[q] = n /\ p.size[q] = k.size[q] + 1
             /\ p.left[q] = IF k.size[q] = 0 THEN n ELSE k.left[q]
             /\ \A o \in Lists \ {q} :
                  p.left[o] = k.left[o] /\ p.right[o] = k.right[o] /\ p.size[o] = k.size[o]
<1> DEFINE old == k.right[q]
           p == memoryRightPush(k, q, n)
           r1 == [k.r EXCEPT ![n] = Null]
<1>1. old \in Link
  BY DEF LinksType
<1>2. p = [k EXCEPT !.l = [k.l EXCEPT ![n] = old],
                    !.r = Set(r1, old, n),
                    !.right = [k.right EXCEPT ![q] = n],
                    !.size = [k.size EXCEPT ![q] = k.size[q] + 1],
                    !.left = [k.left EXCEPT ![q] = IF k.size[q] = 0 THEN n ELSE k.left[q]]]
  BY DEF memoryRightPush, LinksType
<1>3. /\ p.l = [k.l EXCEPT ![n] = old]
      /\ p.r = Set(r1, old, n)
      /\ p.right = [k.right EXCEPT ![q] = n]
      /\ p.size = [k.size EXCEPT ![q] = k.size[q] + 1]
      /\ p.left = [k.left EXCEPT ![q] = IF k.size[q] = 0 THEN n ELSE k.left[q]]
      /\ p = [l |-> p.l, r |-> p.r, left |-> p.left, right |-> p.right, size |-> p.size]
  BY <1>2 DEF LinksType
<1>4. /\ r1 \in [Node -> Link] /\ r1[n] = Null /\ \A m \in Node \ {n} : r1[m] = k.r[m]
  BY DEF LinksType, Link
<1> HIDE DEF p, r1
<1>5. p.r \in [Node -> Link] /\ (old # Null => p.r[old] = n)
      /\ (old # n => p.r[n] = Null) /\ \A m \in Node \ {n, old} : p.r[m] = k.r[m]
  <2>1. CASE old = Null
    BY <2>1, <1>3, <1>4 DEF Set
  <2>2. CASE old \in Node /\ old # Null
    BY <2>2, <1>3, <1>4 DEF Set, Link
  <2> QED BY <2>1, <2>2, <1>1, LinksAssumption DEF Link
<1>6. p.l \in [Node -> Link] /\ p.l[n] = old /\ \A m \in Node \ {n} : p.l[m] = k.l[m]
  BY <1>1, <1>3 DEF LinksType
<1>7. /\ p.left \in [Lists -> Link] /\ p.right \in [Lists -> Link] /\ p.size \in [Lists -> Int]
      /\ p.right[q] = n /\ p.size[q] = k.size[q] + 1
      /\ p.left[q] = IF k.size[q] = 0 THEN n ELSE k.left[q]
      /\ \A o \in Lists \ {q} :
           p.left[o] = k.left[o] /\ p.right[o] = k.right[o] /\ p.size[o] = k.size[o]
  BY <1>3 DEF LinksType, Link
<1>8. LinksType(p)
  BY <1>3, <1>5, <1>6, <1>7 DEF LinksType
<1> QED BY <1>5, <1>6, <1>7, <1>8 DEF p

\* A push appends to the list it is made on and leaves the other alone.
LEMMA PushStep ==
  ASSUME NEW k, LinksType(k), NEW q \in Lists, NEW o \in Lists \ {q},
         NEW a \in Seq(Node), NEW b \in Seq(Node), NEW n \in Node,
         Represents(k, q, a), Represents(k, o, b),
         Distinct(a), ~In(a, n), ~In(b, n), Apart(a, b)
  PROVE  LET p == memoryRightPush(k, q, n)
         IN  LinksType(p) /\ Represents(p, q, Append(a, n)) /\ Represents(p, o, b)
<1> DEFINE p == memoryRightPush(k, q, n)
           old == k.right[q]
           c == Append(a, n)
<1>1. /\ LinksType(p)
      /\ p.l[n] = old /\ \A m \in Node \ {n} : p.l[m] = k.l[m]
      /\ old # Null => p.r[old] = n
      /\ old # n => p.r[n] = Null
      /\ \A m \in Node \ {n, old} : p.r[m] = k.r[m]
      /\ p.right[q] = n /\ p.size[q] = k.size[q] + 1
      /\ p.left[q] = IF k.size[q] = 0 THEN n ELSE k.left[q]
      /\ p.left[o] = k.left[o] /\ p.right[o] = k.right[o] /\ p.size[o] = k.size[o]
  BY PushFields
<1>2. /\ Len(a) \in Nat /\ Len(c) = Len(a) + 1 /\ c[Len(a)+1] = n
      /\ \A i \in 1..Len(a) : c[i] = a[i] /\ a[i] \in Node /\ a[i] # n
  BY AppendProperties, LenProperties, ElementOfSeq DEF In
<1>3. old = IF a = <<>> THEN Null ELSE a[Len(a)]
  BY DEF Represents
<1>4. a = <<>> <=> Len(a) = 0
  BY EmptySeq
<1>5. c # <<>>
  BY <1>2, EmptySeq
<1>6. old # n
  BY <1>2, <1>3, <1>4, LinksAssumption
<1> HIDE DEF p, old, c
<1>7. p.size[q] = Len(c) /\ p.right[q] = c[Len(c)]
  BY <1>1, <1>2 DEF Represents
<1>8. p.left[q] = c[1]
  BY <1>1, <1>2, <1>4 DEF Represents
<1>9. ASSUME NEW i \in 1..Len(c)
      PROVE  /\ p.l[c[i]] = IF i = 1 THEN Null ELSE c[i-1]
             /\ p.r[c[i]] = IF i = Len(c) THEN Null ELSE c[i+1]
  <2>1. CASE i = Len(a) + 1
    <3>1. c[i] = n /\ p.r[n] = Null /\ p.l[n] = old
      BY <2>1, <1>1, <1>2, <1>6
    <3>2. old = IF i = 1 THEN Null ELSE c[i-1]
      BY <2>1, <1>2, <1>3, <1>4
    <3> QED BY <2>1, <3>1, <3>2, <1>2
  <2>2. CASE i \in 1..Len(a)
    <3>1. c[i] = a[i] /\ a[i] \in Node /\ a[i] # n
      BY <2>2, <1>2
    <3>2. p.l[a[i]] = IF i = 1 THEN Null ELSE a[i-1]
      <4>1. k.l[a[i]] = IF i = 1 THEN Null ELSE a[i-1]
        BY <2>2 DEF Represents
      <4>2. p.l[a[i]] = k.l[a[i]]
        BY <1>1, <3>1
      <4> QED BY <4>1, <4>2
    <3>3. i # 1 => c[i-1] = a[i-1]
      BY <2>2, <1>2
    <3>4. CASE i = Len(a)
      <4>1. a[i] = old
        BY <3>4, <2>2, <1>2, <1>3, <1>4
      <4>2. p.r[a[i]] = n
        BY <4>1, <3>1, <1>1, LinksAssumption
      <4> QED BY <3>1, <3>2, <3>3, <3>4, <4>2, <1>2
    <3>5. CASE i # Len(a)
      <4>1. Len(a) \in 1..Len(a) /\ i+1 \in 1..Len(a)
        BY <3>5, <2>2, <1>2
      <4>2. a[i] # a[Len(a)] /\ old = a[Len(a)]
        BY <3>5, <2>2, <4>1, <1>3, <1>4 DEF Distinct
      <4>3. p.r[a[i]] = a[i+1]
        BY <4>2, <3>1, <3>5, <2>2, <1>1 DEF Represents
      <4> QED BY <3>1, <3>2, <3>3, <3>5, <4>1, <4>3, <1>2
    <3> QED BY <3>4, <3>5
  <2> QED BY <2>1, <2>2, <1>2
<1>10. Represents(p, o, b)
  <2>1. ASSUME NEW i \in 1..Len(b) PROVE p.l[b[i]] = k.l[b[i]] /\ p.r[b[i]] = k.r[b[i]]
    <3>1. b[i] \in Node /\ b[i] # n
      BY ElementOfSeq DEF In
    <3>2. ~In(a, b[i])
      BY <3>1 DEF Apart, In
    <3>3. b[i] # old
      BY <3>1, <3>2, <1>2, <1>3, <1>4, LinksAssumption DEF In
    <3> QED BY <3>1, <3>3, <1>1
  <2> QED BY <2>1, <1>1 DEF Represents
<1>11. Represents(p, q, c)
  BY <1>5, <1>7, <1>8, <1>9 DEF Represents
<1> QED BY <1>1, <1>10, <1>11 DEF p, c

-----------------------------------------------------------------------------
(* memoryLeftPopNode                                                       *)

\* What a pop leaves where.
LEMMA PopFields ==
  ASSUME NEW k, LinksType(k), NEW q \in Lists, k.left[q] \in Node
  PROVE  LET p == memoryLeftPopNode(k, q)
             n == k.left[q]
             next == k.r[n]
         IN  /\ LinksType(p)
             /\ next # Null => p.l[next] = Null
             /\ \A m \in Node \ {n, next} : p.l[m] = k.l[m]
             /\ \A m \in Node \ {n} : p.r[m] = k.r[m]
             /\ p.left[q] = next /\ p.size[q] = k.size[q] - 1
             /\ p.right[q] = IF k.size[q] = 1 THEN Null ELSE k.right[q]
             /\ \A o \in Lists \ {q} :
                  p.left[o] = k.left[o] /\ p.right[o] = k.right[o] /\ p.size[o] = k.size[o]
<1> DEFINE n == k.left[q]
           next == k.r[n]
           p == memoryLeftPopNode(k, q)
           l1 == [k.l EXCEPT ![n] = Null]
<1>1. n \in Node /\ next \in Link
  BY DEF LinksType
<1>2. p = [k EXCEPT !.left = [k.left EXCEPT ![q] = next],
                    !.l = Set(l1, next, Null),
                    !.r = [k.r EXCEPT ![n] = Null],
                    !.size = [k.size EXCEPT ![q] = k.size[q] - 1],
                    !.right = [k.right EXCEPT ![q] = IF k.size[q] = 1 THEN Null ELSE k.right[q]]]
  BY DEF memoryLeftPopNode, LinksType
<1>3. /\ p.l = Set(l1, next, Null)
      /\ p.r = [k.r EXCEPT ![n] = Null]
      /\ p.left = [k.left EXCEPT ![q] = next]
      /\ p.size = [k.size EXCEPT ![q] = k.size[q] - 1]
      /\ p.right = [k.right EXCEPT ![q] = IF k.size[q] = 1 THEN Null ELSE k.right[q]]
      /\ p = [l |-> p.l, r |-> p.r, left |-> p.left, right |-> p.right, size |-> p.size]
  BY <1>2 DEF LinksType
<1>4. l1 \in [Node -> Link] /\ \A m \in Node \ {n} : l1[m] = k.l[m]
  BY DEF LinksType, Link
<1> HIDE DEF p, l1
<1>5. /\ p.l \in [Node -> Link] /\ (next # Null => p.l[next] = Null)
      /\ \A m \in Node \ {n, next} : p.l[m] = k.l[m]
  <2>1. CASE next = Null
    BY <2>1, <1>3, <1>4 DEF Set
  <2>2. CASE next \in Node /\ next # Null
    BY <2>2, <1>3, <1>4 DEF Set, Link
  <2> QED BY <2>1, <2>2, <1>1 DEF Link
<1>6. p.r \in [Node -> Link] /\ \A m \in Node \ {n} : p.r[m] = k.r[m]
  BY <1>3 DEF LinksType, Link
<1>7. /\ p.left \in [Lists -> Link] /\ p.right \in [Lists -> Link] /\ p.size \in [Lists -> Int]
      /\ p.left[q] = next /\ p.size[q] = k.size[q] - 1
      /\ p.right[q] = IF k.size[q] = 1 THEN Null ELSE k.right[q]
      /\ \A o \in Lists \ {q} :
           p.left[o] = k.left[o] /\ p.right[o] = k.right[o] /\ p.size[o] = k.size[o]
  BY <1>1, <1>3 DEF LinksType, Link
<1>8. LinksType(p)
  BY <1>3, <1>5, <1>6, <1>7 DEF LinksType
<1> QED BY <1>5, <1>6, <1>7, <1>8 DEF p

\* A pop takes the first node off its list and leaves the other list alone.
LEMMA PopStep ==
  ASSUME NEW k, LinksType(k), NEW q \in Lists, NEW o \in Lists \ {q},
         NEW a \in Seq(Node), NEW b \in Seq(Node), a # <<>>,
         Represents(k, q, a), Represents(k, o, b), Distinct(a), Apart(a, b)
  PROVE  LET p == memoryLeftPopNode(k, q)
         IN  LinksType(p) /\ Represents(p, q, Tail(a)) /\ Represents(p, o, b)
<1> DEFINE p == memoryLeftPopNode(k, q)
           n == k.left[q]
           next == k.r[n]
           c == Tail(a)
<1>1. /\ Len(a) \in Nat \ {0} /\ 1 \in 1..Len(a)
      /\ c \in Seq(Node) /\ Len(c) = Len(a) - 1
      /\ \A i \in 1..Len(c) : c[i] = a[i+1]
      /\ \A i \in 1..Len(a) : a[i] \in Node
  BY HeadTailProperties, LenProperties, EmptySeq, ElementOfSeq
<1>2. n = a[1] /\ next = (IF Len(a) = 1 THEN Null ELSE a[2])
  <2>1. n = a[1]
    BY DEF Represents
  <2>2. k.r[a[1]] = IF 1 = Len(a) THEN Null ELSE a[1+1]
    BY <1>1 DEF Represents
  <2> QED BY <2>1, <2>2, <1>1
<1>3. n \in Node
  BY <1>1, <1>2
<1>4. /\ LinksType(p)
      /\ next # Null => p.l[next] = Null
      /\ \A m \in Node \ {n, next} : p.l[m] = k.l[m]
      /\ \A m \in Node \ {n} : p.r[m] = k.r[m]
      /\ p.left[q] = next /\ p.size[q] = k.size[q] - 1
      /\ p.right[q] = IF k.size[q] = 1 THEN Null ELSE k.right[q]
      /\ p.left[o] = k.left[o] /\ p.right[o] = k.right[o] /\ p.size[o] = k.size[o]
  BY <1>3, PopFields
<1>5. c = <<>> <=> Len(a) = 1
  <2>1. c = <<>> <=> Len(c) = 0
    BY <1>1, EmptySeq
  <2> HIDE DEF c
  <2> QED BY <2>1, <1>1
<1> HIDE DEF p, n, next, c
<1>6. p.size[q] = Len(c)
  BY <1>1, <1>4 DEF Represents
<1>7. p.left[q] = IF c = <<>> THEN Null ELSE c[1]
  <2>1. p.left[q] = IF Len(a) = 1 THEN Null ELSE a[2]
    BY <1>2, <1>4
  <2>2. Len(a) # 1 => c[1] = a[2]
    BY <1>1
  <2> QED BY <2>1, <2>2, <1>5
<1>8. p.right[q] = IF c = <<>> THEN Null ELSE c[Len(c)]
  <2>1. k.size[q] = Len(a) /\ k.right[q] = a[Len(a)]
    BY <1>1, EmptySeq DEF Represents
  <2> QED BY <2>1, <1>1, <1>4, <1>5
<1>9. ASSUME NEW i \in 1..Len(c)
      PROVE  /\ p.l[c[i]] = IF i = 1 THEN Null ELSE c[i-1]
             /\ p.r[c[i]] = IF i = Len(c) THEN Null ELSE c[i+1]
  <2>1. /\ i+1 \in 1..Len(a) /\ i+1 # 1 /\ c[i] = a[i+1] /\ a[i+1] \in Node
    BY <1>1
  <2>2. a[i+1] # a[1]
    BY <2>1, <1>1 DEF Distinct
  <2>3. p.r[c[i]] = IF i+1 = Len(a) THEN Null ELSE a[i+2]
    <3>1. k.r[a[i+1]] = IF i+1 = Len(a) THEN Null ELSE a[(i+1)+1]
      BY <2>1 DEF Represents
    <3> QED BY <3>1, <2>1, <2>2, <1>2, <1>4
  <2>4. i # Len(c) => i+1 \in 1..Len(c) /\ c[i+1] = a[i+2]
    BY <1>1
  <2>5. p.r[c[i]] = IF i = Len(c) THEN Null ELSE c[i+1]
    BY <2>3, <2>4, <1>1
  <2>6. CASE i = 1
    <3>1. next = a[2] /\ c[i] = next /\ next # Null
      BY <2>6, <2>1, <1>1, <1>2, LinksAssumption
    <3> QED BY <3>1, <2>6, <2>5, <1>4
  <2>7. CASE i # 1
    <3>1. 2 \in 1..Len(a) /\ i+1 # 2 /\ Len(a) # 1
      BY <2>7, <2>1, <1>1
    <3>2. a[i+1] # a[2]
      BY <3>1, <2>1 DEF Distinct
    <3>3. p.l[a[i+1]] = k.l[a[i+1]]
      BY <3>1, <3>2, <2>1, <2>2, <1>2, <1>4
    <3>4. k.l[a[i+1]] = a[i]
      BY <2>1 DEF Represents
    <3>5. c[i-1] = a[i]
      BY <2>7, <1>1
    <3> QED BY <2>7, <3>3, <3>4, <3>5, <2>1, <2>5
  <2> QED BY <2>6, <2>7
<1>10. Represents(p, o, b)
  <2>1. ASSUME NEW i \in 1..Len(b) PROVE p.l[b[i]] = k.l[b[i]] /\ p.r[b[i]] = k.r[b[i]]
    <3>1. b[i] \in Node /\ ~In(a, b[i])
      BY ElementOfSeq DEF Apart, In
    <3>2. b[i] # n
      BY <3>1, <1>1, <1>2 DEF In
    <3>3. b[i] # next
      BY <3>1, <1>1, <1>2, LinksAssumption DEF In
    <3> QED BY <3>1, <3>2, <3>3, <1>4
  <2> QED BY <2>1, <1>4 DEF Represents
<1>11. Represents(p, q, c)
  BY <1>6, <1>7, <1>8, <1>9 DEF Represents
<1> QED BY <1>4, <1>10, <1>11 DEF p, c

-----------------------------------------------------------------------------
(* memoryMidlePop                                                          *)

\* What taking a node out leaves where.
LEMMA UnlinkFields ==
  ASSUME NEW k, LinksType(k), NEW n \in Node, k.l[n] # n, k.r[n] # n
  PROVE  LET u == Unlink(k, n)
             ln == k.l[n]
             rn == k.r[n]
         IN  /\ LinksType(u)
             /\ ln # Null => u.r[ln] = rn
             /\ rn # Null => u.l[rn] = ln
             /\ \A m \in Node \ {n, ln} : u.r[m] = k.r[m]
             /\ \A m \in Node \ {n, rn} : u.l[m] = k.l[m]
             /\ u.left["pool"]  = IF ln = Null THEN rn ELSE k.left["pool"]
             /\ u.right["pool"] = IF rn = Null THEN ln ELSE k.right["pool"]
             /\ u.size["pool"] = k.size["pool"] - 1
             /\ u.left["free"] = k.left["free"] /\ u.right["free"] = k.right["free"]
             /\ u.size["free"] = k.size["free"]
<1> DEFINE ln == k.l[n]
           rn == k.r[n]
           u == Unlink(k, n)
           r1 == Set(k.r, ln, rn)
           l1 == Set(k.l, rn, ln)
<1>1. ln \in Link /\ rn \in Link
  BY DEF LinksType
<1>2. u = [k EXCEPT !.size = [k.size EXCEPT !["pool"] = k.size["pool"] - 1],
                    !.r = [r1 EXCEPT ![n] = Null],
                    !.l = [l1 EXCEPT ![n] = Null],
                    !.left = [k.left EXCEPT !["pool"] = IF ln = Null THEN rn ELSE k.left["pool"]],
                    !.right = [k.right EXCEPT !["pool"] = IF rn = Null THEN ln ELSE k.right["pool"]]]
  BY DEF Unlink, LinksType
<1>3. /\ u.size = [k.size EXCEPT !["pool"] = k.size["pool"] - 1]
      /\ u.r = [r1 EXCEPT ![n] = Null]
      /\ u.l = [l1 EXCEPT ![n] = Null]
      /\ u.left = [k.left EXCEPT !["pool"] = IF ln = Null THEN rn ELSE k.left["pool"]]
      /\ u.right = [k.right EXCEPT !["pool"] = IF rn = Null THEN ln ELSE k.right["pool"]]
      /\ u = [l |-> u.l, r |-> u.r, left |-> u.left, right |-> u.right, size |-> u.size]
  BY <1>2 DEF LinksType
<1> HIDE DEF u
<1>4. /\ r1 \in [Node -> Link] /\ (ln # Null => r1[ln] = rn)
      /\ \A m \in Node \ {ln} : r1[m] = k.r[m]
  <2>1. CASE ln = Null
    BY <2>1 DEF Set, LinksType
  <2>2. CASE ln \in Node /\ ln # Null
    BY <1>1, <2>2 DEF Set, LinksType
  <2> QED BY <2>1, <2>2, <1>1 DEF Link
<1>5. /\ l1 \in [Node -> Link] /\ (rn # Null => l1[rn] = ln)
      /\ \A m \in Node \ {rn} : l1[m] = k.l[m]
  <2>1. CASE rn = Null
    BY <2>1 DEF Set, LinksType
  <2>2. CASE rn \in Node /\ rn # Null
    BY <1>1, <2>2 DEF Set, LinksType
  <2> QED BY <2>1, <2>2, <1>1 DEF Link
<1> HIDE DEF r1, l1
<1>6. /\ u.r \in [Node -> Link] /\ (ln # Null => u.r[ln] = rn)
      /\ \A m \in Node \ {n, ln} : u.r[m] = k.r[m]
  BY <1>1, <1>3, <1>4 DEF Link
<1>7. /\ u.l \in [Node -> Link] /\ (rn # Null => u.l[rn] = ln)
      /\ \A m \in Node \ {n, rn} : u.l[m] = k.l[m]
  BY <1>1, <1>3, <1>5 DEF Link
<1>8. /\ u.left \in [Lists -> Link] /\ u.right \in [Lists -> Link] /\ u.size \in [Lists -> Int]
      /\ u.left["pool"]  = IF ln = Null THEN rn ELSE k.left["pool"]
      /\ u.right["pool"] = IF rn = Null THEN ln ELSE k.right["pool"]
      /\ u.size["pool"] = k.size["pool"] - 1
      /\ u.left["free"] = k.left["free"] /\ u.right["free"] = k.right["free"]
      /\ u.size["free"] = k.size["free"]
  BY <1>1, <1>3 DEF LinksType, Lists, Link
<1>9. LinksType(u)
  BY <1>3, <1>6, <1>7, <1>8 DEF LinksType
<1> QED BY <1>6, <1>7, <1>8, <1>9 DEF u

\* A node is taken out of the pool's list and the free list is left alone.
LEMMA UnlinkStep ==
  ASSUME NEW k, LinksType(k), NEW a \in Seq(Node), NEW b \in Seq(Node), NEW n \in Node,
         Represents(k, "pool", a), Represents(k, "free", b),
         Distinct(a), In(a, n), Apart(a, b)
  PROVE  LET u == Unlink(k, n)
         IN  LinksType(u) /\ Represents(u, "pool", Without(a, n)) /\ Represents(u, "free", b)
<1> DEFINE u == Unlink(k, n)
           ln == k.l[n]
           rn == k.r[n]
           j == IndexOf(a, n)
           c == Without(a, n)
           L == Len(a)
<1>1. j \in 1..L /\ a[j] = n
  BY DEF IndexOf, In
<1>2. L \in Nat /\ \A i \in 1..L : a[i] \in Node
  BY LenProperties, ElementOfSeq
<1>3. c \in Seq(Node) /\ c = [i \in 1..L-1 |-> IF i < j THEN a[i] ELSE a[i+1]]
  BY TakenOut DEF Without
<1> HIDE DEF u, j, c, L
<1>4. Len(c) = L-1 /\ \A i \in 1..L-1 : c[i] = IF i < j THEN a[i] ELSE a[i+1]
  BY <1>1, <1>2, <1>3, LenProperties
<1>5. /\ ln = (IF j = 1 THEN Null ELSE a[j-1])
      /\ rn = (IF j = L THEN Null ELSE a[j+1])
  BY <1>1 DEF Represents, L
<1>6. \A i \in 1..L : i # j => a[i] # n
  BY <1>1 DEF Distinct, L
<1>7. ln # n /\ rn # n
  BY SMTT(30), <1>1, <1>2, <1>5, <1>6, LinksAssumption
<1>8. /\ LinksType(u)
      /\ ln # Null => u.r[ln] = rn
      /\ rn # Null => u.l[rn] = ln
      /\ \A m \in Node \ {n, ln} : u.r[m] = k.r[m]
      /\ \A m \in Node \ {n, rn} : u.l[m] = k.l[m]
      /\ u.left["pool"]  = IF ln = Null THEN rn ELSE k.left["pool"]
      /\ u.right["pool"] = IF rn = Null THEN ln ELSE k.right["pool"]
      /\ u.size["pool"] = k.size["pool"] - 1
      /\ u.left["free"] = k.left["free"] /\ u.right["free"] = k.right["free"]
      /\ u.size["free"] = k.size["free"]
  BY <1>7, UnlinkFields DEF u
<1>9. /\ k.size["pool"] = L /\ k.left["pool"] = a[1] /\ k.right["pool"] = a[L]
      /\ \A i \in 1..L :
           /\ k.l[a[i]] = IF i = 1 THEN Null ELSE a[i-1]
           /\ k.r[a[i]] = IF i = L THEN Null ELSE a[i+1]
  <2>1. a # <<>>
    BY <1>1, <1>2, EmptySeq DEF L
  <2>2. k.size["pool"] = L /\ k.left["pool"] = a[1] /\ k.right["pool"] = a[L]
    BY <2>1 DEF Represents, L
  <2>3. ASSUME NEW i \in 1..L
        PROVE  k.l[a[i]] = (IF i = 1 THEN Null ELSE a[i-1]) /\ k.r[a[i]] = (IF i = L THEN Null ELSE a[i+1])
    BY DEF Represents, L
  <2> QED BY <2>2, <2>3
<1>10. c = <<>> <=> L = 1
  <2>1. c = <<>> <=> Len(c) = 0
    BY <1>3, EmptySeq
  <2> QED BY <2>1, <1>1, <1>2, <1>4
<1>11. \A i \in 1..L : a[i] # Null
  BY <1>2, LinksAssumption
<1> HIDE DEF ln, rn
<1>12. u.left["pool"] = IF c = <<>> THEN Null ELSE c[1]
  <2>1. CASE j = 1
    BY <2>1, <1>1, <1>2, <1>4, <1>5, <1>8, <1>10
  <2>2. CASE j # 1
    <3>1. j-1 \in 1..L /\ L # 1 /\ 1 \in 1..L-1 /\ 1 < j
      BY <2>2, <1>1, <1>2
    <3>2. ln # Null
      BY <2>2, <3>1, <1>5, <1>11
    <3>3. c[1] = a[1]
      BY <3>1, <1>4
    <3> QED BY <3>1, <3>2, <3>3, <1>8, <1>9, <1>10
  <2> QED BY <2>1, <2>2
<1>13. u.right["pool"] = IF c = <<>> THEN Null ELSE c[Len(c)]
  <2>1. CASE j = L
    BY <2>1, <1>1, <1>2, <1>4, <1>5, <1>8, <1>10
  <2>2. CASE j # L
    <3>1. rn # Null /\ L # 1 /\ c[L-1] = a[L]
      BY <2>2, <1>1, <1>2, <1>4, <1>5, <1>11
    <3> QED BY <3>1, <1>4, <1>8, <1>9, <1>10
  <2> QED BY <2>1, <2>2
<1>14. \A x, y \in 1..L : a[x] = a[y] => x = y
  BY DEF Distinct, L
\* The neighbours of the nodes that stay.
<1>15. ASSUME NEW x \in 1..L, x # j
       PROVE  u.r[a[x]] = IF x = j-1 THEN rn ELSE IF x = L THEN Null ELSE a[x+1]
  <2>1. a[x] \in Node /\ a[x] # n
    BY <1>15, <1>2, <1>6
  <2>2. CASE x = j-1
    <3>1. a[x] = ln /\ ln # Null
      BY <2>2, <1>1, <1>2, <1>5, <1>11
    <3> QED BY <3>1, <2>2, <1>8
  <2>3. CASE x # j-1
    <3>1. a[x] # ln
      BY <2>3, <2>1, <1>1, <1>2, <1>5, <1>14, LinksAssumption
    <3>2. u.r[a[x]] = k.r[a[x]]
      BY <3>1, <2>1, <1>8
    <3>3. k.r[a[x]] = IF x = L THEN Null ELSE a[x+1]
      BY <1>9
    <3> QED BY <3>2, <3>3, <2>3
  <2> QED BY <2>2, <2>3
<1>16. ASSUME NEW x \in 1..L, x # j
       PROVE  u.l[a[x]] = IF x = j+1 THEN ln ELSE IF x = 1 THEN Null ELSE a[x-1]
  <2>1. a[x] \in Node /\ a[x] # n
    BY <1>16, <1>2, <1>6
  <2>2. CASE x = j+1
    <3>1. a[x] = rn /\ rn # Null
      BY <2>2, <1>1, <1>2, <1>5, <1>11
    <3> QED BY <3>1, <2>2, <1>8
  <2>3. CASE x # j+1
    <3>1. a[x] # rn
      BY <2>3, <2>1, <1>1, <1>2, <1>5, <1>14, LinksAssumption
    <3>2. u.l[a[x]] = k.l[a[x]]
      BY <3>1, <2>1, <1>8
    <3>3. k.l[a[x]] = IF x = 1 THEN Null ELSE a[x-1]
      BY <1>9
    <3> QED BY <3>2, <3>3, <2>3
  <2> QED BY <2>2, <2>3
<1>17. ASSUME NEW i \in 1..Len(c)
       PROVE  /\ u.l[c[i]] = IF i = 1 THEN Null ELSE c[i-1]
              /\ u.r[c[i]] = IF i = Len(c) THEN Null ELSE c[i+1]
  <2>1. i \in 1..L-1 /\ i \in Nat /\ j \in Nat
    BY <1>1, <1>2, <1>4
  <2>2. CASE i < j
    <3>1. i \in 1..L /\ i # j /\ c[i] = a[i] /\ i # j+1
      BY <2>1, <2>2, <1>2, <1>4
    <3>2. u.l[c[i]] = IF i = 1 THEN Null ELSE c[i-1]
      BY <3>1, <2>1, <2>2, <1>2, <1>4, <1>16
    <3>3. CASE i = j-1
      <4>1. u.r[c[i]] = rn
        BY <3>1, <3>3, <1>15
      <4>2. i # L-1 => c[i+1] = a[j+1]
        BY <3>3, <2>1, <1>1, <1>2, <1>4
      <4> QED BY <4>1, <4>2, <3>2, <3>3, <2>1, <1>2, <1>4, <1>5
    <3>4. CASE i # j-1
      <4>1. u.r[c[i]] = a[i+1]
        <5>1. u.r[a[i]] = IF i = j-1 THEN rn ELSE IF i = L THEN Null ELSE a[i+1]
          BY <3>1, <1>15
        <5>2. i # L
          BY <2>1, <1>2
        <5> QED BY <5>1, <5>2, <3>1, <3>4
      <4>2. i # L-1 /\ c[i+1] = a[i+1]
        BY <3>4, <2>1, <2>2, <1>1, <1>2, <1>4
      <4> QED BY <4>1, <4>2, <3>2, <1>4
    <3> QED BY <3>3, <3>4
  <2>3. CASE i >= j
    <3> DEFINE x == i+1
    <3>1. x \in 1..L /\ x # j /\ c[i] = a[x] /\ x # j-1 /\ x # 1
      BY <2>1, <2>3, <1>1, <1>2, <1>4
    <3>2. i = L-1 <=> x = L
      BY <2>1, <1>2
    <3>3. i # L-1 => c[i+1] = a[x+1]
      BY <2>1, <2>3, <1>1, <1>2, <1>4
    <3> HIDE DEF x
    <3>4. u.r[c[i]] = IF i = L-1 THEN Null ELSE c[i+1]
      BY <3>1, <3>2, <3>3, <1>15
    <3>5. CASE i = j
      <4>1. u.l[c[i]] = ln
        BY <3>1, <3>5, <1>16 DEF x
      <4>2. i # 1 => c[i-1] = a[j-1]
        BY <3>5, <2>1, <1>1, <1>2, <1>4
      <4> QED BY <4>1, <4>2, <3>4, <3>5, <1>4, <1>5
    <3>6. CASE i # j
      <4>1. x # j+1 /\ x-1 = i
        BY <3>6, <2>1 DEF x
      <4>2. u.l[c[i]] = a[i]
        BY <4>1, <3>1, <1>16
      <4>3. i # 1 /\ c[i-1] = a[i]
        BY <3>6, <2>1, <2>3, <1>1, <1>2, <1>4
      <4> QED BY <4>2, <4>3, <3>4, <1>4
    <3> QED BY <3>5, <3>6
  <2> QED BY <2>1, <2>2, <2>3
<1>18. Represents(u, "pool", c)
  BY <1>4, <1>8, <1>9, <1>12, <1>13, <1>17 DEF Represents
<1>19. Represents(u, "free", b)
  <2>1. ASSUME NEW i \in 1..Len(b) PROVE u.l[b[i]] = k.l[b[i]] /\ u.r[b[i]] = k.r[b[i]]
    <3>1. b[i] \in Node /\ ~In(a, b[i])
      BY ElementOfSeq DEF Apart, In
    <3>2. \A x \in 1..L : b[i] # a[x]
      BY <3>1 DEF In, L
    <3>3. b[i] # n /\ b[i] # ln /\ b[i] # rn
      BY <3>1, <3>2, <1>1, <1>2, <1>5, LinksAssumption
    <3> QED BY <3>1, <3>3, <1>8
  <2> QED BY <2>1, <1>8 DEF Represents
<1> QED BY <1>8, <1>18, <1>19 DEF u, c

\* The node leaves the pool's list and joins the free one at its end.
LEMMA MidlePopStep ==
  ASSUME NEW k, LinksType(k), NEW a \in Seq(Node), NEW b \in Seq(Node), NEW n \in Node,
         Represents(k, "pool", a), Represents(k, "free", b),
         Distinct(a), Distinct(b), In(a, n), Apart(a, b)
  PROVE  LET p == memoryMidlePop(k, n)
         IN  /\ LinksType(p) /\ Represents(p, "pool", Without(a, n))
             /\ Represents(p, "free", Append(b, n))
<1> DEFINE u == Unlink(k, n)
           c == Without(a, n)
<1>1. LinksType(u) /\ Represents(u, "pool", c) /\ Represents(u, "free", b)
  BY UnlinkStep
<1>2. c \in Seq(Node) /\ \A m : In(c, m) <=> In(a, m) /\ m # n
  BY TakenOut
<1>3. ~In(b, n) /\ ~In(c, n) /\ Apart(b, c)
  BY <1>2 DEF Apart
<1>4. "free" \in Lists /\ "pool" \in Lists \ {"free"}
  BY DEF Lists
<1> HIDE DEF u, c
<1>5. LET p == memoryRightPush(u, "free", n)
      IN  /\ LinksType(p) /\ Represents(p, "free", Append(b, n)) /\ Represents(p, "pool", c)
  BY <1>1, <1>2, <1>3, <1>4, PushStep
<1> QED BY <1>5 DEF memoryMidlePop, u, c

-----------------------------------------------------------------------------
(* The specification                                                       *)

LinksInv == IInv /\ LinksType(links) /\ LinksAgree

\* No node is in both lists.
LEMMA ListsApart ==
  ASSUME IInv
  PROVE  Apart(nodes, free) /\ Apart(free, nodes)
BY DEF IInv, Listed, Apart

LEMMA LinksInitially ==
  ASSUME LinksInit
  PROVE  LinksInv
<1>1. IInv
  BY InitEstablishes DEF LinksInit
<1>2. LinksType(links)
  BY DEF LinksInit, LinksType, Link
<1>3. nodes = <<>> /\ free = <<>> /\ Len(<<>>) = 0
  BY DEF LinksInit, Init
<1>4. LinksAgree
  BY <1>3 DEF LinksInit, LinksAgree, Represents, Lists
<1> QED BY <1>1, <1>2, <1>4 DEF LinksInv

\* Whether a node has room is read from the links and from the list alike.
LEMMA FitsAlike ==
  ASSUME LinksInv, NEW size \in Sizes
  PROVE  LinkFits(size) <=> Fits(size)
<1>1. nodes \in Seq(Node) /\ (nodes = <<>> <=> Len(nodes) = 0) /\ Len(nodes) \in Nat
  BY EmptySeq, LenProperties DEF LinksInv, IInv, TypeOK
<1>2. links.right["pool"] = IF nodes = <<>> THEN Null ELSE Right
  BY DEF LinksInv, LinksAgree, Represents, Right
<1>3. nodes # <<>> => Right \in Node
  BY <1>1, ElementOfSeq DEF Right
<1> QED BY <1>2, <1>3, LinksAssumption DEF LinkFits, Fits

LEMMA LinkAllocStep ==
  ASSUME LinksInv, NEW size \in Sizes, LinkAlloc(size)
  PROVE  LinksInv'
<1>1. IInv'
  BY StepPreserves DEF LinksInv, LinkAlloc, Next
<1>2. LinkFits(size) <=> Fits(size)
  BY FitsAlike
<1>3. /\ LinksType(links) /\ Represents(links, "pool", nodes) /\ Represents(links, "free", free)
      /\ nodes \in Seq(Node) /\ free \in Seq(Node) /\ Distinct(nodes) /\ Distinct(free)
      /\ Apart(nodes, free) /\ Apart(free, nodes)
  BY ListsApart DEF LinksInv, LinksAgree, IInv, TypeOK, Listed
<1>4. /\ "pool" \in Lists /\ "free" \in Lists
      /\ "free" \in Lists \ {"pool"} /\ "pool" \in Lists \ {"free"}
  BY DEF Lists
<1>5. links.left["free"] = IF free = <<>> THEN Null ELSE free[1]
  BY <1>3 DEF Represents
<1>6. SUFFICES LinksType(links') /\ Represents(links', "pool", nodes') /\ Represents(links', "free", free')
  BY <1>1 DEF LinksInv, LinksAgree, LinksType, Represents
<1>7. CASE FromLast(size)
  <2>1. links' = links /\ nodes' = nodes /\ free' = free
    BY <1>2, <1>7 DEF LinkAlloc, FromLast
  <2> QED BY <2>1, <1>3
<1>8. CASE FromFree(size)
  <2> DEFINE n == Head(free)
             k == memoryLeftPopNode(links, "free")
  <2>1. /\ n \in Node /\ n = free[1] /\ In(free, n)
        /\ Tail(free) \in Seq(Node) /\ Distinct(Tail(free))
        /\ \A m : In(Tail(free), m) <=> In(free, m) /\ m # n
    BY <1>3, <1>8, OffFront, HeadTailProperties DEF FromFree
  <2>2. links.left["free"] = n /\ n # Null
    BY <2>1, <1>5, <1>8, LinksAssumption DEF FromFree
  <2>3. links' = memoryRightPush(k, "pool", n)
    BY <2>2, <1>2, <1>8 DEF LinkAlloc, FromFree
  <2>4. nodes' = Append(nodes, n) /\ free' = Tail(free) /\ free # <<>>
    BY <1>8 DEF FromFree
  <2>5. LinksType(k) /\ Represents(k, "free", Tail(free)) /\ Represents(k, "pool", nodes)
    BY <2>4, <1>3, <1>4, PopStep
  <2> HIDE DEF n, k
  <2>6. ~In(nodes, n) /\ ~In(Tail(free), n) /\ Apart(nodes, Tail(free))
    BY <2>1, <1>3 DEF Apart
  <2>7. LET p == memoryRightPush(k, "pool", n)
        IN  LinksType(p) /\ Represents(p, "pool", Append(nodes, n)) /\ Represents(p, "free", Tail(free))
    BY <2>1, <2>5, <2>6, <1>3, <1>4, PushStep
  <2> QED BY <2>3, <2>4, <2>7
<1>9. CASE FromMalloc(size)
  <2>1. PICK n \in Node \ made : made' = made \cup {n} /\ nodes' = Append(nodes, n)
    BY <1>9 DEF FromMalloc
  <2>2. free = <<>> /\ free' = free /\ links.left["free"] = Null
    BY <1>5, <1>9 DEF FromMalloc
  <2>3. (CHOOSE m \in made' : m \notin made) = n
    BY <2>1
  <2>4. links' = memoryRightPush(links, "pool", n)
    BY <2>2, <2>3, <1>2, <1>9 DEF LinkAlloc, FromMalloc
  <2>5. ~In(nodes, n) /\ ~In(free, n)
    BY <2>1, NotMade DEF LinksInv
  <2>6. LET p == memoryRightPush(links, "pool", n)
        IN  LinksType(p) /\ Represents(p, "pool", Append(nodes, n)) /\ Represents(p, "free", free)
    BY <2>1, <2>5, <1>3, <1>4, PushStep
  <2> QED BY <2>1, <2>2, <2>4, <2>6
<1> QED BY <1>7, <1>8, <1>9 DEF LinkAlloc, memoryAlloc

LEMMA LinkFreeStep ==
  ASSUME LinksInv, NEW b \in live, LinkFree(b)
  PROVE  LinksInv'
<1> DEFINE n == b.node
<1>1. IInv'
  BY StepPreserves DEF LinksInv, LinkFree, Next
<1>2. /\ LinksType(links) /\ Represents(links, "pool", nodes) /\ Represents(links, "free", free)
      /\ nodes \in Seq(Node) /\ free \in Seq(Node) /\ Distinct(nodes) /\ Distinct(free)
      /\ Apart(nodes, free)
  BY ListsApart DEF LinksInv, LinksAgree, IInv, TypeOK, Listed
<1>3. SUFFICES LinksType(links') /\ Represents(links', "pool", nodes') /\ Represents(links', "free", free')
  BY <1>1 DEF LinksInv, LinksAgree, LinksType, Represents
<1>4. CASE Rest(b) # 0
  <2>1. links' = links /\ nodes' = nodes /\ free' = free
    BY <1>4 DEF LinkFree, memoryFree
  <2> QED BY <2>1, <1>2
<1>5. CASE Rest(b) = 0
  <2>1. /\ links' = memoryMidlePop(links, n)
        /\ nodes' = Without(nodes, n) /\ free' = Append(free, n)
    BY <1>5 DEF LinkFree, memoryFree
  <2>2. n \in Node /\ s[n] # 0
    BY Uncounted DEF LinksInv, IInv, TypeOK, Block, LinkFree
  <2>3. In(nodes, n)
    BY <2>2 DEF LinksInv, IInv, Listed
  <2> QED BY <2>1, <2>2, <2>3, <1>2, MidlePopStep
<1> QED BY <1>4, <1>5

LEMMA LinksStep ==
  ASSUME LinksInv, [LinkNext]_linkVars
  PROVE  LinksInv'
<1>1. CASE LinkNext
  BY <1>1, LinkAllocStep, LinkFreeStep DEF LinkNext
<1>2. CASE UNCHANGED linkVars
  <2>1. UNCHANGED vars /\ UNCHANGED links
    BY <1>2 DEF linkVars
  <2>2. IInv'
    BY <2>1, StepPreserves DEF LinksInv
  <2> QED BY <2>1, <2>2 DEF LinksInv, LinksType, LinksAgree, Represents, vars
<1> QED BY <1>1, <1>2

\* The links of the two lists represent them after any calls, for any number of
\* nodes: unlinking in memoryMidlePop, whatever neighbours the node has, and the
\* pushes and pops at the ends keep both lists whole and apart.
THEOREM PoolLinksAgree == LinkSpec => []LinksAgree
<1>1. LinksInit => LinksInv
  BY LinksInitially
<1>2. LinksInv /\ [LinkNext]_linkVars => LinksInv'
  BY LinksStep
<1>3. LinksInv => LinksAgree
  BY DEF LinksInv
<1> QED BY <1>1, <1>2, <1>3, PTL DEF LinkSpec

-----------------------------------------------------------------------------
(* Connections: what holds always, whatever goes out of step               *)


\* What the io thread has of a socket that it is accepting, and a worker of a
\* connection that it has found.
Accepting == [fd : Fds, ev : FdEvs, socket : Sockets]
Found     == [conn : Conns, block : Nat]

\* What is queued for the workers.
Frames    == [kind : {"frame"}, ev : FdEvs, pool : Sockets, ssrc : Clients, asker : Sockets]
Answers   == [kind : {"answer"}, conn : Conns, asker : Sockets]
Datagrams == [kind : {"datagram"}, ssrc : Clients]
Messages  == Frames \cup Answers \cup Datagrams

Queued(w) == {queue[w][i] : i \in 1..Len(queue[w])}

\* The types of the queues, of the threads' places and of the histories,
QueueTypes ==
  /\ queue \in [Workers -> Seq(Messages)]
  /\ pc \in [Threads -> {"next", "pop", "init", "accept", "push", "destroy", "find", "torn", "attach"}]
  /\ pc[io] \in {"next", "pop", "init"} /\ \A w \in Workers : pc[w] \notin {"pop", "init"}
  /\ DOMAIN held = Threads
  /\ requests \in [Sockets -> Nat] /\ datagrams \in [Clients -> Nat]
  /\ wire \in [Sockets -> Seq(Sockets)] /\ heads \in [Sockets -> Int]

\* and of what a thread has read: it goes with the thread's place.
HeldTypes ==
  /\ pc[io] # "next" => held[io] \in Accepting
  /\ \A w \in Workers :
       /\ pc[w] = "accept" => held[w] \in Conns /\ conn[held[w]].ssrc \in Clients
       /\ pc[w] \in {"push", "destroy"} => held[w] \in FdEvs /\ fdev[held[w]].pool \in Sockets
       /\ pc[w] = "attach" => /\ held[w] \in Found /\ queue[w] # <<>> /\ Event(w).kind = "datagram"
                              /\ conn[held[w].conn].ssrc = Event(w).ssrc

\* An event that is used has been set up, and a connection that is used has a
\* client.
SetUp ==
  /\ \A e \in FdEvs : fdev[e].isconnected => fdev[e].fd \in Fds /\ fdev[e].pool \in Sockets
  /\ \A f \in Fds : epoll[f] # None => Open(f) /\ fdev[epoll[f]].pool \in Sockets
  /\ \A e \in FdEvs : fdev[e].hgConn # None => conn[fdev[e].hgConn].ssrc \in Clients
  /\ \A w \in Workers : \A ev \in Queued(w) : ev.kind = "answer" => conn[ev.conn].ssrc \in Clients

\* A socket has one number.
Numbered ==
  /\ \A f \in Fds : Open(f) => socket[f] \in 1..Len(owner)
  /\ \A f, g \in Fds : Open(f) /\ socket[f] = socket[g] => f = g

\* The free connections are listed once each, and the map has a client's own.
FreeConns ==
  /\ hgConnFreePtr \in Seq(Conns)
  /\ \A i, j \in 1..Len(hgConnFreePtr) : hgConnFreePtr[i] = hgConnFreePtr[j] => i = j
  /\ \A c \in Conns : conn[c].ssrc = 0 <=> \E i \in 1..Len(hgConnFreePtr) : hgConnFreePtr[i] = c
  /\ \A ssrc \in Clients : bucksmap[ssrc] # None => conn[bucksmap[ssrc]].ssrc = ssrc

\* Addresses lie below the next free block, and a connection's is its own,
\* unless two threads chose a block at once.
Blocks ==
  /\ DOMAIN addr \subseteq Nat
  /\ "mixed" \notin seen =>
       /\ \A b \in DOMAIN addr : b < sockaddrPool
       /\ \A c \in Conns : conn[c].sa # None => conn[c].sa \in DOMAIN addr /\ addr[conn[c].sa] = conn[c].ssrc

\* All of that.
Always == ConnTypeOK /\ QueueTypes /\ HeldTypes /\ SetUp /\ Numbered /\ FreeConns /\ Blocks /\ HeadsGivenBack

-----------------------------------------------------------------------------
(* Connections: what holds as long as nothing is out of step               *)

\* A fd event is a socket's, on its way back to the list, being set up, or free.
Registered(e) == \E f \in Fds : epoll[f] = e
Pushing(e) == \E w \in Workers : pc[w] = "push" /\ held[w] = e
SettingUp(e) == pc[io] = "init" /\ held[io].ev = e
IsFree(e) == ~Registered(e) /\ ~Pushing(e) /\ ~SettingUp(e)

\* An event that is registered is set up for the socket it is registered with;
\* an open socket without one is the one being accepted.
SocketsKept ==
  /\ \A f \in Fds : epoll[f] # None =>
       /\ fdev[epoll[f]].fd = f /\ fdev[epoll[f]].isconnected
       /\ fdev[epoll[f]].pool = socket[f]
  /\ \A f \in Fds : Open(f) /\ epoll[f] = None => pc[io] # "next" /\ held[io].fd = f
  /\ pc[io] # "next" => /\ Open(held[io].fd) /\ epoll[held[io].fd] = None
                        /\ socket[held[io].fd] = held[io].socket

\* The event that the io thread takes is free till it is taken, and then
\* nobody else's.
Accepted ==
  /\ pc[io] = "pop" => IsFree(held[io].ev)
  /\ pc[io] = "init" => /\ ~Registered(held[io].ev)
                        /\ \A w \in Workers : pc[w] \in {"push", "destroy"} => held[w] # held[io].ev

\* The free events have places in the list: each one's is one above that of
\* the event its link leads to, and the first has the highest.  No two have
\* the same, so the links lead through all of them, and through no other.
Places(pos) ==
  /\ \A e \in FdEvs : IsFree(e) => fdchainfree # None /\ pos[e] <= pos[fdchainfree]
  /\ fdchainfree # None => IsFree(fdchainfree)
  /\ \A d, e \in FdEvs : IsFree(d) /\ IsFree(e) /\ pos[d] = pos[e] => d = e
  /\ \A e \in FdEvs : IsFree(e) =>
       IF fdev[e].fnext = None THEN pos[e] = 0
       ELSE IsFree(fdev[e].fnext) /\ pos[e] = pos[fdev[e].fnext] + 1

Chained == \E pos \in [FdEvs -> Nat] : Places(pos)

\* An event with a connection is registered, and the two point to each other;
\* the connection's client is the owner of the event's socket.
Pointing ==
  /\ \A e \in FdEvs : fdev[e].hgConn # None =>
       /\ Registered(e) /\ conn[fdev[e].hgConn].tcpfd = e
       /\ conn[fdev[e].hgConn].ssrc = owner[fdev[e].pool]
  /\ \A c \in Conns : conn[c].tcpfd # None => fdev[conn[c].tcpfd].hgConn = c

\* The memory of a closed socket is destroyed once, by the worker of its owner.
Failing ==
  /\ \A k \in gone : k <= Len(owner) /\ Closed(k)
  /\ \A w \in Workers : pc[w] \in {"push", "destroy"} =>
       LET k == fdev[held[w]].pool IN
       /\ k <= Len(owner) /\ getWorker(owner[k]) = w /\ Closed(k) /\ k \notin gone
       /\ ~Registered(held[w])
       /\ pc[w] = "destroy" => IsFree(held[w])

\* An event is still the one of socket k; worker w is giving it back.
Alive(e, k) == \E f \in Fds : epoll[f] = e /\ socket[f] = k
FailingOf(w, e, k) == pc[w] \in {"push", "destroy"} /\ held[w] = e /\ fdev[e].pool = k

\* A frame that is queued came over the socket of its client; that is alive,
\* or failing in the worker that the frame is queued for, or its memory is
\* destroyed and the frame will be seen to be late.
FrameDue(w, ev) ==
  /\ ev.pool = ev.asker /\ ev.asker <= Len(owner) /\ ev.ssrc = owner[ev.asker]
  /\ w = getWorker(ev.ssrc) /\ requests[ev.asker] > 0
  /\ ev.pool \in gone \/ Alive(ev.ev, ev.pool) \/ FailingOf(w, ev.ev, ev.pool)

\* An answer is for the connection of him who asked, which has the event of
\* the socket he asked on, or none when that is closed ...
AnswerOf(w, ev) ==
  /\ ev.asker <= Len(owner) /\ w = getWorker(owner[ev.asker])
  /\ conn[ev.conn].ssrc = owner[ev.asker]
  /\ IF conn[ev.conn].tcpfd = None THEN Closed(ev.asker)
     ELSE fdev[conn[ev.conn].tcpfd].pool = ev.asker

\* ... and his client is in the map before the answer is sent.
Mapped(w, ssrc) == bucksmap[ssrc] = None => pc[w] = "accept" /\ conn[held[w]].ssrc = ssrc

MessageDue(w, ev) ==
  /\ ev.kind = "frame" => FrameDue(w, ev)
  /\ ev.kind = "answer" => AnswerOf(w, ev) /\ Mapped(w, owner[ev.asker])
  /\ ev.kind = "datagram" => "early" \in seen \/ bucksmap[ev.ssrc] # None

QueuesDue == \A w \in Workers : \A ev \in Queued(w) : MessageDue(w, ev)

\* What was sent over a socket answers those who asked on it, whose client is
\* in the map.
Sent ==
  \A k \in Sockets :
    /\ wire[k] # <<>> => k <= Len(owner) /\ bucksmap[owner[k]] # None
    /\ \A i \in 1..Len(wire[k]) : wire[k][i] = k

\* Each connection that is used was made for a socket of its own, over which a
\* frame had come: so there are no more of them than such sockets.
Made(g) ==
  \A c \in Conns : conn[c].ssrc # 0 =>
    /\ g[c] <= Len(owner) /\ requests[g[c]] > 0
    /\ IF conn[c].tcpfd = None THEN Closed(g[c]) ELSE g[c] = fdev[conn[c].tcpfd].pool
    /\ \A d \in Conns : conn[d].ssrc # 0 /\ g[c] = g[d] => c = d

ConnsMade == \E g \in [Conns -> Sockets] : Made(g)

\* A crash has one of the causes of CrashOnlyIfDue.
CrashDue ==
    CASE crashed = "no fd event"     -> Cardinality(OpenFds) + Cardinality(Returning) = FdNum
      [] crashed = "no connection"   ->
           Cardinality({k \in Sockets : requests[k] > 0}) > hgConnNum
      [] crashed = "unknown ssrc"    -> seen \cap {"early", "torn"} # {}
      [] crashed = "null fd event"   ->
           \E w \in Workers : queue[w] # <<>> /\ Event(w).kind = "answer" /\ Closed(Event(w).asker)
      [] OTHER -> crashed = "no"

\* All of that.
Ordered == SocketsKept /\ Accepted /\ Chained /\ Pointing /\ Failing /\ QueuesDue
           /\ Sent /\ ConnsMade /\ CrashDue

\* The inductive invariant.
ConnIInv == Always /\ (InOrder => Ordered)

-----------------------------------------------------------------------------
(* Connections: queues and threads                                         *)

\* The io thread is no worker; every client has a worker; nothing is None.
LEMMA ThreadsApart ==
  /\ Workers \subseteq Nat /\ io \in Nat /\ io \notin Workers
  /\ Threads = Workers \cup {io} /\ None \notin Nat
  /\ \A ssrc \in Clients : getWorker(ssrc) \in Workers /\ ssrc \in Nat \ {0}
  /\ FdEvs \subseteq Nat /\ Fds \subseteq Nat /\ Sockets \subseteq Nat /\ Conns \subseteq Nat
BY ConnectionsAssumption DEF Workers, io, Threads, getWorker, FdEvs, Fds, Sockets, Conns

\* A queue has messages, the first of them too.
LEMMA QueuedTypes ==
  ASSUME QueueTypes, NEW w \in Workers
  PROVE  /\ queue[w] \in Seq(Messages) /\ Len(queue[w]) \in Nat
         /\ \A ev \in Queued(w) : ev \in Messages
         /\ queue[w] # <<>> => Head(queue[w]) \in Queued(w)
<1>1. queue[w] \in Seq(Messages)
  BY DEF QueueTypes
<1>2. Len(queue[w]) \in Nat /\ \A i \in 1..Len(queue[w]) : queue[w][i] \in Messages
  BY <1>1, LenProperties, ElementOfSeq
<1>3. ASSUME queue[w] # <<>> PROVE Head(queue[w]) = queue[w][1] /\ 1 \in 1..Len(queue[w])
  BY <1>1, <1>2, <1>3, HeadTailProperties, EmptySeq
<1> QED BY <1>1, <1>2, <1>3 DEF Queued

\* Who queues a message for worker v queues no other, and what was first stays.
LEMMA QueueAdded ==
  ASSUME QueueTypes, NEW e \in Messages, NEW v \in Workers,
         queue' = [queue EXCEPT ![v] = Append(@, e)]
  PROVE  /\ queue' \in [Workers -> Seq(Messages)]
         /\ \A w \in Workers : \A ev \in Queued(w)' : ev \in Queued(w) \/ (ev = e /\ w = v)
         /\ \A w \in Workers : queue[w] # <<>> => queue'[w] # <<>> /\ Head(queue'[w]) = Head(queue[w])
<1>1. queue \in [Workers -> Seq(Messages)]
  BY DEF QueueTypes
<1>2. /\ Append(queue[v], e) \in Seq(Messages)
      /\ Len(Append(queue[v], e)) = Len(queue[v]) + 1
      /\ \A i \in 1..Len(queue[v]) : Append(queue[v], e)[i] = queue[v][i]
      /\ Append(queue[v], e)[Len(queue[v])+1] = e
      /\ Append(queue[v], e) # <<>>
  <2>1. queue[v] \in Seq(Messages)
    BY <1>1
  <2> QED BY <2>1, AppendProperties
<1>3. queue' \in [Workers -> Seq(Messages)] /\ queue'[v] = Append(queue[v], e)
      /\ \A w \in Workers : w # v => queue'[w] = queue[w]
  BY <1>1, <1>2
<1>4. Len(queue[v]) \in Nat
  BY QueuedTypes
<1>5. ASSUME NEW w \in Workers, NEW ev \in Queued(w)'
      PROVE  ev \in Queued(w) \/ (ev = e /\ w = v)
  <2>1. CASE w # v
    BY <2>1, <1>3, <1>5 DEF Queued
  <2>2. CASE w = v
    <3>1. PICK i \in 1..Len(queue'[v]) : ev = queue'[v][i]
      BY <2>2, <1>5 DEF Queued
    <3>2. CASE i = Len(queue[v])+1
      BY <3>1, <3>2, <2>2, <1>2, <1>3
    <3>3. CASE i # Len(queue[v])+1
      <4>1. i \in 1..Len(queue[v])
        BY <3>3, <1>2, <1>3, <1>4
      <4>2. ev = queue[v][i]
        BY <4>1, <3>1, <1>2, <1>3
      <4> QED BY <4>1, <4>2, <2>2 DEF Queued
    <3> QED BY <3>2, <3>3
  <2> QED BY <2>1, <2>2
<1>6. ASSUME NEW w \in Workers, queue[w] # <<>>
      PROVE  queue'[w] # <<>> /\ Head(queue'[w]) = Head(queue[w])
  <2>1. CASE w # v
    BY <2>1, <1>3, <1>6
  <2>2. CASE w = v
    <3>1. queue[v] \in Seq(Messages) /\ queue[v] # <<>>
      BY <1>1, <2>2, <1>6
    <3>2. Head(queue[v]) = queue[v][1] /\ 1 \in 1..Len(queue[v])
      BY <3>1, <1>4, HeadTailProperties, EmptySeq
    <3>3. Head(Append(queue[v], e)) = Append(queue[v], e)[1]
      BY <1>2, HeadTailProperties
    <3> QED BY <3>2, <3>3, <1>2, <1>3, <2>2
  <2> QED BY <2>1, <2>2
<1> QED BY <1>3, <1>5, <1>6

\* Who takes the first message off a queue leaves the others.
LEMMA QueueHandled ==
  ASSUME QueueTypes, NEW v \in Workers, queue[v] # <<>>, queue' = Handled(v)
  PROVE  /\ queue' \in [Workers -> Seq(Messages)]
         /\ \A w \in Workers : \A ev \in Queued(w)' : ev \in Queued(w)
         /\ \A w \in Workers : w # v => queue'[w] = queue[w]
<1>1. queue \in [Workers -> Seq(Messages)]
  BY DEF QueueTypes
<1>2. /\ Tail(queue[v]) \in Seq(Messages)
      /\ Len(Tail(queue[v])) = Len(queue[v]) - 1
      /\ \A i \in 1..Len(Tail(queue[v])) : Tail(queue[v])[i] = queue[v][i+1]
  <2>1. queue[v] \in Seq(Messages)
    BY <1>1
  <2> QED BY <2>1, HeadTailProperties
<1>3. queue' \in [Workers -> Seq(Messages)] /\ queue'[v] = Tail(queue[v])
      /\ \A w \in Workers : w # v => queue'[w] = queue[w]
  BY <1>1, <1>2 DEF Handled
<1>4. Len(queue[v]) \in Nat
  BY QueuedTypes
<1>5. ASSUME NEW w \in Workers, NEW ev \in Queued(w)' PROVE ev \in Queued(w)
  <2>1. CASE w # v
    BY <2>1, <1>3, <1>5 DEF Queued
  <2>2. CASE w = v
    <3>1. PICK i \in 1..Len(queue'[v]) : ev = queue'[v][i]
      BY <2>2, <1>5 DEF Queued
    <3>2. i + 1 \in 1..Len(queue[v]) /\ ev = queue[v][i+1]
      BY <3>1, <1>2, <1>3, <1>4
    <3> QED BY <3>2, <2>2 DEF Queued
  <2> QED BY <2>1, <2>2
<1> QED BY <1>3, <1>5

\* The event that a worker handles is one of its messages, of the kind that it has.
LEMMA FirstTypes ==
  ASSUME QueueTypes, NEW w \in Workers, queue[w] # <<>>
  PROVE  /\ Event(w) \in Queued(w)
         /\ Event(w).kind = "frame" => Event(w) \in Frames
         /\ Event(w).kind = "answer" => Event(w) \in Answers
         /\ Event(w).kind = "datagram" => Event(w) \in Datagrams
<1>1. Event(w) \in Queued(w) /\ Event(w) \in Messages
  BY QueuedTypes DEF Event
<1>2. /\ \A x \in Frames : x.kind = "frame"
      /\ \A x \in Answers : x.kind = "answer"
      /\ \A x \in Datagrams : x.kind = "datagram"
  BY DEF Frames, Answers, Datagrams
<1>3. Event(w) \in Frames \/ Event(w) \in Answers \/ Event(w) \in Datagrams
  BY <1>1 DEF Messages
<1> QED BY <1>1, <1>2, <1>3


-----------------------------------------------------------------------------
(* Connections: each action keeps what holds always                        *)

\* As long as not all sockets were accepted the system has a number for one
\* more: the open ones have different sockets.
LEMMA NumberFree ==
  ASSUME ConnTypeOK, Numbered, Len(owner) < MaxSockets
  PROVE  Min({g \in Fds : ~Open(g)}) \in Fds /\ ~Open(Min({g \in Fds : ~Open(g)}))
<1> DEFINE G == {g \in Fds : ~Open(g)}
<1>1. MaxSockets \in Nat /\ Len(owner) \in Nat
  BY ConnectionsAssumption, LenProperties DEF ConnTypeOK
<1>2. G # {}
  <2> SUFFICES ASSUME \A g \in Fds : Open(g) PROVE FALSE
    OBVIOUS
  <2> DEFINE h == [g \in Fds |-> socket[g]]
  <2>1. \A g \in Fds : socket[g] \in 1..Len(owner)
    BY DEF Numbered
  <2>2. h \in [1..MaxSockets -> 1..Len(owner)]
    BY <2>1 DEF Fds
  <2>3. /\ IsFiniteSet(1..MaxSockets) /\ Cardinality(1..MaxSockets) = MaxSockets
        /\ IsFiniteSet(1..Len(owner)) /\ Cardinality(1..Len(owner)) = Len(owner)
    <3>1. 1 \in Int /\ MaxSockets \in Int /\ Len(owner) \in Int
      BY <1>1
    <3>2. (1 > MaxSockets => MaxSockets = 0) /\ MaxSockets - 1 + 1 = MaxSockets
          /\ (1 > Len(owner) => Len(owner) = 0) /\ Len(owner) - 1 + 1 = Len(owner)
      BY <1>1
    <3> QED BY <3>1, <3>2, FS_Interval
  <2>4. \E x, y \in 1..MaxSockets : x # y /\ h[x] = h[y]
    <3> HIDE DEF h
    <3> QED BY <2>2, <2>3, FS_PigeonHole
  <2> QED BY <2>4 DEF Numbered, Fds
<1>3. \E m \in G : \A g \in G : m <= g
  <2>1. G \in SUBSET Nat
    BY DEF Fds
  <2>2. IsWellFoundedOn(OpToRel(<, Nat), Nat)
    BY NatLessThanWellFounded
  <2>3. PICK m \in G : \A g \in G : <<g, m>> \notin OpToRel(<, Nat)
    <3> HIDE DEF G
    <3> QED BY <1>2, <2>1, <2>2, WFMin, Zenon
  <2>4. \A g \in G : m <= g
    <3> TAKE g \in G
    <3>1. g \in Nat /\ m \in Nat
      BY <2>1
    <3>2. ~(g < m)
      BY <2>3, <3>1 DEF OpToRel
    <3> QED BY <3>1, <3>2
  <2> QED BY <2>4
<1>4. Min(G) \in G
  <2> HIDE DEF G
  <2> QED BY <1>3 DEF Min
<1> QED BY <1>4

\* tcpAccept, whose socket is the next one.
LEMMA AcceptSafe ==
  ASSUME Always, NEW ssrc \in Clients, tcpAccept(ssrc)
  PROVE  Always'
<1>1. CASE fdchainfree = None
  <2>1. UNCHANGED <<net, events, bucket, address, queue, pc, held, clients, sendings, seen>>
    BY <1>1 DEF tcpAccept
  <2>2. ConnTypeOK'
    BY <2>1 DEF Always, ConnTypeOK, net, events, bucket, address
  <2>3. QueueTypes' /\ HeldTypes' /\ SetUp'
    BY <2>1 DEF Always, QueueTypes, HeldTypes, SetUp, net, events, bucket, clients, sendings, Queued, Open, Event
  <2>4. Numbered' /\ FreeConns' /\ Blocks' /\ HeadsGivenBack'
    BY <2>1 DEF Always, Numbered, FreeConns, Blocks, HeadsGivenBack, net, bucket, address, sendings, Open
  <2> QED BY <2>2, <2>3, <2>4 DEF Always
<1>2. CASE fdchainfree # None
  <2> DEFINE f == Min({g \in Fds : ~Open(g)})
             n == Len(owner) + 1
             h == [fd |-> f, ev |-> fdchainfree, socket |-> n]
  <2>1. /\ owner' = Append(owner, ssrc) /\ socket' = [socket EXCEPT ![f] = n]
        /\ held' = [held EXCEPT ![io] = h] /\ pc' = [pc EXCEPT ![io] = "pop"]
        /\ UNCHANGED <<epoll, events, bucket, address, queue, clients, sendings, seen>>
        /\ Len(owner) < MaxSockets
    BY <1>2 DEF tcpAccept, Keeps, Goto
  <2>2. f \in Fds /\ ~Open(f)
    BY <2>1, NumberFree DEF Always
  <2>3. /\ owner' \in Seq(Clients) /\ Len(owner') = n /\ n \in Sockets
        /\ \A k \in 1..Len(owner) : owner'[k] = owner[k]
    <3>1. owner \in Seq(Clients) /\ Len(owner) \in Nat
      BY LenProperties DEF Always, ConnTypeOK
    <3>2. n \in Sockets
      BY <2>1, <3>1, ConnectionsAssumption DEF Sockets
    <3> QED BY <3>1, <3>2, <2>1, AppendProperties
  <2>4. h \in Accepting
    BY <1>2, <2>2, <2>3 DEF Always, ConnTypeOK, Accepting
  <2> HIDE DEF f, h
  <2>5. ConnTypeOK'
    <3>1. n <= MaxSockets
      BY <2>3, ConnectionsAssumption DEF Sockets
    <3>2. socket' \in [Fds -> Sockets \cup {None}]
      BY <2>1, <2>2, <2>3 DEF Always, ConnTypeOK
    <3> QED BY <2>1, <2>3, <3>1, <3>2 DEF Always, ConnTypeOK, events, bucket, address
  <2>6. QueueTypes'
    BY <2>1, ThreadsApart DEF Always, QueueTypes, clients, sendings
  <2>7. HeldTypes'
    BY <2>1, <2>4, ThreadsApart DEF Always, QueueTypes, HeldTypes, Event, bucket, events
  <2>8. SetUp'
    <3>1. n # None
      BY <2>3, ThreadsApart
    <3> QED BY <2>1, <2>2, <3>1 DEF Always, ConnTypeOK, SetUp, Open, Queued, bucket, events
  <2>9. Numbered'
    <3>1. n # None /\ Len(owner) \in Nat
      BY <2>3, ThreadsApart, LenProperties DEF Always, ConnTypeOK
    <3>2. \A g \in Fds : socket'[g] = IF g = f THEN n ELSE socket[g]
      BY <2>1 DEF Always, ConnTypeOK
    <3>3. \A g \in Fds : Open(g) => socket[g] \in 1..Len(owner)
      BY DEF Always, Numbered
    <3>4. \A g \in Fds : Open(g)' => socket'[g] \in 1..Len(owner')
      BY <3>1, <3>2, <3>3, <2>2, <2>3 DEF Open
    <3>5. \A g, d \in Fds : Open(g)' /\ socket'[g] = socket'[d] => g = d
      <4> SUFFICES ASSUME NEW g \in Fds, NEW d \in Fds, Open(g)', socket'[g] = socket'[d] PROVE g = d
        OBVIOUS
      <4>1. CASE g # f /\ d # f
        BY <4>1, <3>2 DEF Always, Numbered, Open
      <4>2. CASE g = f /\ d # f
        <5>1. socket[d] = n
          BY <4>2, <3>2
        <5>2. Open(d)
          BY <5>1, <3>1 DEF Open
        <5> QED BY <5>1, <5>2, <3>3, <3>1
      <4>3. CASE g # f /\ d = f
        <5>1. socket[g] = n
          BY <4>3, <3>2
        <5>2. Open(g)
          BY <5>1, <3>1 DEF Open
        <5> QED BY <5>1, <5>2, <3>3, <3>1
      <4> QED BY <4>1, <4>2, <4>3
    <3> QED BY <3>4, <3>5 DEF Numbered
  <2>10. FreeConns' /\ Blocks' /\ HeadsGivenBack'
    BY <2>1 DEF Always, FreeConns, Blocks, HeadsGivenBack, bucket, address, sendings
  <2> QED BY <2>5, <2>6, <2>7, <2>8, <2>9, <2>10 DEF Always
<1> QED BY <1>1, <1>2

\* getFreeFdEv, in the list or out of step.
LEMMA PopSafe ==
  ASSUME Always, getFreeFdEv
  PROVE  Always'
<1> DEFINE e == held[io].ev
<1>1. /\ e \in FdEvs /\ pc' = [pc EXCEPT ![io] = "init"]
      /\ fdchainfree' = fdev[e].fnext
      /\ fdev' = [fdev EXCEPT ![e].fd = 0, ![e].hgConn = None, ![e].isconnected = FALSE]
      /\ seen' \in {seen, seen \cup {"race"}}
      /\ UNCHANGED <<net, gone, bucket, address, queue, held, crashed, clients, sendings>>
  BY DEF getFreeFdEv, Goto, Always, HeldTypes, Accepting
<1> HIDE DEF e
<1>0. fdev' \in [FdEvs -> FdEvFields]
  <2> DEFINE r == [fnext |-> fdev[e].fnext, fd |-> 0, hgConn |-> None, isconnected |-> FALSE, pool |-> fdev[e].pool]
  <2>1. fdev \in [FdEvs -> FdEvFields] /\ fdev[e] \in FdEvFields
    BY <1>1 DEF Always, ConnTypeOK
  <2>2. r \in FdEvFields
    BY <2>1 DEF FdEvFields
  <2>3. [fdev EXCEPT ![e] = r] = [fdev EXCEPT ![e].fd = 0, ![e].hgConn = None, ![e].isconnected = FALSE]
    BY <1>1, <2>1 DEF FdEvFields
  <2> HIDE DEF r
  <2> QED BY <1>1, <2>1, <2>2, <2>3
<1>2. ConnTypeOK'
  <2>1. fdchainfree' \in FdEvs \cup {None}
    BY <1>1 DEF Always, ConnTypeOK, FdEvFields
  <2> QED BY <1>0, <1>1, <2>1 DEF Always, ConnTypeOK, net, bucket, address
<1>3. QueueTypes'
  BY <1>1, ThreadsApart DEF Always, QueueTypes, clients, sendings
<1>4. \A x \in FdEvs : /\ fdev'[x].pool = fdev[x].pool
                       /\ x # e => fdev'[x] = fdev[x]
                       /\ fdev'[x].hgConn \in {fdev[x].hgConn, None}
                       /\ fdev'[x].isconnected => x # e
  BY <1>1 DEF Always, ConnTypeOK
<1>5. HeldTypes'
  <2>1. pc[io] # "next" /\ held[io] \in Accepting
    BY DEF getFreeFdEv, Always, HeldTypes
  <2>2. UNCHANGED <<conn, held, queue>> /\ \A w \in Workers : pc'[w] = pc[w]
    BY <1>1, ThreadsApart DEF bucket, Always, QueueTypes
  <2>3. \A w \in Workers : pc[w] \in {"push", "destroy"} => held[w] \in FdEvs /\ fdev'[held[w]].pool \in Sockets
    BY <1>4 DEF Always, HeldTypes
  <2> QED BY <2>1, <2>2, <2>3 DEF Always, HeldTypes, Event
<1>6. SetUp'
  BY <1>1, <1>4 DEF Always, ConnTypeOK, SetUp, Open, Queued, bucket, net
<1>7. Numbered' /\ FreeConns' /\ HeadsGivenBack'
  BY <1>1 DEF Always, Numbered, FreeConns, HeadsGivenBack, bucket, net, sendings, Open
<1>8. Blocks'
  BY <1>1 DEF Always, Blocks, bucket, address
<1> QED BY <1>2, <1>3, <1>5, <1>6, <1>7, <1>8 DEF Always

\* InitEvent.
LEMMA InitSafe ==
  ASSUME Always, InitEvent
  PROVE  Always'
<1> DEFINE e == held[io].ev
           f == held[io].fd
           k == held[io].socket
<1>1. /\ e \in FdEvs /\ f \in Fds /\ k \in Sockets
      /\ pc' = [pc EXCEPT ![io] = "next"] /\ held' = [held EXCEPT ![io] = None]
      /\ fdev' = [fdev EXCEPT ![e].fd = f, ![e].isconnected = TRUE, ![e].pool = k]
      /\ epoll' = IF Open(f) THEN [epoll EXCEPT ![f] = e] ELSE epoll
      /\ UNCHANGED <<owner, socket, fdchainfree, gone, bucket, address, queue, clients, sendings, seen>>
  BY DEF InitEvent, Goto, Keeps, Always, HeldTypes, Accepting
<1> HIDE DEF e, f, k
<1>2. ConnTypeOK'
  <2>1. fdev' \in [FdEvs -> FdEvFields]
    <3> DEFINE r == [fnext |-> fdev[e].fnext, fd |-> f, hgConn |-> fdev[e].hgConn, isconnected |-> TRUE, pool |-> k]
    <3>1. fdev \in [FdEvs -> FdEvFields] /\ fdev[e] \in FdEvFields
      BY <1>1 DEF Always, ConnTypeOK
    <3>2. r \in FdEvFields
      BY <1>1, <3>1 DEF FdEvFields
    <3>3. [fdev EXCEPT ![e] = r] = [fdev EXCEPT ![e].fd = f, ![e].isconnected = TRUE, ![e].pool = k]
      BY <1>1, <3>1 DEF FdEvFields
    <3> HIDE DEF r
    <3> QED BY <1>1, <3>1, <3>2, <3>3
  <2>2. epoll' \in [Fds -> FdEvs \cup {None}]
    BY <1>1 DEF Always, ConnTypeOK
  <2> QED BY <1>1, <2>1, <2>2 DEF Always, ConnTypeOK, bucket, address
<1>3. QueueTypes'
  BY <1>1, ThreadsApart DEF Always, QueueTypes, clients, sendings
<1>4. \A x \in FdEvs : /\ fdev'[x].pool = IF x = e THEN k ELSE fdev[x].pool
                       /\ x # e => fdev'[x] = fdev[x]
                       /\ fdev'[x].hgConn = fdev[x].hgConn
                       /\ x = e => fdev'[x].fd = f
  BY <1>1 DEF Always, ConnTypeOK
<1>9. \A x \in FdEvs : fdev[x].pool \in Sockets => fdev'[x].pool \in Sockets
  <2> TAKE x \in FdEvs
  <2> QED BY <1>1, <1>4
<1>5. HeldTypes'
  <2>1. pc'[io] = "next" /\ UNCHANGED <<conn, queue>>
    BY <1>1, ThreadsApart DEF Always, QueueTypes, bucket
  <2>2. \A w \in Workers : pc'[w] = pc[w] /\ held'[w] = held[w]
    BY <1>1, ThreadsApart DEF Always, QueueTypes
  <2>3. \A w \in Workers : pc[w] \in {"push", "destroy"} => held[w] \in FdEvs /\ fdev'[held[w]].pool \in Sockets
    BY <1>9, Zenon DEF Always, HeldTypes
  <2> QED BY <2>1, <2>2, <2>3 DEF Always, HeldTypes, Event
<1>6. SetUp'
  <2>1. \A x \in FdEvs : fdev'[x].isconnected => fdev'[x].fd \in Fds /\ fdev'[x].pool \in Sockets
    <3> TAKE x \in FdEvs
    <3>1. CASE x = e
      BY <1>1, <1>4, <3>1
    <3>2. CASE x # e
      BY <1>4, <3>2 DEF Always, SetUp
    <3> QED BY <3>1, <3>2
  <2>2. \A g \in Fds : epoll'[g] # None => Open(g)' /\ fdev'[epoll'[g]].pool \in Sockets
    <3> SUFFICES ASSUME NEW g \in Fds, epoll'[g] # None PROVE Open(g)' /\ fdev'[epoll'[g]].pool \in Sockets
      OBVIOUS
    <3>1. CASE Open(f) /\ g = f
      <4>1. epoll'[g] = e /\ fdev'[e].pool = k /\ Open(g)'
        BY <1>1, <1>4, <3>1 DEF Always, ConnTypeOK, Open
      <4> QED BY <4>1, <1>1
    <3>2. CASE ~(Open(f) /\ g = f)
      <4>1. epoll'[g] = epoll[g] /\ epoll[g] \in FdEvs
        BY <1>1, <3>2 DEF Always, ConnTypeOK
      <4>2. Open(g) /\ fdev[epoll[g]].pool \in Sockets /\ UNCHANGED socket
        BY <1>1, <4>1 DEF Always, SetUp
      <4> QED BY <1>9, <4>1, <4>2 DEF Open
    <3> QED BY <3>1, <3>2
  <2>3. \A x \in FdEvs : fdev'[x].hgConn # None => conn'[fdev'[x].hgConn].ssrc \in Clients
    BY <1>1, <1>4 DEF Always, SetUp, bucket
  <2> QED BY <1>1, <2>1, <2>2, <2>3 DEF Always, SetUp, Queued, bucket
<1>7. Numbered' /\ FreeConns' /\ HeadsGivenBack' /\ Blocks'
  BY <1>1 DEF Always, Numbered, FreeConns, HeadsGivenBack, Blocks, bucket, address, sendings, Open
<1> QED BY <1>2, <1>3, <1>5, <1>6, <1>7 DEF Always

\* tcpRecvmsg.
LEMMA FrameSafe ==
  ASSUME Always, NEW f \in Fds, tcpRecvmsg(f)
  PROVE  Always'
<1> DEFINE e == epoll[f]
           k == socket[f]
           p == fdev[e].pool
           m == [kind |-> "frame", ev |-> e, pool |-> p, ssrc |-> owner[k], asker |-> k]
<1>1. /\ requests' = [requests EXCEPT ![k] = @ + 1]
      /\ queue' = [queue EXCEPT ![getWorker(owner[k])] = Append(@, m)]
      /\ seen' \in {seen, seen \cup {"late"}}
      /\ Open(f) /\ e # None
      /\ UNCHANGED <<net, events, bucket, address, pc, held, datagrams, sendings>>
  BY DEF tcpRecvmsg, Queue
<1>2. /\ k \in Sockets /\ owner[k] \in Clients /\ e \in FdEvs /\ p \in Sockets
      /\ getWorker(owner[k]) \in Workers
  <2>1. k \in 1..Len(owner) /\ p \in Sockets
    BY <1>1 DEF Always, Numbered, SetUp
  <2>2. e \in FdEvs /\ k \in Sockets
    BY <1>1 DEF Always, ConnTypeOK, Open
  <2>3. owner[k] \in Clients
    BY <2>1, ElementOfSeq DEF Always, ConnTypeOK
  <2> QED BY <2>1, <2>2, <2>3, ThreadsApart
<1>3. m \in Messages /\ m.kind = "frame"
  BY <1>2 DEF Messages, Frames
<1> HIDE DEF m, p, k, e
<1>4. /\ queue' \in [Workers -> Seq(Messages)]
      /\ \A w \in Workers : \A ev \in Queued(w)' : ev \in Queued(w) \/ ev = m
      /\ \A w \in Workers : queue[w] # <<>> => queue'[w] # <<>> /\ Head(queue'[w]) = Head(queue[w])
  BY <1>1, <1>2, <1>3, QueueAdded DEF Always
<1>5. ConnTypeOK'
  BY <1>1 DEF Always, ConnTypeOK, net, events, bucket, address
<1>6. QueueTypes'
  BY <1>1, <1>2, <1>4 DEF Always, QueueTypes, sendings
<1>7. HeldTypes'
  BY <1>1, <1>4 DEF Always, HeldTypes, Event, bucket, events
<1>8. SetUp'
  BY <1>1, <1>3, <1>4 DEF Always, SetUp, Open, bucket, events, net
<1>9. Numbered' /\ FreeConns' /\ HeadsGivenBack' /\ Blocks'
  BY <1>1 DEF Always, Numbered, FreeConns, HeadsGivenBack, Blocks, bucket, address, sendings, Open, net
<1> QED BY <1>5, <1>6, <1>7, <1>8, <1>9 DEF Always

\* udpRecvmsg.
LEMMA DatagramSafe ==
  ASSUME Always, NEW ssrc \in Clients, udpRecvmsg(ssrc)
  PROVE  Always'
<1> DEFINE m == [kind |-> "datagram", ssrc |-> ssrc]
<1>1. /\ datagrams' = [datagrams EXCEPT ![ssrc] = @ + 1]
      /\ queue' = [queue EXCEPT ![getWorker(ssrc)] = Append(@, m)]
      /\ seen' \in {seen, seen \cup {"early"}}
      /\ UNCHANGED <<net, events, bucket, address, pc, held, requests, sendings>>
  BY DEF udpRecvmsg, Queue
<1>2. m \in Messages /\ m.kind = "datagram" /\ getWorker(ssrc) \in Workers
  BY ThreadsApart DEF Messages, Datagrams
<1> HIDE DEF m
<1>4. /\ queue' \in [Workers -> Seq(Messages)]
      /\ \A w \in Workers : \A ev \in Queued(w)' : ev \in Queued(w) \/ ev = m
      /\ \A w \in Workers : queue[w] # <<>> => queue'[w] # <<>> /\ Head(queue'[w]) = Head(queue[w])
  BY <1>1, <1>2, QueueAdded DEF Always
<1>5. ConnTypeOK'
  BY <1>1 DEF Always, ConnTypeOK, net, events, bucket, address
<1>6. QueueTypes'
  BY <1>1, <1>2, <1>4 DEF Always, QueueTypes, sendings
<1>7. HeldTypes'
  BY <1>1, <1>4 DEF Always, HeldTypes, Event, bucket, events
<1>8. SetUp'
  BY <1>1, <1>2, <1>4 DEF Always, SetUp, Open, bucket, events, net
<1>9. Numbered' /\ FreeConns' /\ HeadsGivenBack' /\ Blocks'
  BY <1>1 DEF Always, Numbered, FreeConns, HeadsGivenBack, Blocks, bucket, address, sendings, Open, net
<1> QED BY <1>5, <1>6, <1>7, <1>8, <1>9 DEF Always

\* threadPOOLRecv of a login, with hgConnGetFreeConn and its answer queued.
LEMMA LoginSafe ==
  ASSUME Always, NEW w \in Workers, threadPOOLRecv(w)
  PROVE  Always'
<1> DEFINE m == Event(w)
<1>1. queue[w] # <<>> /\ pc[w] = "next" /\ m.kind = "frame"
  BY DEF threadPOOLRecv, At, Event
<1>2. m \in Frames
  BY <1>1, FirstTypes DEF Always
<1>3. m.ev \in FdEvs /\ m.ssrc \in Clients /\ m.asker \in Sockets
  BY <1>2 DEF Frames
<1>4. Read(w) \subseteq Clients
  BY <1>3 DEF Read
<1>5. /\ seen' \in {seen, seen \cup {"late"}}
      /\ UNCHANGED <<net, fdchainfree, gone, bucksmap, address, clients, sendings>>
  BY DEF threadPOOLRecv
<1> HIDE DEF m
<1>6. CASE UNCHANGED <<hgConnFreePtr, conn, fdev, queue, pc, held>>
  <2>1. ConnTypeOK'
    BY <1>5, <1>6 DEF Always, ConnTypeOK, net, address
  <2>2. QueueTypes' /\ HeldTypes' /\ SetUp'
    BY <1>5, <1>6 DEF Always, QueueTypes, HeldTypes, SetUp, net, clients, sendings, Queued, Open, Event
  <2>3. Numbered' /\ FreeConns' /\ Blocks' /\ HeadsGivenBack'
    BY <1>5, <1>6 DEF Always, Numbered, FreeConns, Blocks, HeadsGivenBack, net, address, sendings, Open
  <2> QED BY <2>1, <2>2, <2>3 DEF Always
<1>7. CASE /\ m.ev \in FdEvs /\ Given(w) # None
           /\ Answer(w, Given(w), conn[Given(w)].ssrc)
           /\ Keeps(w, Given(w)) /\ Goto(w, "accept")
           /\ UNCHANGED <<hgConnFreePtr, conn, fdev>>
  <2> DEFINE c == Given(w)
             a == [kind |-> "answer", conn |-> c, asker |-> m.asker]
             v == getWorker(conn[c].ssrc)
  <2>1. c \in Conns /\ conn[c].ssrc \in Clients
    BY <1>3, <1>7 DEF Always, ConnTypeOK, FdEvFields, SetUp, Given, m
  <2>2. a \in Messages /\ a.kind = "answer" /\ a.conn = c /\ v \in Workers
    BY <2>1, <1>3, ThreadsApart DEF Messages, Answers
  <2>3. queue' = [queue EXCEPT ![v] = Append(@, a)]
    BY <1>7 DEF Answer, m
  <2> HIDE DEF c, a, v
  <2>4. /\ queue' \in [Workers -> Seq(Messages)]
        /\ \A x \in Workers : \A ev \in Queued(x)' : ev \in Queued(x) \/ ev = a
        /\ \A x \in Workers : queue[x] # <<>> => queue'[x] # <<>> /\ Head(queue'[x]) = Head(queue[x])
    BY <2>2, <2>3, QueueAdded DEF Always
  <2>5. pc' = [pc EXCEPT ![w] = "accept"] /\ held' = [held EXCEPT ![w] = c]
    BY <1>7 DEF Keeps, Goto, c
  <2>6. ConnTypeOK'
    BY <1>5, <1>7 DEF Always, ConnTypeOK, net, address
  <2>7. QueueTypes'
    BY <1>5, <1>7, <2>4, <2>5, ThreadsApart DEF Always, QueueTypes, sendings, clients
  <2>8. HeldTypes'
    BY <1>5, <1>7, <2>1, <2>4, <2>5, ThreadsApart DEF Always, QueueTypes, HeldTypes, Event
  <2>9. SetUp'
    BY <1>5, <1>7, <2>1, <2>2, <2>4 DEF Always, SetUp, Open, net
  <2>10. Numbered' /\ FreeConns' /\ Blocks' /\ HeadsGivenBack'
    BY <1>5, <1>7 DEF Always, Numbered, FreeConns, Blocks, HeadsGivenBack, net, address, sendings, Open
  <2> QED BY <2>6, <2>7, <2>8, <2>9, <2>10 DEF Always
<1>8. ASSUME NEW ssrc \in Clients, hgConnFreePtr # <<>>,
             hgConnGetFreeConn(m.ev, ssrc), Answer(w, Head(hgConnFreePtr), ssrc),
             Keeps(w, Head(hgConnFreePtr)), Goto(w, "accept")
      PROVE  Always'
  <2> DEFINE c == Head(hgConnFreePtr)
             a == [kind |-> "answer", conn |-> c, asker |-> m.asker]
             r == [ssrc |-> ssrc, tcpfd |-> m.ev, sa |-> None]
             v == getWorker(ssrc)
  <2>1. /\ c \in Conns /\ Len(hgConnFreePtr) \in Nat \ {0} /\ c = hgConnFreePtr[1]
        /\ Tail(hgConnFreePtr) \in Seq(Conns) /\ Len(Tail(hgConnFreePtr)) = Len(hgConnFreePtr) - 1
        /\ \A i \in 1..Len(Tail(hgConnFreePtr)) : Tail(hgConnFreePtr)[i] = hgConnFreePtr[i+1]
    <3>1. hgConnFreePtr \in Seq(Conns) /\ hgConnFreePtr # <<>>
      BY <1>8 DEF Always, FreeConns
    <3> QED BY <3>1, HeadTailProperties, LenProperties, EmptySeq
  <2>2. a \in Messages /\ a.kind = "answer" /\ a.conn = c /\ v \in Workers /\ ssrc # 0
    BY <2>1, <1>3, ThreadsApart DEF Messages, Answers
  <2>3. /\ queue' = [queue EXCEPT ![v] = Append(@, a)]
        /\ pc' = [pc EXCEPT ![w] = "accept"] /\ held' = [held EXCEPT ![w] = c]
        /\ hgConnFreePtr' = Tail(hgConnFreePtr)
        /\ conn' = [conn EXCEPT ![c] = r] /\ fdev' = [fdev EXCEPT ![m.ev].hgConn = c]
    BY <1>8 DEF Answer, m, Keeps, Goto, hgConnGetFreeConn
  <2>4. r \in ConnFields /\ r.ssrc = ssrc /\ r.sa = None
    BY <1>3 DEF ConnFields
  <2>5. fdev' \in [FdEvs -> FdEvFields]
    <3> DEFINE e == m.ev
               q == [fnext |-> fdev[e].fnext, fd |-> fdev[e].fd, hgConn |-> c,
                     isconnected |-> fdev[e].isconnected, pool |-> fdev[e].pool]
    <3>1. fdev \in [FdEvs -> FdEvFields] /\ e \in FdEvs /\ fdev[e] \in FdEvFields
      BY <1>3 DEF Always, ConnTypeOK
    <3>2. q \in FdEvFields
      BY <2>1, <3>1 DEF FdEvFields
    <3>3. [fdev EXCEPT ![e] = q] = [fdev EXCEPT ![e].hgConn = c]
      BY <3>1 DEF FdEvFields
    <3> HIDE DEF q, e
    <3> QED BY <2>3, <3>1, <3>2, <3>3 DEF e
  <2>6. \A x \in FdEvs : /\ x # m.ev => fdev'[x] = fdev[x]
                         /\ fdev'[x].pool = fdev[x].pool /\ fdev'[x].fd = fdev[x].fd
                         /\ fdev'[x].isconnected = fdev[x].isconnected
                         /\ fdev'[x].hgConn = IF x = m.ev THEN c ELSE fdev[x].hgConn
    BY <2>3, <1>3 DEF Always, ConnTypeOK, FdEvFields
  <2> HIDE DEF c, a, v, r
  <2>7. conn' \in [Conns -> ConnFields] /\ conn'[c] = r /\ \A d \in Conns : d # c => conn'[d] = conn[d]
    BY <2>1, <2>3, <2>4 DEF Always, ConnTypeOK
  <2>8. conn[c].ssrc = 0 /\ \A d \in Conns : conn[d].ssrc \in Clients => d # c
    <3>1. conn[c].ssrc = 0
      <4>1. 1 \in 1..Len(hgConnFreePtr)
        BY <2>1
      <4> QED BY <2>1, <4>1 DEF Always, FreeConns
    <3> QED BY <3>1, ThreadsApart
  <2>9. /\ queue' \in [Workers -> Seq(Messages)]
        /\ \A x \in Workers : \A ev \in Queued(x)' : ev \in Queued(x) \/ ev = a
        /\ \A x \in Workers : queue[x] # <<>> => queue'[x] # <<>> /\ Head(queue'[x]) = Head(queue[x])
    BY <2>2, <2>3, QueueAdded DEF Always
  <2>10. ConnTypeOK'
    BY <1>5, <2>5, <2>7 DEF Always, ConnTypeOK, net, address
  <2>11. QueueTypes'
    BY <1>5, <2>3, <2>9, ThreadsApart DEF Always, QueueTypes, sendings, clients
  <2>12. \A d \in Conns : conn[d].ssrc \in Clients => conn'[d] = conn[d]
    BY <2>7, <2>8
  <2>13. HeldTypes'
    <3>1. pc'[io] = pc[io] /\ held'[io] = held[io]
      BY <2>3, ThreadsApart DEF Always, QueueTypes
    <3>2. pc'[w] = "accept" /\ held'[w] = c /\ conn'[c].ssrc \in Clients
      BY <2>3, <2>4, <2>7, ThreadsApart DEF Always, QueueTypes
    <3>3. ASSUME NEW x \in Workers, x # w
          PROVE  /\ pc'[x] = "accept" => held'[x] \in Conns /\ conn'[held'[x]].ssrc \in Clients
                 /\ pc'[x] \in {"push", "destroy"} => held'[x] \in FdEvs /\ fdev'[held'[x]].pool \in Sockets
                 /\ pc'[x] = "attach" => /\ held'[x] \in Found /\ queue'[x] # <<>> /\ Event(x)'.kind = "datagram"
                              /\ conn'[held'[x].conn].ssrc = Event(x)'.ssrc
      <4>1. pc'[x] = pc[x] /\ held'[x] = held[x]
        BY <2>3, <3>3, ThreadsApart DEF Always, QueueTypes
      <4>2. pc[x] = "attach" => Event(x)' = Event(x) /\ queue'[x] # <<>> /\ held[x] \in Found
                                /\ conn'[held[x].conn].ssrc = Event(x).ssrc /\ Event(x).kind = "datagram"
        <5> SUFFICES ASSUME pc[x] = "attach" PROVE Event(x)' = Event(x) /\ queue'[x] # <<>> /\ held[x] \in Found
                                /\ conn'[held[x].conn].ssrc = Event(x).ssrc /\ Event(x).kind = "datagram"
          OBVIOUS
        <5>1. /\ held[x] \in Found /\ queue[x] # <<>> /\ Event(x).kind = "datagram"
              /\ conn[held[x].conn].ssrc = Event(x).ssrc
          BY DEF Always, HeldTypes
        <5>2. Event(x) \in Datagrams /\ held[x].conn \in Conns
          BY <5>1, FirstTypes DEF Always, Found
        <5>3. Event(x).ssrc \in Clients
          BY <5>2 DEF Datagrams
        <5> QED BY <5>1, <5>2, <5>3, <2>12, <2>9 DEF Event
      <4> QED BY <4>1, <4>2, <2>6, <2>12 DEF Always, HeldTypes
    <3> QED BY <3>1, <3>2, <3>3, <2>1 DEF Always, HeldTypes
  <2>14. SetUp'
    <3>1. \A e \in FdEvs : fdev'[e].isconnected => fdev'[e].fd \in Fds /\ fdev'[e].pool \in Sockets
      BY <2>6 DEF Always, SetUp
    <3>2. \A f \in Fds : epoll'[f] # None => Open(f)' /\ fdev'[epoll'[f]].pool \in Sockets
      BY <2>6, <1>5 DEF Always, ConnTypeOK, SetUp, Open, net
    <3>3. \A e \in FdEvs : fdev'[e].hgConn # None => conn'[fdev'[e].hgConn].ssrc \in Clients
      <4> TAKE e \in FdEvs
      <4>1. CASE e = m.ev
        BY <4>1, <2>4, <2>6, <2>7
      <4>2. CASE e # m.ev
        BY <4>2, <2>6, <2>12 DEF Always, ConnTypeOK, FdEvFields, SetUp
      <4> QED BY <4>1, <4>2
    <3>4. \A x \in Workers : \A ev \in Queued(x)' : ev.kind = "answer" => conn'[ev.conn].ssrc \in Clients
      <4> TAKE x \in Workers
      <4> TAKE ev \in Queued(x)'
      <4>1. CASE ev = a
        BY <4>1, <2>2, <2>4, <2>7
      <4>2. CASE ev \in Queued(x)
        <5> HAVE ev.kind = "answer"
        <5>1. ev \in Messages /\ conn[ev.conn].ssrc \in Clients
          BY <4>2, QueuedTypes DEF Always, SetUp
        <5>2. ev.conn \in Conns
          BY <5>1 DEF Messages, Frames, Answers, Datagrams
        <5> QED BY <5>1, <5>2, <2>12
      <4> QED BY <4>1, <4>2, <2>9
    <3> QED BY <3>1, <3>2, <3>3, <3>4 DEF SetUp
  <2>15. Numbered' /\ HeadsGivenBack'
    BY <1>5 DEF Always, Numbered, HeadsGivenBack, net, sendings, Open
  <2>16. FreeConns'
    <3>1. hgConnFreePtr' \in Seq(Conns)
      BY <2>1, <2>3
    <3>2. \A i, j \in 1..Len(hgConnFreePtr') : hgConnFreePtr'[i] = hgConnFreePtr'[j] => i = j
      <4> SUFFICES ASSUME NEW i \in 1..Len(hgConnFreePtr'), NEW j \in 1..Len(hgConnFreePtr'),
                          hgConnFreePtr'[i] = hgConnFreePtr'[j]
                   PROVE  i = j
        OBVIOUS
      <4>1. /\ i+1 \in 1..Len(hgConnFreePtr) /\ j+1 \in 1..Len(hgConnFreePtr)
            /\ hgConnFreePtr[i+1] = hgConnFreePtr[j+1]
        BY <2>1, <2>3
      <4>2. i+1 = j+1
        BY <4>1 DEF Always, FreeConns
      <4> QED BY <4>2
    <3>3. \A d \in Conns : conn'[d].ssrc = 0 <=> \E i \in 1..Len(hgConnFreePtr') : hgConnFreePtr'[i] = d
      <4> TAKE d \in Conns
      <4>1. CASE d = c
        <5>1. conn'[d].ssrc # 0
          BY <4>1, <2>7, <2>4, <2>2
        <5>2. ASSUME NEW i \in 1..Len(hgConnFreePtr'), hgConnFreePtr'[i] = d PROVE FALSE
          <6>1. i+1 \in 1..Len(hgConnFreePtr) /\ 1 \in 1..Len(hgConnFreePtr)
                /\ hgConnFreePtr[i+1] = hgConnFreePtr[1]
            BY <5>2, <4>1, <2>1, <2>3
          <6>2. i+1 = 1
            BY <6>1 DEF Always, FreeConns
          <6> QED BY <6>2
        <5> QED BY <5>1, <5>2
      <4>2. CASE d # c
        <5>1. conn'[d].ssrc = conn[d].ssrc
          BY <4>2, <2>7
        <5>2. ASSUME NEW i \in 1..Len(hgConnFreePtr), hgConnFreePtr[i] = d
              PROVE  \E j \in 1..Len(hgConnFreePtr') : hgConnFreePtr'[j] = d
          <6>1. i # 1
            BY <5>2, <4>2, <2>1
          <6>2. i-1 \in 1..Len(hgConnFreePtr') /\ (i-1)+1 = i
            BY <6>1, <2>1, <2>3
          <6> QED BY <5>2, <6>2, <2>1, <2>3
        <5>3. ASSUME NEW i \in 1..Len(hgConnFreePtr'), hgConnFreePtr'[i] = d
              PROVE  \E j \in 1..Len(hgConnFreePtr) : hgConnFreePtr[j] = d
          <6>1. i+1 \in 1..Len(hgConnFreePtr) /\ hgConnFreePtr[i+1] = d
            BY <5>3, <2>1, <2>3
          <6> QED BY <6>1
        <5> QED BY <5>1, <5>2, <5>3 DEF Always, FreeConns
      <4> QED BY <4>1, <4>2
    <3>4. \A t \in Clients : bucksmap'[t] # None => conn'[bucksmap'[t]].ssrc = t
      BY <1>5, <2>12 DEF Always, ConnTypeOK, FreeConns
    <3> QED BY <3>1, <3>2, <3>3, <3>4 DEF FreeConns
  <2>17. Blocks'
    <3>1. UNCHANGED <<sockaddrPool, addr>> /\ ("mixed" \in seen <=> "mixed" \in seen')
      BY <1>5 DEF address
    <3>2. \A d \in Conns : conn'[d].sa # None => conn'[d] = conn[d]
      BY <2>4, <2>7
    <3> QED BY <3>1, <3>2 DEF Always, Blocks
  <2> QED BY <2>10, <2>11, <2>13, <2>14, <2>15, <2>16, <2>17 DEF Always
<1>9. \/ UNCHANGED <<hgConnFreePtr, conn, fdev, queue, pc, held>>
      \/ /\ Given(w) # None
         /\ Answer(w, Given(w), conn[Given(w)].ssrc)
         /\ Keeps(w, Given(w)) /\ Goto(w, "accept")
         /\ UNCHANGED <<hgConnFreePtr, conn, fdev>>
      \/ \E ssrc \in Clients :
           /\ hgConnFreePtr # <<>>
           /\ hgConnGetFreeConn(m.ev, ssrc) /\ Answer(w, Head(hgConnFreePtr), ssrc)
           /\ Keeps(w, Head(hgConnFreePtr)) /\ Goto(w, "accept")
  <2>1. CASE Event(w).pool \in gone /\ Crash("freed memory") /\ UNCHANGED <<hgConnFreePtr, conn, fdev, queue, pc, held>>
    BY <2>1
  <2>2. ASSUME NEW ssrc \in Read(w),
          IF Given(w) # None
          THEN /\ Answer(w, Given(w), conn[Given(w)].ssrc)
               /\ Keeps(w, Given(w)) /\ Goto(w, "accept")
               /\ UNCHANGED <<hgConnFreePtr, conn, fdev, crashed>>
          ELSE IF hgConnFreePtr = <<>>
          THEN Crash("no connection") /\ UNCHANGED <<hgConnFreePtr, conn, fdev, queue, pc, held>>
          ELSE /\ hgConnGetFreeConn(Event(w).ev, ssrc)
               /\ Answer(w, Head(hgConnFreePtr), ssrc)
               /\ Keeps(w, Head(hgConnFreePtr)) /\ Goto(w, "accept")
               /\ UNCHANGED crashed
        PROVE <1>9
    <3>1. CASE Given(w) # None
      BY <2>2, <3>1
    <3>2. CASE Given(w) = None /\ hgConnFreePtr = <<>>
      BY <2>2, <3>2
    <3>3. CASE Given(w) = None /\ hgConnFreePtr # <<>>
      <4>1. ssrc \in Clients
        BY <1>4
      <4> QED BY <2>2, <3>3, <4>1 DEF m
    <3> QED BY <3>1, <3>2, <3>3
  <2> QED BY <2>1, <2>2, Zenon DEF threadPOOLRecv
<1> QED BY <1>3, <1>6, <1>7, <1>8, <1>9

\* SendStream's outcomes: the head of an answer is given back unless the socket
\* refused it, which sendDataQueue accounts for.
LEMMA HeadGivenBack ==
  ASSUME NEW outcome \in Outcomes, outcome # Error
  PROVE  1 \in GivenBack(outcome) <=> ~Refused(outcome)
<1> DEFINE c == PushFramCach
<1>1. HeadLen \in Nat \ {0} /\ BodyLens \in Seq(Nat)
  BY TcpSendAssumption, ElementOfSeq
<1>2. /\ c \in Seq(Nat) /\ Len(c) \in Nat \ {0} /\ c[1] = HeadLen /\ DOMAIN c = 1..Len(c)
  <2>1. <<HeadLen>> \in Seq(Nat) /\ Len(<<HeadLen>>) = 1 /\ <<HeadLen>>[1] = HeadLen
    BY <1>1
  <2>2. Len(BodyLens) \in Nat
    BY <1>1, LenProperties
  <2> QED BY <1>1, <2>1, <2>2, ConcatProperties DEF PushFramCach
<1>3. 1 \in Offered(c)
  BY <1>2 DEF Offered, total
<1> HIDE DEF c
<1>4. CASE outcome = Again
  <2>1. 1 \notin GivenBack(outcome)
    BY <1>1, <1>2, <1>4 DEF GivenBack, clearSndChain, c, Again, Error
  <2> QED BY <2>1, <1>4 DEF Refused
<1>5. CASE outcome # Again
  <2>1. outcome \in 1..MaxTaken
    BY <1>5 DEF Outcomes
  <2>2. outcome \in Int /\ outcome >= 1
    BY <2>1
  <2> DEFINE d == SendDatapre(c, outcome)
  <2>3. GivenBack(outcome) = {i \in DOMAIN d : d[i] = 0}
    BY <1>5 DEF GivenBack, clearSndChain, c
  <2>4. DOMAIN d = DOMAIN c
    BY DEF SendDatapre
  <2>5. 1 \in DOMAIN c
    BY <1>2
  <2>6. CASE outcome < HeadLen
    <3>1. 1 \in Stop(c, outcome)
      BY <2>2, <2>6, <1>2, <1>3 DEF Stop
    <3>2. d[1] = HeadLen - outcome
      BY <2>5, <3>1, <1>2 DEF SendDatapre
    <3>3. d[1] # 0
      BY <3>2, <2>6, <2>2, <1>1
    <3>4. Refused(outcome)
      BY <2>2, <2>6, <1>1 DEF Refused
    <3> HIDE DEF d
    <3> QED BY <2>3, <3>3, <3>4
  <2>7. CASE ~(outcome < HeadLen)
    <3>1. \A j \in Stop(c, outcome) : 1 < j
      <4>1. Stop(c, outcome) \subseteq Offered(c) /\ 1 \notin Stop(c, outcome)
        BY <2>7, <1>2 DEF Stop
      <4>2. \A j \in Offered(c) : j \in Nat /\ j >= 1
        BY <1>2 DEF Offered, total
      <4> QED BY <4>1, <4>2
    <3>2. 1 \notin Stop(c, outcome)
      BY <3>1
    <3>3. d[1] = 0
      BY <2>5, <1>3, <3>1, <3>2 DEF SendDatapre
    <3>4. ~Refused(outcome)
      BY <2>2, <2>7, <1>1, <1>5 DEF Refused
    <3> HIDE DEF d
    <3> QED BY <2>3, <2>4, <2>5, <3>3, <3>4
  <2> QED BY <2>6, <2>7
<1> QED BY <1>4, <1>5

\* HgConnectBucket::Accept.
LEMMA InsertSafe ==
  ASSUME Always, NEW w \in Workers, Accept(w)
  PROVE  Always'
<1> DEFINE c == held[w]
           ssrc == conn[c].ssrc
<1>1. /\ queue[w] # <<>> /\ pc[w] = "accept" /\ c \in Conns /\ ssrc \in Clients
  BY DEF Accept, At, Always, HeldTypes
<1>2. /\ queue' = Handled(w) /\ held' = [held EXCEPT ![w] = None]
      /\ UNCHANGED <<net, events, hgConnFreePtr, conn, address, clients, sendings, seen>>
      /\ bucksmap' = IF bucksmap[ssrc] = None THEN [bucksmap EXCEPT ![ssrc] = c] ELSE bucksmap
      /\ pc' \in [Threads -> {"next", "pop", "init", "accept", "push", "destroy", "find", "torn", "attach"}]
      /\ pc'[w] = "next"
      /\ \A t \in Threads : t # w => pc'[t] = pc[t] \/ (pc[t] = "find" /\ pc'[t] = "torn")
  <2>1. CASE bucksmap[ssrc] = None
    <3>1. pc' = [t \in Threads |-> CASE t = w -> "next"
                                            [] pc[t] = "find" -> "torn"
                                            [] OTHER -> pc[t]]
      BY <2>1 DEF Accept
    <3>2. \A t \in Threads : pc'[t] = IF t = w THEN "next" ELSE IF pc[t] = "find" THEN "torn" ELSE pc[t]
      <4> TAKE t \in Threads
      <4>1. pc'[t] = CASE t = w -> "next" [] pc[t] = "find" -> "torn" [] OTHER -> pc[t]
        BY <3>1
      <4>2. t = w => pc[t] # "find"
        BY <1>1
      <4> QED BY <4>1, <4>2
    <3>3. w \in Threads /\ pc' = [t \in Threads |-> pc'[t]]
      BY <3>1, ThreadsApart
    <3>4. pc' \in [Threads -> {"next", "pop", "init", "accept", "push", "destroy", "find", "torn", "attach"}]
      BY <3>2, <3>3 DEF Always, QueueTypes
    <3> QED BY <2>1, <3>2, <3>3, <3>4 DEF Accept, Keeps
  <2>2. CASE bucksmap[ssrc] # None
    <3>1. pc' = [pc EXCEPT ![w] = "next"] /\ bucksmap' = bucksmap
      BY <2>2 DEF Accept, Goto
    <3> QED BY <2>2, <3>1, ThreadsApart DEF Accept, Keeps, Always, QueueTypes
  <2> QED BY <2>1, <2>2
<1>3. /\ queue' \in [Workers -> Seq(Messages)]
      /\ \A x \in Workers : \A ev \in Queued(x)' : ev \in Queued(x)
      /\ \A x \in Workers : x # w => queue'[x] = queue[x]
  BY <1>1, <1>2, QueueHandled DEF Always
<1> HIDE DEF c, ssrc
<1>4. ConnTypeOK'
  BY <1>1, <1>2 DEF Always, ConnTypeOK, net, events, address
<1>5. QueueTypes'
  BY <1>2, <1>3, ThreadsApart DEF Always, QueueTypes, sendings, clients
<1>6. HeldTypes'
  BY <1>2, <1>3, ThreadsApart DEF Always, QueueTypes, HeldTypes, Event, events
<1>7. SetUp'
  BY <1>2, <1>3 DEF Always, SetUp, Open, net, events
<1>8. Numbered' /\ Blocks' /\ HeadsGivenBack'
  BY <1>2 DEF Always, Numbered, Blocks, HeadsGivenBack, net, address, sendings, Open
<1>9. FreeConns'
  <2>1. \A t \in Clients : bucksmap'[t] # None => conn'[bucksmap'[t]].ssrc = t
    BY <1>1, <1>2 DEF Always, ConnTypeOK, FreeConns, ssrc
  <2> QED BY <1>2, <2>1 DEF Always, FreeConns
<1> QED BY <1>4, <1>5, <1>6, <1>7, <1>8, <1>9 DEF Always

\* setFreeFdEv as far as the event is in the list.
LEMMA PushSafe ==
  ASSUME Always, NEW w \in Workers, setFreeFdEv(w)
  PROVE  Always'
<1>1. /\ pc[w] = "push" /\ held[w] \in FdEvs
      /\ fdchainfree' = held[w] /\ pc' = [pc EXCEPT ![w] = "destroy"]
      /\ seen' \in {seen, seen \cup {"race"}}
      /\ UNCHANGED <<net, fdev, gone, bucket, address, queue, held, clients, sendings>>
  BY DEF setFreeFdEv, At, Goto, Always, HeldTypes
<1>2. ConnTypeOK'
  BY <1>1 DEF Always, ConnTypeOK, net, bucket, address
<1>3. QueueTypes' /\ HeldTypes'
  BY <1>1, ThreadsApart DEF Always, QueueTypes, HeldTypes, Event, bucket, sendings, clients
<1>4. SetUp' /\ Numbered' /\ FreeConns'
  BY <1>1 DEF Always, SetUp, Numbered, FreeConns, Open, Queued, net, bucket
<1>5. Blocks' /\ HeadsGivenBack'
  BY <1>1 DEF Always, Blocks, HeadsGivenBack, address, sendings, bucket
<1> QED BY <1>2, <1>3, <1>4, <1>5 DEF Always

\* The event's memory is destroyed.
LEMMA DestroySafe ==
  ASSUME Always, NEW w \in Workers, memoryDestroy(w)
  PROVE  Always'
<1> DEFINE p == fdev[held[w]].pool
<1>1. /\ pc[w] = "destroy" /\ held[w] \in FdEvs /\ p \in Sockets /\ queue[w] # <<>>
      /\ UNCHANGED <<net, fdchainfree, fdev, bucket, address, clients, sendings, seen>>
  BY DEF memoryDestroy, At, Always, HeldTypes
<1>2. \/ UNCHANGED <<gone, queue, pc, held>>
      \/ /\ gone' = gone \cup {p} /\ queue' = Handled(w)
         /\ pc' = [pc EXCEPT ![w] = "next"] /\ held' = [held EXCEPT ![w] = None]
  BY DEF memoryDestroy, Return, Goto, Keeps
<1> HIDE DEF p
<1>3. ConnTypeOK'
  BY <1>1, <1>2 DEF Always, ConnTypeOK, net, bucket, address
<1>4. /\ queue' \in [Workers -> Seq(Messages)]
      /\ \A x \in Workers : \A ev \in Queued(x)' : ev \in Queued(x)
      /\ \A x \in Workers : x # w => queue'[x] = queue[x]
  <2>1. CASE queue' = Handled(w)
    BY <1>1, <2>1, QueueHandled DEF Always
  <2>2. CASE UNCHANGED queue
    BY <2>2 DEF Always, QueueTypes, Queued
  <2> QED BY <1>2, <2>1, <2>2
<1>5. QueueTypes'
  <2>1. CASE UNCHANGED <<pc, held>>
    BY <1>1, <1>4, <2>1 DEF Always, QueueTypes, sendings, clients
  <2>2. CASE pc' = [pc EXCEPT ![w] = "next"] /\ held' = [held EXCEPT ![w] = None]
    BY <1>1, <1>4, <2>2, ThreadsApart DEF Always, QueueTypes, sendings, clients
  <2> QED BY <1>2, <2>1, <2>2
<1>6. HeldTypes'
  <2>1. CASE UNCHANGED <<gone, queue, pc, held>>
    BY <1>1, <2>1 DEF Always, HeldTypes, Event, bucket
  <2>2. CASE pc' = [pc EXCEPT ![w] = "next"] /\ held' = [held EXCEPT ![w] = None]
    BY <1>1, <1>4, <2>2, ThreadsApart DEF Always, QueueTypes, HeldTypes, Event, bucket
  <2> QED BY <1>2, <2>1, <2>2
<1>7. SetUp' /\ Numbered' /\ FreeConns'
  BY <1>1, <1>4 DEF Always, SetUp, Numbered, FreeConns, Open, net, bucket
<1>8. Blocks' /\ HeadsGivenBack'
  BY <1>1 DEF Always, Blocks, HeadsGivenBack, address, sendings, bucket
<1> QED BY <1>3, <1>5, <1>6, <1>7, <1>8 DEF Always

\* hgConnGetConnInBuck begins.
LEMMA BeginSafe ==
  ASSUME Always, NEW w \in Workers, hgConnGetConnInBuck(w)
  PROVE  Always'
<1>1. /\ pc[w] = "next" /\ pc' = [pc EXCEPT ![w] = "find"]
      /\ UNCHANGED <<net, events, bucket, address, queue, held, clients, sendings, seen>>
  BY DEF hgConnGetConnInBuck, At, Goto
<1>2. ConnTypeOK'
  BY <1>1 DEF Always, ConnTypeOK, net, events, bucket, address
<1>3. QueueTypes' /\ HeldTypes'
  BY <1>1, ThreadsApart DEF Always, QueueTypes, HeldTypes, Event, bucket, events, sendings, clients
<1>4. SetUp' /\ Numbered' /\ FreeConns'
  BY <1>1 DEF Always, SetUp, Numbered, FreeConns, Open, Queued, net, bucket, events
<1>5. Blocks' /\ HeadsGivenBack'
  BY <1>1 DEF Always, Blocks, HeadsGivenBack, address, sendings, bucket
<1> QED BY <1>2, <1>3, <1>4, <1>5 DEF Always

\* hgConnGetConnInBuck ends.
LEMMA FoundSafe ==
  ASSUME Always, NEW w \in Workers, ConnFound(w)
  PROVE  Always'
<1> DEFINE m == Event(w)
           c == bucksmap[m.ssrc]
           h == [conn |-> c, block |-> sockaddrPool]
<1>1. /\ pc[w] \in {"find", "torn"} /\ queue[w] # <<>> /\ m.kind = "datagram"
      /\ seen' \in {seen, seen \cup {"torn"}}
      /\ UNCHANGED <<net, events, bucket, address, queue, clients, sendings>>
      /\ \/ UNCHANGED <<pc, held>>
         \/ /\ c # None /\ held' = [held EXCEPT ![w] = h] /\ pc' = [pc EXCEPT ![w] = "attach"]
  BY DEF ConnFound, At, Goto, Keeps, Event
<1>2. m \in Datagrams
  BY <1>1, FirstTypes DEF Always
<1>3. m.ssrc \in Clients /\ (c # None => c \in Conns /\ conn[c].ssrc = m.ssrc)
  BY <1>2 DEF Datagrams, Always, ConnTypeOK, FreeConns
<1>4. c # None => h \in Found /\ h.conn = c
  BY <1>3 DEF Found, Always, ConnTypeOK
<1> HIDE DEF c, h, m
<1>5. ConnTypeOK'
  BY <1>1 DEF Always, ConnTypeOK, net, events, bucket, address
<1>6. QueueTypes'
  BY <1>1, ThreadsApart DEF Always, QueueTypes, sendings, clients
<1>7. HeldTypes'
  <2>1. CASE UNCHANGED <<pc, held>>
    BY <1>1, <2>1 DEF Always, HeldTypes, Event, bucket, events
  <2>2. CASE c # None /\ held' = [held EXCEPT ![w] = h] /\ pc' = [pc EXCEPT ![w] = "attach"]
    <3>1. /\ pc'[w] = "attach" /\ held'[w] = h
          /\ \A t \in Threads : t # w => pc'[t] = pc[t] /\ held'[t] = held[t]
      BY <2>2, ThreadsApart DEF Always, QueueTypes
    <3>2. UNCHANGED <<conn, queue, fdev>> /\ \A x \in Workers : Event(x)' = Event(x)
      BY <1>1 DEF bucket, events, Event
    <3>3. ASSUME NEW x \in Workers, x # w
          PROVE  pc'[x] = pc[x] /\ held'[x] = held[x]
      BY <3>1, <3>3, ThreadsApart
    <3>4. pc'[io] = pc[io] /\ held'[io] = held[io]
      BY <3>1, ThreadsApart
    <3>5. h \in Found /\ queue'[w] # <<>> /\ Event(w)'.kind = "datagram" /\ conn'[h.conn].ssrc = Event(w)'.ssrc
      BY <1>1, <1>3, <1>4, <2>2, <3>2 DEF m
    <3> QED BY <3>1, <3>2, <3>3, <3>4, <3>5 DEF Always, HeldTypes
  <2> QED BY <1>1, <2>1, <2>2
<1>8. SetUp' /\ Numbered' /\ FreeConns'
  BY <1>1 DEF Always, SetUp, Numbered, FreeConns, Open, Queued, net, bucket, events
<1>9. Blocks' /\ HeadsGivenBack'
  BY <1>1 DEF Always, Blocks, HeadsGivenBack, address, sendings, bucket
<1> QED BY <1>5, <1>6, <1>7, <1>8, <1>9 DEF Always

\* hgConnAttachAddr: a block that no other thread took is above all others.
LEMMA AttachSafe ==
  ASSUME Always, NEW w \in Workers, hgConnAttachAddr(w)
  PROVE  Always'
<1> DEFINE m == Event(w)
           b == held[w].block
           c == held[w].conn
<1>1. /\ pc[w] = "attach" /\ queue[w] # <<>> /\ held[w] \in Found
      /\ conn[c].ssrc = m.ssrc /\ m.kind = "datagram"
      /\ sockaddrPool' \in {b + 1, sockaddrPool + 1}
      /\ addr' = [i \in DOMAIN addr \cup {b} |-> IF i = b THEN m.ssrc ELSE addr[i]]
      /\ conn' = [conn EXCEPT ![c].sa = b]
      /\ seen' = IF b = sockaddrPool THEN seen ELSE seen \cup {"mixed"}
      /\ queue' = Handled(w) /\ pc' = [pc EXCEPT ![w] = "next"] /\ held' = [held EXCEPT ![w] = None]
      /\ UNCHANGED <<net, events, hgConnFreePtr, bucksmap, clients, sendings>>
  BY DEF hgConnAttachAddr, At, Always, HeldTypes, Return, Goto, Keeps, Event
<1>2. b \in Nat /\ c \in Conns
  BY <1>1 DEF Found
<1>3. m.ssrc \in Clients
  <2>1. m \in Datagrams
    BY <1>1, FirstTypes DEF Always
  <2> QED BY <2>1 DEF Datagrams
<1> HIDE DEF m, b, c
<1>4. /\ conn' \in [Conns -> ConnFields]
      /\ \A d \in Conns : /\ conn'[d].ssrc = conn[d].ssrc /\ conn'[d].tcpfd = conn[d].tcpfd
                          /\ conn'[d].sa = IF d = c THEN b ELSE conn[d].sa
  <2> DEFINE r == [ssrc |-> conn[c].ssrc, tcpfd |-> conn[c].tcpfd, sa |-> b]
  <2>1. conn \in [Conns -> ConnFields] /\ conn[c] \in ConnFields
    BY <1>2 DEF Always, ConnTypeOK
  <2>2. r \in ConnFields
    BY <1>2, <2>1 DEF ConnFields
  <2>3. [conn EXCEPT ![c] = r] = [conn EXCEPT ![c].sa = b]
    BY <1>2, <2>1 DEF ConnFields
  <2>4. r.ssrc = conn[c].ssrc /\ r.tcpfd = conn[c].tcpfd /\ r.sa = b
    OBVIOUS
  <2> HIDE DEF r
  <2> QED BY <1>1, <1>2, <2>1, <2>2, <2>3, <2>4
<1>5. /\ queue' \in [Workers -> Seq(Messages)]
      /\ \A x \in Workers : \A ev \in Queued(x)' : ev \in Queued(x)
      /\ \A x \in Workers : x # w => queue'[x] = queue[x]
  BY <1>1, QueueHandled DEF Always
<1>6. DOMAIN addr' = DOMAIN addr \cup {b} /\ addr'[b] = m.ssrc
      /\ \A i \in DOMAIN addr : i # b => addr'[i] = addr[i]
  BY <1>1
<1>7. ConnTypeOK'
  <2>1. sockaddrPool \in Nat /\ sockaddrPool' \in Nat
    BY <1>1, <1>2 DEF Always, ConnTypeOK
  <2>2. \A i \in DOMAIN addr' : addr'[i] \in Clients
    BY <1>3, <1>6 DEF Always, ConnTypeOK
  <2> QED BY <1>1, <1>4, <2>1, <2>2 DEF Always, ConnTypeOK, net, events
<1>8. QueueTypes'
  BY <1>1, <1>5, ThreadsApart DEF Always, QueueTypes, sendings, clients
<1>9. \A t \in Threads : t # w => pc'[t] = pc[t] /\ held'[t] = held[t]
  BY <1>1 DEF Always, QueueTypes
<1>10. HeldTypes'
  <2>1. pc'[w] = "next"
    BY <1>1, ThreadsApart DEF Always, QueueTypes
  <2>2. pc'[io] = pc[io] /\ held'[io] = held[io]
    BY <1>9, ThreadsApart
  <2>3. UNCHANGED fdev
    BY <1>1 DEF events
  <2>4. ASSUME NEW x \in Workers, x # w
        PROVE  /\ pc'[x] = "accept" => held'[x] \in Conns /\ conn'[held'[x]].ssrc \in Clients
               /\ pc'[x] \in {"push", "destroy"} => held'[x] \in FdEvs /\ fdev'[held'[x]].pool \in Sockets
               /\ pc'[x] = "attach" => /\ held'[x] \in Found /\ queue'[x] # <<>> /\ Event(x)'.kind = "datagram"
                              /\ conn'[held'[x].conn].ssrc = Event(x)'.ssrc
    <3>1. pc'[x] = pc[x] /\ held'[x] = held[x] /\ Event(x)' = Event(x) /\ queue'[x] = queue[x]
      BY <1>9, <1>5, <2>4, ThreadsApart DEF Event
    <3>2. held[x] \in Found => conn'[held[x].conn].ssrc = conn[held[x].conn].ssrc
      BY <1>4 DEF Found
    <3> QED BY <3>1, <3>2, <2>3, <1>4 DEF Always, HeldTypes
  <2> QED BY <2>1, <2>2, <2>4 DEF Always, HeldTypes
<1>11. SetUp'
  <2>1. \A e \in FdEvs : fdev'[e].hgConn # None => conn'[fdev'[e].hgConn].ssrc \in Clients
    BY <1>1, <1>4 DEF Always, ConnTypeOK, FdEvFields, SetUp, events
  <2>2. \A x \in Workers : \A ev \in Queued(x)' : ev.kind = "answer" => conn'[ev.conn].ssrc \in Clients
    <3> TAKE x \in Workers
    <3> TAKE ev \in Queued(x)'
    <3> HAVE ev.kind = "answer"
    <3>1. ev \in Messages /\ conn[ev.conn].ssrc \in Clients
      BY <1>5, QueuedTypes DEF Always, SetUp
    <3>2. ev.conn \in Conns
      BY <3>1 DEF Messages, Frames, Answers, Datagrams
    <3> QED BY <3>1, <3>2, <1>4
  <2>3. UNCHANGED <<fdev, epoll, socket>>
    BY <1>1 DEF net, events
  <2> QED BY <2>1, <2>2, <2>3 DEF Always, SetUp, Open
<1>12. Numbered' /\ HeadsGivenBack'
  BY <1>1 DEF Always, Numbered, HeadsGivenBack, Open, net, sendings
<1>13. FreeConns'
  BY <1>1, <1>4 DEF Always, ConnTypeOK, FreeConns
<1>14. Blocks'
  <2> SUFFICES ASSUME "mixed" \notin seen'
               PROVE  /\ \A i \in DOMAIN addr' : i < sockaddrPool'
                      /\ \A d \in Conns : conn'[d].sa # None => conn'[d].sa \in DOMAIN addr' /\ addr'[conn'[d].sa] = conn'[d].ssrc
    <3>1. DOMAIN addr' \subseteq Nat
      BY <1>2, <1>6 DEF Always, Blocks
    <3> QED BY <3>1 DEF Blocks
  <2>1. b = sockaddrPool /\ "mixed" \notin seen
    BY <1>1
  <2>2. \A i \in DOMAIN addr : i < sockaddrPool
    BY <2>1 DEF Always, Blocks
  <2>3. b \notin DOMAIN addr
    BY <2>1, <2>2, <1>2
  <2>4. sockaddrPool' = b + 1
    BY <1>1, <2>1
  <2>5. \A i \in DOMAIN addr' : i < sockaddrPool'
    <3> TAKE i \in DOMAIN addr'
    <3>1. CASE i = b
      BY <3>1, <2>4, <1>2
    <3>2. CASE i # b
      <4>1. i \in DOMAIN addr /\ i < b
        BY <3>2, <1>6, <2>1, <2>2
      <4>2. i < b => i < b + 1
        <5>1. i \in Nat
          BY <4>1 DEF Always, Blocks
        <5> QED BY <5>1, <1>2
      <4> QED BY <4>1, <4>2, <2>4
    <3> QED BY <3>1, <3>2
  <2>6. \A d \in Conns : conn'[d].sa # None => conn'[d].sa \in DOMAIN addr' /\ addr'[conn'[d].sa] = conn'[d].ssrc
    <3> TAKE d \in Conns
    <3> HAVE conn'[d].sa # None
    <3>1. CASE d = c
      BY <3>1, <1>4, <1>6, <1>1
    <3>2. CASE d # c
      <4>1. conn[d].sa \in DOMAIN addr /\ addr[conn[d].sa] = conn[d].ssrc
        BY <3>2, <1>4, <2>1 DEF Always, Blocks
      <4> QED BY <3>2, <4>1, <1>4, <1>6, <2>3
    <3> QED BY <3>1, <3>2
  <2> QED BY <2>5, <2>6
<1> QED BY <1>7, <1>8, <1>10, <1>11, <1>12, <1>13, <1>14 DEF Always

\* sendDataQueue, its failing included.
LEMMA SendSafe ==
  ASSUME Always, NEW w \in Workers, NEW outcome \in Outcomes, sendDataQueue(w, outcome)
  PROVE  Always'
<1> DEFINE m == Event(w)
           c == m.conn
           e == conn[c].tcpfd
           f == fdev[e].fd
<1>1. /\ queue[w] # <<>> /\ pc[w] = "next" /\ m.kind = "answer"
      /\ UNCHANGED <<fdchainfree, gone, hgConnFreePtr, bucksmap, address, clients, seen>>
  BY DEF sendDataQueue, At, Event
<1>2. m \in Answers
  BY <1>1, FirstTypes DEF Always
<1>3. c \in Conns /\ m.asker \in Sockets /\ e \in FdEvs \cup {None}
  BY <1>2 DEF Answers, Always, ConnTypeOK, ConnFields
<1>4. e # None /\ fdev[e].isconnected => f \in Fds /\ fdev[e].pool \in Sockets
  BY <1>3 DEF Always, SetUp
<1>5. CASE UNCHANGED <<net, fdev, conn, queue, pc, held, sendings>>
  <2>1. ConnTypeOK'
    BY <1>1, <1>5 DEF Always, ConnTypeOK, net, address
  <2>2. QueueTypes' /\ HeldTypes'
    BY <1>1, <1>5 DEF Always, QueueTypes, HeldTypes, Event, sendings, clients
  <2>3. SetUp' /\ Numbered' /\ FreeConns'
    BY <1>1, <1>5 DEF Always, SetUp, Numbered, FreeConns, Open, Queued, net
  <2>4. Blocks' /\ HeadsGivenBack'
    BY <1>1, <1>5 DEF Always, Blocks, HeadsGivenBack, address, sendings
  <2> QED BY <2>1, <2>2, <2>3, <2>4 DEF Always
<1>6. CASE /\ queue' = Handled(w)
           /\ UNCHANGED <<net, fdev, conn, pc, held>>
           /\ wire' \in [Sockets -> Seq(Sockets)]
           /\ heads' = heads
  <2>0. /\ queue' \in [Workers -> Seq(Messages)]
        /\ \A x \in Workers : \A ev \in Queued(x)' : ev \in Queued(x)
        /\ \A x \in Workers : x # w => queue'[x] = queue[x]
    BY <1>1, <1>6, QueueHandled DEF Always
  <2>1. ConnTypeOK'
    BY <1>1, <1>6 DEF Always, ConnTypeOK, net, address
  <2>2. QueueTypes'
    BY <1>1, <1>6, <2>0 DEF Always, QueueTypes, clients
  <2>3. HeldTypes'
    <3>1. UNCHANGED <<pc, held, conn, fdev>> /\ \A x \in Workers : pc[x] = "attach" => Event(x)' = Event(x) /\ queue'[x] = queue[x]
      BY <1>1, <1>6, <2>0 DEF Event
    <3> QED BY <3>1 DEF Always, HeldTypes
  <2>4. SetUp' /\ Numbered' /\ FreeConns'
    BY <1>1, <1>6, <2>0 DEF Always, SetUp, Numbered, FreeConns, Open, net
  <2>5. Blocks' /\ HeadsGivenBack'
    BY <1>1, <1>6 DEF Always, Blocks, HeadsGivenBack, address
  <2> QED BY <2>1, <2>2, <2>3, <2>4, <2>5 DEF Always
<1>7. ASSUME e # None, fdev[e].isconnected, fdev[e].hgConn # None,
             socket' = [socket EXCEPT ![f] = None], epoll' = [epoll EXCEPT ![f] = None],
             Forget(e), Keeps(w, e), Goto(w, "push"),
             UNCHANGED <<owner, queue, sendings>>
      PROVE  Always'
  <2> DEFINE d == fdev[e].hgConn
  <2>1. e \in FdEvs /\ d \in Conns /\ f \in Fds /\ fdev[e].pool \in Sockets
    BY <1>3, <1>4, <1>7 DEF Always, ConnTypeOK, FdEvFields
  <2>2. /\ conn' = [conn EXCEPT ![d].tcpfd = None]
        /\ fdev' = [fdev EXCEPT ![e].hgConn = None, ![e].fnext = fdchainfree]
        /\ held' = [held EXCEPT ![w] = e] /\ pc' = [pc EXCEPT ![w] = "push"]
    BY <1>7 DEF Forget, Keeps, Goto
  <2> HIDE DEF d, e, f, c, m
  <2>3. /\ fdev' \in [FdEvs -> FdEvFields]
        /\ \A x \in FdEvs : /\ fdev'[x].pool = fdev[x].pool /\ fdev'[x].fd = fdev[x].fd
                            /\ fdev'[x].isconnected = fdev[x].isconnected
                            /\ fdev'[x].hgConn = IF x = e THEN None ELSE fdev[x].hgConn
    <3> DEFINE r == [fnext |-> fdchainfree, fd |-> fdev[e].fd, hgConn |-> None,
                     isconnected |-> fdev[e].isconnected, pool |-> fdev[e].pool]
    <3>1. fdev \in [FdEvs -> FdEvFields] /\ fdev[e] \in FdEvFields
      BY <2>1 DEF Always, ConnTypeOK
    <3>2. r \in FdEvFields
      BY <2>1, <3>1 DEF FdEvFields, Always, ConnTypeOK
    <3>3. [fdev EXCEPT ![e] = r] = [fdev EXCEPT ![e].hgConn = None, ![e].fnext = fdchainfree]
      BY <2>1, <3>1 DEF FdEvFields
    <3>4. r.pool = fdev[e].pool /\ r.fd = fdev[e].fd /\ r.isconnected = fdev[e].isconnected /\ r.hgConn = None
      OBVIOUS
    <3> HIDE DEF r
    <3> QED BY <2>1, <2>2, <3>1, <3>2, <3>3, <3>4
  <2>4. /\ conn' \in [Conns -> ConnFields]
        /\ \A x \in Conns : conn'[x].ssrc = conn[x].ssrc /\ conn'[x].sa = conn[x].sa
    <3> DEFINE r == [ssrc |-> conn[d].ssrc, tcpfd |-> None, sa |-> conn[d].sa]
    <3>1. conn \in [Conns -> ConnFields] /\ conn[d] \in ConnFields
      BY <2>1 DEF Always, ConnTypeOK
    <3>2. r \in ConnFields
      BY <3>1 DEF ConnFields
    <3>3. [conn EXCEPT ![d] = r] = [conn EXCEPT ![d].tcpfd = None]
      BY <2>1, <3>1 DEF ConnFields
    <3>4. r.ssrc = conn[d].ssrc /\ r.tcpfd = None /\ r.sa = conn[d].sa
      OBVIOUS
    <3> HIDE DEF r
    <3> QED BY <2>1, <2>2, <3>1, <3>2, <3>3, <3>4
  <2>5. ConnTypeOK'
    <3>1. socket' \in [Fds -> Sockets \cup {None}] /\ epoll' \in [Fds -> FdEvs \cup {None}]
      BY <1>7 DEF Always, ConnTypeOK
    <3> QED BY <1>1, <1>7, <2>3, <2>4, <3>1 DEF Always, ConnTypeOK, address
  <2>6. QueueTypes'
    BY <1>1, <1>7, <2>2, ThreadsApart DEF Always, QueueTypes, clients, sendings
  <2>7. HeldTypes'
    <3>1. pc'[io] = pc[io] /\ held'[io] = held[io] /\ pc'[w] = "push" /\ held'[w] = e
      BY <2>2, ThreadsApart DEF Always, QueueTypes
    <3>2. ASSUME NEW x \in Workers, x # w
          PROVE  /\ pc'[x] = "accept" => held'[x] \in Conns /\ conn'[held'[x]].ssrc \in Clients
                 /\ pc'[x] \in {"push", "destroy"} => held'[x] \in FdEvs /\ fdev'[held'[x]].pool \in Sockets
                 /\ pc'[x] = "attach" => /\ held'[x] \in Found /\ queue'[x] # <<>> /\ Event(x)'.kind = "datagram"
                                /\ conn'[held'[x].conn].ssrc = Event(x)'.ssrc
      <4>1. pc'[x] = pc[x] /\ held'[x] = held[x] /\ Event(x)' = Event(x) /\ queue'[x] = queue[x]
        BY <1>7, <2>2, <3>2, ThreadsApart DEF Always, QueueTypes, Event
      <4>2. held[x] \in Found => conn'[held[x].conn].ssrc = conn[held[x].conn].ssrc
        BY <2>4 DEF Found
      <4> QED BY <4>1, <4>2, <2>3, <2>4 DEF Always, HeldTypes
    <3> QED BY <2>1, <2>3, <3>1, <3>2 DEF Always, HeldTypes
  <2>8. SetUp'
    <3>1. \A x \in FdEvs : fdev'[x].hgConn # None => conn'[fdev'[x].hgConn].ssrc \in Clients
      BY <2>3, <2>4 DEF Always, ConnTypeOK, FdEvFields, SetUp
    <3>2. \A x \in Workers : \A ev \in Queued(x)' : ev.kind = "answer" => conn'[ev.conn].ssrc \in Clients
      <4> TAKE x \in Workers
      <4> TAKE ev \in Queued(x)'
      <4> HAVE ev.kind = "answer"
      <4>1. ev \in Queued(x)
        BY <1>7 DEF Queued
      <4>2. ev \in Messages /\ conn[ev.conn].ssrc \in Clients
        BY <4>1, QueuedTypes DEF Always, SetUp
      <4>3. ev.conn \in Conns
        BY <4>2 DEF Messages, Frames, Answers, Datagrams
      <4> QED BY <4>2, <4>3, <2>4
    <3>3. \A g \in Fds : epoll'[g] # None => Open(g)' /\ fdev'[epoll'[g]].pool \in Sockets
      <4> TAKE g \in Fds
      <4> HAVE epoll'[g] # None
      <4>1. g # f /\ epoll'[g] = epoll[g] /\ socket'[g] = socket[g] /\ epoll[g] \in FdEvs
        BY <1>7 DEF Always, ConnTypeOK
      <4> QED BY <4>1, <2>3 DEF Always, SetUp, Open
    <3>4. \A x \in FdEvs : fdev'[x].isconnected => fdev'[x].fd \in Fds /\ fdev'[x].pool \in Sockets
      BY <2>3 DEF Always, SetUp
    <3> QED BY <3>1, <3>2, <3>3, <3>4 DEF SetUp
  <2>9. Numbered'
    <3>1. \A g \in Fds : socket'[g] = IF g = f THEN None ELSE socket[g]
      BY <1>7 DEF Always, ConnTypeOK
    <3> QED BY <1>7, <3>1 DEF Always, Numbered, Open
  <2>10. FreeConns'
    <3>1. UNCHANGED <<hgConnFreePtr, bucksmap>> /\ \A ssrc \in Clients : bucksmap[ssrc] \in Conns \cup {None}
      BY <1>1 DEF Always, ConnTypeOK
    <3> QED BY <3>1, <2>4 DEF Always, FreeConns
  <2>11. Blocks' /\ HeadsGivenBack'
    BY <1>1, <1>7, <2>4 DEF Always, Blocks, HeadsGivenBack, address, sendings
  <2> QED BY <2>5, <2>6, <2>7, <2>8, <2>9, <2>10, <2>11 DEF Always
<1>8. ASSUME e # None, fdev[e].isconnected, outcome # Error, Open(f),
             wire' = IF outcome = Again THEN wire
                     ELSE [wire EXCEPT ![socket[f]] = Append(@, Event(w).asker)],
             Account(socket[f], outcome)
      PROVE  wire' \in [Sockets -> Seq(Sockets)] /\ heads' = heads
  <2>1. socket[f] \in Sockets
    BY <1>3, <1>4, <1>8 DEF Always, ConnTypeOK, Open
  <2>2. wire \in [Sockets -> Seq(Sockets)] /\ heads \in [Sockets -> Int]
    BY DEF Always, QueueTypes
  <2>3. wire' \in [Sockets -> Seq(Sockets)]
    <3>1. wire[socket[f]] \in Seq(Sockets)
      BY <2>1, <2>2
    <3>2. Append(wire[socket[f]], m.asker) \in Seq(Sockets)
      BY <3>1, <1>3, AppendProperties
    <3> QED BY <1>8, <2>2, <2>1, <3>2
  <2>4. heads' = heads
    <3> DEFINE k == socket[f]
    <3>1. heads' = [heads EXCEPT ![k] = @ + (IF 1 \in GivenBack(outcome) THEN 0 ELSE 1)
                                  - (IF Refused(outcome) THEN 1 ELSE 0)]
      BY <1>8 DEF Account
    <3>2. 1 \in GivenBack(outcome) <=> ~Refused(outcome)
      BY <1>8, HeadGivenBack
    <3> HIDE DEF k
    <3>3. heads[k] + (IF 1 \in GivenBack(outcome) THEN 0 ELSE 1) - (IF Refused(outcome) THEN 1 ELSE 0) = heads[k]
      <4>1. heads[k] \in Int
        BY <2>1, <2>2 DEF k
      <4> QED BY <4>1, <3>2
    <3> QED BY <2>2, <3>1, <3>3
  <2> QED BY <2>3, <2>4
<1>9. CASE e = None
  BY <1>5, <1>9 DEF sendDataQueue
<1>10. CASE e # None /\ ~fdev[e].isconnected
  <2>1. queue' = Handled(w) /\ UNCHANGED <<net, fdev, conn, pc, held, sendings>>
    BY <1>10 DEF sendDataQueue
  <2>2. wire' \in [Sockets -> Seq(Sockets)]
    BY <2>1 DEF sendings, Always, QueueTypes
  <2> QED BY <2>1, <2>2, <1>6 DEF sendings
<1>11. CASE e # None /\ fdev[e].isconnected /\ outcome # Error
  <2>1. /\ Open(f)
        /\ wire' = IF outcome = Again THEN wire
                   ELSE [wire EXCEPT ![socket[f]] = Append(@, Event(w).asker)]
        /\ Account(socket[f], outcome)
        /\ queue' = Handled(w)
        /\ UNCHANGED <<net, fdev, conn, pc, held, crashed>>
    BY <1>11 DEF sendDataQueue
  <2> QED BY <2>1, <1>6, <1>8, <1>11
<1>12. CASE e # None /\ fdev[e].isconnected /\ outcome = Error /\ fdev[e].hgConn = None
  BY <1>12, <1>5 DEF sendDataQueue
<1>13. CASE e # None /\ fdev[e].isconnected /\ outcome = Error /\ fdev[e].hgConn # None
  BY <1>13, <1>7 DEF sendDataQueue
<1> QED BY <1>9, <1>10, <1>11, <1>12, <1>13

\* fdEvChainInit and hgConnInit.
LEMMA AlwaysInit == ConnInit => Always
<1> SUFFICES ASSUME ConnInit PROVE Always
  OBVIOUS
<1>1. FdNum \in Nat \ {0} /\ hgConnNum \in Nat \ {0} /\ MaxSockets \in Nat
  BY ConnectionsAssumption
<1>2. /\ \A e \in FdEvs : fdev[e] = [NoFdEv EXCEPT !.fnext = IF e < FdNum THEN e + 1 ELSE None]
      /\ fdev = [e \in FdEvs |-> fdev[e]]
  BY DEF ConnInit
<1>3. ASSUME NEW e \in FdEvs
      PROVE  /\ fdev[e].fnext = IF e < FdNum THEN e + 1 ELSE None
             /\ fdev[e].fd = None /\ fdev[e].hgConn = None
             /\ fdev[e].isconnected = FALSE /\ fdev[e].pool = None
             /\ fdev[e] \in FdEvFields
  <2> DEFINE n == IF e < FdNum THEN e + 1 ELSE None
  <2>1. n \in FdEvs \cup {None}
    BY <1>1 DEF FdEvs
  <2> HIDE DEF n
  <2>2. fdev[e] = [fnext |-> n, fd |-> None, hgConn |-> None, isconnected |-> FALSE, pool |-> None]
    BY <1>2 DEF NoFdEv, n
  <2>3. fdev[e] \in FdEvFields
    BY <2>1, <2>2 DEF FdEvFields
  <2> QED BY <2>2, <2>3 DEF n
<1>4. fdev \in [FdEvs -> FdEvFields]
  BY <1>2, <1>3
<1>5. conn \in [Conns -> ConnFields] /\ \A c \in Conns : conn[c].ssrc = 0 /\ conn[c].tcpfd = None /\ conn[c].sa = None
  BY DEF ConnInit, NoConn, ConnFields
<1>6. ConnTypeOK
  <2>1. owner \in Seq(Clients) /\ Len(owner) <= MaxSockets
    BY <1>1 DEF ConnInit
  <2>2. socket \in [Fds -> Sockets \cup {None}] /\ epoll \in [Fds -> FdEvs \cup {None}]
        /\ bucksmap \in [Clients -> Conns \cup {None}]
    BY DEF ConnInit
  <2>3. fdchainfree \in FdEvs \cup {None}
    BY <1>1 DEF ConnInit, FdEvs
  <2>4. sockaddrPool \in Nat /\ DOMAIN addr = {} /\ gone = {} /\ seen = {}
    BY DEF ConnInit
  <2> QED BY <1>4, <1>5, <2>1, <2>2, <2>3, <2>4 DEF ConnTypeOK
<1>7. \A w \in Workers : queue[w] = <<>> /\ Queued(w) = {}
  <2> TAKE w \in Workers
  <2>1. queue[w] = <<>>
    BY DEF ConnInit
  <2> QED BY <2>1 DEF Queued
<1>8. \A t \in Threads : pc[t] = "next"
  BY DEF ConnInit
<1>9. QueueTypes
  <2>1. queue \in [Workers -> Seq(Messages)]
    BY DEF ConnInit
  <2>2. wire \in [Sockets -> Seq(Sockets)] /\ heads \in [Sockets -> Int]
    BY DEF ConnInit
  <2>3. requests \in [Sockets -> Nat] /\ datagrams \in [Clients -> Nat]
    BY DEF ConnInit
  <2>4. pc \in [Threads -> {"next", "pop", "init", "accept", "push", "destroy", "find", "torn", "attach"}]
        /\ DOMAIN held = Threads
    BY DEF ConnInit
  <2> QED BY <2>1, <2>2, <2>3, <2>4, <1>8, ThreadsApart DEF QueueTypes
<1>10. HeldTypes
  BY <1>8, ThreadsApart DEF HeldTypes
<1>11. SetUp
  BY <1>3, <1>7 DEF SetUp, ConnInit
<1>12. Numbered
  BY DEF Numbered, Open, ConnInit
<1>13. FreeConns
  <2>1. hgConnFreePtr = [i \in 1..hgConnNum |-> i]
    BY DEF ConnInit
  <2>2. hgConnFreePtr \in Seq(Conns) /\ Len(hgConnFreePtr) = hgConnNum
    BY <1>1, <2>1 DEF Conns
  <2>3. \A i \in 1..hgConnNum : hgConnFreePtr[i] = i
    BY <2>1
  <2>4. \A c \in Conns : \E i \in 1..Len(hgConnFreePtr) : hgConnFreePtr[i] = c
    BY <2>2, <2>3 DEF Conns
  <2>5. \A ssrc \in Clients : bucksmap[ssrc] = None
    BY DEF ConnInit
  <2> QED BY <1>5, <2>2, <2>3, <2>4, <2>5 DEF FreeConns
<1>14. Blocks /\ HeadsGivenBack
  BY <1>5 DEF Blocks, HeadsGivenBack, ConnInit
<1> QED BY <1>6, <1>9, <1>10, <1>11, <1>12, <1>13, <1>14 DEF Always

\* Every step.
LEMMA AlwaysNext ==
  ASSUME Always, [ConnNext]_connVars
  PROVE  Always'
<1>1. ASSUME NEW ssrc \in Clients, tcpAccept(ssrc) \/ udpRecvmsg(ssrc) PROVE Always'
  BY <1>1, AcceptSafe, DatagramSafe
<1>2. CASE getFreeFdEv \/ InitEvent
  BY <1>2, PopSafe, InitSafe
<1>3. ASSUME NEW f \in Fds, tcpRecvmsg(f) PROVE Always'
  BY <1>3, FrameSafe
<1>4. ASSUME NEW w \in Workers, Handle(w) PROVE Always'
  <2>1. ASSUME NEW outcome \in Outcomes, sendDataQueue(w, outcome) PROVE Always'
    BY <2>1, SendSafe
  <2> QED BY <1>4, <2>1, LoginSafe, InsertSafe, PushSafe, DestroySafe, BeginSafe, FoundSafe, AttachSafe DEF Handle
<1>5. CASE UNCHANGED connVars
  <2>1. UNCHANGED <<net, events, bucket, address, queue, pc, held, crashed, clients, sendings, seen>>
    BY <1>5 DEF connVars
  <2>2. ConnTypeOK' /\ Numbered' /\ FreeConns'
    BY <2>1 DEF Always, ConnTypeOK, Numbered, FreeConns, Open, net, events, bucket, address
  <2>3. QueueTypes' /\ HeldTypes'
    BY <2>1 DEF Always, QueueTypes, HeldTypes, Event, events, bucket, clients, sendings
  <2>4. SetUp' /\ Blocks' /\ HeadsGivenBack'
    BY <2>1 DEF Always, SetUp, Blocks, HeadsGivenBack, Open, Queued, net, events, bucket, address, sendings
  <2> QED BY <2>2, <2>3, <2>4 DEF Always
<1> QED BY <1>1, <1>2, <1>3, <1>4, <1>5 DEF ConnNext

\* What holds always, out of step or not.
THEOREM ConnAlways == ConnSpec => []Always
<1>1. ConnInit => Always
  BY AlwaysInit
<1>2. Always /\ [ConnNext]_connVars => Always'
  BY AlwaysNext
<1> QED BY <1>1, <1>2, PTL DEF ConnSpec

\* The head of every answer is given back to the pool, except when the socket
\* did not take it, whatever goes out of step.
THEOREM ConnHeadsGivenBack == ConnSpec => []HeadsGivenBack
<1>1. Always => HeadsGivenBack
  BY DEF Always
<1> QED BY <1>1, ConnAlways, PTL

\* A connection's address is in a block of its own and is its client's, unless
\* two threads chose a block at once, whatever else goes out of step.
THEOREM ConnAddressOwn == ConnSpec => []AddressOwn
<1>1. Always => AddressOwn
  BY DEF Always, Blocks, AddressOwn
<1> QED BY <1>1, ConnAlways, PTL


-----------------------------------------------------------------------------
(* Connections: steps that leave sockets and fd events alone               *)

\* A socket is closed if it has no number,
LEMMA ClosedDef == \A k : Closed(k) <=> \A f \in Fds : socket[f] # k
BY DEF Closed

\* before a step and after it.
LEMMA ClosedDefNext == \A k : Closed(k)' <=> \A f \in Fds : socket'[f] # k
BY DEF Closed

\* The list stays if its events, their links and its first event do.
LEMMA ChainKept ==
  ASSUME ConnTypeOK, Chained, \A e \in FdEvs : IsFree(e)' <=> IsFree(e),
         fdchainfree' = fdchainfree,
         \A e \in FdEvs : IsFree(e) => fdev'[e].fnext = fdev[e].fnext
  PROVE  Chained'
<1>1. PICK pos \in [FdEvs -> Nat] : Places(pos)
  BY DEF Chained
<1>2. fdchainfree \in FdEvs \cup {None} /\ \A e \in FdEvs : fdev[e].fnext \in FdEvs \cup {None}
  BY DEF ConnTypeOK, FdEvFields
<1>3. Places(pos)'
  BY <1>1, <1>2 DEF Places
<1> QED BY <1>1, <1>3 DEF Chained

\* Sockets, fd events and the connections' fields that lead to them stay; so
\* does what the threads that take an event or give one back have read.
Quiet ==
  /\ UNCHANGED <<owner, socket, epoll, fdchainfree, fdev, gone>>
  /\ \A c \in Conns : conn'[c].ssrc = conn[c].ssrc /\ conn'[c].tcpfd = conn[c].tcpfd
  /\ pc'[io] = pc[io] /\ held'[io] = held[io]
  /\ \A w \in Workers : pc[w] \in {"push", "destroy"} \/ pc'[w] \in {"push", "destroy"} =>
                          pc'[w] = pc[w] /\ held'[w] = held[w]
  /\ \A k \in Sockets : requests[k] > 0 => requests'[k] > 0

\* A quiet step keeps what is about sockets and events, and what is due to a
\* message of theirs.
LEMMA QuietKeeps ==
  ASSUME Always, Always', SocketsKept, Accepted, Chained, Pointing, Failing, ConnsMade, Quiet
  PROVE  /\ SocketsKept' /\ Accepted' /\ Chained' /\ Pointing' /\ Failing' /\ ConnsMade'
         /\ \A w \in Workers : \A ev \in Messages : 
              /\ ev.kind = "frame" /\ FrameDue(w, ev) => FrameDue(w, ev)'
              /\ ev.kind = "answer" /\ AnswerOf(w, ev) => AnswerOf(w, ev)'
<1>1. /\ UNCHANGED <<owner, socket, epoll, fdchainfree, fdev, gone>>
      /\ pc'[io] = pc[io] /\ held'[io] = held[io]
  BY DEF Quiet
<1>2. \A w \in Workers : pc[w] \in {"push", "destroy"} \/ pc'[w] \in {"push", "destroy"} =>
                           pc'[w] = pc[w] /\ held'[w] = held[w]
  BY DEF Quiet
<1>3. \A e : Registered(e)' <=> Registered(e)
  BY <1>1 DEF Registered
<1>4. \A e : Pushing(e)' <=> Pushing(e)
  BY <1>2 DEF Pushing
<1>5. \A e : IsFree(e)' <=> IsFree(e)
  BY <1>1, <1>3, <1>4 DEF IsFree, SettingUp
<1>6. \A k : Closed(k)' <=> Closed(k)
  BY <1>1 DEF Closed
<1>7. SocketsKept'
  BY <1>1 DEF SocketsKept, Open
<1>8. Accepted'
  BY <1>1, <1>2, <1>3, <1>5 DEF Accepted
<1>9. Chained'
  BY <1>1, <1>5, ChainKept DEF Always
<1>10. Pointing'
  BY <1>1, <1>3 DEF Pointing, Quiet, Always, ConnTypeOK, FdEvFields
<1>11. Failing'
  BY <1>1, <1>2, <1>3, <1>5, <1>6 DEF Failing
<1>12. ConnsMade'
  <2>1. PICK g \in [Conns -> Sockets] : Made(g)
    BY DEF ConnsMade
  <2>2. Made(g)'
    BY <2>1, <1>1, <1>6 DEF Made, Quiet
  <2> QED BY <2>1, <2>2 DEF ConnsMade
<1>13. ASSUME NEW w \in Workers, NEW ev \in Messages, ev.kind = "frame", FrameDue(w, ev)
       PROVE  FrameDue(w, ev)'
  <2>1. ev \in Frames
    BY <1>13 DEF Messages, Answers, Datagrams
  <2>2. ev.asker \in Sockets
    BY <2>1 DEF Frames
  <2>3. Alive(ev.ev, ev.pool)' <=> Alive(ev.ev, ev.pool)
    BY <1>1 DEF Alive
  <2>4. FailingOf(w, ev.ev, ev.pool) => FailingOf(w, ev.ev, ev.pool)'
    BY <1>1, <1>2 DEF FailingOf
  <2> QED BY <1>1, <1>13, <2>2, <2>3, <2>4 DEF FrameDue, Quiet
<1>14. ASSUME NEW w \in Workers, NEW ev \in Messages, ev.kind = "answer", AnswerOf(w, ev)
       PROVE  AnswerOf(w, ev)'
  <2>1. ev \in Answers
    BY <1>14 DEF Messages, Frames, Datagrams
  <2>2. ev.conn \in Conns
    BY <2>1 DEF Answers
  <2> QED BY <1>1, <1>6, <1>14, <2>2 DEF AnswerOf, Quiet
<1> QED BY <1>7, <1>8, <1>9, <1>10, <1>11, <1>12, <1>13, <1>14

\* It keeps the rest too, if it queues nothing and the map has what it had.
LEMMA QuietOrdered ==
  ASSUME Always, Always', Ordered, Quiet, seen \subseteq seen',
         \A w \in Workers : \A ev \in Queued(w)' : ev \in Queued(w),
         \A ssrc \in Clients : bucksmap[ssrc] # None => bucksmap'[ssrc] # None,
         \A w \in Workers : \A ssrc \in Clients : Mapped(w, ssrc) => Mapped(w, ssrc)',
         Sent', CrashDue'
  PROVE  Ordered'
<1>1. QueuesDue'
  <2> SUFFICES ASSUME NEW w \in Workers, NEW ev \in Queued(w)' PROVE MessageDue(w, ev)'
    BY DEF QueuesDue
  <2>1. ev \in Queued(w)
    OBVIOUS
  <2>2. ev \in Messages /\ MessageDue(w, ev)
    BY <2>1, QueuedTypes DEF Always, Ordered, QueuesDue
  <2>3. CASE ev.kind = "frame"
    BY <2>2, <2>3, QuietKeeps DEF MessageDue, Ordered
  <2>4. CASE ev.kind = "answer"
    <3>1. AnswerOf(w, ev) /\ Mapped(w, owner[ev.asker]) /\ AnswerOf(w, ev)'
      BY <2>2, <2>4, QuietKeeps DEF MessageDue, Ordered
    <3>2. ev \in Answers
      BY <2>2, <2>4 DEF Messages, Frames, Datagrams
    <3>3. ev.asker \in 1..Len(owner)
      BY <3>1, <3>2, LenProperties DEF Answers, AnswerOf, Always, ConnTypeOK, Sockets
    <3>4. owner[ev.asker] \in Clients
      BY <3>3, ElementOfSeq DEF Always, ConnTypeOK
    <3>5. UNCHANGED owner
      BY DEF Quiet
    <3>6. Mapped(w, owner[ev.asker])'
      BY <3>1, <3>4, <3>5
    <3> QED BY <2>4, <3>1, <3>6 DEF MessageDue
  <2>5. CASE ev.kind = "datagram"
    <3>1. ev \in Datagrams
      BY <2>2, <2>5 DEF Messages, Frames, Answers
    <3>2. ev.ssrc \in Clients
      BY <3>1 DEF Datagrams
    <3> QED BY <2>2, <2>5, <3>2 DEF MessageDue
  <2> QED BY <2>3, <2>4, <2>5 DEF MessageDue
<1> QED BY <1>1, QuietKeeps DEF Ordered

\* tcpRecvmsg: the frame it queues is of a socket that is alive.
LEMMA FrameOrdered ==
  ASSUME Always, Always', Ordered, InOrder', NEW f \in Fds, tcpRecvmsg(f)
  PROVE  Ordered'
<1>0. PICK k \in Sockets, e \in FdEvs, ssrc \in Clients :
        /\ k = socket[f] /\ k \in 1..Len(owner) /\ ssrc = owner[k]
        /\ e = epoll[f] /\ fdev[e].pool = k /\ Open(f) /\ k \notin gone
  <2>1. Open(f) /\ epoll[f] # None /\ fdev[epoll[f]].pool \notin gone
    BY DEF tcpRecvmsg, InOrder
  <2>2. socket[f] \in 1..Len(owner) /\ socket[f] \in Sockets
    BY <2>1 DEF Always, Numbered, ConnTypeOK, Open
  <2>3. owner[socket[f]] \in Clients
    BY <2>2, ElementOfSeq DEF Always, ConnTypeOK
  <2>4. fdev[epoll[f]].pool = socket[f] /\ epoll[f] \in FdEvs
    BY <2>1 DEF Always, ConnTypeOK, Ordered, SocketsKept
  <2> QED BY <2>1, <2>2, <2>3, <2>4
<1> DEFINE m == [kind |-> "frame", ev |-> e, pool |-> k, ssrc |-> ssrc, asker |-> k]
<1>1. /\ requests' = [requests EXCEPT ![k] = @ + 1]
      /\ queue' = [queue EXCEPT ![getWorker(ssrc)] = Append(@, m)]
      /\ UNCHANGED <<net, events, bucket, address, pc, held, datagrams, sendings>>
      /\ seen' = seen /\ crashed' = "no"
  BY <1>0 DEF tcpRecvmsg, Queue
<1>2. m.asker = k /\ m.pool = k /\ m.ev = e /\ m.ssrc = ssrc
  OBVIOUS
<1>3. m \in Messages /\ m.kind = "frame" /\ getWorker(ssrc) \in Workers
  BY ThreadsApart DEF Messages, Frames
<1>4. /\ requests'[k] > 0 /\ \A j \in Sockets : requests[j] > 0 => requests'[j] > 0
  BY <1>1 DEF Always, QueueTypes
<1>5. Quiet
  BY <1>1, <1>4 DEF Quiet, net, events, bucket
<1> HIDE DEF m
<1>6. FrameDue(getWorker(ssrc), m)'
  <2>1. Alive(e, k)'
    BY <1>0, <1>1 DEF Alive, net
  <2>2. UNCHANGED owner
    BY <1>1 DEF net
  <2>3. k <= Len(owner)
    BY <1>0, LenProperties DEF Always, ConnTypeOK
  <2> QED BY <1>0, <1>2, <1>4, <2>1, <2>2, <2>3 DEF FrameDue
<1>7. \A w \in Workers : \A ev \in Queued(w)' : ev \in Queued(w) \/ (ev = m /\ w = getWorker(ssrc))
  BY <1>1, <1>3, QueueAdded DEF Always
<1>8. QueuesDue'
  <2> SUFFICES ASSUME NEW w \in Workers, NEW ev \in Queued(w)' PROVE MessageDue(w, ev)'
    BY DEF QueuesDue
  <2>1. CASE ev = m /\ w = getWorker(ssrc)
    BY <2>1, <1>3, <1>6 DEF MessageDue
  <2>2. CASE ev \in Queued(w)
    <3>1. ev \in Messages /\ MessageDue(w, ev)
      BY <2>2, QueuedTypes DEF Always, Ordered, QueuesDue
    <3>2. UNCHANGED <<owner, bucksmap, seen, pc, held, conn>>
      BY <1>1 DEF net, bucket
    <3> QED BY <1>5, <3>1, <3>2, QuietKeeps DEF MessageDue, Mapped, Ordered
  <2> QED BY <1>7, <2>1, <2>2
<1>9. Sent'
  BY <1>1 DEF Ordered, Sent, net, bucket, sendings
<1>10. CrashDue'
  BY <1>1 DEF CrashDue
<1> QED BY <1>5, <1>8, <1>9, <1>10, QuietKeeps DEF Ordered

\* udpRecvmsg: a datagram that is not early is of a client in the map.
LEMMA DatagramOrdered ==
  ASSUME Always, Always', Ordered, InOrder', NEW ssrc \in Clients, udpRecvmsg(ssrc)
  PROVE  Ordered'
<1> DEFINE m == [kind |-> "datagram", ssrc |-> ssrc]
<1>1. /\ queue' = [queue EXCEPT ![getWorker(ssrc)] = Append(@, m)]
      /\ UNCHANGED <<net, events, bucket, address, pc, held, crashed, requests, sendings>>
      /\ seen' = (IF Answered(ssrc) THEN seen ELSE seen \cup {"early"}) /\ crashed' = "no"
  BY DEF udpRecvmsg, Queue
<1>2. m \in Messages /\ m.kind = "datagram" /\ getWorker(ssrc) \in Workers /\ m.ssrc = ssrc
  BY ThreadsApart DEF Messages, Datagrams
<1>3. Quiet
  BY <1>1 DEF Quiet, net, events, bucket
<1>4. "early" \in seen' \/ bucksmap'[ssrc] # None
  <2>1. CASE Answered(ssrc)
    <3>1. PICK k \in 1..Len(owner) : owner[k] = ssrc /\ wire[k] # <<>>
      BY <2>1 DEF Answered
    <3>2. k \in Sockets
      BY <3>1, ConnectionsAssumption, LenProperties DEF Always, ConnTypeOK, Sockets
    <3> QED BY <3>1, <3>2, <1>1 DEF Ordered, Sent, bucket
  <2>2. CASE ~Answered(ssrc)
    BY <2>2, <1>1
  <2> QED BY <2>1, <2>2
<1> HIDE DEF m
<1>7. \A w \in Workers : \A ev \in Queued(w)' : ev \in Queued(w) \/ ev = m
  BY <1>1, <1>2, QueueAdded DEF Always
<1>8. QueuesDue'
  <2> SUFFICES ASSUME NEW w \in Workers, NEW ev \in Queued(w)' PROVE MessageDue(w, ev)'
    BY DEF QueuesDue
  <2>1. CASE ev = m
    BY <2>1, <1>2, <1>4 DEF MessageDue
  <2>2. CASE ev \in Queued(w)
    <3>1. ev \in Messages /\ MessageDue(w, ev)
      BY <2>2, QueuedTypes DEF Always, Ordered, QueuesDue
    <3>2. UNCHANGED <<owner, bucksmap, pc, held, conn>> /\ seen \subseteq seen'
      BY <1>1 DEF net, bucket
    <3> QED BY <1>3, <3>1, <3>2, QuietKeeps DEF MessageDue, Mapped, Ordered
  <2> QED BY <1>7, <2>1, <2>2
<1>9. Sent'
  BY <1>1 DEF Ordered, Sent, net, bucket, sendings
<1>10. CrashDue'
  BY <1>1 DEF CrashDue
<1> QED BY <1>3, <1>8, <1>9, <1>10, QuietKeeps DEF Ordered

\* hgConnGetConnInBuck begins.
LEMMA BeginOrdered ==
  ASSUME Always, Always', Ordered, InOrder', NEW w \in Workers, hgConnGetConnInBuck(w)
  PROVE  Ordered'
<1>1. /\ pc[w] = "next" /\ pc' = [pc EXCEPT ![w] = "find"] /\ crashed' = "no"
      /\ UNCHANGED <<net, events, bucket, address, queue, held, clients, sendings, seen>>
  BY DEF hgConnGetConnInBuck, At, Goto
<1>2. \A t \in Threads : pc'[t] = IF t = w THEN "find" ELSE pc[t]
  BY <1>1, ThreadsApart DEF Always, QueueTypes
<1>3. Quiet
  BY <1>1, <1>2, ThreadsApart DEF Quiet, net, events, bucket, clients
<1>4. \A x \in Workers : \A ssrc \in Clients : Mapped(x, ssrc) => Mapped(x, ssrc)'
  BY <1>1, <1>2, ThreadsApart DEF Mapped, bucket
<1>5. Sent' /\ CrashDue'
  BY <1>1 DEF Ordered, Sent, CrashDue, sendings, net, bucket
<1> QED BY <1>1, <1>3, <1>4, <1>5, QuietOrdered DEF Queued, bucket

\* hgConnGetConnInBuck ends: a ssrc is unknown if its datagram was early, or the
\* map was torn.
LEMMA FoundOrdered ==
  ASSUME Always, Always', Ordered, InOrder', NEW w \in Workers, ConnFound(w)
  PROVE  Ordered'
<1> DEFINE h == [conn |-> bucksmap[Event(w).ssrc], block |-> sockaddrPool]
<1>1. /\ pc[w] \in {"find", "torn"} /\ seen \subseteq seen'
      /\ (\A t \in Threads : t # w => pc'[t] = pc[t] /\ held'[t] = held[t])
      /\ pc'[w] \notin {"push", "destroy"}
      /\ UNCHANGED <<net, events, bucket, address, queue, clients, sendings>>
  <2>1. CASE UNCHANGED <<pc, held>>
    BY <2>1 DEF ConnFound, At
  <2>2. CASE held' = [held EXCEPT ![w] = h] /\ pc' = [pc EXCEPT ![w] = "attach"]
    BY <2>2, ThreadsApart DEF ConnFound, At, Always, QueueTypes
  <2> QED BY <2>1, <2>2 DEF ConnFound, Goto, Keeps
<1>2. Quiet
  BY <1>1, ThreadsApart DEF Quiet, net, events, bucket, clients
<1>3. \A x \in Workers : \A ssrc \in Clients : Mapped(x, ssrc) => Mapped(x, ssrc)'
  <2> SUFFICES ASSUME NEW x \in Workers, NEW ssrc \in Clients, Mapped(x, ssrc) PROVE Mapped(x, ssrc)'
    OBVIOUS
  <2>1. CASE x = w
    BY <1>1, <2>1 DEF Mapped, bucket
  <2>2. CASE x # w
    BY <1>1, <2>2, ThreadsApart DEF Mapped, bucket
  <2> QED BY <2>1, <2>2
<1>4. Sent'
  BY <1>1 DEF Ordered, Sent, sendings, net, bucket
<1>5. CrashDue'
  <2>1. CASE crashed' = "no"
    BY <2>1 DEF CrashDue
  <2>2. CASE crashed' # "no"
    <3>1. crashed' = "unknown ssrc" /\ (bucksmap[Event(w).ssrc] = None \/ pc[w] = "torn")
      BY <2>2 DEF ConnFound, At, Crash
    <3>2. CASE pc[w] = "torn"
      <4>1. "torn" \in seen'
        BY <3>2 DEF ConnFound
      <4> QED BY <3>1, <4>1 DEF CrashDue
    <3>3. CASE bucksmap[Event(w).ssrc] = None
      <4>1. queue[w] # <<>> /\ Event(w).kind = "datagram"
        BY DEF ConnFound, At, Event
      <4>2. Event(w) \in Queued(w)
        BY <4>1, FirstTypes DEF Always
      <4>3. "early" \in seen
        BY <3>3, <4>1, <4>2 DEF Ordered, QueuesDue, MessageDue
      <4> QED BY <1>1, <3>1, <4>3 DEF CrashDue
    <3> QED BY <3>1, <3>2, <3>3
  <2> QED BY <2>1, <2>2
<1> QED BY <1>1, <1>2, <1>3, <1>4, <1>5, QuietOrdered DEF Queued, bucket

\* hgConnAttachAddr.
LEMMA AttachOrdered ==
  ASSUME Always, Always', Ordered, InOrder', NEW w \in Workers, hgConnAttachAddr(w)
  PROVE  Ordered'
<1> DEFINE c == held[w].conn
           b == held[w].block
<1>1. /\ pc[w] = "attach" /\ queue[w] # <<>> /\ seen \subseteq seen' /\ crashed' = "no"
      /\ c \in Conns
      /\ conn' = [conn EXCEPT ![c].sa = b]
      /\ queue' = Handled(w) /\ pc' = [pc EXCEPT ![w] = "next"] /\ held' = [held EXCEPT ![w] = None]
      /\ UNCHANGED <<net, events, hgConnFreePtr, bucksmap, clients, sendings>>
  BY DEF hgConnAttachAddr, At, Return, Goto, Keeps, Always, HeldTypes, Found
<1> HIDE DEF c, b
<1>2. \A d \in Conns : conn'[d].ssrc = conn[d].ssrc /\ conn'[d].tcpfd = conn[d].tcpfd
  BY <1>1 DEF Always, ConnTypeOK, ConnFields
<1>3. \A t \in Threads : pc'[t] = (IF t = w THEN "next" ELSE pc[t]) /\ (t # w => held'[t] = held[t])
  BY <1>1, ThreadsApart DEF Always, QueueTypes
<1>4. Quiet
  BY <1>1, <1>2, <1>3, ThreadsApart DEF Quiet, net, events, clients
<1>5. \A x \in Workers : \A ssrc \in Clients : Mapped(x, ssrc) => Mapped(x, ssrc)'
  <2> SUFFICES ASSUME NEW x \in Workers, NEW ssrc \in Clients, Mapped(x, ssrc), bucksmap'[ssrc] = None
               PROVE  pc'[x] = "accept" /\ conn'[held'[x]].ssrc = ssrc
    BY DEF Mapped
  <2>1. pc[x] = "accept" /\ conn[held[x]].ssrc = ssrc
    BY <1>1 DEF Mapped
  <2>2. x # w /\ held[x] \in Conns
    BY <2>1, <1>1 DEF Always, HeldTypes
  <2> QED BY <1>2, <1>3, <2>1, <2>2, ThreadsApart
<1>6. Sent' /\ CrashDue'
  BY <1>1 DEF Ordered, Sent, CrashDue, sendings, net
<1>7. \A x \in Workers : \A ev \in Queued(x)' : ev \in Queued(x)
  BY <1>1, QueueHandled DEF Always
<1> QED BY <1>1, <1>4, <1>5, <1>6, <1>7, QuietOrdered

\* HgConnectBucket::Accept: the asker's client is in the map from then on.
LEMMA InsertOrdered ==
  ASSUME Always, Always', Ordered, InOrder', NEW w \in Workers, Accept(w)
  PROVE  Ordered'
<1> DEFINE c == held[w]
           s0 == conn[c].ssrc
<1>1. /\ queue[w] # <<>> /\ pc[w] = "accept" /\ c \in Conns /\ s0 \in Clients /\ crashed' = "no"
      /\ queue' = Handled(w) /\ held' = [held EXCEPT ![w] = None]
      /\ UNCHANGED <<net, events, hgConnFreePtr, conn, address, clients, sendings, seen>>
      /\ bucksmap' = IF bucksmap[s0] = None THEN [bucksmap EXCEPT ![s0] = c] ELSE bucksmap
  BY DEF Accept, At, Keeps, Always, HeldTypes
<1>2. \A t \in Threads : IF t = w THEN pc'[t] = "next" ELSE pc'[t] = pc[t] \/ (pc[t] = "find" /\ pc'[t] = "torn")
  <2>1. CASE bucksmap[s0] = None
    <3>1. pc' = [t \in Threads |-> CASE t = w -> "next"
                                            [] pc[t] = "find" -> "torn"
                                            [] OTHER -> pc[t]]
      BY <2>1 DEF Accept
    <3> TAKE t \in Threads
    <3>2. pc'[t] = CASE t = w -> "next" [] pc[t] = "find" -> "torn" [] OTHER -> pc[t]
      BY <3>1
    <3>3. t = w => pc[t] # "find"
      BY <1>1
    <3> QED BY <3>2, <3>3
  <2>2. CASE bucksmap[s0] # None
    <3>1. pc' = [pc EXCEPT ![w] = "next"]
      BY <2>2 DEF Accept, Goto
    <3> QED BY <3>1, ThreadsApart DEF Always, QueueTypes
  <2> QED BY <2>1, <2>2
<1> HIDE DEF c, s0
<1>3. \A t \in Threads : t # w => held'[t] = held[t]
  BY <1>1 DEF Always, QueueTypes
<1>4. pc'[io] = pc[io] /\ held'[io] = held[io]
  BY <1>2, <1>3, ThreadsApart DEF Always, QueueTypes
<1>5. \A x \in Workers : pc[x] \in {"push", "destroy"} \/ pc'[x] \in {"push", "destroy"} =>
                          pc'[x] = pc[x] /\ held'[x] = held[x]
  BY <1>1, <1>2, <1>3, ThreadsApart
<1>6. Quiet
  BY <1>1, <1>4, <1>5 DEF Quiet, net, events, clients
<1>7. \A ssrc \in Clients : bucksmap'[ssrc] = None => bucksmap[ssrc] = None /\ ssrc # s0
  <2>1. c # None
    BY <1>1, ThreadsApart
  <2> QED BY <1>1, <2>1 DEF Always, ConnTypeOK
<1>8. \A x \in Workers : \A ssrc \in Clients : Mapped(x, ssrc) => Mapped(x, ssrc)'
  <2> SUFFICES ASSUME NEW x \in Workers, NEW ssrc \in Clients, Mapped(x, ssrc), bucksmap'[ssrc] = None
               PROVE  pc'[x] = "accept" /\ conn'[held'[x]].ssrc = ssrc
    BY DEF Mapped
  <2>1. pc[x] = "accept" /\ conn[held[x]].ssrc = ssrc /\ ssrc # s0
    BY <1>7 DEF Mapped
  <2>2. x # w
    BY <2>1 DEF s0, c
  <2> QED BY <1>1, <1>2, <1>3, <2>1, <2>2, ThreadsApart
<1>9. Sent'
  <2>1. UNCHANGED <<wire, owner>>
    BY <1>1 DEF sendings, net
  <2>2. \A k \in Sockets : wire[k] # <<>> => bucksmap'[owner[k]] # None
    <3> TAKE k \in Sockets
    <3> HAVE wire[k] # <<>>
    <3>1. k <= Len(owner) /\ bucksmap[owner[k]] # None
      BY DEF Ordered, Sent
    <3>2. k \in 1..Len(owner)
      BY <3>1, LenProperties DEF Sockets, Always, ConnTypeOK
    <3>3. owner[k] \in Clients
      BY <3>2, ElementOfSeq DEF Always, ConnTypeOK
    <3> QED BY <3>1, <3>3, <1>7
  <2> QED BY <2>1, <2>2 DEF Ordered, Sent
<1>10. CrashDue'
  BY <1>1 DEF CrashDue
<1>11. \A x \in Workers : \A ev \in Queued(x)' : ev \in Queued(x)
  BY <1>1, QueueHandled DEF Always
<1> QED BY <1>1, <1>6, <1>7, <1>8, <1>9, <1>10, <1>11, QuietOrdered


-----------------------------------------------------------------------------
(* Connections: a login makes a connection                                 *)

\* The numbers to n are n.
LEMMA Numbers ==
  ASSUME NEW n \in Nat
  PROVE  IsFiniteSet(1..n) /\ Cardinality(1..n) = n
<1>1. 1 \in Int /\ n \in Int /\ (1 > n => n = 0) /\ n - 1 + 1 = n
  OBVIOUS
<1> QED BY <1>1, FS_Interval

\* No connection was made for a live socket whose event has none.
LEMMA NotMadeFor ==
  ASSUME Always, Ordered, NEW g \in [Conns -> Sockets], Made(g),
         NEW f \in Fds, NEW e \in FdEvs, NEW k \in Sockets,
         epoll[f] = e, socket[f] = k, fdev[e].hgConn = None,
         NEW c \in Conns, conn[c].ssrc # 0
  PROVE  g[c] # k
<1> SUFFICES ASSUME g[c] = k PROVE FALSE
  OBVIOUS
<1>1. CASE conn[c].tcpfd = None
  <2>1. Closed(k)
    BY <1>1 DEF Made
  <2> QED BY <2>1, ClosedDef
<1>2. CASE conn[c].tcpfd # None
  <2> DEFINE d == conn[c].tcpfd
  <2>1. d \in FdEvs /\ fdev[d].hgConn = c /\ fdev[d].pool = k
    BY <1>2 DEF Made, Ordered, Pointing, Always, ConnTypeOK, ConnFields
  <2>2. Registered(d)
    BY <2>1, ThreadsApart DEF Ordered, Pointing
  <2>3. PICK h \in Fds : epoll[h] = d
    BY <2>2 DEF Registered
  <2>4. socket[h] = k /\ Open(h)
    BY <2>1, <2>3, ThreadsApart DEF Ordered, SocketsKept, Always, SetUp
  <2>5. h = f
    BY <2>4 DEF Always, Numbered
  <2> QED BY <2>1, <2>3, <2>5, ThreadsApart
<1> QED BY <1>1, <1>2

\* If no connection is free there are more sockets with frames than connections:
\* each connection was made for one of them, and the asker's has none.
LEMMA NoConnection ==
  ASSUME Always, Ordered, hgConnFreePtr = <<>>,
         NEW f \in Fds, NEW e \in FdEvs, NEW k \in Sockets,
         epoll[f] = e, socket[f] = k, fdev[e].hgConn = None, requests[k] > 0
  PROVE  Cardinality({j \in Sockets : requests[j] > 0}) > hgConnNum
<1> DEFINE S == {j \in Sockets : requests[j] > 0}
           T == S \ {k}
<1>1. hgConnNum \in Nat /\ MaxSockets \in Nat
  BY ConnectionsAssumption
<1>2. \A c \in Conns : conn[c].ssrc # 0
  <2>1. Len(hgConnFreePtr) = 0
    OBVIOUS
  <2> QED BY <2>1 DEF Always, FreeConns
<1>3. PICK g \in [Conns -> Sockets] : Made(g)
  BY DEF Ordered, ConnsMade
<1>4. \A c \in Conns : g[c] \in T /\ \A d \in Conns : g[c] = g[d] => c = d
  BY <1>2, <1>3, NotMadeFor DEF Made
<1>5. IsFiniteSet(S) /\ Cardinality(S) \in Nat
  <2>1. IsFiniteSet(Sockets)
    BY <1>1, Numbers DEF Sockets
  <2>2. S \in SUBSET Sockets
    OBVIOUS
  <2> HIDE DEF S
  <2> QED BY <2>1, <2>2, FS_Subset, FS_CardinalityType
<1>6. IsFiniteSet(T) /\ Cardinality(T) = Cardinality(S) - 1
  <2>1. k \in S
    OBVIOUS
  <2> HIDE DEF S
  <2> QED BY <2>1, <1>5, FS_RemoveElement
<1>7. IsFiniteSet(Conns) /\ Cardinality(Conns) = hgConnNum
  BY <1>1, Numbers DEF Conns
<1>8. ~(Cardinality(T) < Cardinality(Conns))
  <2> SUFFICES ASSUME Cardinality(T) < Cardinality(Conns) PROVE FALSE
    OBVIOUS
  <2>1. g \in [Conns -> T]
    BY <1>4
  <2> HIDE DEF T
  <2>2. \E x, y \in Conns : x # y /\ g[x] = g[y]
    BY <2>1, <1>6, <1>7, FS_PigeonHole
  <2> QED BY <2>2, <1>4
<1> HIDE DEF S, T
<1>9. Cardinality(S) > hgConnNum
  BY <1>1, <1>5, <1>6, <1>7, <1>8
<1> QED BY <1>9 DEF S

\* threadPOOLRecv of a login: the asker's socket is alive, for its worker is
\* handling the login, not failing; so the event has his connection, or gets one.
LEMMA LoginOrdered ==
  ASSUME Always, Always', Ordered, InOrder', NEW w \in Workers, threadPOOLRecv(w)
  PROVE  Ordered'
<1>1. /\ queue[w] # <<>> /\ pc[w] = "next" /\ Event(w).kind = "frame" /\ Event(w).pool \notin gone
      /\ crashed = "no" /\ seen' = seen
      /\ UNCHANGED <<net, fdchainfree, gone, bucksmap, address, clients, sendings>>
  BY DEF threadPOOLRecv, At, Event, InOrder
<1>2. PICK e \in FdEvs, k \in Sockets, s0 \in Clients :
        /\ Event(w).ev = e /\ Event(w).asker = k /\ Event(w).ssrc = s0
        /\ k \in 1..Len(owner) /\ owner[k] = s0 /\ getWorker(s0) = w /\ requests[k] > 0
        /\ Alive(e, k)
  <2>1. Event(w) \in Frames /\ Event(w) \in Queued(w)
    BY <1>1, FirstTypes DEF Always
  <2>2. FrameDue(w, Event(w))
    BY <1>1, <2>1 DEF Ordered, QueuesDue, MessageDue
  <2>3. Event(w).asker \in 1..Len(owner)
    BY <2>1, <2>2, LenProperties DEF FrameDue, Frames, Sockets, Always, ConnTypeOK
  <2>4. Alive(Event(w).ev, Event(w).asker)
    BY <1>1, <2>2 DEF FrameDue, FailingOf
  <2> QED BY <2>1, <2>2, <2>3, <2>4 DEF Frames, FrameDue
<1>3. PICK f \in Fds : epoll[f] = e /\ socket[f] = k
  BY <1>2 DEF Alive
<1>4. fdev[e].pool = k /\ Registered(e)
  BY <1>3, ThreadsApart DEF Ordered, SocketsKept, Registered
<1>5. Given(w) = fdev[e].hgConn /\ Read(w) = {s0}
  BY <1>1, <1>2 DEF Given, Read
<1>6. \A x \in Workers : \A ssrc \in Clients :
        Mapped(x, ssrc) /\ (\A t \in Threads : t # w => pc'[t] = pc[t] /\ held'[t] = held[t])
          /\ (\A c \in Conns : conn[c].ssrc \in Clients => conn'[c].ssrc = conn[c].ssrc)
        => Mapped(x, ssrc)'
  <2> SUFFICES ASSUME NEW x \in Workers, NEW ssrc \in Clients, Mapped(x, ssrc),
                      \A t \in Threads : t # w => pc'[t] = pc[t] /\ held'[t] = held[t],
                      \A c \in Conns : conn[c].ssrc \in Clients => conn'[c].ssrc = conn[c].ssrc,
                      bucksmap'[ssrc] = None
               PROVE  pc'[x] = "accept" /\ conn'[held'[x]].ssrc = ssrc
    BY DEF Mapped
  <2>1. pc[x] = "accept" /\ conn[held[x]].ssrc = ssrc
    BY <1>1 DEF Mapped
  <2>2. x # w /\ held[x] \in Conns
    BY <2>1, <1>1 DEF Always, HeldTypes
  <2> QED BY <2>1, <2>2, ThreadsApart
<1>7. Sent'
  BY <1>1 DEF Ordered, Sent, net, sendings
<1>8. CASE fdev[e].hgConn # None
  <2>1. PICK c \in Conns : fdev[e].hgConn = c /\ conn[c].ssrc = s0 /\ conn[c].tcpfd = e
    BY <1>2, <1>4, <1>8 DEF Ordered, Pointing, Always, ConnTypeOK, FdEvFields
  <2> DEFINE a == [kind |-> "answer", conn |-> c, asker |-> k]
  <2>2. /\ queue' = [queue EXCEPT ![w] = Append(@, a)]
        /\ held' = [held EXCEPT ![w] = c] /\ pc' = [pc EXCEPT ![w] = "accept"]
        /\ UNCHANGED <<hgConnFreePtr, conn, fdev, crashed>>
    <3>1. /\ Answer(w, Given(w), conn[Given(w)].ssrc)
          /\ Keeps(w, Given(w)) /\ Goto(w, "accept")
          /\ UNCHANGED <<hgConnFreePtr, conn, fdev, crashed>>
      BY <1>1, <1>5, <1>8 DEF threadPOOLRecv
    <3> QED BY <3>1, <1>2, <1>5, <2>1 DEF Answer, Keeps, Goto
  <2>3. a \in Messages /\ a.kind = "answer" /\ a.conn = c /\ a.asker = k
    BY DEF Messages, Answers
  <2> HIDE DEF a
  <2>4. \A x \in Workers : \A ev \in Queued(x)' : ev \in Queued(x) \/ (ev = a /\ x = w)
    BY <2>2, <2>3, QueueAdded DEF Always
  <2>5. /\ pc'[w] = "accept" /\ held'[w] = c
        /\ \A t \in Threads : t # w => pc'[t] = pc[t] /\ held'[t] = held[t]
    BY <2>2, ThreadsApart DEF Always, QueueTypes
  <2>6. Quiet
    BY <1>1, <2>2, <2>5, ThreadsApart DEF Quiet, net, clients
  <2>7. MessageDue(w, a)'
    <3>1. AnswerOf(w, a)'
      <4>1. k <= Len(owner)
        BY <1>2, LenProperties DEF Always, ConnTypeOK
      <4>2. UNCHANGED <<owner, conn, fdev>>
        BY <1>1, <2>2 DEF net
      <4> QED BY <1>2, <1>4, <2>1, <2>3, <4>1, <4>2, ThreadsApart DEF AnswerOf
    <3>2. Mapped(w, owner[a.asker])'
      BY <1>1, <1>2, <2>1, <2>2, <2>3, <2>5 DEF Mapped, net
    <3> QED BY <2>3, <3>1, <3>2 DEF MessageDue
  <2>8. QueuesDue'
    <3> SUFFICES ASSUME NEW x \in Workers, NEW ev \in Queued(x)' PROVE MessageDue(x, ev)'
      BY DEF QueuesDue
    <3>1. CASE ev = a /\ x = w
      BY <3>1, <2>7
    <3>2. CASE ev \in Queued(x)
      <4>1. ev \in Messages /\ MessageDue(x, ev)
        BY <3>2, QueuedTypes DEF Always, Ordered, QueuesDue
      <4>2. CASE ev.kind = "answer"
        <5>1. ev \in Answers /\ AnswerOf(x, ev) /\ AnswerOf(x, ev)' /\ Mapped(x, owner[ev.asker])
          BY <4>1, <4>2, <2>6, QuietKeeps DEF MessageDue, Messages, Frames, Datagrams, Ordered
        <5>2. ev.asker \in 1..Len(owner)
          BY <5>1, LenProperties DEF AnswerOf, Answers, Sockets, Always, ConnTypeOK
        <5>3. owner[ev.asker] \in Clients
          BY <5>2, ElementOfSeq DEF Always, ConnTypeOK
        <5>4. Mapped(x, owner[ev.asker])'
          BY <5>1, <5>3, <1>6, <2>5, <2>2, <1>1 DEF net
        <5> QED BY <4>2, <5>1, <5>4 DEF MessageDue
      <4>3. CASE ev.kind = "frame"
        BY <4>1, <4>3, <2>6, QuietKeeps DEF MessageDue, Ordered
      <4>4. CASE ev.kind = "datagram"
        BY <4>1, <4>4, <1>1 DEF MessageDue
      <4> QED BY <4>2, <4>3, <4>4 DEF MessageDue
    <3> QED BY <2>4, <3>1, <3>2
  <2>9. CrashDue'
    BY <1>1, <2>2 DEF CrashDue
  <2> QED BY <1>7, <2>6, <2>8, <2>9, QuietKeeps DEF Ordered
<1>9. CASE fdev[e].hgConn = None /\ hgConnFreePtr = <<>>
  <2>1. crashed' = "no connection" /\ UNCHANGED <<hgConnFreePtr, conn, fdev, queue, pc, held>>
    BY <1>1, <1>5, <1>9 DEF threadPOOLRecv, Crash
  <2>2. Quiet
    BY <1>1, <2>1 DEF Quiet, net, clients
  <2>3. \A x \in Workers : \A ssrc \in Clients : Mapped(x, ssrc) => Mapped(x, ssrc)'
    BY <1>1, <2>1 DEF Mapped
  <2>4. Cardinality({j \in Sockets : requests[j] > 0}) > hgConnNum
    BY <1>2, <1>3, <1>9, NoConnection
  <2>5. CrashDue'
    <3>1. requests' = requests
      BY <1>1 DEF clients
    <3> QED BY <2>1, <2>4, <3>1 DEF CrashDue
  <2> QED BY <1>1, <1>7, <2>1, <2>2, <2>3, <2>5, QuietOrdered DEF Queued
<1>10. CASE fdev[e].hgConn = None /\ hgConnFreePtr # <<>>
  <2>1. PICK c \in Conns : c = Head(hgConnFreePtr)
    BY <1>10, HeadTailProperties DEF Always, FreeConns
  <2> DEFINE a == [kind |-> "answer", conn |-> c, asker |-> k]
             r == [ssrc |-> s0, tcpfd |-> e, sa |-> None]
  <2>2. /\ queue' = [queue EXCEPT ![w] = Append(@, a)]
        /\ held' = [held EXCEPT ![w] = c] /\ pc' = [pc EXCEPT ![w] = "accept"]
        /\ conn' = [conn EXCEPT ![c] = r] /\ fdev' = [fdev EXCEPT ![e].hgConn = c]
        /\ UNCHANGED crashed
    BY <1>1, <1>2, <1>5, <1>10, <2>1 DEF threadPOOLRecv, Answer, Keeps, Goto, hgConnGetFreeConn
  <2>3. /\ a \in Messages /\ a.kind = "answer" /\ a.conn = c /\ a.asker = k
        /\ r.ssrc = s0 /\ r.tcpfd = e
    BY DEF Messages, Answers
  <2> HIDE DEF a, r
  <2>4. \A x \in Workers : \A ev \in Queued(x)' : ev \in Queued(x) \/ (ev = a /\ x = w)
    BY <2>2, <2>3, QueueAdded DEF Always
  <2>5. /\ pc'[w] = "accept" /\ held'[w] = c
        /\ \A t \in Threads : t # w => pc'[t] = pc[t] /\ held'[t] = held[t]
    BY <2>2, ThreadsApart DEF Always, QueueTypes
  <2>6. \A x \in FdEvs : /\ fdev'[x].pool = fdev[x].pool /\ fdev'[x].fd = fdev[x].fd
                         /\ fdev'[x].isconnected = fdev[x].isconnected /\ fdev'[x].fnext = fdev[x].fnext
                         /\ fdev'[x].hgConn = IF x = e THEN c ELSE fdev[x].hgConn
    BY <2>2 DEF Always, ConnTypeOK, FdEvFields
  <2>7. conn'[c] = r /\ \A d \in Conns : d # c => conn'[d] = conn[d]
    BY <2>2 DEF Always, ConnTypeOK
  <2>8. conn[c].ssrc = 0 /\ \A d \in Conns : conn[d].ssrc \in Clients => d # c
    <3>1. conn[c].ssrc = 0
      <4>1. hgConnFreePtr \in Seq(Conns) /\ hgConnFreePtr # <<>>
        BY <1>10 DEF Always, FreeConns
      <4>2. Len(hgConnFreePtr) \in Nat /\ 1 \in 1..Len(hgConnFreePtr) /\ c = hgConnFreePtr[1]
        BY <2>1, <4>1, HeadTailProperties, LenProperties, EmptySeq
      <4> QED BY <4>2 DEF Always, FreeConns
    <3> QED BY <3>1, ThreadsApart
  <2>9. /\ UNCHANGED <<owner, socket, epoll, fdchainfree, gone, bucksmap, requests>>
        /\ pc'[io] = pc[io] /\ held'[io] = held[io]
    BY <1>1, <2>5, ThreadsApart DEF net, clients
  <2>10. \A x \in Workers : pc[x] \in {"push", "destroy"} \/ pc'[x] \in {"push", "destroy"} =>
                           pc'[x] = pc[x] /\ held'[x] = held[x]
    BY <1>1, <2>5, ThreadsApart
  <2>11. /\ \A x : Registered(x)' <=> Registered(x)
         /\ \A x : Pushing(x)' <=> Pushing(x)
         /\ \A j : Closed(j)' <=> Closed(j)
    BY <2>9, <2>10 DEF Registered, Pushing, Closed
  <2>12. \A x : IsFree(x)' <=> IsFree(x)
    BY <2>9, <2>11 DEF IsFree, SettingUp
  <2>13. SocketsKept'
    <3>1. \A h \in Fds : epoll[h] # None => epoll[h] \in FdEvs
      BY DEF Always, ConnTypeOK
    <3> QED BY <3>1, <2>6, <2>9 DEF Ordered, SocketsKept, Open
  <2>14. Accepted'
    BY <2>9, <2>10, <2>11, <2>12 DEF Ordered, Accepted
  <2>15. Chained'
    BY <2>6, <2>9, <2>12, ChainKept DEF Always, Ordered
  <2>16. Pointing'
    <3>1. ASSUME NEW x \in FdEvs, fdev'[x].hgConn # None
          PROVE  /\ Registered(x)' /\ conn'[fdev'[x].hgConn].tcpfd = x
                 /\ conn'[fdev'[x].hgConn].ssrc = owner'[fdev'[x].pool]
      <4>1. CASE x = e
        BY <4>1, <1>2, <1>4, <2>3, <2>6, <2>7, <2>9, <2>11
      <4>2. CASE x # e
        <5> DEFINE d == fdev[x].hgConn
        <5>1. d \in Conns /\ fdev'[x].hgConn = d /\ conn[d].ssrc \in Clients
          BY <3>1, <4>2, <2>6 DEF Always, ConnTypeOK, FdEvFields, SetUp
        <5>2. conn'[d] = conn[d] /\ d # None
          BY <5>1, <2>7, <2>8, ThreadsApart
        <5> QED BY <5>1, <5>2, <2>6, <2>9, <2>11 DEF Ordered, Pointing
      <4> QED BY <4>1, <4>2
    <3>2. ASSUME NEW d \in Conns, conn'[d].tcpfd # None
          PROVE  fdev'[conn'[d].tcpfd].hgConn = d
      <4>1. CASE d = c
        BY <4>1, <2>3, <2>6, <2>7
      <4>2. CASE d # c
        <5>1. conn'[d].tcpfd = conn[d].tcpfd /\ conn[d].tcpfd \in FdEvs /\ fdev[conn[d].tcpfd].hgConn = d
          BY <3>2, <4>2, <2>7 DEF Ordered, Pointing, Always, ConnTypeOK, ConnFields
        <5>2. conn[d].tcpfd # e
          BY <5>1, <1>10, ThreadsApart
        <5> QED BY <5>1, <5>2, <2>6
      <4> QED BY <4>1, <4>2
    <3> QED BY <3>1, <3>2 DEF Pointing
  <2>17. Failing'
    <3>1. \A x \in Workers : pc[x] \in {"push", "destroy"} => fdev'[held[x]].pool = fdev[held[x]].pool
      BY <2>6 DEF Always, HeldTypes
    <3> QED BY <3>1, <2>9, <2>10, <2>11, <2>12 DEF Ordered, Failing
  <2>18. ConnsMade'
    <3>1. PICK g \in [Conns -> Sockets] : Made(g)
      BY DEF Ordered, ConnsMade
    <3> DEFINE h == [g EXCEPT ![c] = k]
    <3>2. h \in [Conns -> Sockets] /\ h[c] = k /\ \A d \in Conns : d # c => h[d] = g[d]
      BY <3>1
    <3>3. \A d \in Conns : conn[d].ssrc # 0 => g[d] # k /\ d # c
      BY <1>3, <1>10, <2>8, <3>1, NotMadeFor
    <3> HIDE DEF h
    <3>4. ASSUME NEW d \in Conns, conn'[d].ssrc # 0
          PROVE  /\ h[d] <= Len(owner') /\ requests'[h[d]] > 0
                 /\ IF conn'[d].tcpfd = None THEN Closed(h[d])' ELSE h[d] = fdev'[conn'[d].tcpfd].pool
                 /\ \A b \in Conns : conn'[b].ssrc # 0 /\ h[d] = h[b] => d = b
      <4>1. CASE d = c
        <5>1. h[d] <= Len(owner') /\ requests'[h[d]] > 0
          BY <4>1, <1>2, <3>2, <2>9, LenProperties DEF Always, ConnTypeOK
        <5>2. conn'[d].tcpfd = e /\ e # None /\ fdev'[e].pool = k
          BY <4>1, <2>3, <2>6, <2>7, <1>4, ThreadsApart
        <5>3. \A b \in Conns : conn'[b].ssrc # 0 /\ h[d] = h[b] => d = b
          BY <4>1, <3>2, <3>3, <2>7
        <5> QED BY <4>1, <5>1, <5>2, <5>3, <3>2
      <4>2. CASE d # c
        <5>1. conn'[d] = conn[d] /\ conn[d].ssrc # 0 /\ h[d] = g[d] /\ g[d] # k
          BY <4>2, <3>2, <3>3, <3>4, <2>7
        <5>2. h[d] <= Len(owner') /\ requests'[h[d]] > 0
          BY <5>1, <3>1, <2>9 DEF Made
        <5>3. IF conn[d].tcpfd = None THEN Closed(g[d]) ELSE g[d] = fdev[conn[d].tcpfd].pool
          BY <5>1, <3>1 DEF Made
        <5>4. conn[d].tcpfd \in FdEvs \cup {None}
          BY DEF Always, ConnTypeOK, ConnFields
        <5>5. IF conn'[d].tcpfd = None THEN Closed(h[d])' ELSE h[d] = fdev'[conn'[d].tcpfd].pool
          BY <5>1, <5>3, <5>4, <2>6, <2>11
        <5>6. \A b \in Conns : conn'[b].ssrc # 0 /\ h[d] = h[b] => d = b
          <6> SUFFICES ASSUME NEW b \in Conns, conn'[b].ssrc # 0, h[d] = h[b] PROVE d = b
            OBVIOUS
          <6>1. b # c
            BY <5>1, <3>2
          <6>2. conn[b].ssrc # 0 /\ g[d] = g[b]
            BY <6>1, <2>7, <3>2, <5>1
          <6> QED BY <6>2, <5>1, <3>1 DEF Made
        <5> QED BY <5>2, <5>5, <5>6
      <4> QED BY <4>1, <4>2
    <3>5. Made(h)'
      BY <3>4 DEF Made
    <3> QED BY <3>2, <3>5 DEF ConnsMade
  <2>19. MessageDue(w, a)'
    <3>1. AnswerOf(w, a)'
      <4>1. k <= Len(owner)
        BY <1>2, LenProperties DEF Always, ConnTypeOK
      <4>2. conn'[c].ssrc = s0 /\ conn'[c].tcpfd = e /\ e # None /\ fdev'[e].pool = k
        BY <1>4, <2>3, <2>6, <2>7, ThreadsApart
      <4> QED BY <1>2, <2>3, <2>9, <4>1, <4>2 DEF AnswerOf
    <3>2. Mapped(w, owner[a.asker])'
      BY <1>2, <2>3, <2>5, <2>7, <2>9 DEF Mapped
    <3> QED BY <2>3, <3>1, <3>2 DEF MessageDue
  <2>20. QueuesDue'
    <3> SUFFICES ASSUME NEW x \in Workers, NEW ev \in Queued(x)' PROVE MessageDue(x, ev)'
      BY DEF QueuesDue
    <3>1. CASE ev = a /\ x = w
      BY <3>1, <2>19
    <3>2. CASE ev \in Queued(x)
      <4>1. ev \in Messages /\ MessageDue(x, ev)
        BY <3>2, QueuedTypes DEF Always, Ordered, QueuesDue
      <4>2. CASE ev.kind = "answer"
        <5>1. ev \in Answers /\ AnswerOf(x, ev) /\ Mapped(x, owner[ev.asker])
          BY <4>1, <4>2 DEF MessageDue, Messages, Frames, Datagrams
        <5>2. ev.asker \in 1..Len(owner)
          BY <5>1, LenProperties DEF AnswerOf, Answers, Sockets, Always, ConnTypeOK
        <5>3. owner[ev.asker] \in Clients
          BY <5>2, ElementOfSeq DEF Always, ConnTypeOK
        <5>4. Mapped(x, owner[ev.asker])'
          BY <5>1, <5>3, <1>6, <2>5, <2>7, <2>8, <2>9
        <5>5. ev.conn \in Conns /\ conn[ev.conn].ssrc \in Clients
          BY <5>1, <5>3 DEF Answers, AnswerOf
        <5>6. conn'[ev.conn] = conn[ev.conn]
          BY <5>5, <2>7, <2>8
        <5>7. conn[ev.conn].tcpfd \in FdEvs \cup {None}
          BY <5>5 DEF Always, ConnTypeOK, ConnFields
        <5>8. AnswerOf(x, ev)'
          BY <5>1, <5>6, <5>7, <2>6, <2>9, <2>11 DEF AnswerOf
        <5> QED BY <4>2, <5>4, <5>8 DEF MessageDue
      <4>3. CASE ev.kind = "frame"
        <5>1. ev \in Frames /\ FrameDue(x, ev)
          BY <4>1, <4>3 DEF MessageDue, Messages, Answers, Datagrams
        <5>2. ev.ev \in FdEvs
          BY <5>1 DEF Frames
        <5>3. Alive(ev.ev, ev.pool)' <=> Alive(ev.ev, ev.pool)
          BY <2>9 DEF Alive
        <5>4. FailingOf(x, ev.ev, ev.pool) => FailingOf(x, ev.ev, ev.pool)'
          BY <2>6, <2>10, <5>2 DEF FailingOf
        <5> QED BY <4>3, <5>1, <5>3, <5>4, <2>9 DEF MessageDue, FrameDue
      <4>4. CASE ev.kind = "datagram"
        BY <4>1, <4>4, <1>1 DEF MessageDue
      <4> QED BY <4>2, <4>3, <4>4 DEF MessageDue
    <3> QED BY <2>4, <3>1, <3>2
  <2>21. CrashDue'
    BY <1>1, <2>2 DEF CrashDue
  <2> QED BY <1>7, <2>13, <2>14, <2>15, <2>16, <2>17, <2>18, <2>20, <2>21 DEF Ordered
<1> QED BY <1>8, <1>9, <1>10


-----------------------------------------------------------------------------
(* Connections: a socket fails                                             *)

\* Two workers never give back the same event: its socket is one client's.
LEMMA FailingApart ==
  ASSUME Failing, NEW v \in Workers, NEW w \in Workers,
         pc[v] \in {"push", "destroy"}, pc[w] \in {"push", "destroy"},
         fdev[held[v]].pool = fdev[held[w]].pool
  PROVE  v = w
BY DEF Failing

\* setFreeFdEv, alone in the list, puts the event before all others.
LEMMA PushOrdered ==
  ASSUME Always, Always', Ordered, InOrder', NEW w \in Workers, setFreeFdEv(w)
  PROVE  Ordered'
<1>1. PICK e \in FdEvs : e = held[w]
  BY DEF setFreeFdEv, At, Always, HeldTypes
<1>2. /\ pc[w] = "push" /\ crashed' = "no"
      /\ fdchainfree' = e /\ pc' = [pc EXCEPT ![w] = "destroy"]
      /\ fdev[e].fnext = fdchainfree /\ seen' = seen
      /\ UNCHANGED <<net, fdev, gone, bucket, address, queue, held, clients, sendings>>
  BY <1>1 DEF setFreeFdEv, At, Goto, InOrder
<1>3. pc'[w] = "destroy" /\ \A t \in Threads : t # w => pc'[t] = pc[t]
  BY <1>2, ThreadsApart DEF Always, QueueTypes
<1>4. /\ UNCHANGED <<owner, socket, epoll, fdev, gone, conn, bucksmap, queue, held, requests, wire>>
      /\ pc'[io] = pc[io]
  BY <1>2, <1>3, ThreadsApart DEF net, bucket, clients, sendings
<1>5. \A x \in Workers : pc'[x] \in {"push", "destroy"} <=> pc[x] \in {"push", "destroy"}
  BY <1>2, <1>3, ThreadsApart
<1>6. \A x : Registered(x)' <=> Registered(x)
  BY <1>4 DEF Registered
<1>7. \A k : Closed(k)' <=> Closed(k)
  BY <1>4 DEF Closed
<1>8. ~IsFree(e) /\ ~Registered(e) /\ ~SettingUp(e)
  BY <1>1, <1>2 DEF IsFree, Pushing, SettingUp, Ordered, Accepted, Failing
<1>9. \A x : Pushing(x)' <=> Pushing(x) /\ x # e
  <2> SUFFICES ASSUME NEW x PROVE Pushing(x)' <=> Pushing(x) /\ x # e
    OBVIOUS
  <2>1. ASSUME Pushing(x), x # e PROVE Pushing(x)'
    <3>1. PICK v \in Workers : pc[v] = "push" /\ held[v] = x
      BY <2>1 DEF Pushing
    <3>2. v # w
      BY <3>1, <2>1, <1>1
    <3> QED BY <3>1, <3>2, <1>3, <1>4, ThreadsApart DEF Pushing
  <2>2. ASSUME Pushing(x)' PROVE Pushing(x) /\ x # e
    <3>1. PICK v \in Workers : pc'[v] = "push" /\ held'[v] = x
      BY <2>2 DEF Pushing
    <3>2. v # w
      BY <3>1, <1>3
    <3>3. pc[v] = "push" /\ held[v] = x
      BY <3>1, <3>2, <1>3, <1>4, ThreadsApart
    <3>4. x # e
      BY <3>2, <3>3, <1>1, <1>2, FailingApart DEF Ordered
    <3> QED BY <3>3, <3>4 DEF Pushing
  <2> QED BY <2>1, <2>2
<1>10. \A x : IsFree(x)' <=> IsFree(x) \/ x = e
  BY <1>4, <1>6, <1>8, <1>9 DEF IsFree, SettingUp
<1>11. SocketsKept'
  BY <1>4 DEF Ordered, SocketsKept, Open
<1>12. Accepted'
  BY <1>4, <1>5, <1>6, <1>10 DEF Ordered, Accepted
<1>13. Chained'
  <2>1. PICK pos \in [FdEvs -> Nat] : Places(pos)
    BY DEF Ordered, Chained
  <2>2. fdchainfree \in FdEvs \cup {None} /\ e # None
    BY ThreadsApart DEF Always, ConnTypeOK
  <2>3. PICK n \in Nat : n = IF fdchainfree = None THEN 0 ELSE pos[fdchainfree] + 1
    BY <2>1, <2>2
  <2> DEFINE q == [pos EXCEPT ![e] = n]
  <2>4. \A x \in FdEvs : IsFree(x) => pos[x] < n /\ x # e /\ fdchainfree # None
    <3> TAKE x \in FdEvs
    <3> HAVE IsFree(x)
    <3>1. fdchainfree # None /\ pos[x] <= pos[fdchainfree]
      BY <2>1 DEF Places
    <3>2. pos[x] \in Nat /\ pos[fdchainfree] \in Nat
      BY <2>1, <2>2, <3>1
    <3> QED BY <3>1, <3>2, <1>8, <2>3
  <2>5. fdchainfree # None => IsFree(fdchainfree) /\ n = pos[fdchainfree] + 1 /\ fdchainfree # e
    BY <2>1, <2>3, <1>8 DEF Places
  <2>6. fdchainfree = None => n = 0
    BY <2>3
  <2>7. q \in [FdEvs -> Nat] /\ q[e] = n /\ \A x \in FdEvs : x # e => q[x] = pos[x]
    BY <2>1, <2>3
  <2> HIDE DEF q
  <2>8. \A x \in FdEvs : IsFree(x)' => fdchainfree' # None /\ q[x] <= q[fdchainfree']
    <3> TAKE x \in FdEvs
    <3> HAVE IsFree(x)'
    <3>1. CASE x = e
      BY <3>1, <1>2, <2>2, <2>3, <2>7
    <3>2. CASE x # e
      <4>1. pos[x] < n /\ pos[x] \in Nat
        BY <3>2, <1>10, <2>1, <2>4
      <4>2. pos[x] <= n
        BY <4>1, <2>3
      <4> QED BY <3>2, <4>2, <1>2, <2>2, <2>7
    <3> QED BY <3>1, <3>2
  <2>9. \A d, x \in FdEvs : IsFree(d)' /\ IsFree(x)' /\ q[d] = q[x] => d = x
    <3> SUFFICES ASSUME NEW d \in FdEvs, NEW x \in FdEvs, IsFree(d)', IsFree(x)', q[d] = q[x] PROVE d = x
      OBVIOUS
    <3>1. CASE d # e /\ x # e
      BY <3>1, <1>10, <2>1, <2>7 DEF Places
    <3>2. CASE d = e /\ x # e
      <4>1. pos[x] < n /\ pos[x] \in Nat /\ pos[x] = n
        BY <3>2, <1>10, <2>1, <2>4, <2>7
      <4> QED BY <4>1, <2>3
    <3>3. CASE d # e /\ x = e
      <4>1. pos[d] < n /\ pos[d] \in Nat /\ pos[d] = n
        BY <3>3, <1>10, <2>1, <2>4, <2>7
      <4> QED BY <4>1, <2>3
    <3> QED BY <3>1, <3>2, <3>3
  <2>10. \A x, y \in FdEvs : IsFree(x)' /\ fdev[x].fnext = y => IsFree(y)' /\ q[x] = q[y] + 1
    <3> SUFFICES ASSUME NEW x \in FdEvs, NEW y \in FdEvs, IsFree(x)', fdev[x].fnext = y
                 PROVE  IsFree(y)' /\ q[x] = q[y] + 1
      OBVIOUS
    <3>0. y # None
      BY ThreadsApart
    <3>1. CASE x = e
      <4>1. fdchainfree = y /\ IsFree(y) /\ n = pos[y] + 1 /\ y # e
        BY <3>0, <3>1, <1>2, <2>5
      <4> QED BY <3>1, <4>1, <1>10, <2>7
    <3>2. CASE x # e
      <4>1. IsFree(x)
        BY <3>2, <1>10
      <4>2. IsFree(y) /\ pos[x] = pos[y] + 1
        BY <4>1, <3>0, <2>1 DEF Places
      <4> QED BY <3>2, <4>2, <1>8, <1>10, <2>7
    <3> QED BY <3>1, <3>2
  <2>11. \A x \in FdEvs : IsFree(x)' /\ fdev[x].fnext = None => q[x] = 0
    <3> SUFFICES ASSUME NEW x \in FdEvs, IsFree(x)', fdev[x].fnext = None PROVE q[x] = 0
      OBVIOUS
    <3>1. CASE x = e
      BY <3>1, <1>2, <2>6, <2>7
    <3>2. CASE x # e
      <4>1. IsFree(x)
        BY <3>2, <1>10
      <4>2. pos[x] = 0
        BY <4>1, <2>1 DEF Places
      <4> QED BY <3>2, <4>2, <2>7
    <3> QED BY <3>1, <3>2
  <2>12. Places(q)'
    <3>1. \A x \in FdEvs : fdev[x].fnext \in FdEvs \cup {None}
      BY DEF Always, ConnTypeOK, FdEvFields
    <3>2. fdchainfree' = e /\ IsFree(e)' /\ UNCHANGED fdev
      BY <1>2, <1>4, <1>10
    <3> QED BY <2>8, <2>9, <2>10, <2>11, <3>1, <3>2 DEF Places
  <2> QED BY <2>7, <2>12 DEF Chained
<1>14. Pointing'
  BY <1>4, <1>6 DEF Ordered, Pointing
<1>15. Failing'
  <2>1. \A k \in gone : k <= Len(owner) /\ Closed(k)
    BY DEF Ordered, Failing
  <2>2. ASSUME NEW x \in Workers, pc'[x] \in {"push", "destroy"}, NEW y \in FdEvs, y = held[x]
        PROVE  LET k == fdev[y].pool IN
               /\ k <= Len(owner) /\ getWorker(owner[k]) = x /\ Closed(k) /\ k \notin gone
               /\ ~Registered(y)
               /\ pc'[x] = "destroy" => IsFree(y)'
    <3>1. pc[x] \in {"push", "destroy"}
      BY <2>2, <1>5
    <3>2. pc'[x] = "destroy" => IsFree(y)'
      <4>1. CASE x = w
        BY <4>1, <2>2, <1>1, <1>10
      <4>2. CASE x # w
        <5>1. pc'[x] = pc[x]
          BY <4>2, <1>3, ThreadsApart
        <5> QED BY <3>1, <5>1, <2>2, <1>10 DEF Ordered, Failing
      <4> QED BY <4>1, <4>2
    <3> QED BY <2>2, <3>1, <3>2 DEF Ordered, Failing
  <2>3. \A x \in Workers : pc'[x] \in {"push", "destroy"} => held[x] \in FdEvs
    BY <1>5 DEF Always, HeldTypes
  <2> QED BY <2>1, <2>2, <2>3, <1>4, <1>6, <1>7 DEF Failing
<1>16. ConnsMade'
  <2>1. PICK g \in [Conns -> Sockets] : Made(g)
    BY DEF Ordered, ConnsMade
  <2>2. Made(g)'
    BY <2>1, <1>4, <1>7 DEF Made
  <2> QED BY <2>1, <2>2 DEF ConnsMade
<1>17. QueuesDue'
  <2> SUFFICES ASSUME NEW x \in Workers, NEW ev \in Queued(x)' PROVE MessageDue(x, ev)'
    BY DEF QueuesDue
  <2>1. MessageDue(x, ev)
    BY <1>4 DEF Queued, Ordered, QueuesDue
  <2>2. ev.kind = "frame" => FrameDue(x, ev)'
    <3>1. Alive(ev.ev, ev.pool)' <=> Alive(ev.ev, ev.pool)
      BY <1>4 DEF Alive
    <3>2. FailingOf(x, ev.ev, ev.pool)' <=> FailingOf(x, ev.ev, ev.pool)
      BY <1>4, <1>5 DEF FailingOf
    <3> QED BY <2>1, <3>1, <3>2, <1>4 DEF MessageDue, FrameDue
  <2>3. ev.kind = "answer" => AnswerOf(x, ev)'
    BY <2>1, <1>4, <1>7 DEF MessageDue, AnswerOf
  <2>4. ev.kind = "answer" => Mapped(x, owner[ev.asker])'
    <3>1. \A ssrc : Mapped(x, ssrc) => Mapped(x, ssrc)'
      BY <1>2, <1>3, <1>4, ThreadsApart DEF Mapped
    <3> QED BY <2>1, <3>1, <1>4 DEF MessageDue
  <2> QED BY <2>1, <2>2, <2>3, <2>4, <1>2, <1>4 DEF MessageDue
<1>18. Sent' /\ CrashDue'
  BY <1>2, <1>4 DEF Ordered, Sent, CrashDue
<1> QED BY <1>11, <1>12, <1>13, <1>14, <1>15, <1>16, <1>17, <1>18 DEF Ordered

\* The memory destroyed is that of a closed socket, destroyed for the first time.
LEMMA DestroyOrdered ==
  ASSUME Always, Always', Ordered, InOrder', NEW w \in Workers, memoryDestroy(w)
  PROVE  Ordered'
<1>1. PICK e \in FdEvs, p \in Sockets : e = held[w] /\ p = fdev[e].pool
  BY DEF memoryDestroy, At, Always, HeldTypes
<1>2. pc[w] = "destroy" /\ queue[w] # <<>>
  BY DEF memoryDestroy, At
<1>3. /\ p \notin gone /\ p <= Len(owner) /\ Closed(p) /\ getWorker(owner[p]) = w
  BY <1>1, <1>2 DEF Ordered, Failing
<1>4. /\ gone' = gone \cup {p} /\ queue' = Handled(w) /\ crashed' = "no"
      /\ pc' = [pc EXCEPT ![w] = "next"] /\ held' = [held EXCEPT ![w] = None]
      /\ UNCHANGED <<net, fdchainfree, fdev, bucket, address, clients, sendings, seen>>
  BY <1>1, <1>3 DEF memoryDestroy, At, Return, Goto, Keeps
<1>5. pc'[w] = "next" /\ \A t \in Threads : t # w => pc'[t] = pc[t] /\ held'[t] = held[t]
  BY <1>4, ThreadsApart DEF Always, QueueTypes
<1>6. /\ UNCHANGED <<owner, socket, epoll, fdchainfree, fdev, conn, bucksmap, requests, wire>>
      /\ pc'[io] = pc[io] /\ held'[io] = held[io]
  BY <1>4, <1>5, ThreadsApart DEF net, bucket, clients, sendings
<1>7. \A x \in Workers : pc'[x] \in {"push", "destroy"} => x # w /\ pc'[x] = pc[x] /\ held'[x] = held[x]
  BY <1>5, ThreadsApart
<1>8. \A x : Registered(x)' <=> Registered(x)
  BY <1>6 DEF Registered
<1>9. \A k : Closed(k)' <=> Closed(k)
  BY <1>6 DEF Closed
<1>10. \A x : Pushing(x)' <=> Pushing(x)
  BY <1>2, <1>5, ThreadsApart DEF Pushing
<1>11. \A x : IsFree(x)' <=> IsFree(x)
  BY <1>6, <1>8, <1>10 DEF IsFree, SettingUp
<1>12. SocketsKept' /\ Pointing'
  BY <1>6, <1>8 DEF Ordered, SocketsKept, Pointing, Open
<1>13. Accepted'
  BY <1>6, <1>7, <1>8, <1>11 DEF Ordered, Accepted
<1>14. Chained'
  BY <1>6, <1>11, ChainKept DEF Ordered, Always
<1>15. Failing'
  <2>1. \A k \in gone' : k <= Len(owner) /\ Closed(k)
    BY <1>3, <1>4 DEF Ordered, Failing
  <2>2. ASSUME NEW x \in Workers, pc'[x] \in {"push", "destroy"}
        PROVE  LET k == fdev[held'[x]].pool IN
               /\ k <= Len(owner) /\ getWorker(owner[k]) = x /\ Closed(k) /\ k \notin gone'
               /\ ~Registered(held'[x])
               /\ pc'[x] = "destroy" => IsFree(held'[x])
    <3>1. x # w /\ pc'[x] = pc[x] /\ held'[x] = held[x]
      BY <2>2, <1>7
    <3>2. fdev[held[x]].pool # p
      BY <2>2, <3>1, <1>1, <1>2, FailingApart DEF Ordered
    <3> QED BY <2>2, <3>1, <3>2, <1>4 DEF Ordered, Failing
  <2> QED BY <2>1, <2>2, <1>6, <1>8, <1>9, <1>11 DEF Failing
<1>16. ConnsMade'
  <2>1. PICK g \in [Conns -> Sockets] : Made(g)
    BY DEF Ordered, ConnsMade
  <2>2. Made(g)'
    BY <2>1, <1>6, <1>9 DEF Made
  <2> QED BY <2>1, <2>2 DEF ConnsMade
<1>17. QueuesDue'
  <2> SUFFICES ASSUME NEW x \in Workers, NEW ev \in Queued(x)' PROVE MessageDue(x, ev)'
    BY DEF QueuesDue
  <2>1. MessageDue(x, ev)
    BY <1>2, <1>4, QueueHandled DEF Always, Ordered, QueuesDue
  <2>2. ev.kind = "frame" => FrameDue(x, ev)'
    <3>1. Alive(ev.ev, ev.pool)' <=> Alive(ev.ev, ev.pool)
      BY <1>6 DEF Alive
    <3>2. FailingOf(x, ev.ev, ev.pool) => FailingOf(x, ev.ev, ev.pool)' \/ ev.pool \in gone'
      BY <1>1, <1>4, <1>5, <1>6, ThreadsApart DEF FailingOf
    <3> QED BY <2>1, <3>1, <3>2, <1>4, <1>6 DEF MessageDue, FrameDue
  <2>3. ev.kind = "answer" => AnswerOf(x, ev)'
    BY <2>1, <1>6, <1>9 DEF MessageDue, AnswerOf
  <2>4. ev.kind = "answer" => Mapped(x, owner[ev.asker])'
    <3>1. \A ssrc : Mapped(x, ssrc) => Mapped(x, ssrc)'
      BY <1>2, <1>5, <1>6, ThreadsApart DEF Mapped
    <3> QED BY <2>1, <3>1, <1>6 DEF MessageDue
  <2> QED BY <2>1, <2>2, <2>3, <2>4, <1>4, <1>6 DEF MessageDue
<1>18. Sent' /\ CrashDue'
  BY <1>4, <1>6 DEF Ordered, Sent, CrashDue
<1> QED BY <1>12, <1>13, <1>14, <1>15, <1>16, <1>17, <1>18 DEF Ordered

\* An answer is sent over the socket it was asked on.
LEMMA SentMore ==
  ASSUME Always, Ordered, NEW k \in Sockets, k <= Len(owner), bucksmap[owner[k]] # None,
         wire' = [wire EXCEPT ![k] = Append(@, k)], UNCHANGED <<owner, bucksmap>>
  PROVE  Sent'
<1> DEFINE a == Append(wire[k], k)
<1>1. wire[k] \in Seq(Sockets) /\ wire' = [wire EXCEPT ![k] = a]
  BY DEF Always, QueueTypes
<1>2. /\ Len(a) = Len(wire[k]) + 1 /\ Len(wire[k]) \in Nat
      /\ \A i \in 1..Len(wire[k]) : a[i] = wire[k][i]
      /\ a[Len(wire[k])+1] = k
  BY <1>1, AppendProperties, LenProperties
<1>3. \A i \in 1..Len(wire[k]) : wire[k][i] = k
  BY DEF Ordered, Sent
<1>4. \A i \in 1..Len(a) : a[i] = k
  <2> TAKE i \in 1..Len(a)
  <2>1. CASE i = Len(wire[k]) + 1
    BY <2>1, <1>2
  <2>2. CASE i # Len(wire[k]) + 1
    <3>1. i \in 1..Len(wire[k])
      BY <2>2, <1>2
    <3> QED BY <3>1, <1>2, <1>3
  <2> QED BY <2>1, <2>2
<1> HIDE DEF a
<1>5. wire'[k] = a /\ \A j \in Sockets : j # k => wire'[j] = wire[j]
  BY <1>1 DEF Always, QueueTypes
<1> QED BY <1>4, <1>5 DEF Ordered, Sent

\* sendDataQueue: the connection's event is the asker's, still his or gone; when it
\* fails the event is the worker's own till it is in the list.
LEMMA SendOrdered ==
  ASSUME Always, Always', Ordered, InOrder', NEW w \in Workers, NEW outcome \in Outcomes,
         sendDataQueue(w, outcome)
  PROVE  Ordered'
<1>1. /\ queue[w] # <<>> /\ pc[w] = "next" /\ Event(w).kind = "answer" /\ crashed = "no"
      /\ UNCHANGED <<fdchainfree, gone, hgConnFreePtr, bucksmap, address, clients, seen>>
  BY DEF sendDataQueue, At, Event
<1>2. PICK c \in Conns, k \in Sockets :
        /\ Event(w).conn = c /\ Event(w).asker = k
        /\ k <= Len(owner) /\ w = getWorker(owner[k]) /\ conn[c].ssrc = owner[k]
        /\ IF conn[c].tcpfd = None THEN Closed(k) ELSE fdev[conn[c].tcpfd].pool = k
        /\ bucksmap[owner[k]] # None
  <2>1. Event(w) \in Answers /\ Event(w) \in Queued(w)
    BY <1>1, FirstTypes DEF Always
  <2>2. AnswerOf(w, Event(w)) /\ Mapped(w, owner[Event(w).asker])
    BY <1>1, <2>1 DEF Ordered, QueuesDue, MessageDue
  <2> QED BY <1>1, <2>1, <2>2 DEF Answers, AnswerOf, Mapped
<1>3. CASE conn[c].tcpfd = None
  <2>1. crashed' = "null fd event" /\ UNCHANGED <<net, fdev, conn, queue, pc, held, sendings>>
    BY <1>2, <1>3 DEF sendDataQueue, Crash
  <2>2. Quiet
    BY <1>1, <2>1 DEF Quiet, net, clients
  <2>3. Sent' /\ \A x \in Workers : \A ssrc \in Clients : Mapped(x, ssrc) => Mapped(x, ssrc)'
    BY <1>1, <2>1 DEF Ordered, Sent, Mapped, net, sendings
  <2>4. CrashDue'
    <3>1. Closed(k)' /\ queue' = queue
      BY <1>2, <1>3, <2>1 DEF Closed, net
    <3>2. queue'[w] # <<>> /\ Event(w)'.kind = "answer" /\ Closed(Event(w).asker)'
      BY <1>1, <1>2, <3>1 DEF Event, Closed
    <3> QED BY <2>1, <3>2 DEF CrashDue
  <2> QED BY <1>1, <2>1, <2>2, <2>3, <2>4, QuietOrdered DEF Queued
<1>4. CASE conn[c].tcpfd # None
  <2>1. PICK e \in FdEvs : e = conn[c].tcpfd /\ fdev[e].hgConn = c /\ fdev[e].pool = k
    BY <1>2, <1>4 DEF Ordered, Pointing, Always, ConnTypeOK, ConnFields
  <2>2. Registered(e) /\ c # None
    BY <2>1, ThreadsApart DEF Ordered, Pointing
  <2>3. PICK f \in Fds : epoll[f] = e
    BY <2>2 DEF Registered
  <2>4. socket[f] = k /\ fdev[e].fd = f /\ fdev[e].isconnected /\ Open(f)
    BY <2>1, <2>3, ThreadsApart DEF Ordered, SocketsKept, Always, SetUp
  <2>5. CASE outcome # Error
    <3>1. /\ queue' = Handled(w) /\ UNCHANGED <<net, fdev, conn, pc, held, crashed>>
          /\ wire' = IF outcome = Again THEN wire ELSE [wire EXCEPT ![k] = Append(@, k)]
      BY <1>1, <1>2, <1>4, <2>1, <2>4, <2>5 DEF sendDataQueue
    <3>2. Quiet
      BY <1>1, <3>1 DEF Quiet, net, clients
    <3>3. \A x \in Workers : \A ssrc \in Clients : Mapped(x, ssrc) => Mapped(x, ssrc)'
      BY <1>1, <3>1 DEF Mapped
    <3>4. Sent'
      <4>1. UNCHANGED <<owner, bucksmap>>
        BY <1>1, <3>1 DEF net
      <4>2. CASE outcome = Again
        BY <3>1, <4>1, <4>2 DEF Ordered, Sent
      <4>3. CASE outcome # Again
        BY <1>2, <3>1, <4>1, <4>3, SentMore
      <4> QED BY <4>2, <4>3
    <3>5. CrashDue'
      BY <1>1, <3>1 DEF CrashDue
    <3>6. \A x \in Workers : \A ev \in Queued(x)' : ev \in Queued(x)
      BY <1>1, <3>1, QueueHandled DEF Always
    <3> QED BY <1>1, <3>2, <3>3, <3>4, <3>5, <3>6, QuietOrdered
  <2>6. CASE outcome = Error
    <3>1. /\ socket' = [socket EXCEPT ![f] = None] /\ epoll' = [epoll EXCEPT ![f] = None]
          /\ conn' = [conn EXCEPT ![c].tcpfd = None]
          /\ fdev' = [fdev EXCEPT ![e].hgConn = None, ![e].fnext = fdchainfree]
          /\ held' = [held EXCEPT ![w] = e] /\ pc' = [pc EXCEPT ![w] = "push"]
          /\ UNCHANGED <<owner, queue, crashed, sendings>>
      <4>1. /\ socket' = [socket EXCEPT ![f] = None] /\ epoll' = [epoll EXCEPT ![f] = None]
            /\ Forget(e) /\ Keeps(w, e) /\ Goto(w, "push")
            /\ UNCHANGED <<owner, queue, crashed, sendings>>
        BY <1>2, <1>4, <2>1, <2>2, <2>4, <2>6 DEF sendDataQueue
      <4> QED BY <4>1, <2>1 DEF Forget, Keeps, Goto
    <3>2. \A g \in Fds : /\ socket'[g] = IF g = f THEN None ELSE socket[g]
                         /\ epoll'[g] = IF g = f THEN None ELSE epoll[g]
      BY <3>1 DEF Always, ConnTypeOK
    <3>3. /\ pc'[w] = "push" /\ held'[w] = e
          /\ \A t \in Threads : t # w => pc'[t] = pc[t] /\ held'[t] = held[t]
      BY <3>1, ThreadsApart DEF Always, QueueTypes
    <3>4. \A x \in FdEvs : /\ fdev'[x].pool = fdev[x].pool /\ fdev'[x].fd = fdev[x].fd
                           /\ fdev'[x].isconnected = fdev[x].isconnected
                           /\ fdev'[x].hgConn = (IF x = e THEN None ELSE fdev[x].hgConn)
                           /\ x # e => fdev'[x].fnext = fdev[x].fnext
      BY <3>1 DEF Always, ConnTypeOK, FdEvFields
    <3>5. \A d \in Conns : /\ conn'[d].ssrc = conn[d].ssrc
                           /\ conn'[d].tcpfd = IF d = c THEN None ELSE conn[d].tcpfd
      BY <3>1 DEF Always, ConnTypeOK, ConnFields
    <3>6. /\ UNCHANGED <<owner, fdchainfree, gone, bucksmap, queue, requests, wire, seen>> /\ crashed' = "no"
          /\ pc'[io] = pc[io] /\ held'[io] = held[io]
      BY <1>1, <3>1, <3>3, ThreadsApart DEF clients, sendings
    <3>7. \A x : Registered(x)' /\ x # None <=> Registered(x) /\ x # e /\ x # None
      <4> SUFFICES ASSUME NEW x, x # None PROVE Registered(x)' <=> Registered(x) /\ x # e
        OBVIOUS
      <4>1. ASSUME Registered(x)' PROVE Registered(x) /\ x # e
        <5>1. PICK g \in Fds : epoll'[g] = x
          BY <4>1 DEF Registered
        <5>2. g # f /\ epoll[g] = x
          BY <5>1, <3>2
        <5>3. x # e
          <6> SUFFICES ASSUME x = e PROVE FALSE
            OBVIOUS
          <6>1. fdev[e].fd = g
            BY <5>2, ThreadsApart DEF Ordered, SocketsKept
          <6> QED BY <6>1, <5>2, <2>4
        <5> QED BY <5>2, <5>3 DEF Registered
      <4>2. ASSUME Registered(x), x # e PROVE Registered(x)'
        <5>1. PICK g \in Fds : epoll[g] = x
          BY <4>2 DEF Registered
        <5>2. g # f
          BY <5>1, <4>2, <2>3
        <5> QED BY <5>1, <5>2, <3>2 DEF Registered
      <4> QED BY <4>1, <4>2
    <3>8. \A x : Pushing(x)' <=> Pushing(x) \/ x = e
      <4> SUFFICES ASSUME NEW x PROVE Pushing(x)' <=> Pushing(x) \/ x = e
        OBVIOUS
      <4>1. ASSUME Pushing(x) PROVE Pushing(x)'
        <5>1. PICK v \in Workers : pc[v] = "push" /\ held[v] = x
          BY <4>1 DEF Pushing
        <5>2. v # w
          BY <5>1, <1>1
        <5> QED BY <5>1, <5>2, <3>3, ThreadsApart DEF Pushing
      <4>2. ASSUME Pushing(x)', x # e PROVE Pushing(x)
        <5>1. PICK v \in Workers : pc'[v] = "push" /\ held'[v] = x
          BY <4>2 DEF Pushing
        <5>2. v # w
          BY <5>1, <4>2, <3>3
        <5> QED BY <5>1, <5>2, <3>3, ThreadsApart DEF Pushing
      <4>3. Pushing(e)'
        BY <3>3 DEF Pushing
      <4> QED BY <4>1, <4>2, <4>3
    <3>9. \A x \in FdEvs : IsFree(x)' <=> IsFree(x)
      <4> TAKE x \in FdEvs
      <4>1. x # None
        BY ThreadsApart
      <4>2. SettingUp(x)' <=> SettingUp(x)
        BY <3>6 DEF SettingUp
      <4>3. CASE x = e
        BY <4>3, <2>2, <3>8 DEF IsFree
      <4>4. CASE x # e
        BY <4>1, <4>2, <4>4, <3>7, <3>8 DEF IsFree
      <4> QED BY <4>3, <4>4
    <3>10. \A j \in Sockets : Closed(j)' <=> Closed(j) \/ j = k
      <4> TAKE j \in Sockets
      <4>1. ASSUME Closed(j) PROVE Closed(j)'
        <5>1. \A g \in Fds : socket'[g] # j
          BY <4>1, <3>2, ClosedDef, ThreadsApart
        <5> QED BY <5>1, ClosedDefNext
      <4>2. ASSUME Closed(j)', j # k PROVE Closed(j)
        <5>1. \A g \in Fds : socket[g] # j
          BY <4>2, <3>2, <2>4, ClosedDefNext
        <5> QED BY <5>1, ClosedDef
      <4>3. Closed(k)'
        <5>1. \A g \in Fds : socket'[g] # k
          <6> TAKE g \in Fds
          <6>1. CASE g = f
            BY <6>1, <3>2, ThreadsApart
          <6>2. CASE g # f
            BY <6>2, <3>2, <2>4 DEF Always, Numbered
          <6> QED BY <6>1, <6>2
        <5> QED BY <5>1, ClosedDefNext
      <4> QED BY <4>1, <4>2, <4>3
    <3>11. SocketsKept'
      <4>1. \A g \in Fds : epoll'[g] # None =>
              /\ fdev'[epoll'[g]].fd = g /\ fdev'[epoll'[g]].isconnected
              /\ fdev'[epoll'[g]].pool = socket'[g]
        <5> TAKE g \in Fds
        <5> HAVE epoll'[g] # None
        <5>1. g # f /\ epoll'[g] = epoll[g] /\ socket'[g] = socket[g] /\ epoll[g] \in FdEvs
          BY <3>2 DEF Always, ConnTypeOK
        <5> QED BY <5>1, <3>4 DEF Ordered, SocketsKept
      <4>2. \A g \in Fds : Open(g)' /\ epoll'[g] = None => pc'[io] # "next" /\ held'[io].fd = g
        <5> TAKE g \in Fds
        <5> HAVE Open(g)' /\ epoll'[g] = None
        <5>1. g # f
          BY <3>2 DEF Open
        <5> QED BY <5>1, <3>2, <3>6 DEF Ordered, SocketsKept, Open
      <4>3. pc'[io] # "next" => /\ socket'[held'[io].fd] # None /\ epoll'[held'[io].fd] = None
                                /\ socket'[held'[io].fd] = held'[io].socket
        <5> HAVE pc'[io] # "next"
        <5>1. PICK g \in Fds : g = held[io].fd
          BY <3>6 DEF Always, HeldTypes, Accepting
        <5>2. Open(g) /\ epoll[g] = None /\ socket[g] = held[io].socket
          BY <5>1, <3>6 DEF Ordered, SocketsKept
        <5>3. g # f
          BY <5>2, <2>3, ThreadsApart
        <5> QED BY <5>1, <5>2, <5>3, <3>2, <3>6 DEF Open
      <4> QED BY <4>1, <4>2, <4>3 DEF SocketsKept, Open
    <3>12. Accepted'
      <4>1. CASE pc[io] = "next"
        BY <4>1, <3>6 DEF Accepted
      <4>2. CASE pc[io] # "next"
        <5>1. PICK x \in FdEvs : x = held[io].ev
          BY <4>2 DEF Always, HeldTypes, Accepting
        <5>2. pc[io] = "pop" => IsFree(x)'
          BY <5>1, <3>9 DEF Ordered, Accepted
        <5>3. pc[io] = "init" => ~Registered(x)'
          BY <5>1, <3>7, ThreadsApart DEF Ordered, Accepted
        <5>4. pc[io] = "init" => \A v \in Workers : pc'[v] \in {"push", "destroy"} => held'[v] # x
          <6> HAVE pc[io] = "init"
          <6>1. ~Registered(x) /\ x # e
            BY <5>1, <2>2 DEF Ordered, Accepted
          <6> TAKE v \in Workers
          <6>2. CASE v = w
            BY <6>1, <6>2, <3>3
          <6>3. CASE v # w
            BY <5>1, <6>3, <3>3, ThreadsApart DEF Ordered, Accepted
          <6> QED BY <6>2, <6>3
        <5> QED BY <5>1, <5>2, <5>3, <5>4, <3>6 DEF Accepted
      <4> QED BY <4>1, <4>2
    <3>13. Chained'
      <4>1. \A x \in FdEvs : IsFree(x) => fdev'[x].fnext = fdev[x].fnext
        BY <3>4, <2>2 DEF IsFree
      <4> QED BY <4>1, <3>6, <3>9, ChainKept DEF Always, Ordered
    <3>14. Pointing'
      <4>1. ASSUME NEW x \in FdEvs, fdev'[x].hgConn # None
            PROVE  /\ Registered(x)' /\ conn'[fdev'[x].hgConn].tcpfd = x
                   /\ conn'[fdev'[x].hgConn].ssrc = owner'[fdev'[x].pool]
        <5>1. x # e /\ fdev'[x].hgConn = fdev[x].hgConn
          BY <4>1, <3>4
        <5>2. PICK d \in Conns : fdev[x].hgConn = d
          BY <4>1, <5>1 DEF Always, ConnTypeOK, FdEvFields
        <5>3. Registered(x) /\ conn[d].tcpfd = x /\ conn[d].ssrc = owner[fdev[x].pool]
          BY <4>1, <5>1, <5>2 DEF Ordered, Pointing
        <5>4. d # c
          BY <5>1, <5>3, <2>1
        <5> QED BY <5>1, <5>2, <5>3, <5>4, <3>4, <3>5, <3>6, <3>7, ThreadsApart
      <4>2. ASSUME NEW d \in Conns, conn'[d].tcpfd # None
            PROVE  fdev'[conn'[d].tcpfd].hgConn = d
        <5>1. d # c /\ conn'[d].tcpfd = conn[d].tcpfd
          BY <4>2, <3>5
        <5>2. conn[d].tcpfd \in FdEvs /\ fdev[conn[d].tcpfd].hgConn = d
          BY <4>2, <5>1 DEF Ordered, Pointing, Always, ConnTypeOK, ConnFields
        <5>3. conn[d].tcpfd # e
          BY <5>1, <5>2, <2>1
        <5> QED BY <5>1, <5>2, <5>3, <3>4
      <4> QED BY <4>1, <4>2 DEF Pointing
    <3>15. Failing'
      <4>1. \A j \in gone' : j <= Len(owner') /\ Closed(j)'
        <5>1. \A j \in gone : j \in Sockets /\ j <= Len(owner) /\ Closed(j)
          BY DEF Ordered, Failing, Always, ConnTypeOK
        <5> QED BY <5>1, <3>6, <3>10
      <4>2. ASSUME NEW v \in Workers, pc'[v] \in {"push", "destroy"}, NEW y \in FdEvs, y = held'[v],
                   NEW j \in Sockets, j = fdev'[y].pool
            PROVE  /\ j <= Len(owner') /\ getWorker(owner'[j]) = v /\ Closed(j)' /\ j \notin gone'
                   /\ ~Registered(y)'
                   /\ pc'[v] = "destroy" => IsFree(y)'
        <5>1. CASE v = w
          <6>1. y = e /\ j = k /\ pc'[v] = "push"
            BY <5>1, <4>2, <3>3, <3>4, <2>1
          <6>2. k \notin gone
            BY <2>4, ClosedDef DEF Ordered, Failing
          <6>3. ~Registered(e)'
            BY <3>7, ThreadsApart
          <6> QED BY <5>1, <6>1, <6>2, <6>3, <1>2, <3>6, <3>10
        <5>2. CASE v # w
          <6>1. pc[v] = pc'[v] /\ held[v] = y
            BY <5>2, <4>2, <3>3, ThreadsApart
          <6>2. j = fdev[y].pool
            BY <4>2, <3>4
          <6>3. /\ j <= Len(owner) /\ getWorker(owner[j]) = v /\ Closed(j) /\ j \notin gone
                /\ ~Registered(y) /\ (pc[v] = "destroy" => IsFree(y))
            BY <4>2, <6>1, <6>2 DEF Ordered, Failing
          <6> QED BY <6>1, <6>2, <6>3, <3>4, <3>6, <3>7, <3>9, <3>10, ThreadsApart
        <5> QED BY <5>1, <5>2
      <4>3. \A v \in Workers : pc'[v] \in {"push", "destroy"} =>
              held'[v] \in FdEvs /\ fdev'[held'[v]].pool \in Sockets
        BY DEF Always, HeldTypes
      <4> QED BY <4>1, <4>2, <4>3 DEF Failing
    <3>16. ConnsMade'
      <4>1. PICK g \in [Conns -> Sockets] : Made(g)
        BY DEF Ordered, ConnsMade
      <4>2. ASSUME NEW d \in Conns, conn'[d].ssrc # 0
            PROVE  /\ g[d] <= Len(owner') /\ requests'[g[d]] > 0
                   /\ IF conn'[d].tcpfd = None THEN Closed(g[d])' ELSE g[d] = fdev'[conn'[d].tcpfd].pool
                   /\ \A b \in Conns : conn'[b].ssrc # 0 /\ g[d] = g[b] => d = b
        <5>1. conn[d].ssrc # 0 /\ g[d] \in Sockets
          BY <4>1, <4>2, <3>5
        <5>2. /\ g[d] <= Len(owner) /\ requests[g[d]] > 0
              /\ \A b \in Conns : conn[b].ssrc # 0 /\ g[d] = g[b] => d = b
              /\ IF conn[d].tcpfd = None THEN Closed(g[d]) ELSE g[d] = fdev[conn[d].tcpfd].pool
          BY <5>1, <4>1 DEF Made
        <5>3. IF conn'[d].tcpfd = None THEN Closed(g[d])' ELSE g[d] = fdev'[conn'[d].tcpfd].pool
          <6>1. CASE d = c
            <7>1. g[d] = k
              BY <5>2, <6>1, <2>1, ThreadsApart
            <7> QED BY <6>1, <7>1, <3>5, <3>10
          <6>2. CASE d # c
            <7>1. conn'[d].tcpfd = conn[d].tcpfd /\ conn[d].tcpfd \in FdEvs \cup {None}
              BY <6>2, <3>5 DEF Always, ConnTypeOK, ConnFields
            <7> QED BY <7>1, <5>1, <5>2, <3>4, <3>10
          <6> QED BY <6>1, <6>2
        <5> QED BY <5>2, <5>3, <3>5, <3>6
      <4>3. Made(g)'
        BY <4>2 DEF Made
      <4> QED BY <4>1, <4>3 DEF ConnsMade
    <3>17. QueuesDue'
      <4> SUFFICES ASSUME NEW x \in Workers, NEW ev \in Queued(x)' PROVE MessageDue(x, ev)'
        BY DEF QueuesDue
      <4>1. ev \in Messages /\ MessageDue(x, ev)
        BY <3>6, QueuedTypes DEF Always, Queued, Ordered, QueuesDue
      <4>2. CASE ev.kind = "answer"
        <5>1. ev \in Answers /\ AnswerOf(x, ev) /\ Mapped(x, owner[ev.asker])
          BY <4>1, <4>2 DEF MessageDue, Messages, Frames, Datagrams
        <5>2. ev.asker \in 1..Len(owner) /\ ev.asker \in Sockets /\ ev.conn \in Conns
          BY <5>1, LenProperties DEF AnswerOf, Answers, Sockets, Always, ConnTypeOK
        <5>3. owner[ev.asker] \in Clients
          BY <5>2, ElementOfSeq DEF Always, ConnTypeOK
        <5>4. Mapped(x, owner[ev.asker])'
          <6> SUFFICES ASSUME bucksmap[owner[ev.asker]] = None
                       PROVE  pc'[x] = "accept" /\ conn'[held'[x]].ssrc = owner[ev.asker]
            BY <3>6 DEF Mapped
          <6>1. pc[x] = "accept" /\ conn[held[x]].ssrc = owner[ev.asker]
            BY <5>1 DEF Mapped
          <6>2. x # w /\ held[x] \in Conns
            BY <6>1, <1>1 DEF Always, HeldTypes
          <6> QED BY <6>1, <6>2, <3>3, <3>5, ThreadsApart
        <5>5. AnswerOf(x, ev)'
          <6>1. IF conn'[ev.conn].tcpfd = None THEN Closed(ev.asker)'
                ELSE fdev'[conn'[ev.conn].tcpfd].pool = ev.asker
            <7>1. CASE ev.conn = c
              <8>1. ev.asker = k
                BY <5>1, <7>1, <2>1, ThreadsApart DEF AnswerOf
              <8> QED BY <7>1, <8>1, <3>5, <3>10
            <7>2. CASE ev.conn # c
              <8>1. conn'[ev.conn].tcpfd = conn[ev.conn].tcpfd /\ conn[ev.conn].tcpfd \in FdEvs \cup {None}
                BY <7>2, <5>2, <3>5 DEF Always, ConnTypeOK, ConnFields
              <8> QED BY <8>1, <5>1, <5>2, <3>4, <3>10 DEF AnswerOf
            <7> QED BY <7>1, <7>2
          <6> QED BY <6>1, <5>1, <5>2, <3>5, <3>6 DEF AnswerOf
        <5> QED BY <4>2, <5>4, <5>5 DEF MessageDue
      <4>3. CASE ev.kind = "frame"
        <5>1. ev \in Frames /\ FrameDue(x, ev)
          BY <4>1, <4>3 DEF MessageDue, Messages, Answers, Datagrams
        <5>2. ev.ev \in FdEvs /\ ev.pool \in Sockets /\ ev.ssrc \in Clients
          BY <5>1 DEF Frames
        <5>3. Alive(ev.ev, ev.pool) => Alive(ev.ev, ev.pool)' \/ FailingOf(x, ev.ev, ev.pool)'
          <6> HAVE Alive(ev.ev, ev.pool)
          <6>1. PICK g \in Fds : epoll[g] = ev.ev /\ socket[g] = ev.pool
            BY DEF Alive
          <6>2. CASE g # f
            BY <6>1, <6>2, <3>2 DEF Alive
          <6>3. CASE g = f
            <7>1. ev.ev = e /\ ev.pool = k
              BY <6>1, <6>3, <2>3, <2>4
            <7>2. x = w
              BY <7>1, <5>1, <1>2 DEF FrameDue
            <7> QED BY <7>1, <7>2, <3>3, <3>4, <2>1 DEF FailingOf
          <6> QED BY <6>2, <6>3
        <5>4. FailingOf(x, ev.ev, ev.pool) => FailingOf(x, ev.ev, ev.pool)'
          <6> HAVE FailingOf(x, ev.ev, ev.pool)
          <6>1. x # w
            BY <1>1 DEF FailingOf
          <6> QED BY <6>1, <5>2, <3>3, <3>4, ThreadsApart DEF FailingOf
        <5> QED BY <4>3, <5>1, <5>3, <5>4, <3>6 DEF MessageDue, FrameDue
      <4>4. CASE ev.kind = "datagram"
        BY <4>1, <4>4, <3>6 DEF MessageDue
      <4> QED BY <4>2, <4>3, <4>4 DEF MessageDue
    <3>18. Sent' /\ CrashDue'
      BY <3>6 DEF Ordered, Sent, CrashDue
    <3> QED BY <3>11, <3>12, <3>13, <3>14, <3>15, <3>16, <3>17, <3>18 DEF Ordered
  <2> QED BY <2>5, <2>6
<1> QED BY <1>3, <1>4


-----------------------------------------------------------------------------
(* Connections: a socket is accepted                                       *)

\* If the list is empty every event is an open socket's or on its way back.
LEMMA NoFdEvent ==
  ASSUME Always, Ordered, fdchainfree = None, pc[io] = "next"
  PROVE  Cardinality(OpenFds) + Cardinality(Returning) = FdNum
<1> DEFINE m == [f \in OpenFds |-> epoll[f]]
           E == {epoll[f] : f \in OpenFds}
<1>1. FdNum \in Nat /\ MaxSockets \in Nat
  BY ConnectionsAssumption
<1>2. IsFiniteSet(FdEvs) /\ Cardinality(FdEvs) = FdNum /\ IsFiniteSet(Fds)
  BY <1>1, Numbers DEF FdEvs, Fds
<1>3. IsFiniteSet(OpenFds) /\ Cardinality(OpenFds) \in Nat
  <2>1. OpenFds \in SUBSET Fds
    BY DEF OpenFds
  <2> QED BY <2>1, <1>2, FS_Subset, FS_CardinalityType
<1>4. \A f \in OpenFds : epoll[f] \in FdEvs /\ epoll[f] # None /\ fdev[epoll[f]].fd = f
  BY DEF OpenFds, Always, ConnTypeOK, Ordered, SocketsKept
<1>5. IsFiniteSet(E) /\ Cardinality(E) = Cardinality(OpenFds)
  <2>1. m \in [OpenFds -> E] /\ \A f \in OpenFds : m[f] = epoll[f]
    OBVIOUS
  <2>2. \A f, g \in OpenFds : m[f] = m[g] => f = g
    BY <1>4, <2>1
  <2>3. \A e \in E : \E f \in OpenFds : m[f] = e
    BY <2>1
  <2> HIDE DEF m, E
  <2>4. m \in Bijection(OpenFds, E)
    BY <2>1, <2>2, <2>3 DEF Bijection, Injection, Surjection, IsInjective
  <2>5. ExistsBijection(OpenFds, E)
    BY <2>4 DEF ExistsBijection
  <2> QED BY <1>3, <2>5, FS_Bijection
<1>6. Returning \subseteq FdEvs /\ \A e \in FdEvs : e \in Returning <=> Pushing(e)
  BY DEF Returning, Pushing, Always, HeldTypes
<1>7. E \subseteq FdEvs /\ \A e \in FdEvs : e \in E <=> Registered(e)
  <2>1. \A f \in Fds : epoll[f] # None => f \in OpenFds
    BY DEF OpenFds, Always, SetUp
  <2>2. \A e \in FdEvs : e # None
    BY ThreadsApart
  <2> QED BY <1>4, <2>1, <2>2 DEF Registered, OpenFds
<1>8. E \cap Returning = {}
  BY <1>6, <1>7 DEF Pushing, Ordered, Failing
<1>9. E \cup Returning = FdEvs
  <2>1. \A e \in FdEvs : ~IsFree(e) /\ ~SettingUp(e)
    BY DEF Ordered, Chained, Places, SettingUp
  <2> QED BY <1>6, <1>7, <2>1 DEF IsFree
<1> HIDE DEF E
<1>10. IsFiniteSet(Returning) /\ Cardinality(Returning) \in Nat
  <2>1. Returning \in SUBSET FdEvs
    BY <1>6
  <2> QED BY <2>1, <1>2, FS_Subset, FS_CardinalityType
<1>11. Cardinality(E \cup Returning) = Cardinality(E) + Cardinality(Returning) - Cardinality({})
  BY <1>5, <1>8, <1>10, FS_Union
<1>12. Cardinality({}) = 0
  BY FS_EmptySet
<1>13. Cardinality(E \cup Returning) = FdNum
  BY <1>2, <1>9
<1>14. Cardinality(OpenFds) + Cardinality(Returning) - 0 = FdNum
  BY <1>5, <1>11, <1>12, <1>13
<1> QED BY <1>3, <1>10, <1>14

\* tcpAccept, of a socket that has not been and with a number that is free.
LEMMA AcceptOrdered ==
  ASSUME Always, Always', Ordered, InOrder', NEW ssrc \in Clients, tcpAccept(ssrc)
  PROVE  Ordered'
<1>1. pc[io] = "next" /\ crashed = "no" /\ Len(owner) < MaxSockets
      /\ UNCHANGED <<events, bucket, address, queue, clients, sendings, seen>>
  BY DEF tcpAccept
<1>2. CASE fdchainfree = None
  <2>1. crashed' = "no fd event" /\ UNCHANGED <<net, pc, held>>
    BY <1>2 DEF tcpAccept, Crash
  <2>2. Quiet
    BY <1>1, <2>1 DEF Quiet, net, events, bucket, clients
  <2>3. Sent' /\ \A x \in Workers : \A s0 \in Clients : Mapped(x, s0) => Mapped(x, s0)'
    BY <1>1, <2>1 DEF Ordered, Sent, Mapped, net, bucket, sendings
  <2>4. CrashDue'
    <3>1. Cardinality(OpenFds) + Cardinality(Returning) = FdNum
      BY <1>1, <1>2, NoFdEvent
    <3>2. OpenFds' = OpenFds /\ Returning' = Returning
      BY <2>1 DEF OpenFds, Open, Returning, net
    <3> QED BY <2>1, <3>1, <3>2 DEF CrashDue
  <2> QED BY <1>1, <2>2, <2>3, <2>4, QuietOrdered DEF Queued, bucket
<1>3. CASE fdchainfree # None
  <2>1. PICK f \in Fds, e \in FdEvs, n \in Nat :
          /\ f = Min({g \in Fds : ~Open(g)}) /\ e = fdchainfree /\ n = Len(owner) + 1
    <3>1. Min({g \in Fds : ~Open(g)}) \in Fds
      BY <1>1, NumberFree DEF Always
    <3>2. fdchainfree \in FdEvs /\ Len(owner) + 1 \in Nat
      BY <1>3, LenProperties DEF Always, ConnTypeOK
    <3> QED BY <3>1, <3>2
  <2>2. ~Open(f) /\ epoll[f] = None
    BY <1>1, <2>1, NumberFree DEF Always, SetUp
  <2> DEFINE h == [fd |-> f, ev |-> e, socket |-> n]
  <2>3. /\ owner' = Append(owner, ssrc) /\ socket' = [socket EXCEPT ![f] = n]
        /\ held' = [held EXCEPT ![io] = h] /\ pc' = [pc EXCEPT ![io] = "pop"]
        /\ UNCHANGED <<epoll, crashed>>
    BY <1>3, <2>1 DEF tcpAccept, Keeps, Goto
  <2>4. /\ Len(owner') = n /\ Len(owner) \in Nat /\ n # None
        /\ \A k \in Sockets : k <= Len(owner) => k <= Len(owner') /\ owner'[k] = owner[k] /\ k # n
    <3>1. owner \in Seq(Clients) /\ Len(owner) \in Nat
      BY LenProperties DEF Always, ConnTypeOK
    <3>2. Len(owner') = n /\ \A k \in 1..Len(owner) : owner'[k] = owner[k]
      BY <2>1, <2>3, <3>1, AppendProperties
    <3>3. \A k \in Sockets : k <= Len(owner) => k \in 1..Len(owner) /\ k <= n /\ k # n
      BY <2>1, <3>1, ConnectionsAssumption DEF Sockets
    <3> QED BY <3>1, <3>2, <3>3, ThreadsApart
  <2>5. /\ pc'[io] = "pop" /\ held'[io] = h
        /\ \A w \in Workers : pc'[w] = pc[w] /\ held'[w] = held[w]
    BY <2>3, ThreadsApart DEF Always, QueueTypes
  <2>6. h.fd = f /\ h.ev = e /\ h.socket = n
    OBVIOUS
  <2> HIDE DEF h
  <2>7. \A g \in Fds : socket'[g] = IF g = f THEN n ELSE socket[g]
    BY <2>3 DEF Always, ConnTypeOK
  <2>8. /\ UNCHANGED <<fdchainfree, fdev, gone, conn, bucksmap, queue, requests, wire, seen, epoll>>
        /\ crashed' = "no"
    BY <1>1, <2>3 DEF events, bucket, clients, sendings
  <2>9. \A x : Registered(x)' <=> Registered(x)
    BY <2>8 DEF Registered
  <2>10. \A x : Pushing(x)' <=> Pushing(x)
    BY <2>5 DEF Pushing
  <2>11. \A x : IsFree(x)' <=> IsFree(x)
    BY <1>1, <2>5, <2>9, <2>10 DEF IsFree, SettingUp
  <2>12. \A k \in Sockets : k <= Len(owner) /\ Closed(k) => Closed(k)'
    <3> SUFFICES ASSUME NEW k \in Sockets, k <= Len(owner), Closed(k) PROVE Closed(k)'
      OBVIOUS
    <3>1. \A g \in Fds : socket'[g] # k
      BY <2>4, <2>7, ClosedDef
    <3> QED BY <3>1, ClosedDefNext
  <2>13. \A x \in FdEvs : Registered(x) => fdev[x].pool \in Sockets /\ fdev[x].pool <= Len(owner)
    <3> TAKE x \in FdEvs
    <3> HAVE Registered(x)
    <3>1. PICK g \in Fds : epoll[g] = x
      BY DEF Registered
    <3>2. fdev[x].pool = socket[g] /\ Open(g)
      BY <3>1, ThreadsApart DEF Ordered, SocketsKept, Always, SetUp
    <3>3. socket[g] \in 1..Len(owner) /\ socket[g] \in Sockets
      BY <3>2 DEF Always, Numbered, ConnTypeOK, Open
    <3> QED BY <3>2, <3>3, <2>4
  <2>14. SocketsKept'
    <3>1. \A g \in Fds : epoll'[g] # None =>
            /\ fdev'[epoll'[g]].fd = g /\ fdev'[epoll'[g]].isconnected
            /\ fdev'[epoll'[g]].pool = socket'[g]
      BY <2>2, <2>7, <2>8 DEF Ordered, SocketsKept
    <3>2. \A g \in Fds : Open(g)' /\ epoll'[g] = None => g = f
      BY <1>1, <2>7, <2>8 DEF Ordered, SocketsKept, Open
    <3>3. socket'[f] # None /\ epoll'[f] = None /\ socket'[f] = n
      BY <2>2, <2>4, <2>7, <2>8
    <3> QED BY <3>1, <3>2, <3>3, <2>5, <2>6 DEF SocketsKept, Open
  <2>15. Accepted'
    <3>1. IsFree(e)'
      BY <2>1, <2>11, ThreadsApart DEF Ordered, Chained, Places
    <3> QED BY <3>1, <2>5, <2>6 DEF Accepted
  <2>16. Chained'
    BY <2>8, <2>11, ChainKept DEF Ordered, Always
  <2>17. Pointing'
    BY <2>4, <2>8, <2>9, <2>13 DEF Ordered, Pointing
  <2>18. Failing'
    <3>1. \A k \in gone' : k <= Len(owner') /\ Closed(k)'
      BY <2>4, <2>8, <2>12 DEF Ordered, Failing, Always, ConnTypeOK
    <3>2. ASSUME NEW x \in Workers, pc'[x] \in {"push", "destroy"}, NEW y \in FdEvs, y = held'[x],
                 NEW k \in Sockets, k = fdev'[y].pool
          PROVE  /\ k <= Len(owner') /\ getWorker(owner'[k]) = x /\ Closed(k)' /\ k \notin gone'
                 /\ ~Registered(y)'
                 /\ pc'[x] = "destroy" => IsFree(y)'
      <4>1. pc[x] = pc'[x] /\ held[x] = y /\ fdev[y].pool = k
        BY <3>2, <2>5, <2>8
      <4>2. /\ k <= Len(owner) /\ getWorker(owner[k]) = x /\ Closed(k) /\ k \notin gone
            /\ ~Registered(y) /\ (pc[x] = "destroy" => IsFree(y))
        BY <3>2, <4>1 DEF Ordered, Failing
      <4> QED BY <4>1, <4>2, <2>4, <2>8, <2>9, <2>11, <2>12
    <3>3. \A x \in Workers : pc'[x] \in {"push", "destroy"} =>
            held'[x] \in FdEvs /\ fdev'[held'[x]].pool \in Sockets
      BY DEF Always, HeldTypes
    <3> QED BY <3>1, <3>2, <3>3 DEF Failing
  <2>19. ConnsMade'
    <3>1. PICK g \in [Conns -> Sockets] : Made(g)
      BY DEF Ordered, ConnsMade
    <3>2. Made(g)'
      BY <3>1, <2>4, <2>8, <2>12 DEF Made
    <3> QED BY <3>1, <3>2 DEF ConnsMade
  <2>20. QueuesDue'
    <3> SUFFICES ASSUME NEW x \in Workers, NEW ev \in Queued(x)' PROVE MessageDue(x, ev)'
      BY DEF QueuesDue
    <3>1. ev \in Messages /\ MessageDue(x, ev)
      BY <2>8, QueuedTypes DEF Always, Queued, Ordered, QueuesDue
    <3>2. CASE ev.kind = "frame"
      <4>1. ev \in Frames /\ FrameDue(x, ev)
        BY <3>1, <3>2 DEF MessageDue, Messages, Answers, Datagrams
      <4>2. ev.asker \in Sockets
        BY <4>1 DEF Frames
      <4>3. Alive(ev.ev, ev.pool) => Alive(ev.ev, ev.pool)'
        <5> HAVE Alive(ev.ev, ev.pool)
        <5>1. PICK g \in Fds : epoll[g] = ev.ev /\ socket[g] = ev.pool
          BY DEF Alive
        <5>2. g # f
          BY <4>1, <5>1, <2>2, ThreadsApart DEF Frames
        <5> QED BY <5>1, <5>2, <2>7, <2>8 DEF Alive
      <4>4. FailingOf(x, ev.ev, ev.pool) => FailingOf(x, ev.ev, ev.pool)'
        BY <2>5, <2>8 DEF FailingOf
      <4> QED BY <3>2, <4>1, <4>2, <4>3, <4>4, <2>4, <2>8 DEF MessageDue, FrameDue
    <3>3. CASE ev.kind = "answer"
      <4>1. ev \in Answers /\ AnswerOf(x, ev) /\ Mapped(x, owner[ev.asker])
        BY <3>1, <3>3 DEF MessageDue, Messages, Frames, Datagrams
      <4>2. ev.asker \in Sockets /\ ev.asker <= Len(owner)
        BY <4>1 DEF Answers, AnswerOf
      <4>3. AnswerOf(x, ev)'
        BY <4>1, <4>2, <2>4, <2>8, <2>12 DEF AnswerOf
      <4>4. Mapped(x, owner[ev.asker])'
        BY <4>1, <4>2, <2>4, <2>5, <2>8 DEF Mapped
      <4> QED BY <3>3, <4>3, <4>4 DEF MessageDue
    <3>4. CASE ev.kind = "datagram"
      BY <3>1, <3>4, <2>8 DEF MessageDue
    <3> QED BY <3>2, <3>3, <3>4 DEF MessageDue
  <2>21. Sent'
    BY <2>4, <2>8 DEF Ordered, Sent
  <2>22. CrashDue'
    BY <2>8 DEF CrashDue
  <2> QED BY <2>14, <2>15, <2>16, <2>17, <2>18, <2>19, <2>20, <2>21, <2>22 DEF Ordered
<1> QED BY <1>2, <1>3

\* getFreeFdEv, alone in the list, leaves those below the first.
LEMMA PopOrdered ==
  ASSUME Always, Always', Ordered, InOrder', getFreeFdEv
  PROVE  Ordered'
<1>1. PICK e \in FdEvs : e = held[io].ev
  BY DEF getFreeFdEv, Always, HeldTypes, Accepting
<1>2. /\ pc[io] = "pop" /\ pc' = [pc EXCEPT ![io] = "init"] /\ crashed' = "no"
      /\ fdchainfree = e /\ ~Destroying(e) /\ seen' = seen
      /\ fdchainfree' = fdev[e].fnext
      /\ fdev' = [fdev EXCEPT ![e].fd = 0, ![e].hgConn = None, ![e].isconnected = FALSE]
      /\ UNCHANGED <<net, gone, bucket, address, queue, held, clients, sendings>>
  BY <1>1 DEF getFreeFdEv, Goto, InOrder
<1>3. /\ UNCHANGED <<owner, socket, epoll, gone, conn, bucksmap, queue, held, requests, wire>>
      /\ pc'[io] = "init" /\ \A w \in Workers : pc'[w] = pc[w]
  BY <1>2, ThreadsApart DEF net, bucket, clients, sendings, Always, QueueTypes
<1>4. IsFree(e)
  BY <1>1, <1>2 DEF Ordered, Accepted
<1>5. fdev[e].hgConn = None
  BY <1>4 DEF IsFree, Ordered, Pointing
<1>6. \A x \in FdEvs : /\ fdev'[x].pool = fdev[x].pool /\ fdev'[x].fnext = fdev[x].fnext
                       /\ fdev'[x].hgConn = fdev[x].hgConn
                       /\ x # e => fdev'[x] = fdev[x]
  BY <1>2, <1>5 DEF Always, ConnTypeOK, FdEvFields
<1>7. \A x : Registered(x)' <=> Registered(x)
  BY <1>3 DEF Registered
<1>8. \A x : Pushing(x)' <=> Pushing(x)
  BY <1>3 DEF Pushing
<1>9. \A x : IsFree(x)' <=> IsFree(x) /\ x # e
  BY <1>1, <1>2, <1>3, <1>7, <1>8 DEF IsFree, SettingUp
<1>10. \A k : Closed(k)' <=> Closed(k)
  BY <1>3 DEF Closed
<1>11. SocketsKept'
  <2>1. \A g \in Fds : epoll[g] # None => epoll[g] # e /\ epoll[g] \in FdEvs
    BY <1>4 DEF IsFree, Registered, Always, ConnTypeOK
  <2>2. \A g \in Fds : epoll'[g] # None => /\ fdev'[epoll'[g]].fd = g /\ fdev'[epoll'[g]].isconnected
                                           /\ fdev'[epoll'[g]].pool = socket'[g]
    BY <1>3, <1>6, <2>1 DEF Ordered, SocketsKept
  <2>3. \A g \in Fds : Open(g)' <=> Open(g)
    BY <1>3 DEF Open
  <2>4. held[io].fd \in Fds
    BY <1>2 DEF Always, HeldTypes, Accepting
  <2>5. /\ \A g \in Fds : socket'[g] # None /\ epoll'[g] = None => held'[io].fd = g
        /\ socket'[held'[io].fd] # None /\ epoll'[held'[io].fd] = None
        /\ socket'[held'[io].fd] = held'[io].socket
    BY <1>2, <1>3 DEF Ordered, SocketsKept, Open
  <2> QED BY <2>2, <2>5, <1>3 DEF SocketsKept, Open
<1>12. Accepted'
  <2>1. \A w \in Workers : pc[w] \in {"push", "destroy"} => held[w] # e
    BY <1>2, <1>4 DEF Destroying, IsFree, Pushing
  <2>2. ~Registered(e)'
    BY <1>4, <1>7 DEF IsFree
  <2> QED BY <1>1, <1>3, <2>1, <2>2 DEF Accepted
<1>13. Chained'
  <2>1. PICK pos \in [FdEvs -> Nat] : Places(pos)
    BY DEF Ordered, Chained
  <2>2. \A x \in FdEvs : IsFree(x) /\ x # e => pos[x] < pos[e]
    <3> SUFFICES ASSUME NEW x \in FdEvs, IsFree(x), x # e PROVE pos[x] < pos[e]
      OBVIOUS
    <3>1. pos[x] <= pos[e] /\ pos[x] # pos[e]
      BY <1>2, <1>4, <2>1 DEF Places
    <3>2. pos[x] \in Nat /\ pos[e] \in Nat
      BY <2>1
    <3> QED BY <3>1, <3>2
  <2>3. PICK n : n = fdev[e].fnext
    OBVIOUS
  <2>4. n \in FdEvs \cup {None} /\ fdchainfree' = n
    BY <1>2, <2>3 DEF Always, ConnTypeOK, FdEvFields
  <2>5. n # None => IsFree(n) /\ n # e /\ pos[e] = pos[n] + 1
    <3> HAVE n # None
    <3>1. IsFree(n) /\ pos[e] = pos[n] + 1
      BY <1>4, <2>1, <2>3 DEF Places
    <3>2. pos[n] \in Nat /\ pos[e] \in Nat
      BY <2>1, <2>4
    <3> QED BY <3>1, <3>2
  <2>6. n = None => pos[e] = 0
    BY <1>4, <2>1, <2>3 DEF Places
  <2>7. \A x \in FdEvs : IsFree(x)' => n # None /\ pos[x] <= pos[n]
    <3> TAKE x \in FdEvs
    <3> HAVE IsFree(x)'
    <3>1. pos[x] < pos[e] /\ pos[x] \in Nat /\ pos[e] \in Nat
      BY <1>9, <2>1, <2>2
    <3>2. n # None
      BY <3>1, <2>6
    <3>3. pos[e] = pos[n] + 1 /\ pos[n] \in Nat
      BY <3>2, <2>1, <2>4, <2>5
    <3> QED BY <3>1, <3>2, <3>3
  <2>8. \A x, y \in FdEvs : IsFree(x)' /\ fdev[x].fnext = y => IsFree(y)' /\ pos[x] = pos[y] + 1
    <3> SUFFICES ASSUME NEW x \in FdEvs, NEW y \in FdEvs, IsFree(x)', fdev[x].fnext = y
                 PROVE  IsFree(y)' /\ pos[x] = pos[y] + 1
      OBVIOUS
    <3>1. IsFree(x) /\ x # e
      BY <1>9
    <3>2. IsFree(y) /\ pos[x] = pos[y] + 1
      BY <3>1, <2>1, ThreadsApart DEF Places
    <3>3. y # e
      <4>1. pos[x] < pos[e] /\ pos[x] \in Nat /\ pos[e] \in Nat
        BY <3>1, <2>1, <2>2
      <4> QED BY <3>2, <4>1
    <3> QED BY <3>2, <3>3, <1>9
  <2>9. Places(pos)'
    <3>1. \A x \in FdEvs : fdev'[x].fnext = fdev[x].fnext /\ fdev[x].fnext \in FdEvs \cup {None}
      BY <1>6 DEF Always, ConnTypeOK, FdEvFields
    <3>2. \A x \in FdEvs : IsFree(x)' => IF fdev'[x].fnext = None THEN pos[x] = 0
                                         ELSE IsFree(fdev[x].fnext)' /\ pos[x] = pos[fdev'[x].fnext] + 1
      <4> TAKE x \in FdEvs
      <4> HAVE IsFree(x)'
      <4>1. CASE fdev[x].fnext = None
        BY <4>1, <3>1, <1>9, <2>1 DEF Places
      <4>2. CASE fdev[x].fnext # None
        BY <4>2, <3>1, <2>8
      <4> QED BY <4>1, <4>2
    <3>3. \A d, x \in FdEvs : IsFree(d)' /\ IsFree(x)' /\ pos[d] = pos[x] => d = x
      BY <1>9, <2>1 DEF Places
    <3>4. fdchainfree' # None => IsFree(fdchainfree)'
      BY <1>9, <2>4, <2>5
    <3>5. \A x \in FdEvs : IsFree(x)' => fdchainfree' # None /\ pos[x] <= pos[fdchainfree']
      BY <2>4, <2>7
    <3> QED BY <3>1, <3>2, <3>3, <3>4, <3>5 DEF Places
  <2> QED BY <2>1, <2>9 DEF Chained
<1>14. Pointing'
  <2>1. \A c \in Conns : conn[c].tcpfd # None => conn[c].tcpfd \in FdEvs
    BY DEF Always, ConnTypeOK, ConnFields
  <2> QED BY <2>1, <1>3, <1>6, <1>7 DEF Ordered, Pointing
<1>15. Failing'
  <2>1. \A k \in gone : k <= Len(owner) /\ Closed(k)
    BY DEF Ordered, Failing
  <2>2. ASSUME NEW x \in Workers, pc[x] \in {"push", "destroy"}, NEW y \in FdEvs, y = held[x]
        PROVE  LET k == fdev[y].pool IN
               /\ k <= Len(owner) /\ getWorker(owner[k]) = x /\ Closed(k) /\ k \notin gone
               /\ ~Registered(y)
               /\ pc[x] = "destroy" => IsFree(y)'
    <3>1. pc[x] = "destroy" => y # e
      BY <2>2, <1>2 DEF Destroying
    <3> QED BY <2>2, <3>1, <1>9 DEF Ordered, Failing
  <2>3. \A x \in Workers : pc[x] \in {"push", "destroy"} => held[x] \in FdEvs
    BY DEF Always, HeldTypes
  <2> QED BY <2>1, <2>2, <2>3, <1>3, <1>6, <1>7, <1>10 DEF Failing
<1>16. ConnsMade'
  <2>1. PICK g \in [Conns -> Sockets] : Made(g)
    BY DEF Ordered, ConnsMade
  <2>2. \A c \in Conns : conn[c].tcpfd # None => conn[c].tcpfd \in FdEvs
    BY DEF Always, ConnTypeOK, ConnFields
  <2>3. Made(g)'
    BY <2>1, <2>2, <1>3, <1>6, <1>10 DEF Made
  <2> QED BY <2>1, <2>3 DEF ConnsMade
<1>17. QueuesDue'
  <2> SUFFICES ASSUME NEW x \in Workers, NEW ev \in Queued(x)' PROVE MessageDue(x, ev)'
    BY DEF QueuesDue
  <2>1. MessageDue(x, ev) /\ ev \in Messages
    BY <1>3, QueuedTypes DEF Always, Queued, Ordered, QueuesDue
  <2>2. ev.kind = "frame" => FrameDue(x, ev)'
    <3> HAVE ev.kind = "frame"
    <3>0. ev.ev \in FdEvs /\ FrameDue(x, ev)
      BY <2>1 DEF MessageDue, Messages, Frames, Answers, Datagrams
    <3>1. Alive(ev.ev, ev.pool)' <=> Alive(ev.ev, ev.pool)
      BY <1>3 DEF Alive
    <3>2. FailingOf(x, ev.ev, ev.pool)' <=> FailingOf(x, ev.ev, ev.pool)
      BY <3>0, <1>3, <1>6 DEF FailingOf
    <3> QED BY <3>0, <3>1, <3>2, <1>3 DEF FrameDue
  <2>3. ev.kind = "answer" => AnswerOf(x, ev)'
    <3> HAVE ev.kind = "answer"
    <3>0. ev.conn \in Conns /\ AnswerOf(x, ev)
      BY <2>1 DEF MessageDue, Messages, Frames, Answers, Datagrams
    <3>1. conn[ev.conn].tcpfd # None => conn[ev.conn].tcpfd \in FdEvs
      BY <3>0 DEF Always, ConnTypeOK, ConnFields
    <3> QED BY <3>0, <3>1, <1>3, <1>6, <1>10 DEF AnswerOf
  <2>4. ev.kind = "answer" => Mapped(x, owner[ev.asker])'
    BY <2>1, <1>3 DEF MessageDue, Mapped
  <2> QED BY <2>1, <2>2, <2>3, <2>4, <1>2, <1>3 DEF MessageDue
<1>18. Sent' /\ CrashDue'
  BY <1>2, <1>3 DEF Ordered, Sent, CrashDue
<1> QED BY <1>11, <1>12, <1>13, <1>14, <1>15, <1>16, <1>17, <1>18 DEF Ordered

\* InitEvent: nobody else has the event.
LEMMA InitOrdered ==
  ASSUME Always, Always', Ordered, InOrder', InitEvent
  PROVE  Ordered'
<1>1. PICK e \in FdEvs, f \in Fds, k \in Sockets :
        e = held[io].ev /\ f = held[io].fd /\ k = held[io].socket
  BY DEF InitEvent, Always, HeldTypes, Accepting
<1>2. pc[io] = "init" /\ Open(f) /\ epoll[f] = None /\ socket[f] = k
  BY <1>1 DEF InitEvent, Ordered, SocketsKept
<1>3. /\ pc' = [pc EXCEPT ![io] = "next"] /\ held' = [held EXCEPT ![io] = None] /\ crashed' = "no"
      /\ fdev' = [fdev EXCEPT ![e].fd = f, ![e].isconnected = TRUE, ![e].pool = k]
      /\ epoll' = [epoll EXCEPT ![f] = e]
      /\ UNCHANGED <<owner, socket, fdchainfree, gone, bucket, address, queue, clients, sendings, seen>>
  BY <1>1, <1>2 DEF InitEvent, Goto, Keeps
<1>4. /\ UNCHANGED <<owner, socket, fdchainfree, gone, conn, bucksmap, queue, requests, wire, seen>>
      /\ pc'[io] = "next" /\ \A w \in Workers : pc'[w] = pc[w] /\ held'[w] = held[w]
  BY <1>3, ThreadsApart DEF bucket, clients, sendings, Always, QueueTypes
<1>5. \A x \in FdEvs : /\ fdev'[x].hgConn = fdev[x].hgConn /\ fdev'[x].fnext = fdev[x].fnext
                       /\ x # e => fdev'[x] = fdev[x]
                       /\ x = e => fdev'[x].fd = f /\ fdev'[x].isconnected /\ fdev'[x].pool = k
  BY <1>3 DEF Always, ConnTypeOK, FdEvFields
<1>6. \A g \in Fds : epoll'[g] = IF g = f THEN e ELSE epoll[g]
  BY <1>3 DEF Always, ConnTypeOK
<1>7. /\ ~Registered(e) /\ fdev[e].hgConn = None
      /\ \A w \in Workers : pc[w] \in {"push", "destroy"} => held[w] # e
  BY <1>1, <1>2 DEF Ordered, Accepted, Pointing
<1>8. \A x \in FdEvs : Registered(x)' <=> Registered(x) \/ x = e
  BY <1>2, <1>6, ThreadsApart DEF Registered
<1>9. \A x : Pushing(x)' <=> Pushing(x)
  BY <1>4 DEF Pushing
<1>10. \A x \in FdEvs : IsFree(x)' <=> IsFree(x)
  BY <1>1, <1>2, <1>4, <1>8, <1>9 DEF IsFree, SettingUp
<1>11. \A j : Closed(j)' <=> Closed(j)
  BY <1>4 DEF Closed
<1>12. SocketsKept'
  <2>1. \A g \in Fds : epoll'[g] # None => /\ fdev'[epoll'[g]].fd = g /\ fdev'[epoll'[g]].isconnected
                                           /\ fdev'[epoll'[g]].pool = socket'[g]
    <3> TAKE g \in Fds
    <3> HAVE epoll'[g] # None
    <3>1. CASE g = f
      BY <3>1, <1>2, <1>4, <1>5, <1>6
    <3>2. CASE g # f
      <4>1. epoll'[g] = epoll[g] /\ epoll[g] \in FdEvs /\ epoll[g] # e
        BY <3>2, <1>6, <1>7 DEF Registered, Always, ConnTypeOK
      <4> QED BY <4>1, <1>4, <1>5 DEF Ordered, SocketsKept
    <3> QED BY <3>1, <3>2
  <2>2. \A g \in Fds : socket'[g] # None => epoll'[g] # None
    BY <1>1, <1>4, <1>6, ThreadsApart DEF Ordered, SocketsKept, Open
  <2> QED BY <2>1, <2>2, <1>4 DEF SocketsKept, Open
<1>13. Accepted'
  BY <1>4 DEF Accepted
<1>14. Chained'
  BY <1>4, <1>5, <1>10, ChainKept DEF Ordered, Always
<1>15. \A c \in Conns : conn[c].tcpfd # None => conn[c].tcpfd \in FdEvs /\ conn[c].tcpfd # e
  <2> TAKE c \in Conns
  <2> HAVE conn[c].tcpfd # None
  <2>1. conn[c].tcpfd \in FdEvs /\ fdev[conn[c].tcpfd].hgConn = c
    BY DEF Ordered, Pointing, Always, ConnTypeOK, ConnFields
  <2> QED BY <2>1, <1>7, ThreadsApart
<1>16. Pointing'
  <2>1. ASSUME NEW x \in FdEvs, fdev'[x].hgConn # None
        PROVE  /\ Registered(x)' /\ conn'[fdev'[x].hgConn].tcpfd = x
               /\ conn'[fdev'[x].hgConn].ssrc = owner'[fdev'[x].pool]
    <3>1. fdev[x].hgConn # None /\ x # e /\ fdev'[x] = fdev[x]
      BY <2>1, <1>5, <1>7
    <3> QED BY <3>1, <1>4, <1>8 DEF Ordered, Pointing
  <2>2. \A c \in Conns : conn'[c].tcpfd # None => fdev'[conn'[c].tcpfd].hgConn = c
    BY <1>4, <1>5, <1>15 DEF Ordered, Pointing
  <2> QED BY <2>1, <2>2 DEF Pointing
<1>17. Failing'
  <2>1. \A j \in gone' : j <= Len(owner') /\ Closed(j)'
    BY <1>4, <1>11 DEF Ordered, Failing
  <2>2. ASSUME NEW x \in Workers, pc'[x] \in {"push", "destroy"}, NEW y \in FdEvs, y = held'[x],
               NEW j \in Sockets, j = fdev'[y].pool
        PROVE  /\ j <= Len(owner') /\ getWorker(owner'[j]) = x /\ Closed(j)' /\ j \notin gone'
               /\ ~Registered(y)'
               /\ pc'[x] = "destroy" => IsFree(y)'
    <3>1. pc[x] = pc'[x] /\ held[x] = y /\ y # e
      BY <2>2, <1>4, <1>7
    <3>2. fdev[y].pool = j
      BY <2>2, <3>1, <1>5
    <3>3. /\ j <= Len(owner) /\ getWorker(owner[j]) = x /\ Closed(j) /\ j \notin gone
          /\ ~Registered(y) /\ (pc[x] = "destroy" => IsFree(y))
      BY <2>2, <3>1, <3>2 DEF Ordered, Failing
    <3> QED BY <3>1, <3>3, <1>4, <1>8, <1>10, <1>11
  <2>3. \A x \in Workers : pc'[x] \in {"push", "destroy"} =>
          held'[x] \in FdEvs /\ fdev'[held'[x]].pool \in Sockets
    BY DEF Always, HeldTypes
  <2> QED BY <2>1, <2>2, <2>3 DEF Failing
<1>18. ConnsMade'
  <2>1. PICK g \in [Conns -> Sockets] : Made(g)
    BY DEF Ordered, ConnsMade
  <2>2. Made(g)'
    BY <2>1, <1>4, <1>5, <1>11, <1>15 DEF Made
  <2> QED BY <2>1, <2>2 DEF ConnsMade
<1>19. QueuesDue'
  <2> SUFFICES ASSUME NEW x \in Workers, NEW ev \in Queued(x)' PROVE MessageDue(x, ev)'
    BY DEF QueuesDue
  <2>1. MessageDue(x, ev) /\ ev \in Messages
    BY <1>4, QueuedTypes DEF Always, Queued, Ordered, QueuesDue
  <2>2. ev.kind = "frame" => FrameDue(x, ev)'
    <3> HAVE ev.kind = "frame"
    <3>0. ev.ev \in FdEvs /\ FrameDue(x, ev)
      BY <2>1 DEF MessageDue, Messages, Frames, Answers, Datagrams
    <3>1. Alive(ev.ev, ev.pool) => Alive(ev.ev, ev.pool)'
      BY <3>0, <1>2, <1>4, <1>6, ThreadsApart DEF Alive
    <3>2. FailingOf(x, ev.ev, ev.pool) => FailingOf(x, ev.ev, ev.pool)'
      BY <3>0, <1>4, <1>5, <1>7 DEF FailingOf
    <3> QED BY <3>0, <3>1, <3>2, <1>4 DEF FrameDue
  <2>3. ev.kind = "answer" => AnswerOf(x, ev)'
    <3> HAVE ev.kind = "answer"
    <3>0. ev.conn \in Conns /\ AnswerOf(x, ev)
      BY <2>1 DEF MessageDue, Messages, Frames, Answers, Datagrams
    <3> QED BY <3>0, <1>4, <1>5, <1>11, <1>15 DEF AnswerOf
  <2>4. ev.kind = "answer" => Mapped(x, owner[ev.asker])'
    BY <2>1, <1>4 DEF MessageDue, Mapped
  <2> QED BY <2>1, <2>2, <2>3, <2>4, <1>4 DEF MessageDue
<1>20. Sent' /\ CrashDue'
  BY <1>3, <1>4 DEF Ordered, Sent, CrashDue
<1> QED BY <1>12, <1>13, <1>14, <1>16, <1>17, <1>18, <1>19, <1>20 DEF Ordered


-----------------------------------------------------------------------------
(* Connections: the theorems                                               *)

\* fdEvChainInit: event e is FdNum - e places from the end of the list.
LEMMA OrderedInit == ConnInit => Ordered
<1> SUFFICES ASSUME ConnInit PROVE Ordered
  OBVIOUS
<1>1. FdNum \in Nat \ {0} /\ hgConnNum \in Nat \ {0} /\ MaxSockets \in Nat \ {0}
  BY ConnectionsAssumption
<1>2. /\ gone = {} /\ crashed = "no" /\ owner = <<>> /\ fdchainfree = 1
      /\ \A f \in Fds : epoll[f] = None /\ socket[f] = None
      /\ \A t \in Threads : pc[t] = "next"
      /\ \A k \in Sockets : wire[k] = <<>>
  BY DEF ConnInit
<1>3. \A c \in Conns : conn[c].ssrc = 0 /\ conn[c].tcpfd = None
  BY DEF ConnInit, NoConn
<1>4. \A e \in FdEvs : /\ fdev[e].fnext = IF e < FdNum THEN e + 1 ELSE None
                       /\ fdev[e].hgConn = None
  BY DEF ConnInit, NoFdEv
<1>5. \A w \in Workers : Queued(w) = {} /\ pc[w] = "next"
  <2> TAKE w \in Workers
  <2>1. queue[w] = <<>>
    BY DEF ConnInit
  <2> QED BY <1>2, <2>1, ThreadsApart DEF Queued
<1>6. \A e \in FdEvs : IsFree(e)
  <2>1. pc[io] = "next"
    BY <1>2, ThreadsApart
  <2> QED BY <1>2, <1>5, <2>1, ThreadsApart DEF IsFree, Registered, Pushing, SettingUp
<1>7. SocketsKept /\ Accepted
  BY <1>2, ThreadsApart DEF SocketsKept, Accepted, Open
<1>8. Chained
  <2> DEFINE pos == [e \in FdEvs |-> FdNum - e]
  <2>1. pos \in [FdEvs -> Nat] /\ \A e \in FdEvs : pos[e] = FdNum - e
    BY <1>1 DEF FdEvs
  <2> HIDE DEF pos
  <2>2. /\ \A e \in FdEvs : fdchainfree # None /\ pos[e] <= pos[fdchainfree]
        /\ IsFree(fdchainfree)
    BY <1>1, <1>2, <1>6, <2>1, ThreadsApart DEF FdEvs
  <2>3. \A d, e \in FdEvs : pos[d] = pos[e] => d = e
    BY <1>1, <2>1 DEF FdEvs
  <2>4. \A e \in FdEvs : IF fdev[e].fnext = None THEN pos[e] = 0
                         ELSE IsFree(fdev[e].fnext) /\ pos[e] = pos[fdev[e].fnext] + 1
    <3> TAKE e \in FdEvs
    <3>1. CASE e < FdNum
      <4>1. e + 1 \in FdEvs /\ e + 1 # None /\ FdNum - e = FdNum - (e + 1) + 1
        BY <3>1, <1>1, ThreadsApart DEF FdEvs
      <4> QED BY <3>1, <4>1, <1>4, <1>6, <2>1
    <3>2. CASE ~(e < FdNum)
      <4>1. FdNum - e = 0
        BY <3>2, <1>1 DEF FdEvs
      <4> QED BY <3>2, <4>1, <1>4, <2>1
    <3> QED BY <3>1, <3>2
  <2>5. Places(pos)
    BY <1>6, <2>2, <2>3, <2>4 DEF Places
  <2> QED BY <2>1, <2>5 DEF Chained
<1>9. Pointing
  BY <1>3, <1>4 DEF Pointing
<1>10. Failing
  BY <1>2, <1>5 DEF Failing
<1>11. QueuesDue
  BY <1>5 DEF QueuesDue
<1>12. Sent
  <2>1. \A k \in Sockets : wire[k] = <<>> /\ Len(wire[k]) = 0
    BY <1>2
  <2> QED BY <2>1 DEF Sent
<1>13. ConnsMade
  <2>1. [c \in Conns |-> 1] \in [Conns -> Sockets]
    BY <1>1 DEF Sockets
  <2>2. Made([c \in Conns |-> 1])
    BY <1>3 DEF Made
  <2> QED BY <2>1, <2>2 DEF ConnsMade
<1>14. CrashDue
  BY <1>2 DEF CrashDue
<1> QED BY <1>7, <1>8, <1>9, <1>10, <1>11, <1>12, <1>13, <1>14 DEF Ordered

\* What has gone out of step stays so.
LEMMA SeenKept ==
  ASSUME [ConnNext]_connVars
  PROVE  seen \subseteq seen'
<1>1. ASSUME NEW ssrc \in Clients, tcpAccept(ssrc) \/ udpRecvmsg(ssrc) PROVE seen \subseteq seen'
  BY <1>1 DEF tcpAccept, udpRecvmsg
<1>2. CASE getFreeFdEv \/ InitEvent
  BY <1>2 DEF getFreeFdEv, InitEvent
<1>3. ASSUME NEW f \in Fds, tcpRecvmsg(f) PROVE seen \subseteq seen'
  BY <1>3 DEF tcpRecvmsg
<1>4. ASSUME NEW w \in Workers, Handle(w) PROVE seen \subseteq seen'
  <2>1. ASSUME NEW outcome \in Outcomes, sendDataQueue(w, outcome) PROVE seen \subseteq seen'
    BY <2>1 DEF sendDataQueue
  <2>2. CASE threadPOOLRecv(w) \/ Accept(w) \/ setFreeFdEv(w) \/ memoryDestroy(w)
    BY <2>2 DEF threadPOOLRecv, Accept, setFreeFdEv, memoryDestroy
  <2>3. CASE hgConnGetConnInBuck(w) \/ ConnFound(w) \/ hgConnAttachAddr(w)
    BY <2>3 DEF hgConnGetConnInBuck, ConnFound, hgConnAttachAddr
  <2> QED BY <1>4, <2>1, <2>2, <2>3 DEF Handle
<1>5. CASE UNCHANGED connVars
  BY <1>5 DEF connVars
<1> QED BY <1>1, <1>2, <1>3, <1>4, <1>5 DEF ConnNext

\* Every step after which nothing is out of step.
LEMMA OrderedNext ==
  ASSUME Always, Always', Ordered, InOrder', [ConnNext]_connVars
  PROVE  Ordered'
<1>1. ASSUME NEW ssrc \in Clients, tcpAccept(ssrc) \/ udpRecvmsg(ssrc) PROVE Ordered'
  BY <1>1, AcceptOrdered, DatagramOrdered
<1>2. CASE getFreeFdEv \/ InitEvent
  BY <1>2, PopOrdered, InitOrdered
<1>3. ASSUME NEW f \in Fds, tcpRecvmsg(f) PROVE Ordered'
  BY <1>3, FrameOrdered
<1>4. ASSUME NEW w \in Workers, Handle(w) PROVE Ordered'
  <2>1. ASSUME NEW outcome \in Outcomes, sendDataQueue(w, outcome) PROVE Ordered'
    BY <2>1, SendOrdered
  <2> QED BY <1>4, <2>1, LoginOrdered, InsertOrdered, PushOrdered, DestroyOrdered, BeginOrdered,
             FoundOrdered, AttachOrdered DEF Handle
<1>5. CASE UNCHANGED connVars
  <2>1. UNCHANGED <<net, events, bucket, queue, pc, held, crashed, clients, sendings, seen>>
    BY <1>5 DEF connVars
  <2>2. Quiet
    BY <2>1 DEF Quiet, net, events, bucket, clients
  <2>3. \A w \in Workers : \A ssrc \in Clients : Mapped(w, ssrc) => Mapped(w, ssrc)'
    BY <2>1 DEF Mapped, bucket
  <2>4. Sent'
    BY <2>1 DEF Ordered, Sent, net, bucket, sendings
  <2>5. CrashDue'
    BY <2>1 DEF Ordered, CrashDue, OpenFds, Open, Returning, Event, Closed, net, clients
  <2> QED BY <2>1, <2>2, <2>3, <2>4, <2>5, QuietOrdered DEF Queued, bucket
<1> QED BY <1>1, <1>2, <1>3, <1>4, <1>5 DEF ConnNext

\* The inductive invariant holds, for any clients, workers, fd events, connections
\* and bounds.
THEOREM ConnInvariant == ConnSpec => []ConnIInv
<1>1. ConnInit => ConnIInv
  BY AlwaysInit, OrderedInit DEF ConnIInv
<1>2. ConnIInv /\ [ConnNext]_connVars => ConnIInv'
  <2> SUFFICES ASSUME ConnIInv, [ConnNext]_connVars PROVE ConnIInv'
    OBVIOUS
  <2>1. Always /\ Always'
    BY AlwaysNext DEF ConnIInv
  <2>2. InOrder' => InOrder
    BY SeenKept DEF InOrder
  <2> QED BY <2>1, <2>2, OrderedNext DEF ConnIInv
<1> QED BY <1>1, <1>2, PTL DEF ConnSpec

\* AnswersToAsker: as long as no frame is handled after its memory was destroyed
\* and the list of fd events is not torn, an answer is sent to him who asked, on
\* the socket by which he asked, however sockets fail and their numbers, events
\* and connections are used again.
THEOREM ConnAnswersToAsker == ConnSpec => []AnswersToAsker
<1>1. ConnIInv => AnswersToAsker
  BY DEF ConnIInv, AnswersToAsker, Ordered, Sent
<1> QED BY <1>1, ConnInvariant, PTL

\* CrashOnlyIfDue: the program crashes for no other reason than those it names.
THEOREM ConnCrashOnlyIfDue == ConnSpec => []CrashOnlyIfDue
<1>1. ConnIInv => CrashOnlyIfDue
  BY DEF ConnIInv, CrashOnlyIfDue, CrashDue, Ordered
<1> QED BY <1>1, ConnInvariant, PTL

\* The links lead from the first free event to free events only.
LEMMA FreeFdEvsFree ==
  ASSUME ConnTypeOK, Chained
  PROVE  \A e \in FreeFdEvs : e \in FdEvs /\ IsFree(e)
<1> DEFINE Is(g, m) == g = [n \in 0..m |->
                              IF n = 0 THEN {fdchainfree} \ {None}
                              ELSE g[n-1] \cup ({fdev[e].fnext : e \in g[n-1]} \ {None})]
           More(R) == R \cup ({fdev[e].fnext : e \in R} \ {None})
           S == {m \in Nat : \E g : Is(g, m)}
<1>1. 0 \in S
  <2>1. Is([n \in 0..0 |-> {fdchainfree} \ {None}], 0)
    OBVIOUS
  <2> QED BY <2>1
<1>2. ASSUME NEW m \in S PROVE m + 1 \in S
  <2>1. PICK g : Is(g, m)
    OBVIOUS
  <2> DEFINE h == [n \in 0..m+1 |-> IF n = m + 1 THEN More(g[m]) ELSE g[n]]
  <2>2. ASSUME NEW n \in 0..m+1
        PROVE  h[n] = IF n = 0 THEN {fdchainfree} \ {None} ELSE More(h[n-1])
    <3>1. CASE n = m + 1
      <4>1. h[n-1] = g[m] /\ n # 0
        BY <3>1
      <4> QED BY <3>1, <4>1
    <3>2. CASE n # m + 1
      <4>1. n \in 0..m /\ h[n] = g[n] /\ (n # 0 => h[n-1] = g[n-1])
        BY <3>2
      <4> HIDE DEF h
      <4> QED BY <2>1, <4>1
    <3> QED BY <3>1, <3>2
  <2>3. Is(h, m + 1)
    <3>1. h = [n \in 0..m+1 |-> h[n]]
      OBVIOUS
    <3> HIDE DEF h
    <3> QED BY <2>2, <3>1
  <2> HIDE DEF Is, h
  <2> QED BY <2>3
<1>3. S = Nat
  <2>1. S \in SUBSET Nat
    OBVIOUS
  <2> HIDE DEF S
  <2> QED BY <1>1, <1>2, <2>1, AllNumbers
<1>4. \E g : Is(g, FdNum)
  <2>1. FdNum \in S
    BY <1>3, ConnectionsAssumption
  <2> HIDE DEF Is
  <2> QED BY <2>1
<1> DEFINE r == CHOOSE g : Is(g, FdNum)
<1>5. Is(r, FdNum)
  BY <1>4, Zenon
<1>6. FreeFdEvs = r[FdNum]
  BY Zenon DEF FreeFdEvs
<1> HIDE DEF r
<1>7. r[0] = {fdchainfree} \ {None} /\ \A n \in 1..FdNum : r[n] = More(r[n-1])
  <2>1. FdNum \in Nat
    BY ConnectionsAssumption
  <2> QED BY <1>5, <2>1
<1> HIDE DEF Is
<1>8. \A R : (\A e \in R : e \in FdEvs /\ IsFree(e)) => \A e \in More(R) : e \in FdEvs /\ IsFree(e)
  <2>1. \A e \in FdEvs : IsFree(e) /\ fdev[e].fnext # None => fdev[e].fnext \in FdEvs /\ IsFree(fdev[e].fnext)
    BY DEF Chained, Places, ConnTypeOK, FdEvFields
  <2> QED BY <2>1
<1> HIDE DEF More, S
<1> DEFINE T == {m \in Nat : m <= FdNum => \A e \in r[m] : e \in FdEvs /\ IsFree(e)}
<1>9. 0 \in T
  BY <1>7 DEF Chained, Places, ConnTypeOK
<1>10. ASSUME NEW m \in T PROVE m + 1 \in T
  <2>1. m + 1 <= FdNum => m <= FdNum /\ m + 1 \in 1..FdNum /\ r[m+1] = More(r[m])
    <3>1. m + 1 <= FdNum => m + 1 \in 1..FdNum /\ m <= FdNum /\ (m + 1) - 1 = m
      BY ConnectionsAssumption
    <3> QED BY <1>7, <3>1
  <2> QED BY <2>1, <1>8
<1>11. T = Nat
  <2>1. T \in SUBSET Nat
    OBVIOUS
  <2> HIDE DEF T
  <2> QED BY <1>9, <1>10, <2>1, AllNumbers
<1> QED BY <1>6, <1>11, ConnectionsAssumption

\* EventsApart: two sockets never share a fd event, none of an open socket is in
\* the free list, and an event and its connection point to each other.
THEOREM ConnEventsApart == ConnSpec => []EventsApart
<1>1. ConnIInv => EventsApart
  <2> SUFFICES ASSUME ConnIInv PROVE EventsApart
    OBVIOUS
  <2>1. \A c \in Conns : c \in ToSet(hgConnFreePtr) <=> conn[c].ssrc = 0
    BY DEF ConnIInv, Always, FreeConns, ToSet
  <2>2. ConnTypeOK /\ \A ssrc \in Clients : bucksmap[ssrc] # None => conn[bucksmap[ssrc]].ssrc = ssrc
    BY DEF ConnIInv, Always, FreeConns
  <2>3. ASSUME InOrder
        PROVE  /\ \A f, g \in OpenFds : f # g /\ epoll[f] # None => epoll[f] # epoll[g]
               /\ \A f \in OpenFds : epoll[f] # None => epoll[f] \notin FreeFdEvs
               /\ \A c \in Conns : conn[c].tcpfd # None => fdev[conn[c].tcpfd].hgConn = c
               /\ \A e \in FdEvs : fdev[e].hgConn # None => conn[fdev[e].hgConn].tcpfd = e
    <3>1. ConnTypeOK /\ SocketsKept /\ Chained /\ Pointing
      BY <2>3 DEF ConnIInv, Always, Ordered
    <3>2. \A f, g \in OpenFds : f # g /\ epoll[f] # None => epoll[f] # epoll[g]
      BY <3>1 DEF SocketsKept, OpenFds
    <3>3. \A f \in OpenFds : epoll[f] # None => epoll[f] \notin FreeFdEvs
      BY <3>1, FreeFdEvsFree DEF IsFree, Registered, OpenFds
    <3> QED BY <3>1, <3>2, <3>3 DEF Pointing
  <2> QED BY <2>1, <2>2, <2>3 DEF EventsApart
<1> QED BY <1>1, ConnInvariant, PTL
=============================================================================
