----------------------------- MODULE PoolLinks ------------------------------
(***************************************************************************)
(* The links of the pool's two lists (common/hg_pool.c): every node has a  *)
(* left and a right neighbour, every list its two ends and its size.  The  *)
(* operations of Pool work on the sequences; here each also works on the   *)
(* links, from the links alone, and LinksAgree says that the links go on   *)
(* representing the sequences.                                             *)
(***************************************************************************)
EXTENDS Pool

CONSTANT Null

ASSUME LinksAssumption == Null \notin Node

VARIABLE links   \* l, r per node; left, right, size per list

linkVars == <<vars, links>>

Lists == {"pool", "free"}

LinksInit ==
  /\ Init
  /\ links = [l |-> [n \in Node |-> Null], r |-> [n \in Node |-> Null],
              left |-> [q \in Lists |-> Null], right |-> [q \in Lists |-> Null],
              size |-> [q \in Lists |-> 0]]

\* f with x changed, if there is an x.
Set(f, x, v) == IF x = Null THEN f ELSE [f EXCEPT ![x] = v]

memoryRightPush(k, q, n) ==
  LET old == k.right[q]
  IN  [k EXCEPT !.l = [@ EXCEPT ![n] = old],
                !.r = Set([@ EXCEPT ![n] = Null], old, n),
                !.right[q] = n,
                !.size[q] = @ + 1,
                !.left[q] = IF k.size[q] = 0 THEN n ELSE @]

\* Mutant of memoryLeftPopNode: the right end is forgotten.
LeftPopKeepsRight(k, q) ==
  LET n == k.left[q]
      next == k.r[n]
  IN  [k EXCEPT !.left[q] = next,
                !.l = Set([@ EXCEPT ![n] = Null], next, Null),
                !.r = [@ EXCEPT ![n] = Null],
                !.size[q] = @ - 1]

memoryLeftPopNode(k, q) ==
  LET n == k.left[q]
      next == k.r[n]
  IN  [k EXCEPT !.left[q] = next,
                !.l = Set([@ EXCEPT ![n] = Null], next, Null),
                !.r = [@ EXCEPT ![n] = Null],
                !.size[q] = @ - 1,
                !.right[q] = IF k.size[q] = 1 THEN Null ELSE @]

\* A node taken out between its neighbours in the pool's list.
Unlink(k, n) ==
  LET ln == k.l[n]
      rn == k.r[n]
  IN  [k EXCEPT !.size["pool"] = @ - 1,
                !.r = [Set(@, ln, rn) EXCEPT ![n] = Null],
                !.l = [Set(@, rn, ln) EXCEPT ![n] = Null],
                !.left["pool"]  = IF ln = Null THEN rn ELSE @,
                !.right["pool"] = IF rn = Null THEN ln ELSE @]

\* Out of the middle of the pool's list and to the end of the free one.
memoryMidlePop(k, n) == memoryRightPush(Unlink(k, n), "free", n)

\* The last node and what it has left are read from the links.
LinkFits(size) ==
  links.right["pool"] # Null /\ tLen - roffset[links.right["pool"]] >= Reals(size)

LinkAlloc(size) ==
  /\ memoryAlloc(size)
  /\ links' =
       IF LinkFits(size) THEN links
       ELSE IF links.left["free"] # Null
       THEN memoryRightPush(memoryLeftPopNode(links, "free"), "pool", links.left["free"])
       ELSE memoryRightPush(links, "pool", CHOOSE n \in made' : n \notin made)

LinkFree(b) ==
  /\ memoryFree(b)
  /\ links' = IF Rest(b) = 0 THEN memoryMidlePop(links, b.node) ELSE links

LinkNext ==
  \/ \E size \in Sizes : LinkAlloc(size)
  \/ \E b \in live : LinkFree(b)

LinkSpec == LinksInit /\ [][LinkNext]_linkVars

-----------------------------------------------------------------------------
Represents(k, q, seq) ==
  /\ k.size[q] = Len(seq)
  /\ k.left[q] = IF seq = <<>> THEN Null ELSE seq[1]
  /\ k.right[q] = IF seq = <<>> THEN Null ELSE seq[Len(seq)]
  /\ \A i \in 1..Len(seq) :
       /\ k.l[seq[i]] = IF i = 1 THEN Null ELSE seq[i-1]
       /\ k.r[seq[i]] = IF i = Len(seq) THEN Null ELSE seq[i+1]

\* Read from either end the links give the nodes of the two lists in their order,
\* however nodes move between the lists' middles and ends.
LinksAgree == Represents(links, "pool", nodes) /\ Represents(links, "free", free)
=============================================================================
