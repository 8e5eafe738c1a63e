------------------------------- MODULE RingBuf -------------------------------
(***************************************************************************)
(* The circular byte buffer of common/hg_buf.cpp: t_chainNodeData used as  *)
(* a ring, with Hg_Buf_WriteN and Hg_Buf_ReadN.  A ring is a record        *)
(*   [data |-> function on 0..cap-1, start, end, len, cap]                 *)
(* and the operators return the new ring with what the C function returns. *)
(* `end' is the next cell written, `start' the next cell read; a full and  *)
(* an empty ring both have start = end and only `len' tells them apart.    *)
(***************************************************************************)
EXTENDS Integers, Sequences

\* The ring a constructor leaves behind: every cell still holds `fill'.
NewRing(cap, fill) ==
  [data |-> [j \in 0..cap-1 |-> fill], start |-> 0, end |-> 0, len |-> 0, cap |-> cap]

Ring(Byte, cap) ==
  [data : [0..cap-1 -> Byte], start : 0..cap-1, end : 0..cap-1, len : 0..cap, cap : {cap}]

\* An index moved past the last cell is brought back, once.
Wrap(i, cap) == IF i >= cap THEN i - cap ELSE i

\* memcpy(data + at, src + from, k)
Memcpy(data, at, src, from, k) ==
  [j \in DOMAIN data |-> IF at <= j /\ j < at + k THEN src[from + j - at + 1] ELSE data[j]]

\* The i-th unread byte, 1 <= i <= len.
Unread(r, i) == r.data[Wrap(r.start + i - 1, r.cap)]

\* start, end and len agree: nothing but the arithmetic of the two operations
\* keeps them so.
Shape(r) == r.end = Wrap(r.start + r.len, r.cap)

(***************************************************************************)
(* Hg_Buf_WriteN(src, dist, n): copies as much of src as fits.             *)
(***************************************************************************)
Copied(dist, total, data, end) ==
  [total |-> total,
   ring  |-> [data |-> data, start |-> dist.start, end |-> end,
              len |-> dist.len + total, cap |-> dist.cap]]

\* Mutant of Hg_Buf_WriteN: the part left of start is not bounded by it.
WriteNOverwrites(dist, src) ==
  LET n     == Len(src)
      right == IF n < dist.cap - dist.end THEN n ELSE dist.cap - dist.end
  IN  IF dist.len = dist.cap THEN [total |-> 0, ring |-> dist]
      ELSE Copied(dist, n,
             Memcpy(Memcpy(dist.data, dist.end, src, 0, right), 0, src, right, n - right),
             IF n > right THEN n - right ELSE Wrap(dist.end + n, dist.cap))

Hg_Buf_WriteN(dist, src) ==
  LET n     == Len(src)
      right == dist.cap - dist.end                 \* cells right of end
      left  == IF dist.start >= n - right THEN n - right ELSE dist.start
      gap   == IF dist.start - dist.end > n THEN n ELSE dist.start - dist.end
  IN  IF dist.len = dist.cap THEN [total |-> 0, ring |-> dist]
      ELSE IF dist.start > dist.end THEN
        Copied(dist, gap, Memcpy(dist.data, dist.end, src, 0, gap),
               Wrap(dist.end + gap, dist.cap))
      ELSE IF right >= n THEN
        Copied(dist, n, Memcpy(dist.data, dist.end, src, 0, n),
               Wrap(dist.end + n, dist.cap))
      ELSE
        Copied(dist, right + left,
               Memcpy(Memcpy(dist.data, dist.end, src, 0, right), 0, src, right, left),
               left)

(***************************************************************************)
(* Hg_Buf_ReadN(dist, src, n, skip) with skip = n, as every caller on the  *)
(* event path passes it.  CanRead is the test behind its -1.               *)
(***************************************************************************)
CanRead(src, n) == src.len >= n /\ src.len # 0

ReadBytes(src, n) == [i \in 1..n |-> Unread(src, i)]

AfterRead(src, n) ==
  [data |-> src.data, start |-> Wrap(src.start + n, src.cap), end |-> src.end,
   len |-> src.len - n, cap |-> src.cap]

\* Mutant of PushBack: the length is restored, the read position is not.
PushBackLenOnly(r, n) ==
  [data |-> r.data, start |-> r.start, end |-> r.end, len |-> r.len + n, cap |-> r.cap]

\* Puts the last n bytes read back in front (the end of Handlemsg).
PushBack(r, n) ==
  [data  |-> r.data,
   start |-> IF r.start >= n THEN r.start - n ELSE Wrap(r.cap - (n - r.start), r.cap),
   end   |-> r.end, len |-> r.len + n, cap |-> r.cap]
=============================================================================
