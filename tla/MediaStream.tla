----------------------------- MODULE MediaStream ------------------------------
(***************************************************************************)
(* What a stream promises over a network that loses, repeats and reorders  *)
(* packets: frames come out in the order in which they were sent, none     *)
(* twice.  A frame may be left out, or come without its first packets, but *)
(* never without its last or with a hole, and never mixed with another.    *)
(* The promise ends when a packet is stranded in the receiver's cache.     *)
(***************************************************************************)
EXTENDS Sequences, Naturals

CONSTANT Content      \* the frames to be sent, each the sequence of its packets

VARIABLES
  sent,               \* the frames sent so far
  out,                \* the frames that came out
  last,               \* the number of the last of them, 0 if none
  broken              \* a packet was stranded

Init == sent = 0 /\ out = <<>> /\ last = 0 /\ broken = FALSE

Send ==
  /\ sent < Len(Content) /\ sent' = sent + 1
  /\ UNCHANGED <<out, last, broken>>

Deliver ==
  \E f \in last + 1..sent : \E i \in 1..Len(Content[f]) :
    /\ out' = Append(out, SubSeq(Content[f], i, Len(Content[f])))
    /\ last' = f
    /\ UNCHANGED <<sent, broken>>

Break == broken' = TRUE /\ UNCHANGED <<sent, out, last>>

Next == broken \/ Send \/ Deliver \/ Break

Spec == Init /\ [][Next]_<<sent, out, last, broken>>
=============================================================================
