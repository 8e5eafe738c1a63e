---------------------------- MODULE MC_RecvStream ----------------------------
EXTENDS RecvStream

\* Frames of three, one, four (longer than MaxFrame) and two packets, in turn.
MCPattern == <<Begin, Middle, End, Alone, Begin, Middle, Middle, End, Begin, End>>
MCTailOf == [n \in Packets |-> MCPattern[((n - FirstPkt) % 10) + 1]]
=============================================================================
