---------------------------- MODULE MC_Retransmit -----------------------------
EXTENDS Retransmit

\* A frame of three packets between two frames of one.
MCContent == <<<<1>>, <<2, 3, 4>>, <<5>>>>
=============================================================================
