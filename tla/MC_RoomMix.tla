----------------------------- MODULE MC_RoomMix ------------------------------
EXTENDS RoomMix, TLC

CONSTANTS u1, u2

MCUsers == {u1, u2}
\* One user counts from 1, the other joins with a higher time stamp.
MCFirstPts == (u1 :> 1) @@ (u2 :> 2)

\* One of them enters twice, and sends more.
MCMaxFrames == (u1 :> 3) @@ (u2 :> 2)
MCMaxEnters == (u1 :> 2) @@ (u2 :> 1)
=============================================================================
