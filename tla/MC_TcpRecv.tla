----------------------------- MODULE MC_TcpRecv ------------------------------
EXTENDS TcpRecv

\* A frame longer than the ring, a shortest one, one more, and one too long.
MCBody  == <<2, 7, 1, 3, 9>>
\* For the violated run.
MCFrame == <<3>>
=============================================================================
