---------------------------- MODULE MC_Connections ----------------------------
EXTENDS Connections

\* A body of one node, longer than the head.
MCBodyLens == <<3>>

\* The first socket asks twice.
MCMaxRequests == [k \in Sockets |-> IF k = 1 THEN 2 ELSE 1]
MCMaxDatagrams == [s \in Clients |-> 1]
=============================================================================
