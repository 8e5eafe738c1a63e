---------------------------- MODULE MC_Sessions ------------------------------
EXTENDS Sessions

\* One moves about between rooms while the other comes.
MCMaxRequests == [c \in Conns |-> IF c = 1 THEN 5 ELSE 1]
=============================================================================
