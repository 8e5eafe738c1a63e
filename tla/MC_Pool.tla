------------------------------- MODULE MC_Pool -------------------------------
EXTENDS PoolLinks, TLC

CONSTANTS n1, n2, n3, n4

MCNode == {n1, n2, n3, n4}
MCSymmetry == Permutations(MCNode)
=============================================================================
