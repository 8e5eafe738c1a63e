---------------------------- MODULE MC_SendStream ----------------------------
EXTENDS SendStream

\* Frames of one packet and of several, of one node and of more, nodes that
\* are and are not a multiple of the two bytes of a packet, and a frame of
\* more packets than the cache has slots.
MCChains == {<<2>>, <<3>>, <<1, 3>>, <<2, 1, 2>>, <<9>>}
=============================================================================
