----------------------------- MODULE MC_Channel ------------------------------
(***************************************************************************)
(* Two foreign writers and the consumer itself, two kinds of event, a head *)
(* of two bytes and a ring of five: the ring holds one long event and a    *)
(* piece of the next, so that splits, wraps and put-back heads all occur;  *)
(* nodes of three bytes, of which an event takes one, two or a part.       *)
(***************************************************************************)
EXTENDS ChannelNodes, TLC

CONSTANTS w1, w2, ev1, ev2

MCWriters == {w1, w2}
MCEvents  == {ev1, ev2}
MCPsize   == (ev1 :> 1) @@ (ev2 :> 3)
=============================================================================
