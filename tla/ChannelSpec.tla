----------------------------- MODULE ChannelSpec -----------------------------
(***************************************************************************)
(* What an HgChannel promises its users: the events handed to WriteChan by *)
(* any thread are handled by the channel's one thread, each exactly once,  *)
(* unaltered, in the order in which they were accepted, and none is ever   *)
(* left waiting.                                                           *)
(***************************************************************************)
EXTENDS Naturals, Sequences

CONSTANT Event          \* the byte strings an event may be written as

VARIABLES accepted,     \* the events accepted so far, in order
          delivered     \* the events handled so far, in order

cvars == <<accepted, delivered>>

CInit == accepted = <<>> /\ delivered = <<>>

Accept == \E e \in Event : accepted' = Append(accepted, e) /\ UNCHANGED delivered

Deliver ==
  /\ Len(delivered) < Len(accepted)
  /\ delivered' = Append(delivered, accepted[Len(delivered) + 1])
  /\ UNCHANGED accepted

CNext == Accept \/ Deliver

CSafe == CInit /\ [][CNext]_cvars

CSpec == CSafe /\ WF_cvars(Deliver)
=============================================================================
