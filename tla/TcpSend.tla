------------------------------- MODULE TcpSend --------------------------------
(***************************************************************************)
(* The sending end of a TCP stream (HuageTcpManage::SendData in            *)
(* net/rtp/common/huage_tcp_manage.cpp).  An answer is a head, made for    *)
(* it, and the nodes of its body, put at the end of the connection's send  *)
(* chain.  One sendmsg offers the first nodes of the chain; what it took   *)
(* is counted off the nodes, and the chain is emptied.                     *)
(*                                                                         *)
(* Nothing of an answer stays for later: what the socket did not take is   *)
(* dropped, and its nodes are not given back.  So the chain is empty       *)
(* between two answers, and every operator here is of one answer's chain,  *)
(* a sequence of the bytes left in each node.                              *)
(***************************************************************************)
EXTENDS Integers, Sequences, SequencesExt, FiniteSetsExt

CONSTANTS
  HeadLen,    \* bytes of a head: HG_TCP_PACKET_HEAD_SIZE + HG_RTP_PACKET_HEAD_SIZE
  BodyLens    \* bytes of the nodes of a body

ASSUME TcpSendAssumption == HeadLen \in Nat \ {0} /\ BodyLens \in Seq(Nat \ {0})

total == 4     \* nodes offered to one sendmsg

\* CreateBuffer and PushFramCach: the chain of an answer.
PushFramCach == <<HeadLen>> \o BodyLens

\* The nodes that PreSendArr offers.
Offered(chain) == 1..(IF Len(chain) < total THEN Len(chain) ELSE total)

\* What SendData0 may say: a number of bytes taken, EAGAIN or another error.
Again == -1
Error == -2
MaxTaken == LET c == PushFramCach IN MapThenSumSet(LAMBDA i : c[i], Offered(c))
Outcomes == {Again, Error} \cup 1..MaxTaken

\* Where SendDatapre stops counting off n bytes.  A node that is used up is
\* set to 0 before it is subtracted from the rest, so that n itself is
\* compared with every node.
Stop(chain, n) == {i \in Offered(chain) : chain[i] > n /\ \A j \in 1..i-1 : chain[j] <= n}

\* Mutant of SendDatapre: a node that is used up keeps its length.
SendDatapreNoZero(chain, n) ==
  [i \in DOMAIN chain |-> IF i \in Stop(chain, n) THEN chain[i] - n ELSE chain[i]]

\* SendDatapre of n bytes: what is left in the nodes.
SendDatapre(chain, n) ==
  [i \in DOMAIN chain |->
     IF i \in Stop(chain, n) THEN chain[i] - n
     ELSE IF i \in Offered(chain) /\ \A j \in Stop(chain, n) : i < j THEN 0
     ELSE chain[i]]

\* clearSndChain: the nodes whose handle to give them back is called.
clearSndChain(chain, all) == {i \in DOMAIN chain : all \/ chain[i] = 0}

\* SendData, after SendData0 said so: the nodes given back.
GivenBack(outcome) ==
  CASE outcome = Error -> clearSndChain(PushFramCach, TRUE)
    [] outcome = Again -> clearSndChain(PushFramCach, FALSE)
    [] OTHER           -> clearSndChain(SendDatapre(PushFramCach, outcome), FALSE)
=============================================================================
