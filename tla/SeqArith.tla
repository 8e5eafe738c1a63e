------------------------------ MODULE SeqArith -------------------------------
(***************************************************************************)
(* The circular 16-bit sequence numbers of common/tools.c.  There are      *)
(* HG_SEQ_MAX_NUM = 65535 of them, 0..65534; a number is newer than        *)
(* another when it is at most half the circle ahead of it.                 *)
(***************************************************************************)
EXTENDS Integers

CONSTANT HG_SEQ_MAX_NUM

ASSUME SeqAssumption == HG_SEQ_MAX_NUM \in Nat \ {0} /\ HG_SEQ_MAX_NUM % 2 = 1

Half == HG_SEQ_MAX_NUM \div 2

\* How far newd is ahead of oldd, or -1 when it is rather behind.
uint16Sub(newd, oldd) ==
  LET ret == IF newd < oldd THEN newd + HG_SEQ_MAX_NUM - oldd ELSE newd - oldd
  IN  IF ret > Half THEN -1 ELSE ret

uint16Add(add1, add2) == (add1 + add2) % HG_SEQ_MAX_NUM
=============================================================================
