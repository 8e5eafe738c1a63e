------------------------------ MODULE RtpHeader -------------------------------
(***************************************************************************)
(* The head of a packet (net/rtp/common/rtp_packet.cpp), ten bytes:        *)
(*                                                                         *)
(*   1      first (1 bit), comp (1), unused (6)                            *)
(*   2      cmd (3 bits), tail (2), payloadType (3)                        *)
(*   3..4   seq        5..6   timestamp        7..10  ssrc                 *)
(*                                                                         *)
(* A head is a sequence of bytes, a header a record of its fields.  Masks  *)
(* and shifts are written as % and * of powers of two.                     *)
(***************************************************************************)
EXTENDS Integers, Sequences

\* The commands; a receiver compares them with <=.
enum_RTP_CMD_POST       == 1
enum_RTP_CMD_RES_REPOST == 2
enum_RTP_CMD_REQ_REPOST == 3

\* Mutant of toolsIntBigEndian16: the bytes are swapped.
toolsIntLitEndian16(val) == <<val % 256, (val \div 256) % 256>>

\* toolsIntBigEndian of 16 and of 32 digits.
toolsIntBigEndian16(val) == <<(val \div 256) % 256, val % 256>>
toolsIntBigEndian32(val) ==
  <<(val \div 16777216) % 256, (val \div 65536) % 256, (val \div 256) % 256, val % 256>>

rtpPacketHead(rh) ==
  LET q == toolsIntBigEndian16(rh.seq)
      z == toolsIntBigEndian16(rh.timestamp)
      x == toolsIntBigEndian32(rh.ssrc)
  IN  <<(rh.first % 2) * 128 + (rh.comp % 2) * 64,
        (rh.cmd % 8) * 32 + (rh.tail % 4) * 8 + (rh.payloadType % 8),
        q[1], q[2], z[1], z[2], x[1], x[2], x[3], x[4]>>

pktFirst(d)     == (d[1] \div 128) % 2
pktComp(d)      == (d[1] \div 64) % 2
pktCmd(d)       == d[2] \div 32
pktFlag(d)      == (d[2] \div 8) % 4
pktPLoadType(d) == d[2] % 8
pktSeq(d)       == d[3] * 256 + d[4]
pktTimestamp(d) == d[5] * 256 + d[6]
pktSsrc(d)      == d[7] * 16777216 + d[8] * 65536 + d[9] * 256 + d[10]

\* The command of a head that is kept is overwritten in place.
pktSetCmd(d, value) == [d EXCEPT ![2] = (value % 8) * 32 + (@ % 32)]
=============================================================================
