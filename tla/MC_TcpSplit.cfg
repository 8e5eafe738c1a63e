CONSTANTS
  HG_TCP_PACKET_HEAD_SIZE = 2
  HG_RTP_PACKET_HEAD_SIZE = 1
  HG_MAX_FRAME_LEN = 8
  Cap = 5
  Body <- MCFrame
SPECIFICATION FairSpec
PROPERTY EveryFrameHandled
CHECK_DEADLOCK FALSE
