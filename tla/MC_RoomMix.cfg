CONSTANTS
  u1 = u1
  u2 = u2
  Users <- MCUsers
  HG_SEQ_MAX_NUM = 33
  audioCaNum = 3
  FirstPts <- MCFirstPts
  Gaps = {0, 2}
  MaxFrames <- MCMaxFrames
  MaxEnters <- MCMaxEnters
  MaxClock = 5
SPECIFICATION FairSpec
INVARIANTS BufferWindow
PROPERTIES MixExact PlayedOnTime StoredBehind LoopEnds
CHECK_DEADLOCK FALSE
