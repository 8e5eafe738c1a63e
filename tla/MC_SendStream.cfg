CONSTANTS
  HG_SEQ_MAX_NUM = 27
  HG_CONN_CACHE_LEN = 4
  MaxCopy = 2
  Chains <- MCChains
  MaxFrames = 4
SPECIFICATION Spec
INVARIANTS FramesCut RecentKept AnswerLive OldReleased
