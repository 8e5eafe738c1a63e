CONSTANTS
  HG_SEQ_MAX_NUM = 11
  HG_CONN_CACHE_LEN = 4
  MaxCopy = 2
  Chains <- MCChains
  MaxFrames = 4
SPECIFICATION Spec
INVARIANT AnswerLive
