CONSTANTS
  HG_SEQ_MAX_NUM = 9
  NoSeq = 9
  HG_CONN_CACHE_LEN = 5
  maxnovalue = 1
  Expiry = 1
  MaxFrame = 3
  FirstPkt = 1
  LastPkt = 11
  Lifetime = 4
  Window = 4
  TailOf <- MCTailOf
SPECIFICATION Spec
INVARIANTS TakenInOrder CacheWindow FrameUnbroken PassedOnlyIfAsked
PROPERTIES AskedOnceIfMissing

