CONSTANTS
  HG_SEQ_MAX_NUM = 27
  Content <- MCContent
  HG_CONN_CACHE_LEN = 3
  NoSeq = 26
  maxnovalue = 2
  Expiry = 1
  MaxFrame = 3
  MaxFaults = 2
  MaxTwice = 1
SPECIFICATION StreamSpec
INVARIANTS StreamTypeOK PassedOnlyIfFailed HeldOnlyIfFailed StampOwnUnlessCleared
PROPERTIES KeepsPromise
CHECK_DEADLOCK FALSE
