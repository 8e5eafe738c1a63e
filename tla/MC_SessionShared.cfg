CONSTANTS
  HG_WORKER_NUM = 2
  Conns = {1, 2}
  RoomIds = {1, 2}
  SessNum = 2
  MaxRequests <- MCMaxRequests
  None = None
SPECIFICATION Spec
INVARIANT SessionOfOne
CHECK_DEADLOCK FALSE
