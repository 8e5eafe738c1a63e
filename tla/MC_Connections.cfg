CONSTANTS
  HG_WORKER_NUM = 2
  Clients = {1, 2}
  FdNum = 2
  hgConnNum = 2
  MaxSockets = 3
  MaxRequests <- MCMaxRequests
  MaxDatagrams <- MCMaxDatagrams
  MaxQueue = 2
  HeadLen = 2
  BodyLens <- MCBodyLens
  None = None
SPECIFICATION ConnSpec
INVARIANTS EventsApart AnswersToAsker HeadsGivenBack AddressOwn CrashOnlyIfDue
CHECK_DEADLOCK FALSE
