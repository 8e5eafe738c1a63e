CONSTANTS
  w1 = w1
  w2 = w2
  ev1 = ev1
  ev2 = ev2
  Writers <- MCWriters
  Events <- MCEvents
  Psize <- MCPsize
  Consumer = me
  HeadLen = 2
  Cap = 5
  MaxSent = 5
  NodeLen = 3
SPECIFICATION NodesFairSpec
INVARIANTS ExactlyOnceInOrder NoLostWakeup IInv NodesAgree
PROPERTIES EveryEventHandled RefinesQueue
CHECK_DEADLOCK FALSE
