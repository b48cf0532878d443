SPECIFICATION Spec
CONSTANTS
  p1 = p1
  p2 = p2
  c1 = c1
  c2 = c2
  Pushers <- MCPushers
  Chans <- MCChans
  Cap <- MCMixedCap
  MaxPush = 2
INVARIANTS TypeOK NoPanic
PROPERTY ReceivedInOrder
\* every pusher may have used up its MaxPush messages
CHECK_DEADLOCK FALSE
