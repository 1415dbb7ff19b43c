SPECIFICATION FairSpec
CONSTANTS
  None = None
  p1 = p1  p2 = p2
  r1 = r1  r2 = r2  r3 = r3  r4 = r4
  w1 = w1  w2 = w2
  c1 = c1  c2 = c2
  Peer <- TwoPeers
  Request <- RowRequests
  Msg <- KeyMsg
  Blank = " "
  Worker <- TwoWorkers
  Conn <- OneConn
  Faulty <- OneConn
  Limit = 1
INVARIANTS
  OwnText
PROPERTIES
  Handled
CHECK_DEADLOCK FALSE
