SPECIFICATION FairSpec
CONSTANTS
  None = None
  l1 = l1  l2 = l2
  c1 = c1  c2 = c2
  m1 = m1  m2 = m2  m3 = m3
  Loop <- TwoLoops
  Client <- TwoClients
  Message <- ThreeMessages
  From <- OneSaysTwo
INVARIANTS
  SegmentOfOrder
PROPERTIES
  ImplementsRoom
  EveryoneHears
\* A server whose clients have left may stand still.
CHECK_DEADLOCK FALSE
