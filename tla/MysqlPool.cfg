SPECIFICATION Spec
CONSTANTS
  None = None
  c1 = c1  c2 = c2  c3 = c3  c4 = c4
  t1 = t1  t2 = t2  t3 = t3
  Conn <- FourConns
  Faulty <- TwoConns
  Thread <- TwoThreads
  InitCount = 1
  MaxCount = 2
  MaxIdle = 2
  Timeout = 1
SYMMETRY Symmetry
INVARIANTS
  CountAccounting
  NoSharing
  IdleOrder
PROPERTIES
  HandsOutLive
  ScanReclaims
  LendsSafely
  NullOnlyIfAllLent
  EmptyFrontCause
\* A process that took the front of an empty queue has no defined next step.
CHECK_DEADLOCK FALSE
