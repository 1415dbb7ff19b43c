SPECIFICATION FairSpec
CONSTANTS
  None = None
  c1 = c1  c2 = c2  c3 = c3  c4 = c4
  t1 = t1  t2 = t2  t3 = t3
  Conn <- ThreeConns
  Faulty <- OneConn
  Thread <- ThreeThreads
  InitCount = 2
  MaxCount = 2
  MaxIdle = 1
  Timeout = 2
PROPERTIES
  NobodyStranded
  LendsOn
\* A process that took the front of an empty queue has no defined next step.
CHECK_DEADLOCK FALSE
