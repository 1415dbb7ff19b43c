SPECIFICATION Spec
CONSTANTS
  None = None
  c1 = c1  c2 = c2  c3 = c3  c4 = c4
  t1 = t1  t2 = t2  t3 = t3
  Conn <- TwoConns
  Faulty <- TwoConns
  Thread <- TwoThreads
  InitCount = 1
  MaxCount = 2
  MaxIdle = 1
  Timeout = 1
INVARIANT GetTakesExisting
CHECK_DEADLOCK FALSE
