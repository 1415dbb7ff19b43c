SPECIFICATION RestingFairSpec
CONSTANTS
  None = None
  a = a  b = b  c = c
  w1 = w1  w2 = w2  w3 = w3
  Task <- ThreeTasks
  Worker <- ThreeWorkers
INVARIANTS
  FirstInFirstOut
  RunOnce
  NoLostWakeup
PROPERTIES
  QuietAfterStop
  StopReturns
  AcceptedRuns
  ActsAsExecutor
