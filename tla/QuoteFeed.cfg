SPECIFICATION FairSpec
CONSTANTS
  None = None
  f1 = f1  f2 = f2
  a1 = a1  a2 = a2  b1 = b1
  a = a  b = b
  w1 = w1  w2 = w2
  c1 = c1
  Source <- TwoSources
  Tick <- ThreeTicks
  Sends <- OneTickTwice
  Contract <- TickContract
  Time <- TickTime
  Span <- TwoSpans
  MaxSize = 2
  Worker <- TwoWorkers
  Client <- OneClient
INVARIANTS
  TypeOK
  SetIsList
  ResultsInOrder
  ComparedInWindow
  SentSinceLogin
PROPERTIES
  NothingStays
\* Nothing happens when all ticks have come and all results have gone.
CHECK_DEADLOCK FALSE
