SPECIFICATION FairSpec
CONSTANTS
  o1 = o1  o2 = o2
  Objects = {o1, o2}
  NoCall = NoCall
  Scenarios <- Scenes
  Transacting <- TransactionScenes
  Calls <- SceneCalls
  Missing <- NoLoginLog
  KeyColumns <- SchemaKeys
  Given <- GivenRows
  Steady = {o2}
  MaxWork = 2
  MaxLate = 1
  MaxNumber = 1
INVARIANTS
  TypeOK
  AtomicUnlessBroken
PROPERTIES
  ImplementsStore
  OwnNumber
  Returns
\* A process that has died takes no step.
CHECK_DEADLOCK FALSE
