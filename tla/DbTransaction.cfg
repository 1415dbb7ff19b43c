SPECIFICATION Spec
CONSTANTS
  o1 = o1  o2 = o2
  Objects = {o1, o2}
  NoCall = NoCall
  Scenarios <- FirstScene
  Transacting <- TransactionScenes
  Calls <- SceneCalls
  Missing <- NoLoginLog
  KeyColumns <- SchemaKeys
  Given <- GivenRows
  Steady = {o2}
  MaxWork = 2
  MaxLate = 0
  MaxNumber = 1
PROPERTIES
  CommitsAll
CHECK_DEADLOCK FALSE
