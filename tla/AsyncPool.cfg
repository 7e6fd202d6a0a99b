SPECIFICATION Spec
CONSTANTS
  o1 = o1
  o2 = o2
  o3 = o3
  w1 = w1
  Idle = Idle
  Exited = Exited
  Dead = Dead
  Ops <- MCOps
  Workers <- OneWorker
  MaxInit = 2
  MaxAgain = 2
  MaxDeaths = 1
CHECK_DEADLOCK FALSE
INVARIANTS TypeOK CompleteMeansComplete StopLosesNothing OnePlace InOrder
PROPERTIES FinalizeEnds ExitEnds
