SPECIFICATION Spec
CONSTANTS
  v1 = v1
  v2 = v2
  d1 = d1
  d2 = d2
  w1 = w1
  w2 = w2
  Idle = Idle
  Dead = Dead
  Vars <- MCVars
  RecordVars <- MCRecordVar
  Frames <- MCFrame
  Decomps <- MCDecomps
  DecompOf <- OwnDecomp
  Workers <- TwoWorkers
  MaxFiles = 2
  MaxWrites = 2
  MaxMeta = 2
  MaxFailures = 1
CHECK_DEADLOCK FALSE
INVARIANTS TypeOK PendingExact StructOutlivesOps NothingLeftOut
PROPERTIES SoftCloseEnds WaitsEnd
