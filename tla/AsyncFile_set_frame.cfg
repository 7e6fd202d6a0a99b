SPECIFICATION Spec
CONSTANTS
  v1 = v1
  v2 = v2
  d1 = d1
  d2 = d2
  w1 = w1
  w2 = w2
  Idle = Idle
  Dead = Dead
  Vars <- MCVars
  RecordVars <- MCVars
  Frames <- MCFrames
  Decomps <- OneDecomp
  DecompOf <- SharedDecomp
  Workers <- OneWorker
  MaxFiles = 1
  MaxWrites = 2
  MaxMeta = 2
  MaxFailures = 0
CHECK_DEADLOCK FALSE
INVARIANT WritesTheFrameSet
