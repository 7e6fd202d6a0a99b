SPECIFICATION MCSpec
CONSTANTS
  v1 = v1
  v2 = v2
  v3 = v3
  d1 = d1
  d2 = d2
  Vars <- MCVars
  RecordVars <- MCRecordVars
  Frames <- MCFrames
  Decomps <- MCDecomps
  DecompsOf <- SharedDecompOfTwo
  HoleFill <- MCDecomps
  Pnetcdf = TRUE
  RewritePending = TRUE
  MaxWrites = 3
  MaxFailures = 2
CHECK_DEADLOCK FALSE
INVARIANTS TypeOK CachedDecompReachable RequestBufferLive AcceptedNotLost ClosedHoldsOnlyFailedFills NoBufferOverwrite
PROPERTY CachesImplementFile
