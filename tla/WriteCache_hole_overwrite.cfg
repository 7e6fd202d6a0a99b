SPECIFICATION Spec
CONSTANTS
  v1 = v1
  v2 = v2
  v3 = v3
  d1 = d1
  d2 = d2
  Vars <- MCVars
  RecordVars <- MCRecordVars
  Frames <- MCFrames
  Decomps <- MCDecomps
  DecompsOf <- TwoDecomps
  HoleFill <- MCDecomps
  Pnetcdf = TRUE
  RewritePending = FALSE
  MaxWrites = 4
  MaxFailures = 0
CHECK_DEADLOCK FALSE
INVARIANT NoBufferOverwrite
