SPECIFICATION Spec
CONSTANTS
  Decomps <- MCDecomps
  VDims <- MCVDims
  Vars <- MCVars
  RecVars <- MCRecVars
  NFrames = 2
  MaxWrites = 2
  WriteCalls <- MCWriteCalls
  SerialFills = TRUE
INVARIANT FillsOwn
CHECK_DEADLOCK FALSE
