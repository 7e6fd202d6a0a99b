SPECIFICATION Spec
CONSTANTS
  Decomps <- MCDecomps
  VDims <- MCVDims
  Vars <- MCVars
  RecVars <- MCRecVars
  NFrames = 2
  MaxWrites = 2
  WriteCalls <- MCWriteCalls
  SerialFills = FALSE
INVARIANTS ExchangeFits RegionsTile
PROPERTY WritesAndReads
CHECK_DEADLOCK FALSE
