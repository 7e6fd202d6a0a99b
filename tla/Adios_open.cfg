SPECIFICATION Spec
CONSTANTS
  Layouts <- MCLayouts
  DimDefs <- MCDimDefs
  VarDefs <- MCVarDefs
  AttArgs <- MCAttArgs
  PutArgs <- MCPutArgs
  GetArgs <- MCGetArgs
  Decomps <- MCDecomps
  ConvNodes <- MCConvNodes
  FrameVars = {1}
  MaxFrame = 1
  MaxSetFrames = 2
  MaxCalls = 1
  StepsPerFlush = 1
  MaxBuffer = 2
  MaxDecomps = 1
  FillSize = 4
  Asserts = TRUE
  MaxReads = 2
INVARIANT NotAborted
CHECK_DEADLOCK FALSE
