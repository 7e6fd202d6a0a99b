SPECIFICATION Spec
CONSTANTS
  p1 = p1
  p2 = p2
  Procs <- MCProcs
  NumVars = 3
  ReqSizes <- MCReqSizes
  Limit = 4
  MaxReqs = 4
INVARIANTS TypeOK EveryRequestOnce BlocksFit
