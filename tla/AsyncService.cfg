SPECIFICATION Spec
CONSTANTS
  atm = atm
  ocn = ocn
  Components <- MCComponents
  Procs <- MCProcs
  Systems <- MCSystems
  Programs <- MCPrograms
INVARIANTS TypeOK CollectivesMatch RightFile
PROPERTY ServiceEnds
