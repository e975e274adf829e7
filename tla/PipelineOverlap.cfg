CONSTANTS
  r1 = r1
  r2 = r2
  Runners <- TwoRunners
  Joules <- OneEnergy
  MaxRuns = 3
  MaxFaults = 1
  Threshold = 1
  ScanLimit = 12
  Overlap = TRUE
SPECIFICATION Spec
SYMMETRY Sym
INVARIANTS NoPardon JoinBurns
CHECK_DEADLOCK FALSE
