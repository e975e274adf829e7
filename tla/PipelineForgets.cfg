CONSTANTS
  r1 = r1
  r2 = r2
  Runners <- TwoRunners
  Joules <- OneEnergy
  MaxRuns = 3
  MaxFaults = 0
  Threshold = 2
  ScanLimit = 12
  Overlap = TRUE
SPECIFICATION Spec
INVARIANT BitIrreversible
CHECK_DEADLOCK FALSE
