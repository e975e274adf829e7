CONSTANTS
  r1 = r1
  r2 = r2
  Runners <- OneRunner
  Joules <- OneEnergy
  MaxRuns = 4
  MaxFaults = 0
  Threshold = 2
  ScanLimit = 2
  Overlap = FALSE
SPECIFICATION Spec
INVARIANT K0Attached
CHECK_DEADLOCK FALSE
