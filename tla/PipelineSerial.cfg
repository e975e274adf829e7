CONSTANTS
  r1 = r1
  r2 = r2
  Runners <- OneRunner
  Joules <- TwoEnergies
  MaxRuns = 3
  MaxFaults = 2
  Threshold = 2
  ScanLimit = 12
  Overlap = FALSE
SPECIFICATION Spec
INVARIANTS TypeOK LatchExact LatchCarries NoCurrentAfterApoptosis PairJudged
CHECK_DEADLOCK FALSE
