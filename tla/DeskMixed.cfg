CONSTANTS
  t1 = t1
  t2 = t2
  packA = packA
  packB = packB
  Default = default
  Threads <- TwoThreads
  Packs <- TwoPacks
  MaxRequests = 2
  MaxKills = 0
  Keep = 2
  Overlap = TRUE
SPECIFICATION Spec
INVARIANTS OwnSoils
CHECK_DEADLOCK FALSE
