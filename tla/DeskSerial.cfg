CONSTANTS
  t1 = t1
  t2 = t2
  packA = packA
  packB = packB
  Default = default
  Threads <- OneThread
  Packs <- TwoPacks
  MaxRequests = 4
  MaxKills = 1
  Keep = 2
  Overlap = FALSE
SPECIFICATION Spec
INVARIANTS TypeOK DeskUntouched OwnSoils OverrideBack RowKept IndexFiles
CHECK_DEADLOCK FALSE
