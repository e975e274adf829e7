CONSTANTS
  c1 = c1
  c2 = c2
  b1 = b1
  b2 = b2
  Callers <- TwoCallers
  Bodies <- TwoBodies
  Unbound = Unbound
  MaxCount = 2
  Calls <- AllCalls
  Overlap = TRUE
  StartsAbsent = FALSE
SPECIFICATION Spec
INVARIANT StaysBlown
CHECK_DEADLOCK FALSE
