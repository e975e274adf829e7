CONSTANTS
  Catalog <- SunCatalog
  Horizon = 4
  Band = 5
  Full = 4
  Loaded = 2
  MaxEvents = 2
SPECIFICATION Spec
INVARIANT SunReturns
CHECK_DEADLOCK FALSE
