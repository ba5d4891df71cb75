\* A board whose MCU is always reachable, an adapter that reads in full.
CONSTANTS
  Reports <- MCReports
  Capabilities = {0, 1, 255}
  BlockCounts = {2}
  StackBytes = {170}
  IsolatedBelowS0 = FALSE
  MaxReports = 4
SPECIFICATION FairStateSpec
INVARIANTS
  StateTypeOK
  CacheIsSnapshot
PROPERTIES
  ImplementsRegister
  EventuallyFresh
CHECK_DEADLOCK FALSE
