\* A reader between startup and the first poll.
CONSTANTS
  Reports <- TwoReports
  Capabilities = {0}
  BlockCounts = {2}
  StackBytes = {170}
  IsolatedBelowS0 = FALSE
  MaxReports = 2
  ClientRequests <- AllWrites
  MaxRequests = 1
  MaxCrashes = 0
SPECIFICATION Spec
INVARIANTS
  StartupStateIsShown
CHECK_DEADLOCK FALSE
