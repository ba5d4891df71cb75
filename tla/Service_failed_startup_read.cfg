\* An MCU that never changes and no client.
CONSTANTS
  Reports <- TwoReports
  Capabilities = {0}
  BlockCounts = {2}
  StackBytes = {170}
  IsolatedBelowS0 = FALSE
  MaxReports = 1
  ClientRequests <- NoWrites
  MaxRequests = 0
  MaxCrashes = 0
SPECIFICATION Spec
INVARIANTS
  RequestedMatchesCurrent
CHECK_DEADLOCK FALSE
