\* An adapter that may hand back fewer bytes than asked for.
CONSTANTS
  Reports <- MCReports
  Capabilities = {0, 1, 255}
  BlockCounts = {1, 2}
  StackBytes = {170}
  IsolatedBelowS0 = FALSE
  MaxReports = 4
SPECIFICATION FairStateSpec
INVARIANTS
  BothReadInOneTransaction
CHECK_DEADLOCK FALSE
