\* A board whose MCU is cut off below S0.
CONSTANTS
  Reports <- OnOffReports
  Capabilities = {0, 1, 255}
  BlockCounts = {2}
  StackBytes = {170}
  IsolatedBelowS0 = TRUE
  MaxReports = 3
SPECIFICATION FairStateSpec
PROPERTIES
  CurrentStateIsReported
CHECK_DEADLOCK FALSE
