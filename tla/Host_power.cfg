\* Both kinds of board; hosts that need from no time to 7s to shut down, on
\* both sides of the windows of one and of two rounds (5.5s and 6.5s).
CONSTANTS
  RetryArgs = {1, 2}
  DefaultRetries = 2
  ShutdownTimes = {0, 5, 11, 12, 13, 14}
  Boards = {TRUE, FALSE}
SPECIFICATION HostSpec
INVARIANTS
  HostTypeOK
  ResetLeavesHostUp
  OffIsFinal
