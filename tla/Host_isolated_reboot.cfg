\* A board whose MCU is cut off below S0, the default argument.
CONSTANTS
  RetryArgs = {3}
  DefaultRetries = 3
  ShutdownTimes = {4, 20}
  Boards = {TRUE}
SPECIFICATION HostSpec
INVARIANTS
  RebootIsSupported
