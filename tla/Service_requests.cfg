\* Every transition of both objects, two in flight, a crash anywhere, an MCU
\* that changes once between running, sleeping and off.
CONSTANTS
  Reports <- MCReports
  Capabilities = {0}
  BlockCounts = {2}
  StackBytes = {170}
  IsolatedBelowS0 = FALSE
  MaxReports = 2
  ClientRequests <- AllWrites
  MaxRequests = 2
  MaxCrashes = 1
SPECIFICATION Spec
INVARIANTS
  ServiceTypeOK
  ServedInOrder
  QuietMeansLatest
  StartupReadingsStay
  HostChassisAgree
PROPERTIES
  ImplementsStore
  ImplementsRegister
CHECK_DEADLOCK FALSE
