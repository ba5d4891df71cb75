\* One write per command of the handler and one that only stores, two in flight,
\* a crash, a host that takes a second to shut down on a board that never isolates
\* its MCU; one attempt and one round, so that the window of a soft reset is 5.5s.
CONSTANTS
  RetryArgs = {1}
  DefaultRetries = 1
  ShutdownTimes = {2}
  Boards = {FALSE}
  ClientRequests <- EachHandler
  MaxRequests = 2
  MaxCrashes = 1
  MaxReports = 9
SPECIFICATION FairSysSpec
INVARIANT OutcomeIsRead
PROPERTIES
  ImplementsService
  WireServesRequest
  RequestsServed
  ReadersCatchUp
  OutcomeIsReported
CHECK_DEADLOCK FALSE
