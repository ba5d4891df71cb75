\* The default argument (3), its neighbours and the refused one (0).
CONSTANTS
  RetryArgs = {0, 1, 2, 3}
  DefaultRetries = 3
SPECIFICATION FairCmdSpec
INVARIANTS
  CmdTypeOK
  AwakeOnlyAfterSettle
  ErrorMeansExhausted
  SuccessMeansAcked
  BoundedDelivery
  BoundedBlocking
PROPERTIES
  PromiseKept
