\* The ends of uint8_t; inner calls of a soft reset get one attempt.
CONSTANTS
  RetryArgs = {0, 255}
  DefaultRetries = 1
SPECIFICATION FairCmdSpec
PROPERTIES
  CallsReturn
  CallsWindDown
