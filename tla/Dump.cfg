SPECIFICATION LiveSpec
CONSTANTS
  Last = 2
  Keep = 1
  None = None
  MaxCrashes = 2
  MaxRollbacks = 2
INVARIANTS
  CurrentIsComplete
  PublishedWasServed
PROPERTIES
  ReceiptsAreFinal
  RequestsAreAnswered
CHECK_DEADLOCK FALSE
