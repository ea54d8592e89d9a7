SPECIFICATION FairSpec
CONSTANTS
  Inputs <- Sessions
  Timeout = 5
  Interval = 2
  Overrun = 2
CHECK_DEADLOCK FALSE
INVARIANTS
  AnsweredInOrder
  OnlyStartsOverrun
  WaitIsTruthful
PROPERTIES
  WaitsEnd
