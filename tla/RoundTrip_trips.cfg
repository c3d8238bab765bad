\* A warmup of two and four timed trips that share four ticks.
SPECIFICATION FairSpec
CONSTANTS
  Targets <- Wrappers
  Warmup = 2
  Messages = 4
  MaxNow = 4
\* Both processes end.
CHECK_DEADLOCK FALSE
INVARIANTS
  EveryTripEchoed
  TimedIsWaited
  QuantilesBalanced
PROPERTIES
  Completes
