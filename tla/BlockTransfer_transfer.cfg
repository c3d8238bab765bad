\* Fourteen wrappers, no warmup or one of three, a block of five; the sockets hold
\* less than the whole block and a batch does not divide it.
SPECIFICATION FairSpec
CONSTANTS
  Targets <- Wrappers
  Warmups = {0, 3}
  Messages = 5
  Capacity = 4
  Batch = 3
  MaxErrors = 2
\* Both processes end.
CHECK_DEADLOCK FALSE
INVARIANTS
  WholeBlock
  CountMatchesClock
  ClockAfterWarmup
PROPERTY Completes
