\* Every wrapper and kind with two peers and sockets that hold two messages.
SPECIFICATION FairSpec
CONSTANTS
  Targets <- Wrappers
  Peers = {p1, p2}
  Sink = sink
  Room = 2
\* Every process ends.
CHECK_DEADLOCK FALSE
INVARIANTS
  OverrunBounded
  WindowSeesAllPeers
PROPERTIES
  TimedWindowEnds
  FedWindowEnds
