SPECIFICATION Spec
CONSTANTS
  Kinds = {"throughput", "latency", "fanout", "fanin"}
  Peers = 2
  MaxExecs = 2
  MultiExecs = 1
  Faults = TRUE
INVARIANT NoOrphans
INVARIANT AcceptedWasFed
INVARIANT ProbeBeforeFlow
INVARIANT CpuIsThisCell
INVARIANT FreshLeaves
PROPERTY CellReturns
