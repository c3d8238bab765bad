SPECIFICATION Spec
CONSTANTS
  Kinds = {"throughput", "latency", "fanout", "fanin"}
  Peers = 1
  MaxExecs = 1
  MultiExecs = 1
  Faults = TRUE
INVARIANT ReapedBeforeTeardown
