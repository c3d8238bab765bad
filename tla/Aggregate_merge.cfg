SPECIFICATION MergeSpec
CONSTANTS
  Kinds = {"latency", "throughput"}
  Observed <- Both
  Policy <- Conventional
  Scale = 4
  MaxReps = 4
INVARIANT HeadlineIsTheStableMedian
INVARIANT QuantilesStayOrdered
INVARIANT RejectedTelemetryIsGone
INVARIANT NoHalfExceedsTheTotal
