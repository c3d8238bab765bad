SPECIFICATION MergeSpec
CONSTANTS
  Kinds = {"throughput"}
  Observed <- Rates
  Policy <- Conventional
  Scale = 4
  MaxReps = 6
INVARIANT QuantileIsBalanced
INVARIANT MajoritySurvives
INVARIANT OnlySamplesShowTheOrder
INVARIANT StableIsNotBimodal
