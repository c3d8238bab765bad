SPECIFICATION Spec
CONSTANTS
  NumCells = 2
  Metrics = {0, 20}
  Policies <- Replications
  CliChoices <- CliFlags
  MaxRuns = 2
  MayKill = TRUE
INVARIANT RoundRobin
INVARIANT EarlyStopPublishedStable
INVARIANT NoCellGivenUp
PROPERTY RunEnds
PROPERTY ImplementsCampaign
