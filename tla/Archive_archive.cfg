\* Three cells of two targets, a date whose archive is older than the os field,
\* and any three of: two runs into one directory, renders, backfills.
SPECIFICATION ArchiveSpec
CONSTANTS
  d1 = d1
  d2 = d2
  v1 = v1
  v2 = v2
  Nothing = Nothing
  Torn = Torn
  Cells = {1, 2, 3}
  MaxRuns = 2
  Hosts <- Machines
  Cpus <- Models
  Targets <- Images
  TargetOf <- ImageOf
  Dates = {d1, d2}
  Before = {d1}
  BeforeCpus <- OldCpus
  Renders = {v1, v2}
  MaxStarts = 3
SYMMETRY Symmetry
\* Runs, renders and backfills end.
CHECK_DEADLOCK FALSE
INVARIANTS
  HistoryKept
  CountTellsStale
  GateKeepsOut
  BuildIsOwn
  BackfillIsHonest
