\* One execution, two adapters, two references: every failure path.
CONSTANTS
  c1 = c1
  c2 = c2
  x = x
  y = y
  Crawls = {c1}
  NAdapters = 2
  NReferences = 2
  Ids = {x, y}
  Batches <- TwoListings
SPECIFICATION FairSpec
INVARIANTS
  StatusIsTruthful
  FoundCoversRows
  SessionIsClean
  ReportMatchesRow
  ExitZeroMeansNoFailedRow
  DryRunWritesNothing
  EveryReferenceTried
PROPERTIES
  Terminates
CHECK_DEADLOCK FALSE
