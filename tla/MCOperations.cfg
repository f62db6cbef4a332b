\* Three builds of each pipeline, and three backups over three days with a retention of one.
CONSTANTS
  LastBuild = 3
  LastBackup = 3
  Retention = 1
  MaxDays = 3
SPECIFICATION OperationsSpec
INVARIANTS
  KnownGoodIsGood
  RestsOnPassed
  ApprovedIsDeployed
  PairWasTested
  HistoryKept
  VerifiedRestores
CHECK_DEADLOCK FALSE
