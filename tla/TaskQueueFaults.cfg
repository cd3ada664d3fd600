SPECIFICATION FairSpec
CONSTANTS
  Tasks = {t1, t2}
  NoTask = NoTask
  MaxPending = 2
  MaxWal = 2
  Mode = "financial"
  Policies = {"redispatch"}
  Unplayable = {t2}
  Faults = {"write", "short", "fsync", "slow", "event"}
  PowerLoss = TRUE
  LockIsCleared = FALSE
  MaxCrashes = 2
INVARIANTS
  RunsAreOrderly
PROPERTIES
  StartupEnds
CHECK_DEADLOCK FALSE
