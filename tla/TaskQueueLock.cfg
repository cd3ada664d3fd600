SPECIFICATION FairSpec
CONSTANTS
  Tasks = {t1, t2}
  NoTask = NoTask
  MaxPending = 2
  MaxWal = 9
  Mode = "financial"
  Policies = {"fail"}
  Unplayable = {}
  Faults = {}
  PowerLoss = FALSE
  LockIsCleared = FALSE
  MaxCrashes = 1
PROPERTIES
  EveryTaskSettles
CHECK_DEADLOCK FALSE
