SPECIFICATION FairSpec
CONSTANTS
  Tasks = {t1, t2}
  NoTask = NoTask
  MaxPending = 2
  MaxWal = 9
  Mode = "financial"
  Policies = {"fail", "redispatch"}
  Unplayable = {}
  Faults = {}
  PowerLoss = TRUE
  LockIsCleared = TRUE
  MaxCrashes = 2
PROPERTIES
  EveryTaskSettles
