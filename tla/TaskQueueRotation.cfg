SPECIFICATION Spec
CONSTANTS
  Tasks = {t1, t2}
  NoTask = NoTask
  MaxPending = 2
  MaxWal = 1
  Mode = "financial"
  Policies = {"keep"}
  Unplayable = {}
  Faults = {}
  PowerLoss = FALSE
  LockIsCleared = TRUE
  MaxCrashes = 2
INVARIANTS
  KeptTasksStayPending
SYMMETRY MCSymmetry
