SPECIFICATION Spec
CONSTANTS
  Tasks = {t1, t2, t3}
  NoTask = NoTask
  MaxPending = 2
  MaxWal = 9
  Mode = "financial"
  Policies = {"keep", "fail", "redispatch"}
  Unplayable = {}
  Faults = {"write"}
  PowerLoss = TRUE
  LockIsCleared = TRUE
  MaxCrashes = 1
INVARIANTS
  AnswersHold
  MemoryIsSound
PROPERTIES
  KeepsPromise
SYMMETRY MCSymmetry
