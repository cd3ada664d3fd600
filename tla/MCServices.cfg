SPECIFICATION Spec
CONSTANTS
  MaxTime = 2
  Requests = {r1}
  Tools = {t1, t2}
  Operators = {o1, o2}
  Gates = {g1, g2}
  TTL = 1
  MaxSets = 1
  Runs = {r1, r2}
  Executions = {e1, e2, e3}
  NoAnswer = NoAnswer
  Durations = {0, 1, 2}
  MaxSteps = 4
  MaxToolCalls = 2
  MaxWait = 2
  MaxErrors = 1
  Calls = {c1, c2}
  ProviderNames = {"p1", "p2", "p3"}
  Default = "p1"
  Fallback = "p2"
  Requested = {"auto", "p2", "unconfigured"}
  MaxRetries = 1
  Cooldown = 1
  MaxRequests = 2
  WindowMs = 2
  LimiterTime = 4
  MaxPerTick = 2
  Events = {e1}
  Flushes = {f1, f2}
  ReadTasks = {t1, t2}
  WriteTasks = {w1, w2}
  FlushCalls = {f1, f2}
INVARIANTS
  ApprovalsBind
  ReplaysAreExact
  LimitsHold
  NothingIsDropped
PROPERTIES
  DecisionsStand
  EverythingEnds
CHECK_DEADLOCK FALSE
