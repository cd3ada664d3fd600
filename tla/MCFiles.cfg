SPECIFICATION Spec
CONSTANTS
  Procs = {p1, p2}
  Ids = {i1, i2}
  Gets = {g1, g2, g3}
  Calls = {c1, c2, c3}
  None = None
  Torn = Torn
  Gone = Gone
  Huge = Huge
  Genesis = Genesis
  NoBlock = NoBlock
  Absent = Absent
  ChainFiles = {"a"}
  FileVersions = {"v1", "v2"}
  MaxSnapshotTime = 2
  MaxSnapshotFaults = 1
  MaxFileEdits = 1
  DataItems = {"a", "b"}
  ExcludedItems = {"log"}
  MaxNames = 2
  MaxBackupFaults = 2
  MaxVaults = 2
  MaxVaultEntries = 3
  MaxVaultFaults = 1
  DocumentTexts = {"t", "u"}
  TextSizes <- MCTextSizes
  TextLimits = {2, 4}
  ResultTtl = 2
  MaxResultTime = 2
  MaxSaves = 2
  MaxSaveFaults = 1
  AppNames = {"x", "y"}
  AppManifests = {"m1", "bad"}
  AppNeeds <- MCAppNeeds
  AppIsBlocked <- MCAppIsBlocked
  AppKeys = {"k1"}
  AppEnvironment = {}
  MaxAppFaults = 1
  MaxAppCommands = 2
  MergeStrategies = {"last-write-wins", "prefer-local"}
  BlockKeys = {"k1"}
  BlockTimes = {1, 2}
  MaxLosses = 2
  SecretSizes <- MCSecretSizes
  MaxSecrets = 1
  ContentSizes <- MCContentSizes
  MaxContentSize = 2
  MaxContentTime = 2
  RootNames = {"root"}
  KeptBundles = 1
  MaxBundles = 2
  MaxKeyPairs = 2
  MaxBundleKills = 1
  HandoffFlags <- MCHandoffFlags
  EventAttempts = 2
  MaxHandoffs = 1
  MaxHostChanges = 1
  MaxFailedEvents = 2
  MaxHandoffKills = 1
INVARIANTS
  RollbackLosesNothing
  BackupsRestore
  VaultEntriesOpen
  DocumentsSurvive
  ImportsAreChains
  RecordsAreKept
  AppsFollowTheirPlans
  EvidenceStaysValid
  BridgedChainIsValid
  RequestsAreAccountedFor
  CachesAreCurrent
  CacheBooksBalance
PROPERTIES
  HistoryIsKept
SYMMETRY Symmetry
CHECK_DEADLOCK FALSE
