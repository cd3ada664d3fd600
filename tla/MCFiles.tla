------------------------------ MODULE MCFiles -------------------------------
(***************************************************************************)
(* The components that keep their state in files several processes share:  *)
(* chains and their replay, snapshots, backups, the vault, the embedding   *)
(* index, imports, decision and session records, the catalog of apps,      *)
(* incident evidence and its handoff, the agents known, the emergency log, *)
(* a host's configuration and its health, what the cognitive models        *)
(* learned and who serves MCP; the requests of the HTTP server and of the  *)
(* gateway; and the caches over files, entries, chains and queries.        *)
(* No step of one reads what another writes, so one run checks them side   *)
(* by side instead of multiplying their states: `part` says which of them  *)
(* a behaviour is of, and x1, x2, ... hold that component's variables.     *)
(***************************************************************************)
EXTENDS EvidenceProofs, TLC

CONSTANT Huge

VARIABLE part

from6 == <<x6, x7, x8, x9, x10, x11, x12, x13>>
from7 == <<x7, x8, x9, x10, x11, x12, x13>>
from8 == <<x8, x9, x10, x11, x12, x13>>
from9 == <<x9, x10, x11, x12, x13>>
from10 == <<x10, x11, x12, x13>>
from11 == <<x11, x12, x13>>
from12 == <<x12, x13>>
from13 == <<x13>>
vars == <<part, x1, x2, x3, x4, x5, from6>>

\* The variables that a component leaves unused.
Free13 == x13 = 0
Free12 == x12 = 0 /\ Free13
Free11 == x11 = 0 /\ Free12
Free10 == x10 = 0 /\ Free11
Free9 == x9 = 0 /\ Free10
Free8 == x8 = 0 /\ Free9
Free7 == x7 = 0 /\ Free8
Free6 == x6 = 0 /\ Free7

-----------------------------------------------------------------------------

Block(h, i, v) == [hash |-> h, index |-> i, prev |-> v]
Imports == INSTANCE ImportJson WITH
  Payloads <- {<<Block("h1", 0, None), Block("h2", 2, "h1"), Block("h1", 2, "h2")>>,
               <<Block("h2", 2, "h1"), Block(None, None, None), Block("h1", 1, None)>>,
               <<Block("h1", 0, None), Block("h2", Huge, "h1")>>,
               <<Block("h1", Huge, None), Block("h2", 0, "h1")>>,
               <<Block("h3", None, "h2")>>, <<>>},
  Genesis <- "g", MaxKills <- 1,
  target <- x1, temp <- x2, backup <- x3, index <- x4, proc <- x5, kills <- x6,
  overlapped <- x7

Records == INSTANCE RecordFiles WITH
  Statuses <- {"proposed", "accepted"}, MaxTurns <- 2, MaxTokens <- 3, Sizes <- {1, 3},
  MaxRecords <- 4, MaxKills <- 1,
  lines <- x1, unended <- x2, proc <- x3, ids <- x4, kills <- x5, acked <- x6, raced <- x7

Bridged == INSTANCE NapiChain WITH Bridges <- {"crate", "test"}, MaxCrashes <- 1,
  chain <- x1, pc <- x2, plan <- x3, crashes <- x4, spoiled <- x5

Replays == INSTANCE SoulReplay WITH
  Bridges <- {"crate", "test"}, Times <- {1, 2}, Keys <- {"k1"}, MaxBlocks <- 3, MaxEdits <- 1,
  source <- x1, via <- x2, blocks <- x3, demands <- x4, edits <- x5, moved <- x6, made <- x7,
  report <- x8

Emergency == INSTANCE EmergencyLog WITH
  Candidates <- 2, Keep <- 3, MaxLines <- 0, MaxEvents <- 5, MaxFaults <- 1,
  file <- x1, proc <- x2, events <- x3, faults <- x4, rotations <- x5, written <- x6, mixed <- x7

Known == INSTANCE PeerRegistry WITH
  Agents <- Ids, Endpoints <- {"e1", "e2"}, MaxCommands <- 3, MaxKills <- 1,
  registry <- x1, proc <- x2, commands <- x3, kills <- x4, latest <- x5, clashed <- x6,
  behind <- x7

Host == INSTANCE HostSetup WITH
  MaxCommands <- 2, MaxKills <- 1,
  shell <- x1, env <- x2, config <- x3, proc <- x4, commands <- x5, kills <- x6, dids <- x7,
  reported <- x8, identity <- x9, crossed <- x10, reread <- x11, replaced <- x12

Health == INSTANCE HostHealth WITH
  Facts <- {"toolchain", "trust", "revocation", "iptables", "ollama", "content", "links",
            "home", "pepper"},
  ModeSets <- {{}, {"ollama", "redispatch"}, {"safe", "redispatch", "source"},
               {"trustRequired", "revocationRequired", "safe"},
               {"trustRequired", "revocationRequired", "safe", "strict", "ollama"}},
  MaxWrong <- 1, MaxCommands <- 2, MaxChanges <- 1,
  wrong <- x1, modes <- x2, rules <- x3, server <- x4, doctor <- x5, report <- x6,
  commands <- x7, changes <- x8, surprises <- x9

Decision(hour, day, tags, chain) == [hour |-> hour, day |-> day, tags |-> tags, chain |-> chain]
Patterns == INSTANCE LearnedPatterns WITH
  Tags <- Ids, MinOccurrences <- 2, MaxChanges <- 2, MaxFaults <- 1,
  Histories <- {<<Decision(9, 1, {"a"}, "j"), Decision(10, 1, {"a"}, "d"),
                  Decision(13, 1, {"a"}, "j"), Decision(13, 1, {"a"}, "j")>>,
                <<Decision(9, 1, {"a"}, "j"), Decision(9, 2, {}, "j"), Decision(10, 1, {"a"}, "j"),
                  Decision(9, 2, {}, "j"), Decision(9, 2, {}, "j"), Decision(1, 2, {"a"}, "d")>>},
  file <- x1, proc <- x2, blocks <- x3, events <- x4, changes <- x5, faults <- x6,
  learned <- x7, spoiled <- x8

Serving == INSTANCE McpServe WITH
  Ports <- {3001}, MaxCommands <- 4, MaxKills <- 1,
  file <- x1, proc <- x2, commands <- x3, kills <- x4, clashed <- x5, astray <- x6

Recent == INSTANCE LruCaches WITH
  Chains <- {"c", "d"}, Indexes <- {0, 1}, Queries <- {"q", "r", "s"}, Texts <- {"t", "u", "v"},
  Empty <- "", BlockSizes <- {1, 2}, MaxBlocks <- 2, MaxSize <- 2, MaxAge <- 1, MaxTime <- 2,
  MaxCalls <- 4,
  blocks <- x1, sizes <- x2, bytes <- x3, queries <- x4, vectors <- x5, order <- x6, now <- x7,
  calls <- x8, newest <- x9

Gate == INSTANCE Gateway WITH
  Requests <- Ids,
  Limit <- ("POST" :> 2) @@ ("GET" :> 1) @@ ("exec" :> 1) @@ ("chat" :> 1) @@ ("commands" :> 1),
  MaxTime <- 1, MaxKills <- 1,
  config <- x1, request <- x2, buckets <- x3, now <- x4, log <- x5, ran <- x6, sessions <- x7,
  events <- x8, kills <- x9, lost <- x10

Server == INSTANCE HttpServer WITH
  Requests <- Ids, Limits <- {<<1, 2>>, <<2, 1>>}, Window <- 1, MaxStale <- 0, MaxTime <- 1, MaxKills <- 1,
  env <- x1, request <- x2, buckets <- x3, now <- x4, effects <- x5, audit <- x6,
  counted <- x7, kills <- x8, lost <- x9

-----------------------------------------------------------------------------

Init ==
  \/ part = "snapshots" /\ Snapshots!Init /\ Free10
  \/ part = "backups" /\ Backups!Init /\ Free6
  \/ part = "vaults" /\ Vaults!Init /\ Free11
  \/ part = "documents" /\ Documents!Init /\ Free9
  \/ part = "imports" /\ Imports!Init /\ Free8
  \/ part = "records" /\ Records!Init /\ Free8
  \/ part = "apps" /\ Apps!Init /\ Free11
  \/ part = "evidence" /\ Evidence!Init
  \/ part = "handoffs" /\ Handoffs!Init /\ Free8
  \/ part = "peers" /\ Peers!Init /\ Free7
  \/ part = "lossy" /\ Lossy!Init /\ Free8
  \/ part = "bridged" /\ Bridged!Init /\ Free6
  \/ part = "replays" /\ Replays!Init /\ Free9
  \/ part = "emergency" /\ Emergency!Init /\ Free8
  \/ part = "known" /\ Known!Init /\ Free8
  \/ part = "host" /\ Host!Init /\ Free13
  \/ part = "health" /\ Health!Init /\ Free10
  \/ part = "patterns" /\ Patterns!Init /\ Free9
  \/ part = "serving" /\ Serving!Init /\ Free7
  \/ part = "server" /\ Server!Init /\ Free10
  \/ part = "gateway" /\ Gate!Init /\ Free11
  \/ part = "secrets" /\ Secrets!Init /\ Free6
  \/ part = "contents" /\ Contents!Init /\ Free8
  \/ part = "recent" /\ Recent!Init /\ Free10

Next ==
  /\ UNCHANGED part
  /\ \/ part = "snapshots" /\ Snapshots!Next /\ UNCHANGED from10
     \/ part = "backups" /\ Backups!Next /\ UNCHANGED from6
     \/ part = "vaults" /\ Vaults!Next /\ UNCHANGED from11
     \/ part = "documents" /\ Documents!Next /\ UNCHANGED from9
     \/ part = "imports" /\ Imports!Next /\ UNCHANGED from8
     \/ part = "records" /\ Records!Next /\ UNCHANGED from8
     \/ part = "apps" /\ Apps!Next /\ UNCHANGED from11
     \/ part = "evidence" /\ Evidence!Next
     \/ part = "handoffs" /\ Handoffs!Next /\ UNCHANGED from8
     \/ part = "peers" /\ Peers!Next /\ UNCHANGED from7
     \/ part = "lossy" /\ Lossy!LossyNext /\ UNCHANGED from8
     \/ part = "bridged" /\ Bridged!Next /\ UNCHANGED from6
     \/ part = "replays" /\ Replays!Next /\ UNCHANGED from9
     \/ part = "emergency" /\ Emergency!Next /\ UNCHANGED from8
     \/ part = "known" /\ Known!Next /\ UNCHANGED from8
     \/ part = "host" /\ Host!Next /\ UNCHANGED from13
     \/ part = "health" /\ Health!Next /\ UNCHANGED from10
     \/ part = "patterns" /\ Patterns!Next /\ UNCHANGED from9
     \/ part = "serving" /\ Serving!Next /\ UNCHANGED from7
     \/ part = "server" /\ Server!Next /\ UNCHANGED from10
     \/ part = "gateway" /\ Gate!Next /\ UNCHANGED from11
     \/ part = "secrets" /\ Secrets!Next /\ UNCHANGED from6
     \/ part = "contents" /\ Contents!Next /\ UNCHANGED from8
     \/ part = "recent" /\ Recent!Next /\ UNCHANGED from10

Spec == Init /\ [][Next]_vars

\* Values for TLC.
MCTextSizes == ("t" :> 1) @@ ("u" :> 3)
MCAppNeeds(m) == IF m = "m1" THEN {"k1"} ELSE {}
MCAppIsBlocked(m) == m = "bad"
MCSecretSizes == <<1, 3, 2>>
MCHandoffFlags ==
  {{}, {"noReports", "noEvent"}, {"noReports", "noRequire"}, {"noReports", "include", "preflight"},
   {"direct", "include"}, {"sealed", "noRequire"}, {"noKey"}}
MCContentSizes == <<1, 2, 1>>
Symmetry == Permutations(Procs) \cup Permutations(Ids)

-----------------------------------------------------------------------------
(* Properties.                                                             *)

\* A rollback that fails and undoes itself leaves what it found, and what every file held
\* before a rollback is in some snapshot that can be read, in whatever way it ended.
RollbackLosesNothing ==
  part = "snapshots" => Snapshots!FailureIsUndone /\ Snapshots!PreviousStateIsSaved

\* A restore that ends leaves the old data or the archive's; one whose move out or undo
\* fails leaves the old data in two halves, in the data directory and in the temporary one,
\* and one that is killed may leave a mixture (backup.ts). What a restore found is still
\* somewhere however it ends, and a backup that was reported verifies until it is cleaned,
\* unless its name was chosen while another command made an archive of that name.
BackupsRestore ==
  part = "backups" =>
    Backups!RestoreIsAllOrNothing /\ Backups!NothingIsLost /\ Backups!ReportedBackupsVerify

\* While a data directory has had one vault, and persisting it has neither failed nor been
\* cut short, every stored entry was encrypted under the persisted key (rust-vault-adapter).
\* Until two saves overlap or a kill tears the entry file in its write in place, an entry
\* whose save returned stays in it (vault-entry-store.ts).
VaultEntriesOpen == part = "vaults" => Vaults!StoredEntriesOpen /\ Vaults!SavedEntriesStay

\* An upserted document is in the index file unless a save failed or other processes wrote
\* it, and no search result cached before a reset is returned after it.
DocumentsSurvive ==
  part = "documents" => Documents!DocumentsSurvive /\ Documents!NoResultOutlivesAReset

\* Whatever is imported becomes a chain, in the target and in the index built from it, and
\* the target is the old file or the new one when an import is killed, unless two overlapped.
ImportsAreChains == part = "imports" => Imports!ImportsAreChains /\ Imports!TargetIsWhole

\* The decision history refers to the audit event of its own transition, a torn line costs
\* one acknowledged record at most, and a session's context stays within its limits. A line
\* of the emergency log outlives as many rotations as it keeps, an agent that was
\* discovered stays known, .env is the one reported and starts a server if it was reported
\* to, a configured identity is kept, and feedback and patterns are stored as they were
\* learned, each decision counted once a pass, unless two processes rewrote the same file at
\* once, a write failed, or a kill cut one short.
RecordsAreKept ==
  /\ part = "records" =>
       Records!HistoryRefersToItsEvent /\ Records!OneLossPerKill /\ Records!ContextIsRecent
  /\ part = "emergency" => Emergency!LinesAreKept
  /\ part = "known" => Known!DiscoveredAgentsStay
  /\ part = "host" => Host!ReportedFilesStart /\ Host!IdentityIsKept
  /\ part = "patterns" =>
       /\ Patterns!StoresKeepWhatWasLearned
       /\ Patterns!DecisionsAreCounted
       /\ Patterns!RatesFollowFeedback

\* No app runs a step that the validator blocks, whatever is edited while it is imported or
\* planned, and the registry has the state that an app's last action left, unless that
\* action failed midway, was killed or met another one on the app, or two updates of the
\* registry overlapped or one was killed in its write (managed-apps).
AppsFollowTheirPlans == part = "apps" => Apps!BlockedStepsNeverRun /\ Apps!RegistryFollowsApps

\* An incident bundle that was exported whole stays with its manifest as long as retention
\* keeps it, and verifies with the key ring of any later rotation, unless a kill has torn the
\* ring in its write in place (rotate-key-bundle.mts) or the key is of a rotation that
\* overlapped another one, which may have dropped it. A strict handoff that says ok handed over evidence,
\* the chain tells its verdict, and its preflight predicts it, but for its blind spots.
EvidenceStaysValid ==
  /\ part = "evidence" => Evidence!EvidenceStaysValid
  /\ part = "handoffs" =>
       /\ Handoffs!OkHandoffIsEvidence
       /\ Handoffs!ChainTellsVerdicts
       /\ Handoffs!PreflightPredicts

\* What a request changed was admitted by every test of the hook, and the counters are those
\* of the responses, however requests interleave and the server is killed. Its audit line
\* says what happened to it, and the gateway starts a command only if it is to, with its line
\* written before, unless the append of the line failed, which writeSecurityAudit swallows;
\* no line is about something else. The gateway stores an event for every chat it answers,
\* and refuses a client only for requests of its own. A server that listens has passed the
\* guards it is to pass, and doctor's report predicts whether a start does, but for what
\* doctor does not look at (HostHealth.BlindSpots) and what changes in between; an MCP server
\* that serves is the one serve-stop finds, unless two commands wrote the file at once or a
\* kill cut one short (McpServe).
RequestsAreAccountedFor ==
  /\ part = "server" =>
       Server!ChangesWereAdmitted /\ Server!LogTellsWhatHappened /\ Server!MetricsAddUp
  /\ part = "gateway" =>
       /\ Gate!ExecsWereAdmitted /\ Gate!ExecsAreLogged
       /\ Gate!EventsMatchAnswers /\ Gate!BudgetsAreOwn
  /\ part = "health" => Health!ListeningIsGuarded /\ Health!OkReportsPredictStarts
  /\ part = "serving" => Serving!OneServerIsKnown

\* Across processes with either bridge, a chain on which no two appends overlapped, none died
\* or failed in the middle of its write and none failed to read the blocks that were there is
\* whole between appends (NapiChain: each of the four can cost an answered block); validation
\* tells damage to it, and a replay accepts the beginning of the chain as it was made, in
\* whatever order the blocks are listed (SoulReplay).
BridgedChainIsValid ==
  /\ part = "bridged" => Bridged!ValidUnlessSpoiled
  /\ part = "replays" =>
       /\ Replays!ValidationTellsDamage
       /\ Replays!ReplayIgnoresOrder
       /\ Replays!ReplayAcceptsWhatWasMade
       /\ Replays!UndamagedListIsAccepted

\* What a cache holds is what a fresh read would give, unless the source changed in the
\* middle of the read that filled it.
CachesAreCurrent ==
  /\ part = "secrets" => Secrets!FreshUnlessRaced
  /\ part = "contents" => Contents!HitsAreCurrent

\* The counters and the queues by which the caches evict agree with what they hold, and no
\* cache outgrows its capacity.
CacheBooksBalance ==
  /\ part = "secrets" => Secrets!CountersMatchCache
  /\ part = "contents" => Contents!BytesAreBounded
  /\ part = "recent" => Recent!BooksBalance /\ Recent!CapacitiesHold

\* What is written to a chain or a snapshot is built on all that was there: an append after
\* a power loss on a chain that validates, a pull without losing a key or taking an older
\* block, a snapshot without changing another; and peers that pulled hold the same keys with
\* blocks of the same times, of which those tied in time may differ.
HistoryIsKept ==
  [][/\ part = "snapshots" => Snapshots!SnapshotsStand
     /\ part = "peers" => Peers!NoKeyIsLost /\ Peers!NeverAnOlderBlock /\ Peers!PulledNodesAgree'
     /\ part = "lossy" => Lossy!GrowsOnlyWhenValid]_vars

-----------------------------------------------------------------------------
(* A behaviour is of one component, and a step is a step of that one.      *)

LEMMA InitOfPart ==
  ASSUME Init
  PROVE  /\ part = "snapshots" => Snapshots!Init
         /\ part = "backups" => Backups!Init
         /\ part = "vaults" => Vaults!Init
         /\ part = "documents" => Documents!Init
         /\ part = "apps" => Apps!Init
         /\ part = "peers" => Peers!Init
         /\ part = "lossy" => Lossy!Init
         /\ part = "evidence" => Evidence!Init
         /\ part = "handoffs" => Handoffs!Init
         /\ part = "secrets" => Secrets!Init
         /\ part = "contents" => Contents!Init
BY DEF Init

LEMMA StepOfPart ==
  ASSUME [Next]_vars
  PROVE  /\ part' = part
         /\ part = "snapshots" => Snapshots!Next \/ UNCHANGED <<x1, x2, x3, x4, x5, x6, x7, x8, x9>>
         /\ part = "backups" => Backups!Next \/ UNCHANGED <<x1, x2, x3, x4, x5>>
         /\ part = "vaults" => Vaults!Next \/ UNCHANGED <<x1, x2, x3, x4, x5, x6, x7, x8, x9, x10>>
         /\ part = "documents" => Documents!Next \/ UNCHANGED <<x1, x2, x3, x4, x5, x6, x7, x8>>
         /\ part = "apps" => Apps!Next \/ UNCHANGED <<x1, x2, x3, x4, x5, x6, x7, x8, x9, x10>>
         /\ part = "peers" => Peers!Next \/ UNCHANGED <<x1, x2, x3, x4, x5, x6>>
         /\ part = "lossy" => Lossy!LossyNext \/ UNCHANGED <<x1, x2, x3, x4, x5, x6, x7>>
         /\ part = "evidence" =>
              Evidence!Next \/ UNCHANGED <<x1, x2, x3, x4, x5, x6, x7, x8, x9, x10, x11, x12, x13>>
         /\ part = "handoffs" => Handoffs!Next \/ UNCHANGED <<x1, x2, x3, x4, x5, x6, x7>>
         /\ part = "secrets" => Secrets!Next \/ UNCHANGED <<x1, x2, x3, x4, x5>>
         /\ part = "contents" => Contents!Next \/ UNCHANGED <<x1, x2, x3, x4, x5, x6, x7>>
BY DEF Next, vars, from6

\* While there has been one vault, persisted by a write that neither failed nor was cut
\* short, every stored entry was encrypted under the persisted key, and until two saves
\* overlap or a kill tears the entry file, an entry that was saved stays in it
\* (rust-vault-adapter, the entry store), for every number of processes, entries, restarts
\* between two commands and kills outside those two writes.
THEOREM VaultsOpen == Spec => []VaultEntriesOpen
<1> DEFINE Inv == part = "vaults" => VaultInv
<1>1. Init => Inv
  BY InitOfPart, VaultStarts
<1>2. Inv /\ [Next]_vars => Inv'
  BY StepOfPart, VaultStep
<1>3. Inv => VaultEntriesOpen
  BY VaultOpens DEF VaultEntriesOpen
<1> QED BY <1>1, <1>2, <1>3, PTL DEF Spec

\* A rollback that fails and undoes itself leaves every file that it found, and what the
\* files held before a rollback is in a snapshot that can be read, in whatever way the
\* rollback ended (RollbackManager), for every set of files and number of failing writes,
\* kills, edits and snapshots, while each snapshot is whole and in a millisecond of its own.
THEOREM RollbackHolds == Spec => []RollbackLosesNothing
<1> DEFINE Inv == part = "snapshots" => RollbackInv
<1>1. Init => Inv
  BY InitOfPart, RollbackStarts
<1>2. Inv /\ [Next]_vars => Inv'
  BY StepOfPart, RollbackStep
<1>3. Inv => RollbackLosesNothing
  BY RollbackKeepsFiles DEF RollbackLosesNothing
<1> QED BY <1>1, <1>2, <1>3, PTL DEF Spec

\* A restore ends with the old data or the archive's, or, when its move out or its undo
\* fails, with the old data in two halves and nothing of the archive's; however it ends, a
\* backup of what it found is kept until a clean removes it; a backup that was reported
\* verifies until it is cleaned, unless its name was chosen while another command made an archive of that name (backup.ts), for
\* every number of commands, items, names, failing operations and kills.
THEOREM BackupsHold == Spec => []BackupsRestore
<1> DEFINE Inv == part = "backups" => BackupInv
<1>1. Init => Inv
  BY InitOfPart, BackupStarts
<1>2. Inv /\ [Next]_vars => Inv'
  BY StepOfPart, BackupStep
<1>3. Inv => BackupsRestore
  BY BackupsKeepData DEF BackupsRestore
<1> QED BY <1>1, <1>2, <1>3, PTL DEF Spec

\* A working process has the documents of the last change that somebody was told of, as far
\* as its limit admits them, unless a save failed or another process had the index loaded,
\* and no search cached before a reset answers after it (embed_pipeline, embed adapter), for
\* every number of processes, documents, limits, failing saves and kills.
THEOREM DocumentsHold == Spec => []DocumentsSurvive
<1> DEFINE Inv == part = "documents" => DocInv
<1>1. Init => Inv
  BY InitOfPart, DocsStart
<1>2. Inv /\ [Next]_vars => Inv'
  BY StepOfPart, DocStep
<1>3. Inv => DocumentsSurvive
  BY DocumentsStay DEF DocumentsSurvive
<1> QED BY <1>1, <1>2, <1>3, PTL DEF Spec

\* No app runs a step that the validator blocks, and the registry has the state of every app
\* that no command acts on, unless actions on it met, failed midway or were killed, or
\* updates of the registry overlapped or were cut short (managed-apps), for every number of
\* commands, apps and manifests and every edit of the file that imports read.
THEOREM AppsHold == Spec => []AppsFollowTheirPlans
<1> DEFINE Inv == part = "apps" => AppInv
<1>1. Init => Inv
  BY InitOfPart, AppsStart
<1>2. Inv /\ [Next]_vars => Inv'
  BY StepOfPart, AppStep
<1>3. Inv => AppsFollowTheirPlans
  BY AppsFollow DEF AppsFollowTheirPlans
<1> QED BY <1>1, <1>2, <1>3, PTL DEF Spec

\* Nothing that is written takes away what was there: a snapshot leaves the others as they
\* are (RollbackManager), a pull keeps every key and by default takes no older block, and nodes
\* that have pulled agree on keys and times (SyncManager), and an append that follows power
\* losses goes on from a chain that validates (appendBlock), for every number of processes, crashes and losses.
THEOREM HistoryHolds == Spec => HistoryIsKept
<1> DEFINE Inv == /\ part = "snapshots" => RollbackInv
                  /\ part = "peers" => PeersInv
                  /\ part = "lossy" => LossyInv
<1>1. Init => Inv
  BY InitOfPart, RollbackStarts, PeersStart, LossyStarts
<1>2. Inv /\ [Next]_vars => Inv'
  BY StepOfPart, RollbackStep, PeersStep, LossyStep
<1> DEFINE Agree == part = "peers" => Peers!PulledNodesAgree
<1>3. Inv => Agree
  BY PeersAgree
<1>4. Inv' => Agree'
  BY <1>3, PTL
<1>5. Inv /\ [Next]_vars =>
        [/\ part = "snapshots" => Snapshots!SnapshotsStand
         /\ part = "peers" => Peers!NoKeyIsLost /\ Peers!NeverAnOlderBlock /\ Peers!PulledNodesAgree'
         /\ part = "lossy" => Lossy!GrowsOnlyWhenValid]_vars
  <2> SUFFICES ASSUME Inv, [Next]_vars
               PROVE  /\ part = "snapshots" => Snapshots!SnapshotsStand
                      /\ part = "peers" => Peers!NoKeyIsLost /\ Peers!NeverAnOlderBlock
                                           /\ Peers!PulledNodesAgree'
                      /\ part = "lossy" => Lossy!GrowsOnlyWhenValid
    OBVIOUS
  <2>1. part = "snapshots" => Snapshots!SnapshotsStand
    BY StepOfPart, SnapshotsStay
  <2>2. part = "peers" => Peers!NoKeyIsLost /\ Peers!NeverAnOlderBlock
    BY StepOfPart, PeersKeep
  <2>3. part = "peers" => Peers!PulledNodesAgree'
    BY <1>2, <1>4, StepOfPart
  <2>4. part = "lossy" => Lossy!GrowsOnlyWhenValid
    BY StepOfPart, LossyGrows DEF Lossy!GrowsOnlyWhenValid, Lossy!ValidUpTo, Lossy!LinkedAt, Linked
  <2> QED BY <2>1, <2>2, <2>3, <2>4
<1> QED BY <1>1, <1>2, <1>5, PTL DEF Spec, HistoryIsKept

\* A hit of the vault's cache returns the entry as it is stored, unless the source changed
\* while the entry was decrypted (LazyVaultLoader), and a hit of the file cache returns what
\* the file holds, unless a write met the read or left the file's time unchanged (FileCache),
\* for every number of entries, versions, files and calls.
THEOREM CachesHold == Spec => []CachesAreCurrent
<1> DEFINE Inv == /\ part = "secrets" => SecretInv
                  /\ part = "contents" => ContentInv
<1>1. Init => Inv
  BY InitOfPart, SecretsStart, ContentsStart
<1>2. Inv /\ [Next]_vars => Inv'
  BY StepOfPart, SecretStep, ContentStep
<1>3. Inv => CachesAreCurrent
  BY SecretsFresh, ContentsCurrent DEF CachesAreCurrent
<1> QED BY <1>1, <1>2, <1>3, PTL DEF Spec

\* A manifest that an undisturbed export wrote matches its bundle as long as it is there, and
\* its signature holds, through other exports, prunings, kills and rotations, unless a kill
\* has torn the key ring or the key's own rotation overlapped another one (the incident
\* bundle scripts); a strict handoff that says ok handed over evidence of its
\* own, the chain tells its verdict, and where its preflight passes it fails, undisturbed, on
\* nothing but a blind spot, for every number of processes, bundles, keys, flags and faults.
THEOREM EvidenceHolds == Spec => []EvidenceStaysValid
<1> DEFINE Inv == /\ part = "evidence" => EvidenceInv
                  /\ part = "handoffs" => HandoffInv
<1>1. Init => Inv
  BY InitOfPart, EvidenceStarts, HandoffsStart
<1>2. Inv /\ [Next]_vars => Inv'
  BY StepOfPart, EvidenceStep, HandoffStep
<1>3. Inv => EvidenceStaysValid
  BY EvidenceValid, HandoffsTell DEF EvidenceStaysValid
<1> QED BY <1>1, <1>2, <1>3, PTL DEF Spec

=============================================================================
