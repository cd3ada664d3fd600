----------------------------- MODULE FilesProofs ------------------------------
(***************************************************************************)
(* Components that keep their state in files several processes share, and  *)
(* those that cache files, over the same variables: x1, x2, ... hold the   *)
(* variables of one of them.  MCFiles checks them side by side, with the   *)
(* components of its own.  Here are those whose invariants do not need     *)
(* another's, with these invariants and their proofs: for every set of     *)
(* processes, files, entries and texts, and every bound on what happens to *)
(* them.  EvidenceProofs goes on with the caches and the incident scripts, *)
(* and the theorems that rest on both are at the end of MCFiles.           *)
(***************************************************************************)
EXTENDS Integers, Sequences, FiniteSets, FiniteSetTheorems, SequenceTheorems,
        WellFoundedInduction, TLAPS

\* Ids: what each component has two of and tells apart by name only.
CONSTANTS
  Procs, Ids, Gets, Calls, None, Torn, Gone, Genesis, NoBlock, Absent,
  ChainFiles, FileVersions, MaxSnapshotTime, MaxSnapshotFaults, MaxFileEdits,
  DataItems, ExcludedItems, MaxNames, MaxBackupFaults,
  MaxVaults, MaxVaultEntries, MaxVaultFaults,
  DocumentTexts, TextSizes, TextLimits, ResultTtl, MaxResultTime, MaxSaves, MaxSaveFaults,
  AppNames, AppManifests, AppNeeds(_), AppIsBlocked(_), AppKeys, AppEnvironment,
  MaxAppFaults, MaxAppCommands,
  MergeStrategies, BlockKeys, BlockTimes, MaxLosses,
  SecretSizes, MaxSecrets, ContentSizes, MaxContentSize, MaxContentTime,
  RootNames, KeptBundles, MaxBundles, MaxKeyPairs, MaxBundleKills,
  HandoffFlags, EventAttempts, MaxHandoffs, MaxHostChanges, MaxFailedEvents, MaxHandoffKills

\* The clock starts within its bound.
ASSUME SnapshotsAssumption == MaxSnapshotTime \in Nat
\* Names of archives are tried from 1 on, and a host has finitely many processes.
ASSUME BackupsAssumption == MaxNames \in Nat \ {0} /\ IsFiniteSet(Procs)
\* Sizes and limits are numbers of bytes, and neither a text nor a list of documents is
\* taken for a file that is missing or cannot be parsed.
ASSUME DocumentsAssumption ==
  /\ TextSizes \in [DocumentTexts -> Nat] /\ TextLimits \subseteq Nat /\ ResultTtl \in Nat
  /\ None \notin DocumentTexts /\ None # Torn
  /\ {None, Torn} \cap [Ids -> DocumentTexts \cup {None}] = {}

\* Timestamps are numbers, and 0 stands for none.
ASSUME PeersAssumption == BlockTimes \subseteq Nat
\* A block's hash is neither an empty file's nor the name that stands for a free lock.
ASSUME LossyAssumption == NoBlock \notin Calls /\ "free" \notin Calls

\* Bundles and key pairs are numbered; no number, manifest or key bundle is taken for a file
\* that is missing or cannot be parsed.
ASSUME EvidenceAssumption ==
  /\ {None, Torn} \cap Nat = {} /\ None # Torn
  /\ {None, Torn} \cap [of : Nat \cup {Torn}, sign : {None} \cup [id : Ids, pair : Nat]] = {}
  /\ Torn \notin [keys : [Ids -> Nat \cup {None}], signer : RootNames \cup {None}]

\* Neither a bundle nor a manifest is taken for a file that is missing or cut short, and no
\* root has the name that stands for none.
ASSUME HandoffsAssumption ==
  /\ EventAttempts \in Nat /\ None \notin {"root", "next"}
  /\ {None, Torn} \cap [by : Nat, reports : Nat \cup {None}] = {}
  /\ {None, Torn} \cap [of : [by : Nat, reports : Nat \cup {None}] \cup {Torn},
                        reports : Nat \cup {None},
                        sign : [id : Ids \cup {None}, pair : Nat]] = {}

\* An entry of the vault has its sizes in the order of its versions.
ASSUME SecretsAssumption == SecretSizes \in Seq(Nat)

VARIABLES x1, x2, x3, x4, x5, x6, x7, x8, x9, x10, x11, x12, x13

Snapshots == INSTANCE Rollback WITH
  Files <- ChainFiles \cup {"config"}, Versions <- FileVersions, MaxTime <- MaxSnapshotTime,
  MaxFaults <- MaxSnapshotFaults, MaxEdits <- MaxFileEdits,
  disk <- x1, snaps <- x2, frames <- x3, now <- x4, faults <- x5, edits <- x6,
  before <- x7, outcome <- x8, clean <- x9

Backups == INSTANCE Backup WITH
  Items <- DataItems, Excluded <- ExcludedItems, Names <- 1..MaxNames, MaxFaults <- MaxBackupFaults,
  data <- x1, archive <- x2, proc <- x3, faults <- x4, shared <- x5

Vaults == INSTANCE Vault WITH
  MaxKeys <- MaxVaults, MaxEntries <- MaxVaultEntries, MaxFaults <- MaxVaultFaults,
  stateFile <- x1, entryFile <- x2, active <- x3, proc <- x4, keys <- x5, made <- x6,
  faults <- x7, acked <- x8, rekeyed <- x9, crossed <- x10

Documents == INSTANCE EmbedIndex WITH
  Texts <- DocumentTexts, Sizes <- TextSizes, Limits <- TextLimits,
  Ttl <- ResultTtl, MaxTime <- MaxResultTime, MaxFaults <- MaxSaveFaults, MaxStores <- MaxSaves,
  index <- x1, temp <- x2, proc <- x3, now <- x4, faults <- x5, stores <- x6,
  acked <- x7, excused <- x8

Apps == INSTANCE ManagedApps WITH
  Apps <- AppNames, Manifests <- AppManifests, Builtin <- "m0", Needs <- AppNeeds,
  IsBlocked <- AppIsBlocked, Keys <- AppKeys, InEnvironment <- AppEnvironment,
  MaxFaults <- MaxAppFaults, MaxCommands <- MaxAppCommands,
  catalog <- x1, source <- x2, vault <- x3, registry <- x4, torn <- x5, actual <- x6,
  proc <- x7, used <- x8, spoiled <- x9, drifted <- x10

Peers == INSTANCE Sync WITH
  Nodes <- {"n1", "n2"}, Commands <- Procs, Strategies <- MergeStrategies,
  Keys <- BlockKeys, Times <- BlockTimes,
  file <- x1, broken <- x2, command <- x3, shared <- x4, current <- x5, mixed <- x6

Lossy == INSTANCE ChainAppend WITH LockIsCleared <- TRUE, MaxCrashes <- MaxLosses,
  chain <- x1, written <- x2, lock <- x3, pc <- x4, plan <- x5, verify <- x6, losses <- x7


-----------------------------------------------------------------------------
(* The vault.                                                              *)

VaultEntry == [id : Nat, key : Int]
VaultStages == {"idle", "persist", "save", "write"}
VaultProcs == [at : VaultStages, list : Seq(VaultEntry)]

VaultTypes ==
  /\ x1 \in Int /\ x2 \in [torn : BOOLEAN, list : Seq(VaultEntry)]
  /\ x3 \in [Procs -> Int] /\ x4 \in [Procs -> VaultProcs]
  /\ x5 \in Nat /\ x6 \in Nat /\ x8 \subseteq Nat
  /\ \A p \in Procs : x4[p].at \in {"save", "write"} => x4[p].list # <<>>

\* Every entry of a list is under the first key, which is then persisted.
Keyed(list, state) == \A n \in DOMAIN list : list[n].key = 1 /\ state = 1

\* While there is one vault: nobody has another key, nobody has this one before it is
\* persisted but the process that persists it, and no entry was encrypted before that.
OneVault(state, file, active, proc, keys) ==
  /\ keys \in {0, 1} /\ state \in {0, 1, Vaults!HalfWritten}
  /\ keys = 0 => state = 0
  /\ \A p \in Procs :
       /\ active[p] \in {0, keys}
       /\ active[p] # 0 => state = 1 \/ proc[p].at = "persist"
       /\ proc[p].at = "persist" => state = Vaults!HalfWritten /\ active[p] = 1
       /\ Keyed(proc[p].list, state)
  /\ \A p, q \in Procs : proc[p].at = "persist" /\ proc[q].at = "persist" => p = q
  /\ Keyed(file.list, state)

\* The lists that are in the file or about to be written are in the order their entries
\* were made, and have every entry that somebody was told of.
InOrder(list, made) ==
  /\ \A n \in DOMAIN list : list[n].id <= made
  /\ \A m, n \in DOMAIN list : m < n => list[m].id < list[n].id
Has(list, told) == \A i \in told : \E n \in DOMAIN list : list[n].id = i

\* While saves do not overlap, one process at most is in the middle of one, and what it
\* writes is what the file had and one entry more.
OneSave(file, proc, made, told) ==
  /\ \A p, q \in Procs : proc[p].at \in {"save", "write"} /\ proc[q].at \in {"save", "write"} => p = q
  /\ file.torn => \E p \in Procs : proc[p].at = "write"
  /\ InOrder(file.list, made)
  /\ ~ file.torn => Has(file.list, told)
  /\ \A p \in Procs : proc[p].at \in {"save", "write"} =>
       InOrder(proc[p].list, made) /\ Has(proc[p].list, told) /\ proc[p].list # <<>>

VaultInv ==
  /\ VaultTypes
  /\ ~ x9 => OneVault(x1, x2, x3, x4, x5)
  /\ ~ x10 => OneSave(x2, x4, x6, x8)

LEMMA VaultStarts ==
  ASSUME Vaults!Init PROVE VaultInv
<1> USE DEF Vaults!Init, Vaults!Idle
<1>1. [at |-> "idle", list |-> <<>>] \in VaultProcs
  BY EmptySeq DEF VaultProcs, VaultStages
<1>2. [torn |-> FALSE, list |-> <<>>] \in [torn : BOOLEAN, list : Seq(VaultEntry)]
  BY EmptySeq
<1>3. VaultTypes
  BY <1>1, <1>2 DEF VaultTypes
<1>4. OneVault(x1, x2, x3, x4, x5)
  BY DEF OneVault, Keyed
<1>5. OneSave(x2, x4, x6, x8)
  BY DEF OneSave, InOrder, Has
<1> QED BY <1>3, <1>4, <1>5 DEF VaultInv

\* A process goes on to the next stage, or ends.
LEMMA VaultMoves ==
  ASSUME VaultTypes, NEW p \in Procs, NEW stage \in VaultStages, x4' = [x4 EXCEPT ![p].at = stage]
  PROVE  /\ x4' \in [Procs -> VaultProcs]
         /\ \A q \in Procs : x4'[q] = IF q = p THEN [at |-> stage, list |-> x4[p].list] ELSE x4[q]
<1>1. \A r \in VaultProcs : [r EXCEPT !.at = stage] = [at |-> stage, list |-> r.list]
  BY DEF VaultProcs
<1>2. x4[p] \in VaultProcs /\ x4 \in [Procs -> VaultProcs]
  BY DEF VaultTypes
<1>3. x4' = [x4 EXCEPT ![p] = [at |-> stage, list |-> x4[p].list]]
  BY <1>1, <1>2
<1>4. [at |-> stage, list |-> x4[p].list] \in VaultProcs
  BY <1>2 DEF VaultProcs
<1> QED BY <1>2, <1>3, <1>4

LEMMA VaultStops ==
  ASSUME VaultTypes, NEW p \in Procs, x4' = [x4 EXCEPT ![p] = Vaults!Idle]
  PROVE  /\ x4' \in [Procs -> VaultProcs]
         /\ \A q \in Procs : x4'[q] = IF q = p THEN [at |-> "idle", list |-> <<>>] ELSE x4[q]
<1>1. Vaults!Idle \in VaultProcs
  BY EmptySeq DEF Vaults!Idle, VaultProcs, VaultStages
<1>2. x4 \in [Procs -> VaultProcs]
  BY DEF VaultTypes
<1>3. x4' \in [Procs -> VaultProcs] /\ \A q \in Procs : x4'[q] = IF q = p THEN Vaults!Idle ELSE x4[q]
  BY <1>1, <1>2
<1> QED BY <1>3 DEF Vaults!Idle

LEMMA VaultInitStep ==
  ASSUME VaultInv, NEW p \in Procs, Vaults!VaultInit(p) PROVE VaultInv'
<1>1. /\ x4[p] = Vaults!Idle /\ x5' = x5 + 1 /\ x3' = [x3 EXCEPT ![p] = x5 + 1]
      /\ x1' = Vaults!HalfWritten /\ x4' = [x4 EXCEPT ![p].at = "persist"]
      /\ UNCHANGED <<x2, x6, x8>>
  BY DEF Vaults!VaultInit
<1>2. (~ x9' => ~ x9 /\ ~ (x5 > 0)) /\ (~ x10' => ~ x10)
  BY DEF Vaults!VaultInit
<1>3. VaultTypes /\ x5 \in Nat
  BY DEF VaultInv, VaultTypes
<1>4. x4[p].list = <<>> /\ "persist" \in VaultStages
  BY <1>1 DEF Vaults!Idle, VaultStages
<1>5. /\ x4' \in [Procs -> VaultProcs]
      /\ \A q \in Procs : x4'[q] = IF q = p THEN [at |-> "persist", list |-> x4[p].list] ELSE x4[q]
  BY <1>1, <1>3, <1>4, VaultMoves
<1>6. x4' \in [Procs -> VaultProcs]
  BY <1>5
<1>7. \A q \in Procs : x4'[q] = IF q = p THEN [at |-> "persist", list |-> <<>>] ELSE x4[q]
  BY <1>4, <1>5
<1>8. x3' \in [Procs -> Int] /\ x1' \in Int /\ x5' \in Nat
  BY <1>1, <1>3 DEF VaultTypes, Vaults!HalfWritten
<1>9. VaultTypes'
  BY <1>1, <1>3, <1>6, <1>8 DEF VaultTypes
<1>10. ASSUME ~ x9' PROVE OneVault(x1', x2', x3', x4', x5')
  <2>1. x5 = 0 /\ OneVault(x1, x2, x3, x4, x5) /\ x1 = 0
    BY <1>2, <1>3, <1>10 DEF VaultInv, OneVault
  <2>2. \A q \in Procs : x3[q] = 0 /\ x4[q].at # "persist" /\ DOMAIN x4[q].list = {}
    BY <2>1 DEF OneVault, Keyed, Vaults!HalfWritten
  <2>3. DOMAIN x2.list = {}
    BY <2>1 DEF OneVault, Keyed
  <2>4. \A q \in Procs : x3'[q] = IF q = p THEN 1 ELSE 0
    BY <1>1, <1>3, <2>1, <2>2 DEF VaultTypes
  <2>5. \A q \in Procs : DOMAIN x4'[q].list = {} /\ (x4'[q].at = "persist" <=> q = p)
    BY <1>7, <2>2
  <2>6. x5' = 1 /\ x2' = x2 /\ x1' = Vaults!HalfWritten
    BY <1>1, <2>1
  <2> QED BY <2>3, <2>4, <2>5, <2>6 DEF OneVault, Keyed
<1>11. ASSUME ~ x10' PROVE OneSave(x2', x4', x6', x8')
  <2>1. OneSave(x2, x4, x6, x8) /\ x4[p].at = "idle"
    BY <1>1, <1>2, <1>11 DEF VaultInv, Vaults!Idle
  <2> QED BY <1>1, <1>7, <2>1 DEF OneSave
<1> QED BY <1>9, <1>10, <1>11 DEF VaultInv

LEMMA PersistStep ==
  ASSUME VaultInv, NEW p \in Procs, Vaults!PersistVaultState(p) \/ Vaults!PersistFails(p)
  PROVE  VaultInv'
<1>1. /\ x4[p].at = "persist" /\ x4' = [x4 EXCEPT ![p] = Vaults!Idle]
      /\ UNCHANGED <<x2, x3, x5, x6, x8>>
  BY DEF Vaults!PersistVaultState, Vaults!PersistFails
<1>2. (~ x9' => ~ x9 /\ x1' = x3[p]) /\ x1' \in {x1, x3[p]} /\ (~ x10' => ~ x10)
  BY DEF Vaults!PersistVaultState, Vaults!PersistFails
<1>3. VaultTypes
  BY DEF VaultInv
<1>4. /\ x4' \in [Procs -> VaultProcs]
      /\ \A q \in Procs : x4'[q] = IF q = p THEN [at |-> "idle", list |-> <<>>] ELSE x4[q]
  BY <1>1, <1>3, VaultStops
<1>5. VaultTypes'
  BY <1>1, <1>2, <1>3, <1>4 DEF VaultTypes
<1>6. ASSUME ~ x9' PROVE OneVault(x1', x2', x3', x4', x5')
  <2>1. OneVault(x1, x2, x3, x4, x5) /\ x1' = x3[p]
    BY <1>2, <1>6 DEF VaultInv
  <2>2. x1 = Vaults!HalfWritten /\ x3[p] = 1 /\ x5 = 1
    BY <1>1, <2>1 DEF OneVault
  <2>3. \A q \in Procs : DOMAIN x4[q].list = {} /\ (x4[q].at = "persist" => q = p)
    BY <1>1, <2>1, <2>2 DEF OneVault, Keyed, Vaults!HalfWritten
  <2>4. DOMAIN x2.list = {}
    BY <2>1, <2>2 DEF OneVault, Keyed, Vaults!HalfWritten
  <2>5. \A q \in Procs : DOMAIN x4'[q].list = {} /\ x4'[q].at # "persist"
    BY <1>4, <2>3
  <2>6. \A q \in Procs : x3[q] \in {0, 1}
    BY <2>1, <2>2 DEF OneVault
  <2>7. x1' = 1 /\ x3' = x3 /\ x2' = x2 /\ x5' = 1
    BY <1>1, <2>1, <2>2
  <2> QED BY <2>4, <2>5, <2>6, <2>7 DEF OneVault, Keyed
<1>7. ASSUME ~ x10' PROVE OneSave(x2', x4', x6', x8')
  <2>1. OneSave(x2, x4, x6, x8)
    BY <1>2, <1>7 DEF VaultInv
  <2> QED BY <1>1, <1>4, <2>1 DEF OneSave
<1> QED BY <1>5, <1>6, <1>7 DEF VaultInv

LEMMA VaultEntryIds ==
  ASSUME NEW list \in Seq(VaultEntry)
  PROVE  \A i \in DOMAIN list : list[i] \in VaultEntry /\ list[i].id \in Nat
<1>1. \A i \in DOMAIN list : list[i] \in VaultEntry
  OBVIOUS
<1> QED BY <1>1 DEF VaultEntry

\* A list with the next entry behind it.
LEMMA VaultAppend ==
  ASSUME NEW list \in Seq(VaultEntry), NEW made \in Nat, NEW key \in Int
  PROVE  LET longer == Append(list, [id |-> made + 1, key |-> key]) IN
         /\ longer \in Seq(VaultEntry) /\ longer # <<>>
         /\ InOrder(list, made) => InOrder(longer, made + 1)
         /\ \A told : Has(list, told) => Has(longer, told)
         /\ \A state : Keyed(list, state) /\ key = 1 /\ state = 1 => Keyed(longer, state)
<1> DEFINE e == [id |-> made + 1, key |-> key]
           longer == Append(list, e)
<1>1. e \in VaultEntry /\ e.id = made + 1 /\ e.key = key
  BY DEF VaultEntry
<1> HIDE DEF e
<1>2. /\ longer \in Seq(VaultEntry) /\ Len(longer) = Len(list) + 1 /\ longer[Len(list) + 1] = e
      /\ \A i \in 1..Len(list) : longer[i] = list[i]
  BY <1>1, AppendProperties
<1>3. Len(list) \in Nat /\ DOMAIN list = 1..Len(list) /\ DOMAIN longer = 1..(Len(list) + 1)
  BY <1>2, LenProperties
<1>4. \A i \in DOMAIN longer : i = Len(list) + 1 \/ (i \in DOMAIN list /\ longer[i] = list[i])
  BY <1>2, <1>3
<1>5. \A i \in DOMAIN list : list[i].id \in Nat
  BY VaultEntryIds
<1>6. InOrder(list, made) => InOrder(longer, made + 1)
  <2>1. SUFFICES ASSUME InOrder(list, made) PROVE InOrder(longer, made + 1)
    OBVIOUS
  <2>2. \A i \in DOMAIN longer : longer[i].id <= made + 1
    BY <1>1, <1>2, <1>4, <1>5, <2>1 DEF InOrder
  <2>3. \A i, j \in DOMAIN longer : i < j => longer[i].id < longer[j].id
    <3>1. TAKE i, j \in DOMAIN longer
    <3>2. HAVE i < j
    <3>3. i \in DOMAIN list /\ longer[i] = list[i] /\ list[i].id <= made
      BY <1>3, <1>4, <2>1, <3>2 DEF InOrder
    <3>4. CASE j = Len(list) + 1
      BY <1>1, <1>2, <1>5, <3>3, <3>4
    <3>5. CASE j \in DOMAIN list /\ longer[j] = list[j]
      BY <2>1, <3>2, <3>3, <3>5 DEF InOrder
    <3> QED BY <1>4, <3>4, <3>5
  <2> QED BY <2>2, <2>3 DEF InOrder
<1>7. \A told : Has(list, told) => Has(longer, told)
  <2>1. \A i \in DOMAIN list : i \in DOMAIN longer /\ longer[i] = list[i]
    BY <1>2, <1>3
  <2> HIDE DEF longer
  <2> QED BY <2>1 DEF Has
<1>8. \A state : Keyed(list, state) /\ key = 1 /\ state = 1 => Keyed(longer, state)
  BY <1>1, <1>2, <1>4 DEF Keyed
<1>9. longer # <<>>
  BY <1>3
<1> QED BY <1>2, <1>6, <1>7, <1>8, <1>9 DEF e

LEMMA EncryptStep ==
  ASSUME VaultInv, NEW p \in Procs, Vaults!Encrypt(p) PROVE VaultInv'
<1> DEFINE key == Vaults!ActiveVault(p)
           list == Vaults!ReadAll
           longer == Append(list, [id |-> x6 + 1, key |-> key])
<1>1. /\ x4[p] = Vaults!Idle /\ key # 0 /\ x3' = [x3 EXCEPT ![p] = key] /\ x6' = x6 + 1
      /\ x4' = [x4 EXCEPT ![p] = [at |-> "save", list |-> longer]]
      /\ UNCHANGED <<x1, x2, x5, x8>>
  BY DEF Vaults!Encrypt
<1>2. /\ ~ x9' => ~ x9
      /\ ~ x10' => ~ x10 /\ ~ \E q \in Procs : x4[q].at \in {"save", "write"}
  BY DEF Vaults!Encrypt
<1>3. VaultTypes
  BY DEF VaultInv
<1>4. key \in {x3[p], x1, 0} /\ key \in Int /\ (key # x3[p] => key # Vaults!HalfWritten /\ x3[p] = 0)
  BY <1>3 DEF VaultTypes, Vaults!ActiveVault, Vaults!LoadPersistedVaultState, Vaults!HalfWritten
<1>5. list \in Seq(VaultEntry) /\ (list = <<>> \/ list = x2.list) /\ (~ x2.torn => list = x2.list)
  BY <1>3, EmptySeq DEF VaultTypes, Vaults!ReadAll
<1>6. x6 \in Nat
  BY <1>3 DEF VaultTypes
<1> HIDE DEF key, list
<1>7. /\ longer \in Seq(VaultEntry) /\ longer # <<>>
      /\ InOrder(list, x6) => InOrder(longer, x6 + 1)
      /\ Has(list, x8) => Has(longer, x8)
      /\ Keyed(list, x1) /\ key = 1 /\ x1 = 1 => Keyed(longer, x1)
  BY <1>4, <1>5, <1>6, VaultAppend
<1> HIDE DEF longer
<1>8. [at |-> "save", list |-> longer] \in VaultProcs
  BY <1>7 DEF VaultProcs, VaultStages
<1>9. /\ x4' \in [Procs -> VaultProcs]
      /\ \A q \in Procs : x4'[q] = IF q = p THEN [at |-> "save", list |-> longer] ELSE x4[q]
  BY <1>1, <1>3, <1>8 DEF VaultTypes
<1>10. x3' \in [Procs -> Int] /\ \A q \in Procs : x3'[q] = IF q = p THEN key ELSE x3[q]
  BY <1>1, <1>3, <1>4 DEF VaultTypes
<1>11. VaultTypes'
  BY <1>1, <1>3, <1>6, <1>7, <1>9, <1>10 DEF VaultTypes
<1>12. ASSUME ~ x9' PROVE OneVault(x1', x2', x3', x4', x5')
  <2>1. OneVault(x1, x2, x3, x4, x5) /\ x4[p].at = "idle"
    BY <1>1, <1>2, <1>12 DEF VaultInv, Vaults!Idle
  <2>2. x3[p] \in {0, x5} /\ x5 \in {0, 1} /\ x1 \in {0, 1, Vaults!HalfWritten} /\ (x3[p] # 0 => x1 = 1)
    BY <2>1 DEF OneVault
  <2>3. key = 1 /\ x1 = 1 /\ x5 = 1
    BY <1>1, <1>4, <2>1, <2>2 DEF OneVault
  <2>4. Keyed(list, x1)
    BY <1>5, <2>1 DEF OneVault, Keyed
  <2>5. Keyed(longer, x1)
    BY <1>7, <2>3, <2>4
  <2>6. \A q \in Procs : Keyed(x4'[q].list, x1) /\ x4'[q].at # "persist"
    BY <1>9, <2>1, <2>3, <2>5 DEF OneVault, Vaults!HalfWritten
  <2>7. \A q \in Procs : x3'[q] \in {0, 1}
    BY <1>10, <2>1, <2>3 DEF OneVault
  <2>8. x1' = 1 /\ x2' = x2 /\ x5' = 1 /\ Keyed(x2.list, 1)
    BY <1>1, <2>1, <2>3 DEF OneVault
  <2> QED BY <2>3, <2>6, <2>7, <2>8 DEF OneVault
<1>13. ASSUME ~ x10' PROVE OneSave(x2', x4', x6', x8')
  <2>1. OneSave(x2, x4, x6, x8) /\ \A q \in Procs : x4[q].at \notin {"save", "write"}
    BY <1>2, <1>13 DEF VaultInv
  <2>2. ~ x2.torn /\ list = x2.list
    BY <1>5, <2>1 DEF OneSave
  <2>3. InOrder(list, x6) /\ Has(list, x8)
    BY <2>1, <2>2 DEF OneSave
  <2>4. InOrder(longer, x6 + 1) /\ Has(longer, x8)
    BY <1>7, <2>3
  <2>5. \A n \in DOMAIN list : list[n].id \in Nat
    BY <1>5, VaultEntryIds
  <2>6. InOrder(list, x6 + 1)
    BY <1>6, <2>3, <2>5 DEF InOrder
  <2>7. \A q \in Procs : x4'[q].at \in {"save", "write"} => q = p
    BY <1>9, <2>1
  <2> QED BY <1>1, <1>7, <1>9, <2>2, <2>3, <2>4, <2>6, <2>7 DEF OneSave
<1> QED BY <1>11, <1>12, <1>13 DEF VaultInv

LEMMA WriteAllStep ==
  ASSUME VaultInv, NEW p \in Procs, Vaults!WriteAll(p) PROVE VaultInv'
<1>1. VaultTypes
  BY DEF VaultInv
<1>2. UNCHANGED <<x1, x3, x5, x6>> /\ (~ x9' => ~ x9) /\ (~ x10' => ~ x10)
  BY DEF Vaults!WriteAll
<1>3. CASE x4[p].at = "save"
  <2>1. x4' = [x4 EXCEPT ![p].at = "write"] /\ x2' = [torn |-> TRUE, list |-> <<>>] /\ x8' = x8
    BY <1>3 DEF Vaults!WriteAll
  <2>2. "write" \in VaultStages
    BY DEF VaultStages
  <2>3. /\ x4' \in [Procs -> VaultProcs]
        /\ \A q \in Procs : x4'[q] = IF q = p THEN [at |-> "write", list |-> x4[p].list] ELSE x4[q]
    BY <1>1, <2>1, <2>2, VaultMoves
  <2>4. x2' \in [torn : BOOLEAN, list : Seq(VaultEntry)] /\ x2'.torn /\ DOMAIN x2'.list = {}
    BY <2>1, EmptySeq
  <2>5. VaultTypes'
    BY <1>1, <1>2, <1>3, <2>1, <2>3, <2>4 DEF VaultTypes
  <2>6. ASSUME ~ x9' PROVE OneVault(x1', x2', x3', x4', x5')
    BY <1>2, <1>3, <2>3, <2>4, <2>6 DEF VaultInv, OneVault, Keyed
  <2>7. ASSUME ~ x10' PROVE OneSave(x2', x4', x6', x8')
    <3>1. OneSave(x2, x4, x6, x8)
      BY <1>2, <2>7 DEF VaultInv
    <3>2. \A q \in Procs : x4'[q].at \in {"save", "write"} => q = p
      BY <1>3, <2>3, <3>1 DEF OneSave
    <3>3. InOrder(x2'.list, x6')
      BY <2>4 DEF InOrder
    <3>4. x4'[p].at = "write" /\ x4'[p].list = x4[p].list
      BY <2>3
    <3>5. InOrder(x4[p].list, x6') /\ Has(x4[p].list, x8') /\ x4[p].list # <<>>
      BY <1>2, <1>3, <2>1, <3>1 DEF OneSave
    <3> QED BY <2>4, <3>2, <3>3, <3>4, <3>5 DEF OneSave
  <2> QED BY <2>5, <2>6, <2>7 DEF VaultInv
<1>4. CASE x4[p].at = "write"
  <2> DEFINE list == x4[p].list
  <2>1. /\ x4' = [x4 EXCEPT ![p] = Vaults!Idle] /\ x2' = [torn |-> FALSE, list |-> list]
        /\ x8' = x8 \cup {Vaults!Last(list).id}
    BY <1>4 DEF Vaults!WriteAll
  <2>2. /\ x4' \in [Procs -> VaultProcs]
        /\ \A q \in Procs : x4'[q] = IF q = p THEN [at |-> "idle", list |-> <<>>] ELSE x4[q]
    BY <1>1, <2>1, VaultStops
  <2>3. list \in Seq(VaultEntry)
    BY <1>1 DEF VaultTypes, VaultProcs
  <2>4. Vaults!Last(list) = list[Len(list)]
    BY DEF Vaults!Last
  <2> HIDE DEF list
  <2>5. Keyed(list, x1) => Keyed(x2'.list, x1)
    BY <2>1
  <2>6. ASSUME ~ x9' PROVE OneVault(x1', x2', x3', x4', x5')
    <3>1. OneVault(x1, x2, x3, x4, x5)
      BY <1>2, <2>6 DEF VaultInv
    <3>2. Keyed(x2'.list, x1)
      BY <2>5, <3>1 DEF OneVault, list
    <3>3. \A q \in Procs : /\ Keyed(x4'[q].list, x1)
                           /\ x4'[q].at = "persist" <=> x4[q].at = "persist"
      BY <1>4, <2>2, <3>1 DEF OneVault, Keyed
    <3> QED BY <1>2, <3>1, <3>2, <3>3 DEF OneVault
  <2>7. ASSUME ~ x10' PROVE OneSave(x2', x4', x6', x8')
    <3>1. OneSave(x2, x4, x6, x8)
      BY <1>2, <2>7 DEF VaultInv
    <3>2. \A q \in Procs : x4'[q].at \notin {"save", "write"}
      BY <1>4, <2>2, <3>1 DEF OneSave
    <3>3. InOrder(list, x6) /\ Has(list, x8) /\ list # <<>>
      BY <1>4, <3>1 DEF OneSave, list
    <3>4. Len(list) \in DOMAIN list
      BY <2>3, <3>3, LenProperties, EmptySeq
    <3>5. Has(list, x8')
      BY <2>1, <2>4, <3>3, <3>4 DEF Has
    <3> QED BY <1>2, <2>1, <3>2, <3>3, <3>5 DEF OneSave
  <2>8. x8' \subseteq Nat
    <3>1. Len(list) \in DOMAIN list
      BY <1>1, <1>4, <2>3, LenProperties, EmptySeq DEF VaultTypes, list
    <3>2. Vaults!Last(list).id \in Nat
      BY <2>3, <2>4, <3>1, VaultEntryIds
    <3> QED BY <1>1, <2>1, <3>2 DEF VaultTypes
  <2>9. x2' \in [torn : BOOLEAN, list : Seq(VaultEntry)]
    BY <2>1, <2>3
  <2>10. VaultTypes'
    BY <1>1, <1>2, <2>2, <2>8, <2>9 DEF VaultTypes
  <2> QED BY <2>6, <2>7, <2>10 DEF VaultInv
<1> QED BY <1>3, <1>4 DEF Vaults!WriteAll

LEMMA VaultRestartStep ==
  ASSUME VaultInv, NEW p \in Procs, Vaults!Restart(p) PROVE VaultInv'
<1>1. /\ x3' = [x3 EXCEPT ![p] = 0] /\ x4' = [x4 EXCEPT ![p] = Vaults!Idle]
      /\ UNCHANGED <<x1, x2, x5, x6, x8>>
  BY DEF Vaults!Restart
<1>2. /\ ~ x9' => ~ x9 /\ x4[p].at # "persist"
      /\ ~ x10' => ~ x10 /\ x4[p].at # "write"
  BY DEF Vaults!Restart
<1>3. VaultTypes
  BY DEF VaultInv
<1>4. /\ x4' \in [Procs -> VaultProcs]
      /\ \A q \in Procs : x4'[q] = IF q = p THEN [at |-> "idle", list |-> <<>>] ELSE x4[q]
  BY <1>1, <1>3, VaultStops
<1>5. x3' \in [Procs -> Int] /\ \A q \in Procs : x3'[q] = IF q = p THEN 0 ELSE x3[q]
  BY <1>1, <1>3 DEF VaultTypes
<1>6. VaultTypes'
  BY <1>1, <1>3, <1>4, <1>5 DEF VaultTypes
<1>7. ASSUME ~ x9' PROVE OneVault(x1', x2', x3', x4', x5')
  BY <1>1, <1>2, <1>4, <1>5, <1>7 DEF VaultInv, OneVault, Keyed
<1>8. ASSUME ~ x10' PROVE OneSave(x2', x4', x6', x8')
  BY <1>1, <1>2, <1>4, <1>8 DEF VaultInv, OneSave
<1> QED BY <1>6, <1>7, <1>8 DEF VaultInv

LEMMA VaultStep ==
  ASSUME VaultInv, Vaults!Next \/ UNCHANGED <<x1, x2, x3, x4, x5, x6, x7, x8, x9, x10>>
  PROVE  VaultInv'
<1>1. CASE UNCHANGED <<x1, x2, x3, x4, x5, x6, x7, x8, x9, x10>>
  BY <1>1 DEF VaultInv, VaultTypes
<1>2. ASSUME NEW p \in Procs,
             \/ Vaults!VaultInit(p) \/ Vaults!PersistVaultState(p) \/ Vaults!PersistFails(p)
             \/ Vaults!Encrypt(p) \/ Vaults!WriteAll(p) \/ Vaults!Restart(p)
      PROVE  VaultInv'
  BY <1>2, VaultInitStep, PersistStep, EncryptStep, WriteAllStep, VaultRestartStep
<1> QED BY <1>1, <1>2 DEF Vaults!Next

LEMMA VaultOpens ==
  ASSUME VaultInv PROVE Vaults!StoredEntriesOpen /\ Vaults!SavedEntriesStay
<1>1. Vaults!StoredEntriesOpen
  <2>1. SUFFICES ASSUME ~ x9
                 PROVE  /\ \A n \in 1..Len(Vaults!ReadAll) :
                             Vaults!ReadAll[n].key = Vaults!LoadPersistedVaultState
                        /\ \A p \in Procs : x3[p] # 0 /\ x4[p].at # "persist" => x3[p] = x1
    BY DEF Vaults!StoredEntriesOpen
  <2>2. OneVault(x1, x2, x3, x4, x5)
    BY <2>1 DEF VaultInv
  <2>3. \A p \in Procs : x3[p] # 0 /\ x4[p].at # "persist" => x3[p] = x1
    BY <2>2 DEF OneVault
  <2>4. CASE x2.torn
    BY <2>3, <2>4, EmptySeq, LenProperties DEF Vaults!ReadAll
  <2>5. CASE ~ x2.torn
    <3>1. Vaults!ReadAll = x2.list /\ DOMAIN x2.list = 1..Len(x2.list)
      BY <2>5, LenProperties DEF Vaults!ReadAll, VaultInv, VaultTypes
    <3>2. \A n \in DOMAIN x2.list : x2.list[n].key = 1 /\ x1 = 1
      BY <2>2 DEF OneVault, Keyed
    <3>3. x1 = 1 => Vaults!LoadPersistedVaultState = 1
      BY DEF Vaults!LoadPersistedVaultState, Vaults!HalfWritten
    <3> QED BY <2>3, <3>1, <3>2, <3>3
  <2> QED BY <2>4, <2>5
<1>2. Vaults!SavedEntriesStay
  <2>1. SUFFICES ASSUME ~ x10, ~ x2.torn
                 PROVE  /\ x8 \subseteq {x2.list[n].id : n \in DOMAIN x2.list}
                        /\ \A m, n \in DOMAIN x2.list : m < n => x2.list[m].id < x2.list[n].id
    BY DEF Vaults!SavedEntriesStay
  <2>2. OneSave(x2, x4, x6, x8)
    BY <2>1 DEF VaultInv
  <2> QED BY <2>1, <2>2 DEF OneSave, InOrder, Has
<1> QED BY <1>1, <1>2

-----------------------------------------------------------------------------
(* Snapshots and rollback.                                                 *)

\* A set of times has a least and, below a bound, a greatest one.
LEMMA LeastTime ==
  ASSUME NEW T, T \subseteq Nat, T # {} PROVE \E t \in T : \A u \in T : t <= u
<1> DEFINE R == OpToRel(<, Nat)
<1>1. IsWellFoundedOn(R, Nat)
  BY NatLessThanWellFounded
<1>2. \A t, u \in Nat : u < t => <<u, t>> \in R
  BY DEF OpToRel
<1> HIDE DEF R
<1>3. PICK t \in T : \A u \in T : ~ (<<u, t>> \in R)
  BY <1>1, WFMin
<1>4. \A u \in T : ~ (u < t)
  BY <1>2, <1>3
<1> QED BY <1>4

LEMMA GreatestTime ==
  ASSUME NEW n \in Nat, NEW T, T \subseteq 0..n, T # {} PROVE \E t \in T : \A u \in T : u <= t
<1> DEFINE D == {n - t : t \in T}
<1>1. D \subseteq Nat /\ D # {}
  <2>1. \A t \in T : n - t \in Nat
    OBVIOUS
  <2> QED BY <2>1
<1>2. PICK d \in D : \A e \in D : d <= e
  BY <1>1, LeastTime
<1>3. PICK t \in T : d = n - t
  BY <1>2
<1>4. \A u \in T : d <= n - u
  BY <1>2
<1> QED BY <1>3, <1>4

SnapFiles == ChainFiles \cup {"config"}
FileContents == FileVersions \cup {Gone, Torn}
Disks == [SnapFiles -> FileContents]
SnapshotFiles == [holds : Disks, file : {"none", "torn", "whole"}]
Frames == [from : Disks, todo : SUBSET SnapFiles, temp : Snapshots!Times]
Ended == {"restored", "undone", "lost", "dead"}

RollbackTypes ==
  /\ x1 \in Disks /\ x2 \in [Snapshots!Times -> SnapshotFiles] /\ x3 \in Seq(Frames)
  /\ x4 \in Snapshots!Times /\ x7 \in Disks

\* Snapshot t can be read and holds what there was.
Saves(snaps, t, before) == snaps[t].file = "whole" /\ snaps[t].holds = before
\* What a restore has yet to write, apart, every file that there was is back.
Restored(disk, todo, before) ==
  \A f \in SnapFiles : before[f] # Gone /\ f \notin todo => disk[f] = before[f]

\* The outermost rollback saved what it found, and the frame that its error path begins
\* restores that. A third frame restores what the second left, and promises nothing.
RollbackHistory(disk, snaps, frames, before, outcome) ==
  /\ frames # <<>> => Saves(snaps, frames[Len(frames)].temp, before)
  /\ Len(frames) = 2 =>
       /\ frames[1].from = before
       /\ Restored(disk, frames[1].todo, before)
  /\ outcome \in Ended => \E t \in Snapshots!Times : Saves(snaps, t, before)
  /\ outcome = "undone" => Restored(disk, {}, before)

RollbackInv ==
  /\ RollbackTypes
  /\ x3 # <<>> => x8 = "running"
  /\ x9 => RollbackHistory(x1, x2, x3, x7, x8)

LEMMA RollbackStarts ==
  ASSUME Snapshots!Init PROVE RollbackInv
<1>1. PICK v \in FileVersions \cup {Gone} : x1 = [f \in SnapFiles |-> v]
  BY DEF Snapshots!Init, SnapFiles
<1>2. x1 \in Disks
  BY <1>1 DEF Disks, FileContents
<1>3. /\ x2 = [t \in Snapshots!Times |-> Snapshots!NoSnapshot] /\ x3 = <<>> /\ x4 = 0
      /\ x7 = x1 /\ x8 = "none"
  BY DEF Snapshots!Init
<1>4. Snapshots!NoSnapshot \in SnapshotFiles
  BY DEF Snapshots!NoSnapshot, SnapshotFiles, Disks, FileContents, SnapFiles
<1>5. 0 \in Snapshots!Times
  BY SnapshotsAssumption DEF Snapshots!Times
<1>6. RollbackTypes
  BY <1>2, <1>3, <1>4, <1>5, EmptySeq DEF RollbackTypes
<1>7. Len(x3) = 0
  BY <1>3, EmptySeq
<1>8. RollbackHistory(x1, x2, x3, x7, x8)
  BY <1>3, <1>7 DEF RollbackHistory, Ended
<1> QED BY <1>3, <1>6, <1>8 DEF RollbackInv

\* A snapshot is of the files as they are, in a millisecond of its own, or not clean.
LEMMA SnapshotTaken ==
  ASSUME RollbackTypes, Snapshots!TakeSnapshot
  PROVE  /\ x2' \in [Snapshots!Times -> SnapshotFiles]
         /\ x9' => /\ x9 /\ Saves(x2', x4, x1)
                   /\ \A t \in Snapshots!Times : x2[t].file # "none" => x2'[t] = x2[t]
<1>1. PICK contents \in Snapshots!Readable : Snapshots!Take(contents)
  BY DEF Snapshots!TakeSnapshot, Snapshots!Readable
<1>2. contents \in Disks
  <2>1. Snapshots!Readable = {x1} \cup {[x1 EXCEPT ![f] = Gone] : f \in SnapFiles}
    BY DEF Snapshots!Readable, SnapFiles
  <2>2. \A f \in SnapFiles : [x1 EXCEPT ![f] = Gone] \in Disks
    BY DEF RollbackTypes, Disks, FileContents
  <2> QED BY <2>1, <2>2 DEF RollbackTypes
<1>3. /\ x2' = [x2 EXCEPT ![x4] = [holds |-> contents, file |-> "whole"]]
      /\ x9' => x9 /\ contents = x1 /\ x2[x4].file = "none"
  BY <1>1 DEF Snapshots!Take
<1>4. [holds |-> contents, file |-> "whole"] \in SnapshotFiles
  BY <1>2 DEF SnapshotFiles
<1>5. x4 \in Snapshots!Times /\ x2 \in [Snapshots!Times -> SnapshotFiles]
  BY DEF RollbackTypes
<1>6. /\ x2' \in [Snapshots!Times -> SnapshotFiles]
      /\ \A t \in Snapshots!Times :
           x2'[t] = IF t = x4 THEN [holds |-> contents, file |-> "whole"] ELSE x2[t]
  BY <1>3, <1>4, <1>5
<1>7. \A t \in Snapshots!Times : x2[t].file # "none" /\ x2[x4].file = "none" => x2'[t] = x2[t]
  BY <1>6
<1>8. x2'[x4].file = "whole" /\ x2'[x4].holds = contents
  BY <1>5, <1>6
<1> QED BY <1>3, <1>6, <1>7, <1>8 DEF Saves

\* What was saved stays saved while snapshots that are there are not overwritten.
LEMMA StaysSaved ==
  ASSUME NEW old, NEW new, NEW before,
         \A t \in Snapshots!Times : old[t].file # "none" => new[t] = old[t]
  PROVE  \A t \in Snapshots!Times : Saves(old, t, before) => Saves(new, t, before)
BY DEF Saves

LEMMA CreateSnapshotStep ==
  ASSUME RollbackInv, Snapshots!CreateSnapshot PROVE RollbackInv'
<1>1. RollbackTypes /\ x3 = <<>> /\ x8' = "none" /\ UNCHANGED <<x1, x3, x4, x7>>
  BY DEF Snapshots!CreateSnapshot, Snapshots!Idle, RollbackInv
<1>2. x2' \in [Snapshots!Times -> SnapshotFiles]
  BY <1>1, SnapshotTaken DEF Snapshots!CreateSnapshot
<1>3. Len(x3') = 0
  BY <1>1, EmptySeq
<1> QED BY <1>1, <1>2, <1>3 DEF RollbackInv, RollbackTypes, RollbackHistory, Ended

LEMMA TearSnapshotStep ==
  ASSUME RollbackInv, Snapshots!TearSnapshot PROVE RollbackInv'
<1>1. RollbackTypes /\ x3 = <<>> /\ x8' = "none" /\ UNCHANGED <<x1, x3, x4, x7>>
  BY DEF Snapshots!TearSnapshot, Snapshots!Idle, RollbackInv
<1>2. x2' \in [Snapshots!Times -> SnapshotFiles]
  <2>1. x2' = [x2 EXCEPT ![x4] = [Snapshots!NoSnapshot EXCEPT !.file = "torn"]]
    BY DEF Snapshots!TearSnapshot
  <2>2. [Snapshots!NoSnapshot EXCEPT !.file = "torn"] \in SnapshotFiles
    BY DEF Snapshots!NoSnapshot, SnapshotFiles, Disks, FileContents, SnapFiles
  <2> QED BY <1>1, <2>1, <2>2 DEF RollbackTypes
<1>3. Len(x3') = 0
  BY <1>1, EmptySeq
<1> QED BY <1>1, <1>2, <1>3 DEF RollbackInv, RollbackTypes, RollbackHistory, Ended

LEMMA FrameType ==
  ASSUME RollbackTypes, NEW t \in Snapshots!Times
  PROVE  /\ Snapshots!Frame(t) \in Frames
         /\ Snapshots!Frame(t).from = x2[t].holds /\ Snapshots!Frame(t).temp = x4
         /\ Snapshots!Frame(t).todo = {f \in SnapFiles : x2[t].holds[f] # Gone}
<1>1. x2[t].holds \in Disks /\ x4 \in Snapshots!Times
  BY DEF RollbackTypes, SnapshotFiles
<1>2. Snapshots!Held(t) = {f \in SnapFiles : x2[t].holds[f] # Gone}
  BY DEF Snapshots!Held, SnapFiles
<1> QED BY <1>1, <1>2 DEF Snapshots!Frame, Frames

LEMMA BeginStep ==
  ASSUME RollbackInv, NEW t \in Snapshots!Times, Snapshots!Begin(t) PROVE RollbackInv'
<1> DEFINE frame == Snapshots!Frame(t)
<1>1. /\ RollbackTypes /\ x3' = <<frame>> /\ x7' = x1 /\ x8' = "running"
      /\ UNCHANGED <<x1, x4>>
  BY DEF Snapshots!Begin, RollbackInv
<1>2. x2' \in [Snapshots!Times -> SnapshotFiles] /\ (x9' => Saves(x2', x4, x1))
  BY <1>1, SnapshotTaken DEF Snapshots!Begin
<1>3. frame \in Frames /\ frame.temp = x4
  BY <1>1, FrameType
<1> HIDE DEF frame
<1>4. x3' \in Seq(Frames) /\ Len(x3') = 1 /\ x3'[1] = frame
  BY <1>1, <1>3
<1>5. RollbackTypes'
  BY <1>1, <1>2, <1>4 DEF RollbackTypes
<1>6. x9' => RollbackHistory(x1', x2', x3', x7', x8')
  BY <1>1, <1>2, <1>3, <1>4 DEF RollbackHistory, Ended
<1> QED BY <1>1, <1>5, <1>6 DEF RollbackInv

LEMMA AutoRollbackStep ==
  ASSUME RollbackInv, Snapshots!AutoRollback PROVE RollbackInv'
<1> DEFINE T == {t \in Snapshots!Times : x2[t].file # "none"}
<1>1. T # {} /\ T \subseteq 0..MaxSnapshotTime
  BY DEF Snapshots!AutoRollback, Snapshots!Times
<1>2. \E t \in T : \A u \in T : u <= t
  BY <1>1, GreatestTime, SnapshotsAssumption
<1>3. Snapshots!Latest \in Snapshots!Times
  BY <1>2 DEF Snapshots!Latest
<1> QED BY <1>3, BeginStep DEF Snapshots!AutoRollback

\* A sequence with one element replaced.
LEMMA ReplacedInSeq ==
  ASSUME NEW S, NEW s \in Seq(S), NEW n \in 1..Len(s), NEW e \in S
  PROVE  /\ [s EXCEPT ![n] = e] \in Seq(S) /\ Len([s EXCEPT ![n] = e]) = Len(s)
         /\ \A i \in 1..Len(s) : [s EXCEPT ![n] = e][i] = IF i = n THEN e ELSE s[i]
<1>1. /\ Len(s) \in Nat /\ DOMAIN s = 1..Len(s) /\ \A i \in 1..Len(s) : s[i] \in S
      /\ s \in [1..Len(s) -> S]
  BY LenProperties, ElementOfSeq
<1> DEFINE r == [s EXCEPT ![n] = e]
<1>2. r \in [1..Len(s) -> S] /\ \A i \in 1..Len(s) : r[i] = IF i = n THEN e ELSE s[i]
  BY <1>1
<1>3. r \in Seq(S) /\ DOMAIN r = 1..Len(s)
  BY <1>1, <1>2, IsASeq
<1>4. Len(r) = Len(s)
  BY <1>1, <1>3, LenProperties
<1> QED BY <1>2, <1>3, <1>4

LEMMA WriteOneStep ==
  ASSUME RollbackInv, NEW f \in SnapFiles, Snapshots!WriteOne(f) PROVE RollbackInv'
<1>1. /\ RollbackTypes /\ x3 # <<>> /\ x8 = "running"
      /\ x1' = [x1 EXCEPT ![f] = x3[1].from[f]]
      /\ x3' = [x3 EXCEPT ![1].todo = @ \ {f}]
      /\ UNCHANGED <<x2, x4, x7, x8>> /\ (x9' => x9)
  BY DEF Snapshots!WriteOne, Snapshots!Top, Snapshots!Idle, RollbackInv
<1>2. Len(x3) \in Nat \ {0} /\ \A i \in 1..Len(x3) : x3[i] \in Frames
  BY <1>1, EmptySeq, ElementOfSeq DEF RollbackTypes
<1>3. 1 \in 1..Len(x3) /\ x3[1] \in Frames
  BY <1>2
<1> DEFINE frame == [from |-> x3[1].from, todo |-> x3[1].todo \ {f}, temp |-> x3[1].temp]
<1>4. x3' = [x3 EXCEPT ![1] = frame] /\ frame \in Frames
  <2>1. \A e \in Frames : [e EXCEPT !.todo = @ \ {f}] = [from |-> e.from, todo |-> e.todo \ {f}, temp |-> e.temp]
    BY DEF Frames
  <2>2. x3' = [x3 EXCEPT ![1] = [x3[1] EXCEPT !.todo = @ \ {f}]]
    BY <1>1
  <2> QED BY <1>3, <2>1, <2>2 DEF Frames
<1>5. frame.from = x3[1].from /\ frame.todo = x3[1].todo \ {f} /\ frame.temp = x3[1].temp
  OBVIOUS
<1> HIDE DEF frame
<1>6. /\ x3' \in Seq(Frames) /\ Len(x3') = Len(x3)
      /\ \A i \in 1..Len(x3) : x3'[i] = IF i = 1 THEN frame ELSE x3[i]
  <2>1. x3 \in Seq(Frames) /\ frame \in Frames /\ 1 \in 1..Len(x3)
    BY <1>1, <1>3, <1>4 DEF RollbackTypes
  <2> QED BY <1>4, <2>1, ReplacedInSeq
<1>7. x3[1].from \in Disks /\ x3[1].from[f] \in FileContents
  BY <1>3 DEF Frames, Disks
<1>8. x1' \in Disks /\ \A g \in SnapFiles : x1'[g] = IF g = f THEN x3[1].from[f] ELSE x1[g]
  BY <1>1, <1>7 DEF RollbackTypes, Disks
<1>9. RollbackTypes'
  BY <1>1, <1>6, <1>8 DEF RollbackTypes
<1>10. ASSUME x9' PROVE RollbackHistory(x1', x2', x3', x7', x8')
  <2>1. RollbackHistory(x1, x2, x3, x7, x8)
    BY <1>1, <1>10 DEF RollbackInv
  <2>2. x3'[Len(x3')].temp = x3[Len(x3)].temp /\ x3'[1].from = x3[1].from
    BY <1>2, <1>3, <1>5, <1>6
  <2>3. Saves(x2', x3'[Len(x3')].temp, x7')
    BY <1>1, <2>1, <2>2 DEF RollbackHistory
  <2>4. x3'[1].todo = x3[1].todo \ {f}
    BY <1>3, <1>5, <1>6
  <2>5. Len(x3) = 2 => x3[1].from = x7 /\ Restored(x1, x3[1].todo, x7)
    BY <2>1 DEF RollbackHistory
  <2>6. Len(x3') = 2 => x3'[1].from = x7' /\ Restored(x1', x3'[1].todo, x7')
    BY <1>1, <1>6, <1>8, <2>2, <2>4, <2>5 DEF Restored
  <2> QED BY <1>1, <2>3, <2>6 DEF RollbackHistory, Ended
<1> QED BY <1>1, <1>9, <1>10 DEF RollbackInv

\* A sequence with one element more in front.
LEMMA InFront ==
  ASSUME NEW S, NEW s \in Seq(S), NEW e \in S
  PROVE  /\ <<e>> \o s \in Seq(S) /\ Len(<<e>> \o s) = Len(s) + 1 /\ (<<e>> \o s)[1] = e
         /\ s # <<>> => (<<e>> \o s)[Len(s) + 1] = s[Len(s)]
<1>1. <<e>> \in Seq(S) /\ Len(<<e>>) = 1 /\ <<e>>[1] = e
  OBVIOUS
<1>2. Len(s) \in Nat /\ (s # <<>> => Len(s) > 0)
  BY EmptySeq, LenProperties
<1> DEFINE one == <<e>>
<1> HIDE DEF one
<1>3. /\ one \o s \in Seq(S) /\ Len(one \o s) = Len(one) + Len(s)
      /\ \A i \in 1..(Len(one) + Len(s)) :
           (one \o s)[i] = IF i <= Len(one) THEN one[i] ELSE s[i - Len(one)]
  BY <1>1, ConcatProperties DEF one
<1>4. Len(one) = 1 /\ one[1] = e
  BY <1>1 DEF one
<1>5. (one \o s)[1] = e /\ (s # <<>> => (one \o s)[Len(s) + 1] = s[Len(s)])
  BY <1>2, <1>3, <1>4
<1> QED BY <1>2, <1>3, <1>4, <1>5 DEF one

LEMMA WriteFailsStep ==
  ASSUME RollbackInv, NEW f \in SnapFiles, Snapshots!WriteFails(f) PROVE RollbackInv'
<1> DEFINE t == x3[1].temp
           frame == Snapshots!Frame(t)
           taken == [holds |-> x1', file |-> "whole"]
<1>1. /\ RollbackTypes /\ x3 # <<>> /\ x8 = "running"
      /\ x1' = [x1 EXCEPT ![f] = Torn]
      /\ x2' = [x2 EXCEPT ![x4] = taken]
      /\ x3' = <<frame>> \o x3
      /\ UNCHANGED <<x4, x7, x8>>
  BY DEF Snapshots!WriteFails, Snapshots!Top, Snapshots!Idle, RollbackInv
<1>2. x9' => x9 /\ x2[x4].file = "none"
  BY DEF Snapshots!WriteFails
<1>3. Len(x3) \in Nat \ {0} /\ \A i \in 1..Len(x3) : x3[i] \in Frames
  BY <1>1, EmptySeq, ElementOfSeq DEF RollbackTypes
<1>4. t \in Snapshots!Times
  <2>1. x3[1] \in Frames
    BY <1>3
  <2> QED BY <2>1 DEF Frames
<1> HIDE DEF t
<1>5. /\ frame \in Frames /\ frame.from = x2[t].holds
      /\ frame.todo = {g \in SnapFiles : x2[t].holds[g] # Gone}
  BY <1>1, <1>4, FrameType
<1>6. x1' \in Disks
  BY <1>1 DEF RollbackTypes, Disks, FileContents
<1>7. taken \in SnapshotFiles
  BY <1>6 DEF SnapshotFiles
<1> HIDE DEF taken, frame
<1>8. x4 \in Snapshots!Times /\ x2 \in [Snapshots!Times -> SnapshotFiles] /\ x3 \in Seq(Frames)
  BY <1>1 DEF RollbackTypes
<1>9. /\ x2' \in [Snapshots!Times -> SnapshotFiles]
      /\ \A u \in Snapshots!Times : x2'[u] = IF u = x4 THEN taken ELSE x2[u]
  BY <1>1, <1>7, <1>8
<1>10. /\ x3' \in Seq(Frames) /\ Len(x3') = Len(x3) + 1 /\ x3'[1] = frame
       /\ x3'[Len(x3')] = x3[Len(x3)]
  BY <1>1, <1>3, <1>5, <1>8, InFront
<1>11. RollbackTypes'
  BY <1>1, <1>6, <1>9, <1>10 DEF RollbackTypes
<1>12. ASSUME x9' PROVE RollbackHistory(x1', x2', x3', x7', x8')
  <2>1. RollbackHistory(x1, x2, x3, x7, x8) /\ x2[x4].file = "none"
    BY <1>2, <1>12 DEF RollbackInv
  <2>2. Saves(x2, x3[Len(x3)].temp, x7)
    BY <1>1, <2>1 DEF RollbackHistory
  <2>3. x3[Len(x3)].temp \in Snapshots!Times
    <3>1. x3[Len(x3)] \in Frames
      BY <1>3
    <3> QED BY <3>1 DEF Frames
  <2>4. \A u \in Snapshots!Times : x2[u].file # "none" => x2'[u] = x2[u]
    BY <1>9, <2>1
  <2>5. Saves(x2', x3'[Len(x3')].temp, x7')
    BY <1>1, <1>10, <2>2, <2>3, <2>4 DEF Saves
  <2>6. ASSUME Len(x3') = 2 PROVE frame.from = x7 /\ Restored(x1', frame.todo, x7)
    <3>1. Len(x3) = 1
      <4>1. Len(x3) \in Nat /\ Len(x3') = Len(x3) + 1
        BY <1>3, <1>10
      <4>2. \A n \in Nat : n + 1 = 2 => n = 1
        OBVIOUS
      <4> QED BY <2>6, <4>1, <4>2
    <3>2. x2[t].holds = x7
      BY <2>2, <3>1 DEF Saves, t
    <3> QED BY <1>5, <3>2 DEF Restored
  <2> QED BY <1>1, <1>10, <2>5, <2>6 DEF RollbackHistory, Ended
<1> QED BY <1>1, <1>11, <1>12 DEF RollbackInv

LEMMA FinishStep ==
  ASSUME RollbackInv, Snapshots!Finish PROVE RollbackInv'
<1>1. /\ RollbackTypes /\ x3 # <<>> /\ x3[1].todo = {} /\ x3' = <<>>
      /\ x8' = CASE Len(x3) = 1 -> "restored" [] Len(x3) = 2 -> "undone" [] OTHER -> "lost"
      /\ UNCHANGED <<x1, x2, x4, x7>> /\ (x9' => x9)
  BY DEF Snapshots!Finish, Snapshots!Top, Snapshots!Idle, RollbackInv
<1>2. RollbackTypes'
  BY <1>1, EmptySeq DEF RollbackTypes
<1>3. ASSUME x9' PROVE RollbackHistory(x1', x2', x3', x7', x8')
  <2>1. RollbackHistory(x1, x2, x3, x7, x8)
    BY <1>1, <1>3 DEF RollbackInv
  <2>2. x8' = "undone" => Len(x3) = 2
    BY <1>1
  <2>3. x8' = "undone" => Restored(x1', {}, x7')
    BY <1>1, <2>1, <2>2 DEF RollbackHistory
  <2>4. Len(x3) \in Nat \ {0} /\ \A i \in 1..Len(x3) : x3[i] \in Frames
    BY <1>1, EmptySeq, ElementOfSeq DEF RollbackTypes
  <2>5. x3[Len(x3)] \in Frames
    BY <2>4
  <2>6. x3[Len(x3)].temp \in Snapshots!Times
    BY <2>5 DEF Frames
  <2>7. \E t \in Snapshots!Times : Saves(x2', t, x7')
    BY <1>1, <2>1, <2>6 DEF RollbackHistory
  <2>8. Len(x3') = 0
    BY <1>1, EmptySeq
  <2> QED BY <1>1, <2>3, <2>7, <2>8 DEF RollbackHistory
<1> QED BY <1>1, <1>2, <1>3 DEF RollbackInv

LEMMA CrashStep ==
  ASSUME RollbackInv, Snapshots!Crash PROVE RollbackInv'
<1>1. /\ RollbackTypes /\ x3 # <<>> /\ x3' = <<>> /\ x8' = "dead"
      /\ UNCHANGED <<x2, x4, x7>> /\ (x9' => x9)
  BY DEF Snapshots!Crash, Snapshots!Idle, RollbackInv
<1>2. x1' \in Disks
  BY <1>1 DEF Snapshots!Crash, RollbackTypes, Disks, FileContents
<1>3. RollbackTypes'
  BY <1>1, <1>2, EmptySeq DEF RollbackTypes
<1>4. ASSUME x9' PROVE RollbackHistory(x1', x2', x3', x7', x8')
  <2>1. Saves(x2, x3[Len(x3)].temp, x7)
    BY <1>1, <1>4 DEF RollbackInv, RollbackHistory
  <2>2. Len(x3) \in Nat \ {0} /\ \A i \in 1..Len(x3) : x3[i] \in Frames
    BY <1>1, EmptySeq, ElementOfSeq DEF RollbackTypes
  <2>3. x3[Len(x3)] \in Frames
    BY <2>2
  <2>4. x3[Len(x3)].temp \in Snapshots!Times
    BY <2>3 DEF Frames
  <2>5. Len(x3') = 0
    BY <1>1, EmptySeq
  <2> QED BY <1>1, <2>1, <2>4, <2>5 DEF RollbackHistory
<1> QED BY <1>1, <1>3, <1>4 DEF RollbackInv

LEMMA EditStep ==
  ASSUME RollbackInv, NEW f \in SnapFiles, NEW v \in FileVersions \cup {Gone}, Snapshots!Edit(f, v)
  PROVE  RollbackInv'
<1>1. /\ RollbackTypes /\ x3 = <<>> /\ x1' = [x1 EXCEPT ![f] = v] /\ x8' = "none"
      /\ UNCHANGED <<x2, x3, x4, x7>>
  BY DEF Snapshots!Edit, Snapshots!Idle, RollbackInv
<1>2. x1' \in Disks
  BY <1>1 DEF RollbackTypes, Disks, FileContents
<1>3. Len(x3') = 0
  BY <1>1, EmptySeq
<1> QED BY <1>1, <1>2, <1>3 DEF RollbackInv, RollbackTypes, RollbackHistory, Ended

LEMMA RollbackStep ==
  ASSUME RollbackInv, Snapshots!Next \/ UNCHANGED <<x1, x2, x3, x4, x5, x6, x7, x8, x9>>
  PROVE  RollbackInv'
<1>1. CASE UNCHANGED <<x1, x2, x3, x4, x5, x6, x7, x8, x9>>
  BY <1>1 DEF RollbackInv, RollbackTypes
<1>2. ASSUME Snapshots!Tick PROVE RollbackInv'
  <2>1. x4' = x4 + 1 /\ x4 < MaxSnapshotTime /\ UNCHANGED <<x1, x2, x3, x7, x8, x9>>
    BY <1>2 DEF Snapshots!Tick
  <2>2. x4' \in Snapshots!Times
    BY <2>1, SnapshotsAssumption DEF RollbackInv, RollbackTypes, Snapshots!Times
  <2> QED BY <2>1, <2>2 DEF RollbackInv, RollbackTypes
<1>3. ASSUME NEW f \in SnapFiles, Snapshots!WriteOne(f) \/ Snapshots!WriteFails(f) PROVE RollbackInv'
  BY <1>3, WriteOneStep, WriteFailsStep
<1>4. ASSUME NEW f \in SnapFiles, NEW v \in FileVersions \cup {Gone}, Snapshots!Edit(f, v)
      PROVE  RollbackInv'
  BY <1>4, EditStep
<1> QED BY <1>1, <1>2, <1>3, <1>4, CreateSnapshotStep, TearSnapshotStep, AutoRollbackStep,
           FinishStep, CrashStep, BeginStep
        DEF Snapshots!Next, SnapFiles

LEMMA RollbackKeepsFiles ==
  ASSUME RollbackInv PROVE Snapshots!FailureIsUndone /\ Snapshots!PreviousStateIsSaved
<1>1. Snapshots!FailureIsUndone
  BY DEF Snapshots!FailureIsUndone, Snapshots!Existed, RollbackInv, RollbackHistory, Restored, SnapFiles
<1>2. Snapshots!PreviousStateIsSaved
  <2>1. SUFFICES ASSUME x9, x3 # <<>> \/ x8 \in Ended
                 PROVE  \E t \in Snapshots!Times : Saves(x2, t, x7)
    BY DEF Snapshots!PreviousStateIsSaved, Snapshots!Idle, Snapshots!Read, Saves, Ended
  <2>2. RollbackHistory(x1, x2, x3, x7, x8)
    BY <2>1 DEF RollbackInv
  <2>3. CASE x3 # <<>>
    <3>1. Len(x3) \in Nat \ {0} /\ \A i \in 1..Len(x3) : x3[i] \in Frames
      BY <2>3, EmptySeq, ElementOfSeq DEF RollbackInv, RollbackTypes
    <3>2. x3[Len(x3)] \in Frames
      BY <3>1
    <3>3. x3[Len(x3)].temp \in Snapshots!Times
      BY <3>2 DEF Frames
    <3> QED BY <2>2, <2>3, <3>3 DEF RollbackHistory
  <2> QED BY <2>1, <2>2, <2>3 DEF RollbackHistory
<1> QED BY <1>1, <1>2

\* The snapshots that are there are not changed while no two are of one millisecond.
LEMMA SnapshotsStay ==
  ASSUME RollbackInv, Snapshots!Next \/ UNCHANGED <<x1, x2, x3, x4, x5, x6, x7, x8, x9>>
  PROVE  Snapshots!SnapshotsStand
<1>1. SUFFICES ASSUME x9' PROVE \A t \in Snapshots!Times : x2[t].file = "whole" => x2'[t] = x2[t]
  BY DEF Snapshots!SnapshotsStand, Snapshots!Read
<1>2. RollbackTypes
  BY DEF RollbackInv
<1>3. CASE Snapshots!TakeSnapshot
  BY <1>1, <1>2, <1>3, SnapshotTaken
<1>4. ASSUME x2[x4].file = "none", NEW s, x2' = [x2 EXCEPT ![x4] = s]
      PROVE  \A t \in Snapshots!Times : x2[t].file = "whole" => x2'[t] = x2[t]
  BY <1>2, <1>4 DEF RollbackTypes
<1>5. CASE Snapshots!TearSnapshot
  BY <1>1, <1>4, <1>5 DEF Snapshots!TearSnapshot
<1>6. CASE \E f \in SnapFiles : Snapshots!WriteFails(f)
  BY <1>1, <1>4, <1>6 DEF Snapshots!WriteFails
<1>7. CASE UNCHANGED x2
  BY <1>7
<1> QED BY <1>3, <1>5, <1>6, <1>7
        DEF Snapshots!Next, Snapshots!CreateSnapshot, Snapshots!AutoRollback, Snapshots!Begin,
            Snapshots!Finish, Snapshots!Crash, Snapshots!Tick, Snapshots!WriteOne, Snapshots!Edit,
            SnapFiles

-----------------------------------------------------------------------------
(* Backup and restore.                                                     *)

DataSets == [Backups!All -> Nat]
ArchiveFiles == [at : {"absent", "torn", "whole"}, content : DataSets, sums : SUBSET DataSets,
                 time : Nat, by : SUBSET Procs]
BackupStages == {"start", "verified", "tar", "writing", "listing", "extract", "out", "in", "undo",
                 "cleanup", "done", "failed", "undone", "stranded", "killed"}
BackupProcs == [cmd : Backups!Commands, at : BackupStages, made : Backups!Archives,
                from : Backups!Archives, temp : DataSets, staged : DataSets,
                before : DataSets, goal : DataSets]

BackupTypes ==
  /\ x1 \in DataSets /\ x2 \in [Backups!Archives -> ArchiveFiles] /\ x3 \in [Procs -> BackupProcs]
  /\ \E n \in Nat : \A a \in Backups!Archives : x2[a].time <= n

\* Each item is in one of two places.
Split(one, other, whole) ==
  \A i \in Backups!All : (one[i] = whole[i] /\ other[i] = 0) \/ (one[i] = 0 /\ other[i] = whole[i])

\* How far a restore has come with the data.
Restoring(r, data) ==
  /\ r.at \in {"start", "verified", "tar", "writing", "listing", "extract"} =>
       r.temp = Backups!Nothing /\ r.before = Backups!Nothing /\ r.goal = Backups!Nothing
  /\ r.at = "out" => r.staged = r.goal /\ Split(r.temp, data, r.before)
  /\ r.at = "in" => r.temp = r.before /\ Split(r.staged, data, r.goal)
  /\ r.at \in {"undo", "stranded"} => Split(r.temp, data, r.before)
  /\ r.at = "undone" => data = r.before
  /\ r.at \in {"cleanup", "done"} => data = r.goal
  /\ r.at = "failed" => r.goal = Backups!Nothing \/ data = r.goal

\* The backup that a restore made of what it found is there or was cleaned.
Kept(f, data) == f.at = "absent" \/ (f.at = "whole" /\ f.content = Backups!Archived(data))
Saved(r, data, archive) ==
  /\ r.at \in Backups!Making \cup {"extract"} \/ r.before # Backups!Nothing => r.made[1] = "pre-restore"
  /\ r.at \in {"listing", "extract"} => Kept(archive[r.made], data)
  /\ r.before # Backups!Nothing => Kept(archive[r.made], r.before)
  /\ r.at = "extract" \/ r.before # Backups!Nothing =>
       archive[r.made].at = "absent" \/ archive[r.made].sums = {archive[r.made].content}

\* The other commands leave the data alone and make no backups for restores.
Plain(r) ==
  /\ r.at \in Backups!Making \cup {"start", "done", "failed", "killed"}
  /\ r.before = Backups!Nothing /\ r.goal = Backups!Nothing
  /\ r.at \in Backups!Making => r.made[1] = "backup"

Behaves(r, data, archive) ==
  IF r.cmd = "restore" THEN Restoring(r, data) /\ Saved(r, data, archive) ELSE Plain(r)

OneRestore(proc) == \A p, q \in Procs : proc[p].cmd = "restore" /\ proc[q].cmd = "restore" => p = q

\* Two commands are making an archive of one name only if it counts as shared, as does one
\* that somebody else began to write, and a command that made one leaves it valid.
Writers(archive, proc, shared) ==
  /\ \A p, q \in Procs :
       /\ p # q /\ proc[p].at \in Backups!Making /\ proc[q].at \in Backups!Making
       /\ proc[p].made = proc[q].made
       => proc[p].made \in shared
  /\ \A a \in Backups!Archives, p, q \in Procs :
       /\ p \in archive[a].by /\ p # q /\ proc[q].at \in Backups!Making /\ proc[q].made = a
       => a \in shared
  /\ \A a \in Backups!Archives : archive[a].at = "absent" => archive[a].by = {}
  /\ \A p \in Procs :
       /\ proc[p].cmd = "create" /\ proc[p].at = "done" /\ p \in archive[proc[p].made].by
       => proc[p].made \in shared
          \/ (archive[proc[p].made].at = "whole"
              /\ archive[proc[p].made].sums = {archive[proc[p].made].content})

BackupInv ==
  /\ BackupTypes
  /\ OneRestore(x3)
  /\ \A p \in Procs : Behaves(x3[p], x1, x2)
  /\ Writers(x2, x3, x5)

\* A process goes on with another record.
LEMMA BackupProcMoves ==
  ASSUME BackupTypes, NEW p \in Procs, NEW r \in BackupProcs, x3' = [x3 EXCEPT ![p] = r]
  PROVE  x3' \in [Procs -> BackupProcs] /\ \A q \in Procs : x3'[q] = IF q = p THEN r ELSE x3[q]
BY DEF BackupTypes

LEMMA BackupStage ==
  ASSUME NEW r \in BackupProcs, NEW at \in BackupStages
  PROVE  LET n == [r EXCEPT !.at = at] IN
         /\ n \in BackupProcs /\ n.at = at /\ n.cmd = r.cmd /\ n.made = r.made /\ n.from = r.from
         /\ n.temp = r.temp /\ n.staged = r.staged /\ n.before = r.before /\ n.goal = r.goal
BY DEF BackupProcs

LEMMA BackupStarts ==
  ASSUME Backups!Init PROVE BackupInv
<1>1. /\ x1 \in [Backups!All -> {0, 2}] /\ x5 = {}
      /\ x2 = [a \in Backups!Archives |->
                 IF a = Backups!Source
                 THEN [at |-> "whole", content |-> Backups!Archived(Backups!OfVersion(1)),
                       sums |-> {Backups!Archived(Backups!OfVersion(1))}, time |-> 1, by |-> {}]
                 ELSE Backups!NoArchive]
      /\ x3 \in [Procs -> {Backups!NewProc(c) : c \in Backups!Commands}]
      /\ Backups!Cardinality({p \in Procs : x3[p].cmd = "restore"}) <= 1
  BY DEF Backups!Init
<1>2. /\ x1 \in DataSets /\ Backups!Nothing \in DataSets
      /\ Backups!Archived(Backups!OfVersion(1)) \in DataSets
  BY <1>1 DEF DataSets, Backups!Nothing, Backups!Archived, Backups!OfVersion
<1>3. /\ Backups!NoArchive \in ArchiveFiles /\ Backups!NoArchive.time = 0 /\ Backups!NoArchive.by = {}
      /\ [at |-> "whole", content |-> Backups!Archived(Backups!OfVersion(1)),
           sums |-> {Backups!Archived(Backups!OfVersion(1))}, time |-> 1, by |-> {}] \in ArchiveFiles
  BY <1>2 DEF ArchiveFiles, Backups!NoArchive
<1>4. x2 \in [Backups!Archives -> ArchiveFiles] /\ \A a \in Backups!Archives : x2[a].time <= 1 /\ x2[a].by = {}
  BY <1>1, <1>3
<1>5. Backups!Source \in Backups!Archives
  BY BackupsAssumption DEF Backups!Source, Backups!Archives, Backups!Tags
<1>6. \A c \in Backups!Commands : Backups!NewProc(c) \in BackupProcs
  BY <1>2, <1>5 DEF Backups!NewProc, BackupProcs, BackupStages
<1>7. x3 \in [Procs -> BackupProcs]
  BY <1>1, <1>6
<1>8. BackupTypes
  BY <1>2, <1>4, <1>7 DEF BackupTypes
<1>9. \A p \in Procs : /\ x3[p].at = "start" /\ x3[p].before = Backups!Nothing
                        /\ x3[p].goal = Backups!Nothing /\ x3[p].temp = Backups!Nothing
  <2>1. TAKE p \in Procs
  <2>2. PICK c \in Backups!Commands : x3[p] = Backups!NewProc(c)
    BY <1>1
  <2> QED BY <2>2 DEF Backups!NewProc
<1>10. \A p \in Procs : Behaves(x3[p], x1, x2)
  BY <1>9 DEF Behaves, Restoring, Saved, Plain, Backups!Making
<1>11. Writers(x2, x3, x5)
  BY <1>4, <1>9 DEF Writers, Backups!Making
<1>12. OneRestore(x3)
  <2> DEFINE R == {p \in Procs : x3[p].cmd = "restore"}
  <2>1. IsFiniteSet(R) /\ Cardinality(R) <= 1
    <3>1. IsFiniteSet(R)
      BY FS_Subset, BackupsAssumption
    <3> QED BY <1>1, <3>1 DEF Backups!Cardinality, Cardinality
  <2>2. ASSUME NEW p \in R, NEW q \in R, p # q PROVE FALSE
    <3>1. Cardinality({p, q}) = 2
      <4>1. IsFiniteSet({q}) /\ Cardinality({q}) = 1 /\ p \notin {q} /\ {p, q} = {q} \cup {p}
        BY <2>2, FS_Singleton
      <4>2. Cardinality({q} \cup {p}) = Cardinality({q}) + 1
        BY <4>1, FS_AddElement
      <4>3. Cardinality({p, q}) = 1 + 1
        BY <4>1, <4>2
      <4> QED BY <4>3
    <3>2. Cardinality({p, q}) <= Cardinality(R) /\ Cardinality(R) \in Nat
      BY <2>1, FS_Subset, FS_CardinalityType
    <3> QED BY <2>1, <3>1, <3>2
  <2> QED BY <2>2 DEF OneRestore
<1> QED BY <1>8, <1>10, <1>11, <1>12 DEF BackupInv

\* A step that leaves the archives alone, and the data unless it is the restore's.
LEMMA BackupProcStep ==
  ASSUME BackupInv, NEW p \in Procs, NEW r \in BackupProcs,
         x3' = [x3 EXCEPT ![p] = r], UNCHANGED <<x2, x5>>,
         r.cmd = x3[p].cmd, Behaves(r, x1', x2),
         x1' = x1 \/ (r.cmd = "restore" /\ x1' \in DataSets),
         r.at \notin Backups!Making, ~ (r.cmd = "create" /\ r.at = "done")
  PROVE  BackupInv'
<1>1. x3' \in [Procs -> BackupProcs] /\ \A q \in Procs : x3'[q] = IF q = p THEN r ELSE x3[q]
  BY BackupProcMoves DEF BackupInv
<1>2. BackupTypes'
  BY <1>1 DEF BackupInv, BackupTypes
<1>3. OneRestore(x3')
  BY <1>1 DEF BackupInv, OneRestore
<1>4. ASSUME NEW q \in Procs PROVE Behaves(x3'[q], x1', x2')
  <2>1. CASE q = p
    BY <1>1, <2>1
  <2>2. CASE q # p /\ x1' = x1
    BY <1>1, <2>2 DEF BackupInv
  <2>3. CASE q # p /\ r.cmd = "restore"
    <3>1. x3[q].cmd # "restore" /\ x3'[q] = x3[q]
      BY <1>1, <2>3 DEF BackupInv, OneRestore
    <3> QED BY <3>1 DEF BackupInv, Behaves
  <2> QED BY <2>1, <2>2, <2>3
<1>5. Writers(x2', x3', x5')
  <2>1. Writers(x2, x3, x5)
    BY DEF BackupInv
  <2>2. \A q \in Procs : x3'[q].at \in Backups!Making => x3'[q] = x3[q]
    BY <1>1
  <2>3. \A q \in Procs : x3'[q].cmd = "create" /\ x3'[q].at = "done" => x3'[q] = x3[q]
    BY <1>1
  <2> QED BY <2>1, <2>2, <2>3 DEF Writers
<1> QED BY <1>2, <1>3, <1>4, <1>5 DEF BackupInv

\* Steps that only change how far a process is.
LEMMA BackupFrameSteps ==
  ASSUME BackupInv, NEW p \in Procs,
         Backups!EndClean(p) \/ Backups!Kill(p)
  PROVE  BackupInv'
<1> DEFINE at == IF x3[p].cmd = "clean" /\ x3[p].at = "start" THEN "done" ELSE "killed"
           r == [x3[p] EXCEPT !.at = at]
<1>1. x3[p] \in BackupProcs /\ at \in BackupStages /\ Behaves(x3[p], x1, x2)
  BY DEF BackupInv, BackupTypes, BackupStages
<1> HIDE DEF at
<1>2. /\ r \in BackupProcs /\ r.at = at /\ r.cmd = x3[p].cmd /\ r.made = x3[p].made
      /\ r.before = x3[p].before /\ r.goal = x3[p].goal
  BY <1>1, BackupStage
<1>3. x3' = [x3 EXCEPT ![p] = r] /\ UNCHANGED <<x1, x2, x5>>
  BY DEF at, Backups!EndClean, Backups!Kill, Backups!Fault, Backups!Step
<1>4. at \in {"done", "killed"} /\ (at = "done" => x3[p].cmd = "clean")
  BY DEF at
<1> HIDE DEF r
<1>5. Behaves(r, x1, x2)
  BY <1>1, <1>2, <1>4 DEF Behaves, Restoring, Saved, Plain, Backups!Making
<1> QED BY <1>2, <1>3, <1>4, <1>5, BackupProcStep DEF Backups!Making

LEMMA VerifyStep ==
  ASSUME BackupInv, NEW p \in Procs, Backups!Verify(p) PROVE BackupInv'
<1>1. PICK a \in Backups!Listed :
        /\ x3[p].cmd = "restore" /\ x3[p].at = "start"
        /\ x3' = [x3 EXCEPT ![p].at = IF Backups!Valid(a) THEN "verified" ELSE "failed", ![p].from = a]
        /\ UNCHANGED <<x1, x2, x5>>
  BY DEF Backups!Verify
<1> DEFINE at == IF Backups!Valid(a) THEN "verified" ELSE "failed"
           r == [x3[p] EXCEPT !.at = at, !.from = a]
<1>2. x3[p] \in BackupProcs /\ at \in {"verified", "failed"} /\ Behaves(x3[p], x1, x2)
  BY DEF BackupInv, BackupTypes
<1>3. a \in Backups!Archives /\ x3' = [x3 EXCEPT ![p] = r]
  BY <1>1 DEF Backups!Listed
<1> HIDE DEF at
<1>4. /\ r \in BackupProcs /\ r.at = at /\ r.cmd = x3[p].cmd /\ r.made = x3[p].made
      /\ r.before = x3[p].before /\ r.goal = x3[p].goal /\ r.temp = x3[p].temp
  BY <1>2, <1>3 DEF BackupProcs, BackupStages
<1> HIDE DEF r
<1>5. Behaves(r, x1, x2)
  BY <1>1, <1>2, <1>4 DEF Behaves, Restoring, Saved, Backups!Making
<1> QED BY <1>1, <1>2, <1>3, <1>4, <1>5, BackupProcStep DEF Backups!Making

LEMMA ExtractStep ==
  ASSUME BackupInv, NEW p \in Procs, Backups!Extract(p) PROVE BackupInv'
<1> DEFINE a == x3[p].from
<1>1. x3[p].at = "extract" /\ UNCHANGED <<x1, x2, x5>> /\ Behaves(x3[p], x1, x2)
  BY DEF Backups!Extract, BackupInv
<1>2. x3[p] \in BackupProcs /\ x1 \in DataSets /\ a \in Backups!Archives /\ x2[a].content \in DataSets
  <2>1. x3[p] \in BackupProcs /\ x1 \in DataSets /\ x2 \in [Backups!Archives -> ArchiveFiles]
    BY DEF BackupInv, BackupTypes
  <2>2. a \in Backups!Archives
    BY <2>1 DEF BackupProcs
  <2> QED BY <2>1, <2>2 DEF ArchiveFiles
<1>3. x3[p].cmd = "restore"
  BY <1>1 DEF Behaves, Plain, Backups!Making
<1>4. CASE x3' = [x3 EXCEPT ![p].at = "failed"]
  <2> DEFINE r == [x3[p] EXCEPT !.at = "failed"]
  <2>1. /\ r \in BackupProcs /\ r.at = "failed" /\ r.cmd = x3[p].cmd /\ r.made = x3[p].made
        /\ r.before = x3[p].before /\ r.goal = x3[p].goal
    BY <1>2, BackupStage DEF BackupStages
  <2>2. x3' = [x3 EXCEPT ![p] = r]
    BY <1>4
  <2> HIDE DEF r
  <2>3. Behaves(r, x1, x2)
    BY <1>1, <1>3, <2>1 DEF Behaves, Restoring, Saved, Backups!Making
  <2> QED BY <1>1, <1>3, <2>1, <2>2, <2>3, BackupProcStep DEF Backups!Making
<1>5. CASE x3' = [x3 EXCEPT ![p].at = "out", ![p].staged = x2[a].content,
                            ![p].goal = x2[a].content, ![p].before = x1]
  <2> DEFINE r == [x3[p] EXCEPT !.at = "out", !.staged = x2[a].content,
                                !.goal = x2[a].content, !.before = x1]
  <2>1. x3' = [x3 EXCEPT ![p] = r]
    BY <1>5
  <2>2. /\ r \in BackupProcs /\ r.at = "out" /\ r.cmd = x3[p].cmd /\ r.made = x3[p].made
        /\ r.before = x1 /\ r.goal = x2[a].content /\ r.staged = x2[a].content
        /\ r.temp = x3[p].temp
    BY <1>2 DEF BackupProcs, BackupStages
  <2> HIDE DEF r
  <2>3. r.temp = Backups!Nothing
    BY <1>1, <1>3, <2>2 DEF Behaves, Restoring
  <2>4. Split(r.temp, x1, r.before)
    BY <2>2, <2>3 DEF Split, Backups!Nothing
  <2>5. Behaves(r, x1, x2)
    BY <1>1, <1>3, <2>2, <2>4 DEF Behaves, Restoring, Saved, Backups!Making
  <2> QED BY <1>1, <1>3, <2>1, <2>2, <2>5, BackupProcStep DEF Backups!Making
<1> QED BY <1>4, <1>5 DEF Backups!Extract, Backups!Fault, Backups!Step

\* An item moves from one place to the other; when one is empty, all is in the other.
LEMMA SplitMoves ==
  ASSUME NEW one \in DataSets, NEW other \in DataSets, NEW whole \in DataSets,
         Split(one, other, whole)
  PROVE  /\ Split(other, one, whole)
         /\ \A i \in Backups!All : one[i] # 0 =>
              /\ [one EXCEPT ![i] = 0] \in DataSets /\ [other EXCEPT ![i] = one[i]] \in DataSets
              /\ Split([one EXCEPT ![i] = 0], [other EXCEPT ![i] = one[i]], whole)
         /\ one = Backups!Nothing => other = whole
<1>1. Split(other, one, whole)
  BY DEF Split
<1>2. ASSUME NEW i \in Backups!All, one[i] # 0
      PROVE  /\ [one EXCEPT ![i] = 0] \in DataSets /\ [other EXCEPT ![i] = one[i]] \in DataSets
             /\ Split([one EXCEPT ![i] = 0], [other EXCEPT ![i] = one[i]], whole)
  <2> DEFINE a == [one EXCEPT ![i] = 0]
             b == [other EXCEPT ![i] = one[i]]
  <2>1. a \in DataSets /\ b \in DataSets
    BY DEF DataSets
  <2>2. \A j \in Backups!All : /\ a[j] = IF j = i THEN 0 ELSE one[j]
                               /\ b[j] = IF j = i THEN one[i] ELSE other[j]
    BY DEF DataSets
  <2> HIDE DEF a, b
  <2>3. Split(a, b, whole)
    BY <1>2, <2>2 DEF Split
  <2> QED BY <2>1, <2>3 DEF a, b
<1>3. ASSUME one = Backups!Nothing PROVE other = whole
  <2>1. \A j \in Backups!All : other[j] = whole[j]
    BY <1>3 DEF Split, Backups!Nothing
  <2> QED BY <2>1 DEF DataSets
<1> QED BY <1>1, <1>2, <1>3

\* A restore is in the record that the stage requires.
LEMMA RestoreRecord ==
  ASSUME BackupInv, NEW p \in Procs, x3[p].at \in {"out", "in", "undo", "cleanup"}
  PROVE  /\ x3[p] \in BackupProcs /\ x3[p].cmd = "restore"
         /\ x3[p].temp \in DataSets /\ x3[p].staged \in DataSets
         /\ x3[p].before \in DataSets /\ x3[p].goal \in DataSets
         /\ x1 \in DataSets /\ Restoring(x3[p], x1) /\ Saved(x3[p], x1, x2)
<1>1. x3[p] \in BackupProcs /\ x1 \in DataSets /\ Behaves(x3[p], x1, x2)
  BY DEF BackupInv, BackupTypes
<1>2. x3[p].cmd = "restore"
  BY <1>1 DEF Behaves, Plain, Backups!Making
<1> QED BY <1>1, <1>2 DEF BackupProcs, Behaves

\* It goes on to another stage, with the data as the stage requires.
LEMMA RestoreMoves ==
  ASSUME BackupInv, NEW p \in Procs, x3[p].at \in {"out", "in", "undo", "cleanup"},
         NEW at \in {"in", "undo", "cleanup", "undone", "stranded"},
         x3' = [x3 EXCEPT ![p].at = at], UNCHANGED <<x2, x5>>, x1' \in DataSets,
         at = "in" => x3[p].temp = x3[p].before /\ Split(x3[p].staged, x1', x3[p].goal),
         at \in {"undo", "stranded"} => Split(x3[p].temp, x1', x3[p].before),
         at = "cleanup" => x1' = x3[p].goal,
         at = "undone" => x1' = x3[p].before
  PROVE  BackupInv'
<1> DEFINE r == [x3[p] EXCEPT !.at = at]
<1>1. x3[p] \in BackupProcs /\ x3[p].cmd = "restore" /\ Saved(x3[p], x1, x2)
  BY RestoreRecord
<1>2. at \in BackupStages /\ at \notin Backups!Making /\ at # "done"
  BY DEF BackupStages, Backups!Making
<1>3. /\ r \in BackupProcs /\ r.at = at /\ r.cmd = x3[p].cmd /\ r.made = x3[p].made
      /\ r.temp = x3[p].temp /\ r.staged = x3[p].staged /\ r.before = x3[p].before
      /\ r.goal = x3[p].goal
  BY <1>1, <1>2, BackupStage
<1>4. x3' = [x3 EXCEPT ![p] = r]
  OBVIOUS
<1> HIDE DEF r
<1>5. Restoring(r, x1')
  BY <1>3 DEF Restoring
<1>6. Saved(r, x1', x2)
  BY <1>1, <1>3 DEF Saved, Backups!Making
<1>7. Behaves(r, x1', x2)
  BY <1>1, <1>3, <1>5, <1>6 DEF Behaves
<1> QED BY <1>1, <1>2, <1>3, <1>4, <1>7, BackupProcStep

\* One item moves, and the stage stays.
LEMMA RestoreMovesItem ==
  ASSUME BackupInv, NEW p \in Procs, x3[p].at \in {"out", "in", "undo"},
         NEW r \in BackupProcs, x3' = [x3 EXCEPT ![p] = r], UNCHANGED <<x2, x5>>, x1' \in DataSets,
         r.at = x3[p].at, r.cmd = x3[p].cmd, r.made = x3[p].made, r.before = x3[p].before,
         r.goal = x3[p].goal,
         r.at = "out" => r.staged = r.goal /\ Split(r.temp, x1', r.before),
         r.at = "in" => r.temp = r.before /\ Split(r.staged, x1', r.goal),
         r.at = "undo" => Split(r.temp, x1', r.before)
  PROVE  BackupInv'
<1>1. x3[p].cmd = "restore" /\ Saved(x3[p], x1, x2)
  BY RestoreRecord
<1>2. Restoring(r, x1')
  BY DEF Restoring
<1>3. Saved(r, x1', x2)
  BY <1>1 DEF Saved, Backups!Making
<1>4. Behaves(r, x1', x2)
  BY <1>1, <1>2, <1>3 DEF Behaves
<1> QED BY <1>1, <1>4, BackupProcStep DEF Backups!Making

LEMMA MoveOutStep ==
  ASSUME BackupInv, NEW p \in Procs, Backups!MoveOut(p) PROVE BackupInv'
<1>1. x3[p].at = "out" /\ UNCHANGED <<x2, x5>>
  BY DEF Backups!MoveOut
<1>2. /\ x3[p] \in BackupProcs /\ x3[p].temp \in DataSets /\ x3[p].before \in DataSets
      /\ x3[p].staged \in DataSets /\ x3[p].goal \in DataSets /\ x1 \in DataSets
      /\ Restoring(x3[p], x1)
  BY <1>1, RestoreRecord
<1>3. x3[p].staged = x3[p].goal /\ Split(x3[p].temp, x1, x3[p].before)
  BY <1>1, <1>2 DEF Restoring
<1>4. Split(x1, x3[p].temp, x3[p].before)
  BY <1>2, <1>3, SplitMoves
<1>5. ASSUME NEW i \in Backups!All, x1[i] # 0, x1' = [x1 EXCEPT ![i] = 0],
             x3' = [x3 EXCEPT ![p].temp[i] = x1[i]]
      PROVE  BackupInv'
  <2> DEFINE temp == [x3[p].temp EXCEPT ![i] = x1[i]]
             r == [x3[p] EXCEPT !.temp = temp]
  <2>1. x1' \in DataSets /\ temp \in DataSets /\ Split(x1', temp, x3[p].before)
    <3>1. \A j \in Backups!All : x1[j] # 0 =>
            /\ [x1 EXCEPT ![j] = 0] \in DataSets /\ [x3[p].temp EXCEPT ![j] = x1[j]] \in DataSets
            /\ Split([x1 EXCEPT ![j] = 0], [x3[p].temp EXCEPT ![j] = x1[j]], x3[p].before)
      <4> DEFINE moved == x3[p].temp
                 before == x3[p].before
      <4>1. moved \in DataSets /\ before \in DataSets /\ x1 \in DataSets /\ Split(x1, moved, before)
        BY <1>2, <1>4
      <4> HIDE DEF moved, before
      <4>2. \A j \in Backups!All : x1[j] # 0 =>
              /\ [x1 EXCEPT ![j] = 0] \in DataSets /\ [moved EXCEPT ![j] = x1[j]] \in DataSets
              /\ Split([x1 EXCEPT ![j] = 0], [moved EXCEPT ![j] = x1[j]], before)
        BY <4>1, SplitMoves
      <4> QED BY <4>2 DEF moved, before
    <3> QED BY <1>5, <3>1
  <2>2. Split(temp, x1', x3[p].before)
    BY <1>2, <2>1, SplitMoves
  <2>3. x3' = [x3 EXCEPT ![p] = r]
    BY <1>5
  <2> HIDE DEF temp
  <2>4. /\ r \in BackupProcs /\ r.at = "out" /\ r.cmd = x3[p].cmd /\ r.made = x3[p].made
        /\ r.before = x3[p].before /\ r.goal = x3[p].goal /\ r.staged = x3[p].staged
        /\ r.temp = temp
    BY <1>1, <1>2, <2>1 DEF BackupProcs
  <2> HIDE DEF r
  <2> QED BY <1>1, <1>3, <2>1, <2>2, <2>3, <2>4, RestoreMovesItem
<1>6. CASE x1 = Backups!Nothing /\ x3' = [x3 EXCEPT ![p].at = "in"] /\ x1' = x1
  <2>1. x3[p].temp = x3[p].before
    BY <1>2, <1>4, <1>6, SplitMoves
  <2>2. Split(x3[p].staged, x1', x3[p].goal)
    BY <1>3, <1>6 DEF Split, Backups!Nothing
  <2> QED BY <1>1, <1>2, <1>6, <2>1, <2>2, RestoreMoves
<1>7. CASE x3' = [x3 EXCEPT ![p].at = "stranded"] /\ x1' = x1
  BY <1>1, <1>2, <1>3, <1>7, RestoreMoves
<1> QED BY <1>5, <1>6, <1>7 DEF Backups!MoveOut, Backups!Step, Backups!Fault

LEMMA MoveInStep ==
  ASSUME BackupInv, NEW p \in Procs, Backups!MoveIn(p) PROVE BackupInv'
<1>1. x3[p].at = "in" /\ UNCHANGED <<x2, x5>>
  BY DEF Backups!MoveIn
<1>2. /\ x3[p] \in BackupProcs /\ x3[p].temp \in DataSets /\ x3[p].before \in DataSets
      /\ x3[p].staged \in DataSets /\ x3[p].goal \in DataSets /\ x1 \in DataSets
      /\ Restoring(x3[p], x1)
  BY <1>1, RestoreRecord
<1>3. x3[p].temp = x3[p].before /\ Split(x3[p].staged, x1, x3[p].goal)
  BY <1>1, <1>2 DEF Restoring
<1>4. ASSUME NEW i \in Backups!All, x3[p].staged[i] # 0,
             x1' = [x1 EXCEPT ![i] = x3[p].staged[i]],
             x3' = [x3 EXCEPT ![p].staged[i] = 0]
      PROVE  BackupInv'
  <2> DEFINE staged == [x3[p].staged EXCEPT ![i] = 0]
             r == [x3[p] EXCEPT !.staged = staged]
  <2>1. x1' \in DataSets /\ staged \in DataSets /\ Split(staged, x1', x3[p].goal)
    BY <1>2, <1>3, <1>4, SplitMoves
  <2>2. x3' = [x3 EXCEPT ![p] = r]
    BY <1>4
  <2> HIDE DEF staged
  <2>3. /\ r \in BackupProcs /\ r.at = "in" /\ r.cmd = x3[p].cmd /\ r.made = x3[p].made
        /\ r.before = x3[p].before /\ r.goal = x3[p].goal /\ r.staged = staged
        /\ r.temp = x3[p].temp
    BY <1>1, <1>2, <2>1 DEF BackupProcs
  <2> HIDE DEF r
  <2> QED BY <1>1, <1>3, <2>1, <2>2, <2>3, RestoreMovesItem
<1>5. CASE x3[p].staged = Backups!Nothing /\ x3' = [x3 EXCEPT ![p].at = "cleanup"] /\ x1' = x1
  <2>1. x1 = x3[p].goal
    BY <1>2, <1>3, <1>5, SplitMoves
  <2> QED BY <1>1, <1>2, <1>5, <2>1, RestoreMoves
<1>6. CASE x3' = [x3 EXCEPT ![p].at = "undo"] /\ x1' = Backups!Nothing
  <2>1. x1' \in DataSets
    BY <1>6 DEF DataSets, Backups!Nothing
  <2>2. Split(x3[p].temp, x1', x3[p].before)
    BY <1>3, <1>6 DEF Split, Backups!Nothing
  <2> QED BY <1>1, <1>6, <2>1, <2>2, RestoreMoves
<1> QED BY <1>4, <1>5, <1>6 DEF Backups!MoveIn, Backups!Step, Backups!Fault, Backups!Emptied

LEMMA UndoMoveStep ==
  ASSUME BackupInv, NEW p \in Procs, Backups!UndoMove(p) PROVE BackupInv'
<1>1. x3[p].at = "undo" /\ UNCHANGED <<x2, x5>>
  BY DEF Backups!UndoMove
<1>2. /\ x3[p] \in BackupProcs /\ x3[p].temp \in DataSets /\ x3[p].before \in DataSets
      /\ x1 \in DataSets /\ Restoring(x3[p], x1)
  BY <1>1, RestoreRecord
<1>3. Split(x3[p].temp, x1, x3[p].before)
  BY <1>1, <1>2 DEF Restoring
<1>4. ASSUME NEW i \in Backups!All, x3[p].temp[i] # 0,
             x1' = [x1 EXCEPT ![i] = x3[p].temp[i]],
             x3' = [x3 EXCEPT ![p].temp[i] = 0]
      PROVE  BackupInv'
  <2> DEFINE temp == [x3[p].temp EXCEPT ![i] = 0]
             r == [x3[p] EXCEPT !.temp = temp]
  <2>1. x1' \in DataSets /\ temp \in DataSets /\ Split(temp, x1', x3[p].before)
    <3>1. \A j \in Backups!All : x3[p].temp[j] # 0 =>
            /\ [x3[p].temp EXCEPT ![j] = 0] \in DataSets
            /\ [x1 EXCEPT ![j] = x3[p].temp[j]] \in DataSets
            /\ Split([x3[p].temp EXCEPT ![j] = 0], [x1 EXCEPT ![j] = x3[p].temp[j]], x3[p].before)
      BY <1>2, <1>3, SplitMoves
    <3> QED BY <1>4, <3>1
  <2>2. x3' = [x3 EXCEPT ![p] = r]
    BY <1>4
  <2> HIDE DEF temp
  <2>3. /\ r \in BackupProcs /\ r.at = "undo" /\ r.cmd = x3[p].cmd /\ r.made = x3[p].made
        /\ r.before = x3[p].before /\ r.goal = x3[p].goal /\ r.temp = temp
    BY <1>1, <1>2, <2>1 DEF BackupProcs
  <2> HIDE DEF r
  <2> QED BY <1>1, <2>1, <2>2, <2>3, RestoreMovesItem
<1>5. CASE x3[p].temp = Backups!Nothing /\ x3' = [x3 EXCEPT ![p].at = "undone"] /\ x1' = x1
  <2>1. x1 = x3[p].before
    BY <1>2, <1>3, <1>5, SplitMoves
  <2> QED BY <1>1, <1>2, <1>5, <2>1, RestoreMoves
<1>6. CASE x3' = [x3 EXCEPT ![p].at = "stranded"] /\ x1' = x1
  BY <1>1, <1>2, <1>3, <1>6, RestoreMoves
<1> QED BY <1>4, <1>5, <1>6 DEF Backups!UndoMove, Backups!Step, Backups!Fault

LEMMA CleanupStep ==
  ASSUME BackupInv, NEW p \in Procs, Backups!Cleanup(p) PROVE BackupInv'
<1> DEFINE at == IF Backups!Valid(x3[p].from) THEN "done" ELSE "failed"
           r == [x3[p] EXCEPT !.temp = Backups!Nothing, !.at = at]
<1>1. x3[p].at = "cleanup" /\ x3' = [x3 EXCEPT ![p] = r] /\ UNCHANGED <<x1, x2, x5>>
  BY DEF Backups!Cleanup
<1>2. /\ x3[p] \in BackupProcs /\ x3[p].cmd = "restore" /\ Restoring(x3[p], x1)
      /\ Saved(x3[p], x1, x2)
  BY <1>1, RestoreRecord
<1>3. at \in {"done", "failed"} /\ Backups!Nothing \in DataSets
  BY DEF DataSets, Backups!Nothing
<1> HIDE DEF at
<1>4. /\ r \in BackupProcs /\ r.at = at /\ r.cmd = x3[p].cmd /\ r.made = x3[p].made
      /\ r.before = x3[p].before /\ r.goal = x3[p].goal
  BY <1>2, <1>3 DEF BackupProcs, BackupStages
<1> HIDE DEF r
<1>5. Restoring(r, x1)
  BY <1>1, <1>2, <1>3, <1>4 DEF Restoring
<1>6. Saved(r, x1, x2)
  BY <1>1, <1>2, <1>3, <1>4 DEF Saved, Backups!Making
<1>7. Behaves(r, x1', x2)
  BY <1>1, <1>2, <1>4, <1>5, <1>6 DEF Behaves
<1> QED BY <1>1, <1>2, <1>3, <1>4, <1>7, BackupProcStep DEF Backups!Making

\* A process that makes an archive changes no archive that another one's restore made.
LEMMA ArchiveChanges ==
  ASSUME BackupInv, NEW p \in Procs, x3[p].at \in Backups!Making, NEW f \in ArchiveFiles,
         x2' = [x2 EXCEPT ![x3[p].made] = f]
  PROVE  /\ x3[p].made \in Backups!Archives
         /\ x2' \in [Backups!Archives -> ArchiveFiles]
         /\ \A a \in Backups!Archives : x2'[a] = IF a = x3[p].made THEN f ELSE x2[a]
         /\ \A q \in Procs : q # p => Behaves(x3[q], x1, x2')
<1>1. /\ x2 \in [Backups!Archives -> ArchiveFiles]
      /\ \A q \in Procs : x3[q].made \in Backups!Archives
  BY DEF BackupInv, BackupTypes, BackupProcs
<1>2. /\ x2' \in [Backups!Archives -> ArchiveFiles]
      /\ \A a \in Backups!Archives : x2'[a] = IF a = x3[p].made THEN f ELSE x2[a]
  BY <1>1
<1>3. ASSUME NEW q \in Procs, q # p PROVE Behaves(x3[q], x1, x2')
  <2>1. Behaves(x3[q], x1, x2) /\ Behaves(x3[p], x1, x2)
    BY DEF BackupInv
  <2>2. CASE x3[q].cmd # "restore"
    BY <2>1, <2>2 DEF Behaves
  <2>3. CASE x3[q].cmd = "restore"
    <3>1. x3[p].cmd # "restore"
      BY <1>3, <2>3 DEF BackupInv, OneRestore
    <3>2. x3[p].made[1] = "backup"
      BY <2>1, <3>1 DEF Behaves, Plain
    <3>3. Restoring(x3[q], x1) /\ Saved(x3[q], x1, x2)
      BY <2>1, <2>3 DEF Behaves
    <3>4. x3[q].made[1] = "pre-restore" => x2'[x3[q].made] = x2[x3[q].made]
      BY <1>1, <1>2, <3>2
    <3>5. Saved(x3[q], x1, x2')
      BY <3>3, <3>4 DEF Saved, Backups!Making
    <3> QED BY <2>3, <3>3, <3>5 DEF Behaves
  <2> QED BY <2>2, <2>3
<1> QED BY <1>1, <1>2, <1>3

LEMMA ChooseNameStep ==
  ASSUME BackupInv, NEW p \in Procs, Backups!ChooseName(p) PROVE BackupInv'
<1>1. PICK n \in 1..MaxNames :
        LET a == <<Backups!TagOf(p), n>> IN
        /\ x3[p].at = IF x3[p].cmd = "restore" THEN "verified" ELSE "start"
        /\ x3[p].cmd \in {"create", "restore"} /\ x2[a].at = "absent"
        /\ x3' = [x3 EXCEPT ![p].at = "tar", ![p].made = a]
        /\ x5' = IF \E q \in Procs \ {p} : x3[q].at \in Backups!Making /\ x3[q].made = a
                 THEN x5 \cup {a} ELSE x5
        /\ UNCHANGED <<x1, x2>>
  BY DEF Backups!ChooseName
<1> DEFINE a == <<Backups!TagOf(p), n>>
           r == [x3[p] EXCEPT !.at = "tar", !.made = a]
<1>2. /\ x3[p].at = IF x3[p].cmd = "restore" THEN "verified" ELSE "start"
      /\ x2[a].at = "absent" /\ x3' = [x3 EXCEPT ![p] = r] /\ UNCHANGED <<x1, x2>>
  BY <1>1
<1>3. /\ x5 \subseteq x5'
      /\ \A q \in Procs : q # p /\ x3[q].at \in Backups!Making /\ x3[q].made = a => a \in x5'
  BY <1>1
<1>4. /\ a \in Backups!Archives
      /\ a[1] = IF x3[p].cmd = "restore" THEN "pre-restore" ELSE "backup"
  BY DEF Backups!Archives, Backups!Tags, Backups!TagOf
<1> HIDE DEF a
<1>5. BackupTypes /\ Writers(x2, x3, x5) /\ x3[p] \in BackupProcs /\ Behaves(x3[p], x1, x2)
  BY DEF BackupInv, BackupTypes
<1>6. /\ r \in BackupProcs /\ r.at = "tar" /\ r.cmd = x3[p].cmd /\ r.made = a
      /\ r.before = x3[p].before /\ r.goal = x3[p].goal /\ r.temp = x3[p].temp
  BY <1>4, <1>5 DEF BackupProcs, BackupStages
<1> HIDE DEF r
<1>7. x3' \in [Procs -> BackupProcs] /\ \A q \in Procs : x3'[q] = IF q = p THEN r ELSE x3[q]
  BY <1>2, <1>5, <1>6, BackupProcMoves
<1>8. Behaves(r, x1, x2)
  BY <1>2, <1>4, <1>5, <1>6 DEF Behaves, Restoring, Saved, Plain, Backups!Making
<1>9. \A q \in Procs : Behaves(x3'[q], x1', x2')
  BY <1>2, <1>7, <1>8 DEF BackupInv
<1>10. BackupTypes'
  BY <1>2, <1>5, <1>7 DEF BackupTypes
<1>11. OneRestore(x3')
  BY <1>6, <1>7 DEF BackupInv, OneRestore
<1>12. Writers(x2, x3', x5')
  <2>1. \A q, s \in Procs :
          /\ q # s /\ x3'[q].at \in Backups!Making /\ x3'[s].at \in Backups!Making
          /\ x3'[q].made = x3'[s].made
          => x3'[q].made \in x5'
    <3>1. TAKE q, s \in Procs
    <3>2. HAVE /\ q # s /\ x3'[q].at \in Backups!Making /\ x3'[s].at \in Backups!Making
               /\ x3'[q].made = x3'[s].made
    <3>3. CASE q = p
      BY <1>3, <1>6, <1>7, <3>2, <3>3
    <3>4. CASE s = p
      BY <1>3, <1>6, <1>7, <3>2, <3>4
    <3>5. CASE q # p /\ s # p
      BY <1>3, <1>5, <1>7, <3>2, <3>5 DEF Writers
    <3> QED BY <3>3, <3>4, <3>5
  <2>2. \A b \in Backups!Archives, q, s \in Procs :
          q \in x2[b].by /\ q # s /\ x3'[s].at \in Backups!Making /\ x3'[s].made = b => b \in x5'
    <3>1. TAKE b \in Backups!Archives, q, s \in Procs
    <3>2. HAVE q \in x2[b].by /\ q # s /\ x3'[s].at \in Backups!Making /\ x3'[s].made = b
    <3>3. s # p
      BY <1>2, <1>4, <1>5, <1>6, <1>7, <3>2 DEF Writers
    <3> QED BY <1>3, <1>5, <1>7, <3>2, <3>3 DEF Writers
  <2>3. \A q \in Procs : x3'[q].cmd = "create" /\ x3'[q].at = "done" => x3'[q] = x3[q]
    BY <1>6, <1>7
  <2> QED BY <1>3, <1>5, <2>1, <2>2, <2>3 DEF Writers
<1> QED BY <1>2, <1>9, <1>10, <1>11, <1>12 DEF BackupInv

LEMMA NewestTimeIs ==
  ASSUME BackupTypes, NEW b \in Backups!Archives
  PROVE  Backups!NewestTime \in Nat /\ \A a \in Backups!Archives : x2[a].time <= Backups!NewestTime
<1> DEFINE T == {x2[a].time : a \in Backups!Archives}
<1>1. PICK n \in Nat : \A a \in Backups!Archives : x2[a].time <= n
  BY DEF BackupTypes
<1>2. \A a \in Backups!Archives : x2[a].time \in 0..n
  BY <1>1 DEF BackupTypes, ArchiveFiles
<1>3. T \subseteq 0..n /\ T # {}
  BY <1>2
<1>4. \E t \in T : \A u \in T : u <= t
  BY <1>3, GreatestTime
<1>5. \E t \in T : \A a \in Backups!Archives : x2[a].time <= t
  BY <1>4
<1>6. Backups!NewestTime \in T /\ \A a \in Backups!Archives : x2[a].time <= Backups!NewestTime
  BY <1>5 DEF Backups!NewestTime
<1> QED BY <1>3, <1>6

\* A process that makes an archive goes on, or ends, with the archive changed.
LEMMA ArchiveStep ==
  ASSUME BackupInv, NEW p \in Procs, x3[p].at \in Backups!Making, NEW f \in ArchiveFiles,
         x2' = [x2 EXCEPT ![x3[p].made] = f], UNCHANGED <<x1, x5>>,
         NEW at \in {"writing", "listing", "extract", "done"},
         x3' = [x3 EXCEPT ![p].at = at],
         Behaves([x3[p] EXCEPT !.at = at], x1, x2'),
         at = "done" => f.at = "whole" /\ f.sums = {f.content},
         f.at # "absent", f.by = {p} \/ (f.by = x2[x3[p].made].by /\ x3[p].at # "tar"),
         \E n \in Nat : \A a \in Backups!Archives : x2'[a].time <= n
  PROVE  BackupInv'
<1> DEFINE r == [x3[p] EXCEPT !.at = at]
           made == x3[p].made
<1>1. /\ BackupTypes /\ x3[p] \in BackupProcs /\ at \in BackupStages /\ Writers(x2, x3, x5)
      /\ x3' = [x3 EXCEPT ![p] = r] /\ OneRestore(x3)
  BY DEF BackupInv, BackupTypes, BackupStages
<1>2. r \in BackupProcs /\ r.at = at /\ r.cmd = x3[p].cmd /\ r.made = made
  BY <1>1, BackupStage
<1>3. Behaves(r, x1, x2')
  OBVIOUS
<1> HIDE DEF r
<1>4. x3' \in [Procs -> BackupProcs] /\ \A q \in Procs : x3'[q] = IF q = p THEN r ELSE x3[q]
  BY <1>1, <1>2, BackupProcMoves
<1>5. /\ made \in Backups!Archives /\ x2' \in [Backups!Archives -> ArchiveFiles]
      /\ \A a \in Backups!Archives : x2'[a] = IF a = made THEN f ELSE x2[a]
      /\ \A q \in Procs : q # p => Behaves(x3[q], x1, x2')
  BY ArchiveChanges
<1> HIDE DEF made
<1>6. \A q \in Procs : Behaves(x3'[q], x1', x2')
  BY <1>3, <1>4, <1>5
<1>7. BackupTypes'
  BY <1>1, <1>4, <1>5 DEF BackupTypes
<1>8. OneRestore(x3')
  BY <1>1, <1>2, <1>4 DEF OneRestore
<1>9. \A q \in Procs : x3'[q].at \in Backups!Making => x3[q].at \in Backups!Making /\ x3'[q].made = x3[q].made
  BY <1>2, <1>4 DEF made
<1>10. \A q, s \in Procs :
         /\ q # s /\ x3'[q].at \in Backups!Making /\ x3'[s].at \in Backups!Making
         /\ x3'[q].made = x3'[s].made
         => x3'[q].made \in x5'
  BY <1>1, <1>9 DEF Writers
<1>11. \A b \in Backups!Archives, q, s \in Procs :
         q \in x2'[b].by /\ q # s /\ x3'[s].at \in Backups!Making /\ x3'[s].made = b => b \in x5'
  <2>1. TAKE b \in Backups!Archives, q, s \in Procs
  <2>2. HAVE q \in x2'[b].by /\ q # s /\ x3'[s].at \in Backups!Making /\ x3'[s].made = b
  <2>3. x3[s].at \in Backups!Making /\ x3[s].made = b
    BY <1>9, <2>2
  <2>4. CASE q \in x2[b].by
    BY <1>1, <2>2, <2>3, <2>4 DEF Writers
  <2>5. CASE q \notin x2[b].by
    <3>1. b = made /\ q \in f.by /\ f.by # x2[made].by
      BY <1>5, <2>2, <2>5
    <3>2. q = p
      BY <3>1 DEF made
    <3> QED BY <1>1, <2>2, <2>3, <3>1, <3>2 DEF Writers, made
  <2> QED BY <2>4, <2>5
<1>12. \A a \in Backups!Archives : x2'[a].at = "absent" => x2'[a].by = {}
  BY <1>1, <1>5 DEF Writers
<1>13. \A q \in Procs :
         x3'[q].cmd = "create" /\ x3'[q].at = "done" /\ q \in x2'[x3'[q].made].by
         => \/ x3'[q].made \in x5'
            \/ x2'[x3'[q].made].at = "whole" /\ x2'[x3'[q].made].sums = {x2'[x3'[q].made].content}
  <2>1. TAKE q \in Procs
  <2>2. HAVE x3'[q].cmd = "create" /\ x3'[q].at = "done" /\ q \in x2'[x3'[q].made].by
  <2>3. CASE q = p
    BY <1>2, <1>4, <1>5, <2>2, <2>3
  <2>4. CASE q # p
    <3>1. x3'[q] = x3[q] /\ x3[q].made \in Backups!Archives
      BY <1>1, <1>4, <2>4 DEF BackupTypes, BackupProcs
    <3>2. CASE x3[q].made # made
      BY <1>1, <1>5, <2>2, <3>1, <3>2 DEF Writers
    <3>3. CASE x3[q].made = made
      <4>1. q \in f.by /\ f.by = x2[made].by
        BY <1>5, <2>2, <2>4, <3>1, <3>3 DEF made
      <4> QED BY <1>1, <2>4, <3>1, <3>3, <4>1 DEF Writers, made
    <3> QED BY <3>2, <3>3
  <2> QED BY <2>3, <2>4
<1>14. Writers(x2', x3', x5')
  BY <1>10, <1>11, <1>12, <1>13 DEF Writers
<1> QED BY <1>6, <1>7, <1>8, <1>14 DEF BackupInv

LEMMA StartArchiveStep ==
  ASSUME BackupInv, NEW p \in Procs, Backups!StartArchive(p) PROVE BackupInv'
<1> DEFINE made == x3[p].made
           f == [at |-> "torn", content |-> Backups!Nothing, sums |-> x2[made].sums,
                 time |-> Backups!NewestTime + 1, by |-> {p}]
           r == [x3[p] EXCEPT !.at = "writing"]
<1>1. /\ x3[p].at = "tar" /\ x3' = [x3 EXCEPT ![p].at = "writing"]
      /\ x2' = [x2 EXCEPT ![made] = f] /\ UNCHANGED <<x1, x5>>
  BY DEF Backups!StartArchive, Backups!Step
<1>2. BackupTypes /\ x3[p] \in BackupProcs /\ Behaves(x3[p], x1, x2) /\ x3[p].at \in Backups!Making
  BY <1>1 DEF BackupInv, BackupTypes, Backups!Making
<1>3. made \in Backups!Archives /\ x2[made] \in ArchiveFiles
  BY <1>2 DEF BackupTypes, BackupProcs
<1>4. Backups!NewestTime \in Nat /\ \A a \in Backups!Archives : x2[a].time <= Backups!NewestTime
  BY <1>2, <1>3, NewestTimeIs
<1>5. f \in ArchiveFiles /\ f.at = "torn" /\ f.by = {p} /\ f.time = Backups!NewestTime + 1
  BY <1>3, <1>4 DEF ArchiveFiles, DataSets, Backups!Nothing
<1> HIDE DEF f
<1>6. /\ r.at = "writing" /\ r.cmd = x3[p].cmd /\ r.made = x3[p].made
      /\ r.temp = x3[p].temp /\ r.before = x3[p].before /\ r.goal = x3[p].goal
  BY <1>2, BackupStage DEF BackupStages
<1> HIDE DEF r
<1>7. Behaves(r, x1, x2')
  BY <1>1, <1>2, <1>6 DEF Behaves, Restoring, Saved, Plain, Backups!Making
<1>8. \A a \in Backups!Archives : x2'[a] = IF a = made THEN f ELSE x2[a]
  BY <1>1, <1>2, <1>5, ArchiveChanges
<1>9. \A a \in Backups!Archives : x2'[a].time <= Backups!NewestTime + 1
  <2>1. \A a \in Backups!Archives : x2[a].time \in Nat
    BY <1>2 DEF BackupTypes, ArchiveFiles
  <2> QED BY <1>4, <1>5, <1>8, <2>1
<1>10. \E n \in Nat : \A a \in Backups!Archives : x2'[a].time <= n
  <2> DEFINE n == Backups!NewestTime + 1
  <2>1. n \in Nat /\ \A a \in Backups!Archives : x2'[a].time <= n
    BY <1>4, <1>9
  <2> HIDE DEF n
  <2> QED BY <2>1, Zenon
<1> QED BY <1>1, <1>2, <1>5, <1>7, <1>10, ArchiveStep DEF r

LEMMA EndArchiveStep ==
  ASSUME BackupInv, NEW p \in Procs, Backups!EndArchive(p) PROVE BackupInv'
<1> DEFINE made == x3[p].made
           content == Backups!Archived(x1)
           f == [x2[made] EXCEPT !.at = "whole", !.content = content]
           r == [x3[p] EXCEPT !.at = "listing"]
<1>1. /\ x3[p].at = "writing" /\ x3' = [x3 EXCEPT ![p].at = "listing"] /\ UNCHANGED <<x1, x5>>
      /\ x2' = [x2 EXCEPT ![made] = f]
  BY DEF Backups!EndArchive, Backups!Step
<1>2. BackupTypes /\ x3[p] \in BackupProcs /\ Behaves(x3[p], x1, x2) /\ x3[p].at \in Backups!Making
  BY <1>1 DEF BackupInv, BackupTypes, Backups!Making
<1>3. made \in Backups!Archives /\ x2[made] \in ArchiveFiles /\ content \in DataSets
  BY <1>2 DEF BackupTypes, BackupProcs, DataSets, Backups!Archived
<1>4. /\ f \in ArchiveFiles /\ f.at = "whole" /\ f.content = content /\ f.by = x2[made].by
      /\ f.time = x2[made].time
  BY <1>3 DEF ArchiveFiles
<1> HIDE DEF f
<1>5. /\ r.at = "listing" /\ r.cmd = x3[p].cmd /\ r.made = x3[p].made
      /\ r.temp = x3[p].temp /\ r.before = x3[p].before /\ r.goal = x3[p].goal
  BY <1>2, BackupStage DEF BackupStages
<1> HIDE DEF r
<1>6. \A a \in Backups!Archives : x2'[a] = IF a = made THEN f ELSE x2[a]
  BY <1>1, <1>2, <1>4, ArchiveChanges
<1>7. Behaves(r, x1, x2')
  BY <1>1, <1>2, <1>3, <1>4, <1>5, <1>6 DEF Behaves, Restoring, Saved, Kept, Plain, Backups!Making
<1>8. \E n \in Nat : \A a \in Backups!Archives : x2'[a].time <= n
  BY <1>2, <1>4, <1>6 DEF BackupTypes
<1> QED BY <1>1, <1>2, <1>4, <1>7, <1>8, ArchiveStep DEF r

LEMMA WriteChecksumStep ==
  ASSUME BackupInv, NEW p \in Procs, Backups!WriteChecksum(p) PROVE BackupInv'
<1> DEFINE made == x3[p].made
<1>1. x3[p].at = "listing" /\ UNCHANGED <<x1, x5>>
  BY DEF Backups!WriteChecksum
<1>2. BackupTypes /\ x3[p] \in BackupProcs /\ Behaves(x3[p], x1, x2) /\ x3[p].at \in Backups!Making
  BY <1>1 DEF BackupInv, BackupTypes, Backups!Making
<1>3. made \in Backups!Archives /\ x2[made] \in ArchiveFiles
  BY <1>2 DEF BackupTypes, BackupProcs
<1>4. CASE x2[made].at = "whole"
  <2> DEFINE f == [x2[made] EXCEPT !.sums = {x2[made].content}]
             at == IF x3[p].cmd = "restore" THEN "extract" ELSE "done"
             r == [x3[p] EXCEPT !.at = at]
  <2>1. x3' = [x3 EXCEPT ![p].at = at] /\ x2' = [x2 EXCEPT ![made] = f]
    BY <1>4 DEF Backups!WriteChecksum, Backups!Step
  <2>2. /\ f \in ArchiveFiles /\ f.at = "whole" /\ f.content = x2[made].content
        /\ f.sums = {x2[made].content} /\ f.by = x2[made].by /\ f.time = x2[made].time
    <3>1. \A g \in ArchiveFiles, s \in SUBSET DataSets : [g EXCEPT !.sums = s]
            = [at |-> g.at, content |-> g.content, sums |-> s, time |-> g.time, by |-> g.by]
      BY DEF ArchiveFiles
    <3>2. x2[made].content \in DataSets
      BY <1>3 DEF ArchiveFiles
    <3>3. f = [at |-> x2[made].at, content |-> x2[made].content, sums |-> {x2[made].content},
               time |-> x2[made].time, by |-> x2[made].by]
      BY <1>3, <3>1, <3>2
    <3> HIDE DEF f
    <3> QED BY <1>3, <1>4, <3>2, <3>3 DEF ArchiveFiles
  <2> HIDE DEF f
  <2>3. at \in {"extract", "done"} /\ (at = "extract" <=> x3[p].cmd = "restore")
    OBVIOUS
  <2> HIDE DEF at
  <2>4. /\ r.at = at /\ r.cmd = x3[p].cmd /\ r.made = x3[p].made
        /\ r.temp = x3[p].temp /\ r.before = x3[p].before /\ r.goal = x3[p].goal
    BY <1>2, <2>3, BackupStage DEF BackupStages
  <2> HIDE DEF r
  <2>5. \A a \in Backups!Archives : x2'[a] = IF a = made THEN f ELSE x2[a]
    BY <1>2, <2>1, <2>2, ArchiveChanges
  <2>6. Behaves(r, x1, x2')
    BY <1>1, <1>2, <1>3, <1>4, <2>2, <2>3, <2>4, <2>5
    DEF Behaves, Restoring, Saved, Kept, Plain, Backups!Making
  <2>7. \E n \in Nat : \A a \in Backups!Archives : x2'[a].time <= n
    BY <1>2, <2>2, <2>5 DEF BackupTypes
  <2> QED BY <1>1, <1>2, <2>1, <2>2, <2>3, <2>6, <2>7, ArchiveStep DEF r
<1>5. CASE x2[made].at # "whole"
  <2> DEFINE r == [x3[p] EXCEPT !.at = "failed"]
  <2>1. x3' = [x3 EXCEPT ![p] = r] /\ x2' = x2
    BY <1>5 DEF Backups!WriteChecksum, Backups!Step
  <2>2. /\ r \in BackupProcs /\ r.at = "failed" /\ r.cmd = x3[p].cmd /\ r.made = x3[p].made
        /\ r.before = x3[p].before /\ r.goal = x3[p].goal
    BY <1>2, BackupStage DEF BackupStages
  <2> HIDE DEF r
  <2>3. Behaves(r, x1, x2)
    BY <1>1, <1>2, <2>2 DEF Behaves, Restoring, Saved, Plain, Backups!Making
  <2> QED BY <1>1, <2>1, <2>2, <2>3, BackupProcStep DEF Backups!Making
<1> QED BY <1>4, <1>5

LEMMA CleanOneStep ==
  ASSUME BackupInv, NEW p \in Procs, NEW keep \in 1..2, Backups!CleanOne(p, keep) PROVE BackupInv'
<1>1. PICK a \in Backups!Archives :
        x2' = [x2 EXCEPT ![a] = Backups!NoArchive] /\ UNCHANGED <<x1, x3, x5>>
  BY DEF Backups!CleanOne, Backups!Listed
<1>2. BackupTypes /\ Writers(x2, x3, x5)
  BY DEF BackupInv
<1>3. /\ Backups!NoArchive \in ArchiveFiles /\ Backups!NoArchive.at = "absent"
      /\ Backups!NoArchive.by = {} /\ Backups!NoArchive.time = 0
  BY DEF ArchiveFiles, Backups!NoArchive, DataSets, Backups!Nothing
<1>4. /\ x2' \in [Backups!Archives -> ArchiveFiles]
      /\ \A b \in Backups!Archives : x2'[b] = IF b = a THEN Backups!NoArchive ELSE x2[b]
  BY <1>1, <1>2, <1>3 DEF BackupTypes
<1>5. \A q \in Procs : x3[q].made \in Backups!Archives
  BY <1>2 DEF BackupTypes, BackupProcs
<1>6. \E n \in Nat : \A b \in Backups!Archives : x2'[b].time <= n
  BY <1>2, <1>3, <1>4 DEF BackupTypes
<1>7. BackupTypes'
  BY <1>1, <1>2, <1>4, <1>6 DEF BackupTypes
<1>8. ASSUME NEW q \in Procs PROVE Behaves(x3[q], x1, x2')
  <2>1. Behaves(x3[q], x1, x2)
    BY DEF BackupInv
  <2>2. x2'[x3[q].made] = x2[x3[q].made] \/ x2'[x3[q].made].at = "absent"
    BY <1>3, <1>4, <1>5
  <2> QED BY <2>1, <2>2 DEF Behaves, Saved, Kept
<1>9. Writers(x2', x3, x5)
  BY <1>2, <1>3, <1>4, <1>5 DEF Writers
<1> QED BY <1>1, <1>7, <1>8, <1>9 DEF BackupInv

LEMMA BackupStep ==
  ASSUME BackupInv, Backups!Next \/ UNCHANGED <<x1, x2, x3, x4, x5>>
  PROVE  BackupInv'
<1>1. CASE UNCHANGED <<x1, x2, x3, x4, x5>>
  BY <1>1 DEF BackupInv, BackupTypes
<1>2. ASSUME NEW p \in Procs, NEW keep \in 1..2, Backups!CleanOne(p, keep) PROVE BackupInv'
  BY <1>2, CleanOneStep
<1>3. ASSUME NEW p \in Procs,
             \/ Backups!ChooseName(p) \/ Backups!StartArchive(p) \/ Backups!EndArchive(p)
             \/ Backups!WriteChecksum(p) \/ Backups!Verify(p) \/ Backups!Extract(p)
             \/ Backups!MoveOut(p) \/ Backups!MoveIn(p) \/ Backups!UndoMove(p)
             \/ Backups!Cleanup(p) \/ Backups!EndClean(p) \/ Backups!Kill(p)
      PROVE  BackupInv'
  BY <1>3, ChooseNameStep, StartArchiveStep, EndArchiveStep, WriteChecksumStep, VerifyStep,
     ExtractStep, MoveOutStep, MoveInStep, UndoMoveStep, CleanupStep, BackupFrameSteps
<1> QED BY <1>1, <1>2, <1>3 DEF Backups!Next

LEMMA BackupsKeepData ==
  ASSUME BackupInv
  PROVE  /\ Backups!RestoreIsAllOrNothing /\ Backups!NothingIsLost
         /\ Backups!ReportedBackupsVerify
<1>1. \A p \in Procs : Behaves(x3[p], x1, x2) /\ x3[p].made \in Backups!Archives
  BY DEF BackupInv, BackupTypes, BackupProcs
<1>2. Backups!RestoreIsAllOrNothing
  <2>1. ASSUME NEW p \in Procs, x3[p].at = "stranded", NEW i \in Backups!All
        PROVE  {x1[i], x3[p].temp[i]} = {x3[p].before[i], 0}
    <3>1. Split(x3[p].temp, x1, x3[p].before)
      BY <1>1, <2>1 DEF Behaves, Restoring, Plain, Backups!Making
    <3> QED BY <3>1 DEF Split
  <2>2. \A p \in Procs : x3[p].at = "stranded" =>
          \A i \in Backups!All : {x1[i], x3[p].temp[i]} = {x3[p].before[i], 0}
    BY <2>1
  <2> QED BY <1>1, <2>2 DEF Backups!RestoreIsAllOrNothing, Behaves, Restoring, Plain, Backups!Making
<1>3. Backups!NothingIsLost
  <2>1. SUFFICES ASSUME NEW p \in Procs, NEW i \in DataItems, x3[p].before[i] # 0
                 PROVE  \/ /\ Backups!Valid(x3[p].made)
                           /\ x2[x3[p].made].content[i] = x3[p].before[i]
                        \/ x2[x3[p].made].at = "absent"
    BY DEF Backups!NothingIsLost
  <2>2. i \in Backups!All
    BY DEF Backups!All
  <2>3. x3[p].before # Backups!Nothing
    BY <2>1, <2>2 DEF Backups!Nothing
  <2>4. Saved(x3[p], x1, x2)
    BY <1>1, <2>3 DEF Behaves, Plain
  <2>5. Kept(x2[x3[p].made], x3[p].before)
    BY <2>3, <2>4 DEF Saved
  <2>6. Backups!Archived(x3[p].before)[i] = x3[p].before[i]
    BY <2>2 DEF Backups!Archived
  <2> QED BY <2>3, <2>4, <2>5, <2>6 DEF Saved, Kept, Backups!Valid
<1>4. Backups!ReportedBackupsVerify
  BY DEF BackupInv, Writers, Backups!ReportedBackupsVerify, Backups!Valid
<1> QED BY <1>2, <1>3, <1>4

-----------------------------------------------------------------------------
(* The embedding index.                                                    *)

DocProcs == [loaded : BOOLEAN, docs : Documents!Docs, limit : Nat,
             saving : {"no", "begin", "write", "rename"},
             result : [found : Documents!Docs, expires : Nat], outdated : BOOLEAN]

DocTypes ==
  /\ x1 \in Documents!Docs \cup {None, Torn} /\ x2 \in Documents!Docs \cup {None, Torn}
  /\ x3 \in [Procs -> DocProcs] /\ x4 \in Nat /\ x7 \in Documents!Docs

\* While no save fails and one process at a time has the index loaded, the file has what
\* was acknowledged last, or the process that is to write it has it.
OneIndex(file, temp, proc, told) ==
  /\ \A p, q \in Procs : proc[p].loaded /\ proc[q].loaded => p = q
  /\ \A p \in Procs :
       /\ proc[p].loaded => proc[p].docs = Documents!Within(proc[p].limit, told)
       /\ proc[p].saving # "no" => proc[p].loaded /\ proc[p].docs = told
       /\ proc[p].saving = "rename" => temp = told
  /\ (\A p \in Procs : proc[p].saving = "no") =>
       file = told \/ (file = None /\ told = Documents!NoDocs)

DocInv ==
  /\ DocTypes
  /\ \A p \in Procs : x3[p].outdated => x3[p].result.found = Documents!NoDocs
  /\ ~ x8 => OneIndex(x1, x2, x3, x7)

LEMMA DocsStart ==
  ASSUME Documents!Init PROVE DocInv
<1>1. /\ x1 = None /\ x2 = None /\ x3 = [p \in Procs |-> Documents!Fresh] /\ x4 = 0
      /\ x7 = Documents!NoDocs
  BY DEF Documents!Init
<1>2. Documents!NoDocs \in Documents!Docs
  BY DEF Documents!NoDocs, Documents!Docs
<1>3. /\ Documents!Fresh \in DocProcs /\ ~ Documents!Fresh.outdated
      /\ ~ Documents!Fresh.loaded /\ Documents!Fresh.saving = "no"
  BY <1>2 DEF Documents!Fresh, Documents!NoResult, DocProcs
<1>4. \A p \in Procs : x3[p] = Documents!Fresh
  BY <1>1
<1> QED BY <1>1, <1>2, <1>3, <1>4 DEF DocInv, DocTypes, OneIndex

\* What is within a limit.
LEMMA WithinLimit ==
  ASSUME NEW limit \in Nat, NEW docs \in Documents!Docs
  PROVE  /\ Documents!Within(limit, docs) \in Documents!Docs
         /\ \A i \in Ids : Documents!Within(limit, docs)[i] # None =>
              TextSizes[Documents!Within(limit, docs)[i]] <= limit
         /\ (\A i \in Ids : docs[i] # None => TextSizes[docs[i]] <= limit) =>
              Documents!Within(limit, docs) = docs
<1> DEFINE w == Documents!Within(limit, docs)
<1>1. \A i \in Ids : docs[i] # None => docs[i] \in DocumentTexts /\ TextSizes[docs[i]] \in Nat
  BY DocumentsAssumption DEF Documents!Docs
<1>2. \A i \in Ids : w[i] = IF docs[i] # None /\ TextSizes[docs[i]] > limit THEN None ELSE docs[i]
  BY DEF Documents!Within
<1>3. w \in Documents!Docs
  BY DEF Documents!Within, Documents!Docs
<1>4. \A i \in Ids : w[i] # None => TextSizes[w[i]] <= limit
  BY <1>1, <1>2
<1>5. ASSUME \A i \in Ids : docs[i] # None => TextSizes[docs[i]] <= limit PROVE w = docs
  <2>1. \A i \in Ids : w[i] = docs[i]
    BY <1>1, <1>2, <1>5
  <2> QED BY <1>3, <2>1 DEF Documents!Docs
<1> QED BY <1>3, <1>4, <1>5

LEMMA DocProcMoves ==
  ASSUME DocTypes, NEW p \in Procs, NEW r \in DocProcs, x3' = [x3 EXCEPT ![p] = r]
  PROVE  x3' \in [Procs -> DocProcs] /\ \A q \in Procs : x3'[q] = IF q = p THEN r ELSE x3[q]
BY DEF DocTypes

LEMMA LoadStep ==
  ASSUME DocInv, NEW p \in Procs, NEW limit \in TextLimits, Documents!Load(p, limit)
  PROVE  DocInv'
<1> DEFINE r == [Documents!Fresh EXCEPT !.loaded = TRUE, !.limit = limit,
                                        !.docs = Documents!Loadable(limit)]
<1>1. /\ ~ x3[p].loaded /\ x3' = [x3 EXCEPT ![p] = r] /\ UNCHANGED <<x1, x2, x4, x7>>
  BY DEF Documents!Load
<1>2. ~ x8' => ~ x8 /\ \A q \in Procs : q # p => ~ x3[q].loaded
  BY DEF Documents!Load, Documents!Others
<1>3. DocTypes /\ limit \in Nat /\ Documents!NoDocs \in Documents!Docs
  BY DocumentsAssumption DEF DocInv, Documents!NoDocs, Documents!Docs
<1>4. Documents!Loadable(limit) \in Documents!Docs
  <2>1. x1 \in Documents!Docs => Documents!Within(limit, x1) \in Documents!Docs
    BY <1>3, WithinLimit
  <2> QED BY <1>3, <2>1 DEF Documents!Loadable, DocTypes
<1>5. /\ r \in DocProcs /\ r.loaded /\ r.limit = limit /\ r.docs = Documents!Loadable(limit)
      /\ r.saving = "no" /\ ~ r.outdated
  BY <1>3, <1>4 DEF Documents!Fresh, Documents!NoResult, DocProcs
<1> HIDE DEF r
<1>6. x3' \in [Procs -> DocProcs] /\ \A q \in Procs : x3'[q] = IF q = p THEN r ELSE x3[q]
  BY <1>1, <1>3, <1>5, DocProcMoves
<1>7. DocTypes'
  BY <1>1, <1>3, <1>6 DEF DocTypes
<1>8. \A q \in Procs : x3'[q].outdated => x3'[q].result.found = Documents!NoDocs
  BY <1>5, <1>6 DEF DocInv
<1>9. ASSUME ~ x8' PROVE OneIndex(x1', x2', x3', x7')
  <2>1. OneIndex(x1, x2, x3, x7)
    BY <1>2, <1>9 DEF DocInv
  <2>2. \A q \in Procs : x3[q].saving = "no" /\ ~ x3[q].loaded
    BY <1>1, <1>2, <1>9, <2>1 DEF OneIndex
  <2>3. x1 = x7 \/ (x1 = None /\ x7 = Documents!NoDocs)
    BY <2>1, <2>2 DEF OneIndex
  <2>4. Documents!Loadable(limit) = Documents!Within(limit, x7)
    <3>1. CASE x1 = x7
      <4>1. x1 \notin {None, Torn}
        BY <1>3, <3>1, DocumentsAssumption DEF DocTypes, Documents!Docs
      <4> QED BY <3>1, <4>1 DEF Documents!Loadable
    <3>2. CASE x1 = None /\ x7 = Documents!NoDocs
      <4>1. Documents!Within(limit, Documents!NoDocs) = Documents!NoDocs
        BY <1>3, WithinLimit DEF Documents!NoDocs
      <4> QED BY <3>2, <4>1 DEF Documents!Loadable
    <3> QED BY <2>3, <3>1, <3>2
  <2>5. \A q \in Procs : x3'[q].loaded => q = p
    BY <1>6, <2>2
  <2> QED BY <1>1, <1>5, <1>6, <2>2, <2>3, <2>4, <2>5 DEF OneIndex
<1> QED BY <1>7, <1>8, <1>9 DEF DocInv

LEMMA ChangeStep ==
  ASSUME DocInv, NEW p \in Procs, NEW docs \in Documents!Docs,
         NEW result \in [found : Documents!Docs, expires : Nat],
         Documents!Change(p, docs, result),
         x3[p].outdated \/ docs = Documents!NoDocs => result.found = Documents!NoDocs,
         ~ x8 => Documents!Within(x3[p].limit, docs) = docs
  PROVE  DocInv'
<1> DEFINE r == [x3[p] EXCEPT !.docs = docs, !.saving = "begin", !.result = result,
                              !.outdated = @ \/ docs = Documents!NoDocs]
<1>1. /\ x3[p].loaded /\ x3[p].saving = "no" /\ x7' = docs /\ UNCHANGED <<x1, x2, x4, x8>>
  BY DEF Documents!Change
<1>2. DocTypes
  BY DEF DocInv
<1>3. x3[p] \in DocProcs
  BY <1>2 DEF DocTypes
<1>4. /\ r \in DocProcs /\ r.loaded /\ r.limit = x3[p].limit /\ r.docs = docs
      /\ r.saving = "begin" /\ r.result = result
      /\ r.outdated => x3[p].outdated \/ docs = Documents!NoDocs
  BY <1>1, <1>3 DEF DocProcs
<1>5. x3' = [x3 EXCEPT ![p] = r]
  BY <1>2 DEF Documents!Change, DocTypes
<1> HIDE DEF r
<1>6. x3' \in [Procs -> DocProcs] /\ \A q \in Procs : x3'[q] = IF q = p THEN r ELSE x3[q]
  BY <1>2, <1>4, <1>5, DocProcMoves
<1>7. DocTypes'
  BY <1>1, <1>2, <1>6 DEF DocTypes
<1>8. \A q \in Procs : x3'[q].outdated => x3'[q].result.found = Documents!NoDocs
  BY <1>4, <1>6 DEF DocInv
<1>9. ASSUME ~ x8' PROVE OneIndex(x1', x2', x3', x7')
  <2>1. OneIndex(x1, x2, x3, x7)
    BY <1>1, <1>9 DEF DocInv
  <2>2. \A q \in Procs : x3[q].loaded => q = p
    BY <1>1, <2>1 DEF OneIndex
  <2>3. \A q \in Procs : q # p => ~ x3[q].loaded /\ x3[q].saving = "no"
    BY <2>1, <2>2 DEF OneIndex
  <2>4. Documents!Within(x3[p].limit, docs) = docs
    BY <1>1, <1>9
  <2> QED BY <1>1, <1>4, <1>6, <2>3, <2>4 DEF OneIndex
<1> QED BY <1>7, <1>8, <1>9 DEF DocInv

LEMMA UpsertStep ==
  ASSUME DocInv, NEW p \in Procs, NEW i \in Ids, NEW text \in DocumentTexts,
         Documents!Upsert(p, i, text)
  PROVE  DocInv'
<1> DEFINE docs == [x3[p].docs EXCEPT ![i] = text]
<1>1. TextSizes[text] <= x3[p].limit /\ Documents!Change(p, docs, x3[p].result)
  BY DEF Documents!Upsert
<1>2. DocTypes /\ x3[p].loaded
  BY DEF DocInv, Documents!Upsert, Documents!Change
<1>3. /\ x3[p] \in DocProcs /\ x3[p].docs \in Documents!Docs /\ x3[p].limit \in Nat
      /\ x3[p].result \in [found : Documents!Docs, expires : Nat]
  BY <1>2 DEF DocTypes, DocProcs
<1>4. docs \in Documents!Docs /\ \A j \in Ids : docs[j] = IF j = i THEN text ELSE x3[p].docs[j]
  BY <1>3 DEF Documents!Docs
<1>5. docs # Documents!NoDocs
  BY <1>4, DocumentsAssumption DEF Documents!NoDocs
<1>6. ASSUME ~ x8 PROVE Documents!Within(x3[p].limit, docs) = docs
  <2>1. x3[p].docs = Documents!Within(x3[p].limit, x7) /\ x7 \in Documents!Docs
    BY <1>2, <1>6 DEF DocInv, OneIndex, DocTypes
  <2>2. \A j \in Ids : x3[p].docs[j] # None => TextSizes[x3[p].docs[j]] <= x3[p].limit
    BY <1>3, <2>1, WithinLimit
  <2>3. \A j \in Ids : docs[j] # None => TextSizes[docs[j]] <= x3[p].limit
    BY <1>1, <1>4, <2>2
  <2> HIDE DEF docs
  <2> QED BY <1>3, <1>4, <2>3, WithinLimit
<1>7. x3[p].outdated => x3[p].result.found = Documents!NoDocs
  BY DEF DocInv
<1> HIDE DEF docs
<1> QED BY <1>1, <1>3, <1>4, <1>5, <1>6, <1>7, ChangeStep

LEMMA ResetStep ==
  ASSUME DocInv, NEW p \in Procs, Documents!Reset(p) PROVE DocInv'
<1>1. Documents!Change(p, Documents!NoDocs, Documents!NoResult)
  BY DEF Documents!Reset, Documents!AfterReset
<1>2. Documents!NoDocs \in Documents!Docs /\ x3[p].limit \in Nat
  BY DEF Documents!NoDocs, Documents!Docs, DocInv, DocTypes, DocProcs
<1>3. /\ Documents!NoResult \in [found : Documents!Docs, expires : Nat]
      /\ Documents!NoResult.found = Documents!NoDocs
  BY <1>2 DEF Documents!NoResult
<1>4. Documents!Within(x3[p].limit, Documents!NoDocs) = Documents!NoDocs
  BY <1>2, WithinLimit DEF Documents!NoDocs
<1> QED BY <1>1, <1>2, <1>3, <1>4, ChangeStep

\* A step of writing the file: `saving` moves on, to whatever the files then are.
LEMMA SavingMoves ==
  ASSUME DocTypes, NEW p \in Procs, NEW s \in {"no", "write", "rename"},
         x3' = [x3 EXCEPT ![p].saving = s]
  PROVE  /\ x3' \in [Procs -> DocProcs]
         /\ \A q \in Procs : /\ x3'[q].loaded = x3[q].loaded /\ x3'[q].docs = x3[q].docs
                             /\ x3'[q].limit = x3[q].limit /\ x3'[q].result = x3[q].result
                             /\ x3'[q].outdated = x3[q].outdated
                             /\ x3'[q].saving = IF q = p THEN s ELSE x3[q].saving
<1>1. x3[p] \in DocProcs
  BY DEF DocTypes
<1> DEFINE r == [x3[p] EXCEPT !.saving = s]
<1>2. /\ r \in DocProcs /\ r.loaded = x3[p].loaded /\ r.docs = x3[p].docs
      /\ r.limit = x3[p].limit /\ r.result = x3[p].result /\ r.outdated = x3[p].outdated
      /\ r.saving = s
  BY <1>1 DEF DocProcs
<1>3. x3' = [x3 EXCEPT ![p] = r]
  OBVIOUS
<1> HIDE DEF r
<1> QED BY <1>2, <1>3, DocProcMoves

LEMMA SaveSteps ==
  ASSUME DocInv, NEW p \in Procs,
         \/ Documents!BeginSave(p) \/ Documents!WriteTemp(p) \/ Documents!Rename(p)
         \/ Documents!SaveFails(p)
  PROVE  DocInv'
<1>1. PICK s \in {"no", "write", "rename"} :
        /\ x3' = [x3 EXCEPT ![p].saving = s]
        /\ s = "rename" => x2' = x3[p].docs
        /\ s = "no" => Documents!Rename(p) \/ Documents!SaveFails(p)
  BY DEF Documents!BeginSave, Documents!WriteTemp, Documents!Rename, Documents!SaveFails
<1>2. DocTypes
  BY DEF DocInv
<1>3. /\ x3' \in [Procs -> DocProcs]
      /\ \A q \in Procs : /\ x3'[q].loaded = x3[q].loaded /\ x3'[q].docs = x3[q].docs
                          /\ x3'[q].limit = x3[q].limit /\ x3'[q].result = x3[q].result
                          /\ x3'[q].outdated = x3[q].outdated
                          /\ x3'[q].saving = IF q = p THEN s ELSE x3[q].saving
  BY <1>1, <1>2, SavingMoves
<1>4. x4' = x4 /\ x7' = x7 /\ x3[p].saving # "no"
  BY DEF Documents!BeginSave, Documents!WriteTemp, Documents!Rename, Documents!SaveFails
<1>5. /\ x1' \in Documents!Docs \cup {None, Torn} /\ x2' \in Documents!Docs \cup {None, Torn}
  BY <1>2 DEF DocTypes, DocProcs, Documents!BeginSave, Documents!WriteTemp, Documents!Rename,
              Documents!SaveFails
<1>6. DocTypes'
  BY <1>2, <1>3, <1>4, <1>5 DEF DocTypes
<1>7. \A q \in Procs : x3'[q].outdated => x3'[q].result.found = Documents!NoDocs
  BY <1>3 DEF DocInv
<1>8. ASSUME ~ x8' PROVE OneIndex(x1', x2', x3', x7')
  <2>1. ~ x8 /\ (Documents!BeginSave(p) \/ Documents!WriteTemp(p) \/ Documents!Rename(p))
    BY <1>8 DEF Documents!BeginSave, Documents!WriteTemp, Documents!Rename, Documents!SaveFails
  <2>2. OneIndex(x1, x2, x3, x7)
    BY <2>1 DEF DocInv
  <2>3. x3[p].loaded /\ x3[p].docs = x7
    BY <1>4, <2>2 DEF OneIndex
  <2>4. \A q \in Procs : q # p => ~ x3[q].loaded /\ x3[q].saving = "no"
    BY <2>2, <2>3 DEF OneIndex
  <2>5. x3'[p].saving = "rename" => x2' = x7
    BY <1>1, <1>3, <2>3
  <2>6. x3'[p].saving = "no" => x1' = x7
    <3>1. SUFFICES ASSUME Documents!Rename(p) PROVE x1' = x7
      BY <1>1, <1>3, <1>8 DEF Documents!SaveFails
    <3>2. x2 = x7
      BY <2>2, <3>1 DEF Documents!Rename, OneIndex
    <3>3. x2 # None
      BY <1>2, <3>2, DocumentsAssumption DEF DocTypes, Documents!Docs
    <3> QED BY <3>1, <3>2, <3>3 DEF Documents!Rename
  <2> QED BY <1>3, <1>4, <2>2, <2>3, <2>4, <2>5, <2>6 DEF OneIndex
<1> QED BY <1>6, <1>7, <1>8 DEF DocInv

LEMMA SearchStep ==
  ASSUME DocInv, NEW p \in Procs, Documents!Search(p) PROVE DocInv'
<1> DEFINE found == [found |-> x3[p].docs, expires |-> x4 + ResultTtl]
           r == [x3[p] EXCEPT !.result = found, !.outdated = FALSE]
<1>1. x3' = [x3 EXCEPT ![p] = r] /\ UNCHANGED <<x1, x2, x4, x7, x8>>
  BY DEF Documents!Search, Documents!Ranked
<1>2. DocTypes /\ x3[p] \in DocProcs
  BY DEF DocInv, DocTypes
<1>3. found \in [found : Documents!Docs, expires : Nat]
  BY <1>2, DocumentsAssumption DEF DocTypes, DocProcs
<1>4. /\ r \in DocProcs /\ r.loaded = x3[p].loaded /\ r.docs = x3[p].docs
      /\ r.limit = x3[p].limit /\ r.saving = x3[p].saving /\ ~ r.outdated
  BY <1>2, <1>3 DEF DocProcs
<1> HIDE DEF r
<1>5. x3' \in [Procs -> DocProcs] /\ \A q \in Procs : x3'[q] = IF q = p THEN r ELSE x3[q]
  BY <1>1, <1>2, <1>4, DocProcMoves
<1> QED BY <1>1, <1>2, <1>4, <1>5 DEF DocInv, DocTypes, OneIndex

LEMMA ExitStep ==
  ASSUME DocInv, NEW p \in Procs, Documents!Exit(p) PROVE DocInv'
<1> DEFINE r == Documents!Fresh
<1>1. x3' = [x3 EXCEPT ![p] = r] /\ UNCHANGED <<x1, x2, x4, x7>>
  BY DEF Documents!Exit
<1>2. ~ x8' => ~ x8 /\ x3[p].saving = "no"
  BY DEF Documents!Exit
<1>3. DocTypes /\ Documents!NoDocs \in Documents!Docs
  BY DEF DocInv, Documents!NoDocs, Documents!Docs
<1>4. r \in DocProcs /\ ~ r.loaded /\ r.saving = "no" /\ ~ r.outdated
  BY <1>3 DEF Documents!Fresh, Documents!NoResult, DocProcs
<1> HIDE DEF r
<1>5. x3' \in [Procs -> DocProcs] /\ \A q \in Procs : x3'[q] = IF q = p THEN r ELSE x3[q]
  BY <1>1, <1>3, <1>4, DocProcMoves
<1>6. DocTypes' /\ \A q \in Procs : x3'[q].outdated => x3'[q].result.found = Documents!NoDocs
  BY <1>1, <1>3, <1>4, <1>5 DEF DocInv, DocTypes
<1>7. ASSUME ~ x8' PROVE OneIndex(x1', x2', x3', x7')
  <2>1. OneIndex(x1, x2, x3, x7)
    BY <1>2, <1>7 DEF DocInv
  <2>2. (\A q \in Procs : x3'[q].saving = "no") => \A q \in Procs : x3[q].saving = "no"
    BY <1>2, <1>5, <1>7
  <2> QED BY <1>1, <1>4, <1>5, <2>1, <2>2 DEF OneIndex
<1> QED BY <1>6, <1>7 DEF DocInv

LEMMA DocStep ==
  ASSUME DocInv, Documents!Next \/ UNCHANGED <<x1, x2, x3, x4, x5, x6, x7, x8>>
  PROVE  DocInv'
<1>1. CASE UNCHANGED <<x1, x2, x3, x4, x5, x6, x7, x8>>
  BY <1>1 DEF DocInv, DocTypes
<1>2. CASE Documents!Tick
  <2>1. x4' = x4 + 1 /\ UNCHANGED <<x1, x2, x3, x7, x8>>
    BY <1>2 DEF Documents!Tick
  <2> QED BY <2>1 DEF DocInv, DocTypes
<1>3. ASSUME NEW p \in Procs, NEW limit \in TextLimits, Documents!Load(p, limit) PROVE DocInv'
  BY <1>3, LoadStep
<1>4. ASSUME NEW p \in Procs, NEW i \in Ids, NEW text \in DocumentTexts,
             Documents!Upsert(p, i, text)
      PROVE  DocInv'
  BY <1>4, UpsertStep
<1>5. ASSUME NEW p \in Procs,
             \/ Documents!BeginSave(p) \/ Documents!WriteTemp(p) \/ Documents!Rename(p)
             \/ Documents!SaveFails(p) \/ Documents!Reset(p) \/ Documents!Search(p)
             \/ Documents!Exit(p)
      PROVE  DocInv'
  BY <1>5, SaveSteps, ResetStep, SearchStep, ExitStep
<1> QED BY <1>1, <1>2, <1>3, <1>4, <1>5 DEF Documents!Next

LEMMA DocumentsStay ==
  ASSUME DocInv
  PROVE  Documents!DocumentsSurvive /\ Documents!NoResultOutlivesAReset
BY DEF DocInv, OneIndex, Documents!DocumentsSurvive, Documents!NoResultOutlivesAReset

-----------------------------------------------------------------------------
(* Managed apps.                                                           *)

AppStates == {"none", "installed", "running", "stopped"}
AppRegistries == [AppNames -> AppStates \cup {"unknown"}]
ReadManifests == AppManifests \cup {"m0"}
AppSecrets == UNION {AppNeeds(m) : m \in ReadManifests}
AppProcs == [stage : {"idle", "importing", "planned", "first", "second", "ran", "loaded", "saving"},
             app : AppNames \cup {"none"}, action : Apps!Actions \cup {"none"},
             manifest : ReadManifests, secrets : SUBSET AppSecrets,
             seen : AppRegistries, alone : BOOLEAN]

AppTypes ==
  /\ x2 \in AppManifests /\ x4 \in AppRegistries /\ x6 \in [AppNames -> AppStates]
  /\ x7 \in [Procs -> AppProcs]

\* A command that has changed its app, that is to, and that rewrites the registry.
Acted(r) == r.stage \in {"second", "ran", "loaded", "saving"}
Acting(r) == r.stage \in {"planned", "first"} \/ Acted(r)
Updates(r) == r.stage \in {"loaded", "saving"}

\* What was planned can be run, and what runs was planned.
PlansHold(proc) ==
  \A p \in Procs : Acting(proc[p]) =>
    /\ proc[p].app \in AppNames /\ proc[p].action \in Apps!Actions
    /\ ~ AppIsBlocked(proc[p].manifest)

\* A command that has met no other on its app is the only one, and the app is as it left it.
AloneActs(actual, proc) ==
  \A p \in Procs : Acting(proc[p]) /\ proc[p].alone =>
    /\ \A q \in Procs : Acting(proc[q]) /\ proc[q].app = proc[p].app => q = p
    /\ Acted(proc[p]) /\ proc[p].action # "status" =>
         actual[proc[p].app] = Apps!StateAfter(proc[p].action, "none")

\* Until updates overlap, one command at a time has the registry, as the file has it.
OneUpdate(registry, proc) ==
  \A p \in Procs : Updates(proc[p]) =>
    proc[p].seen = registry /\ \A q \in Procs : Updates(proc[q]) => q = p

\* The registry has the state of an app, or a command that is to record it has changed it.
Told(state) == IF state = "unknown" THEN "none" ELSE state
ToRecord(r, a) == Acted(r) /\ r.app = a /\ (~ r.alone \/ r.action # "status")
Follow(registry, actual, proc, drifted) ==
  \A a \in AppNames \ drifted :
    Told(registry[a]) = actual[a] \/ \E q \in Procs : ToRecord(proc[q], a)

AppInv ==
  /\ AppTypes
  /\ PlansHold(x7)
  /\ AloneActs(x6, x7)
  /\ ~ x9 => OneUpdate(x4, x7)
  /\ ~ x9 => Follow(x4, x6, x7, x10)

LEMMA IdleApp ==
  /\ Apps!Idle \in AppProcs /\ Apps!Idle.stage = "idle"
  /\ ~ Acting(Apps!Idle) /\ ~ Updates(Apps!Idle)
BY DEF Apps!Idle, AppProcs, ReadManifests, AppRegistries, AppStates, Acting, Acted, Updates

LEMMA AppsStart ==
  ASSUME Apps!Init PROVE AppInv
<1>1. /\ x2 \in AppManifests /\ x4 = [a \in AppNames |-> "none"]
      /\ x6 = [a \in AppNames |-> "none"] /\ x7 = [p \in Procs |-> Apps!Idle]
  BY DEF Apps!Init
<1>2. \A p \in Procs : x7[p] = Apps!Idle
  BY <1>1
<1>3. AppTypes
  BY <1>1, IdleApp DEF AppTypes, AppRegistries, AppStates
<1>4. PlansHold(x7) /\ AloneActs(x6, x7) /\ OneUpdate(x4, x7)
  BY <1>2, IdleApp DEF PlansHold, AloneActs, OneUpdate
<1>5. Follow(x4, x6, x7, x10)
  BY <1>1 DEF Follow, Told
<1> QED BY <1>3, <1>4, <1>5 DEF AppInv

LEMMA AppProcMoves ==
  ASSUME AppTypes, NEW p \in Procs, NEW r \in AppProcs, x7' = [x7 EXCEPT ![p] = r]
  PROVE  x7' \in [Procs -> AppProcs] /\ \A q \in Procs : x7'[q] = IF q = p THEN r ELSE x7[q]
BY DEF AppTypes

\* A command that no longer acts, or does not yet.
LEMMA Leaves ==
  ASSUME AppInv, NEW p \in Procs, NEW r \in AppProcs, ~ Acting(r), ~ Updates(r),
         x7' = [x7 EXCEPT ![p] = r]
  PROVE  /\ x7' \in [Procs -> AppProcs]
         /\ \A q \in Procs : x7'[q] = IF q = p THEN r ELSE x7[q]
         /\ PlansHold(x7') /\ AloneActs(x6, x7')
         /\ ~ x9 => OneUpdate(x4, x7')
<1>1. x7' \in [Procs -> AppProcs] /\ \A q \in Procs : x7'[q] = IF q = p THEN r ELSE x7[q]
  BY AppProcMoves DEF AppInv
<1>2. PlansHold(x7')
  BY <1>1 DEF AppInv, PlansHold
<1>3. AloneActs(x6, x7')
  BY <1>1 DEF AppInv, AloneActs
<1>4. ~ x9 => OneUpdate(x4, x7')
  BY <1>1 DEF AppInv, OneUpdate
<1> QED BY <1>1, <1>2, <1>3, <1>4

LEMMA ImportSteps ==
  ASSUME AppInv, NEW p \in Procs,
         \/ \E a \in AppNames, force \in BOOLEAN : Apps!Import(p, a, force)
         \/ Apps!Copy(p)
  PROVE  AppInv'
<1>1. PICK r \in AppProcs : /\ ~ Acting(r) /\ ~ Updates(r) /\ x7' = [x7 EXCEPT ![p] = r]
  <2>1. CASE \E a \in AppNames, force \in BOOLEAN : Apps!Import(p, a, force)
    <3>1. PICK a \in AppNames : x7' = [x7 EXCEPT ![p] = [Apps!Idle EXCEPT
            !.stage = "importing", !.app = a, !.manifest = x2]]
      BY <2>1 DEF Apps!Import
    <3> DEFINE r == [Apps!Idle EXCEPT !.stage = "importing", !.app = a, !.manifest = x2]
    <3>2. r \in AppProcs /\ r.stage = "importing"
      BY IdleApp DEF AppProcs, AppInv, AppTypes, ReadManifests
    <3> QED BY <3>1, <3>2 DEF Acting, Acted, Updates
  <2>2. CASE Apps!Copy(p)
    BY <2>2, IdleApp DEF Apps!Copy
  <2> QED BY <2>1, <2>2
<1>2. UNCHANGED <<x2, x4, x6, x9, x10>>
  BY DEF Apps!Import, Apps!Copy
<1>3. ~ Acting(x7[p])
  BY IdleApp DEF Apps!Import, Apps!Begins, Apps!Copy, Acting, Acted
<1>4. /\ x7' \in [Procs -> AppProcs] /\ \A q \in Procs : x7'[q] = IF q = p THEN r ELSE x7[q]
      /\ PlansHold(x7') /\ AloneActs(x6, x7')
      /\ ~ x9 => OneUpdate(x4, x7')
  BY <1>1, <1>2, Leaves
<1>5. ~ x9 => Follow(x4, x6, x7', x10)
  <2>1. \A a \in AppNames, q \in Procs : ToRecord(x7[q], a) => ToRecord(x7'[q], a)
    BY <1>3, <1>4 DEF ToRecord, Acting
  <2> QED BY <2>1 DEF AppInv, Follow
<1> QED BY <1>2, <1>4, <1>5 DEF AppInv, AppTypes

LEMMA PlanStep ==
  ASSUME AppInv, NEW p \in Procs, NEW a \in AppNames, NEW action \in Apps!Actions,
         NEW suits \in BOOLEAN, Apps!Plan(p, a, action, suits)
  PROVE  AppInv'
<1> DEFINE others == {q \in Apps!Active : x7[q].app = a /\ x7[q].stage # "importing"}
           r == [Apps!Idle EXCEPT !.stage = "planned", !.app = a, !.action = action,
                                  !.manifest = Apps!Found(a), !.alone = others = {}]
<1>1. /\ x7[p] = Apps!Idle /\ ~ AppIsBlocked(Apps!Found(a))
      /\ UNCHANGED <<x2, x4, x6, x9, x10>>
  BY DEF Apps!Plan, Apps!Begins, Apps!Screened
<1>2. x7' = [q \in Procs |-> IF q = p THEN r
                             ELSE IF q \in others THEN [x7[q] EXCEPT !.alone = FALSE] ELSE x7[q]]
  BY DEF Apps!Plan
<1>3. AppTypes /\ Apps!Found(a) \in ReadManifests
  BY DEF AppInv, Apps!Found, ReadManifests
<1>4. /\ r \in AppProcs /\ r.stage = "planned" /\ r.app = a /\ r.action = action
      /\ r.manifest = Apps!Found(a) /\ (r.alone => others = {})
  BY <1>3, IdleApp DEF AppProcs
<1>5. \A q \in Procs : Acting(x7[q]) /\ x7[q].app = a => q \in others
  BY DEF Apps!Active, Acting, Acted
<1> HIDE DEF r, others
<1>6. x7'[p] = r /\ \A q \in Procs : q # p =>
        /\ x7'[q] \in AppProcs /\ x7'[q].stage = x7[q].stage /\ x7'[q].app = x7[q].app
        /\ x7'[q].action = x7[q].action /\ x7'[q].manifest = x7[q].manifest
        /\ x7'[q].secrets = x7[q].secrets /\ x7'[q].seen = x7[q].seen
        /\ x7'[q].alone => x7[q].alone /\ q \notin others
  <2>1. x7'[p] = r
    BY <1>2
  <2>2. ASSUME NEW q \in Procs, q # p
        PROVE  x7'[q] = IF q \in others THEN [x7[q] EXCEPT !.alone = FALSE] ELSE x7[q]
    BY <1>2, <2>2
  <2>3. ASSUME NEW q \in Procs, q # p
        PROVE  /\ x7'[q] \in AppProcs /\ x7'[q].stage = x7[q].stage /\ x7'[q].app = x7[q].app
               /\ x7'[q].action = x7[q].action /\ x7'[q].manifest = x7[q].manifest
               /\ x7'[q].secrets = x7[q].secrets /\ x7'[q].seen = x7[q].seen
               /\ x7'[q].alone => x7[q].alone /\ q \notin others
    <3>1. x7[q] \in AppProcs
      BY <1>3 DEF AppTypes
    <3>2. CASE q \in others
      BY <2>2, <2>3, <3>1, <3>2 DEF AppProcs
    <3>3. CASE q \notin others
      BY <2>2, <2>3, <3>1, <3>3
    <3> QED BY <3>2, <3>3
  <2> QED BY <2>1, <2>3
<1>7. AppTypes'
  <2>1. x7' \in [Procs -> AppProcs]
    BY <1>2, <1>4, <1>6
  <2> QED BY <1>1, <1>3, <2>1 DEF AppTypes
<1>8. \A q \in Procs : q # p => (Acting(x7'[q]) <=> Acting(x7[q])) /\ (Acted(x7'[q]) <=> Acted(x7[q]))
                                /\ (Updates(x7'[q]) <=> Updates(x7[q]))
  BY <1>6 DEF Acting, Acted, Updates
<1>9. Acting(r) /\ ~ Acted(r) /\ ~ Updates(r) /\ ~ Acting(x7[p])
  BY <1>1, <1>4, IdleApp DEF Acting, Acted, Updates
<1>10. PlansHold(x7')
  BY <1>1, <1>4, <1>6, <1>8 DEF AppInv, PlansHold
<1>11. AloneActs(x6', x7')
  <2>1. SUFFICES ASSUME NEW s \in Procs, Acting(x7'[s]), x7'[s].alone
        PROVE  /\ \A q \in Procs : Acting(x7'[q]) /\ x7'[q].app = x7'[s].app => q = s
               /\ Acted(x7'[s]) /\ x7'[s].action # "status" =>
                    x6[x7'[s].app] = Apps!StateAfter(x7'[s].action, "none")
    BY <1>1 DEF AloneActs
  <2>2. CASE s = p
    BY <1>4, <1>5, <1>6, <1>8, <1>9, <2>1, <2>2
  <2>3. CASE s # p
    <3>1. Acting(x7[s]) /\ x7[s].alone /\ x7[s].app # a
      BY <1>5, <1>6, <1>8, <2>1, <2>3
    <3> QED BY <1>4, <1>6, <1>8, <2>1, <2>3, <3>1 DEF AppInv, AloneActs
  <2> QED BY <2>2, <2>3
<1>12. ~ x9' => OneUpdate(x4', x7')
  BY <1>1, <1>6, <1>8, <1>9 DEF AppInv, OneUpdate
<1>13. ~ x9' => Follow(x4', x6', x7', x10')
  <2>1. \A b \in AppNames, q \in Procs : ToRecord(x7[q], b) => ToRecord(x7'[q], b)
    BY <1>6, <1>8, <1>9 DEF ToRecord, Acting
  <2> QED BY <1>1, <2>1 DEF AppInv, Follow
<1> QED BY <1>7, <1>10, <1>11, <1>12, <1>13 DEF AppInv

LEMMA ResolveStep ==
  ASSUME AppInv, NEW p \in Procs, Apps!Resolve(p) PROVE AppInv'
<1>1. AppTypes /\ x7[p] \in AppProcs /\ x7[p].stage = "planned"
  BY DEF AppInv, AppTypes, Apps!Resolve
<1>2. /\ UNCHANGED <<x2, x4, x6, x9, x10>>
      /\ x7' = [x7 EXCEPT ![p].stage = "first", ![p].secrets = Apps!Resolved(x7[p].manifest)]
  BY DEF Apps!Resolve
<1> DEFINE found == Apps!Resolved(x7[p].manifest)
<1>3. found \in SUBSET AppSecrets
  BY <1>1 DEF Apps!Resolved, AppSecrets, AppProcs
<1> DEFINE r == [x7[p] EXCEPT !.stage = "first", !.secrets = found]
<1>5. /\ r \in AppProcs /\ r.stage = "first" /\ r.secrets = found
      /\ r.app = x7[p].app /\ r.action = x7[p].action
      /\ r.manifest = x7[p].manifest /\ r.alone = x7[p].alone
  BY <1>1, <1>3 DEF AppProcs
<1>6. /\ x7' \in [Procs -> AppProcs]
      /\ \A q \in Procs : x7'[q] = IF q = p THEN r ELSE x7[q]
  <2>1. x7' = [x7 EXCEPT ![p] = r]
    BY <1>2
  <2> HIDE DEF r
  <2> QED BY <1>1, <1>5, <2>1, AppProcMoves
<1> HIDE DEF r, found
<1>7. Acting(x7[p]) /\ Acting(x7'[p]) /\ ~ Acted(x7[p]) /\ ~ Acted(x7'[p]) /\ ~ Updates(x7'[p])
  BY <1>1, <1>5, <1>6 DEF Acting, Acted, Updates
<1>8. PlansHold(x7')
  BY <1>2, <1>5, <1>6, <1>7 DEF AppInv, PlansHold
<1>9. AloneActs(x6', x7')
  BY <1>2, <1>5, <1>6, <1>7 DEF AppInv, AloneActs
<1>10. ~ x9' => OneUpdate(x4', x7')
  BY <1>2, <1>5, <1>6, <1>7 DEF AppInv, OneUpdate
<1>11. ~ x9' => Follow(x4', x6', x7', x10')
  BY <1>2, <1>5, <1>6, <1>7 DEF AppInv, Follow, ToRecord
<1> QED BY <1>1, <1>2, <1>6, <1>8, <1>9, <1>10, <1>11 DEF AppInv, AppTypes

LEMMA RunStepStep ==
  ASSUME AppInv, NEW p \in Procs, Apps!RunStep(p) PROVE AppInv'
<1> DEFINE next == IF x7[p].stage = "first" THEN "second" ELSE "ran"
           r == [x7[p] EXCEPT !.stage = next]
<1>1. AppTypes /\ x7[p] \in AppProcs /\ x7[p].stage \in {"first", "second"}
  BY DEF AppInv, AppTypes, Apps!RunStep
<1>2. UNCHANGED <<x2, x4, x9, x10>>
  BY DEF Apps!RunStep
<1>3. /\ r \in AppProcs /\ r.stage = next /\ r.secrets = x7[p].secrets
      /\ r.app = x7[p].app /\ r.action = x7[p].action
      /\ r.manifest = x7[p].manifest /\ r.alone = x7[p].alone
  BY <1>1 DEF AppProcs
<1>4. /\ x7' \in [Procs -> AppProcs]
      /\ \A q \in Procs : x7'[q] = IF q = p THEN r ELSE x7[q]
  <2>1. x7' = [x7 EXCEPT ![p] = r]
    BY <1>1 DEF Apps!RunStep
  <2> HIDE DEF r
  <2> QED BY <1>1, <1>3, <2>1, AppProcMoves
<1>5. next \in {"second", "ran"} /\ (x7[p].stage = "second" => next = "ran")
  BY <1>1
<1> HIDE DEF r, next
<1>6. Acting(x7[p]) /\ Acted(r) /\ Acting(r) /\ ~ Updates(r)
  BY <1>1, <1>3, <1>5 DEF Acting, Acted, Updates
<1>7. x7[p].app \in AppNames /\ x7[p].action \in Apps!Actions
  BY <1>6 DEF AppInv, PlansHold
<1>8. /\ \A a \in AppNames : a # x7[p].app => x6'[a] = x6[a]
      /\ x6' \in [AppNames -> AppStates]
      /\ x7[p].action # "status" /\ x7[p].stage = "first" =>
           x6'[x7[p].app] = Apps!StateAfter(x7[p].action, "none")
      /\ x7[p].action = "status" \/ x7[p].stage = "second" => x6' = x6
  <2>1. CASE x7[p].stage = "second"
    BY <1>1, <2>1 DEF Apps!RunStep, AppTypes
  <2>2. CASE x7[p].stage = "first"
    <3> DEFINE a == x7[p].app
               s == Apps!StateAfter(x7[p].action, x6[a])
    <3>1. x6' = [x6 EXCEPT ![a] = s] /\ x6 \in [AppNames -> AppStates]
      BY <1>1, <2>2 DEF Apps!RunStep, AppTypes
    <3>2. /\ s \in AppStates /\ (x7[p].action = "status" => s = x6[a])
          /\ x7[p].action # "status" => s = Apps!StateAfter(x7[p].action, "none")
      BY <1>7, <3>1 DEF Apps!StateAfter, Apps!Actions, AppStates
    <3> HIDE DEF s
    <3> QED BY <1>7, <2>2, <3>1, <3>2
  <2> QED BY <1>1, <2>1, <2>2
<1>9. AppTypes'
  BY <1>1, <1>2, <1>4, <1>8 DEF AppTypes
<1>10. PlansHold(x7')
  BY <1>1, <1>2, <1>3, <1>4, <1>5, <1>6 DEF AppInv, PlansHold
<1>11. AloneActs(x6', x7')
  <2>1. SUFFICES ASSUME NEW s \in Procs, Acting(x7'[s]), x7'[s].alone
        PROVE  /\ \A q \in Procs : Acting(x7'[q]) /\ x7'[q].app = x7'[s].app => q = s
               /\ Acted(x7'[s]) /\ x7'[s].action # "status" =>
                    x6'[x7'[s].app] = Apps!StateAfter(x7'[s].action, "none")
    BY DEF AloneActs
  <2>2. Acting(x7[s]) /\ x7[s].alone /\ x7'[s].app = x7[s].app /\ x7'[s].action = x7[s].action
    BY <1>3, <1>4, <1>6, <2>1
  <2>3. \A q \in Procs : Acting(x7[q]) /\ x7[q].app = x7[s].app => q = s
    BY <2>2 DEF AppInv, AloneActs
  <2>4. \A q \in Procs : Acting(x7'[q]) /\ x7'[q].app = x7'[s].app => q = s
    BY <1>3, <1>4, <1>6, <2>2, <2>3
  <2>5. ASSUME Acted(x7'[s]), x7'[s].action # "status"
        PROVE  x6'[x7'[s].app] = Apps!StateAfter(x7'[s].action, "none")
    <3>1. CASE s = p
      <4>1. CASE x7[p].stage = "first"
        BY <1>8, <2>2, <2>5, <3>1, <4>1
      <4>2. CASE x7[p].stage = "second"
        BY <1>8, <2>2, <2>5, <3>1, <4>2 DEF AppInv, AloneActs, Acted
      <4> QED BY <1>1, <4>1, <4>2
    <3>2. CASE s # p
      <4>1. x7[s].app # x7[p].app /\ x7[s].app \in AppNames
        BY <1>6, <2>2, <2>3, <3>2 DEF AppInv, PlansHold
      <4> QED BY <1>4, <1>8, <2>2, <2>5, <3>2, <4>1 DEF AppInv, AloneActs
    <3> QED BY <3>1, <3>2
  <2> QED BY <2>4, <2>5
<1>12. ~ x9' => OneUpdate(x4', x7')
  BY <1>2, <1>4, <1>6 DEF AppInv, OneUpdate
<1>13. ~ x9' => Follow(x4', x6', x7', x10')
  <2>1. SUFFICES ASSUME ~ x9, NEW a \in AppNames \ x10
                 PROVE  Told(x4[a]) = x6'[a] \/ \E q \in Procs : ToRecord(x7'[q], a)
    BY <1>2 DEF Follow
  <2>2. Told(x4[a]) = x6[a] \/ \E q \in Procs : ToRecord(x7[q], a)
    BY <2>1 DEF AppInv, Follow
  <2>3. \A q \in Procs : ToRecord(x7[q], a) => ToRecord(x7'[q], a)
    BY <1>3, <1>4, <1>6 DEF ToRecord
  <2>4. CASE x6'[a] = x6[a]
    BY <2>2, <2>3, <2>4
  <2>5. CASE x6'[a] # x6[a]
    <3>1. a = x7[p].app /\ x7[p].action # "status"
      BY <1>8, <2>5
    <3> QED BY <1>3, <1>4, <1>6, <3>1 DEF ToRecord
  <2> QED BY <2>4, <2>5
<1> QED BY <1>9, <1>10, <1>11, <1>12, <1>13 DEF AppInv

LEMMA GiveUpSteps ==
  ASSUME AppInv, NEW p \in Procs, Apps!FailStep(p) \/ Apps!Kill(p) PROVE AppInv'
<1>1. /\ x7' = [x7 EXCEPT ![p] = Apps!Idle] /\ UNCHANGED <<x2, x4, x6>>
      /\ x10 \subseteq x10' /\ (Acted(x7[p]) => x7[p].app \in x10')
  <2>1. CASE Apps!FailStep(p)
    BY <2>1 DEF Apps!FailStep, Acted
  <2>2. CASE Apps!Kill(p)
    BY <2>2 DEF Apps!Kill, Acted
  <2> QED BY <2>1, <2>2
<1>2. ~ x9' => ~ x9
  BY DEF Apps!FailStep, Apps!Kill
<1>3. /\ x7' \in [Procs -> AppProcs]
      /\ \A q \in Procs : x7'[q] = IF q = p THEN Apps!Idle ELSE x7[q]
      /\ PlansHold(x7') /\ AloneActs(x6, x7')
      /\ ~ x9 => OneUpdate(x4, x7')
  BY <1>1, IdleApp, Leaves
<1>4. ~ x9' => Follow(x4, x6, x7', x10')
  <2>1. \A a \in AppNames \ x10', q \in Procs : ToRecord(x7[q], a) => ToRecord(x7'[q], a)
    BY <1>1, <1>3 DEF ToRecord
  <2> QED BY <1>1, <1>2, <2>1 DEF AppInv, Follow
<1> QED BY <1>1, <1>2, <1>3, <1>4 DEF AppInv, AppTypes

LEMMA RegistrySteps ==
  ASSUME AppInv, NEW p \in Procs, Apps!LoadRegistry(p) \/ Apps!BeginSave(p) PROVE AppInv'
<1> DEFINE none == [a \in AppNames |-> "none"]
           seen == IF Apps!LoadRegistry(p) THEN IF x5 THEN none ELSE x4 ELSE x7[p].seen
           next == IF Apps!LoadRegistry(p) THEN "loaded" ELSE "saving"
           r == [x7[p] EXCEPT !.stage = next, !.seen = seen]
<1>1. /\ AppTypes /\ x7[p] \in AppProcs
      /\ (Apps!LoadRegistry(p) => x7[p].stage = "ran")
      /\ (~ Apps!LoadRegistry(p) => x7[p].stage = "loaded")
  BY DEF AppInv, AppTypes, Apps!LoadRegistry, Apps!BeginSave
<1>2. /\ UNCHANGED <<x2, x4, x6, x10>> /\ (~ x9' => ~ x9)
      /\ Apps!LoadRegistry(p) /\ ~ x9' => ~ x5 /\ \A q \in Procs : ~ Updates(x7[q])
  <2>1. UNCHANGED <<x2, x4, x6, x10>>
    BY DEF Apps!LoadRegistry, Apps!BeginSave
  <2>2. ~ x9' => ~ x9
    BY DEF Apps!LoadRegistry, Apps!BeginSave
  <2>3. Apps!LoadRegistry(p) /\ ~ x9' => ~ x5 /\ Apps!Updating = {}
    BY DEF Apps!LoadRegistry
  <2>4. Apps!Updating = {} => \A q \in Procs : ~ Updates(x7[q])
    BY DEF Apps!Updating, Updates
  <2> QED BY <2>1, <2>2, <2>3, <2>4
<1>3. x7' = [x7 EXCEPT ![p] = r]
  <2>1. CASE Apps!LoadRegistry(p)
    BY <2>1 DEF Apps!LoadRegistry
  <2>2. CASE ~ Apps!LoadRegistry(p)
    <3>1. x7' = [x7 EXCEPT ![p] = [x7[p] EXCEPT !.stage = "saving"]]
      BY <2>2 DEF Apps!BeginSave
    <3>2. [x7[p] EXCEPT !.stage = "saving"] = [x7[p] EXCEPT !.stage = "saving", !.seen = x7[p].seen]
      BY <1>1 DEF AppProcs
    <3> QED BY <2>2, <3>1, <3>2
  <2> QED BY <2>1, <2>2
<1>4. seen \in AppRegistries /\ next \in {"loaded", "saving"}
  BY <1>1 DEF AppTypes, AppProcs, AppRegistries, AppStates
<1>5. ~ x9' => (Apps!LoadRegistry(p) => seen = x4) /\ (~ Apps!LoadRegistry(p) => seen = x7[p].seen)
  BY <1>2
<1> HIDE DEF seen, next
<1>6. /\ r \in AppProcs /\ r.stage = next /\ r.secrets = x7[p].secrets /\ r.seen = seen
      /\ r.app = x7[p].app /\ r.action = x7[p].action
      /\ r.manifest = x7[p].manifest /\ r.alone = x7[p].alone
  BY <1>1, <1>4 DEF AppProcs
<1> HIDE DEF r
<1>7. /\ x7' \in [Procs -> AppProcs]
      /\ \A q \in Procs : x7'[q] = IF q = p THEN r ELSE x7[q]
  BY <1>1, <1>3, <1>6, AppProcMoves
<1>8. /\ Acting(r) /\ Acted(r) /\ Acting(x7[p]) /\ Acted(x7[p]) /\ x7[p].stage # "planned"
      /\ (~ Apps!LoadRegistry(p) => Updates(x7[p])) /\ r.stage # "planned"
  BY <1>1, <1>4, <1>6 DEF Acting, Acted, Updates
<1>9. AppTypes' /\ PlansHold(x7') /\ AloneActs(x6', x7')
  <2>1. AppTypes'
    BY <1>1, <1>2, <1>7 DEF AppTypes
  <2>2. PlansHold(x7')
    BY <1>2, <1>6, <1>7, <1>8 DEF AppInv, PlansHold
  <2>3. AloneActs(x6', x7')
    BY <1>2, <1>6, <1>7, <1>8 DEF AppInv, AloneActs
  <2> QED BY <2>1, <2>2, <2>3
<1>10. ASSUME ~ x9' PROVE OneUpdate(x4', x7')
  <2>1. OneUpdate(x4, x7)
    BY <1>2, <1>10 DEF AppInv
  <2>2. seen = x4
    BY <1>5, <1>8, <1>10, <2>1 DEF OneUpdate
  <2>3. \A q \in Procs : q # p => ~ Updates(x7[q])
    BY <1>2, <1>8, <1>10, <2>1 DEF OneUpdate
  <2> QED BY <1>2, <1>6, <1>7, <2>2, <2>3 DEF OneUpdate
<1>11. ~ x9' => Follow(x4', x6', x7', x10')
  <2>1. \A a \in AppNames, q \in Procs : ToRecord(x7[q], a) => ToRecord(x7'[q], a)
    BY <1>6, <1>7, <1>8 DEF ToRecord
  <2> QED BY <1>2, <2>1 DEF AppInv, Follow
<1> QED BY <1>9, <1>10, <1>11 DEF AppInv

LEMMA SaveStep ==
  ASSUME AppInv, NEW p \in Procs, Apps!Save(p) PROVE AppInv'
<1> DEFINE a == x7[p].app
           told == Apps!Recorded(x7[p].action, x7[p].seen[a])
<1>1. /\ AppTypes /\ x7[p] \in AppProcs /\ x7[p].stage = "saving"
      /\ x7' = [x7 EXCEPT ![p] = Apps!Idle] /\ UNCHANGED <<x2, x6, x9>>
      /\ x4' = [x7[p].seen EXCEPT ![a] = told]
      /\ x10' = IF ~ x7[p].alone THEN x10 \cup {a}
                ELSE IF x7[p].action = "status" THEN x10 ELSE x10 \ {a}
  BY DEF AppInv, AppTypes, Apps!Save
<1>2. Acting(x7[p]) /\ Acted(x7[p]) /\ Updates(x7[p])
  BY <1>1 DEF Acting, Acted, Updates
<1>3. a \in AppNames /\ x7[p].action \in Apps!Actions
  BY <1>2 DEF AppInv, PlansHold
<1>4. x7[p].seen \in AppRegistries /\ x7[p].seen[a] \in AppStates \cup {"unknown"}
  BY <1>1, <1>3 DEF AppProcs, AppRegistries
<1>5. /\ told \in AppStates \cup {"unknown"}
      /\ x7[p].action = "status" => Told(told) = Told(x7[p].seen[a])
      /\ x7[p].action # "status" => Told(told) = Apps!StateAfter(x7[p].action, "none")
  BY <1>3, <1>4 DEF Apps!Recorded, Apps!StateAfter, Apps!Actions, AppStates, Told
<1> HIDE DEF told
<1>6. x4' \in AppRegistries /\ \A b \in AppNames : x4'[b] = IF b = a THEN told ELSE x7[p].seen[b]
  BY <1>1, <1>3, <1>4, <1>5 DEF AppRegistries
<1>7. /\ x7' \in [Procs -> AppProcs]
      /\ \A q \in Procs : x7'[q] = IF q = p THEN Apps!Idle ELSE x7[q]
      /\ PlansHold(x7') /\ AloneActs(x6, x7')
  BY <1>1, IdleApp, Leaves
<1>8. ASSUME ~ x9 PROVE OneUpdate(x4', x7') /\ Follow(x4', x6, x7', x10')
  <2>1. OneUpdate(x4, x7) /\ Follow(x4, x6, x7, x10)
    BY <1>8 DEF AppInv
  <2>2. x7[p].seen = x4 /\ \A q \in Procs : Updates(x7[q]) => q = p
    BY <1>2, <2>1 DEF OneUpdate
  <2>3. OneUpdate(x4', x7')
    BY <1>7, <2>2, IdleApp DEF OneUpdate
  <2>4. ASSUME NEW b \in AppNames \ x10'
        PROVE  Told(x4'[b]) = x6[b] \/ \E q \in Procs : ToRecord(x7'[q], b)
    <3>1. CASE b # a
      <4>1. Told(x4[b]) = x6[b] \/ \E q \in Procs : ToRecord(x7[q], b)
        BY <1>1, <2>1, <2>4, <3>1 DEF Follow
      <4>2. \A q \in Procs : ToRecord(x7[q], b) => ToRecord(x7'[q], b)
        BY <1>7, <3>1 DEF ToRecord
      <4> QED BY <1>6, <2>2, <3>1, <4>1, <4>2
    <3>2. CASE b = a
      <4>1. x7[p].alone
        BY <1>1, <2>4, <3>2
      <4>2. CASE x7[p].action # "status"
        <5>1. x6[a] = Apps!StateAfter(x7[p].action, "none")
          BY <1>2, <4>1, <4>2 DEF AppInv, AloneActs
        <5> QED BY <1>3, <1>5, <1>6, <3>2, <4>2, <5>1
      <4>3. CASE x7[p].action = "status"
        <5>1. b \notin x10
          BY <1>1, <2>4, <4>1, <4>3
        <5>2. \A q \in Procs : ~ ToRecord(x7[q], a)
          <6>1. \A q \in Procs : Acting(x7[q]) /\ x7[q].app = a => q = p
            BY <1>2, <4>1 DEF AppInv, AloneActs
          <6> QED BY <4>1, <4>3, <6>1 DEF ToRecord, Acting
        <5>3. Told(x4[a]) = x6[a]
          BY <1>3, <2>1, <3>2, <5>1, <5>2 DEF Follow
        <5> QED BY <1>3, <1>5, <1>6, <2>2, <3>2, <4>3, <5>3
      <4> QED BY <4>2, <4>3
    <3> QED BY <3>1, <3>2
  <2> QED BY <2>3, <2>4 DEF Follow
<1> QED BY <1>1, <1>6, <1>7, <1>8 DEF AppInv, AppTypes

LEMMA AppStep ==
  ASSUME AppInv, Apps!Next \/ UNCHANGED <<x1, x2, x3, x4, x5, x6, x7, x8, x9, x10>>
  PROVE  AppInv'
<1>1. CASE UNCHANGED <<x1, x2, x3, x4, x5, x6, x7, x8, x9, x10>>
  BY <1>1 DEF AppInv, AppTypes
<1>2. CASE Apps!VaultChanges \/ Apps!SourceChanges
  <2>1. UNCHANGED <<x4, x6, x7, x9, x10>> /\ x2' \in AppManifests
    BY <1>2 DEF Apps!VaultChanges, Apps!SourceChanges, AppInv, AppTypes
  <2> QED BY <2>1 DEF AppInv, AppTypes, PlansHold
<1>3. ASSUME NEW p \in Procs, NEW a \in AppNames, NEW action \in Apps!Actions,
             NEW suits \in Apps!HostChecks, Apps!Plan(p, a, action, suits)
      PROVE  AppInv'
  BY <1>3, PlanStep DEF Apps!HostChecks
<1>4. ASSUME NEW p \in Procs,
             \/ Apps!Resolve(p) \/ Apps!RunStep(p) \/ Apps!FailStep(p) \/ Apps!Kill(p)
             \/ Apps!LoadRegistry(p) \/ Apps!BeginSave(p) \/ Apps!Save(p) \/ Apps!Copy(p)
             \/ \E a \in AppNames, force \in BOOLEAN : Apps!Import(p, a, force)
      PROVE  AppInv'
  BY <1>4, ResolveStep, RunStepStep, GiveUpSteps, RegistrySteps, SaveStep, ImportSteps
<1> QED BY <1>1, <1>2, <1>3, <1>4 DEF Apps!Next

LEMMA AppsFollow ==
  ASSUME AppInv PROVE Apps!BlockedStepsNeverRun /\ Apps!RegistryFollowsApps
<1>1. Apps!BlockedStepsNeverRun
  <2>1. \A p \in Apps!Running : p \in Procs /\ Acting(x7[p]) /\ x7[p].stage # "planned"
    BY DEF Apps!Running, Acting, Acted
  <2> QED BY <2>1 DEF Apps!BlockedStepsNeverRun, AppInv, PlansHold
<1>2. Apps!RegistryFollowsApps
  <2>1. \A q \in Procs, a \in AppNames : ToRecord(x7[q], a) => q \in Apps!Active /\ x7[q].app = a
    BY DEF ToRecord, Acted, Apps!Active
  <2> QED BY <2>1 DEF Apps!RegistryFollowsApps, AppInv, Follow, Told
<1> QED BY <1>1, <1>2

-----------------------------------------------------------------------------
(* Appends to a chain that may have lost its end with the power.           *)

LossyFiles == Lossy!Blocks \cup {Lossy!Empty}
Linked(files) ==
  \A i \in 1..Len(files) :
    files[i] # Lossy!Empty /\ files[i].prev = IF i = 1 THEN Genesis ELSE files[i - 1].id
NextTo(files, c) ==
  [at |-> Len(files) + 1,
   block |-> [id |-> c, prev |-> IF files = <<>> THEN Genesis ELSE files[Len(files)].id]]

\* Whoever holds the lock is the only one, and what it is about to write follows a chain
\* that validates, as it was under this lock.
HeldLock(files, lock, pc, plan) ==
  \A c \in Calls :
    /\ pc[c] \in Lossy!Inside => lock = c
    /\ pc[c] = "planned" => Linked(files) /\ plan[c] = NextTo(files, c)

LossyInv ==
  /\ x1 \in Seq(LossyFiles) /\ x4 \in [Calls -> Lossy!Stages] /\ x5 \in [Calls -> Lossy!Plans]
  /\ HeldLock(x1, x3, x4, x5)

LEMMA LossyStarts ==
  ASSUME Lossy!Init PROVE LossyInv
<1>1. /\ x1 = <<>> /\ x4 = [c \in Calls |-> "new"] /\ x5 = [c \in Calls |-> Lossy!NoPlan]
  BY DEF Lossy!Init
<1>2. Lossy!NoPlan \in Lossy!Plans
  BY DEF Lossy!NoPlan, Lossy!Plans
<1>3. x1 \in Seq(LossyFiles)
  BY <1>1
<1> QED BY <1>1, <1>2, <1>3 DEF LossyInv, HeldLock, Lossy!Stages, Lossy!Inside

LEMMA ValidIsLinked ==
  Lossy!ValidUpTo(Len(x1)) <=> Linked(x1)
BY DEF Lossy!ValidUpTo, Lossy!LinkedAt, Linked

LEMMA NextToFollows ==
  ASSUME NEW files \in Seq(LossyFiles), NEW c \in Calls, Linked(files)
  PROVE  NextTo(files, c) \in Lossy!Plans /\ NextTo(files, c).block \in Lossy!Blocks
<1>1. Len(files) + 1 \in Nat
  OBVIOUS
<1>2. files # <<>> => Len(files) \in 1..Len(files)
  OBVIOUS
<1>3. files # <<>> => files[Len(files)] \in Lossy!Blocks
  BY <1>2 DEF Linked, LossyFiles
<1>4. files # <<>> => files[Len(files)].id \in Calls
  BY <1>3 DEF Lossy!Blocks
<1> QED BY <1>1, <1>4 DEF NextTo, Lossy!Plans, Lossy!Blocks

\* The rename of a call that holds the lock adds its block to a chain that validates.
LEMMA RenameKeeps ==
  ASSUME LossyInv, NEW c \in Calls, Lossy!Rename(c)
  PROVE  x1' \in Seq(LossyFiles) /\ Len(x1') = Len(x1) + 1 /\ Linked(x1')
<1>1. /\ x4[c] = "planned" /\ Linked(x1) /\ x5[c] = NextTo(x1, c) /\ x1 \in Seq(LossyFiles)
  BY DEF LossyInv, HeldLock, Lossy!Rename
<1> DEFINE n == Len(x1)
           b == x5[c].block
<1>2. n \in Nat /\ x5[c].at = n + 1
  BY <1>1 DEF NextTo
<1>3. x1' = [j \in 1..(n + 1) |-> IF j = n + 1 THEN b ELSE x1[j]]
  <2>1. x1' = Lossy!Placed(n + 1, b)
    BY <1>2 DEF Lossy!Rename
  <2> HIDE DEF b
  <2> QED BY <1>2, <2>1 DEF Lossy!Placed
<1>4. b \in Lossy!Blocks /\ b.prev = IF x1 = <<>> THEN Genesis ELSE x1[n].id
  <2>1. NextTo(x1, c).block \in Lossy!Blocks
    BY <1>1, NextToFollows
  <2> QED BY <1>1, <2>1 DEF NextTo
<1>5. b # Lossy!Empty
  BY <1>4, LossyAssumption DEF Lossy!Blocks, Lossy!Empty
<1> HIDE DEF b
<1>6. \A j \in 1..n : x1[j] \in LossyFiles
  BY <1>1
<1>7. x1' \in Seq(LossyFiles) /\ Len(x1') = n + 1
  <2>1. \A j \in 1..(n + 1) : (IF j = n + 1 THEN b ELSE x1[j]) \in LossyFiles
    BY <1>2, <1>4, <1>6 DEF LossyFiles
  <2>2. n + 1 \in Nat
    BY <1>2
  <2>3. x1' \in Seq(LossyFiles)
    BY <1>3, <2>1, <2>2
  <2> QED BY <1>3, <2>2, <2>3
<1>8. Linked(x1')
  <2>1. SUFFICES ASSUME NEW i \in 1..(n + 1)
                 PROVE  /\ x1'[i] # Lossy!Empty
                        /\ x1'[i].prev = IF i = 1 THEN Genesis ELSE x1'[i - 1].id
    BY <1>7 DEF Linked
  <2>2. CASE i = n + 1
    <3>1. x1'[i] = b /\ (i # 1 => x1'[i - 1] = x1[n] /\ x1 # <<>>) /\ (i = 1 => x1 = <<>>)
      BY <1>1, <1>2, <1>3, <2>2
    <3> QED BY <1>2, <1>4, <1>5, <2>2, <3>1
  <2>3. CASE i \in 1..n
    <3>1. x1'[i] = x1[i] /\ (i # 1 => x1'[i - 1] = x1[i - 1])
      BY <1>2, <1>3, <2>3
    <3> QED BY <1>1, <2>3, <3>1 DEF Linked
  <2> QED BY <1>2, <2>2, <2>3
<1> QED BY <1>7, <1>8

LEMMA LossyStep ==
  ASSUME LossyInv, Lossy!LossyNext \/ UNCHANGED <<x1, x2, x3, x4, x5, x6, x7>>
  PROVE  LossyInv'
<1>1. CASE UNCHANGED <<x1, x2, x3, x4, x5, x6, x7>>
  BY <1>1 DEF LossyInv
<1>2. ASSUME NEW c \in Calls,
             \/ Lossy!Call(c) \/ Lossy!TakeLock(c) \/ Lossy!LockTimeout(c) \/ Lossy!Release(c)
             \/ Lossy!Throw(c) \/ Lossy!Kill(c)
      PROVE  LossyInv'
  <2>1. UNCHANGED <<x1, x5>>
    BY <1>2 DEF Lossy!Call, Lossy!TakeLock, Lossy!LockTimeout, Lossy!Release, Lossy!Throw,
                Lossy!Kill
  <2>2. PICK stage \in Lossy!Stages : /\ x4' = [x4 EXCEPT ![c] = stage] /\ stage # "planned"
                                      /\ stage \in Lossy!Inside => x3 = "free" /\ x3' = c
    BY <1>2 DEF Lossy!Call, Lossy!TakeLock, Lossy!LockTimeout, Lossy!Release, Lossy!Throw,
                Lossy!Kill, Lossy!Goto, Lossy!Stages, Lossy!Inside
  <2>3. x3' = x3 \/ x4[c] \in Lossy!Inside \/ x3 = "free"
    BY <1>2 DEF Lossy!Call, Lossy!TakeLock, Lossy!LockTimeout, Lossy!Release, Lossy!Throw,
                Lossy!Kill, Lossy!Inside
  <2>4. \A d \in Calls : d # c /\ x4[d] \in Lossy!Inside => x3 = d /\ x3' = d
    BY <2>3, LossyAssumption DEF LossyInv, HeldLock
  <2>5. \A d \in Calls : x4'[d] = IF d = c THEN stage ELSE x4[d]
    BY <2>2 DEF LossyInv
  <2>6. HeldLock(x1', x3', x4', x5')
    BY <2>1, <2>2, <2>4, <2>5 DEF LossyInv, HeldLock
  <2> QED BY <2>1, <2>2, <2>6 DEF LossyInv
<1>3. ASSUME NEW c \in Calls, Lossy!PlanBlock(c) PROVE LossyInv'
  <2>1. /\ x4[c] = "locked" /\ Linked(x1) /\ UNCHANGED <<x1, x3>>
        /\ x4' = [x4 EXCEPT ![c] = "planned"] /\ x5' = [x5 EXCEPT ![c] = NextTo(x1, c)]
    BY <1>3, ValidIsLinked DEF Lossy!PlanBlock, Lossy!NextBlock, NextTo, Lossy!Goto
  <2>2. NextTo(x1, c) \in Lossy!Plans
    BY <2>1, NextToFollows DEF LossyInv
  <2>3. x4' \in [Calls -> Lossy!Stages] /\ x5' \in [Calls -> Lossy!Plans]
    BY <2>1, <2>2 DEF LossyInv, Lossy!Stages
  <2>4. \A d \in Calls : /\ x4'[d] = IF d = c THEN "planned" ELSE x4[d]
                         /\ x5'[d] = IF d = c THEN NextTo(x1, c) ELSE x5[d]
    BY <2>1 DEF LossyInv
  <2>5. HeldLock(x1', x3', x4', x5')
    BY <2>1, <2>4 DEF LossyInv, HeldLock, Lossy!Inside
  <2> QED BY <2>1, <2>3, <2>5 DEF LossyInv
<1>4. ASSUME NEW c \in Calls, Lossy!Rename(c) \/ Lossy!Prune(c) PROVE LossyInv'
  <2>1. x4[c] \in Lossy!Inside /\ UNCHANGED <<x3, x5>>
    BY <1>4 DEF Lossy!Rename, Lossy!Prune, Lossy!Inside, Lossy!callVars
  <2>2. x1' \in Seq(LossyFiles)
    <3>1. CASE Lossy!Rename(c)
      BY <3>1, RenameKeeps
    <3>2. CASE Lossy!Prune(c)
      <4>1. x1' = SubSeq(x1, 1, Len(x1) - 1) /\ x1 # <<>> /\ x1 \in Seq(LossyFiles)
        BY <3>2 DEF Lossy!Prune, Lossy!TrailingEmpty, LossyInv
      <4> QED BY <4>1
    <3> QED BY <1>4, <3>1, <3>2
  <2>3. PICK stage \in {"locked", "renamed"} : x4' = [x4 EXCEPT ![c] = stage]
    <3>1. CASE Lossy!Rename(c)
      BY <3>1 DEF Lossy!Rename, Lossy!Goto
    <3>2. CASE Lossy!Prune(c)
      BY <3>2 DEF Lossy!Prune, LossyInv, Lossy!callVars
    <3> QED BY <1>4, <3>1, <3>2
  <2>4. \A d \in Calls : x4'[d] = IF d = c THEN stage ELSE x4[d]
    BY <2>3 DEF LossyInv
  <2>5. \A d \in Calls : d # c => x4[d] \notin Lossy!Inside
    BY <2>1 DEF LossyInv, HeldLock
  <2>6. HeldLock(x1', x3', x4', x5')
    BY <2>1, <2>3, <2>4, <2>5 DEF LossyInv, HeldLock, Lossy!Inside
  <2>7. x4' \in [Calls -> Lossy!Stages]
    BY <2>3 DEF LossyInv, Lossy!Stages
  <2> QED BY <2>1, <2>2, <2>6, <2>7 DEF LossyInv
<1>5. CASE Lossy!ClearLock
  <2>1. UNCHANGED <<x1, x4, x5>> /\ \E c \in Calls : x3 = c /\ x4[c] = "dead"
    BY <1>5 DEF Lossy!ClearLock, Lossy!callVars
  <2>2. \A c \in Calls : x4[c] \notin Lossy!Inside
    BY <2>1 DEF LossyInv, HeldLock, Lossy!Inside
  <2> QED BY <2>1, <2>2 DEF LossyInv, HeldLock, Lossy!Inside
<1>6. CASE Lossy!LosePower
  <2>1. PICK n \in 0..Len(x1), gone \in SUBSET (1..Len(x1)) :
          x1' = [i \in 1..n |-> IF i \in gone THEN Lossy!Empty ELSE x1[i]]
    BY <1>6 DEF Lossy!LosePower
  <2>2. x5' = x5 /\ x4' = [c \in Calls |->
          IF x4[c] \in {"waiting"} \cup Lossy!Inside THEN "dead" ELSE x4[c]]
    BY <1>6 DEF Lossy!LosePower
  <2>3. x1' \in Seq(LossyFiles)
    <3>1. n \in Nat /\ \A i \in 1..n : x1[i] \in LossyFiles
      BY DEF LossyInv
    <3>2. \A i \in 1..n : (IF i \in gone THEN Lossy!Empty ELSE x1[i]) \in LossyFiles
      BY <3>1 DEF LossyFiles
    <3> QED BY <2>1, <3>1, <3>2
  <2>4. x4' \in [Calls -> Lossy!Stages] /\ \A c \in Calls : x4'[c] \notin Lossy!Inside
    BY <2>2 DEF LossyInv, Lossy!Stages, Lossy!Inside
  <2> QED BY <2>2, <2>3, <2>4 DEF LossyInv, HeldLock, Lossy!Inside
<1>7. CASE Lossy!List \/ Lossy!Judge \/ \E i \in 1..Len(x1) : Lossy!Writeback(i)
  <2>1. UNCHANGED <<x1, x3, x4, x5>>
    BY <1>7 DEF Lossy!List, Lossy!Judge, Lossy!Writeback, Lossy!callVars
  <2> QED BY <2>1 DEF LossyInv
<1> QED BY <1>1, <1>2, <1>3, <1>4, <1>5, <1>6, <1>7 DEF Lossy!LossyNext, Lossy!Next, Lossy!Step

LEMMA LossyGrows ==
  ASSUME LossyInv, Lossy!LossyNext \/ UNCHANGED <<x1, x2, x3, x4, x5, x6, x7>>
  PROVE  Len(x1') > Len(x1) => Linked(x1')
<1>1. ASSUME NEW c \in Calls, Lossy!Rename(c) PROVE Linked(x1')
  BY <1>1, RenameKeeps
<1>2. ASSUME NEW c \in Calls, Lossy!Prune(c) PROVE ~ (Len(x1') > Len(x1))
  <2>1. x1' = SubSeq(x1, 1, Len(x1) - 1) /\ x1 # <<>> /\ x1 \in Seq(LossyFiles)
    BY <1>2 DEF Lossy!Prune, Lossy!TrailingEmpty, LossyInv
  <2>2. Len(x1) \in Nat \ {0}
    BY <2>1
  <2>3. \A i \in 1..(Len(x1) - 1) : x1[i] \in LossyFiles
    BY <2>1, <2>2
  <2>4. Len(x1') = IF 1 <= Len(x1) - 1 THEN Len(x1) - 1 - 1 + 1 ELSE 0
    BY <2>1, <2>2, <2>3, SubSeqProperties
  <2> QED BY <2>2, <2>4
<1>3. CASE Lossy!LosePower
  <2>1. PICK n \in 0..Len(x1), gone \in SUBSET (1..Len(x1)) :
          x1' = [i \in 1..n |-> IF i \in gone THEN Lossy!Empty ELSE x1[i]]
    BY <1>3 DEF Lossy!LosePower
  <2>2. Len(x1) \in Nat /\ n \in Nat /\ n <= Len(x1)
    BY DEF LossyInv
  <2>3. Len(x1') = n
    BY <2>1, <2>2
  <2> QED BY <2>2, <2>3
<1>4. CASE UNCHANGED x1
  <2>1. Len(x1) \in Nat
    BY DEF LossyInv
  <2> QED BY <1>4, <2>1
<1>5. \/ \E c \in Calls : Lossy!Rename(c) \/ Lossy!Prune(c)
      \/ Lossy!LosePower \/ UNCHANGED x1
  BY DEF Lossy!LossyNext, Lossy!Next, Lossy!Step, Lossy!Call, Lossy!TakeLock, Lossy!LockTimeout,
         Lossy!PlanBlock, Lossy!Release, Lossy!Throw, Lossy!Kill, Lossy!ClearLock, Lossy!List,
         Lossy!Judge, Lossy!Writeback
<1> QED BY <1>1, <1>2, <1>3, <1>4, <1>5

-----------------------------------------------------------------------------
(* Peers that pull each other's chains.                                    *)

Nodes == {"n1", "n2"}
Pulls == [stage : {"idle", "asked", "merging"}, node : Nodes, strategy : MergeStrategies \cup {"last-write-wins"},
          remote : SUBSET Peers!Blocks, local : SUBSET Peers!Blocks]
OnePerKey(blocks) == \A a, b \in blocks : a.key = b.key => a = b

\* Of every block there is one with the same key that is not older.
Covers(newer, older) == \A b \in older : \E a \in newer : a.key = b.key /\ a.time >= b.time

\* A merge has every key of both sides, and the newest block of each by default.
LEMMA MergeKeeps ==
  ASSUME NEW local \in SUBSET Peers!Blocks, NEW remote \in SUBSET Peers!Blocks, NEW strategy,
         OnePerKey(local), OnePerKey(remote)
  PROVE  LET merged == Peers!Resolve(local, remote, strategy) IN
         /\ merged \subseteq local \cup remote /\ OnePerKey(merged)
         /\ \A b \in local \cup remote : \E a \in merged : a.key = b.key
         /\ strategy = "last-write-wins" =>
              Covers(merged, local) /\ Covers(merged, remote)
<1> DEFINE merged == Peers!Resolve(local, remote, strategy)
<1>1. \A b \in local \cup remote : b.time \in Nat
  BY PeersAssumption DEF Peers!Blocks
<1>2. \A b : b \in merged <=>
         \/ b \in remote /\ \A mine \in local : mine.key = b.key => Peers!TakesRemote(mine, b, strategy)
         \/ b \in local /\ \A theirs \in remote :
              theirs.key = b.key => ~ Peers!TakesRemote(b, theirs, strategy)
  BY DEF Peers!Resolve, Peers!At
<1> HIDE DEF merged
<1>3. merged \subseteq local \cup remote
  BY <1>2
<1>4. OnePerKey(merged)
  BY <1>2 DEF OnePerKey
<1>5. ASSUME NEW b \in local
      PROVE  \E a \in merged : a.key = b.key /\ (strategy = "last-write-wins" => a.time >= b.time)
  <2>1. CASE \E theirs \in remote : theirs.key = b.key /\ Peers!TakesRemote(b, theirs, strategy)
    <3>1. PICK theirs \in remote : theirs.key = b.key /\ Peers!TakesRemote(b, theirs, strategy)
      BY <2>1
    <3>2. theirs \in merged
      BY <1>2, <3>1 DEF OnePerKey
    <3>3. strategy = "last-write-wins" => theirs.time >= b.time
      BY <3>1 DEF Peers!TakesRemote
    <3> QED BY <3>1, <3>2, <3>3
  <2>2. CASE \A theirs \in remote : theirs.key = b.key => ~ Peers!TakesRemote(b, theirs, strategy)
    BY <1>1, <1>2, <2>2
  <2> QED BY <2>1, <2>2
<1>6. ASSUME NEW b \in remote
      PROVE  \E a \in merged : a.key = b.key /\ (strategy = "last-write-wins" => a.time >= b.time)
  <2>1. CASE \E mine \in local : mine.key = b.key /\ ~ Peers!TakesRemote(mine, b, strategy)
    <3>1. PICK mine \in local : mine.key = b.key /\ ~ Peers!TakesRemote(mine, b, strategy)
      BY <2>1
    <3>2. mine \in merged
      BY <1>2, <3>1 DEF OnePerKey
    <3>3. strategy = "last-write-wins" => mine.time >= b.time
      BY <1>1, <3>1 DEF Peers!TakesRemote
    <3> QED BY <3>1, <3>2, <3>3
  <2>2. CASE \A mine \in local : mine.key = b.key => Peers!TakesRemote(mine, b, strategy)
    BY <1>1, <1>2, <2>2
  <2> QED BY <2>1, <2>2
<1> QED BY <1>3, <1>4, <1>5, <1>6 DEF Covers, merged

LEMMA CoversItself ==
  ASSUME NEW A \in SUBSET Peers!Blocks PROVE Covers(A, A)
<1>1. \A b \in A : b.time \in BlockTimes
  BY DEF Peers!Blocks
<1>2. \A t \in BlockTimes : t >= t
  BY PeersAssumption
<1> QED BY <1>1, <1>2 DEF Covers

LEMMA CoversOn ==
  ASSUME NEW A \in SUBSET Peers!Blocks, NEW B \in SUBSET Peers!Blocks, NEW C \in SUBSET Peers!Blocks,
         Covers(A, B), Covers(B, C)
  PROVE  Covers(A, C)
<1> SUFFICES ASSUME NEW c \in C PROVE \E a \in A : a.key = c.key /\ a.time >= c.time
  BY DEF Covers
<1>1. PICK b \in B : b.key = c.key /\ b.time >= c.time
  BY DEF Covers
<1>2. PICK a \in A : a.key = b.key /\ a.time >= b.time
  BY DEF Covers
<1>3. a.time \in Nat /\ b.time \in Nat /\ c.time \in Nat
  BY PeersAssumption DEF Peers!Blocks
<1> QED BY <1>1, <1>2, <1>3

LEMMA CoversPart ==
  ASSUME NEW A, NEW B, NEW C, NEW D, Covers(A, B), Covers(A, C), D \subseteq B \cup C
  PROVE  Covers(A, D)
BY DEF Covers

\* Chains that cover each other have the same keys, with blocks of the same times.
LEMMA CoversAgree ==
  ASSUME NEW A \in SUBSET Peers!Blocks, NEW B \in SUBSET Peers!Blocks, OnePerKey(A),
         Covers(A, B), Covers(B, A), NEW a \in A
  PROVE  \E b \in B : b.key = a.key /\ b.time = a.time
<1>1. PICK b \in B : b.key = a.key /\ b.time >= a.time
  BY DEF Covers
<1>2. PICK c \in A : c.key = b.key /\ c.time >= b.time
  BY DEF Covers
<1>3. c = a
  BY <1>1, <1>2 DEF OnePerKey
<1>4. a.time \in Nat /\ b.time \in Nat
  BY PeersAssumption DEF Peers!Blocks
<1> QED BY <1>1, <1>2, <1>3, <1>4

LEMMA PeerOf ==
  /\ Peers!Peer("n1") = "n2" /\ Peers!Peer("n2") = "n1"
  /\ \A n \in Nodes : Peers!Peer(n) \in Nodes /\ Peers!Peer(n) # n
                      /\ \A m \in Nodes : m # n => m = Peers!Peer(n)
<1>1. Peers!Peer("n1") \in Nodes /\ Peers!Peer("n1") # "n1"
  BY DEF Peers!Peer, Nodes
<1>2. Peers!Peer("n2") \in Nodes /\ Peers!Peer("n2") # "n2"
  BY DEF Peers!Peer, Nodes
<1> QED BY <1>1, <1>2 DEF Nodes

PeerTypes ==
  /\ x1 \in [Nodes -> SUBSET Peers!Blocks] /\ x3 \in [Procs -> Pulls] /\ x5 \subseteq Nodes
  /\ \A n \in Nodes : OnePerKey(x1[n])
  /\ \A c \in Procs : OnePerKey(x3[c].local) /\ OnePerKey(x3[c].remote)

Pulling(r, n) == r.stage # "idle" /\ r.node = n
Merging(r, n) == r.stage = "merging" /\ r.node = n

\* A node that no write overlapped has one pull at a time, of the chain as the file has it.
OnePull(file, command, shared) ==
  \A n \in Nodes \ shared, c \in Procs :
    /\ Pulling(command[c], n) => \A d \in Procs : Pulling(command[d], n) => d = c
    /\ Merging(command[c], n) => command[c].local = file[n]

\* By default a node's chain is not older than what a peer has read of it ...
ReadOfPeer(file, command, shared) ==
  \A n \in Nodes \ shared, c \in Procs :
    Merging(command[c], Peers!Peer(n)) => Covers(file[n], command[c].remote)

\* ... and one that is current is not older than anything its peer has or is to store, if
\* the peer may be current too; what is stored on it is as new as the chain is.
Newest(file, command, n, m) ==
  /\ Covers(file[n], file[m])
  /\ \A c \in Procs :
       /\ Merging(command[c], n) => Covers(command[c].local, file[n])
       /\ Merging(command[c], n) \/ Merging(command[c], m) =>
            Covers(file[n], command[c].local) /\ Covers(file[n], command[c].remote)
CurrentIsNewest(file, command, shared, current) ==
  \A n \in current : Peers!Peer(n) \in current \/ Peers!Peer(n) \notin shared =>
    Newest(file, command, n, Peers!Peer(n))

PeersInv ==
  /\ PeerTypes
  /\ OnePull(x1, x3, x4)
  /\ ~ x6 => /\ \A c \in Procs : x3[c].stage # "idle" => x3[c].strategy = "last-write-wins"
             /\ ReadOfPeer(x1, x3, x4)
             /\ CurrentIsNewest(x1, x3, x4, x5)

LEMMA UnusedPull ==
  /\ Peers!Unused \in Pulls /\ Peers!Unused.stage = "idle"
  /\ Peers!Unused.local = {} /\ Peers!Unused.remote = {}
<1>1. (CHOOSE n \in {"n1", "n2"} : TRUE) \in Nodes
  BY DEF Nodes
<1> QED BY <1>1 DEF Peers!Unused, Pulls

LEMMA PeersStart ==
  ASSUME Peers!Init PROVE PeersInv
<1>1. /\ x1 = [n \in Nodes |-> {}] /\ x3 = [c \in Procs |-> Peers!Unused] /\ x5 = Nodes
  BY DEF Peers!Init, Nodes
<1>2. \A n \in Nodes : x1[n] = {}
  BY <1>1
<1>3. \A c \in Procs : x3[c] = Peers!Unused
  BY <1>1
<1>4. PeerTypes
  BY <1>1, <1>2, <1>3, UnusedPull DEF PeerTypes, OnePerKey
<1>5. OnePull(x1, x3, x4) /\ ReadOfPeer(x1, x3, x4)
  BY <1>3, UnusedPull DEF OnePull, ReadOfPeer, Pulling, Merging
<1>6. CurrentIsNewest(x1, x3, x4, x5)
  <2>1. \A n \in Nodes : Newest(x1, x3, n, Peers!Peer(n))
    BY <1>2, <1>3, UnusedPull, PeerOf DEF Newest, Merging, Covers
  <2> QED BY <1>1, <2>1 DEF CurrentIsNewest
<1> QED BY <1>3, <1>4, <1>5, <1>6, UnusedPull DEF PeersInv

LEMMA PullMoves ==
  ASSUME PeerTypes, NEW c \in Procs, NEW r \in Pulls, OnePerKey(r.local), OnePerKey(r.remote),
         x3' = [x3 EXCEPT ![c] = r]
  PROVE  /\ x3' \in [Procs -> Pulls]
         /\ \A d \in Procs : x3'[d] = IF d = c THEN r ELSE x3[d]
         /\ \A d \in Procs : OnePerKey(x3'[d].local) /\ OnePerKey(x3'[d].remote)
<1>1. x3' \in [Procs -> Pulls] /\ \A d \in Procs : x3'[d] = IF d = c THEN r ELSE x3[d]
  BY DEF PeerTypes
<1> QED BY <1>1 DEF PeerTypes

\* Fewer pulls, and a default that no longer holds, cost nothing.
LEMMA PullEnds ==
  ASSUME PeersInv, NEW c \in Procs, x3' = [x3 EXCEPT ![c] = Peers!Unused],
         UNCHANGED <<x1, x4, x5, x6>>
  PROVE  PeersInv'
<1>1. OnePerKey(Peers!Unused.local) /\ OnePerKey(Peers!Unused.remote)
  BY UnusedPull DEF OnePerKey
<1>2. /\ x3' \in [Procs -> Pulls]
      /\ \A d \in Procs : x3'[d] = IF d = c THEN Peers!Unused ELSE x3[d]
      /\ \A d \in Procs : OnePerKey(x3'[d].local) /\ OnePerKey(x3'[d].remote)
  BY <1>1, UnusedPull, PullMoves DEF PeersInv
<1>3. PeerTypes'
  BY <1>2 DEF PeersInv, PeerTypes
<1>4. \A d \in Procs : x3'[d].stage # "idle" => d # c /\ x3'[d] = x3[d]
  BY <1>2, UnusedPull
<1>5. \A d \in Procs : \A n : /\ Pulling(x3'[d], n) => Pulling(x3[d], n) /\ x3'[d] = x3[d]
                              /\ Merging(x3'[d], n) => Merging(x3[d], n) /\ x3'[d] = x3[d]
  BY <1>4 DEF Pulling, Merging
<1>6. OnePull(x1', x3', x4')
  BY <1>5 DEF PeersInv, OnePull
<1>7. ASSUME ~ x6'
      PROVE  /\ \A d \in Procs : x3'[d].stage # "idle" => x3'[d].strategy = "last-write-wins"
             /\ ReadOfPeer(x1', x3', x4') /\ CurrentIsNewest(x1', x3', x4', x5')
  <2>1. \A d \in Procs : x3'[d].stage # "idle" => x3'[d].strategy = "last-write-wins"
    BY <1>4, <1>7 DEF PeersInv
  <2>2. ReadOfPeer(x1', x3', x4')
    BY <1>5, <1>7 DEF PeersInv, ReadOfPeer
  <2>3. \A n, m : Newest(x1, x3, n, m) => Newest(x1, x3', n, m)
    BY <1>5 DEF Newest
  <2>4. CurrentIsNewest(x1', x3', x4', x5')
    BY <1>7, <2>3 DEF PeersInv, CurrentIsNewest
  <2> QED BY <2>1, <2>2, <2>4
<1> QED BY <1>3, <1>6, <1>7 DEF PeersInv

LEMMA AskStep ==
  ASSUME PeersInv, NEW c \in Procs, NEW n \in Nodes, NEW s \in MergeStrategies, Peers!Ask(c, n, s)
  PROVE  PeersInv'
<1> DEFINE r == [Peers!Unused EXCEPT !.stage = "asked", !.node = n, !.strategy = s]
<1>1. /\ x3[c].stage = "idle" /\ x3' = [x3 EXCEPT ![c] = r] /\ UNCHANGED <<x1, x5>>
      /\ x4 \subseteq x4' /\ (Peers!Busy(n) => n \in x4')
  BY DEF Peers!Ask
<1>2. ~ x6' => ~ x6 /\ s = "last-write-wins"
  BY DEF Peers!Ask
<1>3. /\ r \in Pulls /\ r.stage = "asked" /\ r.node = n /\ r.strategy = s /\ r.local = {}
      /\ r.remote = {}
  BY UnusedPull DEF Pulls
<1> HIDE DEF r
<1>4. OnePerKey(r.local) /\ OnePerKey(r.remote)
  BY <1>3 DEF OnePerKey
<1>5. /\ x3' \in [Procs -> Pulls]
      /\ \A d \in Procs : x3'[d] = IF d = c THEN r ELSE x3[d]
      /\ \A d \in Procs : OnePerKey(x3'[d].local) /\ OnePerKey(x3'[d].remote)
  BY <1>1, <1>3, <1>4, PullMoves DEF PeersInv
<1>6. PeerTypes'
  BY <1>1, <1>5 DEF PeersInv, PeerTypes
<1>7. \A d \in Procs : \A k : Merging(x3'[d], k) => d # c /\ Merging(x3[d], k) /\ x3'[d] = x3[d]
  BY <1>3, <1>5 DEF Merging
<1>8. OnePull(x1', x3', x4')
  <2>1. \A d \in Procs : Pulling(x3[d], n) => n \in x4'
    BY <1>1 DEF Pulling, Peers!Busy
  <2>2. \A d \in Procs, k \in Nodes : Pulling(x3'[d], k) => (d = c /\ k = n) \/ Pulling(x3[d], k)
    BY <1>3, <1>5 DEF Pulling
  <2>3. ASSUME NEW k \in Nodes \ x4', NEW d \in Procs, Pulling(x3'[d], k), NEW e \in Procs,
               Pulling(x3'[e], k)
        PROVE  e = d
    <3>1. k \notin x4
      BY <1>1, <2>3
    <3>2. CASE k = n
      BY <2>1, <2>2, <2>3, <3>2
    <3>3. CASE k # n
      BY <2>2, <2>3, <3>1, <3>3 DEF PeersInv, OnePull
    <3> QED BY <3>2, <3>3
  <2>4. ASSUME NEW k \in Nodes \ x4', NEW d \in Procs, Merging(x3'[d], k)
        PROVE  x3'[d].local = x1'[k]
    BY <1>1, <1>7, <2>4 DEF PeersInv, OnePull
  <2> QED BY <2>3, <2>4 DEF OnePull
<1>9. ASSUME ~ x6'
      PROVE  /\ \A d \in Procs : x3'[d].stage # "idle" => x3'[d].strategy = "last-write-wins"
             /\ ReadOfPeer(x1', x3', x4') /\ CurrentIsNewest(x1', x3', x4', x5')
  <2>1. \A d \in Procs : x3'[d].stage # "idle" => x3'[d].strategy = "last-write-wins"
    BY <1>2, <1>3, <1>5, <1>9 DEF PeersInv
  <2>2. ReadOfPeer(x1', x3', x4')
    BY <1>1, <1>2, <1>7, <1>9 DEF PeersInv, ReadOfPeer
  <2>3. \A k, m : Newest(x1, x3, k, m) => Newest(x1, x3', k, m)
    BY <1>7 DEF Newest
  <2>4. CurrentIsNewest(x1', x3', x4', x5')
    BY <1>1, <1>2, <1>9, <2>3 DEF PeersInv, CurrentIsNewest
  <2> QED BY <2>1, <2>2, <2>4
<1> QED BY <1>6, <1>8, <1>9 DEF PeersInv

LEMMA AnswerStep ==
  ASSUME PeersInv, NEW c \in Procs, Peers!Answer(c) PROVE PeersInv'
<1> DEFINE n == x3[c].node
           m == Peers!Peer(n)
           r == [x3[c] EXCEPT !.stage = "merging", !.remote = x1[m], !.local = x1[n]]
<1>1. PeerTypes /\ x3[c] \in Pulls /\ x3[c].stage = "asked" /\ n \in Nodes /\ m \in Nodes
  <2>1. PeerTypes /\ x3[c] \in Pulls /\ x3[c].stage = "asked"
    BY DEF PeersInv, PeerTypes, Peers!Answer
  <2>2. n \in Nodes
    BY <2>1 DEF Pulls
  <2> QED BY <2>1, <2>2, PeerOf
<1>2. x3' = [x3 EXCEPT ![c] = r] /\ UNCHANGED <<x1, x4, x5, x6>>
  BY <1>1 DEF Peers!Answer, PeerTypes
<1>3. /\ x1[n] \in SUBSET Peers!Blocks /\ x1[m] \in SUBSET Peers!Blocks
      /\ OnePerKey(x1[n]) /\ OnePerKey(x1[m])
  BY <1>1 DEF PeerTypes
<1>4. /\ r \in Pulls /\ r.stage = "merging" /\ r.node = n /\ r.strategy = x3[c].strategy
      /\ r.remote = x1[m] /\ r.local = x1[n]
  BY <1>1, <1>3 DEF Pulls
<1> HIDE DEF r
<1>5. /\ x3' \in [Procs -> Pulls]
      /\ \A d \in Procs : x3'[d] = IF d = c THEN r ELSE x3[d]
      /\ \A d \in Procs : OnePerKey(x3'[d].local) /\ OnePerKey(x3'[d].remote)
  BY <1>1, <1>2, <1>3, <1>4, PullMoves
<1> HIDE DEF n, m
<1>6. PeerTypes'
  BY <1>1, <1>2, <1>5 DEF PeerTypes
<1>7. /\ \A d \in Procs : \A k : Pulling(x3'[d], k) <=> Pulling(x3[d], k)
      /\ \A d \in Procs : \A k : Merging(x3'[d], k) =>
           (d = c /\ k = n) \/ (d # c /\ Merging(x3[d], k) /\ x3'[d] = x3[d])
  BY <1>1, <1>4, <1>5 DEF Pulling, Merging, n
<1>8. OnePull(x1', x3', x4')
  <2>1. ASSUME NEW k \in Nodes \ x4, NEW d \in Procs, Merging(x3'[d], k)
        PROVE  x3'[d].local = x1[k]
    BY <1>4, <1>5, <1>7, <2>1 DEF PeersInv, OnePull
  <2> QED BY <1>2, <1>7, <2>1 DEF PeersInv, OnePull
<1>9. ASSUME ~ x6'
      PROVE  /\ \A d \in Procs : x3'[d].stage # "idle" => x3'[d].strategy = "last-write-wins"
             /\ ReadOfPeer(x1', x3', x4') /\ CurrentIsNewest(x1', x3', x4', x5')
  <2>1. /\ \A d \in Procs : x3[d].stage # "idle" => x3[d].strategy = "last-write-wins"
        /\ ReadOfPeer(x1, x3, x4) /\ CurrentIsNewest(x1, x3, x4, x5)
    BY <1>2, <1>9 DEF PeersInv
  <2>2. \A d \in Procs : x3'[d].stage # "idle" => x3'[d].strategy = "last-write-wins"
    BY <1>1, <1>4, <1>5, <2>1
  <2>3. Covers(x1[n], x1[n]) /\ Covers(x1[m], x1[m])
    BY <1>3, CoversItself
  <2>4. ReadOfPeer(x1, x3', x4)
    <3>1. SUFFICES ASSUME NEW k \in Nodes \ x4, NEW d \in Procs, Merging(x3'[d], Peers!Peer(k))
                   PROVE  Covers(x1[k], x3'[d].remote)
      BY DEF ReadOfPeer
    <3>2. CASE d = c /\ Peers!Peer(k) = n
      <4>1. k = m
        BY <1>1, <3>2, PeerOf DEF m
      <4> QED BY <1>4, <1>5, <2>3, <3>2, <4>1
    <3>3. CASE d # c /\ Merging(x3[d], Peers!Peer(k)) /\ x3'[d] = x3[d]
      BY <2>1, <3>3 DEF ReadOfPeer
    <3> QED BY <1>7, <3>1, <3>2, <3>3
  <2>5. ASSUME NEW k \in x5, Peers!Peer(k) \in x5 \/ Peers!Peer(k) \notin x4
        PROVE  Newest(x1, x3', k, Peers!Peer(k))
    <3>1. Newest(x1, x3, k, Peers!Peer(k)) /\ k \in Nodes
      BY <1>1, <2>1, <2>5 DEF CurrentIsNewest, PeerTypes
    <3>2. ASSUME NEW d \in Procs, d # c
          PROVE  /\ Merging(x3'[d], k) => Covers(x3'[d].local, x1[k])
                 /\ Merging(x3'[d], k) \/ Merging(x3'[d], Peers!Peer(k)) =>
                      Covers(x1[k], x3'[d].local) /\ Covers(x1[k], x3'[d].remote)
      BY <1>5, <3>1, <3>2 DEF Newest
    <3>3. CASE k = n
      <4>1. Peers!Peer(k) = m /\ Covers(x1[n], x1[m])
        BY <3>1, <3>3 DEF m, Newest
      <4>2. /\ Covers(x3'[c].local, x1[k])
            /\ Covers(x1[k], x3'[c].local) /\ Covers(x1[k], x3'[c].remote)
        BY <1>4, <1>5, <2>3, <3>3, <4>1
      <4> QED BY <3>1, <3>2, <4>2 DEF Newest
    <3>4. CASE k # n
      <4>1. k = m /\ Peers!Peer(k) = n /\ Covers(x1[m], x1[n])
        BY <1>1, <3>1, <3>4, PeerOf DEF m, Newest, Nodes
      <4>2. /\ Covers(x1[k], x3'[c].local) /\ Covers(x1[k], x3'[c].remote)
            /\ ~ Merging(x3'[c], k)
        BY <1>4, <1>5, <2>3, <3>4, <4>1 DEF Merging
      <4> QED BY <3>1, <3>2, <4>2 DEF Newest
    <3> QED BY <3>3, <3>4
  <2> QED BY <1>2, <2>2, <2>4, <2>5 DEF CurrentIsNewest
<1> QED BY <1>6, <1>8, <1>9 DEF PeersInv

LEMMA AddBlockStep ==
  ASSUME PeersInv, NEW n \in Nodes, NEW k \in BlockKeys, NEW t \in BlockTimes,
         Peers!AddBlock(n, k, t)
  PROVE  PeersInv'
<1> DEFINE b == [key |-> k, time |-> t, by |-> n]
<1>1. /\ Peers!At(x1[n], k) = {} /\ x1' = [x1 EXCEPT ![n] = @ \cup {b}]
      /\ x5' = {} /\ UNCHANGED <<x3, x6>>
      /\ x4 \subseteq x4' /\ (Peers!Busy(n) => n \in x4')
  BY DEF Peers!AddBlock
<1>2. PeerTypes
  BY DEF PeersInv
<1>3. b \in Peers!Blocks /\ b.key = k
  BY DEF Peers!Blocks, Nodes
<1> HIDE DEF b
<1>4. \A m \in Nodes : x1'[m] = IF m = n THEN x1[n] \cup {b} ELSE x1[m]
  BY <1>1, <1>2 DEF PeerTypes
<1>5. x1' \in [Nodes -> SUBSET Peers!Blocks]
  BY <1>1, <1>2, <1>3 DEF PeerTypes
<1>6. \A m \in Nodes : OnePerKey(x1'[m])
  <2>1. \A a \in x1[n] : a.key # k
    BY <1>1 DEF Peers!At
  <2>2. OnePerKey(x1[n] \cup {b})
    BY <1>2, <1>3, <2>1 DEF PeerTypes, OnePerKey
  <2> QED BY <1>2, <1>4, <2>2 DEF PeerTypes
<1>7. PeerTypes'
  BY <1>1, <1>2, <1>5, <1>6 DEF PeerTypes
<1>8. OnePull(x1', x3', x4')
  <2>1. \A d \in Procs : Pulling(x3[d], n) => n \in x4'
    BY <1>1 DEF Pulling, Peers!Busy
  <2>2. \A d \in Procs : \A m : Merging(x3[d], m) => Pulling(x3[d], m)
    BY DEF Merging, Pulling
  <2>3. ASSUME NEW m \in Nodes \ x4', NEW c \in Procs, Merging(x3[c], m)
        PROVE  x3[c].local = x1'[m]
    <3>1. m # n /\ m \notin x4
      BY <1>1, <2>1, <2>2, <2>3
    <3> QED BY <1>4, <2>3, <3>1 DEF PeersInv, OnePull
  <2> QED BY <1>1, <2>3 DEF PeersInv, OnePull
<1>9. ~ x6' => ReadOfPeer(x1', x3', x4')
  <2>1. \A m \in Nodes : \A A : Covers(x1[m], A) => Covers(x1'[m], A)
    BY <1>4 DEF Covers
  <2> QED BY <1>1, <2>1 DEF PeersInv, ReadOfPeer
<1>10. CurrentIsNewest(x1', x3', x4', x5')
  BY <1>1 DEF CurrentIsNewest
<1> QED BY <1>1, <1>7, <1>8, <1>9, <1>10 DEF PeersInv

\* What a pull of node n from node m stores, and what becomes of the chains.
Stores(c, n, m, merged) ==
  /\ x3[c] \in Pulls /\ x3[c].stage = "merging" /\ x3[c].node = n
  /\ n \in Nodes /\ m = Peers!Peer(n) /\ m \in Nodes /\ m # n /\ n = Peers!Peer(m)
  /\ merged = Peers!Resolve(x3[c].local, x3[c].remote, x3[c].strategy)
  /\ x1' = [x1 EXCEPT ![n] = merged]
  /\ x5' = IF n \notin x4 /\ x3[c].remote = x1[m] THEN x5 \cup {n} ELSE x5
  /\ x3' = [x3 EXCEPT ![c] = Peers!Unused]
  /\ UNCHANGED <<x4, x6>>

LEMMA StoreActs ==
  ASSUME PeersInv, NEW c \in Procs, Peers!Store(c)
  PROVE  \E n, m, merged : Stores(c, n, m, merged)
<1> DEFINE n == x3[c].node
           m == Peers!Peer(n)
           merged == Peers!Resolve(x3[c].local, x3[c].remote, x3[c].strategy)
<1>1. x3[c] \in Pulls /\ x3[c].stage = "merging"
  BY DEF PeersInv, PeerTypes, Peers!Store
<1>2. n \in Nodes
  BY <1>1 DEF Pulls
<1>3. m \in Nodes /\ m # n /\ n = Peers!Peer(m)
  BY <1>2, PeerOf DEF Nodes
<1>4. Stores(c, n, m, merged)
  BY <1>1, <1>2, <1>3 DEF Peers!Store, Stores
<1> HIDE DEF n, m, merged
<1> QED BY <1>4

LEMMA StoreMerges ==
  ASSUME PeersInv, NEW c \in Procs, NEW n, NEW m, NEW merged, Stores(c, n, m, merged)
  PROVE  /\ merged \in SUBSET Peers!Blocks /\ OnePerKey(merged)
         /\ merged \subseteq x3[c].local \cup x3[c].remote
         /\ \A b \in x3[c].local : \E a \in merged : a.key = b.key
         /\ ~ x6 => Covers(merged, x3[c].local) /\ Covers(merged, x3[c].remote)
<1>1. /\ x3[c] \in Pulls /\ OnePerKey(x3[c].local) /\ OnePerKey(x3[c].remote)
  BY DEF PeersInv, PeerTypes
<1>2. x3[c].local \in SUBSET Peers!Blocks /\ x3[c].remote \in SUBSET Peers!Blocks
  BY <1>1 DEF Pulls
<1>3. ~ x6 => x3[c].strategy = "last-write-wins"
  BY DEF PeersInv, Stores
<1> DEFINE found == Peers!Resolve(x3[c].local, x3[c].remote, x3[c].strategy)
<1>4. /\ found \subseteq x3[c].local \cup x3[c].remote /\ OnePerKey(found)
      /\ \A b \in x3[c].local \cup x3[c].remote : \E a \in found : a.key = b.key
      /\ x3[c].strategy = "last-write-wins" =>
           Covers(found, x3[c].local) /\ Covers(found, x3[c].remote)
  BY <1>1, <1>2, MergeKeeps
<1>5. merged = found
  BY DEF Stores
<1> HIDE DEF found
<1> QED BY <1>2, <1>3, <1>4, <1>5

\* Afterwards a node that is current, or becomes it, is still the newest.
LEMMA StoreKeepsNewest ==
  ASSUME PeersInv, NEW c \in Procs, NEW n, NEW m, NEW merged, Stores(c, n, m, merged), ~ x6,
         x1'[n] = merged, x1'[m] = x1[m],
         \A d \in Procs : \A k : Merging(x3'[d], k) => d # c /\ Merging(x3[d], k) /\ x3'[d] = x3[d]
  PROVE  CurrentIsNewest(x1', x3', x4', x5')
<1>1. /\ ReadOfPeer(x1, x3, x4) /\ CurrentIsNewest(x1, x3, x4, x5)
      /\ OnePull(x1, x3, x4) /\ PeerTypes /\ x3[c] \in Pulls
      /\ n \in Nodes /\ m \in Nodes /\ m # n /\ m = Peers!Peer(n) /\ n = Peers!Peer(m)
      /\ x4' = x4 /\ Merging(x3[c], n)
  BY DEF PeersInv, Stores, Merging
<1>2. /\ merged \in SUBSET Peers!Blocks /\ merged \subseteq x3[c].local \cup x3[c].remote
      /\ Covers(merged, x3[c].local) /\ Covers(merged, x3[c].remote)
  BY StoreMerges
<1>3. /\ x1[n] \in SUBSET Peers!Blocks /\ x1[m] \in SUBSET Peers!Blocks
      /\ \A d \in Procs : /\ x3[d].local \in SUBSET Peers!Blocks
                          /\ x3[d].remote \in SUBSET Peers!Blocks
  BY <1>1 DEF PeerTypes, Pulls
<1>4. \A k \in x5' : k = n \/ k = m
  BY <1>1 DEF PeerTypes, Nodes, Stores
\* The peer, which had been current before.
<1>5. ASSUME m \in x5' PROVE n \in x5' \/ n \notin x4 => Newest(x1', x3', m, n)
  <2>1. SUFFICES ASSUME n \in x5' \/ n \notin x4 PROVE Newest(x1', x3', m, n)
    OBVIOUS
  <2>2. m \in x5 /\ (n \in x5 \/ n \notin x4)
    BY <1>1, <1>5, <2>1 DEF Stores
  <2>3. Newest(x1, x3, m, n)
    BY <1>1, <2>2 DEF CurrentIsNewest
  <2>4. Covers(x1[m], merged)
    BY <1>1, <1>2, <2>3, CoversPart DEF Newest
  <2> QED BY <2>3, <2>4 DEF Newest
\* The node itself: had it been current, the merge is as new as the chain was ...
<1>6. ASSUME n \in x5, m \in x5' \/ m \notin x4 PROVE Newest(x1', x3', n, m)
  <2>1. m \in x5 \/ m \notin x4
    BY <1>1, <1>6 DEF Stores
  <2>2. Newest(x1, x3, n, m)
    BY <1>1, <1>6, <2>1 DEF CurrentIsNewest
  <2>3. Covers(x3[c].local, x1[n]) /\ Covers(x1[n], x3[c].local) /\ Covers(x1[n], x3[c].remote)
    BY <1>1, <2>2 DEF Newest
  <2>4. Covers(merged, x1[n])
    BY <1>2, <1>3, <2>3, CoversOn
  <2>5. Covers(x1[n], merged)
    BY <1>2, <2>3, CoversPart
  <2>6. \A X \in SUBSET Peers!Blocks : Covers(x1[n], X) => Covers(merged, X)
    BY <1>2, <1>3, <2>4, CoversOn
  <2>7. \A X \in SUBSET Peers!Blocks : Covers(X, x1[n]) => Covers(X, merged)
    BY <1>2, <1>3, <2>5, CoversOn
  <2>8. Covers(merged, x1[m])
    BY <1>3, <2>2, <2>6 DEF Newest
  <2>9. \A d \in Procs : Merging(x3'[d], n) => Covers(x3'[d].local, merged)
    BY <1>3, <2>2, <2>7 DEF Newest
  <2>10. \A d \in Procs : Merging(x3'[d], n) \/ Merging(x3'[d], m) =>
           Covers(merged, x3'[d].local) /\ Covers(merged, x3'[d].remote)
    BY <1>3, <2>2, <2>6 DEF Newest
  <2> QED BY <2>8, <2>9, <2>10 DEF Newest
\* ... and if it becomes current, the merge covers the chain, its peer's, and so all else.
<1>7. ASSUME n \notin x5, n \in x5', m \in x5' \/ m \notin x4 PROVE Newest(x1', x3', n, m)
  <2>1. n \notin x4 /\ x3[c].remote = x1[m] /\ (m \in x5 \/ m \notin x4)
    BY <1>1, <1>7 DEF Stores
  <2>2. x3[c].local = x1[n] /\ \A d \in Procs : d # c => ~ Merging(x3[d], n)
    BY <1>1, <2>1 DEF OnePull, Merging, Pulling
  <2>3. Covers(merged, x1[n]) /\ Covers(merged, x1[m])
    BY <1>2, <2>1, <2>2
  <2>4. ASSUME NEW d \in Procs, Merging(x3[d], m)
        PROVE  Covers(merged, x3[d].local) /\ Covers(merged, x3[d].remote)
    <3>1. CASE m \in x5
      <4>1. Newest(x1, x3, m, n)
        BY <1>1, <2>1, <3>1 DEF CurrentIsNewest
      <4>2. Covers(x1[m], x3[d].local) /\ Covers(x1[m], x3[d].remote)
        BY <2>4, <4>1 DEF Newest
      <4> QED BY <1>2, <1>3, <2>3, <4>2, CoversOn
    <3>2. CASE m \notin x4
      <4>1. x3[d].local = x1[m]
        BY <1>1, <2>4, <3>2 DEF OnePull
      <4>2. Covers(x1[n], x3[d].remote)
        BY <1>1, <2>1, <2>4 DEF ReadOfPeer
      <4>3. Covers(merged, x3[d].remote)
        BY <1>2, <1>3, <2>3, <4>2, CoversOn
      <4> QED BY <2>3, <4>1, <4>3
    <3> QED BY <2>1, <3>1, <3>2
  <2> QED BY <2>2, <2>3, <2>4 DEF Newest
<1>8. ASSUME NEW k \in x5', Peers!Peer(k) \in x5' \/ Peers!Peer(k) \notin x4'
      PROVE  Newest(x1', x3', k, Peers!Peer(k))
  <2>1. CASE k = n
    BY <1>1, <1>6, <1>7, <1>8, <2>1
  <2>2. CASE k = m
    BY <1>1, <1>5, <1>8, <2>2
  <2> QED BY <1>4, <2>1, <2>2
<1> QED BY <1>8 DEF CurrentIsNewest

LEMMA StoreStep ==
  ASSUME PeersInv, NEW c \in Procs, NEW n, NEW m, NEW merged, Stores(c, n, m, merged)
  PROVE  PeersInv'
<1>1. /\ PeerTypes /\ OnePull(x1, x3, x4) /\ n \in Nodes /\ m \in Nodes /\ m # n
      /\ Merging(x3[c], n) /\ x1' = [x1 EXCEPT ![n] = merged]
      /\ x3' = [x3 EXCEPT ![c] = Peers!Unused] /\ UNCHANGED <<x4, x6>>
      /\ x5' \subseteq x5 \cup {n}
  BY DEF PeersInv, Stores, Merging
<1>2. /\ merged \in SUBSET Peers!Blocks /\ OnePerKey(merged)
      /\ ~ x6 => Covers(merged, x3[c].local)
  BY StoreMerges
<1>3. x1' \in [Nodes -> SUBSET Peers!Blocks]
  BY <1>1, <1>2 DEF PeerTypes
<1>4. \A k \in Nodes : x1'[k] = IF k = n THEN merged ELSE x1[k]
  BY <1>1 DEF PeerTypes
<1>5. OnePerKey(Peers!Unused.local) /\ OnePerKey(Peers!Unused.remote)
  BY UnusedPull DEF OnePerKey
<1>6. /\ x3' \in [Procs -> Pulls]
      /\ \A d \in Procs : x3'[d] = IF d = c THEN Peers!Unused ELSE x3[d]
      /\ \A d \in Procs : OnePerKey(x3'[d].local) /\ OnePerKey(x3'[d].remote)
  BY <1>1, <1>5, UnusedPull, PullMoves
<1>7. PeerTypes'
  BY <1>1, <1>2, <1>3, <1>4, <1>6 DEF PeerTypes
<1>8. \A d \in Procs : \A k : /\ Pulling(x3'[d], k) => d # c /\ Pulling(x3[d], k) /\ x3'[d] = x3[d]
                              /\ Merging(x3'[d], k) => d # c /\ Merging(x3[d], k) /\ x3'[d] = x3[d]
  BY <1>6, UnusedPull DEF Pulling, Merging
<1>9. OnePull(x1', x3', x4')
  <2>1. ASSUME NEW k \in Nodes \ x4, NEW d \in Procs, Merging(x3'[d], k)
        PROVE  x3'[d].local = x1'[k]
    <3>1. k # n
      <4>1. d # c /\ Pulling(x3[d], k) /\ Pulling(x3[c], n)
        BY <1>1, <1>8, <2>1 DEF Merging, Pulling
      <4> QED BY <1>1, <4>1 DEF OnePull
    <3> QED BY <1>1, <1>4, <1>8, <2>1, <3>1 DEF OnePull
  <2> QED BY <1>1, <1>8, <2>1 DEF OnePull
<1>10. ASSUME ~ x6'
      PROVE  /\ \A d \in Procs : x3'[d].stage # "idle" => x3'[d].strategy = "last-write-wins"
             /\ ReadOfPeer(x1', x3', x4') /\ CurrentIsNewest(x1', x3', x4', x5')
  <2>1. /\ ~ x6 /\ ReadOfPeer(x1, x3, x4)
        /\ \A d \in Procs : x3[d].stage # "idle" => x3[d].strategy = "last-write-wins"
    BY <1>1, <1>10 DEF PeersInv
  <2>2. \A d \in Procs : x3'[d].stage # "idle" => x3'[d].strategy = "last-write-wins"
    BY <1>6, <2>1, UnusedPull
  <2>3. ReadOfPeer(x1', x3', x4')
    <3>1. SUFFICES ASSUME NEW k \in Nodes \ x4, NEW d \in Procs, Merging(x3'[d], Peers!Peer(k))
                   PROVE  Covers(x1'[k], x3'[d].remote)
      BY <1>1 DEF ReadOfPeer
    <3>2. Covers(x1[k], x3'[d].remote) /\ x3'[d] = x3[d]
      BY <1>8, <2>1, <3>1 DEF ReadOfPeer
    <3>3. CASE k = n
      <4>1. x3[c].local = x1[n]
        BY <1>1, <3>1, <3>3 DEF OnePull
      <4>2. Covers(merged, x1[n])
        BY <1>2, <2>1, <4>1
      <4>3. x1[n] \in SUBSET Peers!Blocks /\ x3[d].remote \in SUBSET Peers!Blocks
        BY <1>1 DEF PeerTypes, Pulls
      <4>4. Covers(merged, x3[d].remote)
        BY <1>2, <3>2, <3>3, <4>2, <4>3, CoversOn
      <4> QED BY <1>4, <3>2, <3>3, <4>4
    <3>4. CASE k # n
      BY <1>4, <3>2, <3>4
    <3> QED BY <3>3, <3>4
  <2>4. CurrentIsNewest(x1', x3', x4', x5')
    <3>1. x1'[n] = merged /\ x1'[m] = x1[m]
      BY <1>1, <1>4
    <3> QED BY <1>8, <2>1, <3>1, StoreKeepsNewest
  <2> QED BY <2>2, <2>3, <2>4
<1> QED BY <1>7, <1>9, <1>10 DEF PeersInv

LEMMA PeersStep ==
  ASSUME PeersInv, Peers!Next \/ UNCHANGED <<x1, x2, x3, x4, x5, x6>>
  PROVE  PeersInv'
<1>1. CASE UNCHANGED <<x1, x2, x3, x4, x5, x6>>
  BY <1>1 DEF PeersInv, PeerTypes
<1>2. ASSUME NEW n \in Nodes, NEW k \in BlockKeys, NEW t \in BlockTimes, Peers!AddBlock(n, k, t)
      PROVE  PeersInv'
  BY <1>2, AddBlockStep
<1>3. ASSUME NEW c \in Procs, NEW n \in Nodes, NEW s \in MergeStrategies, Peers!Ask(c, n, s)
      PROVE  PeersInv'
  BY <1>3, AskStep
<1>4. ASSUME NEW c \in Procs, Peers!Answer(c) PROVE PeersInv'
  BY <1>4, AnswerStep
<1>5. ASSUME NEW c \in Procs, Peers!Store(c) PROVE PeersInv'
  <2>1. PICK n, m, merged : Stores(c, n, m, merged)
    BY <1>5, StoreActs
  <2> QED BY <2>1, StoreStep
<1>6. ASSUME NEW c \in Procs, Peers!GiveUp(c) \/ Peers!Tear(c) PROVE PeersInv'
  <2>1. x3' = [x3 EXCEPT ![c] = Peers!Unused] /\ UNCHANGED <<x1, x4, x5, x6>>
    BY <1>6 DEF Peers!GiveUp, Peers!Tear
  <2> QED BY <2>1, PullEnds
<1> QED BY <1>1, <1>2, <1>3, <1>4, <1>5, <1>6 DEF Peers!Next, Nodes

\* A step keeps every key, and by default the newest block of each.
LEMMA PeersKeep ==
  ASSUME PeersInv, Peers!Next \/ UNCHANGED <<x1, x2, x3, x4, x5, x6>>
  PROVE  Peers!NoKeyIsLost /\ Peers!NeverAnOlderBlock
<1>1. PeerTypes /\ \A n \in Nodes : \A b \in x1[n] : b.time \in BlockTimes
  BY DEF PeersInv, PeerTypes, Peers!Blocks
<1>2. \A t \in BlockTimes : t >= t
  BY PeersAssumption
<1>3. SUFFICES ASSUME NEW n \in Nodes \ x4'
               PROVE  /\ \A b \in x1[n] : \E a \in x1'[n] : a.key = b.key
                      /\ ~ x6' => \A old \in x1[n], new \in x1'[n] :
                           old.key = new.key => new.time >= old.time
  BY DEF Peers!NoKeyIsLost, Peers!NeverAnOlderBlock, Peers!At, Nodes
<1>4. CASE x1'[n] = x1[n]
  BY <1>1, <1>2, <1>4 DEF PeerTypes, OnePerKey
<1>5. ASSUME NEW m \in Nodes, NEW k \in BlockKeys, NEW t \in BlockTimes, Peers!AddBlock(m, k, t),
             x1'[n] # x1[n]
      PROVE  /\ \A b \in x1[n] : \E a \in x1'[n] : a.key = b.key
             /\ \A old \in x1[n], new \in x1'[n] : old.key = new.key => new.time >= old.time
  <2>1. /\ Peers!At(x1[m], k) = {}
        /\ x1' = [x1 EXCEPT ![m] = @ \cup {[key |-> k, time |-> t, by |-> m]}]
    BY <1>5 DEF Peers!AddBlock
  <2>2. n = m
    BY <1>1, <1>5, <2>1 DEF PeerTypes
  <2>3. x1'[n] = x1[n] \cup {[key |-> k, time |-> t, by |-> m]} /\ \A a \in x1[n] : a.key # k
    BY <1>1, <2>1, <2>2 DEF PeerTypes, Peers!At
  <2> QED BY <1>1, <1>2, <2>3 DEF PeerTypes, OnePerKey
<1>6. ASSUME NEW c \in Procs, NEW k, NEW m, NEW merged, Stores(c, k, m, merged), x1'[n] # x1[n]
      PROVE  /\ \A b \in x1[n] : \E a \in x1'[n] : a.key = b.key
             /\ ~ x6' => \A old \in x1[n], new \in x1'[n] :
                  old.key = new.key => new.time >= old.time
  <2>1. /\ x1' = [x1 EXCEPT ![k] = merged] /\ x4' = x4 /\ x6' = x6 /\ k \in Nodes
        /\ Merging(x3[c], k)
    BY <1>6 DEF Stores, Merging
  <2>2. k = n /\ x1'[n] = merged
    BY <1>1, <1>6, <2>1 DEF PeerTypes
  <2>3. x3[c].local = x1[n]
    BY <1>3, <2>1, <2>2 DEF PeersInv, OnePull
  <2>4. /\ OnePerKey(merged) /\ \A b \in x3[c].local : \E a \in merged : a.key = b.key
        /\ ~ x6 => Covers(merged, x3[c].local)
    BY <1>6, StoreMerges
  <2>5. ~ x6 => \A old \in x1[n], new \in merged : old.key = new.key => new.time >= old.time
    BY <2>3, <2>4 DEF Covers, OnePerKey
  <2> QED BY <2>1, <2>2, <2>3, <2>4, <2>5
<1>7. \/ x1'[n] = x1[n]
      \/ \E m \in Nodes, k \in BlockKeys, t \in BlockTimes : Peers!AddBlock(m, k, t)
      \/ \E c \in Procs : Peers!Store(c)
  BY DEF Peers!Next, Peers!Ask, Peers!Answer, Peers!GiveUp, Peers!Tear, Nodes
<1> QED BY <1>4, <1>5, <1>6, <1>7, StoreActs

LEMMA PeersAgree ==
  ASSUME PeersInv PROVE Peers!PulledNodesAgree
<1> SUFFICES ASSUME x5 = Nodes, ~ x6, NEW m \in Nodes, NEW n \in Nodes, NEW a \in x1[m]
             PROVE  \E b \in x1[n] : b.key = a.key /\ b.time = a.time
  BY DEF Peers!PulledNodesAgree, Nodes
<1>1. x1[m] \in SUBSET Peers!Blocks /\ x1[n] \in SUBSET Peers!Blocks /\ OnePerKey(x1[m])
  BY DEF PeersInv, PeerTypes
<1>2. CASE m = n
  BY <1>2
<1>3. CASE m # n
  <2>1. Newest(x1, x3, m, n) /\ Newest(x1, x3, n, m)
    BY <1>3, PeerOf DEF PeersInv, CurrentIsNewest
  <2>2. Covers(x1[m], x1[n]) /\ Covers(x1[n], x1[m])
    BY <2>1 DEF Newest
  <2> QED BY <1>1, <2>2, CoversAgree
<1> QED BY <1>2, <1>3

=============================================================================
