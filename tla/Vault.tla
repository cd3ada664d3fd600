------------------------------- MODULE Vault --------------------------------
(***************************************************************************)
(* The vault adapter with its entry file, used by several processes: the   *)
(* server, the CLI. Every process keeps the vault it has initialised or    *)
(* loaded for as long as it runs; the state file holds the one vault of    *)
(* the data directory. Each initialisation makes a new master key. Both    *)
(* files are read whole and written in place, so they are torn for a       *)
(* moment, and for good when the writer is killed then.                    *)
(***************************************************************************)
EXTENDS Integers, Sequences, SequencesExt

CONSTANTS
  Procs,
  MaxKeys,       \* bound on initialisations
  MaxEntries,    \* bound on entries
  MaxFaults      \* bound on failing writes and killed processes

VARIABLES
  stateFile,     \* the key persisted: 0 without a file, HalfWritten while it is written
  entryFile,     \* the entries in file order, or <<HalfWritten>>
  active,        \* process -> activeVault's key, 0 when none
  proc,          \* process -> [at, list]: list is what is about to be written
  keys, made,    \* keys and entries made so far
  faults,
  acked,         \* history: entries whose save has returned
  rekeyed,       \* history: a second vault was initialised, or the first not persisted
  crossed        \* history: two saves overlapped, or one was cut off

vaultVars == <<stateFile, entryFile, active, proc, keys, made, faults, acked, rekeyed, crossed>>

HalfWritten == -1
Idle == [at |-> "idle", list |-> <<>>]

Init ==
  /\ stateFile = 0 /\ entryFile = [torn |-> FALSE, list |-> <<>>]
  /\ active = [p \in Procs |-> 0] /\ proc = [p \in Procs |-> Idle]
  /\ keys = 0 /\ made = 0 /\ faults = 0
  /\ acked = {} /\ rekeyed = FALSE /\ crossed = FALSE

\* loadPersistedVaultState: a torn file counts as none.
LoadPersistedVaultState == IF stateFile = HalfWritten THEN 0 ELSE stateFile
ActiveVault(p) == IF active[p] # 0 THEN active[p] ELSE LoadPersistedVaultState
\* readAll: so does a torn entry file.
ReadLatest == IF entryFile.list = <<>> THEN <<>> ELSE <<Last(entryFile.list)>>
ReadAll == IF entryFile.torn THEN <<>> ELSE entryFile.list

-----------------------------------------------------------------------------
\* vaultInit: the new vault is the process's before it is persisted.
VaultInit(p) ==
  /\ proc[p] = Idle /\ keys < MaxKeys
  /\ keys' = keys + 1 /\ active' = [active EXCEPT ![p] = keys + 1]
  /\ stateFile' = HalfWritten
  /\ proc' = [proc EXCEPT ![p].at = "persist"]
  /\ rekeyed' = (rekeyed \/ keys > 0)
  /\ UNCHANGED <<entryFile, made, faults, acked, crossed>>
PersistVaultState(p) ==
  /\ proc[p].at = "persist"
  /\ stateFile' = active[p] /\ proc' = [proc EXCEPT ![p] = Idle]
  /\ UNCHANGED <<entryFile, active, keys, made, faults, acked, rekeyed, crossed>>
\* The write fails: the caller gets the error and the process keeps the vault.
PersistFails(p) ==
  /\ proc[p].at = "persist" /\ faults < MaxFaults
  /\ faults' = faults + 1 /\ proc' = [proc EXCEPT ![p] = Idle] /\ rekeyed' = TRUE
  /\ UNCHANGED <<stateFile, entryFile, active, keys, made, acked, crossed>>

\* vaultEncrypt, and saveVaultEntry's read of the file.
Encrypt(p) ==
  LET entry == [id |-> made + 1, key |-> ActiveVault(p)] IN
  /\ proc[p] = Idle /\ made < MaxEntries /\ ActiveVault(p) # 0
  /\ active' = [active EXCEPT ![p] = ActiveVault(p)] /\ made' = made + 1
  /\ proc' = [proc EXCEPT ![p] = [at |-> "save", list |-> Append(ReadAll, entry)]]
  /\ crossed' = (crossed \/ \E q \in Procs : proc[q].at \in {"save", "write"})
  /\ UNCHANGED <<stateFile, entryFile, keys, faults, acked, rekeyed>>
WriteAll(p) ==
  \/ /\ proc[p].at = "save" /\ proc' = [proc EXCEPT ![p].at = "write"]
     /\ entryFile' = [torn |-> TRUE, list |-> <<>>]
     /\ UNCHANGED <<stateFile, active, keys, made, faults, acked, rekeyed, crossed>>
  \/ /\ proc[p].at = "write" /\ proc' = [proc EXCEPT ![p] = Idle]
     /\ entryFile' = [torn |-> FALSE, list |-> proc[p].list] /\ acked' = acked \cup {Last(proc[p].list).id}
     /\ UNCHANGED <<stateFile, active, keys, made, faults, rekeyed, crossed>>

\* The process ends, between two commands or in the middle of one.
Restart(p) ==
  /\ active[p] # 0
  /\ active' = [active EXCEPT ![p] = 0] /\ proc' = [proc EXCEPT ![p] = Idle]
  /\ faults' = IF proc[p] = Idle THEN faults ELSE faults + 1
  /\ faults' <= MaxFaults
  /\ rekeyed' = (rekeyed \/ proc[p].at = "persist")
  /\ crossed' = (crossed \/ proc[p].at = "write")
  /\ UNCHANGED <<stateFile, entryFile, keys, made, acked>>

Next == \E p \in Procs :
  VaultInit(p) \/ PersistVaultState(p) \/ PersistFails(p) \/ Encrypt(p) \/ WriteAll(p) \/ Restart(p)

Spec == Init /\ [][Next]_vaultVars

-----------------------------------------------------------------------------
(* Properties.                                                             *)

\* While a data directory has had one vault, and that was persisted, vaultDecrypt of a stored
\* entry succeeds in whatever process runs it, today and after a restart: it was encrypted
\* under the persisted key, which is also the key of every process that has one. Nothing is
\* said once a second vault was initialised, whose key leaves the entries of the first
\* undecryptable, or once persisting the vault failed or was cut short by a kill.
StoredEntriesOpen ==
  rekeyed \/ /\ \A n \in 1..Len(ReadAll) : ReadAll[n].key = LoadPersistedVaultState
             /\ \A p \in Procs : active[p] # 0 /\ proc[p].at # "persist" => active[p] = stateFile

\* An entry whose save returned stays in the file, with the latest one last, which is what
\* getLatestVaultEntry takes, until two saves overlap or a process is killed while it writes
\* the file in place, which tears the file and loses every entry.
SavedEntriesStay ==
  LET list == entryFile.list IN
  crossed \/ entryFile.torn \/
    /\ acked \subseteq {list[n].id : n \in DOMAIN list}
    /\ \A m, n \in DOMAIN list : m < n => list[m].id < list[n].id

=============================================================================
