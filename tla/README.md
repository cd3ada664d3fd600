# A TLA+ verification of Memphis v5

This directory holds TLA+ models of the parts of Memphis in which a mistake is
hard to test: state shared by several processes, writes that a crash cuts in
two, calls whose answer and whose effect may part ways. Each module is
translated from the code it names; `PROJECT.json` maps every definition to its
lines, lists the runs, the hazards and the theorems. Paths are relative to the
repository (`src/...` is its own `src` directory, `crates/...` its Rust crates).

1. [The system](#1-the-system)
2. [Hard behaviours](#2-hard-behaviours)
3. [Modules and how they correspond to the code](#3-modules-and-how-they-correspond-to-the-code)
4. [Runs](#4-runs)
5. [Fairness](#5-fairness)
6. [Proofs](#6-proofs)
7. [Where the code and its documents disagree](#7-where-the-code-and-its-documents-disagree)
8. [What is not modelled](#8-what-is-not-modelled)
9. [Plan](#9-plan)

To repeat everything: `tlc -config <cfg> <module>` for the pairs of section 4, and `tlapm` on
`DualApprovalProofs`, `TaskQueueProofs`, `ChainAppendProofs`, `ServicesProofs`,
`FilesProofs`, `EvidenceProofs` and `MCFiles`.

## 1. The system

Memphis is a personal-memory server. A Node process (`src/app/bootstrap.ts`)
serves HTTP; the CLI, the gateway and the MCP server are further processes over
the same data directory. They share chain directories (one JSON file per block),
one SQLite file, a write-ahead log of tasks, and a dozen smaller files that are
read, changed and written whole. A Kubernetes manifest starts two replicas over
one volume; the container files restart a process that stops.

| Component | State it keeps | Operations | Correct when | Module |
|---|---|---|---|---|
| **Dual approval** `dual-approval-repository.ts`, routes in `infra/http/server.ts` | three SQLite tables: requests, events, idempotency keys | create, approve, cancel, expire; handlers that report each transition to a chain | two different identities, each decision once, table and audit trail agree | `DualApproval` |
| **Task queue** `task-queue-service.ts`, `task-queue-wal.ts`, `routes/chat.ts` | a log file, a lock file, pending tasks | enqueue, finish, recover, resume; append, rotation, recovery | nothing acknowledged is lost or undone; nothing runs twice without a restart | `TaskQueue` |
| **Chains, TypeScript** `chain-adapter.ts` | numbered block files and a lock file | appendBlock, verifyChainIntegrity | the directory always validates and only grows | `ChainAppend` |
| **Chains, Rust** `rust-chain-adapter.ts`, `memphis-core`, `memphis-napi` | the same files, no lock | appendBlock over chain_append; chain_validate, signing, soul_replay | blocks it makes are accepted, linked, and replayed as they were made | `NapiChain`, `SoulReplay` |
| **HTTP server** `infra/http/server.ts`, `auth-policy.ts`, `rate-limit.ts` | buckets, revocation cache, counters, audit file | the hook, the routes | a change was admitted by every test; the log says what happened | `HttpServer`, `RateLimiter` |
| **Gateway** `gateway/server.ts`, `exec-policy.ts` | buckets, audit file, sessions and generation events | exec, provider/chat, the reading routes | what runs was admitted, allowed and logged; an answer has its event | `Gateway` |
| **Tool-call approvals** `tool-call-approval-repository.ts`, `mcp/server.ts` | two SQLite tables, the policy read at start | create, approve, deny, use, expire | one execution per approval, decisions final | `ToolCallApproval` |
| **MCP serving** `mcp-native-transport.ts`, `cli` serve commands | a state file, a socket | serve, stop, status, one request | the server that runs is the one that is stopped; one answer per request | `McpServe`, `NativeMcp` |
| **Orchestration** `modules/orchestration/` | cooldown per provider | resolve, retry, back off, fall back | bounded attempts, no failure before they are used up | `Orchestration` |
| **Task executor** `task-executor.ts`, `loop_engine.rs`, `loop-step.ts` | events of a run, loop counters | execute, replay, loop step | a replay costs an answer only where one was lost; the limits hold in every engine | `TaskExecutor`, `LoopEngine` |
| **Snapshots** `backup/rollback.ts` | snapshot files | create, roll back, undo | after a failure the files are one of two versions | `Rollback` |
| **Backups, import** `cli/commands/backup.ts`, `import-json.ts` | archives, target and index files | create, restore, clean, verify; import, rebuild | a restore is whole; an import is a chain | `Backup`, `ImportJson` |
| **Synchronisation** `sync/` | chain files, `sync-agents.json` | pull, merge; discover, push | nodes that pulled agree on keys and times; no key and no agent is lost | `Sync`, `PeerRegistry` |
| **Alerts, emergency log** `security-critical.ts`, `alert-emitter.ts`, `emergency-log.ts` | last-sent times, suppression counts, rotated files | emit, suppress, flush, rotate | every alert is sent, counted, or lost with the log too; a line outlives its rotations | `Alerting`, `EmergencyLog` |
| **Vault** `rust-vault-adapter.ts`, `vault-entry-store.ts`, `vault-lazy-loader.ts` | state file, entry file, the active vault of each process | init, load, put, get, delete | stored entries can be opened; caches are current | `Vault`, `VaultLoader` |
| **Embeddings** `memphis-embed`, `rust-embed-adapter.ts` | documents, an index file, cached searches | upsert, search, reset, save | documents survive; no result outlives a reset | `EmbedIndex` |
| **Caches, batching** `cache/`, `infra/cache`, `query-batcher.ts`, `memphis-embed/src/cache.rs` | maps, queues, byte counts | get, put, evict, flush | current, bounded, every flush ends | `FileCache`, `LruCaches`, `QueryBatcher` |
| **Decision records, sessions** `core/`, `cli/commands/decision.ts` | line files | append, transition, select context | only allowed transitions; a torn line costs one record | `RecordFiles` |
| **Managed apps** `modules/apps/` | catalog, registry | import, plan, run | no blocked step runs; the registry has the state of the last action | `ManagedApps` |
| **Collective decisions** `cognitive/model-d.ts` | proposals and their votes | vote, close, broadcast, execute | a closed vote stands; an execution is for an approval | `CollectiveVoting` |
| **Learning** `learning.ts`, `model-c.ts` | two files | learn, record, suggest | what was learned is stored, once | `LearnedPatterns` |
| **Incident evidence** `scripts/*incident*.mts`, `rotate-key-bundle.mts` | bundles, manifests, key bundle | export, rotate, verify, hand over | evidence exported whole verifies later | `IncidentBundle`, `StrictHandoff` |
| **Host and start** `startup-guards.ts`, `safe-mode.ts`, `trust-root.ts`, `doctor-v2.ts`, `setup.ts` | `.env`, `config.yaml`, firewall rules | setup, configure, doctor, the guards | what listens has been guarded; reports predict starts | `HostSetup`, `HostHealth` |

The rest is listed in `PROJECT.json` with the reason it is left out, and in section 8.

## 2. Hard behaviours

`PROJECT.json` lists the hazards, each with its line and the properties about it. They
fall into six groups.

* **Several processes on one file.** Lock files created exclusively and polled with a
  timeout, which a dead process keeps; and many more files with no lock at all, read,
  changed and written whole by the server, the CLI and scripts. SQLite reads outside the
  transaction that acts on them.
* **Interleaving at an await.** A cache stores what it read before another change; a
  provider that fails while another call of it succeeds; a vote that is closed while the
  remote votes are under way; a flush called while one runs.
* **Crashes between two steps.** Row and audit event are two statements; a task is
  executed before its outcome is logged; a block is renamed into place and not synced; a
  file is truncated and not yet written; a line has no end.
* **One step of several fails.** An `fdatasync` that throws after the write, a chain event
  lost after the commit, a rollback whose undo fails too, a restore with one file moved.
* **Boundaries.** `>` in one place and `<` in another over the same expiry; the first
  request of a window; capacities, token limits and rotations.
* **Order and protocol.** Events of one millisecond; requests in pieces; blocks listed in
  another order than they were linked; legal commands whose sequence is not.

## 3. Modules and how they correspond to the code

```
RequestLifecycle  <-- implements --  DualApproval  <-- DualApprovalProofs
DurableQueue      <-- implements --  TaskQueue     <-- TaskQueueProofs
AppendLog         <-- implements --  ChainAppend   <-- ChainAppendProofs, MCFiles
                                     NapiChain     <-- MCFiles
ChainAppend, NapiChain, SoulReplay, Rollback, Backup, ImportJson, Vault, EmbedIndex,
RecordFiles, ManagedApps, IncidentBundle, StrictHandoff, Sync, PeerRegistry, EmergencyLog,
HostSetup, HostHealth, LearnedPatterns, McpServe, HttpServer, Gateway, VaultLoader,
FileCache, LruCaches   <-- MCFiles
ToolCallApproval, TaskExecutor, LoopEngine, Orchestration, CollectiveVoting, RateLimiter,
Alerting, QueryBatcher, NativeMcp   <-- MCServices

FilesProofs  <-- EvidenceProofs  <-- MCFiles      MCServices  <-- ServicesProofs
```

`DualApproval*.cfg`, `TaskQueue*.cfg`, `ChainAppend.cfg` and `NapiChainCrate.cfg` run on the
component's module itself. `FilesProofs` and `EvidenceProofs` instantiate the components they
prove about, and `MCFiles` extends them, adds the others and states the theorems of the sum.

**The two sums.** `MCFiles` and `MCServices` instantiate components that share no state.
A behaviour of a sum is a behaviour of one of them: `part`, chosen by `Init` and never
changed, says which, and `x1`, `x2`, ... are its variables. This loses nothing, because no
component of a sum reads what another writes; interleaving them would only multiply
their states. Where components do share state, they are one module: the executor's queue
and its observers, an export beside a rotation, the setup commands beside a start. A
property of a sum is the conjunction of what its parts promise.

Many modules have variables that record history for a property. They never enable or disable
an action. There are three kinds. Some say what a caller was told (`acked`, `told`). Some
count what the code lets go wrong, and the property is a budget: `overwritten` in
`ToolCallApproval`, `lapses` in `TaskExecutor`, `lost` in `Alerting`, `HttpServer` and
`Gateway`, `reopened` in `CollectiveVoting`. Others mark a disturbance after which the code
promises nothing (`raced`, `spoiled`, `clashed`, `excused`, `drifted`, ...), such as two
processes that rewrite one file without a lock; each property that excepts one names it in
its comment, and the hazards that stay uncovered for it say so in `PROJECT.json`.

### DualApproval

Freezing and unfreezing the system takes two people. Variables `row`, `events`
and `idem` are the three tables; `call` is the synchronous part of the handler
that each server process is in; `outbox` and `chain` are the chain events handed
to `appendBlock` and written. `now` is `Date.now()`, which may stay the same
over many calls: the code compares and sorts by it.

A handler is several steps because another process can act between them.
`Begin` reads the number of events (`eventsBefore`), `Apply` runs the SQLite
transaction of `approve` or `cancel` (replay, key check, state, expiry, four
eyes, version, in the order of the code: `ApproveTx`, `CancelTx`), `Emit` or
`Replayed` compares the count again. `CreateRequest` and `CreateEvent` are two
autocommitted statements, so two steps. `SelectDue` and `ExpireDue` are
`expirePending`, whose selection is outside its transaction. `Crash` ends a
process at any of these points. `RawIds` and `Normalize` are the spellings of an
identity and `normalizeIdentity`; two spellings of one person are needed to see
that four eyes are four eyes.

`RequestLifecycle` says the same with no storage, clock, keys or processes.

### TaskQueue

`wal` is the content of the log file as the page cache has it, `synced` how many
records certainly are on the disk, `lock` the lock file and who made it. The
server is one thread and a WAL operation is synchronous: `op` says which
operation the thread is inside and how far it got, and while it is set nothing
else in the server happens, but other processes and crashes do. A record is
written in two steps (`BeginWrite`, `EndWrite`) because a crash between them
leaves a torn one; `Release` syncs in financial mode and returns to the caller.
`Returns` and `Throws` continue in the code that called: the chat route, the
resume loop, or the catch block of that loop, which calls `finish` again.

`Start`, `Recover`, `ResumeNext`, `RedispatchReturns`, `RedispatchRecords` are
the constructor and the resume of `bootstrap.ts`, under each policy. Any other
process that constructs the container recovers the same file and truncates it:
`ObserverReads`, `ObserverTruncates`, `ObserverDies`. `Faults` chooses what may
fail. The encoding of records and their checksums are abstracted to "parses or
not"; ids, payloads and results to the task itself.

`DurableQueue` is the promise: what was told to a caller cannot be taken back.

### ChainAppend

`chain` is the sequence of block files, `written` those whose content is on the
disk, `pc` and `plan` the progress of each call of `appendBlock`. A block is
named by the call that makes it (its hash depends on its content, which is the
call's own), so `prev` is a call or `Genesis`. Taking the lock, each unlink of
`pruneTrailingEmptyBlockFiles`, planning the block, the rename and the release
are separate steps; the temporary file is not seen by anyone, so writing it is
part of the rename. `List` and `Judge` are `verifyChainIntegrity`, which takes
no lock. `LosePower` keeps a prefix of the renames (they are journalled in
order) and may empty any file that was not written back.

Calls are identified with the processes that make them: a process that runs
several appends at once behaves as several, since the lock is a file.

`AppendLog` is what remains for a reader who does not care about files.

### NapiChain

The Rust-backed adapter reads the directory, lets the bridge validate the block
and writes it in place, with no lock: `Read`, `Reject` or `Open`, `Write`. Any error of
the read, of one file or of the directory, gives an empty chain (`ReadChain`), after which
the next append is number 1 again; a write that fails may have truncated the file (`Throw`).
`Bridges` is what the bridge path may name: the crate of the repository, or one
that reads blocks as the adapter writes them (the unit tests use such a one).
`Sent` and `CrateReads` record what the two sides disagree on: a key name and the
order of the keys under the hash. `spoiled` is history: an overlap, a death or a failure in
a write, a failed read.

### SoulReplay

What the bridge says of blocks: `Validation` is chain_validate, `Signed` the signing of a
block with a key, `Normalize` the `normalizeReplayBlocks` of the adapter (sort, number
from 0, link anew, keep each hash, drop the signature), `Replayed` the crate's harness.
Blocks are appended, damaged by one edit, posted or read from a file in any order, and
replayed. A hash is the sequence of what is under it, so equal hashes mean equal content.

### HttpServer, Gateway, RateLimiter

`HttpServer` is one process with several requests in flight. `OnRequest` is the hook: the
global limiter, safe mode, the revocation cache, the sensitive limiter, the token, in the
order of the code, each with the action of its refusal. A handler (`Handlers` says what each
route may answer, log and change) works for a while; `Answer` writes the response, the audit
line and the counters, and a kill may come first. `Gateway` is the second server, with a
token, limiters and audit lines of its own: what precedes the body is one step (`Arrive`),
the body's arrival another (`Exec`, `Chat`), a command holds the process until it ends
(`IsFree`), and a chat waits for its provider. The policy of a command is its verdict on one
of four kinds. In both, a line of the audit may be lost: `writeSecurityAudit` swallows the
error and the request goes on (`lost`). Both servers reset all buckets at a tick; `RateLimiter` is one bucket with its
own clock, at every tick of a window; `accepted` says how many it let through by each time.

### ToolCallApproval

Each statement is a step: a gate looks for an approved request and marks it used, or
creates one; operators approve, deny, set policies, each command a process. A gate keeps
the policy it read when it was created, so `PolicyBindsAfterRestart` is what a policy
promises. `Transition` writes whatever is there now: `saw` is the state its process had read,
`overwritten` counts the writes over another one, and `OneRunPerApproval` allows as many runs
beyond the first.

### McpServe, NativeMcp

`McpServe`: servers, stops and status commands over one state file; process ids are reused
by others, and a server removes whatever state file it finds. `NativeMcp`: one request in
up to three pieces and blanks behind it, over a socket with no framing; the gateway
parses everything it has whenever something comes. `serve-once` answers a request that was
refused by nothing at all (`IsLeftHanging`).

### Orchestration, TaskExecutor, LoopEngine

`Orchestration`: several calls, interleaving at each answer and each backoff, over the
cooldowns; provider `auto` is any healthy one, since latencies decide it.
`TaskExecutor`: `execute` with its look at the recorded results, its two loop steps and
its events, whose writes may fail; kills and replays under one run id. `Newest` is the
result that the search finds first; `SearchFails` is a search whose reads failed, which
`findCachedResult` takes for none; `lapses` counts what may cost the run one more answer.
`LoopEngine`: the
crate's step, its bridge, the MCP tool and the executor's fallback, which take over from
each other at any step.

### Rollback, Backup, ImportJson

File by file, with a failing write, a kill, an edit beside them. `Rollback` has the stack
of nested rollbacks that its error path makes (`frames`). `Backup` moves the data out, the
archive in, and undoes it; a failing move out is outside the `try` and strands the restore.
`by` and `shared` say who made an archive and whose name another command took. `ImportJson` normalizes, deduplicates by hash, renumbers and
relinks; the index `Huge` is one that `Number` turns into Infinity, which sorts but does
not compare.

### Sync, PeerRegistry

`Sync` is `pull` under each strategy, with an answer that may be late, old or never come,
then a write that may be torn. Blocks of one key and one time change places between nodes
that pull at once. `PeerRegistry` is `sync-agents.json`: push and pull store
the record they read before they waited.

### Alerting, EmergencyLog

`Alerting` is the emitter with its window, the counts of what it suppressed and the flush
timer; deliveries overlap and fail, and so may the emergency log (`Lost`). An alert on its
way is counted by the sends that cover it. `EmergencyLog` is where an event goes when the chain
does not take it: candidates, rotation, the line.

### Vault, VaultLoader, EmbedIndex

`Vault`: a key number stands for encryption; each process keeps the vault it loaded while
another initialises a new one; both files are written in place. `VaultLoader`: `get`
yields during decryption; `At` and `Without` are the place of an entry in the copies and the
copies without it. `EmbedIndex`: each process has all documents in memory, rewrites
the file, and answers searches from a cache for a while; `Ranked` keeps the order of the
hits, distances themselves are left out.

### FileCache, LruCaches, QueryBatcher

`FileCache` stats after it reads, and two writes may have one modification time. `LruCaches`
are three caches in one module, a step being a call of one. `QueryBatcher` is the chain of
flushes with its two phases; tasks are queued at any time.

### RecordFiles, ManagedApps, CollectiveVoting, LearnedPatterns

`RecordFiles`: appended lines, a torn one that the next record runs into, readers that
throw. `ManagedApps`: an action is planned with one resolution of its secrets and run with
another; an import validates the file and copies what is there later. `CollectiveVoting`: remote votes arrive after a broadcast that ends with a
timeout, while the local agent votes, closes, closes again and executes. `LearnedPatterns`: two files,
read once and rewritten whole; a torn one is an empty one.

### IncidentBundle, StrictHandoff

`IncidentBundle`: export (bundle, companion, retention, manifest), rotation of keys and
verification, with a kill between any two writes and inside them; `crossed` are the ids of
keys whose rotation overlapped another. `StrictHandoff`: preflight, export and
verification of one handoff under the flags that decide its profile, while other exports,
rotations and trust roots change the files.

### HostSetup, HostHealth

`HostSetup`: the commands that look at `.env` and `config.yaml`, ask, and write later.
`HostHealth`: the guards of a start in their order, and doctor's tiers beside them, on a
host on which something may be wrong or go wrong.

## 4. Runs

| Run | Instance | Shows |
|---|---|---|
| `dual_approval` | 2 servers, 1 request, 2 keys, 2 people | types, table = audit trail, decisions final, `RequestLifecycle` implemented, with two processes racing approve, cancel and the sweep |
| `dual_approval_one` | 1 server, 2 requests, 1 key, 3 spellings | four eyes, one decision per key, chain never ahead of the database |
| `dual_approval_tie` | 1 server, 1 request | **violated**: the last listed event is the transition |
| `queue_durable` | 3 tasks, capacity 2, 1 crash, power loss, writes that throw, all policies | nothing acknowledged is lost or undone, memory = log, capacity, `DurableQueue` implemented |
| `queue_faults` | 2 tasks, rotation at 2 records, 2 crashes, every fault, stale locks | one execution per life, finish finds its task, events follow executions, every start ends |
| `queue_live` | 2 tasks, 2 crashes, fail and redispatch | every accepted task settles |
| `queue_rotation` | 2 tasks, rotation at 1 record, keep | **violated**: kept tasks stay pending |
| `queue_stale_lock` | 2 tasks, 1 crash, nobody removes locks | **violated**: every accepted task settles |
| `chain_append` | 3 appends, any of which dies anywhere, a verifier | the directory validates at all times, answers are true, one appender, append only, `AppendLog` implemented, every append ends |
| `napi_chain_crate` | 2 appends, the crate as the bridge | **violated**: the bridge accepts the adapter's blocks |
| `shared_files` | `MCFiles`, twenty-four components, 2 or 3 processes each | see below |
| `services` | `MCServices`, nine components | see below |

What the properties of `shared_files` say, by component, with what they except:

| Property | Parts and their properties |
|---|---|
| `RollbackLosesNothing` | `Rollback`: a rollback that fails and undoes itself leaves what it found; what every file held before is in a snapshot that can be read |
| `BackupsRestore` | `Backup`: a restore leaves the old data or the archive's; one whose move out or whose undo fails leaves the old data in two halves; none loses anything, killed ones included; a reported backup verifies until it is cleaned, unless two commands took one name |
| `VaultEntriesOpen` | `Vault`: stored entries are under the persisted key and a saved entry stays; not after a second vault, a first one that was not persisted whole, overlapping saves or a save killed in its write |
| `DocumentsSurvive` | `EmbedIndex`: an upserted document is in the index file unless a save failed or another process wrote; no result outlives a reset |
| `ImportsAreChains` | `ImportJson`: whatever is imported is a chain, in the target and in the index; the target is the old file or the new one, unless two imports overlap |
| `RecordsAreKept` | `RecordFiles`, `EmergencyLog`, `PeerRegistry`, `HostSetup`, `LearnedPatterns`: a history entry refers to the event of its transition, a kill costs one record, a context is within its limits; a line outlives its rotations; a discovered agent stays; a file reported ready starts a server; feedback and patterns are stored as learned. Excepted, as each module says: two writers of one file at once, and a write that failed or that a kill cut short |
| `AppsFollowTheirPlans` | `ManagedApps`: no step runs that the validator blocks; the registry follows the last action, unless it failed midway, was killed or met another, or two saves overlapped or one was killed in its write |
| `EvidenceStaysValid` | `IncidentBundle`, `StrictHandoff`: an exported bundle verifies while retained, under later key rings, but for the signature when a kill tore the ring or the key's rotation overlapped another; a handoff that says ok handed over evidence, the chain tells its verdict, the preflight predicts it but for its blind spots |
| `BridgedChainIsValid` | `NapiChain`, `SoulReplay`: the chain is whole unless appends overlapped, one died or failed in its write, or one could not read what was there; validation tells damage; a replay ignores the order of the list and accepts the beginning of what was made |
| `RequestsAreAccountedFor` | `HttpServer`, `Gateway`, `HostHealth`, `McpServe`: changes and commands were admitted and within their budget; log, events and counters are true as far as the log could be written; what listens was guarded, an ok report predicts a start but for `BlindSpots`; the server that serves is the one known, while commands wait for one another |
| `CachesAreCurrent` | `VaultLoader`, `FileCache`: a hit is what a fresh read would give, unless the source changed in the read that filled it |
| `CacheBooksBalance` | `VaultLoader`, `FileCache`, `LruCaches`: counters and eviction queues match what is held; capacities |
| `HistoryIsKept` | `Rollback`, `Sync`, `ChainAppend` with power losses, as step properties: snapshots stand; a pull loses no key and takes no older block, and pulled nodes have the same keys with blocks of the same times; a chain grows only when it validates |

And of `services`:

| Property | Parts and their properties |
|---|---|
| `ApprovalsBind` | `ToolCallApproval`: one run per approval, and one more at most for each write over a state its process had not seen; approved before it runs; a policy binds every server started after it |
| `ReplaysAreExact` | `TaskExecutor`: one answer per run, and one more at most for each lapse; no run gets another's |
| `LimitsHold` | `LoopEngine`, `Orchestration`, `RateLimiter`: loop limits in every engine, and engines agree; the retry budget, and no failure before it is spent; at most twice the limit in any interval of a window's length, and nobody refused below it |
| `NothingIsDropped` | `Alerting`, `QueryBatcher`, `CollectiveVoting`, `NativeMcp`: each alert is sent or logged, on its way, counted, or lost with the emergency log, in one of them only, and once a window; a flush covers its tasks, writes in order; a proposal executes when approved, once and once more at most for each closing after it; one answer per request |
| `DecisionsStand` | `ToolCallApproval`, `CollectiveVoting`, `LoopEngine`, as step properties: final states stand unless overwritten by a process that had seen another, the outcome and count of a closed vote stand, halts stand |
| `EverythingEnds` | `Orchestration`, `QueryBatcher`, `NativeMcp`: every call, every flush and every valid `mcp` request ends, but for those that `serve-once` leaves hanging |

Every property has a mutant in `PROJECT.json`: a plausible slip in one mapped definition
under which the run finds it violated. Parts of a conjunction were tried the same way one
by one while they were written.

**Bounds, and why they are enough.**

* `Ttl = 1`, `MaxNow = 2`: a request can be before, at and after its expiry, and
  a second one can be opened while the first is due. The clock only stops there;
  nothing else does. The clocks of `services` (`MaxTime`) are chosen alike: a tick before,
  at and after each window, expiry and cooldown.
* Two keys let a request be decided under one and retried under the other; one
  key with two requests lets a key be reused for a different call. `Versions`
  has a right and a wrong value of `expectedStateVersion` in `dual_approval_one`.
* Three tasks over a capacity of two: one is refused, or accepted after another
  finished, while a third is recovered. `MaxWal = 9` is more than three tasks can
  write in these runs, so rotation does not happen there (it loses pending tasks,
  which is a run of its own); `MaxWal = 2` makes it happen often.
* `MaxCrashes` bounds kills and power losses together with the number of starts
  that recover the log. One crash, before or after which anything may happen, is
  what the durability properties quantify over again: they ask at every state
  what *any* crash now would leave (`AfterCrash`). Liveness uses two, so that the
  resume itself is interrupted.
* Three appends are enough for two to meet and a third to come after a crash; the
  invariants are proved for any number besides.
* In the sums, two processes (three commands where one has to come between two) and one
  kill or fault (`MaxKills`, `MaxFaults`) at any step; `MaxCommands`, `MaxRecords`,
  `MaxEdits`, `MaxBlocks` bound what would otherwise go on for ever. Capacities are 1 to 3,
  so that every cache, queue, window and retention overflows. Inputs are listed at the
  `INSTANCE`, chosen so that each branch of a conversion is taken: duplicated, missing and
  huge block indexes for an import, texts of both sides of a size limit, flag sets that
  relax each part of the strict profile.

Deadlock is checked except in `queue_faults`, `queue_stale_lock`, `napi_chain_crate` and the
two sums: there a server that has used up its restarts behind a stale lock, calls that
have all ended, or commands that have all been run, leave nothing to do. Liveness in
`services` is stated of what must end, so the lack of a deadlock check hides nothing there.

What the positive runs assume is part of what they say. `queue_durable` is for
financial mode, without rotation, short writes or an `fdatasync` that throws: in
those cases the properties really fail, see section 7 and the hazards. A short write is one that
`writeSync` reports in its result, which `task-queue-wal.ts:133` ignores: the record is
acknowledged, and everything behind it in the file is unreadable.
`ChainFollowsDatabase` is for a single server: with two, the count of events read
before the transaction may make two handlers report one transition.
`EveryTaskSettles` excepts a task whose `finish` threw in a live server
(`Leaked`): it keeps its place in the queue until the next restart.

## 5. Fairness

Only the runs with liveness properties use a fair specification.

* `TaskQueue!FairSpec`. Weak fairness of `ServerStep`, `GenerateReturns` and
  `ResumeNext`: Node's event loop runs what is ready, and provider clients abort
  after a timeout. `WF(Start)`: the deployment restarts a stopped server
  (`docker-compose.yml`, `docs/runbooks/SYSTEMD_EXIT_CODES.md`, the Kubernetes
  deployment). `WF(ObserverTruncates)`: a process inside its critical section
  leaves it. `SF(TakeLock)`: the lock is polled every 10 ms while others take it
  for the time of a file read; strong fairness says that one poll finds it free
  before the timeout, and the runs that doubt it have `"slow"` among their
  faults. `WF(ClearLock)` matters only where `LockIsCleared`: an operator deletes
  the lock file of a dead process. `queue_stale_lock` shows what happens when
  nobody does.
* `ChainAppend!FairSpec`. Weak fairness of each call's own steps. Nothing is
  assumed of the lock: a waiting call stops after 200 attempts, so `AppendEnds`
  holds behind a stale lock too, with an error.
* `MCServices!Spec`. Weak fairness of a provider's answer, which may be an error or its
  client's timeout (`ProviderAnswers`), of the timer of a backoff (`BackoffEnds`), of the
  event loop going on with a flush (`BatcherGoesOn`), of each task of a batch, which the
  batcher awaits and whose ending it cannot enforce (`TaskEnds`), and of the pieces of a
  request that was sent and the tool it runs (`RequestArrives`, `RunEnds`).

Clients (`Submit`, `Begin`, `Call`, `Enqueue`), operators, crashes and observers' arrivals
are never fair: nobody has to send a request.

## 6. Proofs

Seven modules hold theorems; `PROJECT.json` lists them. Each holds for all values of the
constants, under assumptions that only say what the constants are.

| Module | Theorems | Inductive invariant |
|---|---|---|
| `DualApprovalProofs` | `TypeCorrect`, `FourEyesHolds`, `AuditHolds`, `KeysHold`, `ChainFollows`, `DecisionsFinal`, `Implements` | the properties themselves, through the four cases of a step; `ChainInv` for one server |
| `TaskQueueProofs` | `TypeCorrect`, `RunsHold`, `MemoryHolds`, `AnswersKept`, `QueueKeepsPromise` | `TypeInv`, `OrderInv`, `LogInv`, `ToldInv` |
| `ChainAppendProofs` | `TypeCorrect`, `Valid`, `AnswersTrue`, `OneAppenderHolds`, `VerifyAccepts`, `AppendOnlyHolds`, `Implements` | `IInv` |
| `ServicesProofs` | `ApprovalsHold`, `ReplaysHold`, `LimitsAreKept`, `DecisionsHold`, `NothingDropped` | `ToolingInv`, `ExecutorInv`, `LoopInv`, `ProvidersInv`, `LimiterInv`, `VotingInv`, `AlertInv`, `BatcherInv`, `NativeInv` |
| `MCFiles`, over `FilesProofs` | `VaultsOpen`, `RollbackHolds`, `BackupsHold`, `DocumentsHold`, `AppsHold`, `HistoryHolds` | `VaultInv`, `RollbackInv`, `BackupInv`, `DocInv`, `AppInv`, `PeersInv`, `LossyInv` |
| `MCFiles`, over `EvidenceProofs` | `CachesHold`, `EvidenceHolds` | `ContentInv`, `SecretInv`, `EvidenceInv`, `HandoffInv` |

**Dual approval**: any number of requests, identities, keys and server processes, any
bound on the clock. `StepOfRequest` shows that whatever step the system takes, a given
request sees one of four things: nothing, its opening, a further `pending` event, or one
decision recorded by one event (`RequestStep`). Every action is examined once, there, and
the other theorems become statements about these four cases. `KeysHold` needs that a key
is reserved by the transaction that writes its event; `ChainFollows`, for one server, that
what a handler counted before its transaction is what was there (`ChainInv`).

**Task queue**: any number of tasks, any bounds. No property about tasks is inductive,
because the thread is in the middle of a call most of the time. `Threaded` says which code
the thread is in for which task; `OrderInv` relates, task by task, its job, its runs and
lives, and where it is pending or recovered: that is what makes `RunsHold` true under every
fault. For the financial mode `LogInv` says that between calls the open tasks of the log
are those in memory, but for the operation under way (`Remembered`), and `ToldInv` that
every answer given rests on a record below `synced`: what a crash leaves contains it.

**Chain append**: any number of appends, dying anywhere, with a verifier. `ChainValid` says
nothing of who may write next. `IInv` adds that blocks are distinct (`Whole`), which calls
have their block in the chain (`Where`), that a call inside the critical section owns the
lock, dead or alive (`Exclusive`), that a planned block is still the next one
(`PlansHold`) and that a verifier never listed more files than there are (`Verified`).
`PlansHold` is the heart: it survives the steps of others because `Exclusive` lets nobody
else rename, and it makes `Rename` an append. `NothingToPrune`: no file is ever left empty
while the machine keeps its power, so `Prune` is an action of `LossyNext` only. With power
losses `LossyInv` still has that a planned block follows a chain that validates
(`HeldLock`).

**The services.** Two of the invariants are accounts. `ToolingInv` counts for each request
the runs it has had and those that gates which found it approved may still make, against
the approvals and `overwritten`; `ExecutorInv` (`Budget`) counts the answers a run has been
given, those its executions may still ask for, and one if none is recorded, against
`1 + lapses`. `ProvidersInv` says which providers are `Spent` at each stage of a call,
`LimiterInv` how many requests each window before the present one let through,
`AlertInv` that deliveries under way have different ids (so that an alert counted in one is
in no other), `BatcherInv` that what a flush promised is behind it or in the queues
(`PromisesKept`), `VotingInv` that a decided result is the count of its votes, `NativeInv`
that an answer and an open request exclude each other.

**The files.** Most properties fail to be inductive for one reason: a process holds what
it read, and writes later. So each invariant relates what processes hold to the files.
`VaultInv` says that one vault (`OneVault`) and one save (`OneSave`) is under way while no
exception has happened; `RollbackInv` which files of which frame are restored and that a
snapshot saves the rest; `BackupInv` where each item is at every stage and that an archive
is written by those in `by`; `DocInv` that only one process has the index loaded; `AppInv`
that what an action will record is what it did (`Follow`); `PeersInv` that a local copy is
current unless a write overlapped (`OnePull`), that what was read of a peer is not newer
than what the peer has (`ReadOfPeer`), hence a node that has pulled has the newest of both
(`CurrentIsNewest`). `ContentInv` and `SecretInv` say of each cached copy, and of each read
under way, that it is current unless marked. `EvidenceInv` is `KeysInv` (the key
of every signature made is backed by the ring, and rotations that have not overlapped do
not undo each other: `Backed`, `RotationsApart`) and `BundlesInv` (a manifest is the only
one of its name, and the bundle it names is there). `HandoffInv` follows one handoff from
preflight to verdict and says what it has seen that the files may no longer have.

**Assumptions.** `OneServer` (for `ChainFollows`) restricts to one server process, which the
property is about. `Durable` and `NoRotation` restrict `TaskQueue` to financial mode and a
log that does not rotate: without either the promises fail, see section 7. The others name
constants or bound them: `NobodyAssumption`, `CallsAssumption`, `TasksAssumption`,
`LossyAssumption` (a marker is no member of the set it is beside), `TtlAssumption`,
`BoundsAssumption`, `ServicesAssumption`, `SnapshotsAssumption`, `BackupsAssumption`,
`PeersAssumption`, `SecretsAssumption` (limits, sizes and times are numbers, processes and
executions are finitely many), `DocumentsAssumption`, `EvidenceAssumption`,
`HandoffsAssumption` (content is distinct from "none" and "torn"). TLC evaluates all of them
in the runs of the modules that extend theirs.

**Model-checked only.** All liveness (`EveryTaskSettles`, `StartupEnds`, `AppendEnds`,
`EverythingEnds`) and ENABLED are beyond the prover. `ImportsAreChains` and
`BridgedChainIsValid` are about what recursive definitions compute on lists, which needs
induction over data; `CacheBooksBalance` sums over caches. `RecordsAreKept` and
`RequestsAreAccountedFor` have not been attempted: each is a conjunction over several
components with an invariant of its own. The violated properties are refuted, not proved.

## 7. Where the code and its documents disagree

Four disagreements have a run of their own.

* **`dual_approval_tie`**: `listEvents` sorts by `created_at` alone, so of two events
  of one millisecond the creation may come last, and the handler reports `pending`
  with version 1 to the chain. The e2e test of cancel expects `['pending', 'canceled']`.
* **`queue_rotation`**: the queue-resume runbook says `keep` keeps recovered tasks
  pending. Rotation renames the log with their records in it, and recovery reads
  only the new one.
* **`queue_stale_lock`**: the same runbook says `fail` marks recovered tasks as
  failed on startup. After a kill inside `withLock`, every start times out on the
  lock file and marks nothing.
* **`napi_chain_crate`**: the adapter sends `block_type` and hashes keys in the order
  written; the crate requires `type` and sorts. It rejects every block, although the
  adapter's unit test calls the hashing compatible with `memphis-core`.

Others were met while the modules were written. The models behave as the code does, and the
properties except them by name.

*Replay.* The adapter numbers stored blocks from 1, the replay renumbers them from 0, and
the hash covers the number: a replay of a stored chain refuses every block, and a
`latest` slice that does not begin at the first block is refused whole. With the crate,
which reads `type` and not `block_type`, soul_replay always answers an error. Replay drops
signatures, so it never checks one; outside strict mode a wrong signature is treated like
a missing one.

*MCP.* `smoke-phase6-native-mcp-serve-single-instance.sh:16-17` expects `already_running` and
`...-stale-state.sh:22` expects serve-status to clear a stale state file; neither is done.
Smoke scripts expect the codes -32002 and -32003, the printed schema promises -32601 and
-32602; the native transport sends none of them, and a refused request, or a provider
that fails, leaves `mcp serve-once` without an answer. serve-stop returns while the old
server is still closing, and a server removes whosever state file it finds. A second
SIGTERM ends it uncleanly, a port in use ends `mcp serve` with an uncaught error, and blanks
that arrive behind a request run it twice.

*Setup and doctor.* `configure.ts:295-297` reports vault secrets used and the vault initialised
without calling vaultInit. doctor reads `~/.memphis/config/config.yaml`, configure writes
`~/.memphis/config.yaml`. Setup reports ok under an exported `NODE_ENV=production` though a
start refuses; `docs/SIMPLE-INSTALL.md:15` takes `ok: true` for ready, which is right but for
the facts that `HostHealth` names as blind. doctor wants one block at least, a start accepts
none; doctor ignores the result of the schema it parses (`doctor-v2.ts:341`). The firewall rule of
safe mode is never removed and rejects the loopback, so safe mode with ollama embeddings
refuses its own start. `onboarding bootstrap` prints `ok: false` with exit code 0.

*Gateway.* `GATEWAY_EXEC_BLOCKED_TOKENS` is loaded (`exec-policy.ts:49`) and read by nothing. The
limiter of `/exec` never refuses: it has the limit and the key of the one before it. Each chat,
`/ops/status` and `/providers` builds a container, hence a connection that nobody closes, empty
cooldowns and a recovery of the queue's log (the observer of `TaskQueue`). A command that
`exec` itself blocks answers 200 with exit code -1, and its audit line says allowed. No
command starts the gateway.

*Evidence.* The strict handoff's preflight takes `--expected-key-id` alone, but then the manifest
has no key id and the verification always fails; so it does with an exported
`VERIFY_PUBLIC_KEY_PATH`. Environment variables relax the strict profile. The rotation signs
an unsigned or untrusted base anew.

*Models.* After a reload the dates of Model C are strings and `predict` throws; a second
`learn` counts decisions twice; the first wrong prediction makes its accuracy NaN; a torn file
is taken for an empty one without a word. In `learning.ts` one accept of a tag of high
priority lowers its confidence, and a rate of exactly one half counts as no feedback.
`/api/model-d/proposals` answers ok although its append failed.

## 8. What is not modelled

* SQLite is trusted to make a transaction atomic and isolated, and exclusive file
  creation to be atomic; the durability of SQLite's own commits is not in question
  here. A transaction that fails with `SQLITE_BUSY` is: `Refuse` covers it.
* Several chains at once: chains share nothing in `appendBlock`, so one is modelled. A
  chain written by both backends in turn is not: the TypeScript one refuses what the
  other hashed (see `napi_chain_crate`).
* Hash collisions, cryptography and clocks that run backwards.
* Numerical code: vector distances, the HNSW graph, scores and statistics of the
  cognitive models (`patterns.ts`, `categorizer.ts`, models A, B and E); `LearnedPatterns` has
  what is stored of them.
* `BufferPool`, `HealthMonitor`, `ProactiveAssistant`, which only tests and benchmarks use;
  `resilience/fallback.ts`, which nothing imports.
* Provider clients, plugins and IPFS are external or forward calls; a trade offer is a
  signed text that no file keeps. chain_query and the decision gate are pure filters; the
  schemas of requests, manifests and the environment are abstracted to what they refuse.
* Terminal UI, dashboard, argument parsing, log formats.

## 9. Plan

Done: the core with its abstract specifications and proofs, every component whose
state several processes, calls or crashes can disturb, and theorems for all safety
properties but four.

Left, in this order:

1. `RequestsAreAccountedFor`, part by part: `HttpServer` (the log of a request as a function
   of its stage), `Gateway` (a command's line precedes it), `HostHealth`, `McpServe`.
2. `RecordsAreKept`, beginning with `RecordFiles` and `EmergencyLog`.
3. A budget instead of an exception where the code loses something bounded: one block per
   overlap in `NapiChain`, one entry per overlapping save in `Vault`.
