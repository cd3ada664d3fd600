----------------------------- MODULE ImportJson -----------------------------
(***************************************************************************)
(* `memphis chain import_json` and `chain rebuild`: a file of blocks is    *)
(* normalized, deduplicated by hash, renumbered and relinked, and written  *)
(* with a temporary file, a backup and a rename; the index of the data     *)
(* directory is rebuilt from the files in it.  Every command is a process. *)
(***************************************************************************)
EXTENDS Integers, Sequences, FiniteSets, SequencesExt

CONSTANTS
  Procs,
  Payloads,      \* candidate lists: [hash, index, prev], each possibly None
  None,          \* not in the file, not an object, no such file
  Huge,          \* an index of so many digits that Number gives Infinity
  Genesis,       \* GENESIS_PREV_HASH
  Torn,          \* what an interrupted write leaves
  MaxKills       \* bound on killed commands

VARIABLES
  target, temp, backup,   \* the file written, <target>.tmp, <target>.bak
  index,                  \* chain-indexes.json
  proc,                   \* process -> stage and blocks to write
  kills,
  overlapped              \* history: two imports wrote at the same time

vars == <<target, temp, backup, index, proc, kills, overlapped>>

Idle == [stage |-> "idle", blocks |-> <<>>]

Init ==
  /\ target = None /\ temp = None /\ backup = None /\ index = None
  /\ proc = [p \in Procs |-> Idle]
  /\ kills = 0 /\ overlapped = FALSE

\* normalizeCandidate: without a hash a candidate is dropped; the defaults of the rest.
Normal(payload) ==
  LET at(i) == [hash  |-> payload[i].hash,
                index |-> IF payload[i].index = None THEN i - 1 ELSE payload[i].index,
                prev  |-> IF payload[i].prev = None THEN Genesis ELSE payload[i].prev]
  IN SelectSeq([i \in DOMAIN payload |-> at(i)], LAMBDA b : b.hash # None)

\* The first block with a hash stays.
FirstOf(blocks, i) == \A j \in 1..(i - 1) : blocks[j].hash # blocks[i].hash
Dedupe(blocks) ==
  LET kept == {i \in DOMAIN blocks : FirstOf(blocks, i)}
  IN [k \in 1..Cardinality(kept) |-> blocks[SetToSortSeq(kept, <)[k]]]

\* The second pass.  A block with an infinite index is skipped, and the next one then
\* looks for a predecessor that is not there: the command throws.
Throws(deduped) == \E i \in 1..(Len(deduped) - 1) : deduped[i].index = Huge
Placed(b, i, before) == [b EXCEPT !.index = i - 1,
                                  !.prev = IF i = 1 THEN Genesis ELSE before[i - 1].hash]
PlacedByIndex(b, i, before) == [b EXCEPT !.prev = IF i = 1 THEN Genesis ELSE before[i - 1].hash]
Place(b, i, before) == Placed(b, i, before)
Reconcile(deduped) ==
  LET finite == SelectSeq(deduped, LAMBDA b : b.index # Huge)
  IN [i \in DOMAIN finite |-> Place(finite[i], i, finite)]
Imported(payload) == Reconcile(Dedupe(Normal(payload)))
\* The report's verdict; it does not decide whether the blocks are written.
Valid(payload) ==
  /\ \A i \in DOMAIN payload : payload[i].hash # None
  /\ \A i \in DOMAIN Imported(payload) :
       Imported(payload)[i].prev = Dedupe(Normal(payload))[i].prev

Writing(p) == proc[p].stage \in {"temp", "backup", "rename"}
Import(p, payload) ==
  /\ proc[p] = Idle /\ ~ Throws(Dedupe(Normal(payload)))
  /\ proc' = [proc EXCEPT ![p] = [stage |-> "temp", blocks |-> Imported(payload)]]
  /\ temp' = Torn
  /\ overlapped' = (overlapped \/ \E q \in Procs : Writing(q))
  /\ UNCHANGED <<target, backup, index, kills>>

\* transactionalWriteBlocks.
WriteTemp(p) ==
  /\ proc[p].stage = "temp"
  /\ temp' = proc[p].blocks
  /\ proc' = [proc EXCEPT ![p].stage = IF target = None THEN "rename" ELSE "backup"]
  /\ backup' = IF target = None THEN backup ELSE Torn
  /\ UNCHANGED <<target, index, kills, overlapped>>
CopyBackup(p) ==
  /\ proc[p].stage = "backup"
  /\ backup' = target /\ proc' = [proc EXCEPT ![p].stage = "rename"]
  /\ UNCHANGED <<target, temp, index, kills, overlapped>>
\* A rename that fails (another import took the file away) removes the temporary file; it
\* puts the backup back when there is no target.
Rename(p) ==
  /\ proc[p].stage = "rename"
  /\ target' = IF temp # None THEN temp ELSE IF target = None THEN backup ELSE target
  /\ temp' = None
  /\ proc' = [proc EXCEPT ![p] = Idle]
  /\ UNCHANGED <<backup, index, kills, overlapped>>

Kill(p) ==
  /\ proc[p] # Idle /\ kills < MaxKills
  /\ kills' = kills + 1 /\ proc' = [proc EXCEPT ![p] = Idle]
  /\ index' = IF proc[p].stage = "indexing" THEN Torn ELSE index
  /\ UNCHANGED <<target, temp, backup, overlapped>>

\* rebuildChainIndexes: a file that cannot be parsed gives no entries; the entries of the
\* one chain here are sorted by their index.
Entries(file) ==
  IF file \in {None, Torn} THEN <<>> ELSE SortSeq(file, LAMBDA a, b : a.index < b.index)
BeginRebuild(p) ==
  /\ proc[p] = Idle
  /\ proc' = [proc EXCEPT ![p] = [stage |-> "indexing", blocks |-> Entries(target)]]
  /\ UNCHANGED <<target, temp, backup, index, kills, overlapped>>
WriteIndex(p) ==
  /\ proc[p].stage = "indexing"
  /\ index' = proc[p].blocks
  /\ proc' = [proc EXCEPT ![p] = Idle]
  /\ UNCHANGED <<target, temp, backup, kills, overlapped>>

Next ==
  \E p \in Procs :
    \/ WriteTemp(p) \/ CopyBackup(p) \/ Rename(p) \/ Kill(p) \/ BeginRebuild(p) \/ WriteIndex(p)
    \/ \E payload \in Payloads : Import(p, payload)

Spec == Init /\ [][Next]_vars

-----------------------------------------------------------------------------
(* Properties.                                                             *)

Whole(file) == file \notin {None, Torn}
Linked(blocks) ==
  /\ IsInjective([i \in DOMAIN blocks |-> blocks[i].hash])
  /\ \A i \in DOMAIN blocks : blocks[i].prev = IF i = 1 THEN Genesis ELSE blocks[i - 1].hash

\* Whatever was imported, the target and the index that was built from it are chains: no
\* hash twice, every block points to the one before it; and importing them again gives
\* the same blocks and finds nothing to complain of.
ImportsAreChains ==
  /\ Whole(target) => Linked(target) /\ Imported(target) = target /\ Valid(target)
  /\ Whole(index) => Linked(index)

\* Unless two imports overlap, the target is never torn: killed at any point, a command
\* leaves the old blocks or the new ones in it.
TargetIsWhole == overlapped \/ target # Torn
=============================================================================
