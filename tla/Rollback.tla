------------------------------ MODULE Rollback ------------------------------
(***************************************************************************)
(* RollbackManager: snapshots of the chain files and the configuration,    *)
(* named after the millisecond they were taken in, and rollback to one.    *)
(* A rollback first takes a snapshot of the current state, then writes the *)
(* files one by one; when a write fails, it rolls back to that snapshot,   *)
(* which may fail in turn.  One operation at a time; a crash leaves the    *)
(* files as they are.                                                      *)
(***************************************************************************)
EXTENDS Integers, Sequences, FiniteSets, SequencesExt

CONSTANTS
  Files,       \* the chain files and "config"
  Versions,    \* contents of a file
  Gone,        \* no such file
  Torn,        \* what an interrupted write leaves
  MaxTime, MaxFaults, MaxEdits   \* bounds

VARIABLES
  disk,        \* file -> contents
  snaps,       \* time of the snapshot -> what it holds, whether its file can be read
  frames,      \* the rollback in progress, and the ones its error path began
  now,
  faults, edits,
  before,      \* history: the files when the outermost rollback began, or last began
  outcome,     \* history: how the last operation ended
  clean        \* history: every snapshot holds every file and none overwrote another

vars == <<disk, snaps, frames, now, faults, edits, before, outcome, clean>>

Times == 0..MaxTime
NoSnapshot == [holds |-> [f \in Files |-> Gone], file |-> "none"]

Init ==
  /\ \E v \in Versions \cup {Gone} : disk = [f \in Files |-> v]
  /\ snaps = [t \in Times |-> NoSnapshot]
  /\ frames = <<>> /\ now = 0 /\ faults = 0 /\ edits = 0
  /\ before = disk /\ outcome = "none" /\ clean = TRUE

Idle == frames = <<>>
Top == frames[1]
Fault == faults < MaxFaults /\ faults' = faults + 1
Read(t) == snaps[t].file = "whole"      \* it parses, and the checksum matches

\* backupChains swallows an error and keeps what it has read so far; a configuration
\* that cannot be read counts as none.
Readable == {disk} \cup {[disk EXCEPT ![f] = Gone] : f \in Files}
Take(contents) ==
  /\ snaps' = [snaps EXCEPT ![now] = [holds |-> contents, file |-> "whole"]]
  /\ clean' = (clean /\ contents = disk /\ snaps[now].file = "none")
TakeSnapshot ==
  \/ Take(disk) /\ UNCHANGED faults
  \/ Fault /\ \E contents \in Readable \ {disk} : Take(contents)

CreateSnapshot ==
  /\ Idle /\ TakeSnapshot /\ outcome' = "none"
  /\ UNCHANGED <<disk, frames, now, edits, before>>

\* The process dies while it writes the snapshot file, before a rollback or without one.
TearSnapshot ==
  /\ Idle /\ Fault
  /\ snaps' = [snaps EXCEPT ![now] = [NoSnapshot EXCEPT !.file = "torn"]]
  /\ clean' = (clean /\ snaps[now].file = "none")
  /\ outcome' = "none"
  /\ UNCHANGED <<disk, frames, now, edits, before>>

\* rollback(t): the snapshot is loaded, and atomicRestore takes its own.
Held(t) == {f \in Files : snaps[t].holds[f] # Gone}
FrameUndoneToItself(t) == [from |-> snaps[t].holds, todo |-> Held(t), temp |-> t]
Frame(t) == [from |-> snaps[t].holds, todo |-> Held(t), temp |-> now]
Begin(t) ==
  /\ Idle /\ Read(t)
  /\ TakeSnapshot
  /\ frames' = <<Frame(t)>> /\ before' = disk /\ outcome' = "running"
  /\ UNCHANGED <<disk, now, edits>>

\* listSnapshots gives up on a file that it cannot parse.
Latest == CHOOSE t \in Times : snaps[t].file # "none" /\
            \A u \in Times : snaps[u].file # "none" => u <= t
AutoRollback ==
  /\ \E t \in Times : snaps[t].file # "none"
  /\ \A t \in Times : snaps[t].file # "torn"
  /\ Begin(Latest)

\* The chains in the order of the snapshot, then the configuration.
Next1(f) == f \in Top.todo /\ (f = "config" => Top.todo = {"config"})
WriteOne(f) ==
  /\ ~ Idle /\ Next1(f)
  /\ disk' = [disk EXCEPT ![f] = Top.from[f]]
  /\ frames' = [frames EXCEPT ![1].todo = @ \ {f}]
  /\ UNCHANGED <<snaps, now, faults, edits, before, outcome, clean>>

\* A write fails: rollback(tempBackup), which takes another snapshot and restores.
WriteFails(f) ==
  /\ ~ Idle /\ Next1(f) /\ Fault
  /\ LET t == Top.temp IN
       /\ disk' = [disk EXCEPT ![f] = Torn]
       /\ snaps' = [snaps EXCEPT ![now] = [holds |-> disk', file |-> "whole"]]
       /\ frames' = <<Frame(t)>> \o frames
       /\ clean' = (clean /\ snaps[now].file = "none")
  /\ UNCHANGED <<now, edits, before, outcome>>

\* The innermost restore is complete, and the ones around it throw.  A second failure
\* rolls back to a snapshot of the files that the first one left.
Finish ==
  /\ ~ Idle /\ Top.todo = {}
  /\ frames' = <<>>
  /\ outcome' = CASE Len(frames) = 1 -> "restored" [] Len(frames) = 2 -> "undone" [] OTHER -> "lost"
  /\ UNCHANGED <<disk, snaps, now, faults, edits, before, clean>>

Crash ==
  /\ ~ Idle /\ Fault
  /\ \/ UNCHANGED disk
     \/ \E f \in Files : Next1(f) /\ disk' = [disk EXCEPT ![f] = Torn]
  /\ frames' = <<>> /\ outcome' = "dead"
  /\ UNCHANGED <<snaps, now, edits, before, clean>>

\* Between operations the program writes its files.
Edit(f, v) ==
  /\ Idle /\ edits < MaxEdits /\ disk[f] # v
  /\ disk' = [disk EXCEPT ![f] = v]
  /\ edits' = edits + 1 /\ outcome' = "none"
  /\ UNCHANGED <<snaps, frames, now, faults, before, clean>>

Tick ==
  /\ now < MaxTime /\ now' = now + 1
  /\ UNCHANGED <<disk, snaps, frames, faults, edits, before, outcome, clean>>

Next ==
  \/ CreateSnapshot \/ TearSnapshot \/ AutoRollback \/ Finish \/ Crash \/ Tick
  \/ \E t \in Times : Begin(t)
  \/ \E f \in Files : WriteOne(f) \/ WriteFails(f)
  \/ \E f \in Files, v \in Versions \cup {Gone} : Edit(f, v)

Spec == Init /\ [][Next]_vars

-----------------------------------------------------------------------------
(* Properties, of a state or, where a prime occurs, of a step.             *)

Existed == {f \in Files : before[f] # Gone}

\* A rollback that fails once and undoes itself puts back every file that there was when
\* it began.  Not the files that it created; and not when a snapshot is partial, or
\* overwrites another one taken in the same millisecond.
FailureIsUndone ==
  outcome = "undone" /\ clean => \A f \in Existed : disk[f] = before[f]

\* While a rollback overwrites files, and after it, in whatever way it ended, some
\* snapshot that can be read holds what every file held before.
PreviousStateIsSaved ==
  clean /\ (~ Idle \/ outcome \in {"restored", "undone", "lost", "dead"}) =>
    \E t \in Times : Read(t) /\ \A f \in Existed : snaps[t].holds[f] = before[f]

\* What a snapshot holds does not change, unless it is overwritten in its millisecond.
SnapshotsStand == \A t \in Times : Read(t) /\ clean' => snaps'[t] = snaps[t]

=============================================================================
