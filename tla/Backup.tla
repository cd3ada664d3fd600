------------------------------- MODULE Backup -------------------------------
(***************************************************************************)
(* The backup commands, each run by a process of its own: create, restore  *)
(* and clean share the backup directory and the data directory, and no     *)
(* lock. A restore keeps a backup of what it replaces, moves the data out  *)
(* to a temporary directory, moves the extracted files in and undoes this  *)
(* when a move fails. A process may be killed between any two file         *)
(* operations, and a move or an extraction may fail. One restore is run at *)
(* a time, with the server stopped: nothing else writes the data.          *)
(***************************************************************************)
EXTENDS Integers, FiniteSets

CONSTANTS
  Items,        \* what an archive holds
  Excluded,     \* caches, logs and lock files: in the data, in no archive
  Procs,        \* commands, one process each
  Names,        \* archive names of one minute and tag, as createUniqueBackupFilename tries them: 1, 2, ...
  MaxFaults     \* bound on failing operations

VARIABLES
  data,         \* item -> version, 0 when absent
  archive,      \* archive -> [at, content, sums, time, by]; sums is {} without a checksum file,
                \* by is history: the process that began to write it
  proc,         \* process -> its command
  faults,
  shared        \* history: archives a command chose while another one was making them

backupVars == <<data, archive, proc, faults, shared>>

All == Items \cup Excluded
Nothing == [i \in All |-> 0]
Tags == {"backup", "pre-restore"}
Archives == Tags \X Names
Source == <<"backup", 1>>       \* the archive there is at the start
Commands == {"create", "restore", "clean"}
NoArchive == [at |-> "absent", content |-> Nothing, sums |-> {}, time |-> 0, by |-> {}]
Archived(d) == [i \in All |-> IF i \in Items THEN d[i] ELSE 0]
OfVersion(v) == [i \in All |-> v]

\* A process: its command and step, the archive it makes, the one it restores, the data
\* moved out and extracted; for the properties, what it found and what it is to restore.
NewProc(c) == [cmd |-> c, at |-> "start", made |-> Source, from |-> Source,
               temp |-> Nothing, staged |-> Nothing, before |-> Nothing, goal |-> Nothing]

Init ==
  /\ data \in [All -> {0, 2}]
  /\ archive = [a \in Archives |-> IF a = Source
       THEN [at |-> "whole", content |-> Archived(OfVersion(1)), sums |-> {Archived(OfVersion(1))}, time |-> 1,
             by |-> {}]
       ELSE NoArchive]
  /\ proc \in [Procs -> {NewProc(c) : c \in Commands}]
  /\ Cardinality({p \in Procs : proc[p].cmd = "restore"}) <= 1
  /\ faults = 0 /\ shared = {}

\* getBackupArchives: what is in the backup directory, whole or not.
Listed == {a \in Archives : archive[a].at # "absent"}
\* verifyBackup: the archive can be listed and its checksum file is there and matches.
Valid(a) == archive[a].at = "whole" /\ archive[a].sums = {archive[a].content}
NewestTime == CHOOSE t \in {archive[a].time : a \in Archives} : \A a \in Archives : archive[a].time <= t
Step(p, at) == proc' = [proc EXCEPT ![p].at = at]
Fault(p, at) == faults < MaxFaults /\ faults' = faults + 1 /\ Step(p, at)
Running(p) == proc[p].at \notin {"done", "failed", "undone", "stranded", "killed"}
Making == {"tar", "writing", "listing"}
TagOf(p) == IF proc[p].cmd = "restore" THEN "pre-restore" ELSE "backup"

-----------------------------------------------------------------------------
(* createBackup, for the command create and before a restore.              *)

\* createUniqueBackupFilename: the first name that does not exist, at this moment.
ChooseName(p) == \E n \in Names :
  LET a == <<TagOf(p), n>> IN
  /\ proc[p].at = IF proc[p].cmd = "restore" THEN "verified" ELSE "start"
  /\ proc[p].cmd \in {"create", "restore"}
  /\ archive[a].at = "absent" /\ \A m \in Names : m < n => archive[<<TagOf(p), m>>].at # "absent"
  /\ proc' = [proc EXCEPT ![p].at = "tar", ![p].made = a]
  /\ shared' = IF \E q \in Procs \ {p} : proc[q].at \in Making /\ proc[q].made = a
               THEN shared \cup {a} ELSE shared
  /\ UNCHANGED <<data, archive, faults>>

\* createArchive begins to write the file of that name, over another one if need be.
StartArchive(p) ==
  /\ proc[p].at = "tar" /\ Step(p, "writing")
  /\ archive' = [archive EXCEPT ![proc[p].made] =
       [at |-> "torn", content |-> Nothing, sums |-> archive[proc[p].made].sums,
        time |-> NewestTime + 1, by |-> {p}]]
  /\ UNCHANGED <<data, faults, shared>>
EndArchive(p) ==
  /\ proc[p].at = "writing" /\ archive[proc[p].made].at # "absent" /\ Step(p, "listing")
  /\ archive' = [archive EXCEPT ![proc[p].made].at = "whole", ![proc[p].made].content = Archived(data)]
  /\ UNCHANGED <<data, faults, shared>>
\* The archive is listed, hashed and given its checksum file; one that another process is
\* writing or has removed cannot be listed.
WriteChecksum(p) ==
  LET a == proc[p].made IN
  /\ proc[p].at = "listing"
  /\ IF archive[a].at = "whole"
     THEN /\ archive' = [archive EXCEPT ![a].sums = {archive[a].content}]
          /\ Step(p, IF proc[p].cmd = "restore" THEN "extract" ELSE "done")
     ELSE Step(p, "failed") /\ UNCHANGED archive
  /\ UNCHANGED <<data, faults, shared>>

-----------------------------------------------------------------------------
(* restoreBackup.                                                          *)

Verify(p) == \E a \in Listed :
  /\ proc[p].cmd = "restore" /\ proc[p].at = "start"
  /\ proc' = [proc EXCEPT ![p].at = IF Valid(a) THEN "verified" ELSE "failed", ![p].from = a]
  /\ UNCHANGED <<data, archive, faults, shared>>

\* The extraction reads the archive again; readdir then fixes what is to be moved out.
Extract(p) ==
  LET a == proc[p].from IN
  /\ proc[p].at = "extract"
  /\ \/ /\ archive[a].at = "whole"
        /\ proc' = [proc EXCEPT ![p].at = "out", ![p].staged = archive[a].content,
                                ![p].goal = archive[a].content, ![p].before = data]
        /\ UNCHANGED faults
     \/ archive[a].at # "whole" /\ Step(p, "failed") /\ UNCHANGED faults
     \/ Fault(p, "failed")
  /\ UNCHANGED <<data, archive, shared>>

\* Outside the try block: a move that fails leaves the rest where it is.
MoveOut(p) ==
  /\ proc[p].at = "out"
  /\ \/ \E i \in All :
          /\ data[i] # 0 /\ data' = [data EXCEPT ![i] = 0]
          /\ proc' = [proc EXCEPT ![p].temp[i] = data[i]]
          /\ UNCHANGED faults
     \/ data = Nothing /\ Step(p, "in") /\ UNCHANGED <<data, faults>>
     \/ data # Nothing /\ Fault(p, "stranded") /\ UNCHANGED data
  /\ UNCHANGED <<archive, shared>>

\* Inside it: a failure empties the data directory and goes to the undo.
KeptInPlace(moved) == moved
Emptied(moved) == Nothing
MoveIn(p) ==
  /\ proc[p].at = "in"
  /\ \/ \E i \in All :
          /\ proc[p].staged[i] # 0
          /\ data' = [data EXCEPT ![i] = proc[p].staged[i]]
          /\ proc' = [proc EXCEPT ![p].staged[i] = 0]
          /\ UNCHANGED faults
     \/ proc[p].staged = Nothing /\ Step(p, "cleanup") /\ UNCHANGED <<data, faults>>
     \/ proc[p].staged # Nothing /\ Fault(p, "undo") /\ data' = Emptied(data)
  /\ UNCHANGED <<archive, shared>>

\* The temporary directory is removed when all is back, and stays when a move back fails.
UndoMove(p) ==
  /\ proc[p].at = "undo"
  /\ \/ \E i \in All :
          /\ proc[p].temp[i] # 0
          /\ data' = [data EXCEPT ![i] = proc[p].temp[i]]
          /\ proc' = [proc EXCEPT ![p].temp[i] = 0]
          /\ UNCHANGED faults
     \/ proc[p].temp = Nothing /\ Step(p, "undone") /\ UNCHANGED <<data, faults>>
     \/ proc[p].temp # Nothing /\ Fault(p, "stranded") /\ UNCHANGED data
  /\ UNCHANGED <<archive, shared>>

\* The old data goes; then the archive is verified once more.
Cleanup(p) ==
  /\ proc[p].at = "cleanup"
  /\ proc' = [proc EXCEPT ![p].temp = Nothing, ![p].at = IF Valid(proc[p].from) THEN "done" ELSE "failed"]
  /\ UNCHANGED <<data, archive, faults, shared>>

-----------------------------------------------------------------------------
(* cleanBackups, and a killed process.                                     *)

\* One archive beyond the newest keep, with its checksum file; then the next.
CleanOne(p, keep) == \E a \in Listed :
  /\ proc[p].cmd = "clean" /\ proc[p].at = "start"
  /\ Cardinality({b \in Listed : archive[b].time > archive[a].time}) >= keep
  /\ archive' = [archive EXCEPT ![a] = NoArchive]
  /\ UNCHANGED <<data, proc, faults, shared>>
EndClean(p) == proc[p].cmd = "clean" /\ proc[p].at = "start" /\ Step(p, "done")
               /\ UNCHANGED <<data, archive, faults, shared>>

Kill(p) ==
  /\ Running(p) /\ proc[p].at # "start" /\ Fault(p, "killed")
  /\ UNCHANGED <<data, archive, shared>>

Next == \E p \in Procs :
  \/ ChooseName(p) \/ StartArchive(p) \/ EndArchive(p) \/ WriteChecksum(p)
  \/ Verify(p) \/ Extract(p) \/ MoveOut(p) \/ MoveIn(p) \/ UndoMove(p) \/ Cleanup(p)
  \/ (\E keep \in 1..2 : CleanOne(p, keep)) \/ EndClean(p) \/ Kill(p)

Spec == Init /\ [][Next]_backupVars
-----------------------------------------------------------------------------
(* Properties.                                                             *)

\* A restore that ends, well or with an error, leaves the data it found or the data of the
\* archive: what a failed move has begun is undone. The exception is a restore whose move
\* out fails, which is outside the try, or whose undo fails: it leaves what it found in two
\* halves, each item either in the data directory or in the temporary one, and none of the
\* archive's beside them. A restore that is killed may leave a mixture; NothingIsLost is
\* what holds of it.
RestoreIsAllOrNothing ==
  \A p \in Procs :
    /\ proc[p].at = "undone" => data = proc[p].before
    /\ proc[p].at = "stranded" => \A i \in All : {data[i], proc[p].temp[i]} = {proc[p].before[i], 0}
    /\ proc[p].cmd = "restore" /\ proc[p].at = "done" => data = proc[p].goal
    /\ proc[p].goal # Nothing /\ proc[p].at = "failed" => data \in {proc[p].before, proc[p].goal}

\* Whatever fails and wherever the restore is killed, what it found is still in the data
\* directory, in the temporary directory or in a valid pre-restore backup, as long as no
\* clean has removed that backup.
NothingIsLost ==
  \A p \in Procs, i \in Items :
    proc[p].before[i] # 0 =>
      \/ proc[p].before[i] \in {data[i], proc[p].temp[i]}
      \/ Valid(proc[p].made) /\ archive[proc[p].made].content[i] = proc[p].before[i]
      \/ archive[proc[p].made].at = "absent"

\* A backup whose creation was reported verifies, until it is cleaned, unless a command of
\* the same minute chose its name while another one was making an archive of that name.
ReportedBackupsVerify ==
  \A p \in Procs :
    proc[p].cmd = "create" /\ proc[p].at = "done" /\ p \in archive[proc[p].made].by =>
      Valid(proc[p].made) \/ proc[p].made \in shared

=============================================================================
