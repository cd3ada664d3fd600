---------------------------- MODULE EmergencyLog ----------------------------
(***************************************************************************)
(* Where a security-critical event goes: the chain, else syslog, else the  *)
(* emergency log, which also takes the alerts whose delivery failed. A     *)
(* writer of the log looks for the first candidate it can write, rotating  *)
(* what has grown too long, and appends its line. Every process writes to  *)
(* the same files, and none takes a lock.                                  *)
(***************************************************************************)
EXTENDS Integers, Sequences, FiniteSets, SequencesExt

CONSTANTS
  Procs,
  Candidates,          \* number of candidate paths, in their order
  Keep,                \* EMERGENCY_ROTATE_KEEP
  MaxLines,            \* lines that EMERGENCY_MAX_BYTES hold
  Absent,              \* no such file
  MaxEvents, MaxFaults \* bounds

VARIABLES
  file,                \* candidate -> 0 for the log, 1..Keep for its rotations -> lines
  proc,                \* process -> its step, its candidate, the rotation it moves
  events, faults,
  rotations,           \* history: candidate -> rotations begun
  written,             \* history: line -> its candidate and the rotations that spare it
  mixed                \* history: candidates on which two rotations overlapped

vars == <<file, proc, events, faults, rotations, written, mixed>>

Paths == 1..Candidates
Idle == [step |-> "idle", at |-> 1, moving |-> 0]
Init ==
  /\ file = [c \in Paths |-> [i \in 0..Keep |-> Absent]]
  /\ proc = [p \in Procs |-> Idle]
  /\ events = 0 /\ faults = 0
  /\ rotations = [c \in Paths |-> 0] /\ written = <<>> /\ mixed = {}

Rotating(c) == {p \in Procs : proc[p].step \in {"look", "move"} /\ proc[p].at = c}
Fault == faults < MaxFaults /\ faults' = faults + 1
Goes(p, step) == proc' = [proc EXCEPT ![p].step = step]

\* writeSecurityCriticalEvent starts with the chain, a failed alert with the log.
Report(p) ==
  /\ proc[p] = Idle /\ events < MaxEvents
  /\ events' = events + 1
  /\ Goes(p, "chain") \/ Goes(p, "check")
  /\ UNCHANGED <<file, faults, rotations, written, mixed>>
\* appendBlock and the logger command: either may refuse.
ChainOrSyslog(p) ==
  /\ \/ proc[p].step = "chain" /\ Goes(p, "syslog")
     \/ proc[p].step = "syslog" /\ Goes(p, "check")
     \/ proc[p].step \in {"chain", "syslog"} /\ Goes(p, "idle")
  /\ UNCHANGED <<file, events, faults, rotations, written, mixed>>

\* canWriteEmergencyLog caught an error: the next candidate, or none at all.
NextCandidate(p) ==
  proc' = [proc EXCEPT ![p] =
    IF @.at < Candidates THEN [Idle EXCEPT !.step = "check", !.at = proc[p].at + 1] ELSE Idle]
\* No permission, no space: the append itself is not caught and ends the report.
Refused(p) ==
  /\ Fault
  /\ \/ proc[p].step = "check" /\ NextCandidate(p)
     \/ proc[p].step = "append" /\ proc' = [proc EXCEPT ![p] = Idle]
  /\ UNCHANGED <<file, events, rotations, written, mixed>>

\* A file that is not too long is created when there is none, a longer one is rotated.
TooLong(c) == file[c][0] # Absent /\ Len(file[c][0]) > MaxLines
LinesOf(c, i) == IF file[c][i] = Absent THEN <<>> ELSE file[c][i]
CanWriteEmergencyLog(p) ==
  LET c == proc[p].at IN
  /\ proc[p].step = "check"
  /\ IF TooLong(c)
     THEN /\ proc' = [proc EXCEPT ![p].step = "look", ![p].moving = Keep - 1]
          /\ rotations' = [rotations EXCEPT ![c] = @ + 1]
          /\ mixed' = IF Rotating(c) # {} THEN mixed \cup {c} ELSE mixed
          /\ UNCHANGED file
     ELSE /\ file' = [file EXCEPT ![c][0] = LinesOf(c, 0)] /\ Goes(p, "append")
          /\ UNCHANGED <<rotations, mixed>>
  /\ UNCHANGED <<events, faults, written>>

\* rotateFile goes from the oldest to the log itself. An older file is looked for before it
\* is renamed, the log is not: a rename fails when another rotation was faster.
Look(p) ==
  LET i == proc[p].moving IN
  /\ proc[p].step = "look"
  /\ IF i = 0 \/ file[proc[p].at][i] # Absent THEN Goes(p, "move")
     ELSE proc' = [proc EXCEPT ![p].moving = i - 1]
  /\ UNCHANGED <<file, events, faults, rotations, written, mixed>>
ShiftedToLast(c, i) == [file EXCEPT ![c][i] = Absent, ![c][Keep] = file[c][i]]
Shifted(c, i) == [file EXCEPT ![c][i] = Absent, ![c][i + 1] = file[c][i]]
Move(p) ==
  LET c == proc[p].at
      i == proc[p].moving
  IN
  /\ proc[p].step = "move"
  /\ IF file[c][i] = Absent THEN NextCandidate(p) /\ UNCHANGED file
     ELSE IF i = 0 THEN file' = [Shifted(c, i) EXCEPT ![c][0] = <<>>] /\ Goes(p, "append")
     ELSE /\ file' = Shifted(c, i)
          /\ proc' = [proc EXCEPT ![p].step = "look", ![p].moving = i - 1]
  /\ UNCHANGED <<events, faults, rotations, written, mixed>>

\* appendFileSync, to whatever file has the name by now.
AppendLine(p) ==
  LET c == proc[p].at IN
  /\ proc[p].step = "append"
  /\ file' = [file EXCEPT ![c][0] = Append(LinesOf(c, 0), Len(written) + 1)]
  /\ written' = Append(written,
       [at |-> c, spared |-> rotations[c] - Cardinality(Rotating(c)) + Keep])
  /\ proc' = [proc EXCEPT ![p] = Idle]
  /\ UNCHANGED <<events, faults, rotations, mixed>>

Kill(p) ==
  /\ proc[p] # Idle /\ Fault
  /\ proc' = [proc EXCEPT ![p] = Idle]
  /\ UNCHANGED <<file, events, rotations, written, mixed>>

Next ==
  \E p \in Procs :
    Report(p) \/ ChainOrSyslog(p) \/ Refused(p) \/ CanWriteEmergencyLog(p) \/ Look(p)
      \/ Move(p) \/ AppendLine(p) \/ Kill(p)

Spec == Init /\ [][Next]_vars

-----------------------------------------------------------------------------
(* Properties.                                                             *)

\* The lines of a candidate, the oldest file first.
Kept(c) == FoldLeft(LAMBDA sum, i : LinesOf(c, i) \o sum, <<>>, [i \in 1..(Keep + 1) |-> i - 1])

\* Unless two processes rotated the same log at once, a line that was written stays until
\* Keep rotations more have begun, and the files have their lines in the order of writing.
LinesAreKept ==
  \A c \in Paths \ mixed :
    /\ \A n \in DOMAIN written :
         written[n].at = c /\ rotations[c] <= written[n].spared => n \in ToSet(Kept(c))
    /\ \A i, j \in DOMAIN Kept(c) : i < j => Kept(c)[i] < Kept(c)[j]
=============================================================================
