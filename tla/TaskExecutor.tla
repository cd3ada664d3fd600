---------------------------- MODULE TaskExecutor ----------------------------
(***************************************************************************)
(* TaskExecutor.execute with its replay dedupe.  An execution of a run     *)
(* looks in the system chain for the result an earlier one recorded,       *)
(* newest first, and asks the provider only when it finds none; the queue  *)
(* replays a run after a crash under the same run id.  An event that       *)
(* cannot be appended is dropped, and one that cannot be read is passed    *)
(* over: the execution goes on without it.  The loop step before the call  *)
(* and the one after it are LoopEngine's, which always applies them to a   *)
(* fresh state.                                                            *)
(***************************************************************************)
EXTENDS Integers, Sequences, FiniteSets

CONSTANTS
  Runs,        \* run ids given by the caller
  Executions,
  NoAnswer

VARIABLES
  events,      \* the system chain: results and errors of the runs, oldest first; the
               \* other events (created, tool_call, reused, completed) are never read back
  exec,        \* each execution: its stage, run, answer, and whether it may reuse one
  answered,    \* history: executions of each run that the provider answered
  lapses       \* history: how often an execution of each run began beside another or
               \* without looking, missed a recorded result, or left its answer unrecorded

vars == <<events, exec, answered, lapses>>

Waiting == [stage |-> "new", run |-> CHOOSE r \in Runs : TRUE, answer |-> NoAnswer,
            dedupe |-> TRUE]
Ended == {"new", "done", "failed", "dead"}

Init ==
  /\ events = <<>>
  /\ exec = [e \in Executions |-> Waiting]
  /\ answered = [r \in Runs |-> {}] /\ lapses = [r \in Runs |-> 0]

Go(e, stage) == exec' = [exec EXCEPT ![e].stage = stage]

\* emit: appendBlock, or the security audit when it throws.
Appended(e, event, answer) ==
  events' = Append(events, [event |-> event, run |-> exec[e].run, answer |-> answer])
Lapse(r) == lapses' = [lapses EXCEPT ![r] = @ + 1]
Overlaps(r) == \E e \in Executions : exec[e].stage \notin Ended /\ exec[e].run = r

\* task.created, the tool_call step and task.tool_call.
Begin(e, r, dedupe) ==
  /\ exec[e].stage = "new"
  /\ exec' = [exec EXCEPT ![e] =
       [stage |-> "begun", run |-> r, answer |-> NoAnswer, dedupe |-> dedupe]]
  /\ IF Overlaps(r) \/ ~ dedupe THEN Lapse(r) ELSE UNCHANGED lapses
  /\ UNCHANGED <<events, answered>>

\* findCachedResult: the files by descending name, the first result of the run.
RecordedByAnyRun(r) == {i \in DOMAIN events : events[i].event = "task.tool_result"}
Recorded(r) ==
  {i \in DOMAIN events : events[i].event = "task.tool_result" /\ events[i].run = r}
Newest(r) == {i \in Recorded(r) : \A j \in Recorded(r) : j <= i}

Reuse(e) ==
  /\ exec[e].stage = "begun" /\ exec[e].dedupe
  /\ \E i \in Newest(exec[e].run) :
       exec' = [exec EXCEPT ![e].stage = "complete", ![e].answer = events[i].answer]
  /\ UNCHANGED <<events, answered, lapses>>

\* The directory, or the file of an event, cannot be read or parsed: the search takes an
\* older result for the newest, or none at all.
SearchFails(e) ==
  /\ exec[e].stage = "begun" /\ exec[e].dedupe /\ Recorded(exec[e].run) # {}
  /\ \/ \E i \in Recorded(exec[e].run) \ Newest(exec[e].run) :
          exec' = [exec EXCEPT ![e].stage = "complete", ![e].answer = events[i].answer]
     \/ Go(e, "calling")
  /\ Lapse(exec[e].run)
  /\ UNCHANGED <<events, answered>>

Generate(e) ==
  /\ exec[e].stage = "begun" /\ (exec[e].dedupe => Recorded(exec[e].run) = {})
  /\ Go(e, "calling")
  /\ UNCHANGED <<events, answered, lapses>>

\* The provider answers: every answer is a new one.
Answer(e) ==
  /\ exec[e].stage = "calling"
  /\ exec' = [exec EXCEPT ![e].stage = "record", ![e].answer = e]
  /\ answered' = [answered EXCEPT ![exec[e].run] = @ \cup {e}]
  /\ UNCHANGED <<events, lapses>>

Record(e) ==
  /\ exec[e].stage = "record" /\ Go(e, "complete")
  /\ Appended(e, "task.tool_result", exec[e].answer)
  /\ UNCHANGED <<answered, lapses>>
RecordFails(e) ==
  /\ exec[e].stage = "record" /\ Go(e, "complete")
  /\ Lapse(exec[e].run)
  /\ UNCHANGED <<events, answered>>

\* The complete step, task.completed and the return.
Complete(e) ==
  /\ exec[e].stage = "complete" /\ Go(e, "done")
  /\ UNCHANGED <<events, answered, lapses>>

\* The provider fails: the error step, task.error and the throw.
Fail(e) ==
  /\ exec[e].stage = "calling" /\ Go(e, "failed")
  /\ Appended(e, "task.error", NoAnswer)
  /\ UNCHANGED <<answered, lapses>>

\* The process dies.
Kill(e) ==
  /\ exec[e].stage \notin Ended /\ Go(e, "dead")
  /\ IF exec[e].stage = "record" THEN Lapse(exec[e].run) ELSE UNCHANGED lapses
  /\ UNCHANGED <<events, answered>>

Next ==
  \E e \in Executions :
    \/ \E r \in Runs, dedupe \in BOOLEAN : Begin(e, r, dedupe)
    \/ Reuse(e) \/ SearchFails(e) \/ Generate(e) \/ Answer(e) \/ Record(e) \/ RecordFails(e)
    \/ Complete(e) \/ Fail(e) \/ Kill(e)

Spec == Init /\ [][Next]_vars

-----------------------------------------------------------------------------
(* Properties.                                                             *)

\* However often a run is replayed after a crash, a failure or a success, the provider
\* answers it once, and once more at most for each time that an execution began beside
\* another or was told not to look, did not find the result that was recorded, or could not
\* record its answer or died before it did. An answer returned by an execution is among them
\* (AnswersBelongToTheirRun): while none of that happened every replay returns the same.
OneAnswerPerRun == \A r \in Runs : Cardinality(answered[r]) <= 1 + lapses[r]

\* A reused answer is one that the provider gave to an execution of the same run.
AnswersBelongToTheirRun ==
  \A e \in Executions :
    exec[e].answer # NoAnswer => exec[e].answer \in answered[exec[e].run]

=============================================================================
