---------------------------- MODULE DurableQueue ----------------------------
(***************************************************************************)
(* What the task queue promises its callers, whatever it keeps on disk and *)
(* whoever crashes: what it has told a caller cannot be taken back.  A     *)
(* task whose enqueue returned stays held until its outcome is recorded;   *)
(* once finish returned it is never executed again.  What was not told to  *)
(* anyone yet may be lost or undone by a crash.                            *)
(***************************************************************************)
EXTENDS Naturals

CONSTANT Tasks

VARIABLES
  place,  \* "none", "held" or "settled": where the task is in the queue
  told,   \* what the queue has told the caller: "nothing", "accepted", "finished"
  runs    \* how often the task was handed to the provider

dqVars == <<place, told, runs>>

DQInit ==
  /\ place = [t \in Tasks |-> "none"]
  /\ told = [t \in Tasks |-> "nothing"]
  /\ runs = [t \in Tasks |-> 0]

Accept(t) ==
  /\ place[t] = "none" /\ told[t] = "nothing"
  /\ place' = [place EXCEPT ![t] = "held"]
  /\ UNCHANGED <<told, runs>>

\* enqueue returns, and the caller executes the task at once.
AcceptedAndRun(t) ==
  /\ place[t] = "held" /\ told[t] = "nothing"
  /\ told' = [told EXCEPT ![t] = "accepted"]
  /\ runs' = [runs EXCEPT ![t] = @ + 1]
  /\ UNCHANGED place

RunAgain(t) ==
  /\ place[t] = "held"
  /\ runs' = [runs EXCEPT ![t] = @ + 1]
  /\ UNCHANGED <<place, told>>

Settle(t) ==
  /\ place[t] = "held"
  /\ place' = [place EXCEPT ![t] = "settled"]
  /\ UNCHANGED <<told, runs>>

Finished(t) ==
  /\ place[t] = "settled"
  /\ told' = [told EXCEPT ![t] = "finished"]
  /\ UNCHANGED <<place, runs>>

\* A crash: an untold acceptance or outcome may be undone, nothing else.
Undone(t) ==
  CASE told[t] = "finished" \/ place[t] = "none" -> {place[t]}
    [] told[t] = "accepted" -> {place[t], "held"}
    [] told[t] = "nothing"  -> {place[t], "held", "none"}
Crash ==
  /\ \A t \in Tasks : place'[t] \in Undone(t)
  /\ place' \in [Tasks -> {"none", "held", "settled"}]
  /\ UNCHANGED <<told, runs>>

DQNext ==
  \/ Crash
  \/ \E t \in Tasks :
       Accept(t) \/ AcceptedAndRun(t) \/ RunAgain(t) \/ Settle(t) \/ Finished(t)

DQSpec == DQInit /\ [][DQNext]_dqVars

=============================================================================
