----------------------------- MODULE LoopEngine -----------------------------
(***************************************************************************)
(* The limits of an agent loop, implemented three times: LoopState::apply  *)
(* of the crate, and the two TypeScript functions that stand in for it     *)
(* when the bridge does not answer, one in the task executor and one in    *)
(* the MCP tool.  The caller keeps the state, so an engine may take over   *)
(* from another at any step.                                               *)
(***************************************************************************)
EXTENDS Integers

CONSTANTS
  Durations,   \* what a wait may ask for; negative in the schema of the MCP tool, too
  MaxSteps, MaxToolCalls, MaxWait, MaxErrors   \* LoopLimits

VARIABLES
  loop,        \* the LoopState of a loop driven by each engine
  applied      \* whether each engine applied the last action

loopVars == <<loop, applied>>

Engines == {"crate", "executor", "tool"}
NewLoop == [steps |-> 0, tool_calls |-> 0, wait_ms |-> 0, errors |-> 0,
            completed |-> FALSE, halt |-> "none"]
Actions == [type : {"tool_call", "complete"}]
           \cup [type : {"wait"}, ms : Durations]
           \cup [type : {"error"}, recoverable : BOOLEAN]

Init ==
  /\ loop = [e \in Engines |-> NewLoop]
  /\ applied = [e \in Engines |-> TRUE]

Halted(s) == s.completed \/ s.halt # "none"
AtLeast(n, m) == IF n > m THEN n ELSE m

Counted(s) == [s EXCEPT !.steps = @ + 1]

Refused(s, why) == [s EXCEPT !.halt = why]

\* What the three do with an action once the step is counted; the executor truncates a
\* negative duration to none.
Toll(e, a) == IF e = "executor" THEN AtLeast(0, a.ms) ELSE a.ms
Charged(e, s, a) ==
  CASE a.type = "tool_call" -> [s EXCEPT !.tool_calls = @ + 1]
    [] a.type = "wait" -> [s EXCEPT !.wait_ms = @ + Toll(e, a)]
    [] a.type = "error" -> [s EXCEPT !.errors = @ + 1]
    [] a.type = "complete" -> [s EXCEPT !.completed = TRUE]
Exceeded(s) ==
  IF s.tool_calls > MaxToolCalls THEN "max_tool_calls_exceeded"
  ELSE IF s.wait_ms > MaxWait THEN "max_wait_exceeded"
  ELSE IF s.errors > MaxErrors THEN "max_errors_exceeded"
  ELSE "none"
Ended(s, a) ==
  IF a.type = "error" /\ ~ a.recoverable
  THEN [s EXCEPT !.completed = TRUE, !.halt = "non_recoverable_error"] ELSE s

\* The new state, and whether the action was applied.
StepOf(e, s, a) ==
  LET n == Counted(s)  c == Charged(e, n, a) IN
    IF n.steps > MaxSteps THEN [state |-> Refused(n, "max_steps_exceeded"), ok |-> FALSE]
    ELSE IF Exceeded(c) # "none" THEN [state |-> Refused(c, Exceeded(c)), ok |-> FALSE]
    ELSE [state |-> Ended(c, a), ok |-> TRUE]

\* soul_loop_step cannot parse a negative duration.
Readable(a) == a.type = "wait" => a.ms >= 0
CrateStep(s, a) ==
  IF ~ Readable(a) \/ Halted(s) THEN [state |-> s, ok |-> FALSE] ELSE StepOf("crate", s, a)
ToolStep(s, a) ==
  IF Halted(s) THEN [state |-> s, ok |-> FALSE] ELSE StepOf("tool", s, a)
\* applyFallbackLoopStep counts the step before it asks whether the loop has halted.
ExecutorStep(s, a) ==
  IF Halted(s) THEN [state |-> Counted(s), ok |-> FALSE] ELSE StepOf("executor", s, a)

Step(e, s, a) ==
  CASE e = "crate" -> CrateStep(s, a)
    [] e = "tool" -> ToolStep(s, a)
    [] e = "executor" -> ExecutorStep(s, a)

Apply(a) ==
  /\ \A e \in Engines : loop[e].steps <= MaxSteps + 1
  /\ loop' = [e \in Engines |-> Step(e, loop[e], a).state]
  /\ applied' = [e \in Engines |-> Step(e, loop[e], a).ok]

Next == \E a \in Actions : Apply(a)

Spec == Init /\ [][Next]_loopVars

-----------------------------------------------------------------------------
(* Properties, of a state or, where a prime occurs, of a step.             *)

\* "Pure-TS fallback that mirrors the Rust LoopEngine logic": the engines agree on
\* every action and on the state, except for the steps that the executor counts after
\* the halt; so it does not matter which of them answers when, as long as no duration
\* is negative.
EnginesAgree ==
  \A d, e \in Engines :
    /\ applied[d] = applied[e]
    /\ [loop[d] EXCEPT !.steps = 0] = [loop[e] EXCEPT !.steps = 0]
    /\ ~ Halted(loop[d]) => loop[d] = loop[e]

\* No action is applied to a loop that has halted, and nothing revives it.
HaltIsFinal ==
  \A e \in Engines : Halted(loop[e]) =>
    ~ applied'[e] /\ [loop'[e] EXCEPT !.steps = 0] = [loop[e] EXCEPT !.steps = 0]

\* A loop that goes on is within every limit; a counter passes its limit by one action.
LimitsHold ==
  \A e \in Engines :
    LET s == loop[e]
        within == /\ s.steps <= MaxSteps /\ s.tool_calls <= MaxToolCalls
                  /\ s.wait_ms <= MaxWait /\ s.errors <= MaxErrors
    IN ~ within => Halted(s)

=============================================================================
