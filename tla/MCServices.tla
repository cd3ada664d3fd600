----------------------------- MODULE MCServices -----------------------------
(***************************************************************************)
(* The components that live in the memory of a process, or decide in a     *)
(* table or a network who may act: the tool gate, the executor and its     *)
(* loop, provider orchestration, votes, limits, alerts, the batcher and    *)
(* the native MCP transport.  As in MCFiles, `part` says which of them a   *)
(* behaviour is of, and x1, x2, ... hold that component's variables.       *)
(***************************************************************************)
EXTENDS Integers, Sequences, FiniteSets

CONSTANTS
  MaxTime,                                  \* bound on the clocks
  Requests, Tools, Operators, Gates, TTL, MaxSets,
  Runs, Executions, NoAnswer,
  Durations, MaxSteps, MaxToolCalls, MaxWait, MaxErrors,
  Calls, ProviderNames, Default, Fallback, Requested, MaxRetries, Cooldown,
  MaxRequests, WindowMs, LimiterTime, MaxPerTick,
  Events, Flushes, ReadTasks, WriteTasks, FlushCalls

\* There are finitely many executions, an execution is not the lack of an answer, durations
\* are not negative (LoopEngine says why that is asked), and a limiter admits something.
ASSUME ServicesAssumption ==
  /\ TTL \in Nat
  /\ IsFiniteSet(Executions) /\ NoAnswer \notin Executions
  /\ Durations \subseteq Nat /\ {MaxSteps, MaxToolCalls, MaxWait, MaxErrors} \subseteq Nat
  /\ MaxRetries \in Nat
  /\ {MaxRequests, WindowMs} \subseteq Nat \ {0} /\ LimiterTime \in Nat

VARIABLES part, x1, x2, x3, x4, x5, x6, x7, x8, x9, x10, x11

from3 == <<x3, x4, x5, x6, x7, x8, x9, x10, x11>>
from5 == <<x5, x6, x7, x8, x9, x10, x11>>
from6 == <<x6, x7, x8, x9, x10, x11>>
from7 == <<x7, x8, x9, x10, x11>>
from8 == <<x8, x9, x10, x11>>
from10 == <<x10, x11>>
vars == <<part, x1, x2, from3>>

\* The variables that a component leaves unused.
Free10 == x10 = 0 /\ x11 = 0
Free9 == x9 = 0 /\ Free10
Free8 == x8 = 0 /\ Free9
Free7 == x7 = 0 /\ Free8
Free6 == x6 = 0 /\ Free7
Free5 == x5 = 0 /\ Free6
Free3 == x3 = 0 /\ x4 = 0 /\ Free5

-----------------------------------------------------------------------------

Tooling == INSTANCE ToolCallApproval WITH
  row <- x1, policy <- x2, sets <- x3, gate <- x4, operator <- x5, clock <- x6,
  approvals <- x7, runs <- x8, overwritten <- x9, ungated <- x10

Executor == INSTANCE TaskExecutor WITH
  events <- x1, exec <- x2, answered <- x3, lapses <- x4

Loop == INSTANCE LoopEngine WITH loop <- x1, applied <- x2

Providers == INSTANCE Orchestration WITH
  Providers <- ProviderNames,
  cooldownUntil <- x1, safeMode <- x2, call <- x3, time <- x4, tried <- x5, final <- x6

VoterWeight == [a1 |-> 1, a2 |-> 3, a3 |-> 1]
Voting == INSTANCE CollectiveVoting WITH
  Local <- "a1", Remotes <- <<"a2", "a3">>, Weight <- VoterWeight, Threshold <- 6,
  Deadline <- 1, MaxReclosings <- 2,
  status <- x1, votes <- x2, result <- x3, broadcast <- x4, answers <- x5, now <- x6,
  executions <- x7, reclosings <- x8, reopened <- x9

Limiter == INSTANCE RateLimiter WITH
  MaxTime <- LimiterTime,
  bucket <- x1, now <- x2, accepted <- x3, unfair <- x4

Alerts == INSTANCE Alerting WITH
  Window <- 2, MaxTime <- 4, MaxEvents <- 4,
  dedup <- x1, sending <- x2, flush <- x3, clock <- x4, raised <- x5, told <- x6,
  lastBegun <- x7, early <- x8, lost <- x9

Batcher == INSTANCE QueryBatcher WITH
  MaxBatchSize <- 2,
  reads <- x1, writes <- x2, pending <- x3, active <- x4, phase <- x5, chained <- x6,
  resolved <- x7, queuedOrder <- x8, ranOrder <- x9, ended <- x10, promised <- x11

Native == INSTANCE NativeMcp WITH
  Chunks <- 3, MaxBlanks <- 2,
  mode <- x1, request <- x2, conn <- x3, answers <- x4, broken <- x5

-----------------------------------------------------------------------------

Init ==
  \/ part = "tooling" /\ Tooling!Init /\ x11 = 0
  \/ part = "executor" /\ Executor!Init /\ Free5
  \/ part = "loop" /\ Loop!Init /\ Free3
  \/ part = "providers" /\ Providers!Init /\ Free7
  \/ part = "voting" /\ Voting!Init /\ Free10
  \/ part = "limiter" /\ Limiter!Init /\ Free5
  \/ part = "alerts" /\ Alerts!Init /\ Free10
  \/ part = "batcher" /\ Batcher!Init
  \/ part = "native" /\ Native!Init /\ Free6

Next ==
  /\ UNCHANGED part
  /\ \/ part = "tooling" /\ Tooling!Next /\ UNCHANGED x11
     \/ part = "executor" /\ Executor!Next /\ UNCHANGED from5
     \/ part = "loop" /\ Loop!Next /\ UNCHANGED from3
     \/ part = "providers" /\ Providers!Next /\ UNCHANGED from7
     \/ part = "voting" /\ Voting!Next /\ UNCHANGED from10
     \/ part = "limiter" /\ Limiter!Next /\ UNCHANGED from5
     \/ part = "alerts" /\ Alerts!Next /\ UNCHANGED from10
     \/ part = "batcher" /\ Batcher!Next
     \/ part = "native" /\ Native!Next /\ UNCHANGED from6

\* Providers answer or time out and backoff timers fire; the event loop goes on, every batched
\* task ends, and what was sent over a local socket arrives.
ProviderAnswers(c) == part = "providers" /\ Providers!Answer(c) /\ UNCHANGED <<part, from7>>
BackoffEnds(c) == part = "providers" /\ Providers!Retry(c) /\ UNCHANGED <<part, from7>>
BatcherGoesOn == part = "batcher" /\ Batcher!Internal /\ UNCHANGED part
TaskEnds(t) == part = "batcher" /\ Batcher!EndTask(t) /\ UNCHANGED part
RequestArrives == part = "native" /\ Native!Arrives /\ UNCHANGED <<part, from6>>
RunEnds == part = "native" /\ (Native!Answer \/ Native!Fails) /\ UNCHANGED <<part, from6>>
Fairness ==
  /\ \A c \in Calls : WF_vars(ProviderAnswers(c)) /\ WF_vars(BackoffEnds(c))
  /\ WF_vars(BatcherGoesOn) /\ \A t \in ReadTasks \cup WriteTasks : WF_vars(TaskEnds(t))
  /\ WF_vars(RequestArrives) /\ WF_vars(RunEnds)

Spec == Init /\ [][Next]_vars /\ Fairness

-----------------------------------------------------------------------------
(* Properties.                                                             *)

\* One approval lets one call run, and each write over a state that its process had not seen
\* lets one more; a call runs only if it was approved; a stricter policy binds every server
\* started after it, across servers and operators.
ApprovalsBind ==
  part = "tooling" =>
    Tooling!OneRunPerApproval /\ Tooling!ApprovedBeforeRun /\ Tooling!PolicyBindsAfterRestart

\* However often a run is replayed, the provider answers it once, and once more at most for
\* each overlap, each search that missed the result and each answer that was not recorded;
\* no replay returns an answer of another run.
ReplaysAreExact ==
  part = "executor" =>
    Executor!OneAnswerPerRun /\ Executor!AnswersBelongToTheirRun

\* The limits hold: of a loop in either engine, of attempts and providers per call, of
\* requests per interval; and nobody is cut off before the limit is reached.
LimitsHold ==
  /\ part = "loop" => Loop!LimitsHold /\ Loop!EnginesAgree
  /\ part = "providers" => Providers!RetryBudget /\ Providers!NoPrematureFailure
  /\ part = "limiter" => Limiter!TwiceTheLimitAtMost /\ Limiter!RefusedOnlyAtTheLimit

\* What was decided stays decided: a request that was denied, used or has expired, unless a
\* process writes that saw it pending or approved; the outcome and the count of a vote that
\* was closed, also when it is closed again; a loop that has halted.
DecisionsStand ==
  [][/\ part = "tooling" => Tooling!FinalStatesStand
     /\ part = "voting" => Voting!OutcomeStands
     /\ part = "loop" => Loop!HaltIsFinal]_vars

\* What was taken on is not dropped or done twice: every alert is sent, logged or counted, and
\* once per window, unless its delivery failed and no emergency log could be written; a
\* resolved flush has ended the tasks it covers, with the writes in their order; a proposal is
\* executed when its votes approve it, and once, but for one execution more each time that
\* closeVoting was called on it after it had been executed; and a request to the native MCP
\* gateway is run and answered once, however it is split.
NothingIsDropped ==
  /\ part = "alerts" => Alerts!EveryAlertIsAccounted /\ Alerts!OneAlertPerWindow
  /\ part = "batcher" => Batcher!FlushCoversItsTasks /\ Batcher!WritesInOrder
  /\ part = "voting" => Voting!ExecutedOnceApproved
  /\ part = "native" => Native!OneAnswer

\* Every call to a provider ends, every call of flush resolves, and a valid request that `mcp`
\* itself makes is answered and its connection closed, except that a serve-once request whose
\* run the orchestration fails is left open for ever.
EverythingEnds ==
  /\ \A c \in Calls :
       part = "providers" /\ Providers!IsRunning(c) ~> part = "providers" /\ Providers!HasEnded(c)
  /\ \A f \in FlushCalls :
       part = "batcher" /\ Batcher!IsWaiting(f) ~> part = "batcher" /\ Batcher!HasResolved(f)
  /\ part = "native" /\ Native!IsAsked ~> part = "native" /\ (Native!HasEnded \/ Native!IsLeftHanging)

=============================================================================
