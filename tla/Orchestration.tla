--------------------------- MODULE Orchestration ----------------------------
(***************************************************************************)
(* OrchestrationService.generate: several calls in one process, which      *)
(* interleave at their awaits (the provider's answer, the backoff), share  *)
(* the cooldowns of ProviderPolicy.  A call resolves its provider,         *)
(* retries it, and falls back to another one.                              *)
(***************************************************************************)
EXTENDS Integers, FiniteSets

CONSTANTS
  Calls,
  Providers,   \* the configured providers
  Default,     \* defaultProvider
  Fallback,    \* fallbackProvider, which may be none of the configured ones
  Requested,   \* what input.provider may name; "auto" among them
  MaxRetries,
  Cooldown,    \* providerCooldownMs, in ticks
  MaxTime      \* bound on the clock

VARIABLES
  cooldownUntil,  \* ProviderPolicy; 0 when there is no entry
  safeMode,       \* MEMPHIS_SAFE_MODE of the process
  call,           \* each call: its stage, provider, attempt, and its primary if it resolved
  time,
  tried,          \* history: attempts of each call on each provider
  final           \* history: providers whose last answer to the call was not to be retried

vars == <<cooldownUntil, safeMode, call, time, tried, final>>

NewCall == [stage |-> "new", provider |-> Default, attempt |-> 0, primary |-> {}]
Running == {"calling", "backoff"}
Ended == {"done", "failed", "refused"}

Init ==
  /\ cooldownUntil = [p \in Providers |-> 0]
  /\ safeMode \in BOOLEAN
  /\ call = [c \in Calls |-> NewCall]
  /\ time = 0
  /\ tried = [c \in Calls |-> [p \in Providers |-> 0]]
  /\ final = [c \in Calls |-> {}]

InCooldown(p) == time < cooldownUntil[p]
MarkFailure(p) == cooldownUntil' = [cooldownUntil EXCEPT ![p] = time + Cooldown]
MarkSuccess(p) == cooldownUntil' = [cooldownUntil EXCEPT ![p] = 0]

Stage(c, s) == call' = [call EXCEPT ![c].stage = s]
\* tryGenerateWithRetry from its first attempt.
Try(c, p, primary) ==
  /\ call' = [call EXCEPT ![c] =
       [stage |-> "calling", provider |-> p, attempt |-> 0, primary |-> primary]]
  /\ tried' = [tried EXCEPT ![c][p] = @ + 1]

\* The catch of generate: the fallback, if there is one and it is not the primary.
\* Nothing asks whether it is in cooldown.
FallBack(c, primary) ==
  IF Fallback \in Providers \ primary
  THEN Try(c, Fallback, primary)
  ELSE Stage(c, "failed") /\ UNCHANGED tried

\* pickAutoProvider, any order of the average latencies.
Picks(strategy) ==
  LET available == {p \in Providers : ~ InCooldown(p)} IN
    IF strategy = "default" \/ available = {} THEN {Default} ELSE available
Candidates(requested, strategy) ==
  IF requested = "auto" THEN Picks(strategy) ELSE {requested}
Resolves(p) == p \in Providers /\ ~ InCooldown(p)

Refuse(c) ==
  /\ call[c].stage = "new" /\ safeMode
  /\ Stage(c, "refused")
  /\ UNCHANGED <<cooldownUntil, safeMode, time, tried, final>>

Resolve(c, requested, strategy) ==
  /\ call[c].stage = "new" /\ ~ safeMode
  /\ \E p \in Candidates(requested, strategy) :
       IF Resolves(p) THEN Try(c, p, {p}) ELSE FallBack(c, {})
  /\ UNCHANGED <<cooldownUntil, safeMode, time, final>>

Succeed(c) ==
  /\ call[c].stage = "calling"
  /\ MarkSuccess(call[c].provider) /\ Stage(c, "done")
  /\ UNCHANGED <<safeMode, time, tried, final>>

MayRetryOnceMore(c, retryable) == retryable /\ call[c].attempt <= MaxRetries
MayRetry(c, retryable) == retryable /\ call[c].attempt < MaxRetries

\* An attempt fails.  The first provider's last failure is followed by the fallback.
Fail(c, retryable) ==
  LET p == call[c].provider IN
  /\ call[c].stage = "calling"
  /\ MarkFailure(p)
  /\ final' = IF retryable THEN final ELSE [final EXCEPT ![c] = @ \cup {p}]
  /\ IF MayRetry(c, retryable)
     THEN Stage(c, "backoff") /\ UNCHANGED tried
     ELSE IF call[c].primary = {p} THEN FallBack(c, {p})
     ELSE Stage(c, "failed") /\ UNCHANGED tried
  /\ UNCHANGED <<safeMode, time>>

\* The end of the backoff, and the next attempt on the same provider.
Retry(c) ==
  /\ call[c].stage = "backoff"
  /\ call' = [call EXCEPT ![c].stage = "calling", ![c].attempt = @ + 1]
  /\ tried' = [tried EXCEPT ![c][call[c].provider] = @ + 1]
  /\ UNCHANGED <<cooldownUntil, safeMode, time, final>>

Tick ==
  /\ time < MaxTime /\ time' = time + 1
  /\ UNCHANGED <<cooldownUntil, safeMode, call, tried, final>>

Answer(c) == Succeed(c) \/ Fail(c, TRUE) \/ Fail(c, FALSE)
Start(c) == Refuse(c) \/ \E q \in Requested, s \in {"default", "latency-aware"} : Resolve(c, q, s)

Next == Tick \/ \E c \in Calls : Start(c) \/ Answer(c) \/ Retry(c)

\* Each client aborts its request at a timeout, and a timer fires.
Fairness == \A c \in Calls : WF_vars(Answer(c)) /\ WF_vars(Retry(c))

Spec == Init /\ [][Next]_vars /\ Fairness

-----------------------------------------------------------------------------
(* Properties.                                                             *)

UsedUp(c, p) == tried[c][p] = MaxRetries + 1 \/ p \in final[c]

\* A call does not give up early, and does not go on for ever: when it fails, every
\* provider it turned to has refused it for good or has had all its attempts, and the
\* fallback is among them if it is configured.
NoPrematureFailure ==
  \A c \in Calls : call[c].stage = "failed" =>
    /\ \A p \in Providers : tried[c][p] > 0 => UsedUp(c, p)
    /\ Fallback \in Providers => tried[c][Fallback] > 0

\* No provider is asked more often than once and MaxRetries times for a call, the
\* fallback that is also the default included, and at most two providers are asked.
RetryBudget ==
  \A c \in Calls :
    /\ \A p \in Providers : tried[c][p] <= MaxRetries + 1
    /\ Cardinality({p \in Providers : tried[c][p] > 0}) <= 2

\* Every call that was started ends, whatever the providers answer.
IsRunning(c) == call[c].stage \in Running
HasEnded(c) == call[c].stage \in Ended
EveryCallEnds == \A c \in Calls : IsRunning(c) ~> HasEnded(c)

=============================================================================
