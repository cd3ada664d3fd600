---------------------------- MODULE RateLimiter -----------------------------
(***************************************************************************)
(* The fixed-window limiter of the HTTP server and the gateway, for one    *)
(* key: the window opens with the first request after the last window.     *)
(***************************************************************************)
EXTENDS Integers

CONSTANTS
  MaxRequests,
  WindowMs,    \* in ticks
  MaxTime, MaxPerTick   \* bounds on the clock and on the requests of one tick

VARIABLES
  bucket,      \* count and resetAt; resetAt is 0 when there is no bucket
  now,
  accepted,    \* history: requests let through up to each time, that time included
  unfair       \* history: a request was refused though fewer than MaxRequests had passed

limiterVars == <<bucket, now, accepted, unfair>>

Init ==
  /\ bucket = [count |-> 0, resetAt |-> 0] /\ now = 0
  /\ accepted = [t \in 0..MaxTime |-> 0] /\ unfair = FALSE

\* The requests let through before and at a time, and between two.
UpTo(t) == IF t < 0 THEN 0 ELSE IF t > MaxTime THEN accepted[MaxTime] ELSE accepted[t]
Passed(from, to) == UpTo(to) - UpTo(from - 1)

Accept ==
  /\ accepted' = [t \in 0..MaxTime |-> IF t < now THEN accepted[t] ELSE accepted[t] + 1]
  /\ UNCHANGED <<now, unfair>>
NewWindow ==
  /\ now >= bucket.resetAt
  /\ bucket' = [count |-> 1, resetAt |-> now + WindowMs]
  /\ Accept
CountOne ==
  /\ now < bucket.resetAt /\ bucket.count < MaxRequests
  /\ bucket' = [bucket EXCEPT !.count = @ + 1]
  /\ Accept
Refuse ==
  /\ now < bucket.resetAt /\ bucket.count >= MaxRequests
  /\ unfair' = (unfair \/ Passed(now - WindowMs + 1, now) < MaxRequests)
  /\ UNCHANGED <<bucket, now, accepted>>

Check == \/ Passed(now, now) < MaxPerTick /\ (NewWindow \/ CountOne)
         \/ Refuse
Tick == now < MaxTime /\ now' = now + 1 /\ UNCHANGED <<bucket, accepted, unfair>>

Next == Check \/ Tick
Spec == Init /\ [][Next]_limiterVars

-----------------------------------------------------------------------------
(* Properties.                                                             *)

\* Over any interval of the length of a window, wherever it starts, at most twice
\* MaxRequests pass; and a request is refused only when MaxRequests have passed within
\* the window before it, whatever the pattern of the requests.
TwiceTheLimitAtMost ==
  \A t \in 0..MaxTime : Passed(t, t + WindowMs - 1) <= 2 * MaxRequests
RefusedOnlyAtTheLimit == ~ unfair

=============================================================================
