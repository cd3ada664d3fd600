----------------------------- MODULE HttpServer -----------------------------
(***************************************************************************)
(* One process of the HTTP server and the requests it has in flight: the   *)
(* hook that every request passes (limits, safe mode, revocation cache,    *)
(* token), its handler, the audit log and the counters.  The hook runs     *)
(* before the body arrives and handlers wait for the chain and for the     *)
(* providers, so requests interleave; the process may die at any moment.   *)
(* The dual approval routes have a module of their own, DualApproval.      *)
(***************************************************************************)
EXTENDS Integers, FiniteSets, Sequences

CONSTANTS
  Requests,
  Limits,             \* pairs: the requests of globalLimiter and of sensitiveLimiter
  Window,             \* their windowMs
  MaxStale,           \* MEMPHIS_REVOCATION_CACHE_MAX_STALE_MS
  MaxTime, MaxKills   \* bounds

VARIABLES
  env,       \* the environment the process was started with
  request,   \* request -> its stage, route, token, status, and when the hook admitted it
  buckets,   \* route, or method for the global limiter -> count, resetAt
  now,
  effects,   \* requests whose entry is in the vault file or whose block is in a chain
  audit,     \* request -> the lines it has in data/security-audit.jsonl
  counted,   \* metrics since the start: status class -> responses; denials of safe mode
  kills,
  lost       \* history: requests with a line that could not be written

vars == <<env, request, buckets, now, effects, audit, counted, kills, lost>>
auditVars == <<audit, lost>>

\* What the handler of a POST does: the statuses of a payload it refuses, and whether that
\* leaves a line; whether it changes something, writes its line before the work, writes one after it, and
\* answers 200 even when the work failed.
VaultHandler == [invalid |-> {400}, tells |-> {TRUE}, changes |-> TRUE,
                 early |-> FALSE, late |-> TRUE, tolerant |-> FALSE]
ProposalHandler == [VaultHandler EXCEPT !.early = TRUE, !.late = FALSE, !.tolerant = TRUE]
JournalHandler == [VaultHandler EXCEPT !.tells = BOOLEAN]
DecideHandler == VaultHandler
RecallHandler == [VaultHandler EXCEPT !.changes = FALSE]
\* 429 when the queue is full.
GenerateHandler == [VaultHandler EXCEPT !.invalid = {400, 429}, !.tells = {FALSE}, !.late = FALSE]
Handlers == [vault |-> VaultHandler, proposals |-> ProposalHandler, journal |-> JournalHandler,
             decide |-> DecideHandler, recall |-> RecallHandler, generate |-> GenerateHandler]
\* The GETs change nothing: two of them stand for all.
Reads == {"entries", "health"}
Routes == DOMAIN Handlers \cup Reads \cup {"preflight"}

IsSensitiveRoute == {"vault", "proposals", "generate", "entries"}
IsSafeModeAllowedRoute == {"entries", "health"}
IsRevocationFailClosedRoute == {"vault"}
IsAuthRequired == Routes \ {"health", "preflight"}
Tokens == {"right", "other"}

Environments ==
  [safeMode : BOOLEAN, tokenSet : BOOLEAN, revocation : BOOLEAN, limits : Limits]
Nowhere == [stage |-> "none", route |-> "health", token |-> "other", status |-> 0, at |-> 0]
NoBucket == [count |-> 0, resetAt |-> 0]
NoCounts == [ok |-> 0, refused |-> 0, failed |-> 0, denied |-> 0]
Init ==
  /\ env \in Environments
  /\ request = [r \in Requests |-> Nowhere]
  /\ buckets = [k \in IsSensitiveRoute \cup {"GET", "POST"} |-> NoBucket]
  /\ now = 0 /\ effects = {}
  /\ audit = [r \in Requests |-> <<>>]
  /\ counted = NoCounts /\ kills = 0 /\ lost = {}

-----------------------------------------------------------------------------
\* recordHttpRequest: the response is counted under the class of its status.
StatusClass(code) == IF code >= 500 THEN "failed" ELSE IF code >= 400 THEN "refused" ELSE "ok"
CountedWith(code) == [counted EXCEPT ![StatusClass(code)] = @ + 1]
Goes(r, stage) == request' = [request EXCEPT ![r].stage = stage]
Respond(r, code) ==
  /\ request' = [request EXCEPT ![r].stage = "answered", ![r].status = code]
  /\ counted' = CountedWith(code)
\* writeSecurityAudit: an append that fails is reported to stderr, and the request goes on.
WriteAudit(r, status) ==
  \/ audit' = [audit EXCEPT ![r] = Append(@, status)] /\ UNCHANGED lost
  \/ lost' = lost \cup {r} /\ UNCHANGED audit

Arrive(r, route, token) ==
  /\ request[r].stage = "none"
  /\ request' = [request EXCEPT ![r] = [@ EXCEPT !.stage = "new", !.route = route, !.token = token]]
  /\ UNCHANGED <<env, buckets, now, effects, auditVars, counted, kills>>

\* RateLimiter.check: the bucket after one more request, which it admits or not.
Method(r) == IF request[r].route \in Reads THEN "GET" ELSE "POST"
BucketOf(k) == IF now >= buckets[k].resetAt THEN [count |-> 0, resetAt |-> now + Window]
               ELSE buckets[k]
AdmitsGlobally(r) == BucketOf(Method(r)).count < env.limits[1]
AdmitsSensitive(r) ==
  request[r].route \in IsSensitiveRoute => BucketOf(request[r].route).count < env.limits[2]
Filled(keys) == [k \in DOMAIN buckets |->
  IF k \in keys THEN [BucketOf(k) EXCEPT !.count = @ + 1] ELSE buckets[k]]

\* evaluateRevocationCacheStartup: the time of the last sync is the environment's, 0 here.
CacheIsStale == env.revocation /\ now > MaxStale

\* The onRequest hook, in the order of its tests: the first that fails answers.
Preflight(r) ==
  /\ request[r].stage = "new" /\ request[r].route = "preflight"
  /\ Respond(r, 204)
  /\ UNCHANGED <<env, buckets, now, effects, auditVars, kills>>
OverGlobalLimit(r) ==
  /\ ~ AdmitsGlobally(r)
  /\ Respond(r, 429) /\ UNCHANGED <<buckets, auditVars>>
PassesSafeMode(r) == env.safeMode => request[r].route \in IsSafeModeAllowedRoute
DeniedInSafeMode(r) ==
  /\ AdmitsGlobally(r) /\ ~ PassesSafeMode(r)
  /\ request' = [request EXCEPT ![r].stage = "answered", ![r].status = 403]
  /\ counted' = [CountedWith(403) EXCEPT !.denied = @ + 1]
  /\ buckets' = Filled({Method(r)}) /\ UNCHANGED auditVars
PassesRevocation(r) == request[r].route \in IsRevocationFailClosedRoute => ~ CacheIsStale
FailsClosed(r) ==
  /\ AdmitsGlobally(r) /\ PassesSafeMode(r) /\ ~ PassesRevocation(r)
  /\ Respond(r, 503) /\ WriteAudit(r, "blocked")
  /\ buckets' = Filled({Method(r)})
OverSensitiveLimit(r) ==
  /\ AdmitsGlobally(r) /\ PassesSafeMode(r) /\ PassesRevocation(r) /\ ~ AdmitsSensitive(r)
  /\ Respond(r, 429)
  /\ buckets' = Filled({Method(r)}) /\ UNCHANGED auditVars
AuthorizedWithoutToken(r) == request[r].route \in IsAuthRequired => request[r].token = "right"
Authorized(r) ==
  request[r].route \in IsAuthRequired => env.tokenSet /\ request[r].token = "right"
ReachesAuth(r) ==
  /\ AdmitsGlobally(r) /\ PassesSafeMode(r) /\ PassesRevocation(r) /\ AdmitsSensitive(r)
  /\ buckets' = Filled({Method(r)} \cup (IsSensitiveRoute \cap {request[r].route}))
Unauthorized(r) ==
  /\ ReachesAuth(r) /\ ~ Authorized(r)
  /\ Respond(r, 401)
  /\ IF env.tokenSet THEN UNCHANGED auditVars ELSE WriteAudit(r, "blocked")
Admit(r) ==
  /\ ReachesAuth(r) /\ Authorized(r)
  /\ request' = [request EXCEPT ![r].stage = "admitted", ![r].at = now]
  /\ UNCHANGED <<counted, auditVars>>
OnRequest(r) ==
  /\ request[r].stage = "new" /\ request[r].route # "preflight"
  /\ \/ OverGlobalLimit(r) \/ DeniedInSafeMode(r) \/ FailsClosed(r) \/ OverSensitiveLimit(r)
     \/ Unauthorized(r) \/ Admit(r)
  /\ UNCHANGED <<env, now, effects, kills>>

-----------------------------------------------------------------------------
Handler(r) == Handlers[request[r].route]

\* The body has arrived, and the payload is refused, or the queue is full.
Refuse(r) ==
  /\ request[r].stage = "admitted" /\ request[r].route \notin Reads
  /\ \E code \in Handler(r).invalid : Respond(r, code)
  /\ \E tells \in Handler(r).tells : IF tells THEN WriteAudit(r, "blocked") ELSE UNCHANGED auditVars
  /\ UNCHANGED <<env, buckets, now, effects, kills>>

\* A GET reads something: healthy or not, and entries leave a line.
ReadHealth(r) ==
  /\ request[r].stage = "admitted" /\ request[r].route = "health"
  /\ Respond(r, 200) \/ Respond(r, 503)
  /\ UNCHANGED <<env, buckets, now, effects, auditVars, kills>>
ReadEntries(r) ==
  /\ request[r].stage = "admitted" /\ request[r].route = "entries"
  /\ \/ Respond(r, 200) /\ WriteAudit(r, "allowed")
     \/ Respond(r, 500) /\ UNCHANGED auditVars
  /\ UNCHANGED <<env, buckets, now, effects, kills>>

\* The handler starts its work, waits for it, and finds it done or failed.
Handle(r) ==
  /\ request[r].stage = "admitted" /\ request[r].route \notin Reads
  /\ Goes(r, "working")
  /\ IF Handler(r).early THEN WriteAudit(r, "allowed") ELSE UNCHANGED auditVars
  /\ UNCHANGED <<env, buckets, now, effects, counted, kills>>
Work(r) ==
  /\ request[r].stage = "working" /\ Goes(r, "done")
  /\ effects' = IF Handler(r).changes THEN effects \cup {r} ELSE effects
  /\ UNCHANGED <<env, buckets, now, auditVars, counted, kills>>
WorkFails(r) ==
  /\ request[r].stage = "working" /\ Goes(r, "failed")
  /\ UNCHANGED <<env, buckets, now, effects, auditVars, counted, kills>>
Answer(r) ==
  LET ok == request[r].stage = "done" \/ Handler(r).tolerant IN
  /\ request[r].stage \in {"done", "failed"}
  /\ Respond(r, IF ok THEN 200 ELSE 503)
  /\ IF Handler(r).late THEN WriteAudit(r, IF ok THEN "allowed" ELSE "error")
     ELSE UNCHANGED auditVars
  /\ UNCHANGED <<env, buckets, now, effects, kills>>

\* The process dies and is started again: limits and counters start anew.
Restart ==
  /\ kills < MaxKills /\ kills' = kills + 1
  /\ request' = [r \in Requests |->
       IF request[r].stage \in {"none", "answered", "dead"} THEN request[r]
       ELSE [request[r] EXCEPT !.stage = "dead"]]
  /\ buckets' = [k \in DOMAIN buckets |-> NoBucket]
  /\ counted' = NoCounts
  /\ UNCHANGED <<env, now, effects, auditVars>>
Tick ==
  /\ now < MaxTime /\ now' = now + 1
  /\ UNCHANGED <<env, request, buckets, effects, auditVars, counted, kills>>

Next ==
  \/ \E r \in Requests :
       \/ \E route \in Routes, token \in Tokens : Arrive(r, route, token)
       \/ Preflight(r) \/ OnRequest(r) \/ Refuse(r) \/ ReadHealth(r) \/ ReadEntries(r)
       \/ Handle(r) \/ Work(r) \/ WorkFails(r) \/ Answer(r)
  \/ Restart \/ Tick

Spec == Init /\ [][Next]_vars

-----------------------------------------------------------------------------
(* Properties.                                                             *)

\* What an audited route changed has one line in the audit log, which says it was allowed,
\* once the request is answered, unless the append of that line failed, which is not told to
\* anybody who asked. A line about an error means that nothing was changed, no request has
\* two lines, and none is made up for one that failed. A kill may take the line of a change
\* with it.
Audited(r) == request[r].route \in DOMAIN Handlers /\ (Handler(r).early \/ Handler(r).late)
LogTellsWhatHappened ==
  \A r \in Requests :
    /\ Len(audit[r]) + Cardinality({r} \cap lost) <= 1
    /\ r \in effects => audit[r] \in {<<>>, <<"allowed">>}
    /\ r \in effects \ lost /\ Audited(r) /\ request[r].stage = "answered" => audit[r] = <<"allowed">>

\* Nothing is changed by a request without the token, in safe mode, or admitted after the
\* revocation cache went stale, however requests and restarts interleave, and a process
\* admits no more changes to the vault in a window than the limit.
InWindow(t) == {r \in effects : request[r].route = "vault" /\ request[r].at = t}
ChangesWereAdmitted ==
  /\ env.safeMode \/ ~ env.tokenSet => effects = {}
  /\ \A r \in effects :
       /\ request[r].token = "right"
       /\ request[r].route = "vault" /\ env.revocation => request[r].at <= MaxStale
  /\ kills = 0 => \A t \in 0..MaxTime : Cardinality(InWindow(t)) <= env.limits[2]

\* The counters of a process are those of the responses it gave.
MetricsAddUp ==
  /\ counted.denied <= counted.refused
  /\ kills = 0 =>
       /\ counted.ok + counted.refused + counted.failed
            = Cardinality({r \in Requests : request[r].stage = "answered"})
       /\ counted.denied = Cardinality({r \in Requests : request[r].status = 403})
=============================================================================
