------------------------------ MODULE Gateway ------------------------------
(***************************************************************************)
(* The gateway: a process of its own with /exec, which runs a command, and *)
(* /provider/chat, which builds a container for every request, asks a      *)
(* provider and records the generation in the SQLite file.  Whatever comes *)
(* before the body is one step: the token, then the limiters, each with a  *)
(* bucket for every client.  A command runs synchronously: nothing else in *)
(* the process happens meanwhile.                                          *)
(***************************************************************************)
EXTENDS Integers, Sequences, FiniteSets, SequencesExt

CONSTANTS
  Requests,
  Limit,              \* name of a bucket -> the maxRequests of its limiter
  MaxTime, MaxKills   \* bounds; a window of the limiters is one tick

VARIABLES
  config,    \* what the process was started with
  request,   \* request -> stage, what was sent, by whom, when it came, and the answer
  buckets,   \* <<client, name>> -> requests counted in the window of this tick
  now,
  log,       \* request -> its lines in the security audit
  ran,       \* requests whose command was started
  sessions,  \* rows of sessions
  events,    \* rows of generation_events: request -> its session, or "none"
  kills,
  lost       \* history: request -> statuses of the lines that could not be written

vars == <<config, request, buckets, now, log, ran, sessions, events, kills, lost>>
logVars == <<log, lost>>

Clients == {"loopback", "remote"}
Routes == {"exec", "chat", "status"}
Commands == {"listed", "unlisted", "blocked", "invalid"}
Sessions == {"s", "none"}

\* The limiters that a request of a route passes, in their order.
KeysOf(route) ==
  CASE route = "exec" -> <<"POST", "exec", "commands">>
    [] route = "chat" -> <<"POST", "chat">>
    [] route = "status" -> <<"GET">>
NoCounts == [b \in Clients \X {"POST", "GET", "exec", "chat", "commands"} |-> 0]
Nothing == [stage |-> "none", route |-> "status", right |-> FALSE, client |-> "remote",
            at |-> 0, status |-> 0, command |-> "none",
            session |-> "none"]

\* The constructor refuses to start without a token unless /exec is open to the loopback.
Configurations == [token : BOOLEAN, allowExec : BOOLEAN, restricted : BOOLEAN, safeMode : BOOLEAN]
Init ==
  /\ config \in {c \in Configurations : c.allowExec \/ c.token}
  /\ request = [r \in Requests |-> Nothing]
  /\ buckets = NoCounts /\ now = 0
  /\ log = [r \in Requests |-> <<>>] /\ ran = {}
  /\ sessions = {} /\ events = <<>> /\ kills = 0
  /\ lost = [r \in Requests |-> {}]

-----------------------------------------------------------------------------
\* execSync holds the process.
IsFree == \A r \in Requests : request[r].stage # "running"
Answered(q, status) == [q EXCEPT !.stage = "answered", !.status = status]
Answer(r, status) == request' = [request EXCEPT ![r] = Answered(@, status)]
\* writeSecurityAudit for each line: an append that fails is reported to stderr, no more.
Lines(r, lines) ==
  \E gone \in SUBSET ToSet(lines) :
    /\ log' = [log EXCEPT ![r] = @ \o SelectSeq(lines, LAMBDA l : l \notin gone)]
    /\ lost' = [lost EXCEPT ![r] = @ \cup gone]

Authorized(q) ==
  IF q.route = "exec"
  THEN (config.allowExec /\ q.client = "loopback") \/ (config.token /\ q.right)
  ELSE q.route = "chat" /\ config.token => q.right

\* The first limiter that is full throws; those before it have counted the request.
Full(q) == SelectInSeq(KeysOf(q.route), LAMBDA k : buckets[q.client, k] >= Limit[k])
Counting(q) ==
  IF Full(q) = 0 THEN ToSet(KeysOf(q.route)) ELSE ToSet(SubSeq(KeysOf(q.route), 1, Full(q) - 1))
Counted(q) == [b \in DOMAIN buckets |->
  IF b \in {q.client} \X Counting(q) THEN buckets[b] + 1 ELSE buckets[b]]

Unauthorized(r, q) ==
  /\ ~ Authorized(q)
  /\ request' = [request EXCEPT ![r] = Answered(q, 401)]
  /\ IF q.route = "exec" THEN Lines(r, <<"blocked">>) ELSE UNCHANGED logVars
  /\ UNCHANGED buckets
OverLimit(r, q) ==
  /\ Authorized(q) /\ Full(q) # 0
  /\ request' = [request EXCEPT ![r] = Answered(q, 429)]
  /\ IF q.route = "exec" THEN Lines(r, <<"error">>) ELSE UNCHANGED logVars
  /\ buckets' = Counted(q)
Admit(r, q) ==
  /\ Authorized(q) /\ Full(q) = 0
  /\ request' = [request EXCEPT ![r] = q]
  /\ buckets' = Counted(q)
  /\ UNCHANGED logVars
Arrive(r) ==
  /\ IsFree /\ request[r].stage = "none"
  /\ \E route \in Routes, right \in BOOLEAN, client \in Clients :
       LET q == [request[r] EXCEPT !.stage = "reading", !.route = route, !.right = right,
                                   !.client = client, !.at = now]
       IN Unauthorized(r, q) \/ OverLimit(r, q) \/ Admit(r, q)
  /\ UNCHANGED <<config, now, ran, sessions, events, kills>>

\* /status and the other routes that only read.
Read(r) ==
  /\ IsFree /\ request[r].stage = "reading" /\ request[r].route = "status"
  /\ Answer(r, 200) \/ Answer(r, 500)
  /\ UNCHANGED <<config, buckets, now, logVars, ran, sessions, events, kills>>

\* enforceGatewayExecPolicy, and the second test that exec makes of the same command.
PassesPolicy(command) ==
  command # "invalid" /\ (config.restricted => command # "unlisted")
IsBlockedCommand(command) == command = "blocked"

\* The body of /exec has arrived: its line is written before the body is looked at.
RefuseExec(r, command) ==
  /\ config.safeMode \/ ~ PassesPolicy(command)
  /\ \E status \in IF config.safeMode THEN {403} ELSE {400, 403, 500} : Answer(r, status)
  /\ Lines(r, <<"allowed", "error">>) /\ UNCHANGED ran
BlockExec(r, command) ==
  /\ ~ config.safeMode /\ PassesPolicy(command) /\ IsBlockedCommand(command)
  /\ Answer(r, 200) /\ Lines(r, <<"allowed">>) /\ UNCHANGED ran
StartExec(r, command) ==
  /\ ~ config.safeMode /\ PassesPolicy(command) /\ ~ IsBlockedCommand(command)
  /\ request' = [request EXCEPT ![r].stage = "running", ![r].command = command]
  /\ Lines(r, <<"allowed">>) /\ ran' = ran \cup {r}
Exec(r) ==
  /\ IsFree /\ request[r].stage = "reading" /\ request[r].route = "exec"
  /\ \E command \in Commands :
       RefuseExec(r, command) \/ BlockExec(r, command) \/ StartExec(r, command)
  /\ UNCHANGED <<config, buckets, now, sessions, events, kills>>
ExecEnds(r) ==
  /\ request[r].stage = "running" /\ Answer(r, 200)
  /\ UNCHANGED <<config, buckets, now, logVars, ran, sessions, events, kills>>

\* The body of /provider/chat has arrived: refused, no container, or asked.
Chat(r) ==
  /\ IsFree /\ request[r].stage = "reading" /\ request[r].route = "chat"
  /\ \/ Answer(r, IF config.safeMode THEN 403 ELSE 400) /\ UNCHANGED sessions
     \/ ~ config.safeMode /\ Answer(r, 500) /\ UNCHANGED sessions
     \/ \E s \in Sessions :
          /\ ~ config.safeMode
          /\ request' = [request EXCEPT ![r].stage = "asking", ![r].session = s]
          /\ sessions' = sessions \cup ({s} \ {"none"})
  /\ UNCHANGED <<config, buckets, now, logVars, ran, events, kills>>
\* The provider answers and the event is stored; either may fail.
Recorded(r) == [s \in DOMAIN events \cup {r} |-> IF s = r THEN request[r].session ELSE events[s]]
Generated(r) ==
  /\ IsFree /\ request[r].stage = "asking"
  /\ \/ Answer(r, 200) /\ events' = Recorded(r)
     \/ Answer(r, 500) /\ UNCHANGED events
  /\ UNCHANGED <<config, buckets, now, logVars, ran, sessions, kills>>

Tick ==
  /\ now < MaxTime /\ now' = now + 1 /\ buckets' = NoCounts
  /\ UNCHANGED <<config, request, logVars, ran, sessions, events, kills>>
Restart ==
  /\ kills < MaxKills /\ kills' = kills + 1
  /\ request' = [r \in Requests |->
       IF request[r].stage \in {"reading", "running", "asking"}
       THEN [request[r] EXCEPT !.stage = "dead"] ELSE request[r]]
  /\ buckets' = NoCounts
  /\ UNCHANGED <<config, now, logVars, ran, sessions, events>>

Next ==
  \/ \E r \in Requests : Arrive(r) \/ Read(r) \/ Exec(r) \/ ExecEnds(r) \/ Chat(r) \/ Generated(r)
  \/ Tick \/ Restart

Spec == Init /\ [][Next]_vars

-----------------------------------------------------------------------------
(* Properties.                                                             *)

\* A command is started only for a client that may, outside safe mode, as the policy says,
\* and in one window at most so often for one client, whenever the bodies arrive; a window
\* begins anew when the process does.
ExecsOf(client, t) == {r \in ran : request[r].client = client /\ request[r].at = t}
ExecsWereAdmitted ==
  /\ \A r \in ran :
       /\ ~ config.safeMode
       /\ \/ request[r].right /\ config.token
          \/ request[r].client = "loopback" /\ config.allowExec
       /\ request[r].command \in {"listed"} \cup (IF config.restricted THEN {} ELSE {"unlisted"})
  /\ kills = 0 => \A client \in Clients, t \in 0..MaxTime :
       Cardinality(ExecsOf(client, t)) <= Limit["exec"]

\* The audit has the line of a command before the command is started, also when the process
\* dies meanwhile, unless the append of that line failed: the command runs all the same. A
\* line about an error or a block means that no command was started, and an answer is what
\* the last line says, as far as the lines were written.
ExecsAreLogged ==
  \A r \in Requests :
    /\ r \in ran => \/ log[r] = <<"allowed">> /\ lost[r] = {}
                    \/ log[r] = <<>> /\ lost[r] = {"allowed"}
    /\ request[r].route = "exec" /\ request[r].status # 0 =>
         /\ log[r] # <<>> \/ lost[r] # {}
         /\ request[r].status = 200 => ToSet(log[r]) \cup lost[r] = {"allowed"}
         /\ request[r].status # 200 /\ lost[r] = {} => Last(log[r]) # "allowed"

\* A chat is answered if and only if its event is stored, of a session that exists, and
\* sessions are only of clients that may ask.
EventsMatchAnswers ==
  /\ \A r \in Requests : request[r].route = "chat" /\ request[r].status = 200 => r \in DOMAIN events
  /\ \A r \in DOMAIN events :
       request[r].status = 200 /\ events[r] \in sessions \cup {"none"}
  /\ sessions # {} => \E r \in Requests : request[r].session \in sessions /\ Authorized(request[r])

\* A client is refused by a limiter only when its own requests have filled the bucket, those
\* without the token left aside.
BudgetsAreOwn ==
  \A r \in Requests : request[r].status = 429 /\ kills = 0 =>
    \E k \in ToSet(KeysOf(request[r].route)) :
      Cardinality({s \in Requests \ {r} :
        /\ request[s].stage # "none" /\ request[s].status # 401
        /\ request[s].client = request[r].client /\ request[s].at = request[r].at
        /\ k \in ToSet(KeysOf(request[s].route))}) >= Limit[k]
=============================================================================
