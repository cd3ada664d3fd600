---------------------------- MODULE PeerRegistry ----------------------------
(***************************************************************************)
(* data/sync-agents.json: the agents that `agents discover`, `sync push`   *)
(* and `sync pull` know. Every change reads the whole file and writes it   *)
(* back, and push and pull store the record they read before they waited   *)
(* for the agent's answer. Commands are processes; nothing locks the file. *)
(* The order of its entries is abstracted.                                 *)
(***************************************************************************)
EXTENDS Integers, FiniteSets

CONSTANTS
  Procs, Agents, Endpoints,
  Absent,              \* not in the file, not in the list of peers
  Torn,                \* the file while it is written, and after a kill in between
  MaxCommands, MaxKills

VARIABLES
  registry,            \* agent -> its record or Absent; or Torn
  proc,                \* process -> step, records to store, the one at hand, the file read
  commands, kills,
  latest,              \* history: agent -> the endpoint it was last discovered at
  clashed,             \* history: two upserts overlapped, or one was killed in its write
  behind               \* history: agents discovered while a command held their record

vars == <<registry, proc, commands, kills, latest, clashed, behind>>

NoAgents == [a \in Agents |-> Absent]
Record(a, endpoint, status) == [of |-> a, endpoint |-> endpoint, status |-> status]
Idle == [step |-> "idle", kind |-> "none", todo |-> {}, now |-> Absent, read |-> NoAgents]
Init ==
  /\ registry = NoAgents
  /\ proc = [p \in Procs |-> Idle]
  /\ commands = 0 /\ kills = 0
  /\ latest = NoAgents /\ clashed = FALSE /\ behind = {}

Known == {a \in Agents : registry[a] # Absent}
Start(p, kind, records) ==
  /\ proc[p] = Idle /\ commands < MaxCommands /\ records # {}
  /\ commands' = commands + 1
  /\ proc' = [proc EXCEPT ![p] = [Idle EXCEPT !.step = "next", !.kind = kind, !.todo = records]]
  /\ UNCHANGED <<registry, kills, latest, clashed, behind>>

\* discoverFromEnv: the peers of the list, each with its endpoint and no status.
Discover(p, peers) ==
  Start(p, "discover", {Record(a, peers[a], "unknown") : a \in {b \in Agents : peers[b] # Absent}})
\* push asks the agents it has read one after the other, pull asks one.
Push(p) == registry # Torn /\ Start(p, "push", {registry[a] : a \in Known})
Pull(p, a) == registry # Torn /\ a \in Known /\ Start(p, "pull", {registry[a]})

\* The next record: discover stores it as it is, the others with what the agent did. A pull
\* that is not answered throws.
Upserts(p, r, status) ==
  proc' = [proc EXCEPT ![p].step = "read", ![p].todo = @ \ {r}, ![p].now = [r EXCEPT !.status = status]]
Answered(p, r) == Upserts(p, r, IF proc[p].kind = "discover" THEN r.status ELSE "online")
NotAnswered(p, r) ==
  \/ proc[p].kind = "push" /\ Upserts(p, r, "offline")
  \/ proc[p].kind = "pull" /\ proc' = [proc EXCEPT ![p] = Idle]
Ask(p, r) ==
  /\ proc[p].step = "next" /\ r \in proc[p].todo
  /\ Answered(p, r) \/ NotAnswered(p, r)
  /\ UNCHANGED <<registry, commands, kills, latest, clashed, behind>>

\* upsert reads the file. One that is just being written does not parse: push takes that for
\* a failure of the agent and upserts once more, any other command ends.
InUpsert(q) == proc[q].step \in {"write", "written"}
Read(p) ==
  /\ proc[p].step = "read"
  /\ proc' = [proc EXCEPT ![p] =
       IF registry # Torn THEN [@ EXCEPT !.step = "write", !.read = registry]
       ELSE IF @.kind = "push" /\ @.now.status = "online" THEN [@ EXCEPT !.now.status = "offline"]
       ELSE Idle]
  /\ clashed' = (clashed \/ \E q \in Procs : InUpsert(q))
  /\ UNCHANGED <<registry, commands, kills, latest, behind>>
Write(p) ==
  /\ proc[p].step = "write"
  /\ registry' = Torn
  /\ proc' = [proc EXCEPT ![p].step = "written"]
  /\ UNCHANGED <<commands, kills, latest, clashed, behind>>

OnlyIt(read, r) == [NoAgents EXCEPT ![r.of] = r]
WithIt(read, r) == [read EXCEPT ![r.of] = r]
Upserted(read, r) == WithIt(read, r)
Holds(q, a) == \E r \in proc[q].todo \cup ({proc[q].now} \ {Absent}) : r.of = a
Written(p) ==
  LET r == proc[p].now
      found == proc[p].kind = "discover"
  IN
  /\ proc[p].step = "written"
  /\ registry' = Upserted(proc[p].read, r)
  /\ proc' = [proc EXCEPT ![p] =
       IF @.todo = {} THEN Idle ELSE [@ EXCEPT !.step = "next", !.now = Absent, !.read = NoAgents]]
  /\ latest' = IF found THEN [latest EXCEPT ![r.of] = r.endpoint] ELSE latest
  /\ behind' = IF found /\ \E q \in Procs \ {p} : Holds(q, r.of) THEN behind \cup {r.of}
               ELSE behind
  /\ UNCHANGED <<commands, kills, clashed>>

Kill(p) ==
  /\ proc[p] # Idle /\ kills < MaxKills
  /\ kills' = kills + 1
  /\ proc' = [proc EXCEPT ![p] = Idle]
  /\ clashed' = (clashed \/ proc[p].step = "written")
  /\ UNCHANGED <<registry, commands, latest, behind>>

Next ==
  \E p \in Procs :
    \/ \E peers \in [Agents -> Endpoints \cup {Absent}] : Discover(p, peers)
    \/ Push(p) \/ \E a \in Agents : Pull(p, a)
    \/ \E r \in proc[p].todo : Ask(p, r)
    \/ Read(p) \/ Write(p) \/ Written(p) \/ Kill(p)

Spec == Init /\ [][Next]_vars

-----------------------------------------------------------------------------
(* Properties.                                                             *)

\* Unless two commands stored at once or one was killed in a write, the file parses, has
\* every agent that was ever stored, and each at the endpoint it was last discovered at; a
\* push or pull that was waiting when it was discovered may bring an older one back.
DiscoveredAgentsStay ==
  clashed \/ registry = Torn \/
    \A a \in Agents : latest[a] # Absent =>
      a \in Known /\ (a \in behind \/ registry[a].endpoint = latest[a])
=============================================================================
