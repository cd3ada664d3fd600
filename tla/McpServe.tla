------------------------------ MODULE McpServe ------------------------------
(***************************************************************************)
(* `mcp serve`, `mcp serve-stop`, `mcp serve-status` and the one file they *)
(* share, data/mcp-serve-state.json. A server records its pid there, a     *)
(* stop signals the pid it reads and removes the file, and a server that   *)
(* ends removes it too, whosever it is by then. Procs are process ids: one *)
(* that is free is given to whatever starts next, commands or not.         *)
(***************************************************************************)
EXTENDS Integers

CONSTANTS
  Procs, Ports,
  Absent,              \* no state file; no port
  Torn,                \* the file between its truncation and its write
  MaxCommands, MaxKills

VARIABLES
  file,                \* [pid, life], Torn or Absent
  proc,                \* process id -> what runs there
  commands, kills,
  clashed,             \* history: a command started, or a server's time ran out, amid another's work
  astray               \* history: a stop signalled a process that is not the server it read of

vars == <<file, proc, commands, kills, clashed, astray>>

Idle == [step |-> "idle", kind |-> "none", port |-> Absent, life |-> 0, told |-> FALSE, read |-> Absent]
Init ==
  /\ file = Absent /\ proc = [p \in Procs |-> Idle]
  /\ commands = 0 /\ kills = 0 /\ clashed = FALSE /\ astray = FALSE

Serves == {"http", "stdio"}
Goes(p, step) == proc' = [proc EXCEPT ![p].step = step]
Ends(p) == proc' = [proc EXCEPT ![p] = Idle]
AtWork(q) == proc[q].step \notin {"idle", "serving", "lingering", "foreign"}
Serving(q) == proc[q].step = "serving"
Waits == UNCHANGED <<commands, kills, clashed, astray>>

Start(p, kind, port) ==
  /\ proc[p] = Idle /\ commands < MaxCommands
  /\ commands' = commands + 1
  /\ proc' = [proc EXCEPT ![p] = [Idle EXCEPT !.kind = kind, !.port = port, !.life = commands + 1,
                !.step = CASE kind = "foreign" -> "foreign" [] kind = "stop" -> "look" [] OTHER -> "bind"]]
  /\ clashed' = \/ clashed
                \/ kind # "foreign" /\ \E q \in Procs : AtWork(q) \/ (kind \in Serves /\ Serving(q))
  /\ UNCHANGED <<file, kills, astray>>
StartHttp(p, port) == Start(p, "http", port)
StartStdio(p) == Start(p, "stdio", Absent)
StartStop(p) == Start(p, "stop", Absent)
StartForeign(p) == Start(p, "foreign", Absent)
ForeignEnds(p) == proc[p].step = "foreign" /\ Ends(p) /\ UNCHANGED file /\ Waits


\* listen: a port that is taken is an 'error' event without a listener, which ends the process.
Taken(port) == \E q \in Procs : proc[q].port = port /\ proc[q].step \in {"truncate", "write", "serving", "close"}
Bind(p) ==
  /\ proc[p].step = "bind"
  /\ IF proc[p].kind = "http" /\ Taken(proc[p].port) THEN Ends(p) ELSE Goes(p, "truncate")
  /\ UNCHANGED file /\ Waits
Truncate(p) == proc[p].step = "truncate" /\ file' = Torn /\ Goes(p, "write") /\ Waits
Write(p) ==
  /\ proc[p].step = "write"
  /\ file' = [pid |-> p, life |-> proc[p].life] /\ Goes(p, "serving") /\ Waits

\* The wait ends at a signal or, with --duration-ms, by itself. Only HTTP has something to close.
Stop(p) == Goes(p, IF proc[p].kind = "http" THEN "close" ELSE "check")
Told(p) == Serving(p) /\ proc[p].told /\ Stop(p) /\ UNCHANGED file /\ Waits
Expire(p) ==
  /\ Serving(p) /\ ~proc[p].told /\ Stop(p)
  /\ clashed' = (clashed \/ \E q \in Procs : AtWork(q))
  /\ UNCHANGED <<file, commands, kills, astray>>
Close(p) == proc[p].step = "close" /\ Goes(p, "check") /\ UNCHANGED file /\ Waits

\* A command that is through: a stdio server lives on, and answers, until its input ends.
Done(p) == IF proc[p].kind = "stdio" THEN Goes(p, "lingering") ELSE Ends(p)
InputEnds(p) ==
  proc[p].kind = "stdio" /\ proc[p].step = "lingering" /\ Ends(p) /\ UNCHANGED file /\ Waits

\* clearMcpServeState, of a server or a stop; a file that went between the two steps is an error.
Check(p) ==
  /\ proc[p].step = "check"
  /\ IF file = Absent THEN Done(p) ELSE Goes(p, "unlink")
  /\ UNCHANGED file /\ Waits
Unlink(p) == proc[p].step = "unlink" /\ file' = Absent /\ Done(p) /\ Waits

\* serve-stop. A file that is gone or torn when it is read fails the command.
Look(p) ==
  /\ proc[p].step = "look"
  /\ IF file = Absent THEN Ends(p) ELSE Goes(p, "read")
  /\ UNCHANGED file /\ Waits
Read(p) ==
  /\ proc[p].step = "read"
  /\ IF file \in {Absent, Torn}
       THEN Ends(p) ELSE proc' = [proc EXCEPT ![p].step = "signal", ![p].read = file]
  /\ UNCHANGED file /\ Waits
\* A server's handler serves one signal, and is there until it has closed; whatever else has the
\* pid dies of it.
Handles(q) ==
  /\ proc[q].kind \in Serves /\ ~proc[q].told
  /\ proc[q].step \in {"bind", "truncate", "write", "serving", "close"}
Signal(p) ==
  /\ proc[p].step = "signal"
  /\ LET q == proc[p].read.pid
         sent == [proc EXCEPT ![p].step = "check"]
     IN /\ proc' = IF Handles(q) THEN [sent EXCEPT ![q].told = TRUE]
                   ELSE IF q = p THEN [proc EXCEPT ![p] = Idle] ELSE [sent EXCEPT ![q] = Idle]
        /\ astray' = (astray \/ (proc[q] # Idle /\ proc[q].life # proc[p].read.life))
  /\ UNCHANGED <<file, commands, kills, clashed>>

Kill(p) ==
  /\ proc[p] # Idle /\ proc[p].step # "foreign" /\ kills < MaxKills
  /\ kills' = kills + 1 /\ Ends(p) /\ UNCHANGED <<file, commands, clashed, astray>>

Next ==
  \E p \in Procs :
    \/ \E port \in Ports : StartHttp(p, port)
    \/ StartStdio(p) \/ StartStop(p) \/ StartForeign(p) \/ ForeignEnds(p) \/ Bind(p)
    \/ Truncate(p) \/ Write(p) \/ Told(p) \/ Expire(p) \/ Close(p) \/ InputEnds(p)
    \/ Check(p) \/ Unlink(p) \/ Look(p) \/ Read(p) \/ Signal(p) \/ Kill(p)
Spec == Init /\ [][Next]_vars

-----------------------------------------------------------------------------

\* While commands wait for one another, a server that serves and has not been told to stop is
\* the one the state file names, whatever was killed before (serve-stop can reach it).
ServingIsRecorded ==
  ~clashed => \A p \in Procs :
    Serving(p) /\ ~proc[p].told => file = [pid |-> p, life |-> proc[p].life]

\* ... the file goes with its server, unless a command was killed; and a stop signals the server
\* it read of, never another program that was given its pid.
StateEndsWithItsServer ==
  ~clashed /\ kills = 0 =>
    /\ ~astray
    /\ (\A p \in Procs : ~AtWork(p) /\ ~Serving(p)) => file = Absent

\* What serve-stop and serve-status can rely on.
OneServerIsKnown == ServingIsRecorded /\ StateEndsWithItsServer
=============================================================================
