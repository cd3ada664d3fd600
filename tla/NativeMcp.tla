----------------------------- MODULE NativeMcp ------------------------------
(***************************************************************************)
(* One JSON-RPC request to the native MCP gateway: `mcp --input` hands it  *)
(* to the gateway, `mcp serve-once` sends it over a socket to a server of  *)
(* its own (bridges/mcp-native-transport.ts), which has no framing: it     *)
(* parses all it has received whenever something arrives.                  *)
(***************************************************************************)
EXTENDS Integers, Sequences

CONSTANTS
  Chunks,              \* how many pieces a request may arrive in
  MaxBlanks            \* pieces of white space that may follow it

VARIABLES
  mode,                \* how the request is made: "input", "once" (serve-once), "peer" (any client)
  request,             \* "valid", "refused" (version, method or params) or "garbled"
  conn,                \* the connection, as the server sees it
  answers,             \* what was sent back: "result", "error"
  broken               \* history: the client sent blanks, or ended its side before the answer

vars == <<mode, request, conn, answers, broken>>

Fresh == [step |-> "open", got |-> 0, of |-> 1, blanks |-> 0, runs |-> 0, left |-> FALSE]
Init ==
  /\ mode \in {"input", "once", "peer"} /\ request \in {"valid", "refused", "garbled"}
  /\ \E n \in 1..Chunks : conn = [Fresh EXCEPT !.of = n]
  /\ answers = <<>> /\ broken = FALSE

Parses == conn.got = conn.of /\ request # "garbled"
IsRunning == conn.runs > 0
Says(a) == answers' = Append(answers, a)
Same == UNCHANGED <<mode, request, broken>>

\* invokeNativeMcpAsk checks the request and asks the orchestration; on the socket what it throws
\* is swallowed, as "not whole yet".
Handled(c) == IF request = "valid" THEN [c EXCEPT !.runs = @ + 1] ELSE c

\* handleMcpRequestCommand; serve-once parses its input before it sends it.
Direct ==
  /\ conn.step = "open" /\ ~IsRunning
  /\ mode = "input" \/ (mode = "once" /\ request = "garbled")
  /\ IF request = "valid"
       THEN conn' = Handled(conn) /\ UNCHANGED answers
       ELSE conn' = [conn EXCEPT !.step = "closed"] /\ Says("error")
  /\ Same

\* socket.on('data').
Sends == mode = "peer" \/ (mode = "once" /\ request # "garbled")
Data ==
  /\ Sends /\ conn.step = "open" /\ conn.got < conn.of
  /\ LET c == [conn EXCEPT !.got = @ + 1]
     IN conn' = IF c.got = c.of /\ request # "garbled" THEN Handled(c) ELSE c
  /\ UNCHANGED answers /\ Same
Blank ==
  /\ mode = "peer" /\ conn.step \in {"open", "ending"} /\ ~conn.left
  /\ Parses /\ conn.blanks < MaxBlanks
  /\ conn' = Handled([conn EXCEPT !.blanks = @ + 1])
  /\ broken' = TRUE /\ UNCHANGED <<mode, request, answers>>

\* socket.on('end'): what was received is not JSON. The socket ends its side with the client's.
PeerEnds ==
  /\ mode = "peer" /\ conn.step = "open" /\ conn.got > 0
  /\ IF Parses THEN UNCHANGED answers ELSE Says("error")
  /\ conn' = [conn EXCEPT !.left = TRUE, !.step = "ending"]
  /\ broken' = TRUE /\ UNCHANGED <<mode, request>>
Close ==
  /\ conn.step = "ending" /\ conn' = [conn EXCEPT !.step = "closed"] /\ UNCHANGED answers /\ Same

\* The orchestration answers a run, or fails. A socket that is ending makes of the answer an
\* 'error' event nobody listens to, which ends the process; a closed one drops it.
Answer ==
  /\ IsRunning
  /\ LET c == [conn EXCEPT !.runs = @ - 1]
     IN \/ /\ conn.step = "open" /\ Says("result")
           /\ conn' = [c EXCEPT !.step = IF mode = "input" THEN "closed" ELSE "ending"]
        \/ conn.step = "ending" /\ conn' = [conn EXCEPT !.step = "crashed", !.runs = 0] /\ UNCHANGED answers
        \/ conn.step = "closed" /\ conn' = c /\ UNCHANGED answers
  /\ Same
Fails ==
  /\ IsRunning /\ Same
  /\ IF mode = "input"
       THEN conn' = [conn EXCEPT !.runs = @ - 1, !.step = "closed"] /\ Says("error")
       ELSE conn' = [conn EXCEPT !.runs = @ - 1] /\ UNCHANGED answers

\* What a request that waits for no answer does next.
Arrives == Direct \/ Data \/ Close

Next == Direct \/ Data \/ Blank \/ PeerEnds \/ Close \/ Answer \/ Fails
Spec == Init /\ [][Next]_vars

-----------------------------------------------------------------------------

\* However a request is split, it is run and answered once at most and nothing crashes, unless
\* its client sends blanks behind it or does not wait for the answer.
OneAnswer ==
  ~broken => /\ conn.step # "crashed" /\ Len(answers) + conn.runs <= 1
             /\ conn.step = "closed" => Len(answers) = 1

\* For the liveness property: a valid request of `mcp --input` or serve-once, its end, and the
\* serve-once request whose run failed: what the server throws is swallowed, nothing is sent,
\* and neither side has a timeout.
IsAsked == mode # "peer" /\ request = "valid"
HasEnded == conn.step = "closed"
IsLeftHanging == mode = "once" /\ conn.step = "open" /\ conn.got = conn.of /\ ~IsRunning
=============================================================================
