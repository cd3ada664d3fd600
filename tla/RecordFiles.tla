----------------------------- MODULE RecordFiles -----------------------------
(***************************************************************************)
(* The JSON-lines files of the command line: the decision audit, the       *)
(* decision history, and one ask session.  Every record is one appended    *)
(* line; a reader parses all lines or throws.  A command killed while it   *)
(* appends leaves a line without an end, and the next one runs into it.    *)
(* Commands are processes, and nothing locks the files.                    *)
(***************************************************************************)
EXTENDS Integers, Sequences, FiniteSets, SequencesExt, FiniteSetsExt

CONSTANTS
  Procs,
  Statuses,            \* the DecisionStatus values that --input and --to may name
  MaxTurns, MaxTokens, \* ASK_CONTEXT_TURNS, ASK_CONTEXT_WINDOW_TOKENS
  Sizes,               \* tokens of a turn
  MaxRecords, MaxKills \* bounds

VARIABLES
  lines,               \* file -> lines
  unended,             \* files whose last line has no end
  proc,                \* process -> its stage and what it holds
  ids,                 \* records made so far
  kills,
  acked,               \* history: records a command reported as written, per file
  raced                \* history: audit events followed by another's before they were counted

vars == <<lines, unended, proc, ids, kills, acked, raced>>

Files == {"audit", "history", "session"}
Bad == [id |-> 0, event |-> 0, ref |-> 0, by |-> "nobody", tokens |-> 0]
Idle == [stage |-> "idle", event |-> 0, ref |-> 0, context |-> <<>>]

Init ==
  /\ lines = [f \in Files |-> <<>>] /\ unended = {}
  /\ proc = [p \in Procs |-> Idle]
  /\ ids = 0 /\ kills = 0 /\ acked = [f \in Files |-> {}] /\ raced = {}

\* transitionDecision's table.
Allowed(from) ==
  CASE from = "proposed" -> {"accepted", "rejected", "superseded"}
    [] from = "accepted" -> {"implemented", "superseded"}
    [] from = "implemented" -> {"verified", "superseded"}
    [] from = "verified" -> {"superseded"}
    [] OTHER -> {}

\* appendFileSync of one record and its line end.
Appended(f, record) ==
  IF f \in unended THEN [lines EXCEPT ![f] = Append(Front(@), Bad)]
                   ELSE [lines EXCEPT ![f] = Append(@, record)]
WriteWithoutEnd(f, record) ==
  /\ ids < MaxRecords /\ ids' = ids + 1
  /\ lines' = Appended(f, record) /\ unended' = unended \cup {f}
Write(f, record) ==
  /\ ids < MaxRecords /\ ids' = ids + 1
  /\ lines' = Appended(f, record) /\ unended' = unended \ {f}
Acked(f) == acked' = [acked EXCEPT ![f] = @ \cup {ids'}]
New == [Bad EXCEPT !.id = ids + 1]

\* The readers: every line is parsed, and one that is not a record makes them throw.
CanRead(f) == \A i \in DOMAIN lines[f] : lines[f][i] # Bad

\* `decide` on a text that looks like a decision.
Detect(p) ==
  /\ proc[p] = Idle
  /\ Write("audit", New) /\ Acked("audit")
  /\ raced' = raced \cup {proc[q].event : q \in {r \in Procs : proc[r].stage = "audited"}}
  /\ UNCHANGED <<proc, kills>>

\* `decide transition`: the record is the caller's --input, not the history's.  The event
\* is appended, ...
Transition(p, from, to) ==
  /\ proc[p] = Idle /\ to \in Allowed(from)
  /\ Write("audit", New)
  /\ proc' = [proc EXCEPT ![p] = [Idle EXCEPT !.stage = "audited", !.event = ids']]
  /\ raced' = raced \cup {proc[q].event : q \in {r \in Procs : proc[r].stage = "audited"}}
  /\ UNCHANGED <<kills, acked>>
\* ... the audit is read to find the event's number, and when it cannot be, the command
\* fails with its event written; ...
Count(p) ==
  /\ proc[p].stage = "audited"
  /\ proc' = [proc EXCEPT ![p] = IF CanRead("audit")
                                 THEN [@ EXCEPT !.stage = "counted", !.ref = Len(lines["audit"])]
                                 ELSE Idle]
  /\ UNCHANGED <<lines, unended, ids, kills, acked, raced>>
\* ... and the history entry refers to it.
Record(p) ==
  /\ proc[p].stage = "counted"
  /\ Write("history", [New EXCEPT !.event = proc[p].event, !.ref = proc[p].ref])
  /\ Acked("history")
  /\ proc' = [proc EXCEPT ![p] = Idle]
  /\ UNCHANGED <<kills, raced>>

\* selectContextTurns: the last turns, the newest first until one does not fit; the newest
\* is taken whatever its size.
Tokens(turns) == FoldLeft(LAMBDA sum, t : sum + t.tokens, 0, turns)
LastOf(turns, n) == SubSeq(turns, Max({1, Len(turns) - n + 1}), Len(turns))
SelectContext(turns) ==
  LET recent == LastOf(turns, MaxTurns)
      fits(n) == n <= 1 \/ Tokens(LastOf(recent, n)) <= MaxTokens
  IN LastOf(recent, Max({n \in 0..Len(recent) : fits(n)}))

\* runAskSessionTurn: the question is appended, ...
Ask(p, tokens) ==
  /\ proc[p] = Idle
  /\ Write("session", [New EXCEPT !.by = p, !.tokens = tokens])
  /\ proc' = [proc EXCEPT ![p] = [Idle EXCEPT !.stage = "asked", !.event = ids']]
  /\ UNCHANGED <<kills, acked, raced>>
\* ... the session is read (or the command fails), the provider is asked, ...
Prompt(p) ==
  /\ proc[p].stage = "asked"
  /\ proc' = [proc EXCEPT ![p] = IF CanRead("session")
                                 THEN [@ EXCEPT !.stage = "waiting",
                                                !.context = SelectContext(lines["session"])]
                                 ELSE Idle]
  /\ UNCHANGED <<lines, unended, ids, kills, acked, raced>>
ProviderFails(p) ==
  /\ proc[p].stage = "waiting"
  /\ proc' = [proc EXCEPT ![p] = Idle]
  /\ UNCHANGED <<lines, unended, ids, kills, acked, raced>>
\* ... and its answer is appended.  (The session is read again for the statistics.)
AnswerTurn(p, tokens) ==
  /\ proc[p].stage = "waiting"
  /\ Write("session", [New EXCEPT !.by = p, !.tokens = tokens])
  /\ Acked("session")
  /\ proc' = [proc EXCEPT ![p] = Idle]
  /\ UNCHANGED <<kills, raced>>
\* /clear.
Clear(p) ==
  /\ proc[p] = Idle /\ lines["session"] # <<>>
  /\ lines' = [lines EXCEPT !["session"] = <<>>] /\ unended' = unended \ {"session"}
  /\ acked' = [acked EXCEPT !["session"] = {}]
  /\ UNCHANGED <<proc, ids, kills, raced>>

\* The command dies between two steps, or in the middle of an append.
Kill(p, f) ==
  /\ kills < MaxKills /\ kills' = kills + 1
  /\ \/ proc[p] # Idle /\ UNCHANGED <<lines, unended>>
     \/ /\ f = CASE proc[p].stage = "counted" -> "history" [] proc[p].stage = "waiting" -> "session"
                 [] OTHER -> f
        /\ proc[p].stage \in {"idle", "counted", "waiting"}
        /\ lines' = Appended(f, Bad) /\ unended' = unended \cup {f}
  /\ proc' = [proc EXCEPT ![p] = Idle]
  /\ UNCHANGED <<ids, acked, raced>>

Next ==
  \E p \in Procs :
    \/ Detect(p) \/ Count(p) \/ Record(p) \/ Prompt(p) \/ ProviderFails(p) \/ Clear(p)
    \/ \E from, to \in Statuses : Transition(p, from, to)
    \/ \E tokens \in Sizes : Ask(p, tokens) \/ AnswerTurn(p, tokens)
    \/ \E f \in Files : Kill(p, f)

Spec == Init /\ [][Next]_vars

-----------------------------------------------------------------------------
(* Properties.                                                             *)

IdsIn(f) == {lines[f][i].id : i \in DOMAIN lines[f]}

\* The history never has a transition whose event is not in the audit, and the number it
\* keeps is that of its own event, unless another command appended one in between.
HistoryRefersToItsEvent ==
  \A i \in DOMAIN lines["history"] :
    LET entry == lines["history"][i] IN
      entry # Bad =>
        /\ entry.event \in IdsIn("audit")
        /\ entry.event \in raced \/ lines["audit"][entry.ref].id = entry.event

\* A record that was reported as written can be lost only to a torn line: no more of them
\* are missing, over all files, than commands were killed.
OneLossPerKill ==
  Cardinality(UNION {acked[f] \ IdsIn(f) : f \in Files}) <= kills

\* The context that goes to a provider is within both limits, or a single turn.
ContextIsRecent ==
  \A p \in Procs : proc[p].stage = "waiting" =>
    LET context == proc[p].context IN
      Len(context) <= MaxTurns /\ (Len(context) <= 1 \/ Tokens(context) <= MaxTokens)
=============================================================================
