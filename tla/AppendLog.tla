----------------------------- MODULE AppendLog ------------------------------
(***************************************************************************)
(* What a chain promises: one sequence of entries that only grows at its   *)
(* end, with at most one entry for each append call, and an answer only to *)
(* a call whose entry is in it.                                            *)
(***************************************************************************)
EXTENDS Naturals, Sequences

CONSTANT Calls

VARIABLES
  log,       \* the entries, each named by the call that appended it
  answered   \* the calls that were told their entry is in the log

logVars == <<log, answered>>

Listed(c) == \E i \in 1..Len(log) : log[i] = c

LogInit == log = <<>> /\ answered = {}

Grow(c) ==
  /\ ~ Listed(c)
  /\ log' = Append(log, c)
  /\ UNCHANGED answered

Answer(c) ==
  /\ Listed(c)
  /\ answered' = answered \cup {c}
  /\ UNCHANGED log

LogNext == \E c \in Calls : Grow(c) \/ Answer(c)

LogSpec == LogInit /\ [][LogNext]_logVars

=============================================================================
