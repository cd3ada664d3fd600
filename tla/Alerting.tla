------------------------------ MODULE Alerting ------------------------------
(***************************************************************************)
(* The runtime's AlertEmitter.  A security-critical event raises an alert, *)
(* which is sent, or only counted when one with the same id was sent       *)
(* within the window.  A timer flushes the counts as alerts of their own,  *)
(* without waiting for the flush before.  Sends are awaited, so all of     *)
(* this interleaves in one process.                                        *)
(***************************************************************************)
EXTENDS Integers, FiniteSets

CONSTANTS
  Events,      \* names of events, which are the ids of their alerts
  Flushes,     \* runs of the flush loop
  Window,      \* dedupeWindowMs, in ticks
  MaxTime, MaxEvents   \* bounds

VARIABLES
  dedup,       \* AlertEmitter.state: whether the id is known, lastSentAt, suppressedCount
  sending,     \* sends in progress: the id and the count it reports
  flush,       \* each flush: the ids to look at, its time, whether it waits for a send
  clock,
  raised,      \* history: alerts raised under each event's id
  told,        \* history: alerts that were sent or logged, alone or in a count
  lost,        \* history: alerts that could be neither sent nor logged, alone or in a count
  lastBegun,   \* history: when a send of each id last began
  early        \* history: two sends of one id began within the window

vars == <<dedup, sending, flush, clock, raised, told, lost, lastBegun, early>>

Summaries == {"AlertSuppressed"} \X Events
AlertIds == {"alert"} \X Events \cup Summaries
Id(e) == <<"alert", e>>
Summary(id) == <<"AlertSuppressed", id[2]>>
Never == -Window
Unknown == [known |-> FALSE, sentAt |-> Never, suppressed |-> 0]
NotRunning == [todo |-> {}, now |-> 0, waits |-> FALSE]

Init ==
  /\ dedup = [i \in AlertIds |-> Unknown]
  /\ sending = {} /\ flush = [f \in Flushes |-> NotRunning] /\ clock = 0
  /\ raised = [e \in Events |-> 0] /\ told = [e \in Events |-> 0]
  /\ lost = [e \in Events |-> 0]
  /\ lastBegun = [i \in AlertIds |-> Never] /\ early = FALSE

\* emit, up to the send.  What is sent stands for `covers` alerts of the event.
Within(d, id, now) == d[id].known /\ now - d[id].sentAt < Window
Suppress(d, id) == [d EXCEPT ![id].suppressed = @ + 1]

\* emit keeps the count of an id that it sends, flushSuppressed resets it.
MarkSentAndForget(d, id, now) == [d EXCEPT ![id] = [known |-> TRUE, sentAt |-> now, suppressed |-> 0]]
MarkSent(d, id, now) ==
  [d EXCEPT ![id] = [known |-> TRUE, sentAt |-> now, suppressed |-> @.suppressed]]
BeginSend(id, covers, by, now) ==
  /\ sending' = sending \cup {[id |-> id, covers |-> covers, by |-> by]}
  /\ lastBegun' = [lastBegun EXCEPT ![id] = now]
  /\ early' = (early \/ now - lastBegun[id] < Window)

\* The end of writeSecurityCriticalEvent: the alert of the event.
NthOf(e) == <<e, raised[e]>>
WriteEvent(e) ==
  /\ raised[e] < MaxEvents
  /\ raised' = [raised EXCEPT ![e] = @ + 1]
  /\ IF Within(dedup, Id(e), clock)
     THEN /\ dedup' = Suppress(dedup, Id(e))
          /\ UNCHANGED <<sending, lastBegun, early>>
     ELSE /\ dedup' = MarkSent(dedup, Id(e), clock)
          /\ BeginSend(Id(e), 1, NthOf(e), clock)
  /\ UNCHANGED <<flush, clock, told, lost>>

\* The send ends, and with it the wait of the flush that began it.
Ends(s) ==
  /\ sending' = sending \ {s}
  /\ flush' = [f \in Flushes |-> IF s.by = <<f>> THEN [flush[f] EXCEPT !.waits = FALSE]
                                 ELSE flush[f]]
  /\ UNCHANGED <<dedup, clock, raised, lastBegun, early>>

\* The alert is delivered, or the delivery fails and it is written to the emergency log.
Sent(s) ==
  /\ Ends(s) /\ told' = [told EXCEPT ![s.id[2]] = @ + s.covers] /\ UNCHANGED lost

\* Neither: no candidate for the emergency log can be written, and nobody is told so. (A write
\* that throws there ends the process when it was a flush that waited.)
Lost(s) ==
  /\ Ends(s) /\ lost' = [lost EXCEPT ![s.id[2]] = @ + s.covers] /\ UNCHANGED told

\* flushSuppressed: the timer fires.
StartFlush(f) ==
  /\ flush[f].todo = {} /\ ~ flush[f].waits
  /\ {i \in AlertIds : dedup[i].known} # {}
  /\ flush' = [flush EXCEPT ![f] =
       [todo |-> {i \in AlertIds : dedup[i].known}, now |-> clock, waits |-> FALSE]]
  /\ UNCHANGED <<dedup, sending, clock, raised, told, lost, lastBegun, early>>

Due(i, now) == dedup[i].suppressed > 0 /\ now - dedup[i].sentAt >= Window
Skip(f, i) ==
  /\ ~ Due(i, flush[f].now)
  /\ UNCHANGED <<dedup, sending, lastBegun, early>>
  /\ flush' = [flush EXCEPT ![f].todo = @ \ {i}]

\* The count is taken and reset before the summary is emitted, under the flush's time.
Report(f, i) ==
  LET now == flush[f].now
      reset == MarkSentAndForget(dedup, i, now) IN
  /\ Due(i, now)
  /\ IF Within(reset, Summary(i), now)
     THEN /\ dedup' = Suppress(reset, Summary(i))
          /\ UNCHANGED <<sending, lastBegun, early>>
          /\ flush' = [flush EXCEPT ![f].todo = @ \ {i}]
     ELSE /\ dedup' = MarkSent(reset, Summary(i), now)
          /\ BeginSend(Summary(i), dedup[i].suppressed, <<f>>, now)
          /\ flush' = [flush EXCEPT ![f] = [todo |-> @.todo \ {i}, now |-> now, waits |-> TRUE]]

Visit(f, i) ==
  /\ ~ flush[f].waits /\ i \in flush[f].todo
  /\ Skip(f, i) \/ Report(f, i)
  /\ UNCHANGED <<clock, raised, told, lost>>

Tick ==
  /\ clock < MaxTime /\ clock' = clock + 1
  /\ UNCHANGED <<dedup, sending, flush, raised, told, lost, lastBegun, early>>

Next ==
  \/ \E e \in Events : WriteEvent(e)
  \/ \E s \in sending : Sent(s) \/ Lost(s)
  \/ \E f \in Flushes : StartFlush(f)
  \/ \E f \in Flushes, i \in AlertIds : Visit(f, i)
  \/ Tick

Spec == Init /\ [][Next]_vars

-----------------------------------------------------------------------------
(* Properties.                                                             *)

Counted(e) == dedup[Id(e)].suppressed
Covered(s) == {s} \X (1..s.covers)
OnTheWay(e) == Cardinality(UNION {Covered(s) : s \in {s \in sending : s.id[2] = e}})

\* No alert is lost in the suppression: every one is sent or logged, on its way or in the
\* count, and in one of them only, however emits, slow sends and overlapping flushes
\* interleave; the others are those whose delivery failed while no emergency log could be
\* written, alone or in the count of a summary.
EveryAlertIsAccounted ==
  \A e \in Events : raised[e] = told[e] + lost[e] + OnTheWay(e) + Counted(e)

\* Two alerts of one id, the summaries included, are never sent within one window, by
\* the times that emit is given: a flush goes on with the time at which it began.
OneAlertPerWindow == ~ early

=============================================================================
