---------------------------- MODULE QueryBatcher ----------------------------
(***************************************************************************)
(* QueryBatcher: tasks are queued and run by flush, the reads in batches   *)
(* that run together, then the writes one by one.  Calls of flush are      *)
(* chained: each begins when the one before has ended.  Tasks are          *)
(* asynchronous, so tasks may be queued and flush called at any time; a    *)
(* task itself does not wait for a flush.                                  *)
(***************************************************************************)
EXTENDS Integers, Sequences, FiniteSets, SequencesExt

CONSTANTS
  ReadTasks, WriteTasks,
  FlushCalls,
  MaxBatchSize

VARIABLES
  reads, writes,   \* readQueue, writeQueue
  pending,         \* what flushInternal took from a queue and has not started
  active,          \* tasks that run
  phase,           \* of the flush that runs: "idle", "reads" or "writes"
  chained,         \* flushChain: calls that wait, the one that runs first
  resolved,        \* calls of flush that have resolved
  queuedOrder,     \* history: writes in the order in which they were queued
  ranOrder,        \* history: writes in the order in which they began
  ended,           \* history: tasks that have ended
  promised         \* history: tasks queued when each flush was called

vars == <<reads, writes, pending, active, phase, chained, resolved, queuedOrder,
          ranOrder, ended, promised>>
history == <<queuedOrder, ranOrder, ended, promised>>

Init ==
  /\ reads = <<>> /\ writes = <<>> /\ pending = <<>> /\ active = {}
  /\ phase = "idle" /\ chained = <<>> /\ resolved = {}
  /\ queuedOrder = <<>> /\ ranOrder = <<>> /\ ended = {}
  /\ promised = [f \in FlushCalls |-> {}]

Waiting == ToSet(reads) \cup ToSet(writes) \cup ToSet(pending) \cup active
Unqueued(t) == t \notin Waiting \cup ended

EnqueueRead(t) ==
  /\ t \in ReadTasks /\ Unqueued(t)
  /\ reads' = Append(reads, t)
  /\ UNCHANGED <<writes, pending, active, phase, chained, resolved, history>>
EnqueueWrite(t) ==
  /\ t \in WriteTasks /\ Unqueued(t)
  /\ writes' = Append(writes, t) /\ queuedOrder' = Append(queuedOrder, t)
  /\ UNCHANGED <<reads, pending, active, phase, chained, resolved, ranOrder, ended, promised>>

Flush(f) ==
  /\ f \notin ToSet(chained) \cup resolved
  /\ chained' = Append(chained, f)
  /\ promised' = [promised EXCEPT ![f] = Waiting]
  /\ UNCHANGED <<reads, writes, pending, active, phase, resolved, queuedOrder, ranOrder, ended>>
StartFlushIfQueued ==
  /\ phase = "idle" /\ chained # <<>> /\ Waiting # {} /\ phase' = "reads"
  /\ UNCHANGED <<reads, writes, pending, active, chained, resolved, history>>
StartFlush ==
  /\ phase = "idle" /\ chained # <<>> /\ phase' = "reads"
  /\ UNCHANGED <<reads, writes, pending, active, chained, resolved, history>>

\* The loop over the read queue: take it whole, run it batch by batch.
BatchDone == active = {}
TakeReads ==
  /\ phase = "reads" /\ BatchDone /\ pending = <<>> /\ reads # <<>>
  /\ pending' = reads /\ reads' = <<>>
  /\ UNCHANGED <<writes, active, phase, chained, resolved, history>>
Batch == IF Len(pending) < MaxBatchSize THEN Len(pending) ELSE MaxBatchSize
RunReads ==
  /\ phase = "reads" /\ BatchDone /\ pending # <<>>
  /\ active' = ToSet(SubSeq(pending, 1, Batch))
  /\ pending' = SubSeq(pending, Batch + 1, Len(pending))
  /\ UNCHANGED <<reads, writes, phase, chained, resolved, history>>
ReadsDone ==
  /\ phase = "reads" /\ BatchDone /\ pending = <<>> /\ reads = <<>>
  /\ phase' = "writes"
  /\ UNCHANGED <<reads, writes, pending, active, chained, resolved, history>>

TakeWrites ==
  /\ phase = "writes" /\ BatchDone /\ pending = <<>> /\ writes # <<>>
  /\ pending' = writes /\ writes' = <<>>
  /\ UNCHANGED <<reads, active, phase, chained, resolved, history>>
RunWrite ==
  /\ phase = "writes" /\ BatchDone /\ pending # <<>>
  /\ active' = {Head(pending)} /\ pending' = Tail(pending)
  /\ ranOrder' = Append(ranOrder, Head(pending))
  /\ UNCHANGED <<reads, writes, phase, chained, resolved, queuedOrder, ended, promised>>

\* The promise of the call settles, and the next one in the chain may start.
EndFlush ==
  /\ phase = "writes" /\ BatchDone /\ pending = <<>> /\ writes = <<>>
  /\ phase' = "idle"
  /\ chained' = Tail(chained) /\ resolved' = resolved \cup {Head(chained)}
  /\ UNCHANGED <<reads, writes, pending, active, history>>

\* A task resolves or rejects; either way it is over.
EndTask(t) ==
  /\ t \in active /\ active' = active \ {t} /\ ended' = ended \cup {t}
  /\ UNCHANGED <<reads, writes, pending, phase, chained, resolved, queuedOrder, ranOrder, promised>>

Internal == StartFlush \/ TakeReads \/ RunReads \/ ReadsDone \/ TakeWrites \/ RunWrite \/ EndFlush
Next ==
  \/ \E t \in ReadTasks \cup WriteTasks : EnqueueRead(t) \/ EnqueueWrite(t) \/ EndTask(t)
  \/ \E f \in FlushCalls : Flush(f)
  \/ Internal

\* The event loop goes on, and every task ends.
Fairness == WF_vars(Internal) /\ \A t \in ReadTasks \cup WriteTasks : WF_vars(EndTask(t))
Spec == Init /\ [][Next]_vars /\ Fairness

-----------------------------------------------------------------------------
(* Properties.                                                             *)

\* When a flush resolves, every task that was queued before its call has ended, those
\* that an earlier flush had taken included.
FlushCoversItsTasks == \A f \in resolved : promised[f] \subseteq ended

\* The writes begin in the order in which they were queued, and never beside another
\* task, however many flushes overlap.
WritesInOrder ==
  /\ IsPrefix(ranOrder, queuedOrder)
  /\ Cardinality(active) > 1 => active \subseteq ReadTasks

\* Every call of flush resolves, though reads may be queued while it runs.
IsWaiting(f) == f \in ToSet(chained)
HasResolved(f) == f \in resolved
FlushResolves == \A f \in FlushCalls : IsWaiting(f) ~> HasResolved(f)

=============================================================================
