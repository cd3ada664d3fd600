----------------------------- MODULE TaskQueue ------------------------------
(***************************************************************************)
(* The durable task queue of the HTTP server: TaskQueueWal (a log file     *)
(* guarded by a lock file), TaskQueueService (the pending tasks in memory),*)
(* the chat route that enqueues, executes and finishes a task, and the     *)
(* startup that resumes what it recovers.  The server is one thread: a WAL *)
(* operation is synchronous and blocks it, lock wait included.  Other      *)
(* processes (CLI commands, the gateway) construct the same service and so *)
(* recover, and truncate, the same file: the observers.  The server may be *)
(* killed, and the machine may lose power, between any two steps.          *)
(***************************************************************************)
EXTENDS Integers, Sequences, SequencesExt, FiniteSets, TLC

CONSTANTS
  Tasks,          \* one per chat request; the id is the UUID enqueue draws
  NoTask,
  MaxPending,     \* MEMPHIS_MAX_PENDING_TASKS
  MaxWal,         \* MEMPHIS_QUEUE_WAL_MAX_BYTES, in records
  Mode,           \* MEMPHIS_QUEUE_MODE
  Policies,       \* the effective resume policies the server may be started with; safe
                  \* mode turns redispatch into keep
  Unplayable,     \* tasks whose payload parseQueuedChatPayload refuses
  Faults,         \* what may fail: "write" (throws, nothing written), "short" (a part
                  \* is written, the count writeSync returns is ignored), "fsync"
                  \* (throws after the write), "slow" (a lock wait of lockTimeoutMs),
                  \* "event" (the generation event cannot be inserted)
  PowerLoss,      \* BOOLEAN: crashes may lose what is not synced
  LockIsCleared,  \* BOOLEAN: somebody removes the lock file of a dead process
  MaxCrashes      \* bound on the crashes, and on the restarts that recover the log

ASSUME TasksAssumption == NoTask \notin Tasks /\ Unplayable \subseteq Tasks
ASSUME BoundsAssumption == MaxPending \in Nat \ {0} /\ MaxWal \in Nat \ {0} /\ MaxCrashes \in Nat
ASSUME OptionsAssumption ==
  /\ Mode \in {"financial", "standard"}
  /\ Policies \subseteq {"keep", "fail", "redispatch"}
  /\ PowerLoss \in BOOLEAN /\ LockIsCleared \in BOOLEAN

VARIABLES
  wal,        \* the records of the active file, as the page cache has them
  synced,     \* how many of them are on the disk for certain
  lock,       \* who created the lock file: "free", "server", "observer", "dead"
  seen,       \* an observer inside recoverAndRead: what it read of the file
  up,         \* "down", "recovering", "resuming" or "serving"
  crashes,    \* how many crashes there were
  lives,      \* how often a start of the server recovered the log
  policy,     \* the resume policy of this start
  pending,    \* TaskQueueService.pending
  recovered,  \* TaskQueueService.recoveredTaskIds
  op,         \* what the server's thread is in the middle of
  job,        \* the HTTP request of each task
  told,       \* what the service has told its caller: enqueue returned, finish returned
  runs,       \* orchestration.generate calls per task
  events      \* generation events per task

disk == <<wal, synced>>
service == <<pending, recovered>>
client == <<job, told, runs, events>>
counts == <<crashes, lives, policy>>
vars == <<disk, lock, seen, up, counts, service, op, client>>

Outcomes == {"completed", "failed"}
Records == [task : Tasks, is : Outcomes \cup {"enqueued"}]
Torn == [task |-> NoTask, is |-> "torn"]   \* an incomplete record, or one with a bad checksum
Kinds == {"none", "recover", "enqueue", "finish"}
Stages == {"calling", "waiting", "locked", "writing", "written", "recording"}
Jobs == {"new", "submitted", "running", "answered", "failed", "rejected", "lost"}

Ops == [kind : Kinds, task : Tasks \cup {NoTask}, is : Outcomes \cup {"enqueued"},
        by : {"http", "resume", "catch"}, stage : Stages]
Waiting(kind, t, is, by) ==
  [kind |-> kind, task |-> t, is |-> is, by |-> by, stage |-> "waiting"]
NoOp == Waiting("none", NoTask, "failed", "http")
At(stage) == [op EXCEPT !.stage = stage]

\* parseRecords: the records before the first one that does not parse.
Valid(w) == {i \in 1..Len(w) : \A j \in 1..i : w[j] # Torn}
ValidPrefix(w) == SubSeq(w, 1, Cardinality(Valid(w)))
\* recover: a Map that enqueue records fill and finish records empty.
PendingOf(w) ==
  {t \in Tasks : \E i \in Valid(w) :
     /\ w[i] = [task |-> t, is |-> "enqueued"]
     /\ \A j \in Valid(w) : w[j].task = t => j <= i}
FinishedIn(w) == {t \in Tasks : \E i \in Valid(w) : w[i].task = t /\ w[i].is \in Outcomes}

Init ==
  /\ wal = <<>> /\ synced = 0
  /\ lock = "free" /\ seen = <<>>
  /\ up = "down" /\ crashes = 0 /\ lives = 0 /\ policy \in Policies
  /\ pending = {} /\ recovered = {} /\ op = NoOp
  /\ job = [t \in Tasks |-> "new"]
  /\ told = [t \in Tasks |-> "nothing"]
  /\ runs = [t \in Tasks |-> 0]
  /\ events = [t \in Tasks |-> 0]

-----------------------------------------------------------------------------
(* The process.                                                            *)

\* The memory of the server is gone; its open requests get no answer.
Stops ==
  /\ up' = "down" /\ pending' = {} /\ recovered' = {} /\ op' = NoOp
  /\ job' = [t \in Tasks |-> IF job[t] \in {"submitted", "running"} THEN "lost" ELSE job[t]]
  /\ UNCHANGED <<told, runs, events>>

CrashHappens == crashes < MaxCrashes /\ crashes' = crashes + 1 /\ UNCHANGED <<lives, policy>>

Kill ==
  /\ up # "down" /\ CrashHappens
  /\ Stops
  /\ lock' = IF lock = "server" THEN "dead" ELSE lock
  /\ UNCHANGED <<disk, seen>>

\* What is not synced may be lost from the end, the last record half-way.
\* Every process dies; a lock file may have reached the disk or not.
Survivors ==
  LET Cut == {SubSeq(wal, 1, n) : n \in synced..Len(wal)}
  IN  Cut \cup {Append(w, Torn) : w \in Cut \ {wal}}
LosePower ==
  /\ PowerLoss /\ up # "down" /\ CrashHappens
  /\ Stops
  /\ \E w \in Survivors : wal' = w /\ synced' = Len(w)
  /\ seen' = <<>>
  /\ lock' \in IF lock = "free" THEN {"free"} ELSE {"free", "dead"}

\* bootstrap: the service's constructor recovers the file before anything else.
Start ==
  /\ up = "down" /\ lives <= MaxCrashes
  /\ up' = "recovering" /\ policy' \in Policies
  /\ op' = Waiting("recover", NoTask, "failed", "http")
  /\ UNCHANGED <<disk, lock, seen, crashes, lives, service, client>>

ClearLock ==
  /\ LockIsCleared /\ lock = "dead"
  /\ lock' = "free"
  /\ UNCHANGED <<disk, seen, up, counts, service, op, client>>

-----------------------------------------------------------------------------
(* Returning from a WAL operation, and throwing out of it.                 *)

SettledNotForgotten(t) ==
  /\ recovered' = recovered \ {t} /\ UNCHANGED pending
  /\ told' = [told EXCEPT ![t] = "finished"]
Settled(t) ==
  /\ pending' = pending \ {t} /\ recovered' = recovered \ {t}
  /\ told' = [told EXCEPT ![t] = "finished"]
Answers(t, as) == job' = [job EXCEPT ![t] = as]
NextUp(rest) == IF rest = {} THEN "serving" ELSE "resuming"

ToResumeNothing == {}
ToResume == IF policy = "keep" THEN {} ELSE PendingOf(wal)

\* recover() has read the log.  keep forgets which tasks were recovered; fail
\* and redispatch go through them before the server listens.
RecoverReturns ==
  /\ op.kind = "recover"
  /\ pending' = PendingOf(wal)
  /\ recovered' = ToResume
  /\ up' = NextUp(recovered')
  /\ op' = NoOp /\ UNCHANGED client

\* The chat route: the ticket is there, generate is called and awaited.
EnqueueReturns ==
  /\ op.kind = "enqueue"
  /\ pending' = pending \cup {op.task}
  /\ told' = [told EXCEPT ![op.task] = "accepted"]
  /\ runs' = [runs EXCEPT ![op.task] = @ + 1]
  /\ Answers(op.task, "running")
  /\ op' = NoOp /\ UNCHANGED <<up, recovered, events>>

\* The chat route again: a completed task has its event inserted next, a
\* failed one has its error rethrown.
FinishReturns ==
  /\ op.kind = "finish" /\ op.by = "http"
  /\ Settled(op.task)
  /\ IF op.is = "completed" THEN op' = At("recording") /\ UNCHANGED job
                            ELSE op' = NoOp /\ Answers(op.task, "failed")
  /\ UNCHANGED <<up, runs, events>>

\* The resume loop goes on to the next recovered task, or the server listens.
ResumeFinishReturns ==
  /\ op.kind = "finish" /\ op.by # "http"
  /\ Settled(op.task)
  /\ up' = NextUp(recovered')
  /\ op' = NoOp /\ UNCHANGED <<job, runs, events>>

Returns == RecoverReturns \/ EnqueueReturns \/ FinishReturns \/ ResumeFinishReturns

\* The route answers 500; the service's memory is as before.
RouteThrows ==
  /\ op.by = "http" /\ op.kind \in {"enqueue", "finish"}
  /\ Answers(op.task, IF op.kind = "enqueue" THEN "rejected" ELSE "failed")
  /\ op' = NoOp /\ UNCHANGED <<up, service, told, runs, events>>

ResumeThrowsRetries ==
  /\ op.by = "resume"
  /\ op' = Waiting("finish", op.task, "failed", "resume")
  /\ UNCHANGED <<up, service, client>>
\* The catch block of resumeRecoveredPending calls finish once more.
ResumeThrows ==
  /\ op.by = "resume"
  /\ op' = Waiting("finish", op.task, "failed", "catch")
  /\ UNCHANGED <<up, service, client>>

\* Nothing catches what the constructor or that catch block throws.
StartupThrows == (op.kind = "recover" \/ op.by = "catch") /\ Stops

Throws == RouteThrows \/ ResumeThrows \/ StartupThrows

-----------------------------------------------------------------------------
(* TaskQueueWal: the steps inside withLock.                                *)

TakeLock ==
  /\ op.kind # "none" /\ op.stage = "waiting" /\ lock = "free"
  /\ lock' = "server" /\ op' = At("locked")
  /\ UNCHANGED <<disk, seen, up, counts, service, client>>

LockTimeout ==
  /\ op.kind # "none" /\ op.stage = "waiting"
  /\ lock = "dead" \/ (lock = "observer" /\ "slow" \in Faults)
  /\ Throws
  /\ UNCHANGED <<disk, lock, seen, counts>>

SyncedOf(n) == IF synced > n THEN n ELSE synced

\* recoverAndRead: read, truncate what does not parse, return.
Recover ==
  /\ op.kind = "recover" /\ op.stage = "locked"
  /\ wal' = ValidPrefix(wal)
  /\ synced' = SyncedOf(Len(wal'))
  /\ lock' = "free" /\ lives' = lives + 1 /\ RecoverReturns
  /\ UNCHANGED <<seen, crashes, policy>>

\* rotateIfNeeded: the file becomes an archive that nothing reads again.
Fits == Len(wal) < MaxWal
Rotate ==
  /\ op.kind \in {"enqueue", "finish"} /\ op.stage = "locked" /\ ~ Fits
  /\ wal' = <<>> /\ synced' = 0
  /\ UNCHANGED <<lock, seen, up, counts, service, op, client>>

BeginWrite ==
  /\ op.kind \in {"enqueue", "finish"} /\ op.stage = "locked" /\ Fits
  /\ wal' = Append(wal, Torn) /\ op' = At("writing")
  /\ UNCHANGED <<synced, lock, seen, up, counts, service, client>>

EndWrite ==
  /\ op.stage = "writing" /\ op' = At("written")
  /\ \/ wal' = Append(Front(wal), [task |-> op.task, is |-> op.is])
     \/ "short" \in Faults /\ wal' = wal
  /\ UNCHANGED <<synced, lock, seen, up, counts, service, client>>

\* financial syncs before the call returns, standard does not.
NotFlushed == synced
Flushed == IF Mode = "financial" THEN Len(wal) ELSE synced
Release ==
  /\ op.stage = "written" /\ lock' = "free"
  /\ synced' = Flushed
  /\ Returns
  /\ UNCHANGED <<wal, seen, counts>>

WriteThrows ==
  /\ \/ "write" \in Faults /\ op.stage = "locked" /\ op.kind # "recover" /\ Fits
     \/ "fsync" \in Faults /\ op.stage = "written" /\ Mode = "financial"
  /\ lock' = "free" /\ Throws
  /\ UNCHANGED <<disk, seen, counts>>

\* Another process constructs the service: it holds the lock from the read to
\* the truncation.  What it keeps in memory is never used.
ObserverReadsUnlocked ==
  /\ seen = <<>> /\ seen' = wal
  /\ UNCHANGED <<disk, lock, up, counts, service, op, client>>
ObserverReads ==
  /\ lock = "free"
  /\ lock' = "observer" /\ seen' = wal
  /\ UNCHANGED <<disk, up, counts, service, op, client>>

ObserverTruncates ==
  /\ lock = "observer" \/ seen # <<>>
  /\ wal' = IF ValidPrefix(seen) = seen THEN wal ELSE ValidPrefix(seen)
  /\ synced' = SyncedOf(Len(wal'))
  /\ seen' = <<>> /\ lock' = IF lock = "observer" THEN "free" ELSE lock
  /\ UNCHANGED <<up, counts, service, op, client>>

ObserverDies ==
  /\ lock = "observer" /\ CrashHappens
  /\ lock' = "dead" /\ seen' = <<>>
  /\ UNCHANGED <<disk, up, service, op, client>>

-----------------------------------------------------------------------------
(* The chat route and the resume of recovered tasks.                       *)

Idle == op.kind = "none"

\* POST /v1/chat/generate up to the WAL operation of enqueue: 429 when full.
Full == Cardinality(pending) >= MaxPending
Submit(t) ==
  /\ up = "serving" /\ Idle /\ job[t] = "new"
  /\ IF Full THEN Answers(t, "rejected") /\ UNCHANGED op
             ELSE Answers(t, "submitted") /\ op' = Waiting("enqueue", t, "enqueued", "http")
  /\ UNCHANGED <<disk, lock, seen, up, counts, service, told, runs, events>>

\* The awaited generate resolves or rejects; finish follows in the same tick.
GenerateReturns(t) ==
  /\ up = "serving" /\ Idle /\ job[t] = "running"
  /\ \E is \in Outcomes : op' = Waiting("finish", t, is, "http")
  /\ UNCHANGED <<disk, lock, seen, up, counts, service, client>>

\* generationEventRepository.create, the last thing before the answer.
RouteRecords ==
  /\ op.stage = "recording" /\ op.by = "http" /\ op' = NoOp
  /\ \/ Answers(op.task, "answered") /\ events' = [events EXCEPT ![op.task] = @ + 1]
     \/ "event" \in Faults /\ Answers(op.task, "failed") /\ UNCHANGED events
  /\ UNCHANGED <<disk, lock, seen, up, counts, service, told, runs>>

\* resumeRecoveredPending: the next recovered task.  fail finishes it,
\* redispatch executes it first, unless its payload cannot be played.
ResumeNext(t) ==
  /\ up = "resuming" /\ Idle /\ t \in recovered
  /\ IF policy = "fail" \/ t \in Unplayable
     THEN op' = Waiting("finish", t, "failed", "resume") /\ UNCHANGED runs
     ELSE /\ op' = [Waiting("finish", t, "completed", "resume") EXCEPT !.stage = "calling"]
          /\ runs' = [runs EXCEPT ![t] = @ + 1]
  /\ UNCHANGED <<disk, lock, seen, up, counts, service, job, told, events>>

RedispatchRetries ==
  /\ op.stage = "calling"
  /\ \/ op' = At("recording")
     \/ op' = NoOp
  /\ UNCHANGED <<disk, lock, seen, up, counts, service, client>>
\* redispatchRecoveredTask: generate returned, or threw into the catch block.
RedispatchReturns ==
  /\ op.stage = "calling"
  /\ op' \in {At("recording"), Waiting("finish", op.task, "failed", "catch")}
  /\ UNCHANGED <<disk, lock, seen, up, counts, service, client>>

\* Here the event comes before finish, and its failure is caught like generate's.
RedispatchRecords ==
  /\ op.stage = "recording" /\ op.by = "resume"
  /\ \/ op' = At("waiting") /\ events' = [events EXCEPT ![op.task] = @ + 1]
     \/ /\ "event" \in Faults /\ UNCHANGED events
        /\ op' = Waiting("finish", op.task, "failed", "catch")
  /\ UNCHANGED <<disk, lock, seen, up, counts, service, job, told, runs>>

ServerStep ==
  \/ TakeLock \/ LockTimeout \/ Recover \/ Rotate \/ BeginWrite \/ EndWrite \/ Release
  \/ WriteThrows \/ RouteRecords \/ RedispatchReturns \/ RedispatchRecords
  \/ \E t \in Tasks : GenerateReturns(t) \/ ResumeNext(t)

Next ==
  \/ ServerStep \/ \E t \in Tasks : Submit(t)
  \/ Start \/ Kill \/ LosePower \/ ClearLock
  \/ ObserverReads \/ ObserverTruncates \/ ObserverDies

Spec == Init /\ [][Next]_vars

\* The event loop runs, every await ends (providers are called with a timeout),
\* a supervisor restarts a stopped server, and a process that holds the lock
\* releases it.  Observers come and go for ever: the lock, polled every 10 ms, is
\* eventually found free (SF).
FairSpec ==
  /\ Spec
  /\ WF_vars(Start) /\ WF_vars(ClearLock) /\ WF_vars(ObserverTruncates)
  /\ WF_vars(ServerStep) /\ SF_vars(TakeLock)
  /\ \A t \in Tasks : WF_vars(GenerateReturns(t)) /\ WF_vars(ResumeNext(t))

-----------------------------------------------------------------------------
(* Properties.                                                             *)

\* Every variable has its type, and what is synced is a prefix of the log.
TypeOK ==
  /\ wal \in Seq(Records \cup {Torn}) /\ synced \in 0..Len(wal)
  /\ lock \in {"free", "server", "observer", "dead"}
  /\ seen \in Seq(Records \cup {Torn})
  /\ up \in {"down", "recovering", "resuming", "serving"}
  /\ crashes \in 0..MaxCrashes /\ lives \in 0..MaxCrashes + 1 /\ policy \in Policies
  /\ pending \subseteq Tasks /\ recovered \subseteq Tasks
  /\ op \in Ops
  /\ job \in [Tasks -> Jobs]
  /\ told \in [Tasks -> {"nothing", "accepted", "finished"}]
  /\ runs \in [Tasks -> Nat] /\ events \in [Tasks -> Nat]

\* What a crash may leave of the log at this moment.
AfterCrash == IF PowerLoss THEN Survivors ELSE {wal}

\* A task whose enqueue returned is never forgotten: whatever a crash leaves of the
\* log, a restart finds the task pending, or its outcome (TaskQueueService.recover
\* over TaskQueueWal.recoverAndRead).
AcceptedSurvives ==
  \A t \in Tasks : told[t] = "accepted" =>
    \A w \in AfterCrash : t \in PendingOf(w) \cup FinishedIn(w)

\* A task whose finish returned is never pending again: whatever a crash leaves of
\* the log, no restart redispatches an execution whose outcome was reported.
FinishedSurvives ==
  \A t \in Tasks : told[t] = "finished" => \A w \in AfterCrash : t \notin PendingOf(w)

\* Between WAL operations the Map in memory is what a restart would rebuild from
\* the file, so the 429 guard counts the tasks that really are pending.
MemoryMatchesLog ==
  up \in {"resuming", "serving"} /\ (Idle \/ op.stage \in {"calling", "recording"})
    => pending = PendingOf(wal)

\* Under keep, a task that was accepted and whose request a crash cut off stays
\* pending through every later restart.
KeptTasksStayPending ==
  Policies = {"keep"} /\ up = "serving" /\ Idle =>
    \A t \in Tasks : told[t] = "accepted" /\ job[t] = "lost"
                       => t \in pending \cup FinishedIn(wal)

\* The server never holds more tasks than maxPendingTasks, although recover() adds
\* what it reads without testing the limit.
CapacityHolds == Cardinality(pending) <= MaxPending

\* A request that got a 429 or a 500 out of enqueue is not executed later.
RejectedNeverRuns == \A t \in Tasks : job[t] = "rejected" => runs[t] = 0

\* A task is executed at most once in each life of the server, however its WAL
\* operations fail: a second execution needs a restart in between.
OneRunPerLife == \A t \in Tasks : runs[t] <= lives

\* finish is only called for a task the service holds (it would return false and
\* write nothing), by an open request or by the resume loop.
FinishFindsItsTask ==
  /\ op.kind = "finish" /\ op.stage # "recording" => op.task \in pending
  /\ \A t \in Tasks : job[t] = "running" /\ ~ (op.task = t /\ op.stage = "recording")
                       => t \in pending

\* A generation event is recorded at most once per execution, and a request
\* answered with a result has one.
EventsFollowRuns ==
  \A t \in Tasks : events[t] <= runs[t] /\ (job[t] = "answered" => events[t] >= 1)

\* The three promises the answers of the service make, together: what was accepted or
\* finished stays so, and what was refused never runs.
AnswersHold == AcceptedSurvives /\ FinishedSurvives /\ RejectedNeverRuns

\* The service's memory is sound: typed, what the log says, and within the capacity.
MemoryIsSound == TypeOK /\ MemoryMatchesLog /\ CapacityHolds

\* Executions, the outcomes that end them and the events that tell of them stay in step.
RunsAreOrderly == OneRunPerLife /\ FinishFindsItsTask /\ EventsFollowRuns

\* An accepted task gets an outcome that no later crash takes back, unless the
\* finish of its request threw: nothing calls it again, and the task keeps its
\* place in the queue until the next restart (chat route, resumeRecoveredPending).
Leaked(t) == up = "serving" /\ job[t] = "failed" /\ t \in pending
EveryTaskSettles ==
  \A t \in Tasks :
    told[t] = "accepted" ~> ([](t \in FinishedIn(wal)) \/ Leaked(t))

\* The server always comes up, or stops with an error: the resume loop ends.
StartupEnds == up \in {"recovering", "resuming"} ~> up \in {"serving", "down"}

\* The queue keeps the promise of DurableQueue: a task is where the log has it.
Place(t) == IF t \in FinishedIn(wal) THEN "settled"
            ELSE IF t \in PendingOf(wal) THEN "held" ELSE "none"
Promise == INSTANCE DurableQueue WITH place <- [t \in Tasks |-> Place(t)]
KeepsPromise == Promise!DQSpec

-----------------------------------------------------------------------------
MCSymmetry == Permutations(Tasks)   \* for TLC

=============================================================================
