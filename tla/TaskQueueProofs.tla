-------------------------- MODULE TaskQueueProofs --------------------------
(* Theorems about TaskQueue for every set of tasks, every capacity, log    *)
(* size and number of crashes, and under every resume policy.              *)
EXTENDS TaskQueue, FiniteSetTheorems, TLAPS

USE TasksAssumption, BoundsAssumption, OptionsAssumption

-----------------------------------------------------------------------------
(* Types, and what the server's thread may be in the middle of.            *)

InWal == op.stage \in {"locked", "writing", "written"}

\* recover runs while the constructor does, enqueue for a submitted request, finish for
\* a running one or for a recovered task; the lock file is the server's exactly inside
\* withLock, and what an observer read is what the file still holds.
Threaded ==
  /\ op.kind = "none" => op = NoOp
  /\ op.kind = "recover" <=> up = "recovering"
  /\ op.kind = "recover" =>
       op.stage \in {"waiting", "locked"} /\ op.by = "http" /\ lives <= MaxCrashes
  /\ op.kind = "enqueue" =>
       /\ up = "serving" /\ op.by = "http" /\ op.task \in Tasks /\ op.is = "enqueued"
       /\ op.stage \notin {"calling", "recording"} /\ job[op.task] = "submitted"
  /\ op.kind = "finish" =>
       /\ op.task \in Tasks /\ op.is \in Outcomes
       /\ \/ up = "serving" /\ op.by = "http" /\ op.stage # "calling" /\ job[op.task] = "running"
          \/ /\ up = "resuming" /\ op.by # "http" /\ op.task \in recovered
             /\ op.stage \in {"calling", "recording"} => op.by = "resume"
  /\ lock = "server" <=> InWal
  /\ seen # <<>> => lock = "observer" /\ seen = wal
TypeInv == TypeOK /\ Threaded

Logs == Seq(Records \cup {Torn})

\* Cutting a log, or ending it with half a record, leaves a log.
LEMMA LogType ==
  ASSUME NEW w \in Logs
  PROVE  /\ \A n \in 0..Len(w) : SubSeq(w, 1, n) \in Logs /\ Len(SubSeq(w, 1, n)) = n
         /\ \A rec \in Records \cup {Torn} : Append(w, rec) \in Logs
         /\ Front(w) \in Logs /\ Len(Front(w)) = (IF w = <<>> THEN 0 ELSE Len(w) - 1)
BY DEF Logs, Front

LEMMA ValidType ==
  ASSUME NEW w \in Logs
  PROVE  /\ Valid(w) \subseteq 1..Len(w) /\ IsFiniteSet(Valid(w))
         /\ Cardinality(Valid(w)) \in 0..Len(w)
         /\ ValidPrefix(w) \in Logs /\ Len(ValidPrefix(w)) = Cardinality(Valid(w))
<1>1. Valid(w) \subseteq 1..Len(w) /\ Len(w) \in Nat
  BY DEF Valid, Logs
<1>2. IsFiniteSet(1..Len(w)) /\ Cardinality(1..Len(w)) = Len(w)
  <2>1. 1 \in Int /\ Len(w) \in Int
    BY <1>1
  <2>2. Cardinality(1..Len(w)) = (IF 1 > Len(w) THEN 0 ELSE Len(w) - 1 + 1)
    BY <2>1, FS_Interval
  <2>3. IsFiniteSet(1..Len(w))
    BY <2>1, FS_Interval
  <2> QED BY <1>1, <2>2, <2>3
<1>3. IsFiniteSet(Valid(w)) /\ Cardinality(Valid(w)) <= Len(w)
  BY <1>1, <1>2, FS_Subset
<1>4. Cardinality(Valid(w)) \in Nat
  BY <1>3, FS_CardinalityType
<1>5. Cardinality(Valid(w)) \in 0..Len(w)
  BY <1>1, <1>3, <1>4
<1>6. ValidPrefix(w) \in Logs /\ Len(ValidPrefix(w)) = Cardinality(Valid(w))
  BY <1>5, LogType DEF ValidPrefix
<1> QED BY <1>1, <1>3, <1>5, <1>6

LEMMA PendingType ==
  (\A w : PendingOf(w) \subseteq Tasks) /\ ToResume \subseteq PendingOf(wal)
BY DEF PendingOf, ToResume

LEMMA WaitingType ==
  ASSUME NEW kind \in Kinds, NEW t \in Tasks \cup {NoTask},
         NEW is \in Outcomes \cup {"enqueued"}, NEW by \in {"http", "resume", "catch"}
  PROVE  /\ Waiting(kind, t, is, by) \in Ops
         /\ Waiting(kind, t, is, by).kind = kind /\ Waiting(kind, t, is, by).task = t
         /\ Waiting(kind, t, is, by).is = is /\ Waiting(kind, t, is, by).by = by
         /\ Waiting(kind, t, is, by).stage = "waiting"
BY DEF Waiting, Ops, Stages

LEMMA AtType ==
  ASSUME op \in Ops, NEW stage \in Stages
  PROVE  /\ At(stage) \in Ops
         /\ At(stage).kind = op.kind /\ At(stage).task = op.task /\ At(stage).is = op.is
         /\ At(stage).by = op.by /\ At(stage).stage = stage
BY DEF At, Ops

LEMMA NoOpType ==
  /\ NoOp \in Ops /\ NoOp.kind = "none" /\ NoOp.stage = "waiting" /\ NoOp.task = NoTask
  /\ NoOp.by = "http"
BY WaitingType DEF NoOp, Kinds, Outcomes

\* The server's memory goes with it.
LEMMA StopsType ==
  ASSUME TypeInv, Stops
  PROVE  /\ up' = "down" /\ pending' = {} /\ recovered' = {} /\ op' = NoOp
         /\ job' \in [Tasks -> Jobs] /\ UNCHANGED <<told, runs, events>>
         /\ \A t \in Tasks : job'[t] = IF job[t] \in {"submitted", "running"} THEN "lost" ELSE job[t]
BY DEF TypeInv, TypeOK, Stops, Jobs

\* A call of the log that throws ends the request, asks the resume loop once more to
\* finish the task, or ends the server.
LEMMA ThrowsType ==
  ASSUME TypeInv, Throws, op.kind # "none", op.stage \in {"waiting", "locked", "written"}
  PROVE  /\ up' \in {"down", "recovering", "resuming", "serving"}
         /\ pending' \subseteq Tasks /\ recovered' \subseteq Tasks /\ op' \in Ops
         /\ job' \in [Tasks -> Jobs] /\ UNCHANGED <<told, runs, events>>
         /\ op'.stage = "waiting" /\ (op'.kind = "none" => op' = NoOp)
         /\ op'.kind # "none" => /\ op'.kind = "finish" /\ op'.by = "catch" /\ op'.is = "failed"
                                 /\ op.kind = "finish" /\ op'.task = op.task /\ up = "resuming"
                                 /\ UNCHANGED <<up, recovered>>
         /\ up' # "recovering"
<1>1. CASE StartupThrows
  BY <1>1, StopsType, NoOpType DEF StartupThrows
<1>2. CASE RouteThrows
  <2>1. op.task \in Tasks /\ up = "serving"
    BY <1>2 DEF RouteThrows, TypeInv, Threaded
  <2>2. job' \in [Tasks -> Jobs]
    BY <1>2, <2>1 DEF RouteThrows, Answers, TypeInv, TypeOK, Jobs
  <2> QED BY <1>2, <2>1, <2>2, NoOpType DEF RouteThrows, TypeInv, TypeOK, service
<1>3. CASE ResumeThrows
  <2>1. op.kind = "finish" /\ op.task \in Tasks /\ up = "resuming"
    BY <1>3 DEF ResumeThrows, TypeInv, Threaded, TypeOK, Ops, Kinds
  <2>2. op' \in Ops /\ op'.kind = "finish" /\ op'.by = "catch" /\ op'.stage = "waiting"
        /\ op'.task = op.task /\ op'.is = "failed"
    BY <1>3, <2>1, WaitingType DEF ResumeThrows, Kinds, Outcomes
  <2> QED BY <1>3, <2>1, <2>2 DEF ResumeThrows, TypeInv, TypeOK, service, client
<1> QED BY <1>1, <1>2, <1>3 DEF Throws

LEMMA ReturnsType ==
  ASSUME TypeInv, Returns, op.stage \in {"locked", "written"},
         op.kind = "recover" <=> op.stage = "locked"
  PROVE  /\ up' \in {"resuming", "serving"}
         /\ pending' \subseteq Tasks /\ recovered' \subseteq Tasks /\ op' \in Ops
         /\ job' \in [Tasks -> Jobs]
         /\ told' \in [Tasks -> {"nothing", "accepted", "finished"}]
         /\ runs' \in [Tasks -> Nat] /\ UNCHANGED events
         /\ op'.stage \in {"waiting", "recording"}
         /\ op'.kind = "none" => op' = NoOp
         /\ op'.kind # "none" => /\ op'.kind = "finish" /\ op'.by = "http" /\ op'.is \in Outcomes
                                 /\ op'.task \in Tasks /\ job'[op'.task] = "running"
                                 /\ up' = "serving"
<1> USE DEF TypeInv, TypeOK
<1>1. CASE RecoverReturns
  BY <1>1, PendingType, NoOpType DEF RecoverReturns, NextUp, client
<1>2. CASE EnqueueReturns
  <2>1. op.task \in Tasks /\ up = "serving"
    BY <1>2 DEF EnqueueReturns, Threaded
  <2>2. job' \in [Tasks -> Jobs]
    BY <1>2, <2>1 DEF EnqueueReturns, Answers, Jobs
  <2>3. told' \in [Tasks -> {"nothing", "accepted", "finished"}]
    <3>1. told' = [told EXCEPT ![op.task] = "accepted"]
      BY <1>2 DEF EnqueueReturns
    <3> QED BY <3>1
  <2>4. runs' \in [Tasks -> Nat]
    <3>1. runs' = [runs EXCEPT ![op.task] = @ + 1]
      BY <1>2 DEF EnqueueReturns
    <3>2. runs \in [Tasks -> Nat] /\ runs[op.task] + 1 \in Nat
      BY <2>1
    <3> QED BY <3>1, <3>2
  <2> QED BY <1>2, <2>1, <2>2, <2>3, <2>4, NoOpType DEF EnqueueReturns
<1>3. CASE FinishReturns
  <2>1. op.task \in Tasks /\ up = "serving" /\ op.is \in Outcomes /\ job[op.task] = "running"
    BY <1>3 DEF FinishReturns, Threaded
  <2>2. CASE op.is = "completed"
    BY <1>3, <2>1, <2>2, AtType DEF FinishReturns, Settled, Stages
  <2>3. CASE op.is # "completed"
    <3>1. job' \in [Tasks -> Jobs]
      BY <1>3, <2>1, <2>3 DEF FinishReturns, Answers, Jobs
    <3> QED BY <1>3, <2>1, <2>3, <3>1, NoOpType DEF FinishReturns, Settled
  <2> QED BY <2>2, <2>3
<1>4. CASE ResumeFinishReturns
  <2>1. op.task \in Tasks
    BY <1>4 DEF ResumeFinishReturns, Threaded
  <2> QED BY <1>4, <2>1, NoOpType DEF ResumeFinishReturns, Settled, NextUp
<1> QED BY <1>1, <1>2, <1>3, <1>4 DEF Returns

LEMMA CutType ==
  ASSUME TypeOK, wal' \in Logs, synced' = SyncedOf(Len(wal'))
  PROVE  synced' \in 0..Len(wal')
<1>1. Len(wal') \in Nat /\ synced \in Nat
  BY DEF Logs, TypeOK
<1> QED BY <1>1 DEF SyncedOf

\* What power loss leaves is a log of which everything is on the disk.
LEMMA SurvivorType ==
  ASSUME TypeOK, NEW w \in Survivors
  PROVE  /\ w \in Logs
         /\ \E n \in synced..Len(wal) : w = SubSeq(wal, 1, n) \/ w = Append(SubSeq(wal, 1, n), Torn)
<1>1. \E n \in synced..Len(wal) : w = SubSeq(wal, 1, n) \/ w = Append(SubSeq(wal, 1, n), Torn)
  BY DEF Survivors
<1>2. wal \in Logs /\ synced \in 0..Len(wal) /\ Len(wal) \in Nat
  BY DEF TypeOK, Logs
<1>3. PICK n \in synced..Len(wal) : w = SubSeq(wal, 1, n) \/ w = Append(SubSeq(wal, 1, n), Torn)
  BY <1>1
<1>4. SubSeq(wal, 1, n) \in Logs
  <2>1. n \in 0..Len(wal)
    BY <1>2
  <2> QED BY <1>2, <2>1, LogType
<1>5. w \in Logs
  <2>1. Append(SubSeq(wal, 1, n), Torn) \in Logs
    BY <1>4, LogType
  <2> QED BY <1>3, <1>4, <2>1
<1> QED BY <1>1, <1>5

LEMMA TypeStep == TypeInv /\ [Next]_vars => TypeInv'
<1> SUFFICES ASSUME TypeInv, [Next]_vars PROVE TypeInv'
  OBVIOUS
<1> USE DEF TypeInv
<1>a. /\ wal \in Logs /\ seen \in Logs /\ Torn \in Records \cup {Torn} /\ op \in Ops
      /\ Len(wal) \in Nat /\ synced \in 0..Len(wal)
  BY DEF TypeOK, Logs
<1>1. CASE TakeLock
  <2>1. op'.stage = "locked" /\ op'.kind = op.kind /\ op'.task = op.task /\ op'.is = op.is
        /\ op'.by = op.by /\ op' \in Ops
    BY <1>1, <1>a, AtType DEF TakeLock, Stages
  <2>2. TypeOK'
    BY <1>1, <2>1 DEF TakeLock, TypeOK, disk, counts, service, client
  <2>3. Threaded'
    BY <1>1, <2>1 DEF TakeLock, Threaded, InWal, disk, counts, service, client
  <2> QED BY <2>2, <2>3
<1>2. ASSUME Throws, UNCHANGED <<disk, seen, counts>>,
             op.kind # "none", op.stage \in {"waiting", "locked", "written"},
             lock' = IF InWal THEN "free" ELSE lock
      PROVE  TypeInv'
  <2>1. TypeOK'
    BY <1>2, ThrowsType DEF TypeOK, disk, counts
  <2>2. Threaded'
    <3>1. CASE op'.kind = "none"
      BY <1>2, <3>1, ThrowsType, NoOpType DEF Threaded, InWal, disk, counts, TypeOK
    <3>2. CASE op'.kind # "none"
      <4>1. op.task \in Tasks /\ op.task \in recovered /\ op.kind = "finish" /\ up = "resuming"
        BY <1>2, <3>2, ThrowsType DEF Threaded
      <4> QED BY <1>2, <3>2, <4>1, ThrowsType DEF Threaded, InWal, disk, counts, Outcomes, TypeOK
    <3> QED BY <3>1, <3>2
  <2> QED BY <2>1, <2>2
<1>3. CASE Recover
  <2>1. wal' \in Logs /\ synced' \in 0..Len(wal')
    BY <1>3, <1>a, ValidType, CutType DEF Recover
  <2>2. Returns /\ op.kind = "recover" /\ op.stage = "locked" /\ lives <= MaxCrashes
    BY <1>3 DEF Recover, Returns, Threaded
  <2>3. TypeOK'
    BY <1>3, <2>1, <2>2, ReturnsType DEF Recover, TypeOK, Logs
  <2>4. Threaded'
    BY <1>3, <2>2, ReturnsType DEF Recover, RecoverReturns, NoOp, Waiting, Threaded, InWal
  <2> QED BY <2>3, <2>4
<1>4. CASE Rotate
  <2>1. TypeOK'
    BY <1>4 DEF Rotate, TypeOK, counts, service, client
  <2>2. Threaded'
    BY <1>4 DEF Rotate, Threaded, InWal, counts, service, client
  <2> QED BY <2>1, <2>2
<1>5. CASE BeginWrite
  <2>1. op'.stage = "writing" /\ op'.kind = op.kind /\ op'.task = op.task /\ op'.is = op.is
        /\ op'.by = op.by /\ op' \in Ops
    BY <1>5, <1>a, AtType DEF BeginWrite, Stages
  <2>2. wal' \in Logs /\ synced' \in 0..Len(wal')
    BY <1>5, <1>a, LogType DEF BeginWrite, Logs
  <2>3. TypeOK'
    BY <1>5, <2>1, <2>2 DEF BeginWrite, TypeOK, counts, service, client, Logs
  <2>4. Threaded'
    BY <1>5, <2>1 DEF BeginWrite, Threaded, InWal, counts, service, client
  <2> QED BY <2>3, <2>4
<1>6. CASE EndWrite
  <2>1. op'.stage = "written" /\ op'.kind = op.kind /\ op'.task = op.task /\ op'.is = op.is
        /\ op'.by = op.by /\ op' \in Ops
    BY <1>6, <1>a, AtType DEF EndWrite, Stages
  <2>2. op.kind \in {"enqueue", "finish"} /\ op.task \in Tasks
    BY <1>6, <1>a, NoOpType DEF EndWrite, Threaded, Ops, Kinds
  <2>3. wal' \in Logs /\ synced' \in 0..Len(wal')
    <3>1. CASE wal' = wal
      BY <1>6, <1>a, <3>1 DEF EndWrite
    <3>2. CASE wal' = Append(Front(wal), [task |-> op.task, is |-> op.is])
      <4>1. [task |-> op.task, is |-> op.is] \in Records
        BY <1>a, <2>2 DEF Ops, Records
      <4>2. Front(wal) \in Logs /\ Len(Front(wal)) \in Nat /\ Len(Front(wal)) + 1 >= Len(wal)
        BY <1>a, LogType
      <4>3. wal' \in Logs /\ Len(wal') >= Len(wal) /\ Len(wal') \in Nat
        BY <3>2, <4>1, <4>2 DEF Logs
      <4> QED BY <1>6, <1>a, <4>3 DEF EndWrite
    <3> QED BY <1>6, <3>1, <3>2 DEF EndWrite
  <2>4. TypeOK'
    BY <1>6, <2>1, <2>3 DEF EndWrite, TypeOK, counts, service, client, Logs
  <2>5. lock = "server" /\ seen = <<>>
    BY <1>6 DEF EndWrite, Threaded, InWal
  <2>6. Threaded'
    BY <1>6, <2>1, <2>2, <2>5 DEF EndWrite, Threaded, InWal, counts, service, client
  <2> QED BY <2>4, <2>6
<1>7. CASE Release
  <2>1. op.kind # "recover"
    BY <1>7 DEF Release, Threaded
  <2>2. TypeOK'
    BY <1>7, <2>1, <1>a, ReturnsType DEF Release, TypeOK, Flushed, counts
  <2>3. Threaded'
    BY <1>7, <2>1, ReturnsType DEF Release, Threaded, InWal, counts
  <2> QED BY <2>2, <2>3
<1>8. CASE LockTimeout
  <2>1. ~ InWal /\ UNCHANGED lock
    BY <1>8 DEF LockTimeout, InWal
  <2> QED BY <1>2, <1>8, <2>1 DEF LockTimeout
<1>9. CASE WriteThrows
  <2>1. op.kind # "none" /\ InWal
    BY <1>9, NoOpType DEF WriteThrows, InWal, Threaded
  <2> QED BY <1>2, <1>9, <2>1 DEF WriteThrows
<1>10. ASSUME Stops, UNCHANGED <<lives, policy>>, crashes' \in 0..MaxCrashes,
              wal' \in Logs, synced' \in 0..Len(wal'), seen' \in Logs,
              lock' \in {"free", "observer", "dead"},
              seen' # <<>> => lock' = "observer" /\ seen' = wal'
       PROVE  TypeInv'
  <2>1. TypeOK'
    BY <1>10, StopsType, NoOpType DEF TypeOK, Logs
  <2>2. Threaded'
    BY <1>10, StopsType, NoOpType DEF Threaded, InWal
  <2> QED BY <2>1, <2>2
<1>11. CASE Kill
  <2>1. crashes' \in 0..MaxCrashes /\ UNCHANGED <<lives, policy>>
    BY <1>11 DEF Kill, CrashHappens, TypeOK
  <2>2. lock' \in {"free", "observer", "dead"}
    BY <1>11 DEF Kill, TypeOK
  <2>3. seen' # <<>> => lock' = "observer" /\ seen' = wal'
    BY <1>11 DEF Kill, Threaded, disk
  <2> QED BY <1>10, <1>11, <1>a, <2>1, <2>2, <2>3 DEF Kill, disk
<1>12. CASE LosePower
  <2>1. crashes' \in 0..MaxCrashes /\ UNCHANGED <<lives, policy>>
    BY <1>12 DEF LosePower, CrashHappens, TypeOK
  <2>2. PICK w \in Survivors : wal' = w /\ synced' = Len(w)
    BY <1>12 DEF LosePower
  <2>3. wal' \in Logs /\ synced' \in 0..Len(wal')
    <3>1. w \in Logs
      BY SurvivorType
    <3> QED BY <2>2, <3>1 DEF Logs
  <2>4. seen' = <<>> /\ seen' \in Logs /\ lock' \in {"free", "observer", "dead"}
    BY <1>12 DEF LosePower, Logs
  <2> QED BY <1>10, <1>12, <2>1, <2>3, <2>4 DEF LosePower
<1>13. CASE Start
  <2>1. /\ op'.kind = "recover" /\ op'.stage = "waiting" /\ op'.by = "http" /\ op' \in Ops
    BY <1>13, WaitingType DEF Start, Kinds, Outcomes
  <2>2. lives <= MaxCrashes /\ lock # "server"
    BY <1>13 DEF Start, Threaded, InWal, TypeOK, Ops, Kinds, NoOp, Waiting
  <2>3. TypeOK'
    BY <1>13, <2>1 DEF Start, TypeOK, disk, service, client
  <2>4. Threaded'
    BY <1>13, <2>1, <2>2 DEF Start, Threaded, InWal, disk, service, client
  <2> QED BY <2>3, <2>4
<1>14. CASE ClearLock
  <2>1. TypeOK'
    BY <1>14 DEF ClearLock, TypeOK, disk, counts, service, client
  <2>2. Threaded'
    BY <1>14 DEF ClearLock, Threaded, InWal, disk, counts, service, client
  <2> QED BY <2>1, <2>2
<1>15. CASE ObserverReads
  <2>1. TypeOK'
    BY <1>15 DEF ObserverReads, TypeOK, disk, counts, service, client
  <2>2. Threaded'
    BY <1>15 DEF ObserverReads, Threaded, InWal, disk, counts, service, client
  <2> QED BY <2>1, <2>2
<1>16. CASE ObserverTruncates
  <2>1. wal' \in Logs /\ synced' \in 0..Len(wal')
    BY <1>16, <1>a, ValidType, CutType DEF ObserverTruncates
  <2>2. TypeOK'
    BY <1>16, <2>1 DEF ObserverTruncates, TypeOK, counts, service, client, Logs
  <2>3. Threaded'
    BY <1>16 DEF ObserverTruncates, Threaded, InWal, counts, service, client
  <2> QED BY <2>2, <2>3
<1>17. CASE ObserverDies
  <2>1. TypeOK'
    BY <1>17 DEF ObserverDies, CrashHappens, TypeOK, disk, counts, service, client
  <2>2. Threaded'
    BY <1>17 DEF ObserverDies, CrashHappens, Threaded, InWal, disk, counts, service, client
  <2> QED BY <2>1, <2>2

\* The chat route and the resume loop between two calls of the log.
<1>18. ASSUME UNCHANGED <<disk, lock, seen, up, counts, service, told>>,
              op' \in Ops, op'.stage \in {"waiting", "calling", "recording"}, ~ InWal,
              op'.kind = "none" => op' = NoOp,
              op.kind # "recover", op'.kind # "recover",
              op'.kind = "enqueue" => /\ up = "serving" /\ op'.by = "http" /\ op'.task \in Tasks
                                     /\ op'.is = "enqueued" /\ op'.stage = "waiting"
                                     /\ job'[op'.task] = "submitted",
              op'.kind = "finish" =>
                /\ op'.task \in Tasks /\ op'.is \in Outcomes
                /\ \/ up = "serving" /\ op'.by = "http" /\ op'.stage # "calling"
                      /\ job'[op'.task] = "running"
                   \/ /\ up = "resuming" /\ op'.by # "http" /\ op'.task \in recovered
                      /\ op'.stage \in {"calling", "recording"} => op'.by = "resume",
              job' \in [Tasks -> Jobs], runs' \in [Tasks -> Nat], events' \in [Tasks -> Nat]
       PROVE  TypeInv'
  <2>1. TypeOK'
    BY <1>18 DEF TypeOK, disk, counts, service
  <2>2. Threaded'
    BY <1>18 DEF Threaded, InWal, disk, counts, service
  <2> QED BY <2>1, <2>2
<1>19. ASSUME NEW t \in Tasks, Submit(t) PROVE TypeInv'
  <2>1. job' \in [Tasks -> Jobs]
    BY <1>19 DEF Submit, Answers, TypeOK, Jobs
  <2>2. op.kind = "none" /\ op = NoOp /\ ~ InWal
    BY <1>19, NoOpType DEF Submit, Idle, Threaded, InWal
  <2>3. CASE op' = op
    BY <1>18, <1>19, <1>a, <2>1, <2>2, <2>3, NoOpType DEF Submit, TypeOK
  <2>4. CASE op' = Waiting("enqueue", t, "enqueued", "http") /\ Answers(t, "submitted")
    <3>1. job'[t] = "submitted"
      BY <2>4 DEF Answers, TypeOK
    <3> QED BY <1>18, <1>19, <2>1, <2>2, <2>4, <3>1, WaitingType DEF Submit, TypeOK, Kinds
  <2> QED BY <1>19, <2>3, <2>4 DEF Submit
<1>20. ASSUME NEW t \in Tasks, GenerateReturns(t) PROVE TypeInv'
  <2>1. op.kind = "none" /\ ~ InWal
    BY <1>20, NoOpType DEF GenerateReturns, Idle, Threaded, InWal
  <2> QED
    BY <1>18, <1>20, <2>1, WaitingType DEF GenerateReturns, TypeOK, Kinds, client
<1>21. CASE RouteRecords
  <2>1. op.kind = "finish" /\ op.task \in Tasks /\ ~ InWal
    BY <1>21, <1>a, NoOpType DEF RouteRecords, Threaded, InWal, Ops, Kinds
  <2>2. job' \in [Tasks -> Jobs] /\ events' \in [Tasks -> Nat]
    <3>1. job' \in [Tasks -> Jobs]
      BY <1>21, <2>1 DEF RouteRecords, Answers, TypeOK, Jobs
    <3>2. events' \in [Tasks -> Nat]
      <4>1. events' = events \/ events' = [events EXCEPT ![op.task] = @ + 1]
        BY <1>21 DEF RouteRecords
      <4>2. events \in [Tasks -> Nat] /\ events[op.task] + 1 \in Nat
        BY <2>1 DEF TypeOK
      <4> QED BY <4>1, <4>2
    <3> QED BY <3>1, <3>2
  <2> QED BY <1>18, <1>21, <2>1, <2>2, NoOpType DEF RouteRecords, TypeOK
<1>22. ASSUME NEW t \in Tasks, ResumeNext(t) PROVE TypeInv'
  <2>1. op.kind = "none" /\ ~ InWal
    BY <1>22, NoOpType DEF ResumeNext, Idle, Threaded, InWal
  <2>2. /\ op' \in Ops /\ op'.kind = "finish" /\ op'.task = t /\ op'.is \in Outcomes
        /\ op'.by = "resume" /\ op'.stage \in {"waiting", "calling"}
    <3>1. CASE op' = Waiting("finish", t, "failed", "resume")
      BY <3>1, WaitingType DEF Kinds, Outcomes
    <3>2. CASE op' = [Waiting("finish", t, "completed", "resume") EXCEPT !.stage = "calling"]
      BY <3>2, WaitingType DEF Kinds, Outcomes, Ops, Stages
    <3> QED BY <1>22, <3>1, <3>2 DEF ResumeNext
  <2>3. runs' \in [Tasks -> Nat] /\ UNCHANGED <<job, events, told>>
    BY <1>22 DEF ResumeNext, TypeOK
  <2>4. up = "resuming" /\ t \in recovered /\ UNCHANGED <<disk, lock, seen, up, counts, service>>
    BY <1>22 DEF ResumeNext
  <2> QED BY <1>18, <2>1, <2>2, <2>3, <2>4 DEF TypeOK
<1>23. CASE RedispatchReturns
  <2>1. op.kind = "finish" /\ op.task \in Tasks /\ op.by = "resume" /\ up = "resuming"
        /\ op.task \in recovered /\ ~ InWal /\ op.is \in Outcomes
    BY <1>23, <1>a, NoOpType DEF RedispatchReturns, Threaded, InWal, Ops, Kinds
  <2>2. /\ op' \in Ops /\ op'.kind = "finish" /\ op'.task = op.task /\ op'.is \in Outcomes
        /\ op'.by # "http" /\ op'.stage \in {"waiting", "recording"}
        /\ op'.stage = "recording" => op'.by = "resume"
    <3>1. CASE op' = At("recording")
      BY <1>a, <2>1, <3>1, AtType DEF Stages
    <3>2. CASE op' = Waiting("finish", op.task, "failed", "catch")
      BY <2>1, <3>2, WaitingType DEF Kinds, Outcomes
    <3> QED BY <1>23, <3>1, <3>2 DEF RedispatchReturns
  <2> QED BY <1>18, <1>23, <2>1, <2>2 DEF RedispatchReturns, TypeOK, client
<1>24. CASE RedispatchRecords
  <2>1. op.kind = "finish" /\ op.task \in Tasks /\ op.by = "resume" /\ up = "resuming"
        /\ op.task \in recovered /\ ~ InWal /\ op.is \in Outcomes
    BY <1>24, <1>a, NoOpType DEF RedispatchRecords, Threaded, InWal, Ops, Kinds
  <2>2. /\ op' \in Ops /\ op'.kind = "finish" /\ op'.task = op.task /\ op'.is \in Outcomes
        /\ op'.by # "http" /\ op'.stage = "waiting"
    <3>1. CASE op' = At("waiting")
      BY <1>a, <2>1, <3>1, AtType DEF Stages
    <3>2. CASE op' = Waiting("finish", op.task, "failed", "catch")
      BY <2>1, <3>2, WaitingType DEF Kinds, Outcomes
    <3> QED BY <1>24, <3>1, <3>2 DEF RedispatchRecords
  <2>3. events' \in [Tasks -> Nat] /\ UNCHANGED <<job, runs, told>>
    BY <1>24, <2>1 DEF RedispatchRecords, TypeOK
  <2>4. UNCHANGED <<disk, lock, seen, up, counts, service>>
    BY <1>24 DEF RedispatchRecords
  <2> QED BY <1>18, <2>1, <2>2, <2>3, <2>4 DEF TypeOK
<1>25. CASE UNCHANGED vars
  <2>1. TypeOK'
    BY <1>25 DEF vars, TypeOK, disk, counts, service, client
  <2>2. Threaded'
    BY <1>25 DEF vars, Threaded, InWal, disk, counts, service, client
  <2> QED BY <2>1, <2>2
<1> QED
  BY <1>1, <1>3, <1>4, <1>5, <1>6, <1>7, <1>8, <1>9, <1>11, <1>12, <1>13, <1>14, <1>15,
     <1>16, <1>17, <1>19, <1>20, <1>21, <1>22, <1>23, <1>24, <1>25
  DEF Next, ServerStep

LEMMA TypeInit == Init => TypeInv
BY NoOpType DEF Init, TypeInv, TypeOK, Threaded, InWal, Jobs

\* Every variable keeps its type whatever fails, the log included.
THEOREM TypeCorrect == Spec => []TypeOK
<1>1. TypeInv => TypeOK
  BY DEF TypeInv
<1>2. QED BY <1>1, TypeInit, TypeStep, PTL DEF Spec

-----------------------------------------------------------------------------
(* Executions, outcomes and events.                                        *)

\* The log only names tasks that were submitted.
Known(w) == \A i \in 1..Len(w) : w[i].task \in Tasks => job[w[i].task] # "new"

\* Where a task is: an open request belongs to a server that listens, a submitted one to
\* the enqueue the thread is inside, a running one was executed once in this life and is
\* held until its finish returns; a recovered one is held, and not executed in this life
\* before the resume loop takes it up.
Orderly(t) ==
  /\ job[t] \in {"submitted", "running"} => up = "serving"
  /\ job[t] = "submitted" => op.kind = "enqueue" /\ op.task = t
  /\ job[t] \in {"new", "submitted"} => runs[t] = 0
  /\ job[t] = "running" =>
       /\ events[t] = 0 /\ runs[t] >= 1
       /\ t \in pending \/ (op.task = t /\ op.stage = "recording")
  /\ job[t] = "answered" => events[t] >= 1
  /\ t \in recovered => /\ t \in pending /\ up = "resuming"
                        /\ job[t] \notin {"new", "submitted", "running"}
                        /\ op.task # t => runs[t] < lives
  /\ op.task = t /\ op.by = "resume" /\ op.stage \in {"calling", "recording"} =>
       events[t] < runs[t]
  /\ events[t] <= runs[t] /\ runs[t] <= lives
OrderInv ==
  /\ \A t \in Tasks : Orderly(t)
  /\ up \in {"resuming", "serving"} => lives >= 1
  /\ Known(wal)

LEMMA TaskType ==
  ASSUME TypeOK, NEW t \in Tasks
  PROVE  /\ job[t] \in Jobs /\ runs[t] \in Nat /\ events[t] \in Nat /\ lives \in Nat
         /\ told[t] \in {"nothing", "accepted", "finished"} /\ t # NoTask
BY DEF TypeOK

\* A step inside withLock, or of another process, moves no task.
LEMMA InnerOrder ==
  ASSUME TypeInv, NEW t \in Tasks, Orderly(t), UNCHANGED <<up, counts, service, client>>,
         op' = op \/ (\E stage \in {"locked", "writing", "written"} : op' = At(stage)),
         op.stage \notin {"calling", "recording"} \/ op' = op
  PROVE  Orderly(t)'
<1>1. op \in Ops
  BY DEF TypeInv, TypeOK
<1>2. CASE op' = op
  BY <1>2 DEF Orderly, counts, service, client
<1>3. ASSUME NEW stage \in {"locked", "writing", "written"}, op' = At(stage),
             op.stage \notin {"calling", "recording"}
      PROVE  Orderly(t)'
  <2>1. /\ op'.kind = op.kind /\ op'.task = op.task /\ op'.by = op.by
        /\ op'.stage \notin {"calling", "recording"}
    BY <1>1, <1>3, AtType DEF Stages
  <2> QED BY <1>3, <2>1 DEF Orderly, counts, service, client
<1> QED BY <1>2, <1>3

LEMMA StopsOrder ==
  ASSUME TypeInv, NEW t \in Tasks, Orderly(t), Stops, UNCHANGED lives
  PROVE  Orderly(t)'
BY StopsType, TaskType, NoOpType DEF TypeInv, Orderly

LEMMA ThrowsOrder ==
  ASSUME TypeInv, NEW t \in Tasks, Orderly(t), Throws, UNCHANGED lives,
         op.kind # "none", op.stage \in {"waiting", "locked", "written"}
  PROVE  Orderly(t)'
<1>1. CASE StartupThrows
  BY <1>1, StopsOrder DEF StartupThrows
<1>2. CASE RouteThrows
  <2>1. op.task \in Tasks /\ up = "serving"
    BY <1>2 DEF RouteThrows, TypeInv, Threaded
  <2>2. op' = NoOp /\ UNCHANGED <<up, service, runs, events>>
    BY <1>2 DEF RouteThrows
  <2>3. job'[t] = IF t = op.task THEN (IF op.kind = "enqueue" THEN "rejected" ELSE "failed")
                  ELSE job[t]
    BY <1>2, <2>1 DEF RouteThrows, Answers, TypeInv, TypeOK
  <2> QED BY <2>1, <2>2, <2>3, TaskType, NoOpType DEF Orderly, service
<1>3. CASE ResumeThrows
  <2>1. op.kind = "finish" /\ op.task \in Tasks /\ up = "resuming"
    BY <1>3 DEF ResumeThrows, TypeInv, Threaded, TypeOK, Ops, Kinds
  <2>2. op'.by = "catch" /\ op'.stage = "waiting" /\ op'.task = op.task
    BY <1>3, <2>1, WaitingType DEF ResumeThrows, Kinds, Outcomes
  <2>3. UNCHANGED <<up, service, client>>
    BY <1>3 DEF ResumeThrows
  <2> QED BY <2>1, <2>2, <2>3 DEF Orderly, service, client
<1> QED BY <1>1, <1>2, <1>3 DEF Throws

LEMMA RecoverOrder ==
  ASSUME TypeInv, OrderInv, NEW t \in Tasks, RecoverReturns, lives' = lives + 1
  PROVE  Orderly(t)'
<1>1. Orderly(t) /\ up = "recovering"
  BY DEF OrderInv, RecoverReturns, TypeInv, Threaded
<1>2. job[t] \notin {"submitted", "running"}
  BY <1>1 DEF Orderly
<1>3. t \in recovered' => t \in PendingOf(wal) /\ up' = "resuming"
  BY PendingType DEF RecoverReturns, NextUp
<1>4. t \in PendingOf(wal) => job[t] # "new"
  <2>1. wal \in Logs
    BY DEF TypeInv, TypeOK, Logs
  <2>2. ASSUME t \in PendingOf(wal) PROVE \E i \in 1..Len(wal) : wal[i].task = t
    BY <2>2 DEF PendingOf, Valid
  <2> QED BY <2>2 DEF OrderInv, Known
<1>5. op' = NoOp /\ pending' = PendingOf(wal) /\ UNCHANGED client
  BY DEF RecoverReturns
<1> QED
  BY <1>1, <1>2, <1>3, <1>4, <1>5, TaskType, NoOpType DEF Orderly, client, TypeInv

LEMMA ReturnsOrder ==
  ASSUME TypeInv, OrderInv, NEW t \in Tasks, Returns, UNCHANGED lives,
         op.stage = "written"
  PROVE  Orderly(t)'
<1>1. Orderly(t) /\ op.kind # "recover"
  BY DEF OrderInv, TypeInv, Threaded
<1>2. CASE EnqueueReturns
  <2>1. op.task \in Tasks /\ up = "serving" /\ job[op.task] = "submitted" /\ lives >= 1
    BY <1>2 DEF EnqueueReturns, OrderInv, TypeInv, Threaded
  <2>2. /\ op' = NoOp /\ pending' = pending \cup {op.task} /\ UNCHANGED <<up, recovered, events>>
        /\ job'[t] = IF t = op.task THEN "running" ELSE job[t]
        /\ runs'[t] = IF t = op.task THEN runs[t] + 1 ELSE runs[t]
    BY <1>2 DEF EnqueueReturns, Answers, TypeInv, TypeOK
  <2> QED BY <1>1, <2>1, <2>2, TaskType, NoOpType DEF Orderly, TypeInv
<1>3. CASE FinishReturns
  <2>1. op.task \in Tasks /\ up = "serving" /\ job[op.task] = "running" /\ op \in Ops
    BY <1>3 DEF FinishReturns, TypeInv, Threaded, TypeOK
  <2>2. /\ pending' = pending \ {op.task} /\ recovered' = recovered \ {op.task}
        /\ UNCHANGED <<up, runs, events>>
    BY <1>3 DEF FinishReturns, Settled
  <2>3. CASE op.is = "completed"
    <3>1. /\ op'.kind = "finish" /\ op'.task = op.task /\ op'.by = "http"
          /\ op'.stage = "recording" /\ UNCHANGED job
      BY <1>3, <2>1, <2>3, AtType DEF FinishReturns, Stages
    <3> QED BY <1>1, <2>1, <2>2, <3>1, TaskType DEF Orderly, TypeInv
  <2>4. CASE op.is # "completed"
    <3>1. op' = NoOp /\ job'[t] = IF t = op.task THEN "failed" ELSE job[t]
      BY <1>3, <2>4 DEF FinishReturns, Answers, TypeInv, TypeOK
    <3> QED BY <1>1, <2>1, <2>2, <3>1, TaskType, NoOpType DEF Orderly, TypeInv
  <2> QED BY <2>3, <2>4
<1>4. CASE ResumeFinishReturns
  <2>1. up = "resuming" /\ op' = NoOp /\ UNCHANGED <<job, runs, events>>
    BY <1>4 DEF ResumeFinishReturns, TypeInv, Threaded
  <2>2. /\ pending' = pending \ {op.task} /\ recovered' = recovered \ {op.task}
        /\ up' = IF recovered' = {} THEN "serving" ELSE "resuming"
    BY <1>4 DEF ResumeFinishReturns, Settled, NextUp
  <2> QED BY <1>1, <2>1, <2>2, TaskType, NoOpType DEF Orderly, TypeInv
<1> QED BY <1>1, <1>2, <1>3, <1>4 DEF Returns, RecoverReturns

\* The chat route and the resume loop between two calls of the log.
LEMMA RouteOrder ==
  ASSUME TypeInv, OrderInv, NEW t \in Tasks, NEW q \in Tasks,
         Submit(q) \/ GenerateReturns(q) \/ ResumeNext(q)
  PROVE  Orderly(t)'
<1>1. Orderly(t) /\ Orderly(q) /\ op = NoOp /\ op.kind = "none"
  BY DEF OrderInv, Submit, GenerateReturns, ResumeNext, Idle, TypeInv, Threaded
<1>2. CASE Submit(q)
  <2>1. /\ UNCHANGED <<up, lives, service, runs, events>>
        /\ \/ op' = op /\ job'[t] = IF t = q THEN "rejected" ELSE job[t]
           \/ /\ op' = Waiting("enqueue", q, "enqueued", "http")
              /\ job'[t] = IF t = q THEN "submitted" ELSE job[t]
    BY <1>2 DEF Submit, Answers, TypeInv, TypeOK, counts
  <2>2. up = "serving" /\ job[q] = "new"
    BY <1>2 DEF Submit
  <2> QED BY <1>1, <2>1, <2>2, NoOpType, WaitingType DEF Orderly, service, Kinds
<1>3. CASE GenerateReturns(q)
  <2>1. UNCHANGED <<up, lives, service, job, runs, events>> /\ op'.stage = "waiting"
    BY <1>3, WaitingType DEF GenerateReturns, counts, client, Kinds
  <2>2. up = "serving"
    BY <1>3 DEF GenerateReturns
  <2> QED BY <1>1, <2>1, <2>2, NoOpType DEF Orderly, service
<1>4. CASE ResumeNext(q)
  <2>1. UNCHANGED <<up, lives, service, job, events>> /\ up = "resuming" /\ q \in recovered
    BY <1>4 DEF ResumeNext, counts
  <2>2. \/ op' = Waiting("finish", q, "failed", "resume") /\ UNCHANGED runs
        \/ /\ op' = [Waiting("finish", q, "completed", "resume") EXCEPT !.stage = "calling"]
           /\ runs' = [runs EXCEPT ![q] = @ + 1]
    BY <1>4 DEF ResumeNext
  <2>3. CASE op' = Waiting("finish", q, "failed", "resume") /\ UNCHANGED runs
    <3>1. op'.stage = "waiting" /\ op'.task = q
      BY <2>3, WaitingType DEF Kinds, Outcomes
    <3> QED BY <1>1, <2>1, <2>3, <3>1, NoOpType DEF Orderly, service
  <2>4. CASE /\ op' = [Waiting("finish", q, "completed", "resume") EXCEPT !.stage = "calling"]
             /\ runs' = [runs EXCEPT ![q] = @ + 1]
    <3>1. op'.stage = "calling" /\ op'.task = q
      BY <2>4 DEF Waiting
    <3>2. runs'[t] = IF t = q THEN runs[t] + 1 ELSE runs[t]
      BY <2>4 DEF TypeInv, TypeOK
    <3> QED BY <1>1, <2>1, <3>1, <3>2, TaskType, NoOpType DEF Orderly, service, TypeInv
  <2> QED BY <2>2, <2>3, <2>4
<1> QED BY <1>2, <1>3, <1>4

LEMMA RecordOrder ==
  ASSUME TypeInv, NEW t \in Tasks, Orderly(t), op \in Ops,
         RouteRecords \/ RedispatchReturns \/ RedispatchRecords
  PROVE  Orderly(t)'
<1>1. op.kind = "finish" /\ op.task \in Tasks
  BY NoOpType DEF RouteRecords, RedispatchReturns, RedispatchRecords, TypeInv, Threaded, Ops, Kinds
<1>2. CASE RouteRecords
  <2>1. /\ up = "serving" /\ job[op.task] = "running" /\ op.by = "http" /\ op' = NoOp
        /\ UNCHANGED <<up, lives, service, runs>>
    BY <1>1, <1>2 DEF RouteRecords, TypeInv, Threaded, counts
  <2>2. CASE Answers(op.task, "answered") /\ events' = [events EXCEPT ![op.task] = @ + 1]
    <3>1. job'[t] = IF t = op.task THEN "answered" ELSE job[t]
      BY <2>2 DEF Answers, TypeInv, TypeOK
    <3>2. events'[t] = IF t = op.task THEN events[t] + 1 ELSE events[t]
      BY <2>2 DEF TypeInv, TypeOK
    <3> QED BY <2>1, <3>1, <3>2, TaskType, NoOpType DEF Orderly, service, TypeInv
  <2>3. CASE Answers(op.task, "failed") /\ UNCHANGED events
    <3>1. job'[t] = IF t = op.task THEN "failed" ELSE job[t]
      BY <2>3 DEF Answers, TypeInv, TypeOK
    <3> QED BY <2>1, <2>3, <3>1, TaskType, NoOpType DEF Orderly, service, TypeInv
  <2> QED BY <1>2, <2>2, <2>3 DEF RouteRecords
<1>3. CASE RedispatchReturns
  <2>1. op.by = "resume" /\ op.stage = "calling" /\ up = "resuming"
    BY <1>1, <1>3 DEF RedispatchReturns, TypeInv, Threaded
  <2>a. UNCHANGED <<up, lives, pending, recovered, job, runs, events>>
    BY <1>3 DEF RedispatchReturns, counts, service, client
  <2>2. CASE op' = At("recording")
    <3>1. op'.task = op.task /\ op'.by = op.by
      BY <2>2, AtType DEF Stages
    <3> QED BY <2>1, <2>a, <3>1 DEF Orderly
  <2>3. CASE op' = Waiting("finish", op.task, "failed", "catch")
    <3>1. op'.task = op.task /\ op'.stage = "waiting"
      BY <1>1, <2>3, WaitingType DEF Kinds, Outcomes
    <3> QED BY <2>1, <2>a, <3>1 DEF Orderly
  <2> QED BY <1>3, <2>2, <2>3 DEF RedispatchReturns
<1>4. CASE RedispatchRecords
  <2>1. /\ op.by = "resume" /\ op.stage = "recording" /\ UNCHANGED <<up, lives, service, job, runs>>
        /\ op.task \in recovered
    BY <1>1, <1>4 DEF RedispatchRecords, TypeInv, Threaded, counts
  <2>2. op'.task = op.task /\ op'.stage = "waiting"
    BY <1>1, <1>4, WaitingType, AtType DEF RedispatchRecords, Kinds, Outcomes, Stages
  <2>3. events'[t] = events[t] \/ (t = op.task /\ events'[t] = events[t] + 1)
    BY <1>4 DEF RedispatchRecords, TypeInv, TypeOK
  <2> QED BY <2>1, <2>2, <2>3, TaskType DEF Orderly, service, TypeInv
<1> QED BY <1>2, <1>3, <1>4

\* A request that was made stays made.
LEMMA NewIsNew ==
  ASSUME TypeInv, [Next]_vars, NEW t \in Tasks, job'[t] = "new"
  PROVE  job[t] = "new"
<1>1. CASE UNCHANGED job
  BY <1>1
<1>2. ASSUME NEW q, NEW as \in Jobs \ {"new"}, Answers(q, as) PROVE job[t] = "new"
  BY <1>2 DEF Answers, TypeInv, TypeOK
<1>3. CASE Stops
  BY <1>3, StopsType
<1>4. CASE Throws
  BY <1>2, <1>3, <1>4, <1>1
  DEF Throws, RouteThrows, ResumeThrows, StartupThrows, client, Jobs
<1>5. CASE Returns
  BY <1>1, <1>2, <1>5
  DEF Returns, RecoverReturns, EnqueueReturns, FinishReturns, ResumeFinishReturns, client, Jobs
<1>6. ASSUME NEW q \in Tasks, Submit(q) PROVE job[t] = "new"
  BY <1>2, <1>6 DEF Submit, Jobs
<1>7. CASE RouteRecords
  BY <1>2, <1>7 DEF RouteRecords, Jobs
<1>8. CASE ServerStep
  <2>1. LockTimeout \/ WriteThrows => Throws
    BY DEF LockTimeout, WriteThrows
  <2>2. Recover \/ Release => Returns
    BY DEF Recover, Release, Returns
  <2>3. TakeLock \/ Rotate \/ BeginWrite \/ EndWrite => UNCHANGED job
    BY DEF TakeLock, Rotate, BeginWrite, EndWrite, client
  <2>4. RedispatchReturns \/ RedispatchRecords => UNCHANGED job
    BY DEF RedispatchReturns, RedispatchRecords, client
  <2>5. \A q \in Tasks : GenerateReturns(q) \/ ResumeNext(q) => UNCHANGED job
    BY DEF GenerateReturns, ResumeNext, client
  <2> QED BY <1>1, <1>4, <1>5, <1>7, <1>8, <2>1, <2>2, <2>3, <2>4, <2>5 DEF ServerStep
<1>9. CASE Start \/ Kill \/ LosePower
  BY <1>1, <1>3, <1>9 DEF Start, Kill, LosePower, client
<1>10. CASE ClearLock \/ ObserverReads \/ ObserverTruncates \/ ObserverDies
  BY <1>1, <1>10 DEF ClearLock, ObserverReads, ObserverTruncates, ObserverDies, client
<1>11. CASE UNCHANGED vars
  BY <1>1, <1>11 DEF vars, client
<1> QED BY <1>6, <1>8, <1>9, <1>10, <1>11 DEF Next

\* Records of what a step leaves of the log were there before, or the thread wrote them.
LEMMA WrittenBefore ==
  ASSUME TypeInv, [Next]_vars, NEW i \in 1..Len(wal'), wal'[i].task \in Tasks
  PROVE  \/ \E j \in 1..Len(wal) : wal[j] = wal'[i]
         \/ op.kind \in {"enqueue", "finish"} /\ wal'[i].task = op.task
<1> DEFINE Goal == \/ \E j \in 1..Len(wal) : wal[j] = wal'[i]
                   \/ op.kind \in {"enqueue", "finish"} /\ wal'[i].task = op.task
<1>1. wal \in Logs /\ synced \in 0..Len(wal) /\ Len(wal) \in Nat /\ Torn.task \notin Tasks
  BY DEF TypeInv, TypeOK, Logs, Torn
<1>2. CASE UNCHANGED wal
  BY <1>2
<1>3. ASSUME NEW n \in 0..Len(wal),
             wal' = SubSeq(wal, 1, n) \/ wal' = Append(SubSeq(wal, 1, n), Torn)
      PROVE  Goal
  <2>1. Len(SubSeq(wal, 1, n)) = n /\ SubSeq(wal, 1, n) \in Logs
    BY <1>1, LogType
  <2>2. \A j \in 1..n : SubSeq(wal, 1, n)[j] = wal[j] /\ j \in 1..Len(wal)
    BY <1>1 DEF Logs
  <2> DEFINE u == SubSeq(wal, 1, n)
  <2>3. CASE wal' = u
    BY <2>1, <2>2, <2>3
  <2>4. CASE wal' = Append(u, Torn)
    <3>1. i \in 1..n + 1 /\ (i <= n => wal'[i] = u[i]) /\ wal'[n + 1] = Torn
      <4> HIDE DEF u
      <4> QED BY <2>1, <2>4 DEF Logs, u
    <3>2. i # n + 1
      BY <1>1, <3>1
    <3> QED BY <2>2, <3>1, <3>2
  <2> QED BY <1>3, <2>3, <2>4
<1>4. CASE wal' = ValidPrefix(wal)
  <2>1. Cardinality(Valid(wal)) \in 0..Len(wal)
    BY <1>1, ValidType
  <2> QED BY <1>3, <1>4, <2>1 DEF ValidPrefix
<1>5. CASE Rotate
  BY <1>5 DEF Rotate
<1>6. CASE BeginWrite
  BY <1>1, <1>6 DEF BeginWrite, Logs
<1>7. CASE EndWrite
  <2>1. op.kind \in {"enqueue", "finish"}
    BY <1>7, NoOpType DEF EndWrite, TypeInv, Threaded, TypeOK, Ops, Kinds
  <2>2. CASE wal' = wal
    BY <1>2, <2>2
  <2>3. CASE wal' = Append(Front(wal), [task |-> op.task, is |-> op.is])
    <3>1. CASE wal = <<>>
      <4>1. Len(Front(wal)) = 0 /\ Front(wal) \in Logs
        BY <1>1, <3>1, LogType
      <4>2. i = 1 /\ wal'[i] = [task |-> op.task, is |-> op.is]
        BY <2>3, <4>1 DEF Logs
      <4> QED BY <2>1, <4>2
    <3>2. CASE wal # <<>>
      <4>1. Len(Front(wal)) = Len(wal) - 1 /\ Front(wal) \in Logs /\ Len(wal) > 0
        BY <1>1, <3>2, LogType DEF Logs
      <4>2. \A j \in 1..Len(wal) - 1 : Front(wal)[j] = wal[j] /\ j \in 1..Len(wal)
        BY <1>1, <4>1 DEF Logs, Front
      <4>3. i \in 1..Len(wal) /\ wal'[i] = IF i = Len(wal) THEN [task |-> op.task, is |-> op.is]
                                         ELSE Front(wal)[i]
        BY <2>3, <4>1 DEF Logs
      <4> QED BY <1>1, <2>1, <4>2, <4>3
    <3> QED BY <3>1, <3>2
  <2> QED BY <1>7, <2>2, <2>3 DEF EndWrite
<1>8. CASE LosePower
  <2>1. PICK n \in synced..Len(wal) :
          wal' = SubSeq(wal, 1, n) \/ wal' = Append(SubSeq(wal, 1, n), Torn)
    BY <1>8, SurvivorType DEF LosePower, TypeInv
  <2>2. n \in 0..Len(wal)
    BY <1>1
  <2> QED BY <1>3, <2>1, <2>2
<1>9. CASE ServerStep
  <2>1. TakeLock \/ LockTimeout \/ WriteThrows \/ RouteRecords \/ RedispatchReturns
          \/ RedispatchRecords \/ Release => UNCHANGED wal
    BY DEF TakeLock, LockTimeout, WriteThrows, RouteRecords, RedispatchReturns,
           RedispatchRecords, Release, disk
  <2>2. \A q \in Tasks : GenerateReturns(q) \/ ResumeNext(q) => UNCHANGED wal
    BY DEF GenerateReturns, ResumeNext, disk
  <2>3. Recover => wal' = ValidPrefix(wal)
    BY DEF Recover
  <2> QED BY <1>2, <1>4, <1>5, <1>6, <1>7, <1>9, <2>1, <2>2, <2>3 DEF ServerStep
<1>10. CASE ObserverTruncates
  <2>1. wal' = wal \/ (seen # <<>> /\ wal' = ValidPrefix(seen)) \/ wal' = ValidPrefix(<<>>)
    BY <1>10 DEF ObserverTruncates
  <2>2. seen # <<>> => seen = wal
    BY DEF TypeInv, Threaded
  <2>3. wal' # ValidPrefix(<<>>)
    <3>1. <<>> \in Logs /\ Len(<<>>) = 0
      BY DEF Logs
    <3>2. Len(ValidPrefix(<<>>)) = 0
      BY <3>1, ValidType
    <3> QED BY <3>2
  <2> QED BY <1>2, <1>4, <2>1, <2>2, <2>3
<1>11. CASE Start \/ Kill \/ ClearLock \/ ObserverReads \/ ObserverDies
  BY <1>2, <1>11 DEF Start, Kill, ClearLock, ObserverReads, ObserverDies, disk
<1>12. CASE UNCHANGED vars \/ \E q \in Tasks : Submit(q)
  BY <1>2, <1>12 DEF vars, Submit, disk
<1> QED BY <1>8, <1>9, <1>10, <1>11, <1>12 DEF Next

LEMMA KnownStep == TypeInv /\ OrderInv /\ [Next]_vars => Known(wal)'
<1> SUFFICES ASSUME TypeInv, OrderInv, [Next]_vars,
                    NEW i \in 1..Len(wal'), wal'[i].task \in Tasks
             PROVE  job'[wal'[i].task] # "new"
  BY DEF Known
<1>1. job[wal'[i].task] # "new"
  <2>1. ASSUME NEW j \in 1..Len(wal), wal[j] = wal'[i] PROVE job[wal'[i].task] # "new"
    BY <2>1 DEF OrderInv, Known
  <2>2. op.kind \in {"enqueue", "finish"} => job[op.task] # "new"
    BY DEF TypeInv, Threaded, OrderInv, Orderly
  <2> QED BY <2>1, <2>2, WrittenBefore
<1> QED BY <1>1, NewIsNew

LEMMA OrderStep == TypeInv /\ OrderInv /\ [Next]_vars => OrderInv'
<1> SUFFICES ASSUME TypeInv, OrderInv, [Next]_vars PROVE OrderInv'
  OBVIOUS
<1>1. op \in Ops /\ \A t \in Tasks : Orderly(t)
  BY DEF TypeInv, TypeOK, OrderInv
<1>2. ASSUME NEW t \in Tasks PROVE Orderly(t)'
  <2>1. CASE TakeLock
    BY <1>1, <2>1, InnerOrder DEF TakeLock
  <2>2. CASE Rotate
    BY <1>1, <2>2, InnerOrder DEF Rotate
  <2>3. CASE BeginWrite
    BY <1>1, <2>3, InnerOrder DEF BeginWrite
  <2>4. CASE EndWrite
    BY <1>1, <2>4, InnerOrder DEF EndWrite
  <2>5. CASE LockTimeout \/ WriteThrows
    <3>1. op.kind # "none" /\ op.stage \in {"waiting", "locked", "written"}
      BY <2>5, NoOpType DEF LockTimeout, WriteThrows, TypeInv, Threaded
    <3>2. Throws /\ UNCHANGED lives
      BY <2>5 DEF LockTimeout, WriteThrows, counts
    <3> QED BY <1>1, <3>1, <3>2, ThrowsOrder
  <2>6. CASE Recover
    BY <2>6, RecoverOrder DEF Recover
  <2>7. CASE Release
    BY <2>7, ReturnsOrder DEF Release, counts
  <2>8. CASE RouteRecords \/ RedispatchReturns \/ RedispatchRecords
    BY <1>1, <2>8, RecordOrder
  <2>9. ASSUME NEW q \in Tasks, Submit(q) \/ GenerateReturns(q) \/ ResumeNext(q)
        PROVE  Orderly(t)'
    BY <2>9, RouteOrder
  <2>10. CASE Kill \/ LosePower
    BY <1>1, <2>10, StopsOrder DEF Kill, LosePower, CrashHappens
  <2>11. CASE Start
    <3>1. op'.task = NoTask /\ op'.stage = "waiting"
      BY <2>11, WaitingType DEF Start, Kinds, Outcomes
    <3>2. up = "down" /\ UNCHANGED <<lives, pending, recovered, job, runs, events>>
      BY <2>11 DEF Start, service, client
    <3> QED BY <1>1, <3>1, <3>2, TaskType DEF Orderly, TypeInv
  <2>12. CASE ClearLock \/ ObserverReads \/ ObserverTruncates
    BY <1>1, <2>12, InnerOrder DEF ClearLock, ObserverReads, ObserverTruncates
  <2>13. CASE ObserverDies
    BY <1>1, <2>13 DEF ObserverDies, CrashHappens, Orderly, service, client
  <2>14. CASE UNCHANGED vars
    BY <1>1, <2>14 DEF vars, Orderly, counts, service, client
  <2> QED
    BY <2>1, <2>2, <2>3, <2>4, <2>5, <2>6, <2>7, <2>8, <2>9, <2>10, <2>11, <2>12, <2>13, <2>14
    DEF Next, ServerStep
<1>3. up' \in {"resuming", "serving"} => lives' >= 1
  <2>1. lives \in Nat /\ (up \in {"resuming", "serving"} => lives >= 1)
    BY DEF TypeInv, TypeOK, OrderInv
  <2>2. lives' = lives \/ lives' = lives + 1
    BY DEF Next, ServerStep, TakeLock, LockTimeout, Recover, Rotate, BeginWrite, EndWrite, Release,
           WriteThrows, RouteRecords, RedispatchReturns, RedispatchRecords, GenerateReturns,
           ResumeNext, Submit, Start, Kill, LosePower, CrashHappens, ClearLock, ObserverReads,
           ObserverTruncates, ObserverDies, vars, counts
  <2>3. lives' = lives + 1 \/ up' = up \/ up' \notin {"resuming", "serving"}
          \/ up \in {"resuming", "serving"}
    <3>1. CASE up = "recovering"
      <4>1. Recover => lives' = lives + 1
        BY DEF Recover
      <4>2. Throws /\ op.kind # "none" => up' # "resuming" /\ up' # "serving"
        BY <3>1, StopsType DEF Throws, RouteThrows, ResumeThrows, StartupThrows, TypeInv, Threaded
      <4>3. ~ Release
        BY <3>1 DEF Release, TypeInv, Threaded
      <4>4. LockTimeout \/ WriteThrows => Throws /\ op.kind # "none"
        BY NoOpType DEF LockTimeout, WriteThrows, TypeInv, Threaded
      <4> QED
        BY <3>1, <4>1, <4>2, <4>3, <4>4, StopsType
        DEF Next, ServerStep, TakeLock, Rotate, BeginWrite, EndWrite, RouteRecords,
            RedispatchReturns, RedispatchRecords, GenerateReturns, ResumeNext, Submit, Start, Kill,
            LosePower, ClearLock, ObserverReads, ObserverTruncates, ObserverDies, vars
    <3>2. CASE up = "down"
      <4>1. op.kind \notin {"recover", "enqueue", "finish"}
        BY <3>2 DEF TypeInv, Threaded
      <4>2. op = NoOp /\ op.kind = "none"
        BY <1>1, <4>1 DEF TypeInv, Threaded, Ops, Kinds
      <4> QED
        BY <3>2, <4>2, NoOpType
        DEF Next, ServerStep, TakeLock, LockTimeout, Recover, Rotate, BeginWrite, EndWrite,
            Release, WriteThrows, RouteRecords, RedispatchReturns, RedispatchRecords,
            GenerateReturns, ResumeNext, Submit, Start, Kill, LosePower, ClearLock, ObserverReads,
            ObserverTruncates, ObserverDies, vars
    <3> QED BY <3>1, <3>2 DEF TypeInv, TypeOK
  <2> QED BY <2>1, <2>2, <2>3
<1> QED BY <1>2, <1>3, KnownStep DEF OrderInv

LEMMA OrderInit == Init => OrderInv
BY NoOpType DEF Init, OrderInv, Orderly, Known

\* However its appends fail and whoever crashes, the server executes a task once per
\* life, calls finish only for a task it holds, and records one event per execution.
THEOREM RunsHold == Spec => []RunsAreOrderly
<1>1. TypeInv /\ OrderInv => RunsAreOrderly
  <2> SUFFICES ASSUME TypeInv, OrderInv PROVE RunsAreOrderly
    OBVIOUS
  <2>1. \A t \in Tasks : Orderly(t)
    BY DEF OrderInv
  <2>2. OneRunPerLife /\ EventsFollowRuns
    BY <2>1 DEF OneRunPerLife, EventsFollowRuns, Orderly
  <2>3. FinishFindsItsTask
    BY <2>1 DEF FinishFindsItsTask, Orderly, TypeInv, Threaded
  <2> QED BY <2>2, <2>3 DEF RunsAreOrderly
<1>2. QED BY <1>1, TypeInit, TypeStep, OrderInit, OrderStep, PTL DEF Spec

-----------------------------------------------------------------------------
(* Logs that are whole but for their end.                                  *)

Rec(t, is) == [task |-> t, is |-> is]
\* What the first n records of a log say.
Has(w, n, t, is) == \E i \in 1..n : w[i] = Rec(t, is)
Enqueued(w, n) == {t \in Tasks : Has(w, n, t, "enqueued")}
Ended(w, n) == {t \in Tasks : \E o \in Outcomes : Has(w, n, t, o)}
Open(w, n) == Enqueued(w, n) \ Ended(w, n)

\* Only the last record may be torn, and a task has an enqueue record and then at most
\* one outcome.
Clean(w) == \A i \in 1..Len(w) : w[i] # Torn
TornLast(w) == \A i \in 1..Len(w) : w[i] = Torn => i = Len(w)
Paired(w) ==
  \A j \in 1..Len(w) : w[j].is \in Outcomes =>
    \E i \in 1..Len(w) : i < j /\ w[i] = Rec(w[j].task, "enqueued")
Once(w) ==
  \A i, j \in 1..Len(w) : i < j /\ w[i].task = w[j].task /\ w[j] # Torn =>
    w[i].is = "enqueued" /\ w[j].is \in Outcomes
Good(w) == TornLast(w) /\ Paired(w) /\ Once(w)
Whole(w) == IF Clean(w) THEN Len(w) ELSE Len(w) - 1

LEMMA RecordIs ==
  ASSUME NEW w \in Logs, NEW i \in 1..Len(w)
  PROVE  /\ w[i] = Torn \/ w[i] \in Records
         /\ w[i] \in Records => /\ w[i].task \in Tasks /\ w[i].is \in Outcomes \cup {"enqueued"}
                                /\ w[i] = Rec(w[i].task, w[i].is) /\ w[i] # Torn
         /\ Torn.is = "torn" /\ Torn.task = NoTask
<1>1. w[i] \in Records \cup {Torn}
  BY DEF Logs
<1>2. \A r \in Records : r = Rec(r.task, r.is) /\ r.task \in Tasks
                           /\ r.is \in Outcomes \cup {"enqueued"} /\ r.is # "torn"
  BY DEF Records, Rec, Outcomes
<1> QED BY <1>1, <1>2 DEF Torn

LEMMA RecFields ==
  \A t, is : /\ Rec(t, is).task = t /\ Rec(t, is).is = is
             /\ (is \in Outcomes \cup {"enqueued"} => Rec(t, is) # Torn)
BY DEF Rec, Torn, Outcomes

\* The records before the torn one are the valid ones.
LEMMA GoodValid ==
  ASSUME NEW w \in Logs, TornLast(w)
  PROVE  /\ Whole(w) \in 0..Len(w) /\ Valid(w) = 1..Whole(w)
         /\ ValidPrefix(w) = SubSeq(w, 1, Whole(w))
         /\ \A i \in 1..Len(w) : i \in Valid(w) <=> w[i] # Torn
         /\ ~ Clean(w) => Len(w) >= 1 /\ w[Len(w)] = Torn
<1>1. Len(w) \in Nat
  BY DEF Logs
<1>2. ~ Clean(w) => Len(w) >= 1 /\ w[Len(w)] = Torn
  BY <1>1 DEF Clean, TornLast
<1>3. Whole(w) \in 0..Len(w)
  BY <1>1, <1>2 DEF Whole
<1>4. \A i \in 1..Len(w) : i <= Whole(w) <=> w[i] # Torn
  BY <1>1, <1>2 DEF Whole, Clean, TornLast
<1>5. Valid(w) = 1..Whole(w)
  BY <1>1, <1>3, <1>4 DEF Valid
<1>6. Cardinality(Valid(w)) = Whole(w)
  <2>1. 1 \in Int /\ Whole(w) \in Int
    BY <1>3
  <2>2. Cardinality(1..Whole(w)) = (IF 1 > Whole(w) THEN 0 ELSE Whole(w) - 1 + 1)
    BY <2>1, FS_Interval
  <2> QED BY <1>3, <1>5, <2>2
<1>7. \A i \in 1..Len(w) : i \in Valid(w) <=> w[i] # Torn
  BY <1>3, <1>4, <1>5
<1> QED BY <1>2, <1>3, <1>5, <1>6, <1>7 DEF ValidPrefix

\* What a restart finds in a good log.
LEMMA GoodPending ==
  ASSUME NEW w \in Logs, Good(w)
  PROVE  /\ PendingOf(w) = Open(w, Len(w))
         /\ FinishedIn(w) = Ended(w, Len(w))
         /\ Ended(w, Len(w)) \subseteq Enqueued(w, Len(w))
<1>1. \A i \in 1..Len(w) : i \in Valid(w) <=> w[i] # Torn
  BY GoodValid DEF Good
<1>2. Valid(w) \subseteq 1..Len(w)
  BY ValidType
<1>3. ASSUME NEW t \in PendingOf(w) PROVE t \in Open(w, Len(w))
  <2>1. PICK i \in Valid(w) : /\ w[i] = Rec(t, "enqueued")
                              /\ \A j \in Valid(w) : w[j].task = t => j <= i
    BY <1>3 DEF PendingOf, Rec
  <2>2. t \in Enqueued(w, Len(w))
    BY <1>2, <1>3, <2>1, PendingType DEF Enqueued, Has
  <2>3. ASSUME NEW j \in 1..Len(w), NEW o \in Outcomes, w[j] = Rec(t, o) PROVE FALSE
    <3>1. w[j] # Torn /\ w[j].task = t /\ w[j].is = o /\ w[i].task = t /\ w[i].is = "enqueued"
      BY <2>1, <2>3, RecFields
    <3>2. j <= i /\ j # i
      BY <1>1, <2>1, <3>1 DEF Outcomes
    <3>3. j < i /\ i \in 1..Len(w) /\ w[i] # Torn
      BY <1>1, <1>2, <3>2
    <3> QED BY <3>1, <3>3 DEF Good, Once, Outcomes
  <2> QED BY <2>2, <2>3 DEF Open, Ended, Has
<1>4. ASSUME NEW t \in Open(w, Len(w)) PROVE t \in PendingOf(w)
  <2>1. PICK i \in 1..Len(w) : w[i] = Rec(t, "enqueued")
    BY <1>4 DEF Open, Enqueued, Has
  <2>2. i \in Valid(w) /\ w[i].task = t
    BY <1>1, <2>1, RecFields
  <2>3. ASSUME NEW j \in Valid(w), w[j].task = t, ~ j <= i PROVE FALSE
    <3>1. j \in 1..Len(w) /\ w[j] # Torn /\ i < j
      BY <1>1, <1>2, <2>3
    <3>2. w[j].is \in Outcomes
      BY <2>2, <2>3, <3>1 DEF Good, Once
    <3>3. w[j] = Rec(t, w[j].is)
      BY <2>3, <3>1, RecordIs
    <3> QED BY <1>4, <3>1, <3>2, <3>3 DEF Open, Ended, Has, Enqueued
  <2> QED BY <1>4, <2>1, <2>2, <2>3 DEF PendingOf, Rec, Open, Enqueued
<1>5. FinishedIn(w) = Ended(w, Len(w))
  <2>1. ASSUME NEW t \in Tasks, NEW i \in Valid(w), w[i].task = t, w[i].is \in Outcomes
        PROVE  t \in Ended(w, Len(w))
    <3>1. i \in 1..Len(w) /\ w[i] # Torn
      BY <1>1, <1>2
    <3>2. w[i] = Rec(t, w[i].is)
      BY <2>1, <3>1, RecordIs
    <3> QED BY <2>1, <3>1, <3>2 DEF Ended, Has
  <2>2. ASSUME NEW t \in Ended(w, Len(w)) PROVE t \in FinishedIn(w)
    <3>1. PICK i \in 1..Len(w), o \in Outcomes : w[i] = Rec(t, o)
      BY <2>2 DEF Ended, Has
    <3>2. i \in Valid(w) /\ w[i].task = t /\ w[i].is \in Outcomes
      BY <1>1, <3>1, RecFields
    <3> QED BY <2>2, <3>2 DEF FinishedIn, Ended
  <2> QED BY <2>1, <2>2 DEF FinishedIn
<1>6. ASSUME NEW t \in Ended(w, Len(w)) PROVE t \in Enqueued(w, Len(w))
  <2>1. PICK j \in 1..Len(w), o \in Outcomes : w[j] = Rec(t, o)
    BY <1>6 DEF Ended, Has
  <2>2. w[j].is \in Outcomes /\ w[j].task = t
    BY <2>1, RecFields
  <2> QED BY <1>6, <2>2 DEF Good, Paired, Enqueued, Ended, Has
<1> QED BY <1>3, <1>4, <1>5, <1>6

\* A prefix of a good log is good, and so is it with half a record after it.
LEMMA GoodPrefix ==
  ASSUME NEW w \in Logs, Good(w), NEW u \in Logs, Len(u) <= Len(w),
         \A i \in 1..Len(u) : u[i] = w[i]
  PROVE  /\ Good(u) /\ (Clean(w) \/ Len(u) < Len(w) => Clean(u))
<1>1. Len(u) \in Nat /\ Len(w) \in Nat /\ \A i \in 1..Len(u) : i \in 1..Len(w)
  BY DEF Logs
<1>2. Clean(w) \/ Len(u) < Len(w) => Clean(u)
  BY <1>1 DEF Clean, Good, TornLast
<1>3. TornLast(u)
  BY <1>1, <1>2 DEF Good, TornLast, Clean
<1>4. Once(u)
  BY <1>1 DEF Good, Once
<1>5. ASSUME NEW j \in 1..Len(u), u[j].is \in Outcomes
      PROVE  \E i \in 1..Len(u) : i < j /\ u[i] = Rec(u[j].task, "enqueued")
  <2>1. PICK i \in 1..Len(w) : i < j /\ w[i] = Rec(w[j].task, "enqueued")
    BY <1>1, <1>5 DEF Good, Paired
  <2>2. i \in 1..Len(u)
    BY <1>1, <2>1
  <2> QED BY <2>1, <2>2
<1> QED BY <1>2, <1>3, <1>4, <1>5 DEF Good, Paired

\* The end of a log changes when a record is appended, half of it first.
LEMMA AppendIs ==
  ASSUME NEW w \in Logs, NEW rec \in Records \cup {Torn}
  PROVE  /\ Append(w, rec) \in Logs /\ Len(Append(w, rec)) = Len(w) + 1 /\ Len(w) \in Nat
         /\ Append(w, rec)[Len(w) + 1] = rec
         /\ \A i \in 1..Len(w) : Append(w, rec)[i] = w[i]
BY DEF Logs

LEMMA GoodTorn ==
  ASSUME NEW w \in Logs, Good(w), Clean(w)
  PROVE  Good(Append(w, Torn))
<1> DEFINE v == Append(w, Torn)
<1>1. /\ v \in Logs /\ Len(v) = Len(w) + 1 /\ Len(w) \in Nat /\ v[Len(w) + 1] = Torn
      /\ \A i \in 1..Len(w) : v[i] = w[i]
  BY AppendIs
<1> HIDE DEF v
<1>2. \A i \in 1..Len(v) : i \in 1..Len(w) \/ i = Len(v)
  BY <1>1
<1>3. TornLast(v)
  BY <1>1, <1>2 DEF Clean, TornLast
<1>4. Once(v)
  BY <1>1, <1>2 DEF Good, Once
<1>5. ASSUME NEW j \in 1..Len(v), v[j].is \in Outcomes
      PROVE  \E i \in 1..Len(v) : i < j /\ v[i] = Rec(v[j].task, "enqueued")
  <2>1. j \in 1..Len(w)
    BY <1>1, <1>2, <1>5 DEF Torn, Outcomes
  <2>2. PICK i \in 1..Len(w) : i < j /\ w[i] = Rec(w[j].task, "enqueued")
    BY <1>1, <1>5, <2>1 DEF Good, Paired
  <2> QED BY <1>1, <2>1, <2>2
<1>6. Good(v)
  BY <1>3, <1>4, <1>5 DEF Good, Paired
<1> QED BY <1>6 DEF v

LEMMA GoodAppend ==
  ASSUME NEW w \in Logs, Good(w), Clean(w), NEW t \in Tasks,
         NEW is \in Outcomes \cup {"enqueued"},
         is = "enqueued" => t \notin Enqueued(w, Len(w)),
         is \in Outcomes => t \in Open(w, Len(w))
  PROVE  Good(Append(w, Rec(t, is))) /\ Clean(Append(w, Rec(t, is)))
<1> DEFINE v == Append(w, Rec(t, is))
<1>1. Rec(t, is) \in Records /\ Rec(t, is) # Torn /\ Rec(t, is).task = t /\ Rec(t, is).is = is
  BY RecFields DEF Records, Rec
<1>2. /\ v \in Logs /\ Len(v) = Len(w) + 1 /\ Len(w) \in Nat /\ v[Len(w) + 1] = Rec(t, is)
      /\ \A i \in 1..Len(w) : v[i] = w[i]
  BY <1>1, AppendIs
<1> HIDE DEF v
<1>3. \A i \in 1..Len(v) : i \in 1..Len(w) \/ i = Len(v)
  BY <1>2
<1>4. Clean(v)
  BY <1>1, <1>2, <1>3 DEF Clean
<1>5. ASSUME NEW i \in 1..Len(w), w[i].task = t
      PROVE  w[i] = Rec(t, "enqueued") /\ is \in Outcomes
  <2>1. w[i] \in Records /\ w[i] = Rec(t, w[i].is) /\ w[i].is \in Outcomes \cup {"enqueued"}
    BY <1>5, RecordIs DEF Clean
  <2>2. t \in Enqueued(w, Len(w))
    <3>1. CASE w[i].is = "enqueued"
      BY <2>1, <3>1 DEF Enqueued, Has
    <3>2. CASE w[i].is \in Outcomes
      BY <2>1, <3>2, GoodPending DEF Ended, Has
    <3> QED BY <2>1, <3>1, <3>2
  <2>3. is \in Outcomes /\ t \notin Ended(w, Len(w))
    BY <2>2 DEF Open
  <2>4. w[i].is \notin Outcomes
    BY <2>1, <2>3 DEF Ended, Has
  <2> QED BY <2>1, <2>3, <2>4
<1>6. Once(v)
  <2> SUFFICES ASSUME NEW i \in 1..Len(v), NEW j \in 1..Len(v), i < j, v[i].task = v[j].task,
                      v[j] # Torn
               PROVE  v[i].is = "enqueued" /\ v[j].is \in Outcomes
    BY DEF Once
  <2>1. i \in 1..Len(w)
    BY <1>2
  <2>2. CASE j \in 1..Len(w)
    BY <1>2, <2>1, <2>2 DEF Good, Once
  <2>3. CASE j = Len(v)
    BY <1>1, <1>2, <1>5, <2>1, <2>3, RecFields
  <2> QED BY <1>3, <2>2, <2>3
<1>7. Paired(v)
  <2> SUFFICES ASSUME NEW j \in 1..Len(v), v[j].is \in Outcomes
               PROVE  \E i \in 1..Len(v) : i < j /\ v[i] = Rec(v[j].task, "enqueued")
    BY DEF Paired
  <2>1. CASE j \in 1..Len(w)
    <3>1. PICK i \in 1..Len(w) : i < j /\ w[i] = Rec(w[j].task, "enqueued")
      BY <1>2, <2>1 DEF Good, Paired
    <3> QED BY <1>2, <2>1, <3>1
  <2>2. CASE j = Len(v)
    <3>1. is \in Outcomes /\ v[j].task = t
      BY <1>1, <1>2, <2>2
    <3>2. PICK i \in 1..Len(w) : w[i] = Rec(t, "enqueued")
      BY <3>1 DEF Open, Enqueued, Has
    <3> QED BY <1>2, <2>2, <3>1, <3>2
  <2> QED BY <1>3, <2>1, <2>2
<1>8. TornLast(v)
  BY <1>4 DEF TornLast, Clean
<1> QED BY <1>4, <1>6, <1>7, <1>8 DEF Good, v

\* Whatever the length to which the log is cut, no more tasks are open than the service
\* may hold.
Bounded(w) ==
  \A n \in 0..Len(w) : IsFiniteSet(Open(w, n)) /\ Cardinality(Open(w, n)) <= MaxPending

LEMMA SamePrefix ==
  ASSUME NEW v, NEW w, NEW n \in Nat, \A i \in 1..n : v[i] = w[i]
  PROVE  Enqueued(v, n) = Enqueued(w, n) /\ Ended(v, n) = Ended(w, n) /\ Open(v, n) = Open(w, n)
<1>1. \A t, is : Has(v, n, t, is) <=> Has(w, n, t, is)
  BY DEF Has
<1> QED BY <1>1 DEF Enqueued, Ended, Open

\* Half a record says nothing, a whole one adds what it says.
LEMMA OneMore ==
  ASSUME NEW w, NEW n \in Nat
  PROVE  /\ w[n + 1] = Torn => /\ Enqueued(w, n + 1) = Enqueued(w, n)
                              /\ Ended(w, n + 1) = Ended(w, n) /\ Open(w, n + 1) = Open(w, n)
         /\ \A t \in Tasks :
              /\ w[n + 1] = Rec(t, "enqueued") => /\ Enqueued(w, n + 1) = Enqueued(w, n) \cup {t}
                                                 /\ Ended(w, n + 1) = Ended(w, n)
              /\ \A o \in Outcomes : w[n + 1] = Rec(t, o) =>
                   /\ Enqueued(w, n + 1) = Enqueued(w, n)
                   /\ Ended(w, n + 1) = Ended(w, n) \cup {t}
<1>1. \A q, is : Has(w, n + 1, q, is) <=> Has(w, n, q, is) \/ w[n + 1] = Rec(q, is)
  <2>1. \A i : i \in 1..n + 1 <=> i \in 1..n \/ i = n + 1
    OBVIOUS
  <2> QED BY <2>1 DEF Has
<1>2. CASE w[n + 1] = Torn
  <2>1. \A q, is : is \in Outcomes \cup {"enqueued"} => (Has(w, n + 1, q, is) <=> Has(w, n, q, is))
    BY <1>1, <1>2, RecFields
  <2>2. Enqueued(w, n + 1) = Enqueued(w, n)
    BY <2>1 DEF Enqueued
  <2>3. Ended(w, n + 1) = Ended(w, n)
    BY <2>1 DEF Ended
  <2>4. \A t, is : is \in Outcomes \cup {"enqueued"} => w[n + 1] # Rec(t, is)
    BY <1>2, RecFields
  <2> QED BY <2>2, <2>3, <2>4 DEF Open
<1>3. ASSUME NEW t \in Tasks, w[n + 1] = Rec(t, "enqueued")
      PROVE  Enqueued(w, n + 1) = Enqueued(w, n) \cup {t} /\ Ended(w, n + 1) = Ended(w, n)
  <2>1. \A q, is : w[n + 1] = Rec(q, is) <=> q = t /\ is = "enqueued"
    BY <1>3, RecFields
  <2>2. Enqueued(w, n + 1) = Enqueued(w, n) \cup {t}
    BY <1>1, <2>1 DEF Enqueued
  <2>3. Ended(w, n + 1) = Ended(w, n)
    BY <1>1, <2>1 DEF Ended, Outcomes
  <2> QED BY <2>2, <2>3
<1>4. ASSUME NEW t \in Tasks, NEW o \in Outcomes, w[n + 1] = Rec(t, o)
      PROVE  Enqueued(w, n + 1) = Enqueued(w, n) /\ Ended(w, n + 1) = Ended(w, n) \cup {t}
  <2>1. \A q, is : w[n + 1] = Rec(q, is) <=> q = t /\ is = o
    BY <1>4, RecFields
  <2>2. Enqueued(w, n + 1) = Enqueued(w, n)
    BY <1>1, <2>1 DEF Enqueued, Outcomes
  <2>3. Ended(w, n + 1) = Ended(w, n) \cup {t}
    BY <1>1, <2>1 DEF Ended
  <2> QED BY <2>2, <2>3
<1>5. (w[n + 1] = Torn) => ~ \E t, is : is \in Outcomes \cup {"enqueued"} /\ w[n + 1] = Rec(t, is)
  BY RecFields
<1> QED BY <1>2, <1>3, <1>4, <1>5

LEMMA OneOutcome ==
  ASSUME NEW w, NEW n \in Nat, NEW t \in Tasks, NEW o \in Outcomes, w[n + 1] = Rec(t, o)
  PROVE  /\ Enqueued(w, n + 1) = Enqueued(w, n)
         /\ Ended(w, n + 1) = Ended(w, n) \cup {t}
<1>1. /\ w[n + 1] = Rec(t, o) => /\ Enqueued(w, n + 1) = Enqueued(w, n)
                                /\ Ended(w, n + 1) = Ended(w, n) \cup {t}
  BY OneMore
<1> QED BY <1>1

LEMMA BoundedAppend ==
  ASSUME NEW w \in Logs, Bounded(w), NEW rec \in Records \cup {Torn},
         IsFiniteSet(Open(Append(w, rec), Len(w) + 1)),
         Cardinality(Open(Append(w, rec), Len(w) + 1)) <= MaxPending
  PROVE  Bounded(Append(w, rec))
<1> DEFINE v == Append(w, rec)
<1>1. Len(v) = Len(w) + 1 /\ Len(w) \in Nat /\ \A i \in 1..Len(w) : v[i] = w[i]
  BY AppendIs
<1> HIDE DEF v
<1>2. ASSUME NEW n \in 0..Len(w) PROVE Open(v, n) = Open(w, n)
  <2>1. n \in Nat /\ \A i \in 1..n : v[i] = w[i]
    BY <1>1
  <2> QED BY <2>1, SamePrefix
<1>3. \A n \in 0..Len(v) : n \in 0..Len(w) \/ n = Len(w) + 1
  BY <1>1
<1> QED BY <1>2, <1>3 DEF Bounded, v

\* What is left of a good log when it is cut, before or inside a record.
LEMMA Cut ==
  ASSUME NEW w \in Logs, Good(w), Bounded(w), NEW n \in 0..Len(w), NEW v,
         v = SubSeq(w, 1, n) \/ (n < Len(w) /\ v = Append(SubSeq(w, 1, n), Torn))
  PROVE  /\ v \in Logs /\ Good(v) /\ Bounded(v)
         /\ Len(v) = n \/ (Len(v) = n + 1 /\ v[n + 1] = Torn)
         /\ \A i \in 1..n : v[i] = w[i]
         /\ (Clean(w) \/ n < Len(w)) /\ v = SubSeq(w, 1, n) => Clean(v)
<1> DEFINE u == SubSeq(w, 1, n)
<1>1. Len(w) \in Nat /\ u \in Logs /\ Len(u) = n /\ \A i \in 1..n : u[i] = w[i]
  <2>1. u \in Logs /\ Len(u) = n
    BY LogType
  <2> QED BY <2>1 DEF Logs
<1> HIDE DEF u
<1>2. Good(u) /\ (Clean(w) \/ n < Len(w) => Clean(u))
  BY <1>1, GoodPrefix
<1>3. Bounded(u)
  <2>1. ASSUME NEW m \in 0..n PROVE Open(u, m) = Open(w, m) /\ m \in 0..Len(w)
    <3>1. m \in Nat /\ \A i \in 1..m : u[i] = w[i]
      BY <1>1
    <3>2. m \in 0..Len(w)
      BY <1>1
    <3> QED BY <3>1, <3>2, SamePrefix
  <2> QED BY <1>1, <2>1 DEF Bounded
<1>4. CASE v = u
  BY <1>1, <1>2, <1>3, <1>4
<1>5. CASE n < Len(w) /\ v = Append(u, Torn)
  <2>1. Good(v)
    BY <1>1, <1>2, <1>5, GoodTorn
  <2>2. /\ v \in Logs /\ Len(v) = n + 1 /\ v[n + 1] = Torn /\ n \in Nat
        /\ \A i \in 1..n : v[i] = u[i]
    BY <1>1, <1>5, AppendIs
  <2>3. Open(v, n + 1) = Open(u, n)
    <3>1. Open(v, n + 1) = Open(v, n)
      BY <2>2, OneMore
    <3>2. Open(v, n) = Open(u, n)
      BY <2>2, SamePrefix
    <3> QED BY <3>1, <3>2
  <2>4. Bounded(v)
    <3>1. n \in 0..Len(u)
      BY <1>1
    <3>2. IsFiniteSet(Open(v, n + 1)) /\ Cardinality(Open(v, n + 1)) <= MaxPending
      BY <1>3, <2>3, <3>1 DEF Bounded
    <3> QED BY <1>1, <1>3, <1>5, <3>2, BoundedAppend
  <2>5. v # u
    BY <1>1, <2>2
  <2> QED BY <1>1, <2>1, <2>2, <2>4, <2>5 DEF u
<1> QED BY <1>4, <1>5 DEF u

LEMMA CutPrefix ==
  ASSUME NEW w \in Logs, Good(w), Bounded(w), NEW n \in 0..Len(w), n < Len(w)
  PROVE  /\ SubSeq(w, 1, n) \in Logs /\ Good(SubSeq(w, 1, n)) /\ Bounded(SubSeq(w, 1, n))
         /\ Clean(SubSeq(w, 1, n)) /\ \A i \in 1..n : SubSeq(w, 1, n)[i] = w[i]
<1> DEFINE v == SubSeq(w, 1, n)
<1>1. v = SubSeq(w, 1, n)
  OBVIOUS
<1> HIDE DEF v
<1>2. v \in Logs /\ Good(v) /\ Bounded(v)
  BY <1>1, Cut
<1>3. Clean(v)
  BY <1>1, Cut
<1>4. \A i \in 1..n : v[i] = w[i]
  BY <1>1, Cut
<1> QED BY <1>2, <1>3, <1>4 DEF v

-----------------------------------------------------------------------------
(* In financial mode, when an append throws before it writes anything and  *)
(* the log never rotates.                                                  *)

Durable == Mode = "financial" /\ Faults \cap {"short", "fsync"} = {}
NoRotation == [][~ Rotate]_vars

Alive == up \in {"resuming", "serving"}
\* The tasks the Map will hold when the call of the log returns that has written.
Remembered == IF op.stage # "written" THEN pending
              ELSE IF op.kind = "enqueue" THEN pending \cup {op.task} ELSE pending \ {op.task}

\* Between calls the log of a server that is up is whole, and its open tasks are those
\* the server remembers.
LogInv ==
  /\ Good(wal) /\ Bounded(wal)
  /\ Alive /\ op.stage # "writing" => Clean(wal)
  /\ op.stage = "writing" => ~ Clean(wal)
  /\ op.stage = "written" => wal # <<>> /\ wal[Len(wal)] = Rec(op.task, op.is)
  /\ Alive => Open(wal, Len(wal)) = Remembered
  /\ op.kind = "enqueue" => Cardinality(pending) < MaxPending
  /\ IsFiniteSet(pending) /\ Cardinality(pending) <= MaxPending

\* What a caller was told is in the synced part of the log, and the log knows nothing of
\* a request that is refused or not yet written.
Recorded(t) ==
  /\ told[t] # "nothing" => Has(wal, synced, t, "enqueued")
  /\ told[t] = "finished" => \E o \in Outcomes : Has(wal, synced, t, o)
  /\ t \in Enqueued(wal, Len(wal)) => /\ job[t] \notin {"new", "rejected"}
                                      /\ job[t] = "submitted" => op.stage = "written"
  /\ job[t] = "submitted" => told[t] = "nothing"
  /\ job[t] = "rejected" => runs[t] = 0
ToldInv == \A t \in Tasks : Recorded(t)

LEMMA LogFacts ==
  ASSUME TypeInv
  PROVE  /\ wal \in Logs /\ Len(wal) \in Nat /\ synced \in 0..Len(wal) /\ op \in Ops
         /\ op.stage \in {"writing", "written"} =>
              op.kind \in {"enqueue", "finish"} /\ op.task \in Tasks /\ Alive
         /\ Alive => op.kind # "recover"
<1>1. wal \in Logs /\ Len(wal) \in Nat /\ synced \in 0..Len(wal) /\ op \in Ops
  BY DEF TypeInv, TypeOK, Logs
<1>2. op.stage \in {"writing", "written"} => op.kind \in {"enqueue", "finish"}
  BY <1>1, NoOpType DEF TypeInv, Threaded, Ops, Kinds
<1> QED BY <1>1, <1>2 DEF TypeInv, Threaded, Alive

\* How the log changes.
Trimmed(n) ==
  /\ \/ wal' = SubSeq(wal, 1, n)
     \/ n < Len(wal) /\ wal' = Append(SubSeq(wal, 1, n), Torn)
  /\ \A i \in 1..synced : wal[i] # Torn => i <= n /\ i <= synced'
Written == EndWrite /\ wal' = Append(Front(wal), Rec(op.task, op.is))

LEMMA PrefixTrims ==
  ASSUME TypeInv, LogInv, wal' = ValidPrefix(wal), synced' = SyncedOf(Len(wal'))
  PROVE  \E n \in 0..Len(wal) : Trimmed(n) /\ wal' = SubSeq(wal, 1, n) /\ Clean(wal')
<1>1. wal \in Logs /\ Len(wal) \in Nat /\ synced \in 0..Len(wal)
  BY LogFacts
<1> DEFINE n == Whole(wal)
<1>2. n \in 0..Len(wal) /\ wal' = SubSeq(wal, 1, n) /\ (~ Clean(wal) => wal[Len(wal)] = Torn)
  BY <1>1, GoodValid DEF LogInv, Good
<1>3. Len(wal') = n /\ wal' \in Logs
  BY <1>1, <1>2, LogType
<1>4. ASSUME NEW i \in 1..synced, wal[i] # Torn PROVE i <= n /\ i <= synced'
  <2>1. i # Len(wal) \/ n = Len(wal)
    BY <1>2, <1>4 DEF Whole
  <2>2. i <= n
    BY <1>1, <2>1 DEF Whole
  <2> QED BY <1>1, <1>2, <1>3, <2>2 DEF SyncedOf
<1>5. Clean(wal')
  <2>1. Clean(wal) \/ n < Len(wal)
    BY <1>1 DEF Whole
  <2>2. Good(wal) /\ Bounded(wal)
    BY DEF LogInv
  <2> HIDE DEF n
  <2> QED BY <1>1, <1>2, <2>1, <2>2, Cut
<1> QED BY <1>2, <1>4, <1>5 DEF Trimmed

\* Power loss keeps what is synced, and at most half a record after it.
LEMMA SurvivorCut ==
  ASSUME TypeInv, NEW w \in Survivors
  PROVE  \E n \in synced..Len(wal) :
           w = SubSeq(wal, 1, n) \/ (n < Len(wal) /\ w = Append(SubSeq(wal, 1, n), Torn))
<1>1. wal \in Logs /\ Len(wal) \in Nat /\ synced \in 0..Len(wal)
  BY LogFacts
<1>2. SubSeq(wal, 1, Len(wal)) = wal
  BY <1>1 DEF Logs
<1>3. ASSUME NEW n \in synced..Len(wal), SubSeq(wal, 1, n) # wal PROVE n < Len(wal)
  <2>1. n # Len(wal)
    BY <1>2, <1>3
  <2>2. n <= Len(wal) /\ n \in Int
    BY <1>1
  <2> QED BY <1>1, <2>1, <2>2
<1> DEFINE cuts == {SubSeq(wal, 1, n) : n \in synced..Len(wal)}
<1>4. w \in cuts \/ \E u \in cuts \ {wal} : w = Append(u, Torn)
  BY DEF Survivors
<1>5. ASSUME NEW u \in cuts \ {wal}, w = Append(u, Torn)
      PROVE  \E n \in synced..Len(wal) : n < Len(wal) /\ w = Append(SubSeq(wal, 1, n), Torn)
  <2>1. PICK n \in synced..Len(wal) : u = SubSeq(wal, 1, n)
    OBVIOUS
  <2> QED BY <1>3, <1>5, <2>1
<1> QED BY <1>4, <1>5

LEMMA SurvivorTrims ==
  ASSUME TypeInv, NEW w \in Survivors, wal' = w, synced' = Len(w)
  PROVE  \E n \in 0..Len(wal) : Trimmed(n)
<1>1. wal \in Logs /\ Len(wal) \in Nat /\ synced \in 0..Len(wal)
  BY LogFacts
<1>2. PICK n \in synced..Len(wal) :
        w = SubSeq(wal, 1, n) \/ (n < Len(wal) /\ w = Append(SubSeq(wal, 1, n), Torn))
  BY SurvivorCut
<1>3. n \in 0..Len(wal) /\ n >= synced /\ n \in Nat
  BY <1>1
<1>4. Len(w) >= n
  <2>1. SubSeq(wal, 1, n) \in Logs /\ Len(SubSeq(wal, 1, n)) = n
    BY <1>1, <1>3, LogType
  <2>2. Len(Append(SubSeq(wal, 1, n), Torn)) = n + 1
    BY <2>1, AppendIs
  <2> QED BY <1>2, <1>3, <2>1, <2>2
<1>5. \A i \in 1..synced : i <= n /\ i <= synced'
  <2>1. Len(w) \in Nat
    BY SurvivorType DEF TypeInv, Logs
  <2> QED BY <1>1, <1>3, <1>4, <2>1
<1> QED BY <1>2, <1>3, <1>5 DEF Trimmed

LEMMA WalSteps ==
  ASSUME Durable, TypeInv, LogInv, [Next]_vars, ~ Rotate
  PROVE  \/ UNCHANGED wal /\ \A i \in 1..synced : i <= synced'
         \/ BeginWrite
         \/ Written
         \/ \E n \in 0..Len(wal) : Trimmed(n)
<1> DEFINE Same == UNCHANGED wal /\ \A i \in 1..synced : i <= synced'
<1>1. wal \in Logs /\ Len(wal) \in Nat /\ synced \in 0..Len(wal)
  BY LogFacts
<1>2. UNCHANGED disk => Same
  BY <1>1 DEF disk
<1>3. Release => Same
  BY <1>1 DEF Release, Flushed, Durable
<1>4. EndWrite => Written
  BY DEF EndWrite, Written, Durable, Rec
<1>5. Recover => \E n \in 0..Len(wal) : Trimmed(n)
  BY PrefixTrims DEF Recover
<1>6. LosePower => \E n \in 0..Len(wal) : Trimmed(n)
  BY SurvivorTrims DEF LosePower
<1>7. CASE ObserverTruncates
  <2>1. seen # <<>> => seen = wal
    BY DEF TypeInv, Threaded
  <2>2. <<>> \in Logs /\ TornLast(<<>>) /\ Len(<<>>) = 0
    BY DEF Logs, TornLast
  <2>3. ValidPrefix(<<>>) = <<>>
    <3>1. ValidPrefix(<<>>) \in Logs /\ Len(ValidPrefix(<<>>)) = 0
      BY <2>2, ValidType
    <3> QED BY <3>1 DEF Logs
  <2>4. CASE wal' = wal
    <3>1. synced' = SyncedOf(Len(wal))
      BY <1>7, <2>4 DEF ObserverTruncates
    <3> QED BY <1>1, <2>4, <3>1 DEF SyncedOf
  <2>5. CASE wal' = ValidPrefix(wal)
    BY <1>7, <2>5, PrefixTrims DEF ObserverTruncates
  <2> QED BY <1>7, <2>1, <2>3, <2>4, <2>5 DEF ObserverTruncates
<1>8. CASE ServerStep
  <2>1. TakeLock \/ LockTimeout \/ WriteThrows \/ RouteRecords \/ RedispatchReturns
          \/ RedispatchRecords => UNCHANGED disk
    BY DEF TakeLock, LockTimeout, WriteThrows, RouteRecords, RedispatchReturns, RedispatchRecords
  <2>2. \A q \in Tasks : GenerateReturns(q) \/ ResumeNext(q) => UNCHANGED disk
    BY DEF GenerateReturns, ResumeNext
  <2> QED BY <1>2, <1>3, <1>4, <1>5, <1>8, <2>1, <2>2 DEF ServerStep
<1>9. Start \/ Kill \/ ClearLock \/ ObserverReads \/ ObserverDies => UNCHANGED disk
  BY DEF Start, Kill, ClearLock, ObserverReads, ObserverDies
<1>10. UNCHANGED vars \/ (\E q \in Tasks : Submit(q)) => UNCHANGED disk
  BY DEF vars, Submit
<1> QED BY <1>2, <1>6, <1>7, <1>8, <1>9, <1>10 DEF Next

LEMMA BeginsWrite ==
  ASSUME TypeInv, LogInv, BeginWrite
  PROVE  /\ Clean(wal) /\ Good(wal)' /\ Bounded(wal)' /\ ~ Clean(wal)'
         /\ Enqueued(wal', Len(wal')) = Enqueued(wal, Len(wal))
         /\ Ended(wal', Len(wal')) = Ended(wal, Len(wal))
         /\ \A i \in 1..Len(wal) : i \in 1..Len(wal') /\ wal'[i] = wal[i]
<1>1. wal \in Logs /\ Len(wal) \in Nat /\ wal' = Append(wal, Torn)
  BY LogFacts DEF BeginWrite
<1>2. Clean(wal) /\ Good(wal) /\ Bounded(wal)
  BY DEF LogInv, BeginWrite, TypeInv, Threaded, Alive
<1>3. /\ wal' \in Logs /\ Len(wal') = Len(wal) + 1 /\ wal'[Len(wal) + 1] = Torn
      /\ \A i \in 1..Len(wal) : wal'[i] = wal[i]
  BY <1>1, AppendIs
<1>4. Good(wal)'
  BY <1>1, <1>2, GoodTorn
<1>5. /\ Enqueued(wal', Len(wal)) = Enqueued(wal, Len(wal))
      /\ Ended(wal', Len(wal)) = Ended(wal, Len(wal))
      /\ Open(wal', Len(wal)) = Open(wal, Len(wal))
  <2>1. Len(wal) \in Nat /\ \A i \in 1..Len(wal) : wal'[i] = wal[i]
    BY <1>1, <1>3
  <2> QED BY <2>1, SamePrefix
<1>6. /\ Enqueued(wal', Len(wal')) = Enqueued(wal, Len(wal))
      /\ Ended(wal', Len(wal')) = Ended(wal, Len(wal))
      /\ Open(wal', Len(wal')) = Open(wal, Len(wal))
  <2>1. Len(wal) \in Nat /\ wal'[Len(wal) + 1] = Torn
    BY <1>1, <1>3
  <2>2. /\ Enqueued(wal', Len(wal) + 1) = Enqueued(wal', Len(wal))
        /\ Ended(wal', Len(wal) + 1) = Ended(wal', Len(wal))
        /\ Open(wal', Len(wal) + 1) = Open(wal', Len(wal))
    BY <2>1, OneMore
  <2> QED BY <1>3, <1>5, <2>2
<1>7. Bounded(wal)'
  <2>1. Len(wal) \in 0..Len(wal)
    BY <1>1
  <2>2. IsFiniteSet(Open(wal', Len(wal'))) /\ Cardinality(Open(wal', Len(wal'))) <= MaxPending
    BY <1>2, <1>6, <2>1 DEF Bounded
  <2> QED BY <1>1, <1>2, <1>3, <2>2, BoundedAppend
<1>8. ~ Clean(wal)'
  BY <1>1, <1>3 DEF Clean
<1> QED BY <1>1, <1>2, <1>3, <1>4, <1>6, <1>7, <1>8

\* The record of a call takes the place of the half that was written first.
LEMMA EndsWrite ==
  ASSUME TypeInv, OrderInv, LogInv, ToldInv, Written
  PROVE  /\ Good(wal)' /\ Bounded(wal)' /\ Clean(wal)' /\ wal' # <<>>
         /\ wal'[Len(wal')] = Rec(op.task, op.is)
         /\ op.task \in Tasks /\ Alive
         /\ op.kind = "enqueue" =>
              /\ op.is = "enqueued" /\ op.task \notin Enqueued(wal, Len(wal))
              /\ Enqueued(wal', Len(wal')) = Enqueued(wal, Len(wal)) \cup {op.task}
              /\ Ended(wal', Len(wal')) = Ended(wal, Len(wal))
              /\ Open(wal', Len(wal')) = pending \cup {op.task}
         /\ op.kind # "enqueue" =>
              /\ op.kind = "finish" /\ op.is \in Outcomes /\ op.task \in Open(wal, Len(wal))
              /\ Enqueued(wal', Len(wal')) = Enqueued(wal, Len(wal))
              /\ Ended(wal', Len(wal')) = Ended(wal, Len(wal)) \cup {op.task}
              /\ Open(wal', Len(wal')) = pending \ {op.task}
         /\ \A i \in 1..Len(wal) : wal[i] # Torn => i \in 1..Len(wal') /\ wal'[i] = wal[i]
<1> DEFINE t == op.task
           rec == Rec(op.task, op.is)
           w == Front(wal)
           m == Len(wal) - 1
<1>1. wal \in Logs /\ Len(wal) \in Nat /\ Good(wal) /\ Bounded(wal) /\ ~ Clean(wal) /\ Alive
  BY LogFacts DEF LogInv, Written, EndWrite
<1>2. /\ op.kind \in {"enqueue", "finish"} /\ t \in Tasks /\ op.is \in Outcomes \cup {"enqueued"}
      /\ op.kind = "enqueue" => op.is = "enqueued" /\ job[t] = "submitted"
      /\ op.kind = "finish" => op.is \in Outcomes
      /\ op.stage = "writing"
  BY LogFacts DEF Written, EndWrite, TypeInv, Threaded
<1>3. Len(wal) >= 1 /\ wal[Len(wal)] = Torn /\ m \in 0..Len(wal) /\ m < Len(wal) /\ m \in Nat
      /\ m + 1 = Len(wal)
  BY <1>1, GoodValid DEF Good
<1>4. /\ w \in Logs /\ Len(w) = m /\ Good(w) /\ Bounded(w) /\ Clean(w)
      /\ \A i \in 1..m : w[i] = wal[i]
  <2>1. w = SubSeq(wal, 1, m)
    BY DEF Front
  <2>2. Len(w) = m
    BY <1>1, <1>3, <2>1, LogType
  <2> HIDE DEF w, m
  <2>3. /\ w \in Logs /\ Good(w) /\ Bounded(w)
        /\ \A i \in 1..m : w[i] = wal[i]
        /\ Clean(wal) \/ m < Len(wal) => Clean(w)
    BY <1>1, <1>3, <2>1, CutPrefix
  <2> QED BY <1>3, <2>2, <2>3
<1> HIDE DEF w, m
<1>5. /\ Enqueued(w, m) = Enqueued(wal, Len(wal)) /\ Ended(w, m) = Ended(wal, Len(wal))
      /\ Open(w, m) = Open(wal, Len(wal))
  <2>1. Enqueued(w, m) = Enqueued(wal, m) /\ Ended(w, m) = Ended(wal, m) /\ Open(w, m) = Open(wal, m)
    BY <1>3, <1>4, SamePrefix
  <2>2. wal[m + 1] = Torn
    BY <1>3
  <2>3. /\ Enqueued(wal, m + 1) = Enqueued(wal, m) /\ Ended(wal, m + 1) = Ended(wal, m)
        /\ Open(wal, m + 1) = Open(wal, m)
    BY <1>3, <2>2, OneMore
  <2> QED BY <1>3, <2>1, <2>3
<1>6. Open(w, m) = pending
  BY <1>1, <1>2, <1>5 DEF LogInv, Remembered
<1>7. op.kind = "enqueue" => t \notin Enqueued(w, m)
  BY <1>2, <1>5 DEF ToldInv, Recorded
<1>8. op.kind = "finish" => t \in Open(w, m)
  BY <1>2, <1>6 DEF OrderInv, Orderly, TypeInv, Threaded
<1>9. rec \in Records
  BY <1>2 DEF Records, Rec
<1>10. /\ wal' = Append(w, rec) /\ wal' \in Logs /\ Len(wal') = m + 1 /\ wal'[m + 1] = rec
       /\ \A i \in 1..m : wal'[i] = wal[i]
  <2>1. wal' = Append(w, rec)
    BY DEF Written, w
  <2> QED BY <1>4, <1>9, <2>1, AppendIs
<1>11. Good(wal)' /\ Clean(wal)'
  <2>1. op.is = "enqueued" => op.kind = "enqueue"
    BY <1>2 DEF Outcomes
  <2>2. op.is \in Outcomes => op.kind = "finish"
    BY <1>2 DEF Outcomes
  <2> QED BY <1>2, <1>4, <1>7, <1>8, <1>10, <2>1, <2>2, GoodAppend
<1>12. /\ Enqueued(wal', m) = Enqueued(wal, Len(wal)) /\ Ended(wal', m) = Ended(wal, Len(wal))
  <2>1. \A i \in 1..m : wal'[i] = w[i]
    BY <1>4, <1>10
  <2> QED BY <1>3, <1>5, <2>1, SamePrefix
<1>13. CASE op.kind = "enqueue"
  <2>1. wal'[m + 1] = Rec(t, "enqueued")
    BY <1>2, <1>10, <1>13
  <2>2. /\ Enqueued(wal', m + 1) = Enqueued(wal', m) \cup {t} /\ Ended(wal', m + 1) = Ended(wal', m)
    BY <1>2, <1>3, <2>1, OneMore
  <2>3. t \notin Ended(w, m)
    BY <1>4, <1>7, <1>13, GoodPending
  <2>4. Open(wal', m + 1) = pending \cup {t}
    BY <1>5, <1>6, <1>12, <2>2, <2>3 DEF Open
  <2>5. IsFiniteSet(pending) /\ Cardinality(pending) < MaxPending
    <3>1. m \in 0..Len(w)
      BY <1>3, <1>4
    <3> QED BY <1>4, <1>6, <1>13, <3>1 DEF Bounded, LogInv
  <2>6. IsFiniteSet(pending \cup {t}) /\ Cardinality(pending \cup {t}) <= MaxPending
    <3>1. Cardinality(pending) \in Nat
      BY <2>5, FS_CardinalityType
    <3>2. /\ IsFiniteSet(pending \cup {t})
          /\ \/ Cardinality(pending \cup {t}) = Cardinality(pending)
             \/ Cardinality(pending \cup {t}) = Cardinality(pending) + 1
      BY <2>5, FS_AddElement
    <3> QED BY <2>5, <3>1, <3>2
  <2>7. Bounded(wal)'
    BY <1>4, <1>9, <1>10, <2>4, <2>6, BoundedAppend
  <2>8. wal' # <<>> /\ \A i \in 1..Len(wal) : wal[i] # Torn => i \in 1..m
    BY <1>3, <1>10
  <2>9. \A i \in 1..Len(wal) : wal[i] # Torn => i \in 1..Len(wal') /\ wal'[i] = wal[i]
    BY <1>3, <1>10, <2>8
  <2>10. /\ op.is = "enqueued" /\ t \notin Enqueued(wal, Len(wal))
         /\ Enqueued(wal', Len(wal')) = Enqueued(wal, Len(wal)) \cup {t}
         /\ Ended(wal', Len(wal')) = Ended(wal, Len(wal))
         /\ Open(wal', Len(wal')) = pending \cup {t}
    BY <1>2, <1>5, <1>7, <1>10, <1>12, <1>13, <2>2, <2>4
  <2>11. wal'[Len(wal')] = rec
    BY <1>10
  <2> HIDE DEF t, rec
  <2> QED BY <1>1, <1>2, <1>11, <1>13, <2>7, <2>8, <2>9, <2>10, <2>11 DEF t, rec
<1>14. CASE op.kind = "finish"
  <2>1. wal'[m + 1] = Rec(t, op.is) /\ op.is \in Outcomes
    BY <1>2, <1>10, <1>14
  <2>2. /\ Enqueued(wal', m + 1) = Enqueued(wal', m) /\ Ended(wal', m + 1) = Ended(wal', m) \cup {t}
    <3>1. m \in Nat /\ t \in Tasks
      BY <1>2, <1>3
    <3> DEFINE v == wal'
               o == op.is
    <3>2. v[m + 1] = Rec(t, o) /\ o \in Outcomes
      BY <2>1
    <3> HIDE DEF t, o, v
    <3>3. /\ Enqueued(v, m + 1) = Enqueued(v, m) /\ Ended(v, m + 1) = Ended(v, m) \cup {t}
      BY <3>1, <3>2, OneOutcome
    <3> QED BY <3>3 DEF v, t
  <2>4. Open(wal', m + 1) = pending \ {t}
    BY <1>5, <1>6, <1>12, <2>2 DEF Open
  <2>5. IsFiniteSet(pending) /\ Cardinality(pending) <= MaxPending
    <3>1. m \in 0..Len(w)
      BY <1>3, <1>4
    <3> QED BY <1>4, <1>6, <3>1 DEF Bounded
  <2>6. IsFiniteSet(pending \ {t}) /\ Cardinality(pending \ {t}) <= MaxPending
    <3>1. Cardinality(pending) \in Nat
      BY <2>5, FS_CardinalityType
    <3>2. IsFiniteSet(pending \ {t}) /\ Cardinality(pending \ {t}) <= Cardinality(pending)
      BY <2>5, FS_Subset
    <3>3. Cardinality(pending \ {t}) \in Nat
      BY <3>2, FS_CardinalityType
    <3> QED BY <2>5, <3>1, <3>2, <3>3
  <2>7. Bounded(wal)'
    BY <1>4, <1>9, <1>10, <2>4, <2>6, BoundedAppend
  <2>8. wal' # <<>> /\ \A i \in 1..Len(wal) : wal[i] # Torn => i \in 1..m
    BY <1>3, <1>10
  <2>9. \A i \in 1..Len(wal) : wal[i] # Torn => i \in 1..Len(wal') /\ wal'[i] = wal[i]
    BY <1>3, <1>10, <2>8
  <2>10. /\ op.is \in Outcomes /\ t \in Open(wal, Len(wal))
         /\ Enqueued(wal', Len(wal')) = Enqueued(wal, Len(wal))
         /\ Ended(wal', Len(wal')) = Ended(wal, Len(wal)) \cup {t}
         /\ Open(wal', Len(wal')) = pending \ {t}
    BY <1>2, <1>5, <1>8, <1>10, <1>12, <1>14, <2>2, <2>4
  <2>11. wal'[Len(wal')] = rec
    BY <1>10
  <2> QED BY <1>1, <1>2, <1>11, <1>14, <2>7, <2>8, <2>9, <2>10, <2>11
<1> QED BY <1>2, <1>13, <1>14

LEMMA Trims ==
  ASSUME TypeInv, TypeInv', LogInv, NEW n \in 0..Len(wal), Trimmed(n)
  PROVE  /\ Good(wal') /\ Bounded(wal')
         /\ Enqueued(wal', Len(wal')) \subseteq Enqueued(wal, Len(wal))
         /\ Ended(wal', Len(wal')) \subseteq Ended(wal, Len(wal))
         /\ \A i \in 1..synced : wal[i] # Torn => i \in 1..synced' /\ wal'[i] = wal[i]
<1> DEFINE v == wal'
<1>1. wal \in Logs /\ Len(wal) \in Nat /\ Good(wal) /\ Bounded(wal) /\ n \in Nat
  BY LogFacts DEF LogInv
<1>2. v = SubSeq(wal, 1, n) \/ (n < Len(wal) /\ v = Append(SubSeq(wal, 1, n), Torn))
  BY DEF Trimmed
<1>3. synced \in Nat /\ synced' \in Nat
  BY DEF TypeInv, TypeOK
<1> HIDE DEF v
<1>4. v \in Logs /\ Good(v) /\ Bounded(v)
  BY <1>1, <1>2, Cut
<1>5. Len(v) = n \/ (Len(v) = n + 1 /\ v[n + 1] = Torn)
  BY <1>1, <1>2, Cut
<1>6. \A i \in 1..n : v[i] = wal[i]
  BY <1>1, <1>2, Cut
<1>7. \A i \in 1..synced : wal[i] # Torn => i \in 1..synced' /\ v[i] = wal[i]
  BY <1>3, <1>6 DEF Trimmed
<1>8. ASSUME NEW t, NEW is \in Outcomes \cup {"enqueued"}, Has(v, Len(v), t, is)
      PROVE  Has(wal, Len(wal), t, is)
  <2>1. PICK i \in 1..Len(v) : v[i] = Rec(t, is)
    BY <1>8 DEF Has
  <2>2. i \in 1..n
    BY <1>1, <1>5, <2>1, RecFields
  <2>3. i \in 1..Len(wal) /\ wal[i] = Rec(t, is)
    BY <1>1, <1>6, <2>1, <2>2
  <2> QED BY <2>3 DEF Has
<1>9. Enqueued(v, Len(v)) \subseteq Enqueued(wal, Len(wal))
  BY <1>8 DEF Enqueued
<1>10. Ended(v, Len(v)) \subseteq Ended(wal, Len(wal))
  BY <1>8 DEF Ended
<1> QED BY <1>4, <1>7, <1>9, <1>10 DEF v

\* The parts of the invariant a step can disturb, by what the step leaves alone.
LEMMA QuietLog ==
  ASSUME TypeInv, LogInv, UNCHANGED <<wal, up, pending>>,
         op.stage \notin {"writing", "written"}, op'.stage \notin {"writing", "written"},
         op'.kind = "enqueue" => op.kind = "enqueue" \/ Cardinality(pending) < MaxPending
  PROVE  LogInv'
BY DEF LogInv, Alive, Remembered

LEMMA StopsLog ==
  ASSUME TypeInv, Stops, Good(wal'), Bounded(wal')
  PROVE  LogInv'
<1>1. up' = "down" /\ pending' = {} /\ op'.kind = "none" /\ op'.stage = "waiting"
  BY StopsType, NoOpType
<1>2. IsFiniteSet({}) /\ Cardinality({}) = 0
  BY FS_EmptySet
<1> QED BY <1>1, <1>2 DEF LogInv, Alive

LEMMA ThrowsLog ==
  ASSUME TypeInv, LogInv, Throws, UNCHANGED wal, op.kind # "none",
         op.stage \in {"waiting", "locked"}
  PROVE  LogInv'
<1>1. op'.stage = "waiting" /\ op'.kind # "enqueue"
  BY ThrowsType, NoOpType
<1>2. CASE StartupThrows
  BY <1>2, StopsLog DEF StartupThrows, LogInv
<1>3. CASE RouteThrows \/ ResumeThrows
  BY <1>1, <1>3, QuietLog DEF RouteThrows, ResumeThrows, service
<1> QED BY <1>2, <1>3 DEF Throws

LEMMA RecoverLog == TypeInv /\ TypeInv' /\ LogInv /\ Recover => LogInv'
<1> SUFFICES ASSUME TypeInv, TypeInv', LogInv, Recover PROVE LogInv'
  OBVIOUS
<1> DEFINE v == wal'
<1>1. PICK n \in 0..Len(wal) : Trimmed(n) /\ v = SubSeq(wal, 1, n) /\ Clean(v)
  BY PrefixTrims DEF Recover
<1>2. Good(v) /\ Bounded(v) /\ v \in Logs
  <2>1. Good(wal') /\ Bounded(wal')
    BY <1>1, Trims
  <2> QED BY <2>1 DEF TypeInv, TypeOK, Logs
<1>3. wal \in Logs /\ Len(wal) \in Nat /\ Good(wal) /\ v = ValidPrefix(wal)
  BY LogFacts DEF LogInv, Recover
<1> HIDE DEF v
<1>4. Open(v, Len(v)) = Open(wal, Len(wal))
  <2>1. Whole(wal) \in 0..Len(wal) /\ v = SubSeq(wal, 1, Whole(wal))
    BY <1>3, GoodValid DEF Good
  <2>2. Len(v) = Whole(wal)
    BY <1>3, <2>1, LogType
  <2>3. \A i \in 1..Whole(wal) : v[i] = wal[i]
    BY <1>3, <2>1, <2>2 DEF Logs
  <2>4. Open(v, Len(v)) = Open(wal, Whole(wal))
    <3>1. Len(v) \in Nat /\ \A i \in 1..Len(v) : v[i] = wal[i]
      BY <2>1, <2>2, <2>3
    <3>2. Open(v, Len(v)) = Open(wal, Len(v))
      BY <3>1, SamePrefix
    <3> QED BY <2>2, <3>2
  <2>5. CASE Clean(wal)
    BY <2>4, <2>5 DEF Whole
  <2>6. CASE ~ Clean(wal)
    <3> DEFINE m == Len(wal) - 1
    <3>1. Len(wal) >= 1 /\ wal[Len(wal)] = Torn
      BY <1>3, <2>6, GoodValid DEF Good
    <3>2. m \in Nat /\ m + 1 = Len(wal) /\ wal[m + 1] = Torn /\ Whole(wal) = m
      BY <1>3, <2>6, <3>1 DEF Whole
    <3> HIDE DEF m
    <3>3. Open(wal, m + 1) = Open(wal, m)
      BY <3>2, OneMore
    <3> QED BY <2>4, <3>2, <3>3
  <2> QED BY <2>5, <2>6
<1>5. pending' = Open(v, Len(v))
  <2>1. PendingOf(wal) = Open(wal, Len(wal))
    BY <1>3, GoodPending
  <2> QED BY <1>4, <2>1 DEF Recover, RecoverReturns
<1>6. IsFiniteSet(pending') /\ Cardinality(pending') <= MaxPending
  <2>1. Len(v) \in 0..Len(v)
    BY <1>2 DEF Logs
  <2> QED BY <1>2, <1>5, <2>1 DEF Bounded
<1>7. op'.kind = "none" /\ op'.stage = "waiting"
  BY NoOpType DEF Recover, RecoverReturns
<1> QED BY <1>1, <1>2, <1>5, <1>6, <1>7 DEF LogInv, Remembered, Alive, v

LEMMA BeginLog == TypeInv /\ LogInv /\ BeginWrite => LogInv'
<1> SUFFICES ASSUME TypeInv, LogInv, BeginWrite PROVE LogInv'
  OBVIOUS
<1>1. /\ Good(wal') /\ Bounded(wal') /\ ~ Clean(wal')
      /\ Enqueued(wal', Len(wal')) = Enqueued(wal, Len(wal))
      /\ Ended(wal', Len(wal')) = Ended(wal, Len(wal))
  BY BeginsWrite
<1>2. op'.stage = "writing" /\ op'.kind = op.kind
  BY LogFacts, AtType DEF BeginWrite, Stages
<1>3. Open(wal', Len(wal')) = Open(wal, Len(wal))
  BY <1>1 DEF Open
<1>4. UNCHANGED <<up, pending>> /\ op.stage = "locked"
  BY DEF BeginWrite, service
<1> QED BY <1>1, <1>2, <1>3, <1>4 DEF LogInv, Alive, Remembered

LEMMA EndLog == TypeInv /\ OrderInv /\ LogInv /\ ToldInv /\ Written => LogInv'
<1> SUFFICES ASSUME TypeInv, OrderInv, LogInv, ToldInv, Written PROVE LogInv'
  OBVIOUS
<1>1. /\ Good(wal') /\ Bounded(wal') /\ Clean(wal') /\ wal' # <<>>
      /\ wal'[Len(wal')] = Rec(op.task, op.is)
      /\ op.kind = "enqueue" => Open(wal', Len(wal')) = pending \cup {op.task}
      /\ op.kind # "enqueue" => Open(wal', Len(wal')) = pending \ {op.task}
  BY EndsWrite
<1>2. /\ op'.stage = "written" /\ op'.kind = op.kind /\ op'.task = op.task /\ op'.is = op.is
  BY LogFacts, AtType DEF Written, EndWrite, Stages
<1>3. UNCHANGED <<up, pending>>
  BY DEF Written, EndWrite, service
<1> QED BY <1>1, <1>2, <1>3 DEF LogInv, Alive, Remembered

LEMMA ReleaseLog == TypeInv /\ LogInv /\ Release => LogInv'
<1> SUFFICES ASSUME TypeInv, LogInv, Release PROVE LogInv'
  OBVIOUS
<1>1. UNCHANGED wal /\ op.stage = "written" /\ Returns
  BY DEF Release
<1>2. /\ wal \in Logs /\ Len(wal) \in Nat /\ Good(wal) /\ Bounded(wal) /\ Clean(wal)
      /\ op.kind \in {"enqueue", "finish"} /\ op.task \in Tasks /\ Alive
  BY <1>1, LogFacts DEF LogInv
<1>3. op'.stage \in {"waiting", "recording"} /\ op'.kind # "enqueue" /\ up' \in {"resuming", "serving"}
  <2>1. Returns /\ op.stage \in {"locked", "written"} /\ (op.kind = "recover" <=> op.stage = "locked")
    BY <1>1, <1>2
  <2> QED BY <2>1, ReturnsType, NoOpType
<1>4. pending' = Open(wal, Len(wal))
  <2>1. Open(wal, Len(wal)) = Remembered
    BY <1>2 DEF LogInv
  <2> QED BY <1>1, <1>2, <2>1
      DEF Returns, RecoverReturns, EnqueueReturns, FinishReturns, ResumeFinishReturns, Settled,
          Remembered
<1>5. IsFiniteSet(pending') /\ Cardinality(pending') <= MaxPending
  <2>1. Len(wal) \in 0..Len(wal)
    BY <1>2
  <2> QED BY <1>2, <1>4, <2>1 DEF Bounded
<1> QED BY <1>1, <1>2, <1>3, <1>4, <1>5 DEF LogInv, Alive, Remembered

\* Another process that recovers a log truncates nothing while the server listens.
LEMMA ObserverLog == TypeInv /\ TypeInv' /\ LogInv /\ ObserverTruncates => LogInv'
<1> SUFFICES ASSUME TypeInv, TypeInv', LogInv, ObserverTruncates PROVE LogInv'
  OBVIOUS
<1>1. /\ op.stage \notin {"writing", "written", "locked"} /\ UNCHANGED <<up, pending, op>>
      /\ (seen # <<>> => seen = wal)
  BY DEF ObserverTruncates, TypeInv, Threaded, InWal, service
<1>2. CASE wal' = wal
  BY <1>1, <1>2, QuietLog
<1>3. CASE wal' # wal
  <2>1. seen # <<>>
    <3>1. ValidPrefix(<<>>) = <<>>
      <4>1. <<>> \in Logs /\ Len(<<>>) = 0
        BY DEF Logs
      <4>2. ValidPrefix(<<>>) \in Logs /\ Len(ValidPrefix(<<>>)) = 0
        BY <4>1, ValidType
      <4> QED BY <4>2 DEF Logs
    <3> QED BY <1>3, <3>1 DEF ObserverTruncates
  <2>2. wal' = ValidPrefix(wal) /\ synced' = SyncedOf(Len(wal'))
    BY <1>1, <1>3, <2>1 DEF ObserverTruncates
  <2>3. ~ Clean(wal)
    <3> SUFFICES ASSUME Clean(wal) PROVE FALSE
      OBVIOUS
    <3>1. wal \in Logs /\ TornLast(wal)
      BY LogFacts DEF LogInv, Good
    <3>2. ValidPrefix(wal) = SubSeq(wal, 1, Len(wal))
      BY <3>1, GoodValid DEF Whole
    <3>3. SubSeq(wal, 1, Len(wal)) = wal
      BY <3>1 DEF Logs
    <3> QED BY <1>3, <2>2, <3>2, <3>3
  <2>4. ~ Alive
    BY <1>1, <2>3 DEF LogInv
  <2>5. Good(wal') /\ Bounded(wal')
    BY <2>2, PrefixTrims, Trims
  <2> QED BY <1>1, <2>4, <2>5 DEF LogInv, Alive
<1> QED BY <1>2, <1>3

LEMMA LogStep ==
  ASSUME Durable, TypeInv, TypeInv', OrderInv, LogInv, ToldInv, [Next]_vars, [~ Rotate]_vars
  PROVE  LogInv'
<1>1. CASE TakeLock
  <2>1. op'.stage = "locked" /\ op'.kind = op.kind /\ op.stage = "waiting"
    BY <1>1, LogFacts, AtType DEF TakeLock, Stages
  <2> QED BY <1>1, <2>1, QuietLog DEF TakeLock, disk, service
<1>2. CASE LockTimeout \/ WriteThrows
  <2>1. Throws /\ UNCHANGED wal /\ op.kind # "none" /\ op.stage \in {"waiting", "locked"}
    BY <1>2, NoOpType DEF LockTimeout, WriteThrows, disk, Durable, TypeInv, Threaded
  <2> QED BY <2>1, ThrowsLog
<1>3. CASE Recover
  BY <1>3, RecoverLog
<1>4. CASE Rotate
  <2>1. UNCHANGED vars
    BY <1>4
  <2> QED BY <2>1 DEF vars, disk, service, LogInv, Alive, Remembered
<1>5. CASE BeginWrite
  BY <1>5, BeginLog
<1>6. CASE EndWrite
  <2>1. Written
    BY <1>6 DEF EndWrite, Written, Durable, Rec
  <2> QED BY <2>1, EndLog
<1>7. CASE Release
  BY <1>7, ReleaseLog
<1>8. CASE RouteRecords \/ RedispatchReturns \/ RedispatchRecords
  <2>1. /\ op.stage \in {"calling", "recording"} /\ op.kind = "finish"
        /\ UNCHANGED <<wal, up, pending>>
    BY <1>8, LogFacts, NoOpType
    DEF RouteRecords, RedispatchReturns, RedispatchRecords, disk, service, TypeInv, Threaded, Ops,
        Kinds
  <2>2. op'.stage \in {"waiting", "recording"} /\ op'.kind # "enqueue"
    <3>1. op' \in {NoOp, At("recording"), At("waiting"), Waiting("finish", op.task, "failed", "catch")}
      BY <1>8 DEF RouteRecords, RedispatchReturns, RedispatchRecords
    <3>2. At("recording").stage = "recording" /\ At("recording").kind = "finish"
          /\ At("waiting").stage = "waiting" /\ At("waiting").kind = "finish"
      BY <2>1, LogFacts, AtType DEF Stages
    <3>3. /\ Waiting("finish", op.task, "failed", "catch").stage = "waiting"
          /\ Waiting("finish", op.task, "failed", "catch").kind = "finish"
      BY DEF Waiting
    <3> QED BY <3>1, <3>2, <3>3, NoOpType
  <2> QED BY <2>1, <2>2, QuietLog
<1>9. ASSUME NEW q \in Tasks, Submit(q) \/ GenerateReturns(q) \/ ResumeNext(q) PROVE LogInv'
  <2>1. op = NoOp /\ op.stage = "waiting" /\ op.kind = "none" /\ UNCHANGED <<wal, up, pending>>
    BY <1>9, NoOpType
    DEF Submit, GenerateReturns, ResumeNext, Idle, TypeInv, Threaded, disk, service
  <2>2. CASE Submit(q)
    <3>1. op' = op \/ (~ Full /\ op' = Waiting("enqueue", q, "enqueued", "http"))
      BY <2>2 DEF Submit
    <3>2. Cardinality(pending) \in Nat
      BY FS_CardinalityType DEF LogInv
    <3>3. op'.stage = "waiting" /\ (op'.kind = "enqueue" => Cardinality(pending) < MaxPending)
      BY <2>1, <3>1, <3>2 DEF Waiting, Full
    <3> QED BY <2>1, <3>3, QuietLog
  <2>3. CASE GenerateReturns(q) \/ ResumeNext(q)
    <3>1. op'.stage \in {"waiting", "calling"} /\ op'.kind = "finish"
      BY <2>3 DEF GenerateReturns, ResumeNext, Waiting
    <3> QED BY <2>1, <3>1, QuietLog
  <2> QED BY <1>9, <2>2, <2>3
<1>10. CASE Start
  <2>1. /\ op'.stage = "waiting" /\ op'.kind = "recover" /\ UNCHANGED <<wal, pending>>
        /\ up' = "recovering"
    BY <1>10 DEF Start, Waiting, disk, service
  <2> QED BY <2>1 DEF LogInv, Alive
<1>11. CASE Kill
  BY <1>11, StopsLog DEF Kill, disk, LogInv
<1>12. CASE LosePower
  <2>1. Good(wal') /\ Bounded(wal')
    BY <1>12, SurvivorTrims, Trims DEF LosePower
  <2> QED BY <1>12, <2>1, StopsLog DEF LosePower
<1>13. CASE ClearLock \/ ObserverReads \/ ObserverDies
  <2>1. op.stage \notin {"writing", "written"} /\ UNCHANGED <<wal, up, pending, op>>
    BY <1>13
    DEF ClearLock, ObserverReads, ObserverDies, CrashHappens, TypeInv, Threaded, InWal, disk,
        service
  <2> QED BY <2>1, QuietLog
<1>14. CASE ObserverTruncates
  BY <1>14, ObserverLog
<1>15. CASE UNCHANGED vars
  BY <1>15 DEF vars, disk, service, LogInv, Alive, Remembered
<1> QED
  BY <1>1, <1>2, <1>3, <1>4, <1>5, <1>6, <1>7, <1>8, <1>9, <1>10, <1>11, <1>12, <1>13, <1>14,
     <1>15 DEF Next, ServerStep

-----------------------------------------------------------------------------
(* What a caller was told is on the disk.                                  *)

\* What a caller was told of is never cut off the log.
LEMMA SyncedStays ==
  ASSUME Durable, TypeInv, TypeInv', OrderInv, LogInv, ToldInv, [Next]_vars, [~ Rotate]_vars,
         NEW i \in 1..synced, wal[i] # Torn
  PROVE  i \in 1..synced' /\ wal'[i] = wal[i]
<1>1. synced \in 0..Len(wal) /\ Len(wal) \in Nat /\ synced \in Nat /\ synced' \in Nat
  BY LogFacts DEF TypeInv, TypeOK
<1>2. CASE UNCHANGED vars
  BY <1>2 DEF vars, disk
<1>3. CASE ~ Rotate
  <2>1. CASE UNCHANGED wal /\ \A j \in 1..synced : j <= synced'
    BY <1>1, <2>1
  <2>2. CASE BeginWrite
    <3>1. wal'[i] = wal[i]
      BY <1>1, <2>2, BeginsWrite
    <3> QED BY <2>2, <3>1 DEF BeginWrite
  <2>3. CASE Written
    <3>1. i \in 1..Len(wal)
      BY <1>1
    <3>2. wal'[i] = wal[i]
      BY <2>3, <3>1, EndsWrite
    <3> QED BY <2>3, <3>2 DEF Written, EndWrite
  <2>4. ASSUME NEW n \in 0..Len(wal), Trimmed(n) PROVE i \in 1..synced' /\ wal'[i] = wal[i]
    BY <2>4, Trims
  <2> QED BY <1>3, <2>1, <2>2, <2>3, <2>4, WalSteps
<1> QED BY <1>2, <1>3

\* Only the record of an enqueue adds a task to the log.
LEMMA EnqueuedGrows ==
  ASSUME Durable, TypeInv, TypeInv', OrderInv, LogInv, ToldInv, [Next]_vars, [~ Rotate]_vars,
         NEW t \in Enqueued(wal', Len(wal'))
  PROVE  t \in Enqueued(wal, Len(wal)) \/ (Written /\ op.kind = "enqueue" /\ t = op.task)
<1>1. CASE UNCHANGED wal
  BY <1>1
<1>2. CASE UNCHANGED vars
  BY <1>1, <1>2 DEF vars, disk
<1>3. CASE ~ Rotate
  <2>1. CASE BeginWrite
    BY <2>1, BeginsWrite
  <2>2. CASE Written
    BY <2>2, EndsWrite
  <2>3. ASSUME NEW n \in 0..Len(wal), Trimmed(n) PROVE t \in Enqueued(wal, Len(wal))
    BY <2>3, Trims
  <2> QED BY <1>1, <1>3, <2>1, <2>2, <2>3, WalSteps
<1> QED BY <1>2, <1>3

LEMMA ToldFacts ==
  ASSUME TypeInv, OrderInv, ToldInv, NEW t \in Tasks
  PROVE  /\ Recorded(t) /\ Orderly(t)
         /\ job[t] = "new" => told[t] = "nothing" /\ runs[t] = 0
<1>1. Recorded(t) /\ Orderly(t)
  BY DEF ToldInv, OrderInv
<1>2. synced \in 0..Len(wal) /\ Len(wal) \in Nat
  BY LogFacts
<1>3. Has(wal, synced, t, "enqueued") => t \in Enqueued(wal, Len(wal))
  BY <1>2 DEF Has, Enqueued
<1> QED BY <1>1, <1>3 DEF Recorded, Orderly

\* What the log says of a task is kept by every step that tells nothing new.
LEMMA QuietTold ==
  ASSUME Durable, TypeInv, TypeInv', OrderInv, LogInv, ToldInv, [Next]_vars, [~ Rotate]_vars,
         NEW t \in Tasks, told'[t] = told[t], ~ Written,
         job'[t] \in {"new", "submitted", "rejected"} =>
           job'[t] = job[t] /\ (runs'[t] = runs[t] \/ job[t] # "rejected"),
         job'[t] = "submitted" /\ op.stage = "written" => op'.stage = "written"
  PROVE  Recorded(t)'
<1>1. Recorded(t)
  BY ToldFacts
<1>2. \A is \in Outcomes \cup {"enqueued"} : Has(wal, synced, t, is) => Has(wal', synced', t, is)
  BY SyncedStays, RecFields DEF Has
<1>3. told'[t] # "nothing" => Has(wal', synced', t, "enqueued")
  BY <1>1, <1>2 DEF Recorded
<1>4. told'[t] = "finished" => \E o \in Outcomes : Has(wal', synced', t, o)
  BY <1>1, <1>2 DEF Recorded
<1>5. t \in Enqueued(wal', Len(wal')) => t \in Enqueued(wal, Len(wal))
  BY EnqueuedGrows
<1> QED BY <1>1, <1>3, <1>4, <1>5 DEF Recorded

\* The answer of a route whose call of the log threw.
LEMMA ThrowsTold ==
  ASSUME Durable, TypeInv, TypeInv', OrderInv, LogInv, ToldInv, [Next]_vars, [~ Rotate]_vars,
         NEW t \in Tasks, LockTimeout \/ WriteThrows
  PROVE  Recorded(t)'
<1>1. /\ Throws /\ UNCHANGED disk /\ op.kind # "none" /\ op.stage \in {"waiting", "locked"}
      /\ ~ Written
  BY NoOpType DEF LockTimeout, WriteThrows, Durable, TypeInv, Threaded, Written, EndWrite
<1>2. CASE StartupThrows
  <2>1. /\ UNCHANGED <<told, runs>>
        /\ job'[t] = "lost" \/ (job'[t] = job[t] /\ job[t] # "submitted")
    BY <1>2, StopsType DEF StartupThrows
  <2> QED BY <1>1, <2>1, QuietTold
<1>3. CASE ResumeThrows
  <2>1. UNCHANGED <<told, runs, job>>
    BY <1>3 DEF ResumeThrows, client
  <2> QED BY <1>1, <2>1, QuietTold
<1>4. CASE RouteThrows
  <2>1. op.task \in Tasks /\ UNCHANGED <<told, runs>>
    BY <1>4 DEF RouteThrows, TypeInv, Threaded
  <2>2. job'[t] = IF t = op.task THEN (IF op.kind = "enqueue" THEN "rejected" ELSE "failed")
                  ELSE job[t]
    BY <1>4, <2>1 DEF RouteThrows, Answers, TypeInv, TypeOK
  <2>3. CASE t = op.task /\ op.kind = "enqueue"
    <3>1. job[t] = "submitted" /\ job'[t] = "rejected"
      BY <2>2, <2>3 DEF TypeInv, Threaded
    <3>2. Recorded(t) /\ Orderly(t)
      BY ToldFacts
    <3>3. told[t] = "nothing" /\ runs[t] = 0 /\ t \notin Enqueued(wal, Len(wal))
      BY <1>1, <3>1, <3>2 DEF Recorded, Orderly
    <3>4. wal' = wal
      BY <1>1 DEF disk
    <3> QED BY <2>1, <3>1, <3>3, <3>4 DEF Recorded
  <2>4. CASE ~ (t = op.task /\ op.kind = "enqueue")
    BY <1>1, <2>1, <2>2, <2>4, QuietTold
  <2> QED BY <2>3, <2>4
<1> QED BY <1>1, <1>2, <1>3, <1>4 DEF Throws

LEMMA ReleaseTold ==
  ASSUME Durable, TypeInv, TypeInv', OrderInv, LogInv, ToldInv, [Next]_vars, [~ Rotate]_vars,
         NEW t \in Tasks, Release
  PROVE  Recorded(t)'
<1>1. /\ wal' = wal /\ synced' = Len(wal) /\ Len(wal) \in Nat /\ op.stage = "written"
      /\ Returns /\ ~ Written
  BY LogFacts DEF Release, Flushed, Durable, Written, EndWrite
<1>2. /\ op.task \in Tasks /\ wal # <<>> /\ wal[Len(wal)] = Rec(op.task, op.is)
      /\ op.kind \in {"enqueue", "finish"}
  BY <1>1, LogFacts DEF LogInv
<1>3. Len(wal) >= 1 /\ Len(wal) \in 1..Len(wal)
  BY <1>1, <1>2, LogFacts DEF Logs
<1>4. Recorded(t) /\ Orderly(t) /\ (job[t] = "submitted" => op.task = t /\ op.kind = "enqueue")
  BY ToldFacts DEF Orderly
<1>5. CASE EnqueueReturns
  <2>1. /\ told'[t] = IF t = op.task THEN "accepted" ELSE told[t]
        /\ job'[t] = IF t = op.task THEN "running" ELSE job[t]
        /\ runs'[t] = IF t = op.task THEN runs[t] + 1 ELSE runs[t]
    BY <1>2, <1>5 DEF EnqueueReturns, Answers, TypeInv, TypeOK
  <2>2. CASE t = op.task
    <3>1. op.is = "enqueued"
      BY <1>5 DEF EnqueueReturns, TypeInv, Threaded
    <3>2. Has(wal', synced', t, "enqueued")
      BY <1>1, <1>2, <1>3, <2>2, <3>1 DEF Has
    <3> QED BY <2>1, <2>2, <3>2 DEF Recorded
  <2>3. CASE t # op.task
    BY <1>1, <1>4, <2>1, <2>3, QuietTold
  <2> QED BY <2>2, <2>3
<1>6. CASE FinishReturns \/ ResumeFinishReturns
  <2>1. op.is \in Outcomes /\ op.kind = "finish"
    BY <1>6 DEF FinishReturns, ResumeFinishReturns, TypeInv, Threaded
  <2>2. /\ told'[t] = IF t = op.task THEN "finished" ELSE told[t]
        /\ UNCHANGED runs
        /\ job'[t] = job[t] \/ (t = op.task /\ job'[t] = "failed")
    BY <1>2, <1>6 DEF FinishReturns, ResumeFinishReturns, Settled, Answers, TypeInv, TypeOK
  <2>3. CASE t = op.task
    <3>1. Has(wal', synced', t, op.is)
      BY <1>1, <1>2, <1>3, <2>3 DEF Has
    <3>2. Has(wal', synced', t, "enqueued")
      <4>1. wal[Len(wal)].is \in Outcomes /\ wal[Len(wal)].task = t
        BY <1>2, <2>1, <2>3, RecFields
      <4>2. Paired(wal)
        BY DEF LogInv, Good
      <4> QED BY <1>1, <1>3, <4>1, <4>2 DEF Paired, Has
    <3>3. t \in Enqueued(wal', Len(wal'))
      BY <1>1, <3>2 DEF Enqueued
    <3>4. job[t] \notin {"new", "rejected", "submitted"}
      BY <1>1, <1>4, <2>1, <3>3 DEF Recorded
    <3> QED BY <2>1, <2>2, <2>3, <3>1, <3>2, <3>4 DEF Recorded
  <2>4. CASE t # op.task
    BY <1>1, <1>4, <2>2, <2>4, QuietTold
  <2> QED BY <2>3, <2>4
<1> QED BY <1>1, <1>2, <1>5, <1>6 DEF Returns, RecoverReturns

LEMMA ToldStep ==
  ASSUME Durable, TypeInv, TypeInv', OrderInv, LogInv, ToldInv, [Next]_vars, [~ Rotate]_vars
  PROVE  ToldInv'
<1> SUFFICES ASSUME NEW t \in Tasks PROVE Recorded(t)'
  BY DEF ToldInv
<1>1. Recorded(t) /\ Orderly(t) /\ (job[t] = "submitted" => op.kind = "enqueue" /\ op.task = t)
  BY ToldFacts DEF Orderly
<1>2. CASE LockTimeout \/ WriteThrows
  BY <1>2, ThrowsTold
<1>3. CASE Release
  BY <1>3, ReleaseTold
<1>4. CASE EndWrite
  <2>1. UNCHANGED <<synced, job, told, runs>> /\ op'.stage = "written" /\ Written
    BY <1>4, LogFacts, AtType DEF EndWrite, Written, Durable, Rec, client, Stages
  <2>2. \A is \in Outcomes \cup {"enqueued"} : Has(wal, synced, t, is) => Has(wal', synced', t, is)
    BY SyncedStays, RecFields DEF Has
  <2>3. t \in Enqueued(wal', Len(wal')) =>
          t \in Enqueued(wal, Len(wal)) \/ (op.kind = "enqueue" /\ t = op.task)
    BY EnqueuedGrows
  <2>4. op.kind = "enqueue" => job[op.task] = "submitted"
    BY DEF TypeInv, Threaded
  <2> QED BY <1>1, <2>1, <2>2, <2>3, <2>4 DEF Recorded
<1>5. CASE Recover
  <2>1. UNCHANGED <<told, job, runs>> /\ op.stage = "locked" /\ ~ Written
    BY <1>5 DEF Recover, RecoverReturns, client, Written, EndWrite
  <2> QED BY <2>1, QuietTold
<1>6. CASE TakeLock \/ BeginWrite \/ RedispatchReturns \/ RedispatchRecords
  <2>1. UNCHANGED <<told, job, runs>> /\ op.stage # "written" /\ ~ Written
    BY <1>6 DEF TakeLock, BeginWrite, RedispatchReturns, RedispatchRecords, client, Written, EndWrite
  <2> QED BY <2>1, QuietTold
<1>7. CASE RouteRecords
  <2>1. /\ UNCHANGED <<told, runs>> /\ op.stage = "recording" /\ ~ Written
        /\ job'[t] = job[t] \/ job'[t] \in {"answered", "failed"}
    BY <1>7 DEF RouteRecords, Answers, Written, EndWrite, TypeInv, TypeOK
  <2> QED BY <2>1, QuietTold
<1>8. ASSUME NEW q \in Tasks, GenerateReturns(q) PROVE Recorded(t)'
  <2>1. UNCHANGED <<told, runs, job>> /\ op.stage # "written" /\ ~ Written
    BY <1>8, NoOpType DEF GenerateReturns, Idle, TypeInv, Threaded, client, Written, EndWrite
  <2> QED BY <2>1, QuietTold
<1>9. ASSUME NEW q \in Tasks, ResumeNext(q) PROVE Recorded(t)'
  <2>1. /\ UNCHANGED <<told, job>> /\ op.stage # "written" /\ ~ Written /\ Alive
        /\ (runs'[t] = runs[t] \/ t = q) /\ q \in recovered
    BY <1>9, NoOpType
    DEF ResumeNext, Idle, TypeInv, Threaded, Written, EndWrite, Alive, TypeOK
  <2>2. t = q => t \in Open(wal, Len(wal))
    BY <1>1, <2>1 DEF Orderly, LogInv, Remembered
  <2>3. t = q => job[t] # "rejected"
    BY <1>1, <2>2 DEF Open, Recorded
  <2> QED BY <2>1, <2>3, QuietTold
<1>10. ASSUME NEW q \in Tasks, Submit(q) PROVE Recorded(t)'
  <2>1. /\ UNCHANGED <<told, runs, wal, synced>> /\ op.stage = "waiting" /\ ~ Written
        /\ job[q] = "new"
        /\ job'[t] = job[t] \/ (t = q /\ job'[t] \in {"rejected", "submitted"})
    BY <1>10, NoOpType
    DEF Submit, Answers, Idle, TypeInv, TypeOK, Threaded, Written, EndWrite, disk
  <2>2. CASE t = q
    <3>1. told[t] = "nothing" /\ runs[t] = 0
      BY <2>1, <2>2, ToldFacts
    <3>2. t \notin Enqueued(wal, Len(wal))
      BY <1>1, <2>1, <2>2 DEF Recorded
    <3> QED BY <2>1, <3>1, <3>2 DEF Recorded
  <2>3. CASE t # q
    BY <2>1, <2>3, QuietTold
  <2> QED BY <2>2, <2>3
<1>11. CASE Kill \/ LosePower
  <2>1. /\ UNCHANGED <<told, runs>> /\ ~ Written
        /\ job'[t] = "lost" \/ (job'[t] = job[t] /\ job[t] # "submitted")
    BY <1>11, StopsType, NoOpType DEF Kill, LosePower, Written, EndWrite
  <2> QED BY <2>1, QuietTold
<1>12. CASE Start \/ ClearLock \/ ObserverReads \/ ObserverTruncates \/ ObserverDies
  <2>1. UNCHANGED <<told, job, runs>> /\ ~ Written
    BY <1>12, LogFacts, AtType, NoOpType
    DEF Start, ClearLock, ObserverReads, ObserverTruncates, ObserverDies, client, Written, EndWrite,
        TypeInv, Threaded, InWal, Stages
  <2>2. op' = op \/ up = "down"
    BY <1>12 DEF Start, ClearLock, ObserverReads, ObserverTruncates, ObserverDies
  <2>3. op'.stage = "written" \/ job[t] # "submitted" \/ op.stage # "written"
    BY <1>1, <2>2 DEF Orderly
  <2> QED BY <2>1, <2>3, QuietTold
<1>13. CASE UNCHANGED vars \/ Rotate
  <2>1. UNCHANGED vars
    BY <1>13 DEF Rotate
  <2> QED BY <1>1, <2>1 DEF vars, disk, client, Recorded
<1> QED
  BY <1>2, <1>3, <1>4, <1>5, <1>6, <1>7, <1>8, <1>9, <1>10, <1>11, <1>12, <1>13
  DEF Next, ServerStep

LEMMA DurableInit == Init => LogInv /\ ToldInv
<1> SUFFICES ASSUME Init PROVE LogInv /\ ToldInv
  OBVIOUS
<1>1. wal = <<>> /\ Len(wal) = 0 /\ pending = {} /\ op = NoOp /\ up = "down"
  BY DEF Init
<1>2. IsFiniteSet({}) /\ Cardinality({}) = 0
  BY FS_EmptySet
<1>3. Good(wal)
  BY <1>1 DEF Good, TornLast, Paired, Once
<1>4. \A n \in 0..0 : Enqueued(wal, n) = {} /\ Open(wal, n) = {}
  BY DEF Enqueued, Open, Has
<1>5. Bounded(wal)
  <2> SUFFICES ASSUME NEW n \in 0..Len(wal)
               PROVE  IsFiniteSet(Open(wal, n)) /\ Cardinality(Open(wal, n)) <= MaxPending
    BY DEF Bounded
  <2>1. n \in 0..0
    BY <1>1
  <2>2. Open(wal, n) = {}
    BY <1>4, <2>1
  <2> QED BY <1>2, <2>2
<1>6. LogInv
  BY <1>1, <1>2, <1>3, <1>5, NoOpType DEF LogInv, Alive
<1>7. ToldInv
  BY <1>1, <1>4 DEF Init, ToldInv, Recorded
<1> QED BY <1>6, <1>7

DurableInv == TypeInv /\ OrderInv /\ LogInv /\ ToldInv

LEMMA DurableStep ==
  ASSUME Durable, DurableInv, [Next]_vars, [~ Rotate]_vars
  PROVE  DurableInv'
<1>1. TypeInv' /\ OrderInv'
  BY TypeStep, OrderStep DEF DurableInv
<1> QED BY <1>1, LogStep, ToldStep DEF DurableInv

THEOREM DurableHolds ==
  ASSUME Durable PROVE Spec /\ NoRotation => []DurableInv
<1>1. Init => DurableInv
  BY TypeInit, OrderInit, DurableInit DEF DurableInv
<1>2. DurableInv /\ [Next]_vars /\ [~ Rotate]_vars => DurableInv'
  BY DurableStep
<1> QED BY <1>1, <1>2, PTL DEF Spec, NoRotation

\* Whatever a crash leaves of the log is good, and says what the synced part said.
LEMMA CrashKeeps ==
  ASSUME TypeInv, LogInv, NEW w \in AfterCrash
  PROVE  /\ PendingOf(w) = Open(w, Len(w)) /\ FinishedIn(w) = Ended(w, Len(w))
         /\ \A t, is : Has(wal, synced, t, is) /\ is \in Outcomes \cup {"enqueued"}
                         => Has(w, Len(w), t, is)
<1>1. wal \in Logs /\ Len(wal) \in Nat /\ synced \in 0..Len(wal) /\ Good(wal) /\ Bounded(wal)
  BY LogFacts DEF LogInv
<1>2. CASE w = wal
  BY <1>1, <1>2, GoodPending DEF Has
<1>3. CASE w \in Survivors
  <2>1. PICK n \in synced..Len(wal) :
          w = SubSeq(wal, 1, n) \/ (n < Len(wal) /\ w = Append(SubSeq(wal, 1, n), Torn))
    BY <1>3, SurvivorCut
  <2>2. n \in 0..Len(wal) /\ n >= synced /\ n \in Nat
    BY <1>1
  <2>3. w \in Logs /\ Good(w)
    BY <1>1, <2>1, <2>2, Cut
  <2>4. Len(w) = n \/ (Len(w) = n + 1 /\ w[n + 1] = Torn)
    BY <1>1, <2>1, <2>2, Cut
  <2>5. \A i \in 1..n : w[i] = wal[i]
    BY <1>1, <2>1, <2>2, Cut
  <2>6. \A i \in 1..synced : i \in 1..Len(w) /\ w[i] = wal[i]
    BY <1>1, <2>2, <2>4, <2>5
  <2> QED BY <2>3, <2>6, GoodPending DEF Has
<1> QED BY <1>2, <1>3 DEF AfterCrash

\* In financial mode the Map is what a restart would rebuild from the file, and holds no
\* more than maxPendingTasks, through failed appends, power loss and other processes.
THEOREM MemoryHolds ==
  ASSUME Durable PROVE Spec /\ NoRotation => []MemoryIsSound
<1>1. DurableInv => MemoryIsSound
  <2> SUFFICES ASSUME DurableInv PROVE MemoryIsSound
    OBVIOUS
  <2>1. TypeInv /\ LogInv
    BY DEF DurableInv
  <2>2. PendingOf(wal) = Open(wal, Len(wal))
    BY <2>1, LogFacts, GoodPending DEF LogInv
  <2>3. MemoryMatchesLog
    <3>1. Idle \/ op.stage \in {"calling", "recording"} => op.stage # "written"
      BY <2>1, NoOpType DEF Idle, TypeInv, Threaded
    <3> QED BY <2>1, <2>2, <3>1 DEF MemoryMatchesLog, LogInv, Alive, Remembered
  <2>4. CapacityHolds
    BY <2>1 DEF LogInv, CapacityHolds
  <2> QED BY <2>1, <2>3, <2>4 DEF MemoryIsSound, TypeInv
<1>2. QED BY <1>1, DurableHolds, PTL

\* In financial mode a task whose enqueue returned is found by every restart, one whose
\* finish returned is never redispatched, and a refused request never runs.
THEOREM AnswersKept ==
  ASSUME Durable PROVE Spec /\ NoRotation => []AnswersHold
<1>1. DurableInv => AnswersHold
  <2> SUFFICES ASSUME DurableInv PROVE AnswersHold
    OBVIOUS
  <2>1. TypeInv /\ LogInv /\ \A t \in Tasks : Recorded(t)
    BY DEF DurableInv, ToldInv
  <2>2. AcceptedSurvives
    <3> SUFFICES ASSUME NEW t \in Tasks, told[t] = "accepted", NEW w \in AfterCrash
                 PROVE  t \in PendingOf(w) \cup FinishedIn(w)
      BY DEF AcceptedSurvives
    <3>1. Has(wal, synced, t, "enqueued")
      BY <2>1 DEF Recorded
    <3>2. Has(w, Len(w), t, "enqueued")
      BY <2>1, <3>1, CrashKeeps
    <3>3. t \in Enqueued(w, Len(w))
      BY <3>2 DEF Enqueued
    <3>4. PendingOf(w) = Open(w, Len(w)) /\ FinishedIn(w) = Ended(w, Len(w))
      BY <2>1, CrashKeeps
    <3> QED BY <3>3, <3>4 DEF Open
  <2>3. FinishedSurvives
    <3> SUFFICES ASSUME NEW t \in Tasks, told[t] = "finished", NEW w \in AfterCrash
                 PROVE  t \notin PendingOf(w)
      BY DEF FinishedSurvives
    <3>1. PICK o \in Outcomes : Has(wal, synced, t, o)
      BY <2>1 DEF Recorded
    <3>2. Has(w, Len(w), t, o)
      BY <2>1, <3>1, CrashKeeps
    <3>3. t \in Ended(w, Len(w))
      BY <3>2 DEF Ended
    <3>4. PendingOf(w) = Open(w, Len(w))
      BY <2>1, CrashKeeps
    <3> QED BY <3>3, <3>4 DEF Open
  <2>4. RejectedNeverRuns
    BY <2>1 DEF RejectedNeverRuns, Recorded
  <2> QED BY <2>2, <2>3, <2>4 DEF AnswersHold
<1>2. QED BY <1>1, DurableHolds, PTL

-----------------------------------------------------------------------------
(* The queue implements DurableQueue.                                      *)

PlaceIn(w, t) == IF t \in FinishedIn(w) THEN "settled"
                 ELSE IF t \in PendingOf(w) THEN "held" ELSE "none"

LEMMA PlaceFacts ==
  ASSUME NEW w \in Logs, Good(w), NEW t \in Tasks
  PROVE  /\ PlaceIn(w, t) = IF t \in Ended(w, Len(w)) THEN "settled"
                            ELSE IF t \in Enqueued(w, Len(w)) THEN "held" ELSE "none"
         /\ t \in Ended(w, Len(w)) => t \in Enqueued(w, Len(w))
BY GoodPending DEF PlaceIn, Open

\* The place of every task before and after a step.
LEMMA PlaceSteps ==
  ASSUME DurableInv, DurableInv'
  PROVE  /\ wal \in Logs /\ Good(wal) /\ wal' \in Logs /\ Good(wal')
         /\ \A t \in Tasks : Place(t) = PlaceIn(wal, t) /\ Place(t)' = PlaceIn(wal', t)
BY DEF DurableInv, TypeInv, TypeOK, Logs, LogInv, Place, PlaceIn

LEMMA StutterStep ==
  ASSUME DurableInv, DurableInv', UNCHANGED <<told, runs>>,
         Enqueued(wal', Len(wal')) = Enqueued(wal, Len(wal)),
         Ended(wal', Len(wal')) = Ended(wal, Len(wal))
  PROVE  UNCHANGED Promise!dqVars
<1>1. \A t \in Tasks : PlaceIn(wal', t) = PlaceIn(wal, t)
  BY PlaceSteps, PlaceFacts
<1>2. \A t \in Tasks : Place(t)' = Place(t)
  BY <1>1, PlaceSteps
<1>3. [t \in Tasks |-> Place(t)]' = [t \in Tasks |-> Place(t)]
  BY <1>2
<1> QED BY <1>3 DEF Promise!dqVars

\* A trim takes back what was told to nobody.
LEMMA TrimStep ==
  ASSUME Durable, DurableInv, DurableInv', [Next]_vars, [~ Rotate]_vars,
         UNCHANGED <<told, runs>>, NEW n \in 0..Len(wal), Trimmed(n)
  PROVE  Promise!Crash
<1> USE DEF DurableInv
<1>1. /\ Enqueued(wal', Len(wal')) \subseteq Enqueued(wal, Len(wal))
      /\ Ended(wal', Len(wal')) \subseteq Ended(wal, Len(wal))
  BY Trims
<1>2. ASSUME NEW t \in Tasks PROVE Place(t)' \in Promise!Undone(t)
  <2>1. /\ Place(t) = IF t \in Ended(wal, Len(wal)) THEN "settled"
                      ELSE IF t \in Enqueued(wal, Len(wal)) THEN "held" ELSE "none"
        /\ t \in Ended(wal, Len(wal)) => t \in Enqueued(wal, Len(wal))
    BY PlaceSteps, PlaceFacts
  <2>2. /\ Place(t)' = IF t \in Ended(wal', Len(wal')) THEN "settled"
                       ELSE IF t \in Enqueued(wal', Len(wal')) THEN "held" ELSE "none"
        /\ t \in Ended(wal', Len(wal')) => t \in Enqueued(wal', Len(wal'))
    BY PlaceSteps, PlaceFacts
  <2>3. /\ told[t] # "nothing" => t \in Enqueued(wal, Len(wal))
        /\ told[t] = "finished" => t \in Ended(wal, Len(wal))
    <3>1. synced \in 0..Len(wal) /\ Len(wal) \in Nat
      BY LogFacts
    <3> QED BY <3>1 DEF ToldInv, Recorded, Enqueued, Ended, Has
  <2>4. /\ told[t] # "nothing" => t \in Enqueued(wal', Len(wal'))
        /\ told[t] = "finished" => t \in Ended(wal', Len(wal'))
    <3>1. synced' \in 0..Len(wal') /\ Len(wal') \in Nat
      BY DEF TypeInv, TypeOK
    <3>2. /\ told'[t] # "nothing" => Has(wal', synced', t, "enqueued")
          /\ told'[t] = "finished" => \E o \in Outcomes : Has(wal', synced', t, o)
      BY DEF ToldInv, Recorded
    <3> QED BY <3>1, <3>2 DEF Enqueued, Ended, Has
  <2>5. told[t] \in {"nothing", "accepted", "finished"}
    BY TaskType DEF TypeInv
  <2>6. CASE told[t] = "finished"
    BY <2>1, <2>2, <2>3, <2>4, <2>6 DEF Promise!Undone
  <2>7. CASE told[t] = "accepted"
    BY <1>1, <2>1, <2>2, <2>3, <2>4, <2>7 DEF Promise!Undone
  <2>8. CASE told[t] = "nothing"
    <3>1. CASE Place(t) = "none"
      <4>1. Place(t)' = "none"
        BY <1>1, <2>1, <2>2, <3>1
      <4> QED BY <2>1, <2>8, <3>1, <4>1 DEF Promise!Undone
    <3>2. CASE Place(t) # "none"
      <4>1. Place(t)' \in {Place(t), "held", "none"}
        BY <1>1, <2>1, <2>2, <3>2
      <4> QED BY <2>1, <2>8, <3>2, <4>1 DEF Promise!Undone
    <3> QED BY <3>1, <3>2
  <2> QED BY <2>5, <2>6, <2>7, <2>8
<1>3. \A t \in Tasks : Place(t)' \in {"none", "held", "settled"}
  BY DEF Place
<1> QED BY <1>2, <1>3 DEF Promise!Crash

LEMMA BeginStep ==
  ASSUME DurableInv, DurableInv', BeginWrite
  PROVE  UNCHANGED Promise!dqVars
<1>1. UNCHANGED <<told, runs>>
  BY DEF BeginWrite, client
<1>2. /\ Enqueued(wal', Len(wal')) = Enqueued(wal, Len(wal))
      /\ Ended(wal', Len(wal')) = Ended(wal, Len(wal))
  BY BeginsWrite DEF DurableInv
<1> QED BY <1>1, <1>2, StutterStep

\* The record of enqueue accepts its task, the record of finish settles it.
LEMMA EndStep ==
  ASSUME DurableInv, DurableInv', Written
  PROVE  \E t \in Tasks : Promise!Accept(t) \/ Promise!Settle(t)
<1>a. PICK t \in Tasks : t = op.task
  BY EndsWrite DEF DurableInv
<1>1. UNCHANGED <<told, runs>>
  BY DEF Written, EndWrite, client
<1>2. /\ t \in Tasks
      /\ op.kind = "enqueue" =>
           /\ t \notin Enqueued(wal, Len(wal))
           /\ Enqueued(wal', Len(wal')) = Enqueued(wal, Len(wal)) \cup {t}
           /\ Ended(wal', Len(wal')) = Ended(wal, Len(wal))
      /\ op.kind # "enqueue" =>
           /\ t \in Open(wal, Len(wal))
           /\ Enqueued(wal', Len(wal')) = Enqueued(wal, Len(wal))
           /\ Ended(wal', Len(wal')) = Ended(wal, Len(wal)) \cup {t}
  BY <1>a, EndsWrite DEF DurableInv
<1>3. ASSUME NEW q \in Tasks
      PROVE  /\ Place(q) = IF q \in Ended(wal, Len(wal)) THEN "settled"
                           ELSE IF q \in Enqueued(wal, Len(wal)) THEN "held" ELSE "none"
             /\ q \in Ended(wal, Len(wal)) => q \in Enqueued(wal, Len(wal))
             /\ Place(q)' = IF q \in Ended(wal', Len(wal')) THEN "settled"
                            ELSE IF q \in Enqueued(wal', Len(wal')) THEN "held" ELSE "none"
             /\ q \in Ended(wal', Len(wal')) => q \in Enqueued(wal', Len(wal'))
  BY PlaceSteps, PlaceFacts
<1>4. CASE op.kind = "enqueue"
  <2>1. Place(t) = "none" /\ Place(t)' = "held"
    BY <1>2, <1>3, <1>4
  <2>2. \A q \in Tasks \ {t} : Place(q)' = Place(q)
    BY <1>2, <1>3, <1>4
  <2>3. [q \in Tasks |-> Place(q)]' = [[q \in Tasks |-> Place(q)] EXCEPT ![t] = "held"]
    BY <1>2, <2>1, <2>2
  <2>4. told[t] = "nothing"
    <3>1. job[op.task] = "submitted"
      BY <1>4 DEF DurableInv, TypeInv, Threaded
    <3> QED BY <1>a, <3>1 DEF DurableInv, ToldInv, Recorded
  <2>5. Promise!Accept(t)
    BY <1>1, <1>2, <2>1, <2>3, <2>4 DEF Promise!Accept
  <2> QED BY <1>2, <2>5
<1>5. CASE op.kind # "enqueue"
  <2>1. Place(t) = "held" /\ Place(t)' = "settled"
    BY <1>2, <1>3, <1>5 DEF Open
  <2>2. \A q \in Tasks \ {t} : Place(q)' = Place(q)
    BY <1>2, <1>3, <1>5
  <2>3. [q \in Tasks |-> Place(q)]' = [[q \in Tasks |-> Place(q)] EXCEPT ![t] = "settled"]
    BY <1>2, <2>1, <2>2
  <2>4. Promise!Settle(t)
    BY <1>1, <1>2, <2>1, <2>3 DEF Promise!Settle
  <2> QED BY <1>2, <2>4
<1> QED BY <1>4, <1>5

\* The answer of enqueue and the first execution are one step, and so is the answer of
\* finish.
LEMMA ReleaseStep ==
  ASSUME DurableInv, DurableInv', Release
  PROVE  \E t \in Tasks : Promise!AcceptedAndRun(t) \/ Promise!Finished(t)
<1> DEFINE t == op.task
<1>1. /\ UNCHANGED wal /\ op.stage = "written" /\ Returns /\ Len(wal) \in Nat /\ t \in Tasks
      /\ Alive /\ wal # <<>> /\ wal[Len(wal)] = Rec(t, op.is) /\ wal \in Logs
      /\ op.kind \in {"enqueue", "finish"} /\ Open(wal, Len(wal)) = Remembered
  BY LogFacts DEF Release, DurableInv, LogInv
<1>2. [q \in Tasks |-> Place(q)]' = [q \in Tasks |-> Place(q)]
  BY <1>1 DEF Place
<1>3. /\ Place(t) = IF t \in Ended(wal, Len(wal)) THEN "settled"
                    ELSE IF t \in Enqueued(wal, Len(wal)) THEN "held" ELSE "none"
  BY <1>1, PlaceSteps, PlaceFacts
<1>4. told \in [Tasks -> {"nothing", "accepted", "finished"}] /\ runs \in [Tasks -> Nat]
  BY DEF DurableInv, TypeInv, TypeOK
<1>5. CASE EnqueueReturns
  <2>1. t \in Open(wal, Len(wal)) /\ op.kind = "enqueue"
    BY <1>1, <1>5 DEF EnqueueReturns, Remembered
  <2>2. Place(t) = "held"
    BY <1>3, <2>1 DEF Open
  <2>3. told[t] = "nothing"
    <3>1. job[op.task] = "submitted"
      BY <2>1 DEF DurableInv, TypeInv, Threaded
    <3> QED BY <1>1, <3>1 DEF DurableInv, ToldInv, Recorded
  <2>4. told' = [told EXCEPT ![t] = "accepted"] /\ runs' = [runs EXCEPT ![t] = @ + 1]
    BY <1>5 DEF EnqueueReturns
  <2>5. Promise!AcceptedAndRun(t)
    BY <1>1, <1>2, <2>2, <2>3, <2>4 DEF Promise!AcceptedAndRun
  <2> QED BY <1>1, <2>5
<1>6. CASE FinishReturns \/ ResumeFinishReturns
  <2>1. op.is \in Outcomes
    BY <1>6 DEF FinishReturns, ResumeFinishReturns, DurableInv, TypeInv, Threaded
  <2>2. Len(wal) \in 1..Len(wal)
    BY <1>1 DEF Logs
  <2>3. t \in Ended(wal, Len(wal))
    BY <1>1, <2>1, <2>2 DEF Ended, Has
  <2>4. told' = [told EXCEPT ![t] = "finished"] /\ UNCHANGED runs
    BY <1>6 DEF FinishReturns, ResumeFinishReturns, Settled
  <2>5. Promise!Finished(t)
    BY <1>1, <1>2, <1>3, <2>3, <2>4 DEF Promise!Finished
  <2> QED BY <1>1, <2>5
<1> QED BY <1>1, <1>5, <1>6 DEF Returns, RecoverReturns

LEMMA ResumeStep ==
  ASSUME DurableInv, DurableInv', NEW t \in Tasks, ResumeNext(t)
  PROVE  UNCHANGED Promise!dqVars \/ Promise!RunAgain(t)
<1>1. /\ UNCHANGED <<wal, told>> /\ t \in recovered /\ Alive /\ op.stage = "waiting"
      /\ UNCHANGED runs \/ runs' = [runs EXCEPT ![t] = @ + 1]
  BY NoOpType DEF ResumeNext, Idle, DurableInv, TypeInv, Threaded, disk, Alive
<1>2. [q \in Tasks |-> Place(q)]' = [q \in Tasks |-> Place(q)]
  BY <1>1 DEF Place
<1>3. t \in Open(wal, Len(wal))
  BY <1>1 DEF DurableInv, OrderInv, Orderly, LogInv, Remembered
<1>4. Place(t) = "held"
  BY <1>3, PlaceSteps, PlaceFacts DEF Open
<1>5. CASE UNCHANGED runs
  BY <1>1, <1>2, <1>5 DEF Promise!dqVars
<1>6. CASE runs' = [runs EXCEPT ![t] = @ + 1]
  BY <1>1, <1>2, <1>4, <1>6 DEF Promise!RunAgain
<1> QED BY <1>1, <1>5, <1>6

LEMMA QueueStep ==
  ASSUME Durable, DurableInv, [Next]_vars, [~ Rotate]_vars
  PROVE  [Promise!DQNext]_(Promise!dqVars)
<1>1. DurableInv'
  BY DurableStep
<1>2. CASE UNCHANGED <<wal, told, runs>>
  BY <1>1, <1>2, StutterStep
<1>3. CASE Release
  BY <1>1, <1>3, ReleaseStep DEF Promise!DQNext
<1>4. CASE EndWrite
  <2>1. Written
    BY <1>4 DEF EndWrite, Written, Durable, Rec
  <2> QED BY <1>1, <2>1, EndStep DEF Promise!DQNext
<1>5. CASE BeginWrite
  BY <1>1, <1>5, BeginStep
<1>6. ASSUME NEW n \in 0..Len(wal), Trimmed(n), UNCHANGED <<told, runs>>
      PROVE  Promise!DQNext
  BY <1>1, <1>6, TrimStep DEF Promise!DQNext
<1>7. CASE Recover \/ LosePower \/ ObserverTruncates
  <2>1. UNCHANGED <<told, runs>>
    BY <1>7 DEF Recover, RecoverReturns, LosePower, Stops, ObserverTruncates, client
  <2>2. ~ BeginWrite /\ ~ Written /\ ~ Rotate
    BY <1>7, NoOpType
    DEF Recover, LosePower, ObserverTruncates, BeginWrite, Written, EndWrite, Rotate, DurableInv,
        TypeInv, Threaded, InWal, Stops
  <2>3. UNCHANGED wal \/ \E n \in 0..Len(wal) : Trimmed(n)
    BY <2>2, WalSteps DEF DurableInv
  <2> QED BY <1>2, <1>6, <2>1, <2>3
<1>8. ASSUME NEW t \in Tasks, ResumeNext(t) PROVE [Promise!DQNext]_(Promise!dqVars)
  BY <1>1, <1>8, ResumeStep DEF Promise!DQNext
<1>9. CASE LockTimeout \/ WriteThrows
  <2>1. UNCHANGED <<wal, told, runs>>
    BY <1>9
    DEF LockTimeout, WriteThrows, disk, Throws, RouteThrows, ResumeThrows, StartupThrows, Stops,
        client
  <2> QED BY <1>2, <2>1
<1>10. TakeLock \/ RouteRecords \/ RedispatchReturns \/ RedispatchRecords
         \/ Start \/ Kill \/ ClearLock \/ ObserverReads \/ ObserverDies => UNCHANGED <<wal, told, runs>>
  BY DEF TakeLock, RouteRecords, RedispatchReturns, RedispatchRecords, Start, Kill, ClearLock,
         ObserverReads, ObserverDies, Stops, disk, client
<1>11. \A q \in Tasks : Submit(q) \/ GenerateReturns(q) => UNCHANGED <<wal, told, runs>>
  BY DEF Submit, GenerateReturns, disk, client
<1>12. UNCHANGED vars \/ Rotate => UNCHANGED <<wal, told, runs>>
  BY DEF vars, disk, client
<1> QED
  BY <1>2, <1>3, <1>4, <1>5, <1>7, <1>8, <1>9, <1>10, <1>11, <1>12 DEF Next, ServerStep

\* In financial mode the queue implements DurableQueue: what was told to a caller is never
\* taken back, whoever crashes.
THEOREM QueueKeepsPromise ==
  ASSUME Durable PROVE Spec /\ NoRotation => KeepsPromise
<1>1. Init => Promise!DQInit
  <2> SUFFICES ASSUME Init PROVE Promise!DQInit
    OBVIOUS
  <2>1. wal = <<>> /\ Len(wal) = 0
    BY DEF Init
  <2>2. Valid(wal) = {}
    BY <2>1 DEF Valid
  <2>3. \A t \in Tasks : Place(t) = "none"
    BY <2>2 DEF Place, FinishedIn, PendingOf
  <2> QED BY <2>3 DEF Init, Promise!DQInit
<1>2. DurableInv /\ [Next]_vars /\ [~ Rotate]_vars => [Promise!DQNext]_(Promise!dqVars)
  BY QueueStep
<1>3. QED BY <1>1, <1>2, DurableHolds, PTL DEF Spec, NoRotation, KeepsPromise, Promise!DQSpec

=============================================================================
