---------------------------- MODULE ChainAppend -----------------------------
(***************************************************************************)
(* appendBlock of the TypeScript chain backend.  A chain is a directory of *)
(* numbered block files; any number of processes append to it, one at a    *)
(* time under the lock file .append.lock.  An append prunes the empty      *)
(* files at the end, validates the whole chain, writes the new block to a  *)
(* temporary file and renames it into place.  verifyChainIntegrity reads   *)
(* the same directory without the lock.  A process may die at any step;    *)
(* nothing is synced, so a power loss may also empty or drop files.        *)
(***************************************************************************)
EXTENDS Integers, Sequences, FiniteSets

CONSTANTS
  Calls,          \* calls of appendBlock; a call's block, hash included, is the call
  Genesis,        \* the previous hash of the first block
  NoBlock,
  LockIsCleared,  \* BOOLEAN: somebody removes the lock file of a dead process
  MaxCrashes      \* bound on the power losses

ASSUME CallsAssumption == Genesis \notin Calls /\ NoBlock \notin Calls /\ "free" \notin Calls
ASSUME ClearedAssumption == LockIsCleared \in BOOLEAN
ASSUME CrashesAssumption == MaxCrashes \in Nat

VARIABLES
  chain,    \* 000001.json, 000002.json, ...: a block, or Empty
  written,  \* the files whose contents have reached the disk
  lock,     \* the call that created .append.lock, or "free"
  pc,       \* how far each call is
  plan,     \* the block a call is about to write, and its number
  verify,   \* verifyChainIntegrity: the number of files it listed, its verdict
  losses    \* power losses so far

callVars == <<pc, plan>>
vars == <<chain, written, lock, callVars, verify, losses>>

Blocks == [id : Calls, prev : Calls \cup {Genesis}]
Empty == [id |-> NoBlock, prev |-> NoBlock]
Plans == [at : Nat, block : Blocks \cup {Empty}]
NoPlan == [at |-> 0, block |-> Empty]
Stages == {"new", "waiting", "locked", "planned", "renamed", "answered", "failed", "dead"}
Inside == {"locked", "planned", "renamed"}   \* holding the lock
Verdicts == {"none", "listed", "passed", "refused"}

Init ==
  /\ chain = <<>> /\ written = {}
  /\ lock = "free"
  /\ pc = [c \in Calls |-> "new"]
  /\ plan = [c \in Calls |-> NoPlan]
  /\ verify = [stage |-> "none", files |-> 0]
  /\ losses = 0

Goto(c, stage) == pc' = [pc EXCEPT ![c] = stage]

\* readAndValidateChainBlocks on the first n files: every file parses, the first
\* block has no predecessor and each other one has the hash of the one before.
LinkedAt(i) == chain[i].prev = IF i = 1 THEN Genesis ELSE chain[i - 1].id
ValidUpTo(n) == \A i \in 1..n : chain[i] # Empty /\ LinkedAt(i)

\* The file of number i, whatever was there.
Placed(i, b) ==
  [j \in 1..(IF i > Len(chain) THEN i ELSE Len(chain)) |->
     IF j = i THEN b ELSE IF j <= Len(chain) THEN chain[j] ELSE Empty]

-----------------------------------------------------------------------------
Call(c) ==
  /\ pc[c] = "new" /\ Goto(c, "waiting")
  /\ UNCHANGED <<chain, written, lock, plan, verify, losses>>

LockIgnored(c) ==
  /\ pc[c] = "waiting"
  /\ lock' = c /\ Goto(c, "locked")
  /\ UNCHANGED <<chain, written, plan, verify, losses>>
TakeLock(c) ==
  /\ pc[c] = "waiting" /\ lock = "free"
  /\ lock' = c /\ Goto(c, "locked")
  /\ UNCHANGED <<chain, written, plan, verify, losses>>

LockTimeoutIfAlive(c) ==
  /\ pc[c] = "waiting" /\ lock # "free" /\ pc[lock] # "dead"
  /\ Goto(c, "failed")
  /\ UNCHANGED <<chain, written, lock, plan, verify, losses>>
LockTimeout(c) ==    \* 200 attempts, 10 ms apart
  /\ pc[c] = "waiting" /\ lock # "free"
  /\ Goto(c, "failed")
  /\ UNCHANGED <<chain, written, lock, plan, verify, losses>>

\* pruneTrailingEmptyBlockFiles, one unlink at a time.  Only a power loss leaves
\* something to prune, so this is an action of LossyNext.
TrailingEmpty == chain # <<>> /\ chain[Len(chain)] = Empty
Prune(c) ==
  /\ pc[c] = "locked" /\ TrailingEmpty
  /\ chain' = SubSeq(chain, 1, Len(chain) - 1)
  /\ written' = written \ {Len(chain)}
  /\ UNCHANGED <<lock, callVars, verify, losses>>

LinkToGenesis(c) ==
  [at |-> Len(chain) + 1, block |-> [id |-> c, prev |-> Genesis]]
NextBlock(c) ==
  [at |-> Len(chain) + 1,
   block |-> [id |-> c, prev |-> IF chain = <<>> THEN Genesis ELSE chain[Len(chain)].id]]
PlanBlock(c) ==
  /\ pc[c] = "locked" /\ ~ TrailingEmpty /\ ValidUpTo(Len(chain))
  /\ plan' = [plan EXCEPT ![c] = NextBlock(c)]
  /\ Goto(c, "planned")
  /\ UNCHANGED <<chain, written, lock, verify, losses>>

WriteInPlace(c) ==
  /\ pc[c] = "planned" /\ UNCHANGED <<written, lock, plan, verify, losses>>
  /\ IF plan[c].at > Len(chain)
     THEN chain' = Placed(plan[c].at, Empty) /\ UNCHANGED pc
     ELSE chain' = Placed(plan[c].at, plan[c].block) /\ Goto(c, "renamed")
\* The temporary file has the whole block: the rename publishes it at once.
Rename(c) ==
  /\ pc[c] = "planned"
  /\ chain' = Placed(plan[c].at, plan[c].block)
  /\ written' = written \ {plan[c].at}
  /\ Goto(c, "renamed")
  /\ UNCHANGED <<lock, plan, verify, losses>>

Release(c) ==
  /\ pc[c] = "renamed"
  /\ lock' = "free" /\ Goto(c, "answered")
  /\ UNCHANGED <<chain, written, plan, verify, losses>>

\* The chain does not validate, or a read, the write or the rename fails.
Throw(c) ==
  /\ pc[c] \in {"locked", "planned"}
  /\ lock' = "free" /\ Goto(c, "failed")
  /\ UNCHANGED <<chain, written, plan, verify, losses>>

\* The process dies; its lock file stays, whoever dies in withAppendLock.
Kill(c) ==
  /\ pc[c] \in {"waiting"} \cup Inside
  /\ Goto(c, "dead")
  /\ UNCHANGED <<chain, written, lock, plan, verify, losses>>

ClearLock ==
  /\ LockIsCleared
  /\ \E c \in Calls : lock = c /\ pc[c] = "dead"
  /\ lock' = "free"
  /\ UNCHANGED <<chain, written, callVars, verify, losses>>

\* verifyChainIntegrity: readdir, then all the files at once; no lock.
List ==
  /\ verify.stage # "listed"
  /\ verify' = [stage |-> "listed", files |-> Len(chain)]
  /\ UNCHANGED <<chain, written, lock, callVars, losses>>
Judge ==
  /\ verify.stage = "listed"
  /\ verify' = [verify EXCEPT !.stage =
       IF verify.files <= Len(chain) /\ ValidUpTo(verify.files) THEN "passed" ELSE "refused"]
  /\ UNCHANGED <<chain, written, lock, callVars, losses>>

\* The kernel writes files back in any order.
Writeback(i) ==
  /\ i \in 1..Len(chain) /\ i \notin written
  /\ written' = written \cup {i}
  /\ UNCHANGED <<chain, lock, callVars, verify, losses>>

\* Renames are journalled in order: some of the last ones may be lost.  A file that
\* was not written back may be there and be empty.  The lock file may be lost.
LosePower ==
  /\ losses < MaxCrashes /\ losses' = losses + 1
  /\ \E n \in 0..Len(chain), gone \in SUBSET (1..Len(chain)) :
       /\ \A i \in written : i <= n /\ i \notin gone
       /\ chain' = [i \in 1..n |-> IF i \in gone THEN Empty ELSE chain[i]]
       /\ written' = 1..n
  /\ pc' = [c \in Calls |-> IF pc[c] \in {"waiting"} \cup Inside THEN "dead" ELSE pc[c]]
  /\ lock' \in {lock, "free"}
  /\ verify' = [stage |-> "none", files |-> 0]
  /\ UNCHANGED plan

Step(c) ==
  TakeLock(c) \/ LockTimeout(c) \/ PlanBlock(c) \/ Rename(c) \/ Release(c) \/ Throw(c)

Next ==
  \/ \E c \in Calls : Call(c) \/ Step(c) \/ Kill(c)
  \/ ClearLock \/ List \/ Judge
  \/ \E i \in 1..Len(chain) : Writeback(i)

\* Processes die, the machine does not.
Spec == Init /\ [][Next]_vars

\* A call that started goes on: its loop is bounded and every await ends.
FairSpec == Spec /\ \A c \in Calls : WF_vars(Step(c))

\* The machine may lose power as well.
LossyNext == Next \/ LosePower \/ \E c \in Calls : Prune(c)
LossySpec == Init /\ [][LossyNext]_vars

-----------------------------------------------------------------------------
(* Properties.                                                             *)

\* Every variable has its type.
TypeOK ==
  /\ chain \in Seq(Blocks \cup {Empty}) /\ written \subseteq 1..Len(chain)
  /\ lock \in Calls \cup {"free"}
  /\ pc \in [Calls -> Stages] /\ plan \in [Calls -> Plans]
  /\ verify \in [stage : Verdicts, files : Nat] /\ losses \in Nat

\* However the appends of all the processes interleave and die, the directory always
\* validates: every file is a block, linked to the one before (appendBlock).
ChainValid == ValidUpTo(Len(chain))

\* No block appears twice in a chain, a call that got its result finds its block in it,
\* and one that got an error does not.
InChain(c) == \E i \in 1..Len(chain) : chain[i].id = c
AnswersAreTrue ==
  /\ \A i, j \in 1..Len(chain) : chain[i] # Empty /\ chain[i].id = chain[j].id => i = j
  /\ \A c \in Calls : /\ pc[c] = "answered" => InChain(c)
                      /\ pc[c] = "failed" => ~ InChain(c)

\* verifyChainIntegrity, which bootstrap takes for proof of corruption, never refuses a
\* chain because it runs during an append.
VerifyNeverRefuses == verify.stage # "refused"

\* Two calls are never between lock and unlock at once, unless one of them is dead.
OneAppender == \A c, d \in Calls : pc[c] \in Inside /\ pc[d] \in Inside => c = d

\* A block that is in the chain stays where it is: no later append changes it.
AppendOnly ==
  [][/\ Len(chain) <= Len(chain')
     /\ \A i \in 1..Len(chain) : chain'[i] = chain[i]]_vars

\* Every call that started gets an answer or an error, also behind a stale lock.
AppendEnds ==
  \A c \in Calls : pc[c] = "waiting" ~> pc[c] \in {"answered", "failed", "dead"}

\* The directory implements an append-only log of the calls.
Log == INSTANCE AppendLog WITH
  log <- [i \in 1..Len(chain) |-> chain[i].id],
  answered <- {c \in Calls : pc[c] = "answered"}
ImplementsLog == Log!LogSpec

\* After power losses too, an append leaves a chain that validates as a whole: it
\* prunes what is empty at the end and refuses what is broken before it.
GrowsOnlyWhenValid == Len(chain') > Len(chain) => ValidUpTo(Len(chain))'

=============================================================================
