------------------------- MODULE ChainAppendProofs --------------------------
(***************************************************************************)
(* Proofs about ChainAppend, for any number of processes and any length of *)
(* the chain, under Spec: processes may die at any step, the machine keeps *)
(* its power.                                                              *)
(***************************************************************************)
EXTENDS ChainAppend, SequenceTheorems, TLAPS

USE CallsAssumption

-----------------------------------------------------------------------------
(* The inductive invariant.                                                *)

Whole ==
  /\ \A i \in 1..Len(chain) : chain[i] \in Blocks /\ LinkedAt(i)
  /\ \A i, j \in 1..Len(chain) : chain[i].id = chain[j].id => i = j
\* A call's block is in the chain from its rename on.
Where ==
  \A c \in Calls :
    /\ pc[c] \in {"renamed", "answered"} => InChain(c)
    /\ pc[c] \in {"new", "waiting", "locked", "planned", "failed"} => ~ InChain(c)
\* Who is between lock and unlock created the lock file, and what it planned to write
\* is still the next block.
Exclusive == \A c \in Calls : pc[c] \in Inside => lock = c
PlansHold == \A c \in Calls : pc[c] = "planned" => plan[c] = NextBlock(c)
Verified == verify.files <= Len(chain) /\ verify.stage # "refused"

IInv == TypeOK /\ Whole /\ Where /\ Exclusive /\ PlansHold /\ Verified

\* Blocks are not Empty, so a whole chain validates and has nothing to prune.
LEMMA WholeIsValid ==
  ASSUME TypeOK, Whole
  PROVE  /\ Len(chain) \in Nat
         /\ ~ TrailingEmpty
         /\ \A i \in 1..Len(chain) : chain[i] # Empty
         /\ \A n \in Nat : n <= Len(chain) => ValidUpTo(n)
<1>1. Len(chain) \in Nat /\ (chain # <<>> => Len(chain) \in 1..Len(chain))
  BY EmptySeq, LenProperties DEF TypeOK
<1>2. \A i \in 1..Len(chain) : chain[i] # Empty
  BY DEF Whole, Blocks, Empty
<1>3. ~ TrailingEmpty
  BY <1>1, <1>2 DEF TrailingEmpty
<1>4. \A n \in Nat : n <= Len(chain) => ValidUpTo(n)
  BY <1>1, <1>2 DEF ValidUpTo, Whole
<1>. QED  BY <1>1, <1>2, <1>3, <1>4

LEMMA InitIInv ==
  ASSUME Init
  PROVE  IInv
<1>1. Len(chain) = 0 /\ 1..Len(chain) = {}
  BY DEF Init
<1>2. TypeOK
  BY <1>1, CrashesAssumption DEF Init, TypeOK, Stages, Plans, NoPlan, Empty, Verdicts
<1>3. Whole /\ Where
  BY <1>1 DEF Init, Whole, Where, InChain
<1>4. Exclusive /\ PlansHold /\ Verified
  BY <1>1 DEF Init, Exclusive, PlansHold, Inside, Verified
<1>. QED  BY <1>2, <1>3, <1>4 DEF IInv

-----------------------------------------------------------------------------
(* Steps that leave the chain alone.                                       *)

\* What such a step has to keep for the invariant to hold after it.
LEMMA ChainUnchanged ==
  ASSUME IInv, chain' = chain, TypeOK',
         \A c \in Calls :
           /\ pc'[c] \in {"renamed", "answered"} => InChain(c)
           /\ pc'[c] \in {"new", "waiting", "locked", "planned", "failed"} => ~ InChain(c)
           /\ pc'[c] \in Inside => lock' = c
           /\ pc'[c] = "planned" => plan'[c] = NextBlock(c),
         Verified'
  PROVE  IInv'
<1>1. Whole'
  BY DEF IInv, Whole, LinkedAt
<1>2. Where'
  BY DEF Where, InChain
<1>3. Exclusive'
  BY DEF Exclusive
<1>4. PlansHold'
  BY DEF PlansHold, NextBlock
<1>. QED  BY <1>1, <1>2, <1>3, <1>4 DEF IInv

\* A call that moves on alone, without changing the chain or the verification.
LEMMA CallMoves ==
  ASSUME IInv, NEW c \in Calls, NEW stage \in Stages, Goto(c, stage),
         chain' = chain, verify' = verify, TypeOK',
         \A d \in Calls : d # c /\ pc[d] \in Inside => lock' = lock,
         \A d \in Calls : d # c => plan'[d] = plan[d],
         stage \in {"renamed", "answered"} => InChain(c),
         stage \in {"new", "waiting", "locked", "planned", "failed"} => ~ InChain(c),
         stage \in Inside => lock' = c,
         stage = "planned" => plan'[c] = NextBlock(c)
  PROVE  IInv'
<1>1. pc' = [pc EXCEPT ![c] = stage] /\ pc \in [Calls -> Stages]
  BY DEF Goto, IInv, TypeOK
<1>2. Verified'
  BY DEF IInv, Verified
<1>3. ASSUME NEW d \in Calls
      PROVE  /\ pc'[d] \in {"renamed", "answered"} => InChain(d)
             /\ pc'[d] \in {"new", "waiting", "locked", "planned", "failed"} => ~ InChain(d)
             /\ pc'[d] \in Inside => lock' = d
             /\ pc'[d] = "planned" => plan'[d] = NextBlock(d)
  <2>1. CASE d = c
    BY <1>1, <2>1
  <2>2. CASE d # c
    <3>1. pc'[d] = pc[d] /\ plan'[d] = plan[d]
      BY <1>1, <2>2
    <3>2. pc[d] \in Inside => lock' = d
      BY <2>2 DEF IInv, Exclusive
    <3>. QED  BY <3>1, <3>2 DEF IInv, Where, PlansHold
  <2>. QED  BY <2>1, <2>2
<1>. QED  BY <1>2, <1>3, ChainUnchanged

-----------------------------------------------------------------------------
(* Types.                                                                  *)

LEMMA NextBlockType ==
  ASSUME TypeOK, NEW c \in Calls, ~ TrailingEmpty
  PROVE  NextBlock(c) \in Plans /\ NextBlock(c).block \in [id : Calls, prev : Calls \cup {Genesis}]
<1>1. Len(chain) \in Nat /\ (chain # <<>> => Len(chain) \in 1..Len(chain))
  BY EmptySeq, LenProperties DEF TypeOK
<1>2. CASE chain = <<>>
  BY <1>1, <1>2 DEF NextBlock, Plans, Blocks
<1>3. CASE chain # <<>>
  <2>1. chain[Len(chain)] \in Blocks
    BY <1>1, <1>3 DEF TypeOK, TrailingEmpty
  <2>. QED  BY <1>1, <1>3, <2>1 DEF NextBlock, Plans, Blocks
<1>. QED  BY <1>2, <1>3

\* A block placed behind the last one is an appended block.
LEMMA PlacedAtEnd ==
  ASSUME TypeOK, NEW b \in Blocks
  PROVE  Placed(Len(chain) + 1, b) = Append(chain, b)
<1>. DEFINE n == Len(chain)
            s == Placed(n + 1, b)
<1>1. n \in Nat /\ chain \in Seq(Blocks \cup {Empty})
  BY LenProperties DEF TypeOK
<1>2. s = [j \in 1..(n + 1) |-> IF j = n + 1 THEN b ELSE chain[j]]
  <2>1. (IF n + 1 > n THEN n + 1 ELSE n) = n + 1
    BY <1>1
  <2>2. \A j \in 1..(n + 1) : j # n + 1 => j <= n
    BY <1>1
  <2>. QED  BY <2>1, <2>2 DEF Placed
<1>3. s \in Seq(Blocks \cup {Empty}) /\ Len(s) = n + 1
  <2>1. \A j \in 1..(n + 1) : s[j] \in Blocks \cup {Empty}
    <3>1. \A j \in 1..(n + 1) : j # n + 1 => j \in 1..n
      BY <1>1
    <3>2. \A j \in 1..n : chain[j] \in Blocks \cup {Empty}
      BY <1>1, ElementOfSeq
    <3>. QED  BY <1>2, <3>1, <3>2
  <2>2. n + 1 \in Nat /\ s \in [1..(n + 1) -> Blocks \cup {Empty}]
    BY <1>1, <1>2, <2>1
  <2>. QED  BY <2>2, LenProperties
<1>4. /\ Append(chain, b) \in Seq(Blocks \cup {Empty})
      /\ Len(Append(chain, b)) = n + 1
      /\ Append(chain, b)[n + 1] = b
      /\ \A j \in 1..n : Append(chain, b)[j] = chain[j]
  BY <1>1, AppendProperties
<1>5. \A j \in 1..(n + 1) : s[j] = Append(chain, b)[j]
  <2>1. \A j \in 1..(n + 1) : j = n + 1 \/ j \in 1..n
    BY <1>1
  <2>. QED  BY <1>2, <1>4, <2>1
<1>. HIDE DEF s
<1>. QED  BY <1>3, <1>4, <1>5, SeqEqual DEF s

\* Steps that leave the chain alone, and Rename, keep the types.
LEMMA CallTypes ==
  ASSUME TypeOK, NEW c \in Calls, Call(c) \/ TakeLock(c) \/ LockTimeout(c) \/ PlanBlock(c)
                                  \/ Release(c) \/ Throw(c) \/ Kill(c)
  PROVE  TypeOK'
<1>1. CASE PlanBlock(c)
  BY <1>1, NextBlockType DEF PlanBlock, Goto, TypeOK, Stages
<1>2. CASE Call(c) \/ LockTimeout(c) \/ Kill(c)
  BY <1>2 DEF Call, LockTimeout, Kill, Goto, TypeOK, Stages
<1>3. CASE TakeLock(c)
  BY <1>3 DEF TakeLock, Goto, TypeOK, Stages
<1>4. CASE Release(c) \/ Throw(c)
  BY <1>4 DEF Release, Throw, Goto, TypeOK, Stages
<1>. QED  BY <1>1, <1>2, <1>3, <1>4

-----------------------------------------------------------------------------
(* The steps of a call.                                                    *)

LEMMA CallStep ==
  ASSUME IInv, NEW c \in Calls, Call(c) \/ LockTimeout(c) \/ Kill(c)
  PROVE  IInv'
<1>1. TypeOK'
  BY CallTypes DEF IInv
<1>2. CASE Call(c)
  <2>1. pc[c] = "new" /\ ~ InChain(c)
    BY <1>2 DEF Call, IInv, Where
  <2>. QED  BY <1>1, <1>2, <2>1, CallMoves DEF Call, Stages, Inside
<1>3. CASE LockTimeout(c)
  <2>1. pc[c] = "waiting" /\ ~ InChain(c)
    BY <1>3 DEF LockTimeout, IInv, Where
  <2>. QED  BY <1>1, <1>3, <2>1, CallMoves DEF LockTimeout, Stages, Inside
<1>4. CASE Kill(c)
  BY <1>1, <1>4, CallMoves DEF Kill, Stages, Inside
<1>. QED  BY <1>2, <1>3, <1>4

LEMMA TakeLockStep ==
  ASSUME IInv, NEW c \in Calls, TakeLock(c)
  PROVE  IInv'
<1>1. TypeOK'
  BY CallTypes DEF IInv
<1>2. ~ InChain(c)
  BY DEF TakeLock, IInv, Where
<1>3. \A d \in Calls : pc[d] \notin Inside
  BY DEF TakeLock, IInv, Exclusive
<1>. QED  BY <1>1, <1>2, <1>3, CallMoves DEF TakeLock, Stages, Inside

LEMMA PlanStep ==
  ASSUME IInv, NEW c \in Calls, PlanBlock(c)
  PROVE  IInv'
<1>1. TypeOK'
  BY CallTypes DEF IInv
<1>2. ~ InChain(c) /\ lock = c
  BY DEF PlanBlock, IInv, Where, Exclusive, Inside
<1>3. plan' = [plan EXCEPT ![c] = NextBlock(c)] /\ plan \in [Calls -> Plans]
  BY DEF PlanBlock, IInv, TypeOK
<1>4. plan'[c] = NextBlock(c) /\ \A d \in Calls : d # c => plan'[d] = plan[d]
  BY <1>3
<1>. QED  BY <1>1, <1>2, <1>4, CallMoves DEF PlanBlock, Stages, Inside

LEMMA EndStep ==
  ASSUME IInv, NEW c \in Calls, Release(c) \/ Throw(c)
  PROVE  IInv'
<1>1. TypeOK'
  BY CallTypes DEF IInv
<1>2. pc[c] \in Inside
  BY DEF Release, Throw, Inside
<1>3. \A d \in Calls : d # c => pc[d] \notin Inside
  BY <1>2 DEF IInv, Exclusive
<1>4. CASE Release(c)
  <2>1. InChain(c)
    BY <1>4 DEF Release, IInv, Where
  <2>. QED  BY <1>1, <1>3, <1>4, <2>1, CallMoves DEF Release, Stages, Inside
<1>5. CASE Throw(c)
  <2>1. ~ InChain(c)
    BY <1>5 DEF Throw, IInv, Where
  <2>. QED  BY <1>1, <1>3, <1>5, <2>1, CallMoves DEF Throw, Stages, Inside
<1>. QED  BY <1>4, <1>5

-----------------------------------------------------------------------------
(* The rename.                                                             *)

LEMMA RenameAppends ==
  ASSUME IInv, NEW c \in Calls, Rename(c)
  PROVE  /\ chain' = Append(chain, plan[c].block)
         /\ plan[c] = NextBlock(c)
         /\ plan[c].block \in Blocks /\ plan[c].block.id = c
         /\ ~ InChain(c)
         /\ Len(chain) \in Nat /\ Len(chain') = Len(chain) + 1
         /\ chain'[Len(chain) + 1] = plan[c].block
         /\ \A i \in 1..Len(chain) : chain'[i] = chain[i]
<1>1. plan[c] = NextBlock(c) /\ ~ InChain(c)
  BY DEF Rename, IInv, PlansHold, Where
<1>2. plan[c].block \in Blocks /\ plan[c].block.id = c /\ plan[c].at = Len(chain) + 1
  BY <1>1, NextBlockType, WholeIsValid DEF IInv, NextBlock, Blocks
<1>3. chain' = Append(chain, plan[c].block)
  BY <1>2, PlacedAtEnd DEF Rename, IInv
<1>. QED  BY <1>1, <1>2, <1>3, AppendProperties, LenProperties DEF IInv, TypeOK

LEMMA RenameStep ==
  ASSUME IInv, NEW c \in Calls, Rename(c)
  PROVE  IInv'
<1>. DEFINE n == Len(chain)
            b == plan[c].block
<1>1. /\ chain' = Append(chain, b) /\ b \in Blocks /\ b.id = c /\ ~ InChain(c)
      /\ n \in Nat /\ Len(chain') = n + 1 /\ chain'[n + 1] = b
      /\ \A i \in 1..n : chain'[i] = chain[i]
      /\ plan[c] = NextBlock(c)
  BY RenameAppends
<1>2. pc' = [pc EXCEPT ![c] = "renamed"] /\ pc \in [Calls -> Stages]
  BY DEF Rename, Goto, IInv, TypeOK
<1>3. TypeOK'
  <2>1. chain' \in Seq(Blocks \cup {Empty})
    BY <1>1, AppendProperties DEF IInv, TypeOK
  <2>2. written' \subseteq 1..Len(chain')
    <3>1. 1..n \subseteq 1..Len(chain')
      BY <1>1
    <3>. QED  BY <3>1 DEF Rename, IInv, TypeOK
  <2>. QED  BY <1>2, <2>1, <2>2 DEF Rename, IInv, TypeOK, Stages
<1>4. Whole'
  <2>1. b.prev = IF n + 1 = 1 THEN Genesis ELSE chain[n].id
    BY <1>1, EmptySeq DEF NextBlock, IInv, TypeOK
  <2>2. ASSUME NEW i \in 1..Len(chain')
        PROVE  chain'[i] \in Blocks /\ LinkedAt(i)'
    <3>1. CASE i = n + 1
      <4>1. i # 1 => chain'[i - 1] = chain[n]
        BY <1>1, <3>1
      <4>. QED  BY <1>1, <2>1, <3>1, <4>1 DEF LinkedAt
    <3>2. CASE i # n + 1
      <4>1. i \in 1..n /\ chain'[i] = chain[i] /\ (i # 1 => chain'[i - 1] = chain[i - 1])
        BY <1>1, <3>2
      <4>. QED  BY <4>1 DEF IInv, Whole, LinkedAt
    <3>. QED  BY <3>1, <3>2
  <2>3. ASSUME NEW i \in 1..Len(chain'), NEW j \in 1..Len(chain'), chain'[i].id = chain'[j].id
        PROVE  i = j
    <3>1. \A k \in 1..Len(chain') : k = n + 1 \/ (k \in 1..n /\ chain'[k] = chain[k] /\ chain[k].id # c)
      BY <1>1 DEF InChain
    <3>. QED  BY <1>1, <2>3, <3>1 DEF IInv, Whole
  <2>. QED  BY <2>2, <2>3 DEF Whole
<1>5. \A d \in Calls : InChain(d)' <=> d = c \/ InChain(d)
  <2>1. \A i \in 1..Len(chain') : i = n + 1 \/ i \in 1..n
    BY <1>1
  <2>2. n + 1 \in 1..Len(chain') /\ 1..n \subseteq 1..Len(chain')
    BY <1>1
  <2>. QED  BY <1>1, <2>1, <2>2 DEF InChain
<1>6. Where'
  BY <1>2, <1>5 DEF IInv, Where, Rename
<1>7. pc[c] \in Inside /\ \A d \in Calls : d # c => pc[d] \notin Inside
  BY DEF Rename, Inside, IInv, Exclusive
<1>8. Exclusive' /\ PlansHold'
  BY <1>2, <1>7 DEF Rename, IInv, Exclusive, PlansHold, Inside
<1>9. Verified'
  BY <1>1 DEF Rename, IInv, TypeOK, Verified
<1>. QED  BY <1>3, <1>4, <1>6, <1>8, <1>9 DEF IInv

-----------------------------------------------------------------------------
(* The steps of nobody's call, and all of them.                            *)

LEMMA OtherStep ==
  ASSUME IInv, ClearLock \/ List \/ Judge \/ \E i \in 1..Len(chain) : Writeback(i)
  PROVE  IInv'
<1>1. /\ Len(chain) \in Nat /\ verify.files \in Nat /\ verify.files <= Len(chain)
      /\ ValidUpTo(verify.files)
  BY WholeIsValid DEF IInv, TypeOK, Verified
<1>2. ASSUME NEW c \in Calls, pc' = pc, plan' = plan, (lock' = lock) \/ (pc[c] = "dead" /\ lock = c)
      PROVE  \A d \in Calls :
               /\ pc'[d] \in {"renamed", "answered"} => InChain(d)
               /\ pc'[d] \in {"new", "waiting", "locked", "planned", "failed"} => ~ InChain(d)
               /\ pc'[d] \in Inside => lock' = d
               /\ pc'[d] = "planned" => plan'[d] = NextBlock(d)
  BY <1>2 DEF IInv, Where, Exclusive, PlansHold, Inside
<1>3. CASE ClearLock
  <2>1. PICK c \in Calls : lock = c /\ pc[c] = "dead"
    BY <1>3 DEF ClearLock
  <2>2. TypeOK' /\ Verified'
    BY <1>3 DEF ClearLock, callVars, IInv, TypeOK, Verified
  <2>. QED  BY <1>2, <1>3, <2>1, <2>2, ChainUnchanged DEF ClearLock, callVars
<1>4. CASE List
  <2>1. TypeOK' /\ Verified'
    BY <1>1, <1>4 DEF List, callVars, IInv, TypeOK, Verified, Verdicts
  <2>. QED  BY <1>4, <2>1, ChainUnchanged DEF List, callVars, IInv, Where, Exclusive, PlansHold
<1>5. CASE Judge
  <2>1. verify' = [verify EXCEPT !.stage = "passed"]
    BY <1>1, <1>5 DEF Judge
  <2>2. verify' = [stage |-> "passed", files |-> verify.files]
    BY <2>1 DEF IInv, TypeOK
  <2>3. TypeOK' /\ Verified'
    BY <1>1, <1>5, <2>2 DEF Judge, callVars, IInv, TypeOK, Verified, Verdicts
  <2>. QED  BY <1>5, <2>3, ChainUnchanged DEF Judge, callVars, IInv, Where, Exclusive, PlansHold
<1>6. CASE \E i \in 1..Len(chain) : Writeback(i)
  <2>1. PICK i \in 1..Len(chain) : Writeback(i)
    BY <1>6
  <2>2. TypeOK' /\ Verified'
    BY <2>1 DEF Writeback, callVars, IInv, TypeOK, Verified
  <2>. QED  BY <2>1, <2>2, ChainUnchanged DEF Writeback, callVars, IInv, Where, Exclusive, PlansHold
<1>. QED  BY <1>3, <1>4, <1>5, <1>6

LEMMA NextIInv ==
  ASSUME IInv, [Next]_vars
  PROVE  IInv'
<1>1. ASSUME NEW c \in Calls, Call(c) \/ Step(c) \/ Kill(c)
      PROVE  IInv'
  <2>1. CASE Call(c) \/ LockTimeout(c) \/ Kill(c)
    BY <2>1, CallStep
  <2>2. CASE TakeLock(c)
    BY <2>2, TakeLockStep
  <2>3. CASE PlanBlock(c)
    BY <2>3, PlanStep
  <2>4. CASE Rename(c)
    BY <2>4, RenameStep
  <2>5. CASE Release(c) \/ Throw(c)
    BY <2>5, EndStep
  <2>. QED  BY <1>1, <2>1, <2>2, <2>3, <2>4, <2>5 DEF Step
<1>2. CASE UNCHANGED vars
  <2>1. TypeOK'
    BY <1>2 DEF vars, callVars, IInv, TypeOK
  <2>. QED  BY <1>2, <2>1, ChainUnchanged
            DEF vars, callVars, IInv, Where, Exclusive, PlansHold, Verified
<1>. QED  BY <1>1, <1>2, OtherStep DEF Next

LEMMA Invariance == Spec => []IInv
<1>1. Init => IInv
  BY InitIInv
<1>2. IInv /\ [Next]_vars => IInv'
  BY NextIInv
<1>. QED  BY <1>1, <1>2, PTL DEF Spec

-----------------------------------------------------------------------------
(* The theorems.                                                           *)

\* Every variable keeps its type (the whole of chain-adapter.ts's append path).
THEOREM TypeCorrect == Spec => []TypeOK
<1>1. IInv => TypeOK
  BY DEF IInv
<1>. QED  BY <1>1, Invariance, PTL

\* However many processes append, and wherever they die, the directory validates
\* (appendBlock, readAndValidateChainBlocks).
THEOREM Valid == Spec => []ChainValid
<1>1. IInv => ChainValid
  BY WholeIsValid DEF IInv, ChainValid
<1>. QED  BY <1>1, Invariance, PTL

\* No block is twice in a chain, and the result of every appendBlock is true.
THEOREM AnswersTrue == Spec => []AnswersAreTrue
<1>1. IInv => AnswersAreTrue
  BY DEF IInv, Whole, Where, AnswersAreTrue
<1>. QED  BY <1>1, Invariance, PTL

\* The lock file excludes: one call at a time reads, validates and renames
\* (withAppendLock).
THEOREM OneAppenderHolds == Spec => []OneAppender
<1>1. IInv => OneAppender
  BY DEF IInv, Exclusive, OneAppender
<1>. QED  BY <1>1, Invariance, PTL

\* verifyChainIntegrity, without the lock, accepts the chain at whatever moment it lists
\* and reads it.
THEOREM VerifyAccepts == Spec => []VerifyNeverRefuses
<1>1. IInv => VerifyNeverRefuses
  BY DEF IInv, Verified, VerifyNeverRefuses
<1>. QED  BY <1>1, Invariance, PTL

\* While the power stays on, pruneTrailingEmptyBlockFiles finds nothing to prune: leaving
\* Prune out of Next leaves out no behaviour.
THEOREM NothingToPrune == Spec => []~ TrailingEmpty
<1>1. IInv => ~ TrailingEmpty
  BY WholeIsValid DEF IInv
<1>. QED  BY <1>1, Invariance, PTL

\* What a step does to the chain: nothing, or one more block, of a call that has none.
LEMMA StepOnChain ==
  ASSUME IInv, [Next]_vars, chain' # chain
  PROVE  \E c \in Calls : Rename(c)
BY DEF Next, Step, vars, callVars, Call, TakeLock, LockTimeout, PlanBlock, Release,
   Throw, Kill, ClearLock, List, Judge, Writeback

\* A block that is in the chain stays there unchanged (appendBlock never replaces).
THEOREM AppendOnlyHolds == Spec => AppendOnly
<1>1. IInv /\ [Next]_vars =>
        [/\ Len(chain) <= Len(chain')
         /\ \A i \in 1..Len(chain) : chain'[i] = chain[i]]_vars
  <2>. SUFFICES ASSUME IInv, [Next]_vars
                PROVE  /\ Len(chain) <= Len(chain')
                       /\ \A i \in 1..Len(chain) : chain'[i] = chain[i]
    OBVIOUS
  <2>1. Len(chain) \in Nat
    BY WholeIsValid DEF IInv
  <2>2. CASE chain' = chain
    BY <2>1, <2>2
  <2>3. CASE chain' # chain
    <3>1. PICK c \in Calls : Rename(c)
      BY <2>3, StepOnChain
    <3>. QED  BY <2>1, <3>1, RenameAppends
  <2>. QED  BY <2>2, <2>3
<1>. QED  BY <1>1, Invariance, PTL DEF Spec, AppendOnly

-----------------------------------------------------------------------------
(* The directory implements an append-only log.                            *)

Ids == [i \in 1..Len(chain) |-> chain[i].id]
Answered == {c \in Calls : pc[c] = "answered"}

LEMMA IdsOf ==
  ASSUME NEW s, Len(s) \in Nat, \A i \in 1..Len(s) : s[i].id \in Calls
  PROVE  LET ids == [i \in 1..Len(s) |-> s[i].id]
         IN  /\ ids \in Seq(Calls) /\ Len(ids) = Len(s)
             /\ \A i \in 1..Len(s) : ids[i] = s[i].id
<1>. DEFINE ids == [i \in 1..Len(s) |-> s[i].id]
<1>1. ids \in [1..Len(s) -> Calls] /\ \A i \in 1..Len(s) : ids[i] = s[i].id
  OBVIOUS
<1>2. ids \in Seq(Calls) /\ Len(ids) = Len(s)
  BY <1>1, LenProperties
<1>. QED  BY <1>1, <1>2

\* The entries are a sequence as long as the chain.
LEMMA IdsAreEntries ==
  ASSUME IInv
  PROVE  /\ Ids \in Seq(Calls) /\ Len(Ids) = Len(chain) /\ Len(chain) \in Nat
         /\ \A i \in 1..Len(chain) : Ids[i] = chain[i].id
         /\ \A c \in Calls : Log!Listed(c) <=> InChain(c)
<1>1. Len(chain) \in Nat
  BY WholeIsValid DEF IInv
<1>2. \A i \in 1..Len(chain) : chain[i].id \in Calls
  BY DEF IInv, Whole, Blocks
<1>3. /\ Ids \in Seq(Calls) /\ Len(Ids) = Len(chain)
      /\ \A i \in 1..Len(chain) : Ids[i] = chain[i].id
  BY <1>1, <1>2, IdsOf DEF Ids
<1>4. \A c \in Calls : Log!Listed(c) <=> InChain(c)
  BY <1>3 DEF Log!Listed, InChain, Ids
<1>. QED  BY <1>1, <1>3, <1>4

\* A rename is an entry at the end of the log.
LEMMA RenameGrows ==
  ASSUME IInv, NEW c \in Calls, Rename(c)
  PROVE  Log!Grow(c)
<1>1. /\ Ids \in Seq(Calls) /\ Len(Ids) = Len(chain) /\ Len(chain) \in Nat
      /\ \A i \in 1..Len(chain) : Ids[i] = chain[i].id
  BY IdsAreEntries
<1>2. /\ Ids' \in Seq(Calls) /\ Len(Ids') = Len(chain')
      /\ \A i \in 1..Len(chain') : Ids'[i] = chain'[i].id
  <2>1. Len(chain') \in Nat /\ \A i \in 1..Len(chain') : chain'[i].id \in Calls
    BY RenameStep, RenameAppends DEF IInv, Whole, Blocks
  <2>. QED  BY <2>1, IdsOf DEF Ids
<1>3. /\ Len(chain') = Len(chain) + 1
      /\ chain'[Len(chain) + 1].id = c
      /\ \A i \in 1..Len(chain) : chain'[i] = chain[i]
      /\ ~ InChain(c)
  BY RenameAppends
<1>4. Ids' = Append(Ids, c)
  <2>1. /\ Append(Ids, c) \in Seq(Calls) /\ Len(Append(Ids, c)) = Len(Ids) + 1
        /\ Append(Ids, c)[Len(Ids) + 1] = c
        /\ \A i \in 1..Len(Ids) : Append(Ids, c)[i] = Ids[i]
    BY <1>1, AppendProperties
  <2>2. \A i \in 1..(Len(chain) + 1) : i = Len(chain) + 1 \/ i \in 1..Len(chain)
    BY <1>1
  <2>3. \A i \in 1..Len(Ids') : Ids'[i] = Append(Ids, c)[i]
    <3>1. \A i \in 1..Len(chain) : i \in 1..(Len(chain) + 1)
      BY <1>1
    <3>. QED  BY <1>1, <1>2, <1>3, <2>1, <2>2, <3>1
  <2>. QED  BY <1>1, <1>2, <1>3, <2>1, <2>3, SeqEqual
<1>5. Answered' = Answered
  <2>1. pc' = [pc EXCEPT ![c] = "renamed"] /\ pc[c] = "planned" /\ pc \in [Calls -> Stages]
    BY DEF Rename, Goto, IInv, TypeOK
  <2>. QED  BY <2>1 DEF Answered
<1>. QED  BY <1>3, <1>4, <1>5, IdsAreEntries DEF Log!Grow, Ids, Answered

\* A step that leaves the chain alone is an answer, or nothing, to the log.
LEMMA OtherAnswers ==
  ASSUME IInv, [Next]_vars, chain' = chain
  PROVE  UNCHANGED Log!logVars \/ \E c \in Calls : Log!Answer(c)
<1>1. Ids' = Ids
  BY DEF Ids
<1>2. CASE \E c \in Calls : Release(c)
  <2>1. PICK c \in Calls : Release(c)
    BY <1>2
  <2>2. pc' = [pc EXCEPT ![c] = "answered"] /\ pc \in [Calls -> Stages] /\ pc[c] = "renamed"
    BY <2>1 DEF Release, Goto, IInv, TypeOK
  <2>3. Answered' = Answered \cup {c}
    BY <2>2 DEF Answered
  <2>4. Log!Listed(c)
    BY <2>2, IdsAreEntries DEF IInv, Where
  <2>. QED  BY <1>1, <2>3, <2>4 DEF Log!Answer, Ids, Answered
<1>3. CASE ~ \E c \in Calls : Release(c)
  <2>1. ASSUME NEW c \in Calls, Call(c) \/ Step(c) \/ Kill(c)
        PROVE  Answered' = Answered
    <3>1. CASE Rename(c)
      BY <3>1, RenameAppends
    <3>2. CASE Call(c) \/ LockTimeout(c) \/ Kill(c) \/ TakeLock(c) \/ PlanBlock(c) \/ Throw(c)
      <4>1. PICK stage \in Stages \ {"answered"} : Goto(c, stage) /\ pc[c] # "answered"
        BY <3>2 DEF Call, LockTimeout, Kill, TakeLock, PlanBlock, Throw, Stages, Inside
      <4>2. pc' = [pc EXCEPT ![c] = stage] /\ pc \in [Calls -> Stages]
        BY <4>1 DEF Goto, IInv, TypeOK
      <4>. QED  BY <4>1, <4>2 DEF Answered
    <3>. QED  BY <1>3, <2>1, <3>1, <3>2 DEF Step
  <2>2. ASSUME pc' = pc
        PROVE  Answered' = Answered
    BY <2>2 DEF Answered
  <2>3. Answered' = Answered
    BY <2>1, <2>2 DEF Next, vars, callVars, ClearLock, List, Judge, Writeback
  <2>. QED  BY <1>1, <2>3 DEF Log!logVars, Ids, Answered
<1>. QED  BY <1>2, <1>3

\* appendBlock, in any number of processes, implements an append-only log in which an
\* answered call is listed, once.
THEOREM Implements == Spec => ImplementsLog
<1>1. Init => Log!LogInit
  <2>. SUFFICES ASSUME Init PROVE Log!LogInit
    OBVIOUS
  <2>1. 1..Len(chain) = {}
    BY DEF Init
  <2>2. Ids \in Seq(Calls) /\ Len(Ids) = 0
    BY InitIInv, IdsAreEntries DEF Init
  <2>3. Ids = <<>>
    BY <2>2, EmptySeq
  <2>. QED  BY <2>3 DEF Init, Log!LogInit, Ids
<1>2. IInv /\ [Next]_vars => [Log!LogNext]_Log!logVars
  <2>. SUFFICES ASSUME IInv, [Next]_vars PROVE [Log!LogNext]_Log!logVars
    OBVIOUS
  <2>1. CASE chain' = chain
    BY <2>1, OtherAnswers DEF Log!LogNext
  <2>2. CASE chain' # chain
    BY <2>2, StepOnChain, RenameGrows DEF Log!LogNext
  <2>. QED  BY <2>1, <2>2
<1>. QED  BY <1>1, <1>2, Invariance, PTL DEF Spec, ImplementsLog, Log!LogSpec

=============================================================================
