-------------------------------- MODULE Sync --------------------------------
(***************************************************************************)
(* SyncManager.pull: each node keeps a chain in one file; `memphis sync    *)
(* pull` asks a peer for its chain, reads the local one, merges the two    *)
(* and writes the file.  Every command is a process, and several may run   *)
(* on one node.  The peer's end of the protocol is not in the repository:  *)
(* it answers with its chain file.  The registry of peers is left out.     *)
(***************************************************************************)
EXTENDS Integers, FiniteSets

CONSTANTS
  Nodes,
  Commands,    \* processes that run `memphis sync pull`
  Strategies,  \* ConflictResolutionStrategy; the command line uses the default one
  Keys,        \* what blockKey may give: a hash, or the index of a block without one
  Times        \* timestamps of blocks; 0 stands for none

VARIABLES
  file,        \* the chain of each node, a set of blocks with different keys
  broken,      \* nodes whose file was torn by a crash and cannot be parsed
  command,     \* each command: its stage, node, strategy, the peer's blocks, the local ones
  shared,      \* history: nodes on which a write overlapped a pull
  current,     \* history: nodes that pulled since the last block was written anywhere
  mixed        \* history: some pull had another strategy than the default

vars == <<file, broken, command, shared, current, mixed>>

Blocks == [key : Keys, time : Times, by : Nodes]
Unused == [stage |-> "idle", node |-> CHOOSE n \in Nodes : TRUE,
           strategy |-> "last-write-wins", remote |-> {}, local |-> {}]

Init ==
  /\ file = [n \in Nodes |-> {}] /\ broken = {}
  /\ command = [c \in Commands |-> Unused]
  /\ shared = {} /\ current = Nodes /\ mixed = FALSE

Peer(n) == CHOOSE m \in Nodes : m # n
At(blocks, key) == {b \in blocks : b.key = key}

\* resolveChainConflicts.  The sort by index and time is left out: a chain is a set.
TakesOlder(mine, theirs, strategy) == theirs.time <= mine.time
TakesRemote(mine, theirs, strategy) ==
  strategy = "prefer-remote" \/ (strategy = "last-write-wins" /\ theirs.time >= mine.time)
Resolve(local, remote, strategy) ==
  {b \in remote : \A mine \in At(local, b.key) : TakesRemote(mine, b, strategy)}
  \cup {b \in local : \A theirs \in At(remote, b.key) : ~ TakesRemote(b, theirs, strategy)}

\* Another program of the node adds a block; the commands do not lock the file.
Busy(n) == \E c \in Commands : command[c].stage # "idle" /\ command[c].node = n
AddBlock(n, key, time) ==
  /\ n \notin broken /\ At(file[n], key) = {}
  /\ file' = [file EXCEPT ![n] = @ \cup {[key |-> key, time |-> time, by |-> n]}]
  /\ shared' = IF Busy(n) THEN shared \cup {n} ELSE shared
  /\ current' = {}
  /\ UNCHANGED <<broken, command, mixed>>

\* pull, up to the request.
Ask(c, n, strategy) ==
  /\ command[c].stage = "idle"
  /\ command' = [command EXCEPT ![c] = [Unused EXCEPT !.stage = "asked", !.node = n,
                                                      !.strategy = strategy]]
  /\ shared' = IF Busy(n) THEN shared \cup {n} ELSE shared
  /\ mixed' = (mixed \/ strategy # "last-write-wins")
  /\ UNCHANGED <<file, broken, current>>

\* The reply comes within the timeout, and only then is the local file read.
Answer(c) ==
  LET n == command[c].node IN
  /\ command[c].stage = "asked" /\ n \notin broken /\ Peer(n) \notin broken
  /\ command' = [command EXCEPT ![c].stage = "merging", ![c].remote = file[Peer(n)],
                                ![c].local = file[n]]
  /\ UNCHANGED <<file, broken, shared, current, mixed>>

\* writeChain.
Store(c) ==
  LET n == command[c].node
      merged == Resolve(command[c].local, command[c].remote, command[c].strategy) IN
  /\ command[c].stage = "merging"
  /\ file' = [file EXCEPT ![n] = merged]
  /\ current' = IF n \notin shared /\ command[c].remote = file[Peer(n)]
                THEN current \cup {n} ELSE current
  /\ command' = [command EXCEPT ![c] = Unused]
  /\ UNCHANGED <<broken, shared, mixed>>

\* The timeout, a transport error, a file that cannot be parsed: pull throws.
GiveUp(c) ==
  /\ command[c].stage = "asked"
  /\ command' = [command EXCEPT ![c] = Unused]
  /\ UNCHANGED <<file, broken, shared, current, mixed>>

\* The process dies in the middle of writeFileSync.
Tear(c) ==
  LET n == command[c].node IN
  /\ command[c].stage = "merging"
  /\ broken' = broken \cup {n} /\ command' = [command EXCEPT ![c] = Unused]
  /\ UNCHANGED <<file, shared, current, mixed>>

Next ==
  \/ \E n \in Nodes, k \in Keys, t \in Times : AddBlock(n, k, t)
  \/ \E c \in Commands, n \in Nodes, s \in Strategies : Ask(c, n, s)
  \/ \E c \in Commands : Answer(c) \/ Store(c) \/ GiveUp(c) \/ Tear(c)

Spec == Init /\ [][Next]_vars

-----------------------------------------------------------------------------
(* Properties, of a state or, where a prime occurs, of a step.             *)

\* No pull loses a block, whatever the strategy: every key that a node had it still has,
\* unless another program wrote the file while a pull was under way.
NoKeyIsLost ==
  \A n \in Nodes \ shared', k \in Keys : At(file[n], k) # {} => At(file'[n], k) # {}

\* The last write wins: under the default strategy a block gives way to a newer one only,
\* or to one of the same time.
NeverAnOlderBlock ==
  ~ mixed' => \A n \in Nodes \ shared' : \A old \in file[n], new \in file'[n] :
    old.key = new.key => new.time >= old.time

\* Two nodes that have pulled from each other under the default strategy since the last
\* block was written hold the same keys, each with a block of the same time.  They need not
\* hold the same blocks: of two blocks with one key and one time each node takes the
\* other's, and the two change places on every pair of pulls that overlap.
PulledNodesAgree ==
  current = Nodes /\ ~ mixed =>
    \A m, n \in Nodes : \A a \in file[m] : \E b \in file[n] : b.key = a.key /\ b.time = a.time

=============================================================================
