----------------------------- MODULE NapiChain ------------------------------
(***************************************************************************)
(* appendBlock of the Rust-backed chain adapter.  NapiChainAdapter reads   *)
(* the directory, has the bridge validate the new block against the last   *)
(* one it read, and writes the block file in place, without a lock.  A     *)
(* directory in which any file cannot be read or parsed is read as an      *)
(* empty chain.  The bridge is what RUST_CHAIN_BRIDGE_PATH names: the      *)
(* crate memphis-napi, or one that reads blocks the way the adapter writes *)
(* them, as the bridge of the adapter's unit tests does.                   *)
(***************************************************************************)
EXTENDS Integers, Sequences, FiniteSets

CONSTANTS
  Calls,       \* calls of appendBlock; a call's block, hash included, is the call
  Genesis,     \* the previous hash of the first block
  NoBlock,
  Bridges,     \* "crate", "test": what RUST_CHAIN_BRIDGE_PATH names in some process
  MaxCrashes   \* bound on the crashes


VARIABLES
  chain,    \* 000001.json, 000002.json, ...: a block, or Empty
  pc,       \* how far each call is
  plan,     \* the block a call is about to write, its number, the bridge
  crashes,  \* crashes so far
  spoiled   \* history: two calls overlapped, one died or failed in the middle of its
            \* write, or one could not read the blocks that were there

vars == <<chain, pc, plan, crashes, spoiled>>

Blocks == [id : Calls, prev : Calls \cup {Genesis}]
Empty == [id |-> NoBlock, prev |-> NoBlock]   \* what writeFile leaves before it writes
NoPlan == [at |-> 0, via |-> "test", block |-> Empty]
Busy == {"read", "opened"}

Init ==
  /\ chain = <<>> /\ crashes = 0 /\ spoiled = FALSE
  /\ pc = [c \in Calls |-> "new"]
  /\ plan = [c \in Calls |-> NoPlan]

Goto(c, stage) == pc' = [pc EXCEPT ![c] = stage]

\* readChainBlocks, which swallows every error: that of the parser on an empty file, and
\* any of readdir or readFile (no permission, too many open files, a lost mount).
ReadChain == {<<>>} \cup {w \in {chain} : \A i \in 1..Len(w) : w[i] # Empty}

\* toNapiBlock, and validate_block against the last block that was read.
NextOf(c, w, bridge) ==
  [at |-> Len(w) + 1, via |-> bridge,
   block |-> [id |-> c, prev |-> IF w = <<>> THEN Genesis ELSE w[Len(w)].id]]

\* The JSON text of a block: the key of its data's type, and the order of the keys
\* under its hash.  toNapiBlock keeps the order in which it wrote them; the crate's
\* BlockData is renamed by serde, and compute_hash serialises a sorted map.
Sent == [typeKey |-> "block_type", hashedKeys |-> "as written"]
CrateReads == [typeKey |-> "type", hashedKeys |-> "sorted"]
Accepts(c) == plan[c].via = "crate" => Sent = CrateReads

Read(c) ==
  /\ pc[c] = "new"
  /\ \E bridge \in Bridges, w \in ReadChain :
       /\ plan' = [plan EXCEPT ![c] = NextOf(c, w, bridge)]
       /\ spoiled' = (spoiled \/ w # chain \/ \E d \in Calls : pc[d] \in Busy)
  /\ Goto(c, "read")
  /\ UNCHANGED <<chain, crashes>>

Reject(c) ==
  /\ pc[c] = "read" /\ ~ Accepts(c) /\ Goto(c, "rejected")
  /\ UNCHANGED <<chain, plan, crashes, spoiled>>

\* The bridge rejects the block (its time is before the last one's, it is not signed
\* in strict mode), or the write fails: before it opened the file, or when the file is
\* already truncated (the disk is full).
Throw(c) ==
  /\ pc[c] \in Busy /\ Goto(c, "failed")
  /\ spoiled' = (spoiled \/ pc[c] = "opened")
  /\ UNCHANGED <<chain, plan, crashes>>

Placed(i, b) ==
  [j \in 1..(IF i > Len(chain) THEN i ELSE Len(chain)) |->
     IF j = i THEN b ELSE IF j <= Len(chain) THEN chain[j] ELSE Empty]

\* writeFile: open and truncate, then write.
Open(c) ==
  /\ pc[c] = "read" /\ Accepts(c) /\ Goto(c, "opened")
  /\ chain' = Placed(plan[c].at, Empty)
  /\ UNCHANGED <<plan, crashes, spoiled>>
WriteNothing(c) ==
  /\ pc[c] = "opened" /\ Goto(c, "answered")
  /\ UNCHANGED <<chain, plan, crashes, spoiled>>
Write(c) ==
  /\ pc[c] = "opened" /\ Goto(c, "answered")
  /\ chain' = Placed(plan[c].at, plan[c].block)
  /\ UNCHANGED <<plan, crashes, spoiled>>

Kill(c) ==
  /\ pc[c] \in Busy /\ crashes < MaxCrashes
  /\ Goto(c, "dead") /\ crashes' = crashes + 1
  /\ spoiled' = (spoiled \/ pc[c] = "opened")
  /\ UNCHANGED <<chain, plan>>

Next == \E c \in Calls : Read(c) \/ Reject(c) \/ Throw(c) \/ Open(c) \/ Write(c) \/ Kill(c)

Spec == Init /\ [][Next]_vars

-----------------------------------------------------------------------------
(* Properties.                                                             *)

Linked(i) == chain[i].prev = IF i = 1 THEN Genesis ELSE chain[i - 1].id
Settled == \A c \in Calls : pc[c] \notin Busy

\* The chain is whole between appends: every file a block, linked to the one before, and
\* every answered call in it, and no other.  That is so as long as no two appends
\* overlapped, none died or failed in the middle of its write, and none failed to read
\* the blocks that were there: after each of these an answered block may be overwritten.
ValidUnlessSpoiled ==
  Settled /\ ~ spoiled =>
    /\ \A i \in 1..Len(chain) : chain[i] # Empty /\ Linked(i)
    /\ \A c \in Calls : pc[c] = "answered" <=> \E i \in 1..Len(chain) : chain[i].id = c

\* The bridge can read and verify every block that the adapter makes.
BlocksAreAccepted == \A c \in Calls : pc[c] # "rejected"

=============================================================================
