----------------------------- MODULE SoulReplay -----------------------------
(***************************************************************************)
(* What the bridge says of blocks it did not write: chain_validate of a    *)
(* stored chain, and soul_replay of a stored chain or of blocks that a     *)
(* client posts or reads from a file.  Before a replay the adapter sorts   *)
(* the blocks, numbers them from 0 and links them anew, but leaves each    *)
(* its hash; the signatures are dropped.  A hash is the sequence of what   *)
(* is under it.  NapiChain has the append's races and lost files; here one *)
(* process appends, and then the blocks are damaged.                       *)
(***************************************************************************)
EXTENDS Integers, Sequences, SequencesExt

CONSTANTS
  Bridges,             \* "crate", "test", as in NapiChain
  Times,               \* what the clock may say when a block is made
  Keys, None,          \* RUST_CHAIN_SIGNER_KEY_HEX, or none
  MaxBlocks, MaxEdits

VARIABLES
  source,              \* whether the blocks are of a "chain" directory or a client's "list"
  via,                 \* the bridge
  blocks,              \* the block files in their order, or the list
  demands,             \* history: RUST_CHAIN_REQUIRE_SIGNATURES at the append of each
  edits, moved,        \* history: blocks changed or lost so far; whether blocks changed places
  made,                \* history: the blocks as they were made, without their signatures
  report               \* the last replay: whether it answered, its blocks, those accepted

vars == <<source, via, blocks, demands, edits, moved, made, report>>

NoReport == [ok |-> FALSE, replayed |-> <<>>, accepted |-> <<>>, whole |-> FALSE]
Init ==
  /\ source \in {"chain", "list"} /\ via \in Bridges
  /\ blocks = <<>> /\ demands = <<>> /\ edits = 0 /\ moved = FALSE /\ made = <<>>
  /\ report = NoReport

-----------------------------------------------------------------------------

\* compute_hash covers neither the hash nor the signature.
Zero == <<>>
HashOf(b) == <<b.index, b.time, b.content>> \o b.prev
Unsigned == <<>>
SignedBy(b, k) == IF k = None THEN b ELSE [b EXCEPT !.signature = <<k>> \o HashOf(b)]
SignatureVerifies(b) == b.signature # Unsigned /\ Tail(b.signature) = HashOf(b)

\* validate_block of b after the blocks w.  A signature that does not verify is treated as
\* none.
ValidAfter(b, w, strict) ==
  /\ b.content # ""
  /\ b.hash = HashOf(b)
  /\ strict => SignatureVerifies(b)
  /\ w = <<>> => b.index \in {0, 1} /\ b.prev = Zero
  /\ w # <<>> => /\ b.index = Last(w).index + 1
                 /\ b.prev = Last(w).hash
                 /\ b.time >= Last(w).time

\* The crate cannot read a block of the adapter, alone or in a list.
Reads(w) == via = "crate" => w = <<>>

Made(index, t) ==
  LET b == [index |-> index, time |-> t, content |-> "text", hash |-> Zero,
            prev |-> IF blocks = <<>> THEN Zero ELSE Last(blocks).hash, signature |-> Unsigned]
  IN [b EXCEPT !.hash = HashOf(b)]
Undamaged == edits = 0 /\ ~ moved
Bare(b) == [b EXCEPT !.signature = Unsigned]
Added(b, strict) ==
  /\ blocks' = Append(blocks, b) /\ demands' = Append(demands, strict)
  /\ made' = Append(made, Bare(b))

\* appendBlock of the adapter; its blocks count from 1.
AppendBlock(t, k, strict) ==
  LET b == SignedBy(Made(Len(blocks) + 1, t), k) IN
    /\ source = "chain" /\ Undamaged /\ Len(blocks) < MaxBlocks
    /\ Reads(<<b>>) /\ ValidAfter(b, blocks, strict)
    /\ Added(b, strict)
    /\ UNCHANGED <<source, via, edits, moved, report>>

\* append_entry of the crate's MemoryStore, whose blocks count from 0 and are not signed.
AppendEntry(t) ==
  /\ source = "list" /\ Undamaged /\ Len(blocks) < MaxBlocks
  /\ ValidAfter(Made(Len(blocks), t), blocks, FALSE)
  /\ Added(Made(Len(blocks), t), FALSE)
  /\ UNCHANGED <<source, via, edits, moved, report>>

\* A field that is missing or empty reads as normalizeBlock's default, a missing hash as
\* the hash of the text.
Damaged(b, field) ==
  CASE field = "index" -> [b EXCEPT !.index = 0]
    [] field = "time" -> [b EXCEPT !.time = 0]
    [] field = "prev" -> [b EXCEPT !.prev = Zero]
    [] field = "hash" -> [b EXCEPT !.hash = <<0>>]
    [] field = "content" -> [b EXCEPT !.content = "other"]
    [] field = "empty" -> [b EXCEPT !.content = ""]
Fields == {"index", "time", "prev", "hash", "content", "empty"}
Edit(i, field) ==
  /\ edits < MaxEdits
  /\ Damaged(blocks[i], field) # blocks[i]
  /\ blocks' = [blocks EXCEPT ![i] = Damaged(@, field)]
  /\ edits' = edits + 1
  /\ UNCHANGED <<source, via, demands, moved, made, report>>
\* A block file that cannot be read is skipped; a client may leave a block out.
Lose(i) ==
  /\ edits < MaxEdits /\ i < Len(blocks)
  /\ blocks' = RemoveAt(blocks, i) /\ demands' = RemoveAt(demands, i)
  /\ edits' = edits + 1
  /\ UNCHANGED <<source, via, moved, made, report>>

Swapped(w, i) == [w EXCEPT ![i] = w[i + 1], ![i + 1] = w[i]]
Move(i) ==
  /\ source = "list" /\ i < Len(blocks)
  /\ blocks' = Swapped(blocks, i) /\ demands' = Swapped(demands, i) /\ moved' = TRUE
  /\ UNCHANGED <<source, via, edits, made, report>>

\* normalizeReplayBlocks.
Earlier(a, b) == a.index < b.index \/ (a.index = b.index /\ a.time < b.time)
InOrder(w) ==
  LET before(i, j) == Earlier(w[i], w[j]) \/ (~ Earlier(w[j], w[i]) /\ i < j)
      order == SetToSortSeq(DOMAIN w, before)
  IN [i \in DOMAIN w |-> Bare(w[order[i]])]
Normalized(w) ==
  LET s == InOrder(w)
  IN [i \in DOMAIN s |->
        [s[i] EXCEPT !.index = i - 1, !.prev = IF i = 1 THEN Zero ELSE s[i - 1].hash]]

\* harness::replay: a refused block is left out, and the next is held against the last
\* that was accepted.
Accepted(w) ==
  FoldLeft(LAMBDA s, b : IF ValidAfter(b, s, FALSE) THEN Append(s, b) ELSE s, <<>>, w)

\* /v1/soul/replay and `soul replay`, with latest or without.
Latest(w, n) == SubSeq(w, 1 + Len(w) - (IF n < Len(w) THEN n ELSE Len(w)), Len(w))
Replay(n) ==
  LET w == Latest(Normalized(blocks), n) IN
    /\ report' = IF Reads(w) THEN [ok |-> TRUE, replayed |-> w, accepted |-> Accepted(w),
                                   whole |-> n >= Len(blocks)]
                 ELSE NoReport
    /\ UNCHANGED <<source, via, blocks, demands, edits, moved, made>>

Next ==
  \/ \E t \in Times, k \in Keys \cup {None}, strict \in BOOLEAN : AppendBlock(t, k, strict)
  \/ \E t \in Times : AppendEntry(t)
  \/ \E i \in DOMAIN blocks, field \in Fields : Edit(i, field)
  \/ \E i \in DOMAIN blocks : Lose(i) \/ Move(i)
  \/ \E n \in 1..MaxBlocks : Replay(n)

Spec == Init /\ [][Next]_vars

-----------------------------------------------------------------------------
(* Properties.                                                             *)

\* chain_validate accepts each stored block after the one before it, as strictly as it was
\* appended, and refuses one as soon as a block was changed or is missing from the middle.
ValidationTellsDamage ==
  LET valid(i, strict) == ValidAfter(blocks[i], SubSeq(blocks, 1, i - 1), strict) IN
    source = "chain" =>
      IF edits = 0 THEN \A i \in DOMAIN blocks : valid(i, demands[i])
      ELSE \E i \in DOMAIN blocks : ~ valid(i, FALSE)

\* "replay is deterministic for same input": the order in which a client lists the blocks
\* of a chain does not change what is accepted, damaged or not, as long as no two of them
\* have the same number and time.
ReplayIgnoresOrder ==
  LET alike(i, j) == ~ Earlier(blocks[i], blocks[j]) /\ ~ Earlier(blocks[j], blocks[i]) IN
    (\A i, j \in DOMAIN blocks : alike(i, j) => i = j) =>
      \A i \in 1..(Len(blocks) - 1) :
        Accepted(Normalized(Swapped(blocks, i))) = Accepted(Normalized(blocks))

\* Numbering and linking the blocks anew may mend their numbers and links, and nothing
\* else: what a replay accepts is the beginning of the chain as it was made.
ReplayAcceptsWhatWasMade == IsPrefix(report.accepted, made)

\* A list that nobody damaged, in whatever order, is accepted in whole if it is replayed
\* in whole.
UndamagedListIsAccepted ==
  report.ok /\ report.whole /\ source = "list" /\ edits = 0 =>
    report.accepted = report.replayed

=============================================================================
