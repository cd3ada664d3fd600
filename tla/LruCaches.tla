------------------------------ MODULE LruCaches ------------------------------
(***************************************************************************)
(* Three in-memory caches, each called by one thread: ChainCache (blocks   *)
(* by chain and index, with an estimate of their bytes), QueryCache        *)
(* (results by query, the oldest evicted) and the Rust EmbeddingCache      *)
(* (vectors by text, with a queue of the keys by last use).  They are      *)
(* separate objects; a step is a call of one of them.                      *)
(***************************************************************************)
EXTENDS Integers, Sequences, FiniteSets, SequencesExt, FiniteSetsExt

CONSTANTS
  Chains, Indexes,      \* the keys of ChainCache
  Queries, Texts,       \* the keys of the other two
  Empty,                \* the empty query
  BlockSizes,           \* estimates of a block
  MaxBlocks, MaxSize,   \* capacities of ChainCache, and of each of the other two
  MaxAge,               \* maxAge, ttl
  MaxTime, MaxCalls     \* bounds

VARIABLES
  blocks,               \* ChainCache: keys in the order of the Map, the oldest first
  sizes,                \* key -> its estimate in blockSizes, 0 for none
  bytes,                \* estimatedBytes
  queries,              \* QueryCache: entries in the order of the Map: query, time
  vectors,              \* EmbeddingCache: text -> time of creation, or NoVector
  order,                \* access_order, the most recently used first
  now, calls,
  newest                \* history: text -> when it was last put

chainVars == <<blocks, sizes, bytes>>
embedVars == <<vectors, order, newest>>
vars == <<blocks, sizes, bytes, queries, vectors, order, now, calls, newest>>

NoVector == 0 - 1
Keys == Chains \X Indexes

Init ==
  /\ blocks = <<>> /\ sizes = [k \in Keys |-> 0] /\ bytes = 0
  /\ queries = <<>>
  /\ vectors = [t \in Texts |-> NoVector] /\ order = <<>> /\ newest = [t \in Texts |-> NoVector]
  /\ now = 0 /\ calls = 0

Called == calls < MaxCalls /\ calls' = calls + 1
Without(s, x) == SelectSeq(s, LAMBDA y : y # x)
NotBelowZero(n) == IF n < 0 THEN 0 ELSE n

-----------------------------------------------------------------------------
(* ChainCache.                                                             *)

GetBlock(k) ==
  /\ Called /\ k \in ToSet(blocks)
  /\ blocks' = Append(Without(blocks, k), k)
  /\ UNCHANGED <<sizes, bytes, queries, embedVars, now>>

\* A block that is there is taken out first; then at most one is evicted.
Stored(k, size) == [sizes EXCEPT ![k] = size]
BytesAfter(k, size, old) == NotBelowZero(bytes - old) + size
SetBlock(k, size) ==
  LET old    == IF k \in ToSet(blocks) THEN sizes[k] ELSE 0
      kept   == Append(Without(blocks, k), k)
      total  == BytesAfter(k, size, old)
      victim == Head(kept)
  IN
  /\ Called
  /\ IF Len(kept) > MaxBlocks
     THEN /\ blocks' = Tail(kept)
          /\ sizes' = [Stored(k, size) EXCEPT ![victim] = 0]
          /\ bytes' = NotBelowZero(total - Stored(k, size)[victim])
     ELSE blocks' = kept /\ sizes' = Stored(k, size) /\ bytes' = total
  /\ UNCHANGED <<queries, embedVars, now>>

Dropped(keys) ==
  /\ blocks' = SelectSeq(blocks, LAMBDA k : k \notin keys)
  /\ sizes' = [k \in Keys |-> IF k \in keys THEN 0 ELSE sizes[k]]
  /\ bytes' = NotBelowZero(bytes - MapThenSumSet(LAMBDA k : sizes[k], keys \cap ToSet(blocks)))
InvalidateChain(c) ==
  /\ Called /\ Dropped({c} \X Indexes)
  /\ UNCHANGED <<queries, embedVars, now>>
InvalidateBlock(k) ==
  /\ Called /\ k \in ToSet(blocks) /\ Dropped({k})
  /\ UNCHANGED <<queries, embedVars, now>>
ClearBlocks ==
  /\ Called /\ blocks # <<>>
  /\ blocks' = <<>> /\ sizes' = [k \in Keys |-> 0] /\ bytes' = 0
  /\ UNCHANGED <<queries, embedVars, now>>

-----------------------------------------------------------------------------
(* QueryCache.                                                             *)

Stale(e) == now - e.time > MaxAge
Cached(q) == \E i \in DOMAIN queries : queries[i].query = q
\* get and has drop an entry that is too old; prune drops them all.
Lookup(q) ==
  /\ Called /\ Cached(q)
  /\ queries' = SelectSeq(queries, LAMBDA e : ~ (e.query = q /\ Stale(e)))
  /\ UNCHANGED <<chainVars, embedVars, now>>
Prune ==
  /\ Called /\ queries' = SelectSeq(queries, LAMBDA e : ~ Stale(e))
  /\ UNCHANGED <<chainVars, embedVars, now>>

\* evictOldest: the first entry with the least time; an empty query counts as no entry.
Oldest == CHOOSE i \in DOMAIN queries :
            /\ \A j \in DOMAIN queries : queries[i].time <= queries[j].time
            /\ \A j \in 1..(i - 1) : queries[i].time < queries[j].time
Evicted ==
  IF Len(queries) < MaxSize \/ queries = <<>> \/ queries[Oldest].query = Empty
  THEN queries ELSE RemoveAt(queries, Oldest)
\* set: it evicts even when the query is there already, and a Map keeps its place.
SetQuery(q) ==
  LET entry == [query |-> q, time |-> now]
      at    == {i \in DOMAIN Evicted : Evicted[i].query = q}
  IN
  /\ Called
  /\ queries' = IF at = {} THEN Append(Evicted, entry)
                ELSE [Evicted EXCEPT ![CHOOSE i \in at : TRUE] = entry]
  /\ UNCHANGED <<chainVars, embedVars, now>>
ClearQueries ==
  /\ Called /\ queries # <<>> /\ queries' = <<>>
  /\ UNCHANGED <<chainVars, embedVars, now>>

-----------------------------------------------------------------------------
(* EmbeddingCache.                                                         *)

Expired(t) == vectors[t] # NoVector /\ now - vectors[t] >= MaxAge
GetVector(t) ==
  /\ Called /\ vectors[t] # NoVector
  /\ IF Expired(t)
     THEN vectors' = [vectors EXCEPT ![t] = NoVector] /\ order' = Without(order, t)
     ELSE order' = <<t>> \o Without(order, t) /\ UNCHANGED vectors
  /\ UNCHANGED <<chainVars, queries, now, newest>>

OrderWithout(t) == IF vectors[t] # NoVector THEN Without(order, t) ELSE order
\* put: at capacity the least recently used key goes, also when the key is there already.
PutVector(t) ==
  LET rest == OrderWithout(t)
      full == Cardinality({u \in Texts : vectors[u] # NoVector}) >= MaxSize /\ rest # <<>>
  IN
  /\ Called /\ MaxSize > 0
  /\ vectors' = [u \in Texts |-> IF u = t THEN now
                                 ELSE IF full /\ u = Last(rest) THEN NoVector ELSE vectors[u]]
  /\ order' = <<t>> \o (IF full THEN Front(rest) ELSE rest)
  /\ newest' = [newest EXCEPT ![t] = now]
  /\ UNCHANGED <<chainVars, queries, now>>
EvictExpired ==
  /\ Called
  /\ vectors' = [t \in Texts |-> IF Expired(t) THEN NoVector ELSE vectors[t]]
  /\ order' = SelectSeq(order, LAMBDA t : ~ Expired(t))
  /\ UNCHANGED <<chainVars, queries, now, newest>>

Tick ==
  /\ now < MaxTime /\ now' = now + 1
  /\ UNCHANGED <<chainVars, queries, embedVars, calls>>

Next ==
  \/ ClearBlocks \/ Prune \/ ClearQueries \/ EvictExpired \/ Tick
  \/ \E k \in Keys : GetBlock(k) \/ InvalidateBlock(k)
  \/ \E k \in Keys, size \in BlockSizes : SetBlock(k, size)
  \/ \E c \in Chains : InvalidateChain(c)
  \/ \E q \in Queries : Lookup(q) \/ SetQuery(q)
  \/ \E t \in Texts : GetVector(t) \/ PutVector(t)

Spec == Init /\ [][Next]_vars

-----------------------------------------------------------------------------
(* Properties.                                                             *)

\* ChainCache's estimate is the sum over the blocks it holds and the Map has no key twice;
\* EmbeddingCache's queue names the texts it holds, each once.  Drift in either would evict
\* the wrong entry, or nothing.
BooksBalance ==
  /\ IsInjective(blocks) /\ bytes = MapThenSumSet(LAMBDA k : sizes[k], ToSet(blocks))
  /\ \A k \in Keys : sizes[k] # 0 => k \in ToSet(blocks)
  /\ IsInjective(order) /\ ToSet(order) = {t \in Texts : vectors[t] # NoVector}

\* query-cache.ts:43 says that set evicts the oldest entry at capacity.
QueriesAreBounded == Len(queries) <= MaxSize
\* No cache outgrows its capacity (QueryCache: as long as nobody caches the empty query,
\* which is never evicted), and a vector is the last one put.
CapacitiesHold ==
  /\ Len(blocks) <= MaxBlocks /\ Len(order) <= MaxSize
  /\ Empty \notin Queries => QueriesAreBounded
  /\ \A t \in Texts : vectors[t] \in {NoVector, newest[t]}
=============================================================================
