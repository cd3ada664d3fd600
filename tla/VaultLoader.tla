---------------------------- MODULE VaultLoader -----------------------------
(***************************************************************************)
(* VaultLazyLoader: encrypted entries with a bounded cache of decrypted    *)
(* ones. get yields while the entry is decrypted, so puts, deletes and     *)
(* other gets run before it stores the plaintext. Ciphertexts are numbered *)
(* and stand for their plaintext; the sizes are what the two counters of   *)
(* getStats add up.                                                        *)
(***************************************************************************)
EXTENDS Integers, FiniteSetsExt, SequencesExt

CONSTANTS
  Ids, Gets,       \* entry ids, calls of get
  Sizes,           \* Sizes[v]: the rough size of version v
  MaxDecrypted     \* maxDecryptedCache

VARIABLES
  encrypted,       \* id -> version, 0 when absent
  cache,           \* the decrypted cache in insertion order: <<id, version>>
  bytes,           \* estimatedEncryptedBytes, estimatedDecryptedBytes
  call,            \* call of get -> [at, id, version]
  raced            \* ids whose last put or delete came while a get of them was decrypting

loaderVars == <<encrypted, cache, bytes, call, raced>>

Versions == DOMAIN Sizes
NewCall == [at |-> "new", id |-> "none", version |-> 0]

Init ==
  /\ encrypted = [i \in Ids |-> 0] /\ cache = <<>>
  /\ bytes = [encrypted |-> 0, decrypted |-> 0]
  /\ call = [g \in Gets |-> NewCall] /\ raced = {}

Size(v) == IF v = 0 THEN 0 ELSE Sizes[v]
NotBelowZero(n) == IF n < 0 THEN 0 ELSE n
\* Map.delete: an id is cached once.
At(i) == {n \in DOMAIN cache : cache[n][1] = i}
Without(i) == IF At(i) = {} THEN cache ELSE RemoveAt(cache, CHOOSE n \in At(i) : TRUE)
CachedSize(i) == SumSet({Size(e[2]) : e \in {x \in ToSet(cache) : x[1] = i}})

\* put and delete drop the decrypted copy with its size.
Forget(i, v) ==
  /\ encrypted' = [encrypted EXCEPT ![i] = v]
  /\ cache' = Without(i)
  /\ bytes' = [encrypted |-> NotBelowZero(bytes.encrypted - Size(encrypted[i])) + Size(v),
               decrypted |-> NotBelowZero(bytes.decrypted - CachedSize(i))]
  /\ raced' = IF \E g \in Gets : call[g].at = "decrypting" /\ call[g].id = i THEN raced \cup {i} ELSE raced \ {i}
  /\ UNCHANGED call

Put(i, v) == v > encrypted[i] /\ Forget(i, v)
Delete(i) == encrypted[i] # 0 /\ Forget(i, 0)

\* touchCache: to the young end of the cache; past the limit the oldest goes.
TouchKeepingSize(i, v, kept) ==
  LET filled == Append(Without(i), <<i, v>>)
      over   == Len(filled) > MaxDecrypted
  IN /\ cache' = IF over THEN Tail(filled) ELSE filled
     /\ bytes' = [bytes EXCEPT !.decrypted =
          LET added == NotBelowZero(@ - kept) + Size(v)
          IN IF over THEN NotBelowZero(added - Size(Head(filled)[2])) ELSE added]
TouchAddingAgain(i, v) == TouchKeepingSize(i, v, 0)
TouchCache(i, v) == TouchKeepingSize(i, v, CachedSize(i))

GetHit(g, i) ==
  /\ call[g].at = "new"
  /\ \E e \in ToSet(cache) :
       /\ e[1] = i
       /\ TouchCache(i, e[2])
       /\ call' = [call EXCEPT ![g] = [at |-> "done", id |-> i, version |-> e[2]]]
  /\ UNCHANGED <<encrypted, raced>>

GetMiss(g, i) ==
  /\ call[g].at = "new" /\ ~ \E e \in ToSet(cache) : e[1] = i
  /\ call' = [call EXCEPT ![g] = [at |-> IF encrypted[i] = 0 THEN "done" ELSE "decrypting",
                                  id |-> i, version |-> encrypted[i]]]
  /\ UNCHANGED <<encrypted, cache, bytes, raced>>

\* The decryption ends: the plaintext is cached whatever happened to the entry.
GetDecrypted(g) ==
  /\ call[g].at = "decrypting"
  /\ call' = [call EXCEPT ![g].at = "done"]
  /\ TouchCache(call[g].id, call[g].version)
  /\ UNCHANGED <<encrypted, raced>>

Next ==
  \/ \E i \in Ids : Delete(i) \/ \E v \in Versions : Put(i, v)
  \/ \E g \in Gets : GetDecrypted(g) \/ \E i \in Ids : GetHit(g, i) \/ GetMiss(g, i)

Spec == Init /\ [][Next]_loaderVars

-----------------------------------------------------------------------------
(* Properties.                                                             *)

\* A cached plaintext is that of the stored entry unless the last put or delete of the entry
\* ran while a get was decrypting it: each drops the copy, and only a get that read the
\* entry before it can bring an old one back.
FreshUnlessRaced == \A e \in ToSet(cache) : e[1] \in raced \/ e[2] = encrypted[e[1]]

\* Through all interleavings of gets the decrypted-bytes counter of getStats is the size of
\* what is cached, each id is cached once, and never more than maxDecryptedCache are.
CountersMatchCache ==
  /\ bytes.decrypted = FoldSeq(LAMBDA e, n : Size(e[2]) + n, 0, cache)
  /\ bytes.encrypted = MapThenSumSet(LAMBDA i : Size(encrypted[i]), Ids)
  /\ IsInjective([n \in DOMAIN cache |-> cache[n][1]]) /\ Len(cache) <= MaxDecrypted

=============================================================================
