---------------------------- MODULE EvidenceProofs ----------------------------
(***************************************************************************)
(* Invariants of the caches over files and over the vault, of the incident *)
(* bundles and of the strict handoffs, over the variables of FilesProofs.  *)
(***************************************************************************)
EXTENDS FilesProofs

Evidence == INSTANCE IncidentBundle WITH
  Names <- Ids, KeyIds <- Ids, Roots <- RootNames, Retention <- KeptBundles,
  MaxExports <- MaxBundles, MaxRotations <- MaxKeyPairs, MaxKills <- MaxBundleKills,
  bundle <- x1, sealed <- x2, manifest <- x3, sealedManifest <- x4, order <- x5,
  ring <- x6, private <- x7, proc <- x8, exports <- x9, rotations <- x10, kills <- x11,
  whole <- x12, crossed <- x13

Handoffs == INSTANCE StrictHandoff WITH
  FlagSets <- HandoffFlags, Attempts <- EventAttempts, MaxRuns <- MaxHandoffs,
  MaxChanges <- MaxHostChanges, MaxFailures <- MaxFailedEvents, MaxKills <- MaxHandoffKills,
  bundle <- x1, manifest <- x2, ring <- x3, trust <- x4, run <- x5, chain <- x6, spent <- x7

Secrets == INSTANCE VaultLoader WITH
  Sizes <- SecretSizes, MaxDecrypted <- MaxSecrets,
  encrypted <- x1, cache <- x2, bytes <- x3, call <- x4, raced <- x5

Contents == INSTANCE FileCache WITH
  Files <- Ids, Reads <- Gets, Sizes <- ContentSizes, MaxSize <- MaxContentSize,
  MaxTime <- MaxContentTime,
  disk <- x1, cache <- x2, currentSize <- x3, now <- x4, read <- x5, blurred <- x6,
  overlapped <- x7


-----------------------------------------------------------------------------
(* The cache of file contents.                                             *)

Stamped == [v : Nat, mtime : Nat]
FileReads == [at : {"new", "check", "readFile", "stat", "done"}, file : Ids \cup {"none"},
              seen : Stamped]
ContentTypes ==
  /\ x1 \in [Ids -> Stamped] /\ x2 \in [Ids -> Stamped] /\ x4 \in Nat
  /\ x5 \in [Gets -> FileReads]
  /\ \A r \in Gets : x5[r].at # "new" => x5[r].file \in Ids

\* No copy is stamped later than its file, and no file later than the clock says.
Timed(disk, cache, time) ==
  \A f \in Ids : 0 < disk[f].mtime /\ disk[f].mtime <= time /\ cache[f].mtime <= disk[f].mtime

\* What a read has read is the file's content until its stat, and so is a copy as long as
\* it has the file's stamp, unless the file is blurred.
SeenCurrent(disk, read, blurred) ==
  \A r \in Gets : read[r].at = "stat" /\ read[r].file \notin blurred =>
    read[r].seen.v = disk[read[r].file].v
CopiesCurrent(disk, cache, blurred) ==
  \A f \in Ids \ blurred : cache[f].mtime = disk[f].mtime => cache[f].v = disk[f].v

ContentInv ==
  /\ ContentTypes
  /\ Timed(x1, x2, x4) /\ SeenCurrent(x1, x5, x6) /\ CopiesCurrent(x1, x2, x6)

LEMMA NoCopy == Contents!NoFile \in Stamped /\ Contents!NoFile.mtime = 0
BY DEF Contents!NoFile, Stamped

LEMMA ContentsStart ==
  ASSUME Contents!Init PROVE ContentInv
<1>1. [v |-> 1, mtime |-> 1] \in Stamped /\ [v |-> 1, mtime |-> 1].mtime = 1
  BY DEF Stamped
<1>2. /\ \A f \in Ids : x1[f] = [v |-> 1, mtime |-> 1] /\ x2[f] = Contents!NoFile
      /\ x1 \in [Ids -> Stamped] /\ x2 \in [Ids -> Stamped] /\ x4 = 1
  BY <1>1, NoCopy DEF Contents!Init
<1>3. [at |-> "new", file |-> "none", seen |-> Contents!NoFile] \in FileReads
  BY NoCopy DEF FileReads
<1>4. x5 \in [Gets -> FileReads] /\ \A r \in Gets : x5[r].at = "new"
  BY <1>3 DEF Contents!Init
<1>5. \A f \in Ids : x1[f].mtime = 1 /\ x2[f].mtime = 0
  BY <1>1, <1>2, NoCopy
<1> QED BY <1>2, <1>4, <1>5 DEF ContentInv, ContentTypes, Timed, SeenCurrent, CopiesCurrent

LEMMA WriteFileStep ==
  ASSUME ContentInv, NEW f \in Ids, Contents!Write(f) PROVE ContentInv'
<1> DEFINE new == [x1[f] EXCEPT !.v = @ + 1, !.mtime = x4]
           written == [v |-> x1[f].v + 1, mtime |-> x4]
<1>1. ContentTypes /\ x1[f] \in Stamped /\ x4 \in Nat /\ x6 \subseteq x6'
  BY DEF ContentInv, ContentTypes, Contents!Write
<1>2. written \in Stamped /\ written.mtime = x4
  BY <1>1 DEF Stamped
<1>3. x1' = [x1 EXCEPT ![f] = written] /\ UNCHANGED <<x2, x4, x5>>
  BY DEF Contents!Write
<1> HIDE DEF written
<1>4. x1' \in [Ids -> Stamped] /\ \A g \in Ids : x1'[g] = IF g = f THEN written ELSE x1[g]
  BY <1>1, <1>2, <1>3 DEF ContentTypes
<1>5. ContentTypes'
  BY <1>1, <1>3, <1>4 DEF ContentTypes
<1>6. Timed(x1', x2', x4')
  BY <1>1, <1>2, <1>3, <1>4 DEF ContentInv, ContentTypes, Timed, Stamped
<1>7. f \in x6' \/ (x1[f].mtime # x4 /\ \A r \in Gets : ~ (x5[r].at = "stat" /\ x5[r].file = f))
  BY DEF Contents!Write
<1>8. SeenCurrent(x1', x5', x6')
  <2>1. ASSUME NEW r \in Gets, x5[r].at = "stat", x5[r].file \notin x6'
        PROVE  x5[r].seen.v = x1'[x5[r].file].v
    <3>1. x5[r].file \in Ids /\ x5[r].file # f /\ x5[r].file \notin x6
      BY <1>1, <1>7, <2>1 DEF ContentTypes
    <3> QED BY <1>4, <2>1, <3>1 DEF ContentInv, SeenCurrent
  <2> QED BY <1>3, <2>1 DEF SeenCurrent
<1>9. CopiesCurrent(x1', x2', x6')
  <2>1. ASSUME NEW g \in Ids \ x6', x2[g].mtime = x1'[g].mtime PROVE x2[g].v = x1'[g].v
    <3>1. CASE g = f
      <4>1. x2[f].mtime = x4 /\ x1[f].mtime # x4
        BY <1>2, <1>4, <1>7, <2>1, <3>1
      <4>2. x2[f] \in Stamped /\ x2[f].mtime <= x1[f].mtime /\ x1[f].mtime <= x4
        BY <1>1 DEF ContentInv, ContentTypes, Timed
      <4> QED BY <1>1, <4>1, <4>2 DEF Stamped
    <3>2. CASE g # f
      BY <1>1, <1>4, <2>1, <3>2 DEF ContentInv, CopiesCurrent
    <3> QED BY <3>1, <3>2
  <2> QED BY <1>3, <2>1 DEF CopiesCurrent
<1> QED BY <1>5, <1>6, <1>8, <1>9 DEF ContentInv

LEMMA TickStep ==
  ASSUME ContentInv, Contents!Tick PROVE ContentInv'
<1>1. x4 \in Nat /\ x4' = x4 + 1 /\ UNCHANGED <<x1, x2, x5, x6>>
  BY DEF ContentInv, ContentTypes, Contents!Tick
<1>2. \A f \in Ids : x1[f].mtime \in Nat
  BY DEF ContentInv, ContentTypes, Stamped
<1>3. Timed(x1', x2', x4')
  BY <1>1, <1>2 DEF ContentInv, Timed
<1> QED BY <1>1, <1>3 DEF ContentInv, ContentTypes

\* Copies that go, and reads that go on without one, break nothing.
LEMMA CopiesGo ==
  ASSUME ContentInv, NEW fs, x2' = [f \in Ids |-> IF f \in fs THEN Contents!NoFile ELSE x2[f]]
  PROVE  /\ x2' \in [Ids -> Stamped] /\ Timed(x1, x2', x4) /\ CopiesCurrent(x1, x2', x6)
<1>1. x2' \in [Ids -> Stamped] /\ \A f \in Ids : x2'[f] = Contents!NoFile \/ x2'[f] = x2[f]
  BY NoCopy DEF ContentInv, ContentTypes
<1>2. \A f \in Ids : x1[f].mtime \in Nat /\ 0 < x1[f].mtime
  BY DEF ContentInv, ContentTypes, Stamped, Timed
<1>3. Timed(x1, x2', x4)
  BY <1>1, <1>2, NoCopy DEF ContentInv, Timed
<1> QED BY <1>1, <1>2, <1>3, NoCopy DEF ContentInv, CopiesCurrent

LEMMA DropStep ==
  ASSUME ContentInv, Contents!Clear \/ \E fs \in SUBSET Contents!Cached : Contents!Invalidate(fs)
  PROVE  ContentInv'
<1>1. UNCHANGED <<x1, x4, x5, x6>>
  BY DEF Contents!Clear, Contents!Invalidate
<1>2. \E fs : x2' = [f \in Ids |-> IF f \in fs THEN Contents!NoFile ELSE x2[f]]
  <2>1. CASE Contents!Clear
    <3>1. x2' = [f \in Ids |-> IF f \in Ids THEN Contents!NoFile ELSE x2[f]]
      BY <2>1 DEF Contents!Clear
    <3> QED BY <3>1
  <2>2. CASE \E fs \in SUBSET Contents!Cached : Contents!Invalidate(fs)
    BY <2>2 DEF Contents!Invalidate
  <2> QED BY <2>1, <2>2
<1>3. /\ x2' \in [Ids -> Stamped] /\ Timed(x1, x2', x4) /\ CopiesCurrent(x1, x2', x6)
  BY <1>2, CopiesGo
<1>4. SeenCurrent(x1', x5', x6') /\ ContentTypes'
  BY <1>1, <1>3 DEF ContentInv, ContentTypes, SeenCurrent
<1> QED BY <1>1, <1>3, <1>4 DEF ContentInv

\* A read goes on; where it has come to its stat, it has seen what is in the file.
LEMMA ReadMoves ==
  ASSUME ContentInv, NEW r \in Gets, NEW q \in FileReads, x5' = [x5 EXCEPT ![r] = q],
         q.at # "new" => q.file \in Ids,
         q.at = "stat" => q.seen.v = x1[q.file].v
  PROVE  /\ x5' \in [Gets -> FileReads] /\ SeenCurrent(x1, x5', x6)
         /\ \A p \in Gets : x5'[p].at # "new" => x5'[p].file \in Ids
<1>1. x5' \in [Gets -> FileReads] /\ \A p \in Gets : x5'[p] = IF p = r THEN q ELSE x5[p]
  BY DEF ContentInv, ContentTypes
<1> QED BY <1>1 DEF ContentInv, ContentTypes, SeenCurrent

LEMMA LookupStep ==
  ASSUME ContentInv, NEW r \in Gets, NEW f \in Ids, Contents!Lookup(r, f) PROVE ContentInv'
<1> DEFINE q == [at |-> IF f \in Contents!Cached THEN "check" ELSE "readFile",
                 file |-> f, seen |-> x2[f]]
<1>1. x2[f] \in Stamped /\ x5' = [x5 EXCEPT ![r] = q] /\ UNCHANGED <<x1, x2, x4, x6>>
  BY DEF ContentInv, ContentTypes, Contents!Lookup
<1>2. q \in FileReads /\ q.at # "stat" /\ q.file \in Ids
  BY <1>1 DEF FileReads
<1> HIDE DEF q
<1>3. /\ x5' \in [Gets -> FileReads] /\ SeenCurrent(x1, x5', x6)
      /\ \A p \in Gets : x5'[p].at # "new" => x5'[p].file \in Ids
  BY <1>1, <1>2, ReadMoves
<1> QED BY <1>1, <1>3 DEF ContentInv, ContentTypes

LEMMA HitStep ==
  ASSUME ContentInv, NEW r \in Gets, Contents!Hit(r) PROVE ContentInv'
<1> DEFINE q == [x5[r] EXCEPT !.at = "done"]
<1>1. /\ x5[r] \in FileReads /\ x5[r].file \in Ids
      /\ x5' = [x5 EXCEPT ![r] = q] /\ UNCHANGED <<x1, x2, x4, x6>>
  BY DEF ContentInv, ContentTypes, Contents!Hit
<1>2. q \in FileReads /\ q.at = "done" /\ q.file = x5[r].file
  BY <1>1 DEF FileReads
<1> HIDE DEF q
<1>3. /\ x5' \in [Gets -> FileReads] /\ SeenCurrent(x1, x5', x6)
      /\ \A p \in Gets : x5'[p].at # "new" => x5'[p].file \in Ids
  BY <1>1, <1>2, ReadMoves
<1> QED BY <1>1, <1>3 DEF ContentInv, ContentTypes

LEMMA ModifiedStep ==
  ASSUME ContentInv, NEW r \in Gets, Contents!Modified(r) PROVE ContentInv'
<1> DEFINE q == [x5[r] EXCEPT !.at = "readFile"]
<1>1. /\ x5[r] \in FileReads /\ x5[r].file \in Ids
      /\ x5' = [x5 EXCEPT ![r] = q] /\ UNCHANGED <<x1, x4, x6>>
  BY DEF ContentInv, ContentTypes, Contents!Modified
<1>2. q \in FileReads /\ q.at = "readFile" /\ q.file = x5[r].file
  BY <1>1 DEF FileReads
<1> HIDE DEF q
<1>3. /\ x5' \in [Gets -> FileReads] /\ SeenCurrent(x1, x5', x6)
      /\ \A p \in Gets : x5'[p].at # "new" => x5'[p].file \in Ids
  BY <1>1, <1>2, ReadMoves
<1>4. x2' = [f \in Ids |-> IF f \in {x5[r].file} THEN Contents!NoFile ELSE x2[f]]
  BY <1>1 DEF Contents!Modified, Contents!Evict, ContentInv, ContentTypes
<1>5. /\ x2' \in [Ids -> Stamped] /\ Timed(x1, x2', x4) /\ CopiesCurrent(x1, x2', x6)
  BY <1>4, CopiesGo
<1> QED BY <1>1, <1>3, <1>5 DEF ContentInv, ContentTypes

LEMMA ReadFileStep ==
  ASSUME ContentInv, NEW r \in Gets, Contents!ReadFile(r) PROVE ContentInv'
<1> DEFINE s == [v |-> x1[x5[r].file].v, mtime |-> 0]
           q == [x5[r] EXCEPT !.at = "stat", !.seen = s]
<1>1. /\ x5 \in [Gets -> FileReads] /\ x5[r] \in FileReads /\ x5[r].file \in Ids
      /\ UNCHANGED <<x1, x2, x4, x6>>
  BY DEF ContentInv, ContentTypes, Contents!ReadFile
<1>2. x5' = [x5 EXCEPT ![r] = q]
  BY <1>1 DEF Contents!ReadFile
<1>3. s \in Stamped /\ s.v = x1[x5[r].file].v
  BY <1>1 DEF ContentInv, ContentTypes, Stamped
<1> HIDE DEF s
<1>4. q \in FileReads /\ q.at = "stat" /\ q.file = x5[r].file /\ q.seen = s
  BY <1>1, <1>3 DEF FileReads
<1> HIDE DEF q
<1>5. q.file \in Ids /\ q.seen.v = x1[q.file].v
  BY <1>1, <1>3, <1>4
<1>6. /\ x5' \in [Gets -> FileReads] /\ SeenCurrent(x1, x5', x6)
      /\ \A p \in Gets : x5'[p].at # "new" => x5'[p].file \in Ids
  BY <1>2, <1>4, <1>5, ReadMoves
<1> QED BY <1>1, <1>6 DEF ContentInv, ContentTypes

LEMMA StoreContentStep ==
  ASSUME ContentInv, NEW r \in Gets, Contents!Store(r) PROVE ContentInv'
<1> DEFINE f == x5[r].file
           q == [x5[r] EXCEPT !.at = "done"]
           copy == [v |-> x5[r].seen.v, mtime |-> x1[f].mtime]
<1>1. /\ x5[r] \in FileReads /\ f \in Ids /\ x5[r].at = "stat" /\ x1[f] \in Stamped
      /\ x5' = [x5 EXCEPT ![r] = q] /\ UNCHANGED <<x1, x4, x6>>
  BY DEF ContentInv, ContentTypes, Contents!Store
<1>2. q \in FileReads /\ q.at = "done" /\ q.file = f
  BY <1>1 DEF FileReads
<1>3. copy \in Stamped /\ copy.mtime = x1[f].mtime /\ copy.v = x5[r].seen.v
  BY <1>1 DEF FileReads, Stamped
<1>4. \E kept : x2' = [g \in Ids |-> IF g = f THEN copy
                                     ELSE IF g \in kept THEN x2[g] ELSE Contents!NoFile]
  BY DEF Contents!Store, Contents!Stated
<1> HIDE DEF q, copy
<1>5. /\ x5' \in [Gets -> FileReads] /\ SeenCurrent(x1, x5', x6)
      /\ \A p \in Gets : x5'[p].at # "new" => x5'[p].file \in Ids
  BY <1>1, <1>2, ReadMoves
<1>6. /\ x2' \in [Ids -> Stamped] /\ x2'[f] = copy
      /\ \A g \in Ids : g # f => x2'[g] = Contents!NoFile \/ x2'[g] = x2[g]
  BY <1>1, <1>3, <1>4, NoCopy DEF ContentInv, ContentTypes
<1>7. f \notin x6 => copy.v = x1[f].v
  BY <1>1, <1>3 DEF ContentInv, SeenCurrent
<1> HIDE DEF f
<1>8. \A g \in Ids : x1[g].mtime \in Nat /\ 0 < x1[g].mtime
  BY DEF ContentInv, ContentTypes, Stamped, Timed
<1>9. Timed(x1, x2', x4)
  BY <1>3, <1>6, <1>8, NoCopy DEF ContentInv, Timed
<1>10. CopiesCurrent(x1, x2', x6)
  BY <1>6, <1>7, <1>8, NoCopy DEF ContentInv, CopiesCurrent
<1> QED BY <1>1, <1>5, <1>6, <1>9, <1>10 DEF ContentInv, ContentTypes

\* The invariant is kept by every step of FileCache.
LEMMA ContentStep ==
  ASSUME ContentInv, Contents!Next \/ UNCHANGED <<x1, x2, x3, x4, x5, x6, x7>> PROVE ContentInv'
<1>1. CASE UNCHANGED <<x1, x2, x3, x4, x5, x6, x7>>
  BY <1>1 DEF ContentInv, ContentTypes
<1>2. CASE Contents!Next
  BY <1>2, TickStep, DropStep, WriteFileStep, LookupStep, HitStep, ModifiedStep, ReadFileStep,
     StoreContentStep DEF Contents!Next
<1> QED BY <1>1, <1>2

LEMMA ContentsCurrent ==
  ContentInv => Contents!HitsAreCurrent
BY DEF ContentInv, CopiesCurrent, Contents!HitsAreCurrent, Contents!Cached

-----------------------------------------------------------------------------
(* The vault's lazy loader.                                                *)

SecretCopy == Ids \X Int
SecretCalls == [at : {"new", "decrypting", "done"}, id : Ids \cup {"none"}, version : Int]
SecretTypes ==
  /\ x1 \in [Ids -> Int] /\ x2 \in Seq(SecretCopy) /\ x4 \in [Gets -> SecretCalls]
  /\ \A g \in Gets : x4[g].at = "decrypting" => x4[g].id \in Ids

\* An id is cached once.
CachedOnce(copies) == \A m, n \in DOMAIN copies : copies[m][1] = copies[n][1] => m = n
\* A copy, and what a get is decrypting, is the entry as it is stored, unless it is raced.
CopiesFresh(stored, copies, mixed) ==
  \A n \in DOMAIN copies : copies[n][1] \in mixed \/ copies[n][2] = stored[copies[n][1]]
CallsFresh(stored, calls, mixed) ==
  \A g \in Gets : calls[g].at = "decrypting" =>
    calls[g].id \in mixed \/ calls[g].version = stored[calls[g].id]

SecretInv ==
  /\ SecretTypes /\ CachedOnce(x2) /\ CopiesFresh(x1, x2, x5) /\ CallsFresh(x1, x4, x5)

LEMMA SecretsStart ==
  ASSUME Secrets!Init PROVE SecretInv
<1>1. Secrets!NewCall \in SecretCalls /\ Secrets!NewCall.at = "new"
  BY DEF Secrets!NewCall, SecretCalls
<1>2. x1 \in [Ids -> Int] /\ x2 = <<>> /\ x4 = [g \in Gets |-> Secrets!NewCall]
  BY DEF Secrets!Init
<1>3. x2 \in Seq(SecretCopy) /\ DOMAIN x2 = {}
  BY <1>2
<1>4. x4 \in [Gets -> SecretCalls] /\ \A g \in Gets : x4[g].at = "new"
  BY <1>1, <1>2
<1> QED BY <1>2, <1>3, <1>4 DEF SecretInv, SecretTypes, CachedOnce, CopiesFresh, CallsFresh

\* What is left of a sequence without its element k.
LEMMA WithoutElement ==
  ASSUME NEW S, NEW s \in Seq(S), NEW k \in 1..Len(s)
  PROVE  LET left == SubSeq(s, 1, k - 1) \o SubSeq(s, k + 1, Len(s)) IN
           /\ left \in Seq(S) /\ Len(left) = Len(s) - 1
           /\ \A n \in 1..(Len(s) - 1) : left[n] = s[IF n < k THEN n ELSE n + 1]
<1> DEFINE old == SubSeq(s, 1, k - 1)
           young == SubSeq(s, k + 1, Len(s))
           left == old \o young
<1>1. old \in Seq(S) /\ Len(old) = k - 1 /\ \A n \in 1..(k - 1) : old[n] = s[n]
  BY SubSeqProperties
<1>2. /\ young \in Seq(S) /\ Len(young) = Len(s) - k
      /\ \A n \in 1..(Len(s) - k) : young[n] = s[k + n]
  BY SubSeqProperties
<1> HIDE DEF old, young
<1>3. old \in Seq(S)
  BY <1>1
<1>4. young \in Seq(S)
  BY <1>2
<1>5. left \in Seq(S) /\ Len(left) = Len(old) + Len(young)
  BY <1>3, <1>4, ConcatProperties
<1>6. \A n \in 1..(Len(old) + Len(young)) :
        left[n] = IF n <= Len(old) THEN old[n] ELSE young[n - Len(old)]
  BY <1>3, <1>4, ConcatProperties
<1> HIDE DEF left
<1>7. Len(s) \in Nat /\ k \in Nat /\ 1 <= k /\ k <= Len(s)
  OBVIOUS
<1>8. Len(left) = Len(s) - 1 /\ Len(old) + Len(young) = Len(s) - 1
  BY <1>1, <1>2, <1>5, <1>7
<1>9. ASSUME NEW n \in 1..(Len(s) - 1) PROVE left[n] = s[IF n < k THEN n ELSE n + 1]
  <2>1. left[n] = IF n <= k - 1 THEN old[n] ELSE young[n - (k - 1)]
    BY <1>1, <1>6, <1>8, <1>9
  <2>2. CASE n <= k - 1
    <3>1. n \in 1..(k - 1) /\ n < k
      BY <1>7, <1>9, <2>2
    <3> QED BY <1>1, <2>1, <2>2, <3>1
  <2>3. CASE ~ (n <= k - 1)
    <3>1. n - (k - 1) \in 1..(Len(s) - k) /\ k + (n - (k - 1)) = n + 1 /\ ~ (n < k)
      BY <1>7, <1>9, <2>3
    <3> QED BY <1>2, <2>1, <2>3, <3>1
  <2> QED BY <2>2, <2>3
<1> QED BY <1>5, <1>8, <1>9 DEF left, old, young

\* What Map.delete leaves: every copy but that of the id, each still once.
LEMMA WithoutId ==
  ASSUME x2 \in Seq(SecretCopy), CachedOnce(x2), NEW i
  PROVE  /\ Secrets!Without(i) \in Seq(SecretCopy) /\ CachedOnce(Secrets!Without(i))
         /\ \A n \in DOMAIN Secrets!Without(i) :
              /\ Secrets!Without(i)[n][1] # i
              /\ \E m \in DOMAIN x2 : Secrets!Without(i)[n] = x2[m]
<1>1. CASE Secrets!At(i) = {}
  <2>1. Secrets!Without(i) = x2
    BY <1>1 DEF Secrets!Without
  <2>2. \A n \in DOMAIN x2 : x2[n][1] # i
    BY <1>1 DEF Secrets!At
  <2> QED BY <2>1, <2>2
<1>2. CASE Secrets!At(i) # {}
  <2> DEFINE k == CHOOSE n \in Secrets!At(i) : TRUE
             left == SubSeq(x2, 1, k - 1) \o SubSeq(x2, k + 1, Len(x2))
  <2>1. k \in DOMAIN x2 /\ x2[k][1] = i
    BY <1>2 DEF Secrets!At
  <2>2. Secrets!Without(i) = left
    BY <1>2 DEF Secrets!Without, Secrets!RemoveAt
  <2> HIDE DEF k
  <2>3. k \in 1..Len(x2) /\ Len(x2) \in Nat
    BY <2>1
  <2>4. /\ left \in Seq(SecretCopy) /\ Len(left) = Len(x2) - 1
        /\ \A n \in 1..(Len(x2) - 1) : left[n] = x2[IF n < k THEN n ELSE n + 1]
    BY <2>3, WithoutElement
  <2> HIDE DEF left
  <2>5. \A n \in DOMAIN left : LET m == IF n < k THEN n ELSE n + 1 IN
          m \in DOMAIN x2 /\ m # k /\ left[n] = x2[m]
    BY <2>3, <2>4
  <2>6. CachedOnce(left)
    <3>1. ASSUME NEW m \in DOMAIN left, NEW n \in DOMAIN left, left[m][1] = left[n][1] PROVE m = n
      <4>1. m \in Nat /\ n \in Nat
        BY <2>4
      <4>2. (IF m < k THEN m ELSE m + 1) = (IF n < k THEN n ELSE n + 1)
        BY <2>5, <3>1 DEF CachedOnce
      <4> QED BY <2>3, <4>1, <4>2
    <3> QED BY <3>1 DEF CachedOnce
  <2>7. \A n \in DOMAIN left : left[n][1] # i /\ \E m \in DOMAIN x2 : left[n] = x2[m]
    BY <2>1, <2>5 DEF CachedOnce
  <2> QED BY <2>2, <2>4, <2>6, <2>7
<1> QED BY <1>1, <1>2

\* put and delete.
LEMMA ForgetStep ==
  ASSUME SecretInv, NEW i \in Ids, NEW v \in Int, Secrets!Forget(i, v) PROVE SecretInv'
<1> DEFINE left == Secrets!Without(i)
<1>1. /\ x1' = [x1 EXCEPT ![i] = v] /\ x2' = left /\ x4' = x4
  BY DEF Secrets!Forget
<1>2. x2 \in Seq(SecretCopy) /\ CachedOnce(x2) /\ x1 \in [Ids -> Int]
  BY DEF SecretInv, SecretTypes
<1>3. /\ left \in Seq(SecretCopy) /\ CachedOnce(left)
      /\ \A n \in DOMAIN left : left[n][1] # i /\ \E m \in DOMAIN x2 : left[n] = x2[m]
  BY <1>2, WithoutId
<1> HIDE DEF left
<1>4. x1' \in [Ids -> Int] /\ \A k \in Ids : x1'[k] = IF k = i THEN v ELSE x1[k]
  BY <1>1, <1>2
<1>5. x5 \subseteq x5' \cup {i}
  BY DEF Secrets!Forget
<1>6. i \in x5' \/ \A g \in Gets : ~ (x4[g].at = "decrypting" /\ x4[g].id = i)
  BY DEF Secrets!Forget
<1>7. CopiesFresh(x1', x2', x5')
  <2>1. ASSUME NEW n \in DOMAIN left PROVE left[n][1] \in x5' \/ left[n][2] = x1'[left[n][1]]
    <3>1. PICK m \in DOMAIN x2 : left[n] = x2[m]
      BY <1>3
    <3>2. left[n][1] \in Ids /\ left[n][1] # i
      BY <1>3 DEF SecretCopy
    <3> QED BY <1>4, <1>5, <3>1, <3>2 DEF SecretInv, CopiesFresh
  <2> QED BY <1>1, <2>1 DEF CopiesFresh
<1>8. CallsFresh(x1', x4', x5')
  <2>1. ASSUME NEW g \in Gets, x4[g].at = "decrypting"
        PROVE  x4[g].id \in x5' \/ x4[g].version = x1'[x4[g].id]
    <3>1. x4[g].id \in Ids /\ (x4[g].id \in x5 \/ x4[g].version = x1[x4[g].id])
      BY <2>1 DEF SecretInv, SecretTypes, CallsFresh
    <3> QED BY <1>4, <1>5, <1>6, <2>1, <3>1
  <2> QED BY <1>1, <2>1 DEF CallsFresh
<1>9. SecretTypes'
  BY <1>1, <1>3, <1>4 DEF SecretInv, SecretTypes
<1> QED BY <1>1, <1>3, <1>7, <1>8, <1>9 DEF SecretInv

\* A copy goes to the young end, and the oldest may go.
LEMMA TouchKeeps ==
  ASSUME SecretInv, NEW i \in Ids, NEW v \in Int, Secrets!TouchCache(i, v),
         i \in x5 \/ v = x1[i]
  PROVE  x2' \in Seq(SecretCopy) /\ CachedOnce(x2') /\ CopiesFresh(x1, x2', x5)
<1> DEFINE left == Secrets!Without(i)
           filled == Append(left, <<i, v>>)
<1>1. x2 \in Seq(SecretCopy) /\ CachedOnce(x2)
  BY DEF SecretInv, SecretTypes
<1>2. /\ left \in Seq(SecretCopy) /\ CachedOnce(left)
      /\ \A n \in DOMAIN left : left[n][1] # i /\ \E m \in DOMAIN x2 : left[n] = x2[m]
  BY <1>1, WithoutId
<1>3. x2' = filled \/ x2' = Tail(filled)
  BY DEF Secrets!TouchCache, Secrets!TouchKeepingSize
<1> HIDE DEF left
<1>4. <<i, v>> \in SecretCopy /\ <<i, v>>[1] = i /\ <<i, v>>[2] = v
  BY DEF SecretCopy
<1>5. /\ filled \in Seq(SecretCopy) /\ Len(filled) = Len(left) + 1
      /\ \A n \in DOMAIN filled : IF n \in DOMAIN left THEN filled[n] = left[n]
                                  ELSE n = Len(filled) /\ filled[n] = <<i, v>>
  BY <1>2, <1>4
<1> HIDE DEF filled
<1>6. CachedOnce(filled)
  BY <1>2, <1>4, <1>5 DEF CachedOnce
<1>7. CopiesFresh(x1, filled, x5)
  <2>1. ASSUME NEW n \in DOMAIN filled
        PROVE  filled[n][1] \in x5 \/ filled[n][2] = x1[filled[n][1]]
    <3>1. CASE n \in DOMAIN left
      BY <1>2, <1>5, <3>1 DEF SecretInv, CopiesFresh
    <3>2. CASE n \notin DOMAIN left
      BY <1>4, <1>5, <3>2
    <3> QED BY <3>1, <3>2
  <2> QED BY <2>1 DEF CopiesFresh
<1>8. filled # <<>> /\ Len(filled) \in Nat \ {0}
  BY <1>2, <1>5
<1>9. /\ Tail(filled) \in Seq(SecretCopy)
      /\ \A n \in DOMAIN Tail(filled) : n + 1 \in DOMAIN filled /\ Tail(filled)[n] = filled[n + 1]
      /\ DOMAIN Tail(filled) \subseteq Nat
  BY <1>5, <1>8
<1>10. CachedOnce(Tail(filled))
  <2>1. ASSUME NEW m \in DOMAIN Tail(filled), NEW n \in DOMAIN Tail(filled),
               Tail(filled)[m][1] = Tail(filled)[n][1]
        PROVE  m = n
    <3>1. m \in Nat /\ n \in Nat
      BY <1>9
    <3>2. m + 1 = n + 1
      BY <1>6, <1>9, <2>1 DEF CachedOnce
    <3> QED BY <3>1, <3>2
  <2> QED BY <2>1 DEF CachedOnce
<1>11. CopiesFresh(x1, Tail(filled), x5)
  BY <1>7, <1>9 DEF CopiesFresh
<1> QED BY <1>3, <1>5, <1>6, <1>7, <1>9, <1>10, <1>11

LEMMA SecretCallMoves ==
  ASSUME SecretInv, NEW g \in Gets, NEW c \in SecretCalls, x4' = [x4 EXCEPT ![g] = c],
         c.at = "decrypting" => c.id \in Ids /\ c.version = x1[c.id]
  PROVE  /\ x4' \in [Gets -> SecretCalls] /\ CallsFresh(x1, x4', x5)
         /\ \A h \in Gets : x4'[h].at = "decrypting" => x4'[h].id \in Ids
<1>1. x4' \in [Gets -> SecretCalls] /\ \A h \in Gets : x4'[h] = IF h = g THEN c ELSE x4[h]
  BY DEF SecretInv, SecretTypes
<1> QED BY <1>1 DEF SecretInv, SecretTypes, CallsFresh

LEMMA GetHitStep ==
  ASSUME SecretInv, NEW g \in Gets, NEW i \in Ids, Secrets!GetHit(g, i) PROVE SecretInv'
<1>1. PICK n \in DOMAIN x2 :
        /\ x2[n][1] = i /\ Secrets!TouchCache(i, x2[n][2])
        /\ x4' = [x4 EXCEPT ![g] = [at |-> "done", id |-> i, version |-> x2[n][2]]]
  BY DEF Secrets!GetHit, Secrets!ToSet
<1>2. x2[n] \in SecretCopy /\ UNCHANGED <<x1, x5>>
  BY DEF SecretInv, SecretTypes, Secrets!GetHit
<1> DEFINE v == x2[n][2]
           c == [at |-> "done", id |-> i, version |-> v]
<1>3. v \in Int /\ (i \in x5 \/ v = x1[i])
  BY <1>1, <1>2 DEF SecretCopy, SecretInv, CopiesFresh
<1>4. Secrets!TouchCache(i, v) /\ x4' = [x4 EXCEPT ![g] = c]
  BY <1>1
<1> HIDE DEF v
<1>5. c \in SecretCalls /\ c.at = "done"
  BY <1>3 DEF SecretCalls
<1> HIDE DEF c
<1>6. x2' \in Seq(SecretCopy) /\ CachedOnce(x2') /\ CopiesFresh(x1, x2', x5)
  BY <1>3, <1>4, TouchKeeps
<1>7. /\ x4' \in [Gets -> SecretCalls] /\ CallsFresh(x1, x4', x5)
      /\ \A h \in Gets : x4'[h].at = "decrypting" => x4'[h].id \in Ids
  BY <1>4, <1>5, SecretCallMoves
<1> QED BY <1>2, <1>6, <1>7 DEF SecretInv, SecretTypes

LEMMA GetMissStep ==
  ASSUME SecretInv, NEW g \in Gets, NEW i \in Ids, Secrets!GetMiss(g, i) PROVE SecretInv'
<1> DEFINE c == [at |-> IF x1[i] = 0 THEN "done" ELSE "decrypting", id |-> i, version |-> x1[i]]
<1>1. x1[i] \in Int /\ x4' = [x4 EXCEPT ![g] = c] /\ UNCHANGED <<x1, x2, x5>>
  BY DEF SecretInv, SecretTypes, Secrets!GetMiss
<1>2. c \in SecretCalls /\ c.id = i /\ c.version = x1[i]
  BY <1>1 DEF SecretCalls
<1> HIDE DEF c
<1>3. /\ x4' \in [Gets -> SecretCalls] /\ CallsFresh(x1, x4', x5)
      /\ \A h \in Gets : x4'[h].at = "decrypting" => x4'[h].id \in Ids
  BY <1>1, <1>2, SecretCallMoves
<1> QED BY <1>1, <1>3 DEF SecretInv, SecretTypes

LEMMA GetDecryptedStep ==
  ASSUME SecretInv, NEW g \in Gets, Secrets!GetDecrypted(g) PROVE SecretInv'
<1> DEFINE c == [x4[g] EXCEPT !.at = "done"]
<1>1. /\ x4[g] \in SecretCalls /\ x4[g].at = "decrypting" /\ x4[g].id \in Ids
      /\ x4' = [x4 EXCEPT ![g] = c] /\ UNCHANGED <<x1, x5>>
      /\ Secrets!TouchCache(x4[g].id, x4[g].version)
  BY DEF SecretInv, SecretTypes, Secrets!GetDecrypted
<1>2. c \in SecretCalls /\ c.at = "done" /\ x4[g].version \in Int
  BY <1>1 DEF SecretCalls
<1> HIDE DEF c
<1>3. x4[g].id \in x5 \/ x4[g].version = x1[x4[g].id]
  BY <1>1 DEF SecretInv, CallsFresh
<1>4. x2' \in Seq(SecretCopy) /\ CachedOnce(x2') /\ CopiesFresh(x1, x2', x5)
  BY <1>1, <1>2, <1>3, TouchKeeps
<1>5. /\ x4' \in [Gets -> SecretCalls] /\ CallsFresh(x1, x4', x5)
      /\ \A h \in Gets : x4'[h].at = "decrypting" => x4'[h].id \in Ids
  BY <1>1, <1>2, SecretCallMoves
<1> QED BY <1>1, <1>4, <1>5 DEF SecretInv, SecretTypes

\* The invariant is kept by every step of VaultLoader.
LEMMA SecretStep ==
  ASSUME SecretInv, Secrets!Next \/ UNCHANGED <<x1, x2, x3, x4, x5>> PROVE SecretInv'
<1>1. CASE UNCHANGED <<x1, x2, x3, x4, x5>>
  BY <1>1 DEF SecretInv, SecretTypes
<1>2. ASSUME NEW i \in Ids, NEW v \in Secrets!Versions, Secrets!Put(i, v) PROVE SecretInv'
  <2>1. v \in Int
    BY SecretsAssumption DEF Secrets!Versions
  <2> QED BY <1>2, <2>1, ForgetStep DEF Secrets!Put
<1>3. ASSUME NEW i \in Ids, Secrets!Delete(i) PROVE SecretInv'
  BY <1>3, ForgetStep DEF Secrets!Delete
<1>4. CASE Secrets!Next
  BY <1>2, <1>3, <1>4, GetHitStep, GetMissStep, GetDecryptedStep DEF Secrets!Next
<1> QED BY <1>1, <1>4

LEMMA SecretsFresh ==
  SecretInv => Secrets!FreshUnlessRaced
BY DEF SecretInv, CopiesFresh, Secrets!FreshUnlessRaced, Secrets!ToSet

-----------------------------------------------------------------------------
(* Incident bundles.                                                       *)

KeySigns == {None} \cup [id : Ids, pair : Nat]
BundleFiles == Nat \cup {None, Torn}
ManifestFiles == [of : Nat \cup {Torn}, sign : KeySigns] \cup {None, Torn}
KeyRings == [keys : [Ids -> Nat \cup {None}], signer : RootNames \cup {None}]

ExportSteps == {"write", "seal", "list", "prune", "manifest", "sealManifest", "done"}
IsExport(r) ==
  r \in [step : ExportSteps, name : Ids, data : Nat, pass : BOOLEAN, wanted : BOOLEAN,
         sign : KeySigns, listed : {r.listed}, alone : BOOLEAN]
KeyRotations == [step : {"ring", "key"}, id : Ids, pair : Nat, ring : KeyRings]

EvidenceTypes ==
  /\ x1 \in [Ids -> BundleFiles] /\ x2 \in [Ids -> BundleFiles]
  /\ x3 \in [Ids -> ManifestFiles] /\ x4 \in [Ids -> ManifestFiles]
  /\ x6 \in KeyRings \cup {Torn} /\ x7 \in [Ids -> Nat \cup {None, Torn}]
  /\ x8 = [p \in Procs |-> x8[p]]
  /\ \A p \in Procs : x8[p] = Evidence!Idle \/ x8[p] \in KeyRotations \/ IsExport(x8[p])
  /\ x9 \in Nat /\ x10 \in Nat /\ x12 \in [Ids -> SUBSET {"plain", "sealed"}]
  /\ x13 \subseteq Ids

\* A key bundle has the pair under the id, and is signed by a root that is trusted.
InRing(ring, id, pair) == ring.keys[id] = pair /\ ring.signer \in RootNames
Rotates(r) == r.step \in {"ring", "key"}

\* Unless its rotation overlapped another one, a key pair is in the ring and in every ring
\* that a rotation is to write.
Backed(ring, proc, crossed, k, pair) ==
  k \notin crossed =>
    /\ ring # Torn => InRing(ring, k, pair)
    /\ \A p \in Procs : Rotates(proc[p]) => InRing(proc[p].ring, k, pair)

\* Rotations under way at once are marked, each ring to be written has the new pair, and a
\* ring that a rotation without others has written is as it left it.
RotationsApart(ring, proc, crossed) ==
  /\ \A p, q \in Procs : Rotates(proc[p]) /\ Rotates(proc[q]) /\ p # q => proc[p].id \in crossed
  /\ \A p \in Procs : Rotates(proc[p]) => InRing(proc[p].ring, proc[p].id, proc[p].pair)
  /\ \A p \in Procs : proc[p].step = "key" /\ proc[p].id \notin crossed /\ ring # Torn =>
       InRing(ring, proc[p].id, proc[p].pair)

\* Every private key is backed, and so is every key that something is signed with.
KeysBacked(ring, private, proc, crossed) ==
  \A k \in Ids : private[k] \notin {None, Torn} => Backed(ring, proc, crossed, k, private[k])
SignOk(ring, proc, crossed, sign) ==
  sign # None => Backed(ring, proc, crossed, sign.id, sign.pair)
Signed(ring, proc, crossed, manifests) ==
  \A n \in Ids : manifests[n] \notin {None, Torn} => SignOk(ring, proc, crossed, manifests[n].sign)
ExportsSigned(ring, proc, crossed, exporting) ==
  \A p \in Procs : exporting[p].step \in ExportSteps => SignOk(ring, proc, crossed, exporting[p].sign)

\* The files of a name, and what an undisturbed export has written of them at each step.
FilesOf(n, plain, encrypted, manifests, sealedManifests) ==
  [bundle |-> plain[n], sealed |-> encrypted[n], manifest |-> manifests[n],
   sealedManifest |-> sealedManifests[n]]
NoFiles == [bundle |-> None, sealed |-> None, manifest |-> None, sealedManifest |-> None]
BundleWritten(r, file) == file.bundle = r.data /\ (r.pass => file.sealed = r.data)
ManifestWritten(r, file) ==
  BundleWritten(r, file) /\ file.manifest = [of |-> r.data, sign |-> r.sign]
AtStep(r, file) ==
  /\ r.step = "seal" => r.pass /\ file.bundle = r.data
  /\ r.step \in {"list", "prune"} => BundleWritten(r, file)
  /\ r.step = "manifest" => r.wanted /\ (file.bundle # None => BundleWritten(r, file))
  /\ r.step = "sealManifest" => r.wanted /\ r.pass /\ ManifestWritten(r, file)
  /\ r.step = "done" /\ r.wanted =>
       ManifestWritten(r, file) /\ (r.pass => file.sealedManifest = file.manifest)

\* An export that says it is alone is, and has written what it was to write.
AloneIsAlone(proc) ==
  \A p, q \in Procs :
    proc[p].step \in ExportSteps /\ proc[p].alone /\ proc[q].step \in ExportSteps => p = q
AloneHasWritten ==
  \A p \in Procs : x8[p].step \in ExportSteps /\ x8[p].alone =>
    AtStep(x8[p], FilesOf(x8[p].name, x1, x2, x3, x4))

\* The manifests that undisturbed exports left are those of the bundle beside them. An
\* export without a passphrase leaves the encrypted files alone.
PlainKept ==
  \A n \in Ids :
    /\ "plain" \in x12[n] /\ x3[n] # None
    /\ \A p \in Procs : x8[p].step \in ExportSteps => x8[p].name # n
    => x3[n] # Torn /\ x1[n] = x3[n].of /\ x1[n] # None
SealedKept ==
  \A n \in Ids :
    /\ "sealed" \in x12[n] /\ x4[n] # None
    /\ \A p \in Procs : x8[p].step \in ExportSteps /\ x8[p].name = n => x8[p].alone /\ ~ x8[p].pass
    => x4[n] # Torn /\ x2[n] = x4[n].of /\ x2[n] # None

KeysInv ==
  /\ RotationsApart(x6, x8, x13) /\ KeysBacked(x6, x7, x8, x13)
  /\ ExportsSigned(x6, x8, x13, x8) /\ Signed(x6, x8, x13, x3) /\ Signed(x6, x8, x13, x4)
BundlesInv == AloneIsAlone(x8) /\ AloneHasWritten /\ PlainKept /\ SealedKept
EvidenceInv == EvidenceTypes /\ KeysInv /\ BundlesInv

LEMMA EvidenceConstants ==
  /\ None \notin Nat /\ Torn \notin Nat /\ None # Torn /\ Torn \notin KeyRings
  /\ \A m \in [of : Nat \cup {Torn}, sign : KeySigns] : m # None /\ m # Torn
BY EvidenceAssumption DEF KeySigns, KeyRings

LEMMA StepsDiffer ==
  /\ Evidence!Idle.step \notin ExportSteps /\ Evidence!Idle.step \notin {"ring", "key"}
  /\ \A r : IsExport(r) => r.step \in ExportSteps /\ r.step \notin {"ring", "key"}
  /\ \A r \in KeyRotations : r.step \in {"ring", "key"} /\ r.step \notin ExportSteps
BY DEF Evidence!Idle, ExportSteps, IsExport, KeyRotations

LEMMA EvidenceStarts ==
  ASSUME Evidence!Init PROVE EvidenceInv
<1>1. /\ x1 = [n \in Ids |-> None] /\ x2 = x1 /\ x3 = x1 /\ x4 = x1
      /\ x6 = [keys |-> [k \in Ids |-> None], signer |-> None] /\ x7 = [k \in Ids |-> None]
      /\ x8 = [p \in Procs |-> Evidence!Idle] /\ x9 = 0 /\ x10 = 0
      /\ x12 = [n \in Ids |-> {}] /\ x13 = {}
  BY DEF Evidence!Init
<1>2. \A p \in Procs : x8[p] = Evidence!Idle
  BY <1>1
<1>3. EvidenceTypes
  BY <1>1, <1>2 DEF EvidenceTypes, BundleFiles, ManifestFiles, KeyRings
<1>4. \A p \in Procs : x8[p].step \notin ExportSteps /\ x8[p].step \notin {"ring", "key"}
  BY <1>2, StepsDiffer
<1>5. x6 \in KeyRings /\ \A n \in Ids : x3[n] = None /\ x4[n] = None /\ x7[n] = None
  BY <1>1 DEF KeyRings
<1>6. KeysInv
  BY <1>4, <1>5 DEF KeysInv, RotationsApart, Rotates, KeysBacked, ExportsSigned, Signed
<1>8. BundlesInv
  BY <1>4, <1>5 DEF BundlesInv, AloneIsAlone, AloneHasWritten, PlainKept, SealedKept
<1> QED BY <1>3, <1>6, <1>8 DEF EvidenceInv

\* What is backed stays so while the ring stays or is torn and no rotation begins.
LEMMA BackedStays ==
  ASSUME UNCHANGED x13, x6' \in {x6, Torn},
         \A q \in Procs : Rotates(x8'[q]) => x8'[q] = x8[q]
  PROVE  /\ \A k, pair : Backed(x6, x8, x13, k, pair) => Backed(x6', x8', x13', k, pair)
         /\ \A sign : SignOk(x6, x8, x13, sign) => SignOk(x6', x8', x13', sign)
         /\ RotationsApart(x6, x8, x13) => RotationsApart(x6', x8', x13')
<1>1. \A k, pair : Backed(x6, x8, x13, k, pair) => Backed(x6', x8', x13', k, pair)
  BY DEF Backed
<1>2. \A sign : SignOk(x6, x8, x13, sign) => SignOk(x6', x8', x13', sign)
  BY <1>1 DEF SignOk
<1>3. RotationsApart(x6, x8, x13) => RotationsApart(x6', x8', x13')
  BY DEF RotationsApart, Rotates
<1> QED BY <1>1, <1>2, <1>3

\* Steps of an export leave the keys alone and sign with the key they have read.
LEMMA KeysStay ==
  ASSUME EvidenceInv, UNCHANGED <<x6, x7, x13>>,
         \A q \in Procs : x8'[q].step \in {"ring", "key"} => x8'[q] = x8[q],
         ExportsSigned(x6, x8, x13, x8'), Signed(x6, x8, x13, x3'), Signed(x6, x8, x13, x4')
  PROVE  KeysInv'
<1>1. /\ \A k, pair : Backed(x6, x8, x13, k, pair) => Backed(x6', x8', x13', k, pair)
      /\ \A sign : SignOk(x6, x8, x13, sign) => SignOk(x6', x8', x13', sign)
      /\ RotationsApart(x6, x8, x13) => RotationsApart(x6', x8', x13')
  BY BackedStays DEF Rotates
<1>2. RotationsApart(x6', x8', x13')
  BY <1>1 DEF EvidenceInv, KeysInv
<1>3. KeysBacked(x6', x7', x8', x13')
  BY <1>1 DEF EvidenceInv, KeysInv, KeysBacked
<1>4. ExportsSigned(x6', x8', x13', x8')
  BY <1>1 DEF ExportsSigned
<1>5. Signed(x6', x8', x13', x3') /\ Signed(x6', x8', x13', x4')
  BY <1>1 DEF Signed
<1> QED BY <1>2, <1>3, <1>4, <1>5 DEF KeysInv

\* The record of process p is replaced.
LEMMA EvidenceProc ==
  ASSUME EvidenceTypes, NEW p \in Procs, NEW r, x8' = [x8 EXCEPT ![p] = r],
         r = Evidence!Idle \/ IsExport(r) \/ r \in KeyRotations
  PROVE  /\ x8' = [q \in Procs |-> x8'[q]]
         /\ \A q \in Procs : x8'[q] = IF q = p THEN r ELSE x8[q]
         /\ \A q \in Procs :
              x8'[q] = Evidence!Idle \/ IsExport(x8'[q]) \/ x8'[q] \in KeyRotations
<1>1. x8 = [q \in Procs |-> x8[q]]
  BY DEF EvidenceTypes
<1>2. x8' = [q \in Procs |-> x8'[q]] /\ \A q \in Procs : x8'[q] = IF q = p THEN r ELSE x8[q]
  BY <1>1
<1> QED BY <1>2 DEF EvidenceTypes

\* An export that does not end well leaves its name unmarked, and every other name as it is
\* or unmarked.
LEMMA ExportEnds ==
  ASSUME EvidenceInv, NEW p \in Procs, IsExport(x8[p]), x8' = [x8 EXCEPT ![p] = Evidence!Idle],
         x12' \in [Ids -> SUBSET {"plain", "sealed"}], UNCHANGED <<x6, x7, x9, x10, x13>>,
         x1' \in [Ids -> BundleFiles], x2' \in [Ids -> BundleFiles],
         x3' \in [Ids -> ManifestFiles], x4' \in [Ids -> ManifestFiles],
         \A n \in Ids : x12'[n] = {} \/ (/\ n # x8[p].name /\ x12'[n] = x12[n]
                                         /\ x1'[n] = x1[n] /\ x2'[n] = x2[n]
                                         /\ x3'[n] = x3[n] /\ x4'[n] = x4[n]),
         \A n \in Ids : x3'[n] \in {x3[n], None, Torn} /\ x4'[n] \in {x4[n], None, Torn}
  PROVE  EvidenceInv'
<1>1. EvidenceTypes /\ x8[p].step \in ExportSteps /\ x8[p].step \notin {"ring", "key"}
  BY StepsDiffer DEF EvidenceInv
<1>2. /\ x8' = [q \in Procs |-> x8'[q]]
      /\ \A q \in Procs : x8'[q] = IF q = p THEN Evidence!Idle ELSE x8[q]
      /\ \A q \in Procs : x8'[q] = Evidence!Idle \/ IsExport(x8'[q]) \/ x8'[q] \in KeyRotations
  BY <1>1, EvidenceProc
<1>3. EvidenceTypes'
  BY <1>1, <1>2 DEF EvidenceTypes
<1>4. \A q \in Procs : x8'[q].step \in ExportSteps \/ x8'[q].step \in {"ring", "key"} =>
        q # p /\ x8'[q] = x8[q]
  BY <1>2, StepsDiffer
<1>5. KeysInv'
  <2>1. ExportsSigned(x6, x8, x13, x8') /\ Signed(x6, x8, x13, x3') /\ Signed(x6, x8, x13, x4')
    BY <1>4 DEF EvidenceInv, KeysInv, ExportsSigned, Signed
  <2> QED BY <1>4, <2>1, KeysStay
<1>6. AloneIsAlone(x8')
  BY <1>4 DEF EvidenceInv, BundlesInv, AloneIsAlone
<1>7. AloneHasWritten'
  BY <1>1, <1>4 DEF EvidenceInv, BundlesInv, AloneIsAlone, AloneHasWritten
<1>8. \A n \in Ids : \A q \in Procs : x8[q].step \in ExportSteps /\ x8[q].name = n =>
        n = x8[p].name \/ (x8'[q].step \in ExportSteps /\ x8'[q] = x8[q])
  BY <1>2
<1>9. PlainKept'
  BY <1>8 DEF EvidenceInv, BundlesInv, PlainKept
<1>10. SealedKept'
  BY <1>8 DEF EvidenceInv, BundlesInv, SealedKept
<1> QED BY <1>3, <1>5, <1>6, <1>7, <1>9, <1>10 DEF EvidenceInv, BundlesInv

\* Steps of an export: other names keep their files or lose them all, and without a
\* passphrase it leaves the encrypted files.
OthersKept(k) ==
  \A n \in Ids : n # k => \/ FilesOf(n, x1', x2', x3', x4') = FilesOf(n, x1, x2, x3, x4)
                          \/ FilesOf(n, x1', x2', x3', x4') = NoFiles
SealedLeft(r) ==
  r.alone /\ ~ r.pass => \/ x2'[r.name] = x2[r.name] /\ x4'[r.name] = x4[r.name]
                         \/ x4'[r.name] = None
WrittenBy(r) == r.alone => AtStep(r, FilesOf(r.name, x1', x2', x3', x4'))

\* An export goes on with its next step.
LEMMA ExportGoesOn ==
  ASSUME EvidenceInv, NEW p \in Procs, IsExport(x8[p]), NEW r, IsExport(r),
         r.name = x8[p].name, r.pass = x8[p].pass, r.alone = x8[p].alone, r.sign = x8[p].sign,
         x8' = [x8 EXCEPT ![p] = r], UNCHANGED <<x6, x7, x9, x10, x12, x13>>,
         x1' \in [Ids -> BundleFiles], x2' \in [Ids -> BundleFiles],
         x3' \in [Ids -> ManifestFiles], x4' \in [Ids -> ManifestFiles],
         OthersKept(r.name), SealedLeft(r), WrittenBy(r),
         Signed(x6, x8, x13, x3'), Signed(x6, x8, x13, x4')
  PROVE  EvidenceInv'
<1>1. /\ EvidenceTypes /\ x8[p].step \in ExportSteps /\ x8[p].step \notin {"ring", "key"}
      /\ r.step \in ExportSteps /\ r.step \notin {"ring", "key"}
  BY StepsDiffer DEF EvidenceInv
<1>2. /\ x8' = [q \in Procs |-> x8'[q]]
      /\ \A q \in Procs : x8'[q] = IF q = p THEN r ELSE x8[q]
      /\ \A q \in Procs : x8'[q] = Evidence!Idle \/ IsExport(x8'[q]) \/ x8'[q] \in KeyRotations
  BY <1>1, EvidenceProc
<1>3. EvidenceTypes'
  BY <1>1, <1>2 DEF EvidenceTypes
<1>4. \A q \in Procs :
        /\ x8'[q].step \in {"ring", "key"} => x8'[q] = x8[q]
        /\ x8'[q].step \in ExportSteps <=> x8[q].step \in ExportSteps
        /\ x8'[q].name = x8[q].name /\ x8'[q].pass = x8[q].pass
        /\ x8'[q].alone = x8[q].alone /\ x8'[q].sign = x8[q].sign
  BY <1>1, <1>2
<1>5. KeysInv'
  <2>1. ExportsSigned(x6, x8, x13, x8')
    BY <1>4 DEF EvidenceInv, KeysInv, ExportsSigned
  <2> QED BY <1>4, <2>1, KeysStay
<1>6. AloneIsAlone(x8')
  BY <1>4 DEF EvidenceInv, BundlesInv, AloneIsAlone
<1>7. AloneHasWritten'
  <2> SUFFICES ASSUME NEW q \in Procs, x8'[q].step \in ExportSteps, x8'[q].alone
               PROVE  AtStep(x8'[q], FilesOf(x8'[q].name, x1', x2', x3', x4'))
    BY DEF AloneHasWritten
  <2>1. q = p
    BY <1>1, <1>4 DEF EvidenceInv, BundlesInv, AloneIsAlone
  <2> QED BY <1>2, <2>1 DEF WrittenBy
<1>8. \A n \in Ids : n # r.name =>
        \/ x1'[n] = x1[n] /\ x2'[n] = x2[n] /\ x3'[n] = x3[n] /\ x4'[n] = x4[n]
        \/ x3'[n] = None /\ x4'[n] = None
  BY DEF OthersKept, FilesOf, NoFiles
<1>9. PlainKept'
  BY <1>1, <1>2, <1>4, <1>8 DEF EvidenceInv, BundlesInv, PlainKept
<1>10. SealedKept'
  <2> SUFFICES ASSUME NEW n \in Ids, "sealed" \in x12[n], x4'[n] # None,
                      \A q \in Procs : x8'[q].step \in ExportSteps /\ x8'[q].name = n =>
                        x8'[q].alone /\ ~ x8'[q].pass
               PROVE  x4'[n] # Torn /\ x2'[n] = x4'[n].of /\ x2'[n] # None
    BY DEF SealedKept
  <2>1. x2'[n] = x2[n] /\ x4'[n] = x4[n]
    BY <1>1, <1>2, <1>8 DEF SealedLeft
  <2>2. \A q \in Procs : x8[q].step \in ExportSteps /\ x8[q].name = n => x8[q].alone /\ ~ x8[q].pass
    BY <1>4
  <2> QED BY <2>1, <2>2 DEF EvidenceInv, BundlesInv, SealedKept
<1> QED BY <1>3, <1>5, <1>6, <1>7, <1>9, <1>10 DEF EvidenceInv, BundlesInv

\* The record of an export with its next step.
LEMMA NextStep ==
  ASSUME NEW r, IsExport(r), NEW s \in ExportSteps
  PROVE  /\ IsExport([r EXCEPT !.step = s]) /\ [r EXCEPT !.step = s].step = s
         /\ [r EXCEPT !.step = s].name = r.name /\ [r EXCEPT !.step = s].data = r.data
         /\ [r EXCEPT !.step = s].pass = r.pass /\ [r EXCEPT !.step = s].wanted = r.wanted
         /\ [r EXCEPT !.step = s].sign = r.sign /\ [r EXCEPT !.step = s].alone = r.alone
BY DEF IsExport

\* What the invariant says of an export.
LEMMA OfExport ==
  ASSUME EvidenceInv, NEW p \in Procs, x8[p].step \in ExportSteps
  PROVE  /\ IsExport(x8[p]) /\ x8[p].name \in Ids
         /\ x8[p].alone => AtStep(x8[p], FilesOf(x8[p].name, x1, x2, x3, x4))
         /\ SignOk(x6, x8, x13, x8[p].sign)
         /\ Signed(x6, x8, x13, x3) /\ Signed(x6, x8, x13, x4)
<1>1. IsExport(x8[p])
  BY StepsDiffer DEF EvidenceInv, EvidenceTypes
<1>2. x8[p].name \in Ids
  BY <1>1 DEF IsExport
<1> QED BY <1>1, <1>2 DEF EvidenceInv, BundlesInv, AloneHasWritten, KeysInv, ExportsSigned

LEMMA ExportFails ==
  ASSUME EvidenceInv, NEW p \in Procs, IsExport(x8[p]), Evidence!Fails(p)
  PROVE  EvidenceInv'
<1>1. EvidenceTypes /\ x8[p].name \in Ids
  BY DEF EvidenceInv, IsExport
<1>2. /\ x8' = [x8 EXCEPT ![p] = Evidence!Idle] /\ x12' = [x12 EXCEPT ![x8[p].name] = {}]
      /\ UNCHANGED <<x1, x2, x3, x4, x6, x7, x9, x10, x13>>
  BY DEF Evidence!Fails, Evidence!fileVars, Evidence!keyVars
<1>3. /\ x12' \in [Ids -> SUBSET {"plain", "sealed"}]
      /\ \A n \in Ids : x12'[n] = {} \/ (n # x8[p].name /\ x12'[n] = x12[n])
      /\ x1 \in [Ids -> BundleFiles] /\ x2 \in [Ids -> BundleFiles]
      /\ x3 \in [Ids -> ManifestFiles] /\ x4 \in [Ids -> ManifestFiles]
  BY <1>1, <1>2 DEF EvidenceTypes
<1> QED BY <1>2, <1>3, ExportEnds

LEMMA WriteBundleStep ==
  ASSUME EvidenceInv, NEW p \in Procs, Evidence!WriteBundle(p) PROVE EvidenceInv'
<1> DEFINE n == x8[p].name
           s == IF x8[p].pass THEN "seal" ELSE "list"
           r == [x8[p] EXCEPT !.step = s]
<1>1. /\ x8[p].step = "write" /\ x1' = [x1 EXCEPT ![n] = x8[p].data] /\ x8' = [x8 EXCEPT ![p].step = s]
      /\ UNCHANGED <<x2, x3, x4, x6, x7, x9, x10, x12, x13>>
  BY DEF Evidence!WriteBundle, Evidence!GoOn, Evidence!keyVars
<1>2. /\ IsExport(x8[p]) /\ n \in Ids /\ s \in ExportSteps
      /\ Signed(x6, x8, x13, x3) /\ Signed(x6, x8, x13, x4)
  BY <1>1, OfExport DEF ExportSteps
<1>3. /\ EvidenceTypes /\ x8[p].data \in Nat
  BY <1>2 DEF EvidenceInv, IsExport
<1>4. /\ IsExport(r) /\ r.step = s /\ r.name = n /\ r.data = x8[p].data /\ r.pass = x8[p].pass
      /\ r.wanted = x8[p].wanted /\ r.sign = x8[p].sign /\ r.alone = x8[p].alone
  BY <1>2, NextStep
<1>5. x8' = [x8 EXCEPT ![p] = r]
  BY <1>1
<1>6. /\ x1' \in [Ids -> BundleFiles] /\ x1'[n] = x8[p].data
      /\ \A m \in Ids : m # n => x1'[m] = x1[m]
      /\ x2' \in [Ids -> BundleFiles] /\ x3' \in [Ids -> ManifestFiles] /\ x4' \in [Ids -> ManifestFiles]
  BY <1>1, <1>2, <1>3 DEF EvidenceTypes, BundleFiles
<1>7. WrittenBy(r) /\ SealedLeft(r)
  BY <1>1, <1>4, <1>6 DEF WrittenBy, SealedLeft, AtStep, FilesOf, BundleWritten
<1>8. OthersKept(r.name)
  BY <1>1, <1>4, <1>6 DEF OthersKept, FilesOf
<1> HIDE DEF r, s
<1> QED BY <1>1, <1>2, <1>4, <1>5, <1>6, <1>7, <1>8, ExportGoesOn

LEMMA SealStep ==
  ASSUME EvidenceInv, NEW p \in Procs, Evidence!Seal(p) PROVE EvidenceInv'
<1> DEFINE n == x8[p].name
           r == [x8[p] EXCEPT !.step = "list"]
<1>1. x8[p].step = "seal"
  BY DEF Evidence!Seal
<1>2. /\ IsExport(x8[p]) /\ n \in Ids /\ "list" \in ExportSteps
      /\ x8[p].alone => AtStep(x8[p], FilesOf(n, x1, x2, x3, x4))
      /\ Signed(x6, x8, x13, x3) /\ Signed(x6, x8, x13, x4)
  BY <1>1, OfExport DEF ExportSteps
<1>3. CASE Evidence!Fails(p)
  BY <1>2, <1>3, ExportFails
<1>4. CASE ~ Evidence!Fails(p)
  <2>1. /\ x2' = [x2 EXCEPT ![n] = x1[n]] /\ x8' = [x8 EXCEPT ![p].step = "list"]
        /\ UNCHANGED <<x1, x3, x4, x6, x7, x9, x10, x12, x13>>
    BY <1>4 DEF Evidence!Seal, Evidence!GoOn, Evidence!keyVars
  <2>2. EvidenceTypes /\ x8' = [x8 EXCEPT ![p] = r]
    BY <2>1 DEF EvidenceInv
  <2>3. /\ x2' \in [Ids -> BundleFiles] /\ x2'[n] = x1[n]
        /\ \A m \in Ids : m # n => x2'[m] = x2[m]
        /\ x1' \in [Ids -> BundleFiles] /\ x3' \in [Ids -> ManifestFiles] /\ x4' \in [Ids -> ManifestFiles]
    BY <1>2, <2>1, <2>2 DEF EvidenceTypes
  <2>4. /\ IsExport(r) /\ r.step = "list" /\ r.name = n /\ r.data = x8[p].data
        /\ r.pass = x8[p].pass /\ r.wanted = x8[p].wanted /\ r.sign = x8[p].sign
        /\ r.alone = x8[p].alone
    BY <1>2, NextStep
  <2>5. WrittenBy(r) /\ SealedLeft(r)
    BY <1>1, <1>2, <2>1, <2>3, <2>4 DEF WrittenBy, SealedLeft, AtStep, FilesOf, BundleWritten
  <2>6. OthersKept(r.name)
    BY <2>1, <2>3, <2>4 DEF OthersKept, FilesOf
  <2> HIDE DEF r
  <2> QED BY <1>2, <2>1, <2>2, <2>3, <2>4, <2>5, <2>6, ExportGoesOn
<1> QED BY <1>3, <1>4

LEMMA ListStep ==
  ASSUME EvidenceInv, NEW p \in Procs, Evidence!List(p) PROVE EvidenceInv'
<1> DEFINE n == x8[p].name
           listed == Evidence!ToSet(x5)
           r == [x8[p] EXCEPT !.step = "prune", !.listed = listed]
<1>1. /\ x8[p].step = "list" /\ x8' = [x8 EXCEPT ![p].step = "prune", ![p].listed = listed]
      /\ UNCHANGED <<x1, x2, x3, x4, x6, x7, x9, x10, x12, x13>>
  BY DEF Evidence!List, Evidence!fileVars, Evidence!keyVars
<1>2. /\ IsExport(x8[p]) /\ n \in Ids
      /\ x8[p].alone => AtStep(x8[p], FilesOf(n, x1, x2, x3, x4))
      /\ Signed(x6, x8, x13, x3) /\ Signed(x6, x8, x13, x4)
  BY <1>1, OfExport DEF ExportSteps
<1>3. EvidenceTypes /\ x8' = [x8 EXCEPT ![p] = r]
  BY <1>1 DEF EvidenceInv
<1> HIDE DEF listed
<1>4. /\ IsExport(r) /\ r.step = "prune" /\ r.name = n /\ r.data = x8[p].data
      /\ r.pass = x8[p].pass /\ r.wanted = x8[p].wanted /\ r.sign = x8[p].sign
      /\ r.alone = x8[p].alone
  BY <1>2 DEF IsExport, ExportSteps
<1>5. /\ x1' \in [Ids -> BundleFiles] /\ x2' \in [Ids -> BundleFiles]
      /\ x3' \in [Ids -> ManifestFiles] /\ x4' \in [Ids -> ManifestFiles]
  BY <1>1, <1>3 DEF EvidenceTypes
<1>6. WrittenBy(r) /\ SealedLeft(r)
  BY <1>1, <1>2, <1>4 DEF WrittenBy, SealedLeft, AtStep, FilesOf, BundleWritten
<1>7. OthersKept(r.name)
  BY <1>1, <1>4 DEF OthersKept, FilesOf
<1> HIDE DEF r
<1> QED BY <1>1, <1>2, <1>3, <1>4, <1>5, <1>6, <1>7, ExportGoesOn

LEMMA PruneStep ==
  ASSUME EvidenceInv, NEW p \in Procs, NEW kept \in 1..KeptBundles, Evidence!Prune(p, kept)
  PROVE  EvidenceInv'
<1> DEFINE n == x8[p].name
           gone == Evidence!TooMany(x8[p].listed, kept)
           s == IF x8[p].wanted THEN "manifest" ELSE "done"
           r == [x8[p] EXCEPT !.step = s]
<1>1. x8[p].step = "prune"
  BY DEF Evidence!Prune
<1>2. /\ IsExport(x8[p]) /\ n \in Ids /\ s \in ExportSteps
      /\ x8[p].alone => AtStep(x8[p], FilesOf(n, x1, x2, x3, x4))
      /\ Signed(x6, x8, x13, x3) /\ Signed(x6, x8, x13, x4)
  BY <1>1, OfExport DEF ExportSteps
<1>3. CASE Evidence!Fails(p)
  BY <1>2, <1>3, ExportFails
<1>4. CASE ~ Evidence!Fails(p)
  <2>1. /\ x1' = Evidence!Without(x1, gone) /\ x2' = Evidence!Without(x2, gone)
        /\ x3' = Evidence!Without(x3, gone) /\ x4' = Evidence!Without(x4, gone)
        /\ x8' = [x8 EXCEPT ![p].step = s]
        /\ UNCHANGED <<x6, x7, x9, x10, x12, x13>>
    BY <1>4 DEF Evidence!Prune, Evidence!AfterPrune, Evidence!GoOn, Evidence!keyVars,
                Evidence!ManifestsWithout
  <2> HIDE DEF gone
  <2>2. EvidenceTypes /\ x8' = [x8 EXCEPT ![p] = r]
    BY <2>1 DEF EvidenceInv
  <2>3. \A m \in Ids :
          IF m \in gone THEN x1'[m] = None /\ x2'[m] = None /\ x3'[m] = None /\ x4'[m] = None
          ELSE x1'[m] = x1[m] /\ x2'[m] = x2[m] /\ x3'[m] = x3[m] /\ x4'[m] = x4[m]
    BY <2>1 DEF Evidence!Without
  <2>4. /\ x1' \in [Ids -> BundleFiles] /\ x2' \in [Ids -> BundleFiles]
        /\ x3' \in [Ids -> ManifestFiles] /\ x4' \in [Ids -> ManifestFiles]
    BY <2>1, <2>2 DEF EvidenceTypes, Evidence!Without, BundleFiles, ManifestFiles
  <2>5. /\ IsExport(r) /\ r.step = s /\ r.name = n /\ r.data = x8[p].data
        /\ r.pass = x8[p].pass /\ r.wanted = x8[p].wanted /\ r.sign = x8[p].sign
        /\ r.alone = x8[p].alone
    BY <1>2, NextStep
  <2>6. WrittenBy(r)
    BY <1>1, <1>2, <2>3, <2>5 DEF WrittenBy, AtStep, FilesOf, BundleWritten
  <2>7. SealedLeft(r)
    BY <1>2, <2>3, <2>5 DEF SealedLeft
  <2>8. OthersKept(r.name)
    BY <2>3 DEF OthersKept, FilesOf, NoFiles
  <2>9. Signed(x6, x8, x13, x3') /\ Signed(x6, x8, x13, x4')
    BY <1>2, <2>3 DEF Signed
  <2> HIDE DEF r, s
  <2> QED BY <1>2, <2>1, <2>2, <2>4, <2>5, <2>6, <2>7, <2>8, <2>9, ExportGoesOn
<1> QED BY <1>3, <1>4

LEMMA WriteManifestStep ==
  ASSUME EvidenceInv, NEW p \in Procs, Evidence!WriteManifest(p) PROVE EvidenceInv'
<1> DEFINE n == x8[p].name
           s == IF x8[p].pass THEN "sealManifest" ELSE "done"
           r == [x8[p] EXCEPT !.step = s]
           written == [of |-> x1[n], sign |-> x8[p].sign]
<1>1. x8[p].step = "manifest"
  BY DEF Evidence!WriteManifest
<1>2. /\ IsExport(x8[p]) /\ n \in Ids /\ s \in ExportSteps
      /\ x8[p].alone => AtStep(x8[p], FilesOf(n, x1, x2, x3, x4))
      /\ Signed(x6, x8, x13, x3) /\ Signed(x6, x8, x13, x4) /\ SignOk(x6, x8, x13, x8[p].sign)
  BY <1>1, OfExport DEF ExportSteps
<1>3. CASE Evidence!Fails(p)
  BY <1>2, <1>3, ExportFails
<1>4. CASE ~ Evidence!Fails(p)
  <2>1. /\ x1[n] # None /\ x3' = [x3 EXCEPT ![n] = written]
        /\ x8' = [x8 EXCEPT ![p].step = s]
        /\ UNCHANGED <<x1, x2, x4, x6, x7, x9, x10, x12, x13>>
    BY <1>4 DEF Evidence!WriteManifest, Evidence!GoOn, Evidence!keyVars
  <2>2. EvidenceTypes /\ x8' = [x8 EXCEPT ![p] = r]
    BY <2>1 DEF EvidenceInv
  <2>3. /\ written \in ManifestFiles /\ written.of = x1[n] /\ written.sign = x8[p].sign
    BY <1>2, <2>1, <2>2 DEF EvidenceTypes, BundleFiles, ManifestFiles, IsExport
  <2> HIDE DEF written
  <2>4. /\ x3' \in [Ids -> ManifestFiles] /\ x3'[n] = written
        /\ \A m \in Ids : m # n => x3'[m] = x3[m]
        /\ x1' \in [Ids -> BundleFiles] /\ x2' \in [Ids -> BundleFiles] /\ x4' \in [Ids -> ManifestFiles]
    BY <1>2, <2>1, <2>2, <2>3 DEF EvidenceTypes
  <2>5. /\ IsExport(r) /\ r.step = s /\ r.name = n /\ r.data = x8[p].data
        /\ r.pass = x8[p].pass /\ r.wanted = x8[p].wanted /\ r.sign = x8[p].sign
        /\ r.alone = x8[p].alone
    BY <1>2, NextStep
  <2>6. WrittenBy(r)
    <3>1. x8[p].alone => x8[p].wanted /\ BundleWritten(x8[p], FilesOf(n, x1, x2, x3, x4))
      BY <1>1, <1>2, <2>1 DEF AtStep, FilesOf
    <3>2. x8[p].alone => ManifestWritten(r, FilesOf(n, x1', x2', x3', x4'))
      BY <2>1, <2>4, <2>5, <3>1 DEF ManifestWritten, BundleWritten, FilesOf, written
    <3> QED BY <2>5, <3>1, <3>2 DEF WrittenBy, AtStep
  <2>7. SealedLeft(r) /\ OthersKept(r.name)
    BY <1>2, <2>1, <2>4, <2>5 DEF SealedLeft, OthersKept, FilesOf
  <2>8. Signed(x6, x8, x13, x3') /\ Signed(x6, x8, x13, x4')
    BY <1>2, <2>1, <2>3, <2>4 DEF Signed
  <2> HIDE DEF r, s
  <2> QED BY <1>2, <2>1, <2>2, <2>4, <2>5, <2>6, <2>7, <2>8, ExportGoesOn
<1> QED BY <1>3, <1>4

LEMMA SealManifestStep ==
  ASSUME EvidenceInv, NEW p \in Procs, Evidence!SealManifest(p) PROVE EvidenceInv'
<1> DEFINE n == x8[p].name
           r == [x8[p] EXCEPT !.step = "done"]
<1>1. x8[p].step = "sealManifest"
  BY DEF Evidence!SealManifest
<1>2. /\ IsExport(x8[p]) /\ n \in Ids /\ "done" \in ExportSteps
      /\ x8[p].alone => AtStep(x8[p], FilesOf(n, x1, x2, x3, x4))
      /\ Signed(x6, x8, x13, x3) /\ Signed(x6, x8, x13, x4)
  BY <1>1, OfExport DEF ExportSteps
<1>3. CASE Evidence!Fails(p)
  BY <1>2, <1>3, ExportFails
<1>4. CASE ~ Evidence!Fails(p)
  <2>1. /\ x4' = [x4 EXCEPT ![n] = x3[n]] /\ x8' = [x8 EXCEPT ![p].step = "done"]
        /\ UNCHANGED <<x1, x2, x3, x6, x7, x9, x10, x12, x13>>
    BY <1>4 DEF Evidence!SealManifest, Evidence!GoOn, Evidence!keyVars
  <2>2. EvidenceTypes /\ x8' = [x8 EXCEPT ![p] = r]
    BY <2>1 DEF EvidenceInv
  <2>3. /\ x4' \in [Ids -> ManifestFiles] /\ x4'[n] = x3[n]
        /\ \A m \in Ids : m # n => x4'[m] = x4[m]
        /\ x1' \in [Ids -> BundleFiles] /\ x2' \in [Ids -> BundleFiles] /\ x3' \in [Ids -> ManifestFiles]
    BY <1>2, <2>1, <2>2 DEF EvidenceTypes
  <2>4. /\ IsExport(r) /\ r.step = "done" /\ r.name = n /\ r.data = x8[p].data
        /\ r.pass = x8[p].pass /\ r.wanted = x8[p].wanted /\ r.sign = x8[p].sign
        /\ r.alone = x8[p].alone
    BY <1>2, NextStep
  <2>5. WrittenBy(r) /\ SealedLeft(r)
    BY <1>1, <1>2, <2>1, <2>3, <2>4
    DEF WrittenBy, SealedLeft, AtStep, FilesOf, BundleWritten, ManifestWritten
  <2>6. OthersKept(r.name)
    BY <2>1, <2>3, <2>4 DEF OthersKept, FilesOf
  <2>7. Signed(x6, x8, x13, x3') /\ Signed(x6, x8, x13, x4')
    BY <1>2, <2>1, <2>3 DEF Signed
  <2> HIDE DEF r
  <2> QED BY <1>2, <2>1, <2>2, <2>3, <2>4, <2>5, <2>6, <2>7, ExportGoesOn
<1> QED BY <1>3, <1>4

LEMMA DoneStep ==
  ASSUME EvidenceInv, NEW p \in Procs, Evidence!Done(p) PROVE EvidenceInv'
<1> DEFINE n == x8[p].name
           r == x8[p]
           marks == IF ~ r.alone THEN {}
                    ELSE IF r.wanted THEN x12[n] \cup Evidence!Written(p)
                    ELSE x12[n] \ Evidence!Written(p)
<1>1. /\ r.step = "done" /\ x12' = [x12 EXCEPT ![n] = marks]
      /\ x8' = [x8 EXCEPT ![p] = Evidence!Idle]
      /\ UNCHANGED <<x1, x2, x3, x4, x6, x7, x9, x10, x13>>
  BY DEF Evidence!Done, Evidence!fileVars, Evidence!keyVars
<1>2. /\ IsExport(r) /\ n \in Ids /\ r.step \in ExportSteps
      /\ r.alone => AtStep(r, FilesOf(n, x1, x2, x3, x4))
      /\ Signed(x6, x8, x13, x3) /\ Signed(x6, x8, x13, x4)
  BY <1>1, OfExport DEF ExportSteps
<1>3. /\ EvidenceTypes /\ r.data \in Nat /\ r.pass \in BOOLEAN
      /\ [of |-> r.data, sign |-> r.sign] \in [of : Nat \cup {Torn}, sign : KeySigns]
  BY <1>2 DEF EvidenceInv, IsExport
<1>4. Evidence!Written(p) = IF r.pass THEN {"plain", "sealed"} ELSE {"plain"}
  BY DEF Evidence!Written
<1>5. marks \in SUBSET {"plain", "sealed"}
  BY <1>2, <1>3, <1>4 DEF EvidenceTypes
<1>6. r.alone /\ r.wanted =>
        /\ x1[n] = r.data /\ x3[n] = [of |-> r.data, sign |-> r.sign]
        /\ r.pass => x2[n] = r.data /\ x4[n] = x3[n]
  BY <1>1, <1>2 DEF AtStep, ManifestWritten, BundleWritten, FilesOf
<1>7. r.alone /\ r.wanted =>
        /\ x3[n] # Torn /\ x1[n] = x3[n].of /\ x1[n] # None
        /\ r.pass => x4[n] # Torn /\ x2[n] = x4[n].of /\ x2[n] # None
  <2>1. x3[n] = [of |-> r.data, sign |-> r.sign] => x3[n] # Torn /\ x3[n].of = r.data /\ r.data # None
    BY <1>3, EvidenceConstants
  <2> QED BY <1>6, <2>1
<1>8. /\ x8' = [q \in Procs |-> x8'[q]]
      /\ \A q \in Procs : x8'[q] = IF q = p THEN Evidence!Idle ELSE x8[q]
      /\ \A q \in Procs : x8'[q] = Evidence!Idle \/ IsExport(x8'[q]) \/ x8'[q] \in KeyRotations
  BY <1>1, <1>3, EvidenceProc
<1>9. x12' \in [Ids -> SUBSET {"plain", "sealed"}] /\ x12'[n] = marks
      /\ \A m \in Ids : m # n => x12'[m] = x12[m]
  BY <1>1, <1>2, <1>3, <1>5 DEF EvidenceTypes
<1>10. EvidenceTypes'
  BY <1>1, <1>3, <1>8, <1>9 DEF EvidenceTypes
<1>11. \A q \in Procs : x8'[q].step \in ExportSteps \/ x8'[q].step \in {"ring", "key"} =>
         q # p /\ x8'[q] = x8[q]
  BY <1>8, StepsDiffer
<1>12. KeysInv'
  <2>1. ExportsSigned(x6, x8, x13, x8') /\ Signed(x6, x8, x13, x3') /\ Signed(x6, x8, x13, x4')
    BY <1>1, <1>11 DEF EvidenceInv, KeysInv, ExportsSigned
  <2> QED BY <1>1, <1>11, <2>1, KeysStay
<1>13. AloneIsAlone(x8')
  BY <1>11 DEF EvidenceInv, BundlesInv, AloneIsAlone
<1>14. AloneHasWritten'
  BY <1>1, <1>2, <1>11 DEF EvidenceInv, BundlesInv, AloneIsAlone, AloneHasWritten
<1>15. \A q \in Procs : x8[q].step \in ExportSteps => q = p \/ (x8'[q].step \in ExportSteps /\ x8'[q] = x8[q])
  BY <1>8
<1>16. \A q \in Procs : r.alone /\ x8[q].step \in ExportSteps => q = p
  BY <1>2 DEF EvidenceInv, BundlesInv, AloneIsAlone
<1>17. PlainKept'
  <2> SUFFICES ASSUME NEW m \in Ids, "plain" \in x12'[m], x3[m] # None,
                      \A q \in Procs : x8'[q].step \in ExportSteps => x8'[q].name # m
               PROVE  x3[m] # Torn /\ x1[m] = x3[m].of /\ x1[m] # None
    BY <1>1 DEF PlainKept
  <2>1. CASE m = n
    <3>1. r.alone /\ r.wanted
      BY <1>4, <1>9, <2>1
    <3> QED BY <1>7, <2>1, <3>1
  <2>2. CASE m # n
    BY <1>9, <1>15, <2>2 DEF EvidenceInv, BundlesInv, PlainKept
  <2> QED BY <2>1, <2>2
<1>18. SealedKept'
  <2> SUFFICES ASSUME NEW m \in Ids, "sealed" \in x12'[m], x4[m] # None,
                      \A q \in Procs : x8'[q].step \in ExportSteps /\ x8'[q].name = m =>
                        x8'[q].alone /\ ~ x8'[q].pass
               PROVE  x4[m] # Torn /\ x2[m] = x4[m].of /\ x2[m] # None
    BY <1>1 DEF SealedKept
  <2>1. CASE m = n /\ r.pass
    <3>1. r.alone /\ r.wanted
      BY <1>4, <1>9, <2>1
    <3> QED BY <1>7, <2>1, <3>1
  <2>2. CASE m = n /\ ~ r.pass
    <3>1. r.alone /\ "sealed" \in x12[m]
      BY <1>4, <1>9, <2>2
    <3>2. \A q \in Procs : x8[q].step \in ExportSteps => x8[q].alone /\ ~ x8[q].pass
      BY <1>16, <2>2, <3>1
    <3> QED BY <3>1, <3>2 DEF EvidenceInv, BundlesInv, SealedKept
  <2>3. CASE m # n
    BY <1>9, <1>15, <2>3 DEF EvidenceInv, BundlesInv, SealedKept
  <2> QED BY <2>1, <2>2, <2>3
<1> QED BY <1>10, <1>12, <1>13, <1>14, <1>17, <1>18 DEF EvidenceInv, BundlesInv

LEMMA KillExportStep ==
  ASSUME EvidenceInv, NEW p \in Procs, Evidence!KillExport(p) PROVE EvidenceInv'
<1> DEFINE n == x8[p].name
<1>1. /\ x8[p].step \in ExportSteps /\ x8' = [x8 EXCEPT ![p] = Evidence!Idle]
      /\ UNCHANGED <<x6, x7, x9, x10, x13>>
  BY DEF Evidence!KillExport, Evidence!Exporting, ExportSteps, Evidence!keyVars
<1>2. IsExport(x8[p]) /\ n \in Ids /\ EvidenceTypes
  BY <1>1, OfExport DEF EvidenceInv
<1>3. CASE x8[p].step = "write" /\ x1' = [x1 EXCEPT ![n] = Torn] /\ x12' = [x12 EXCEPT ![n] = {}]
           /\ UNCHANGED <<x2, x3, x4>>
  <2>1. /\ x12' \in [Ids -> SUBSET {"plain", "sealed"}]
        /\ x1' \in [Ids -> BundleFiles] /\ x2' \in [Ids -> BundleFiles]
        /\ x3' \in [Ids -> ManifestFiles] /\ x4' \in [Ids -> ManifestFiles]
        /\ \A m \in Ids : x12'[m] = {} \/ (m # n /\ x12'[m] = x12[m] /\ x1'[m] = x1[m])
    BY <1>2, <1>3 DEF EvidenceTypes, BundleFiles
  <2> QED BY <1>1, <1>2, <1>3, <2>1, ExportEnds
<1>4. CASE x3' = [x3 EXCEPT ![n] = Torn] /\ x12' = [x12 EXCEPT ![n] = {}] /\ UNCHANGED <<x1, x2, x4>>
  <2>1. /\ x12' \in [Ids -> SUBSET {"plain", "sealed"}]
        /\ x1' \in [Ids -> BundleFiles] /\ x2' \in [Ids -> BundleFiles]
        /\ x3' \in [Ids -> ManifestFiles] /\ x4' \in [Ids -> ManifestFiles]
        /\ \A m \in Ids : x12'[m] = {} \/ (m # n /\ x12'[m] = x12[m] /\ x3'[m] = x3[m])
        /\ \A m \in Ids : x3'[m] \in {x3[m], None, Torn}
    BY <1>2, <1>4 DEF EvidenceTypes, ManifestFiles
  <2> QED BY <1>1, <1>2, <1>4, <2>1, ExportEnds
<1>5. ASSUME NEW k, x1' = Evidence!Without(x1, {k}), x12' = [x12 EXCEPT ![n] = {}, ![k] = {}],
             UNCHANGED <<x2, x3, x4>>
      PROVE  EvidenceInv'
  <2>1. /\ x1' \in [Ids -> BundleFiles] /\ \A m \in Ids : m # k => x1'[m] = x1[m]
    BY <1>2, <1>5 DEF EvidenceTypes, BundleFiles, Evidence!Without
  <2>2. /\ x12' \in [Ids -> SUBSET {"plain", "sealed"}]
        /\ \A m \in Ids : m # n /\ m # k => x12'[m] = x12[m]
        /\ \A m \in Ids : m = n \/ m = k => x12'[m] = {}
    BY <1>2, <1>5 DEF EvidenceTypes
  <2>3. /\ x2' \in [Ids -> BundleFiles] /\ x3' \in [Ids -> ManifestFiles] /\ x4' \in [Ids -> ManifestFiles]
    BY <1>2, <1>5 DEF EvidenceTypes
  <2>4. \A m \in Ids : x12'[m] = {} \/ (/\ m # n /\ x12'[m] = x12[m]
                                        /\ x1'[m] = x1[m] /\ x2'[m] = x2[m]
                                        /\ x3'[m] = x3[m] /\ x4'[m] = x4[m])
    BY <1>5, <2>1, <2>2
  <2> QED BY <1>1, <1>2, <1>5, <2>1, <2>2, <2>3, <2>4, ExportEnds
<1>6. CASE x12' = [x12 EXCEPT ![n] = {}] /\ UNCHANGED <<x1, x2, x3, x4>>
  <2>1. /\ x12' \in [Ids -> SUBSET {"plain", "sealed"}]
        /\ x1' \in [Ids -> BundleFiles] /\ x2' \in [Ids -> BundleFiles]
        /\ x3' \in [Ids -> ManifestFiles] /\ x4' \in [Ids -> ManifestFiles]
        /\ \A m \in Ids : x12'[m] = {} \/ (m # n /\ x12'[m] = x12[m])
    BY <1>2, <1>6 DEF EvidenceTypes
  <2> QED BY <1>1, <1>2, <1>6, <2>1, ExportEnds
<1> QED BY <1>3, <1>4, <1>5, <1>6 DEF Evidence!KillExport, Evidence!fileVars

LEMMA ExportStep ==
  ASSUME EvidenceInv, NEW p \in Procs, NEW n \in Ids, NEW pass \in BOOLEAN, NEW wanted \in BOOLEAN,
         NEW key \in Ids \cup {None}, Evidence!Export(p, n, pass, wanted, key)
  PROVE  EvidenceInv'
<1> DEFINE sign == IF key = None THEN None ELSE [id |-> key, pair |-> x7[key]]
           r == [step |-> "write", name |-> n, data |-> x9 + 1, pass |-> pass,
                 wanted |-> wanted \/ key # None, sign |-> sign, listed |-> {},
                 alone |-> \A q \in Procs : ~ Evidence!Exporting(q)]
           s(q) == [x8[q] EXCEPT !.alone = FALSE]
<1>1. /\ x8[p] = Evidence!Idle /\ (key # None => x7[key] \notin {None, Torn}) /\ x9' = x9 + 1
      /\ x8' = [q \in Procs |-> IF q = p THEN r
                                ELSE IF Evidence!Exporting(q) THEN s(q) ELSE x8[q]]
      /\ UNCHANGED <<x1, x2, x3, x4, x6, x7, x10, x12, x13>>
  BY DEF Evidence!Export, Evidence!fileVars, Evidence!keyVars
<1>2. EvidenceTypes /\ \A q \in Procs : Evidence!Exporting(q) <=> x8[q].step \in ExportSteps
  BY DEF EvidenceInv, Evidence!Exporting, ExportSteps
<1>3. sign \in KeySigns
  BY <1>1, <1>2 DEF EvidenceTypes, KeySigns
<1>4. SignOk(x6, x8, x13, sign)
  BY <1>1 DEF EvidenceInv, KeysInv, KeysBacked, SignOk
<1> HIDE DEF sign
<1>5. /\ IsExport(r) /\ r.step = "write" /\ r.sign = sign /\ r.name = n
      /\ r.alone <=> \A q \in Procs : x8[q].step \notin ExportSteps
  BY <1>2, <1>3 DEF IsExport, ExportSteps, EvidenceTypes
<1>6. \A q \in Procs : x8[q].step \in ExportSteps =>
        /\ IsExport(s(q)) /\ s(q).step = x8[q].step /\ s(q).name = x8[q].name
        /\ s(q).sign = x8[q].sign /\ ~ s(q).alone
  <2> SUFFICES ASSUME NEW q \in Procs, x8[q].step \in ExportSteps
               PROVE  /\ IsExport(s(q)) /\ s(q).step = x8[q].step /\ s(q).name = x8[q].name
                      /\ s(q).sign = x8[q].sign /\ ~ s(q).alone
    OBVIOUS
  <2>1. IsExport(x8[q])
    BY OfExport
  <2> QED BY <2>1 DEF IsExport
<1> HIDE DEF r, s
<1>7. /\ x8' = [q \in Procs |-> x8'[q]] /\ x8'[p] = r
      /\ \A q \in Procs : q # p => x8'[q] = IF x8[q].step \in ExportSteps THEN s(q) ELSE x8[q]
  BY <1>1, <1>2
<1>8. \A q \in Procs : x8'[q] = Evidence!Idle \/ IsExport(x8'[q]) \/ x8'[q] \in KeyRotations
  BY <1>2, <1>5, <1>6, <1>7 DEF EvidenceTypes
<1>9. EvidenceTypes'
  BY <1>1, <1>2, <1>7, <1>8 DEF EvidenceTypes
<1>10. x8[p].step \notin ExportSteps
  BY <1>1, StepsDiffer
<1>11. \A q \in Procs : q # p /\ x8[q].step \in ExportSteps =>
         /\ x8'[q].step \in ExportSteps /\ x8'[q].name = x8[q].name
         /\ x8'[q].sign = x8[q].sign /\ ~ x8'[q].alone
  BY <1>6, <1>7
<1>12. \A q \in Procs : q # p /\ x8[q].step \notin ExportSteps => x8'[q] = x8[q]
  BY <1>7
<1>13. r.step \in ExportSteps /\ r.step \notin {"ring", "key"}
  BY <1>5 DEF ExportSteps
<1>14. KeysInv'
  <2>1. ExportsSigned(x6, x8, x13, x8') /\ Signed(x6, x8, x13, x3') /\ Signed(x6, x8, x13, x4')
    BY <1>1, <1>4, <1>5, <1>7, <1>11, <1>12 DEF EvidenceInv, KeysInv, ExportsSigned
  <2>2. \A q \in Procs : x8'[q].step \in {"ring", "key"} => x8'[q] = x8[q]
    BY <1>6, <1>7, <1>13 DEF ExportSteps
  <2> QED BY <1>1, <2>1, <2>2, KeysStay
<1>15. AloneIsAlone(x8')
  BY <1>5, <1>7, <1>10, <1>11, <1>12 DEF AloneIsAlone
<1>16. AloneHasWritten'
  <2> SUFFICES ASSUME NEW q \in Procs, x8'[q].step \in ExportSteps, x8'[q].alone
               PROVE  AtStep(x8'[q], FilesOf(x8'[q].name, x1', x2', x3', x4'))
    BY DEF AloneHasWritten
  <2>1. q = p
    BY <1>7, <1>11, <1>12
  <2> QED BY <1>5, <1>7, <2>1 DEF AtStep
<1>17. PlainKept'
  BY <1>1, <1>10, <1>11 DEF EvidenceInv, BundlesInv, PlainKept
<1>18. SealedKept'
  BY <1>1, <1>10, <1>11 DEF EvidenceInv, BundlesInv, SealedKept
<1> QED BY <1>9, <1>14, <1>15, <1>16, <1>17, <1>18 DEF EvidenceInv, BundlesInv

\* A step of a rotation leaves the bundles and their manifests alone.
LEMMA BundlesStay ==
  ASSUME EvidenceInv, NEW p \in Procs, x8[p].step \notin ExportSteps, NEW r,
         r = Evidence!Idle \/ r \in KeyRotations, x8' = [x8 EXCEPT ![p] = r],
         UNCHANGED <<x1, x2, x3, x4, x9, x12>>
  PROVE  /\ BundlesInv'
         /\ x8' = [q \in Procs |-> x8'[q]]
         /\ \A q \in Procs : x8'[q] = IF q = p THEN r ELSE x8[q]
         /\ \A q \in Procs : x8'[q] = Evidence!Idle \/ IsExport(x8'[q]) \/ x8'[q] \in KeyRotations
         /\ \A q \in Procs : x8'[q].step \in ExportSteps => x8'[q] = x8[q]
<1>1. /\ x8' = [q \in Procs |-> x8'[q]]
      /\ \A q \in Procs : x8'[q] = IF q = p THEN r ELSE x8[q]
      /\ \A q \in Procs : x8'[q] = Evidence!Idle \/ IsExport(x8'[q]) \/ x8'[q] \in KeyRotations
  BY EvidenceProc DEF EvidenceInv
<1>2. r.step \notin ExportSteps
  BY StepsDiffer
<1>3. /\ \A q \in Procs : x8'[q].step \in ExportSteps => x8'[q] = x8[q]
      /\ \A q \in Procs : x8[q].step \in ExportSteps => x8'[q] = x8[q]
  BY <1>1, <1>2
<1>4. AloneIsAlone(x8')
  BY <1>3 DEF EvidenceInv, BundlesInv, AloneIsAlone
<1>5. AloneHasWritten'
  BY <1>3 DEF EvidenceInv, BundlesInv, AloneHasWritten
<1>6. PlainKept' /\ SealedKept'
  BY <1>3 DEF EvidenceInv, BundlesInv, PlainKept, SealedKept
<1> QED BY <1>1, <1>3, <1>4, <1>5, <1>6 DEF BundlesInv

\* A step of a rotation that keeps what is backed keeps the signatures.
LEMMA KeysFollow ==
  ASSUME EvidenceInv, UNCHANGED <<x3, x4, x7>>, RotationsApart(x6', x8', x13'),
         \A q \in Procs : x8'[q].step \in ExportSteps => x8'[q] = x8[q],
         \A m \in Ids, pair \in Nat : Backed(x6, x8, x13, m, pair) => Backed(x6', x8', x13', m, pair)
  PROVE  KeysInv'
<1>1. EvidenceTypes /\ KeysInv
  BY DEF EvidenceInv
<1>2. KeysBacked(x6', x7', x8', x13')
  BY <1>1 DEF EvidenceTypes, KeysInv, KeysBacked
<1>3. \A sign \in KeySigns : SignOk(x6, x8, x13, sign) => SignOk(x6', x8', x13', sign)
  BY DEF SignOk, KeySigns
<1>4. \A m \in Ids : x3[m] \in ManifestFiles /\ x4[m] \in ManifestFiles
  BY <1>1 DEF EvidenceTypes
<1>5. \A m \in ManifestFiles : m \notin {None, Torn} => m.sign \in KeySigns
  BY DEF ManifestFiles
<1>6. Signed(x6', x8', x13', x3') /\ Signed(x6', x8', x13', x4')
  BY <1>1, <1>3, <1>4, <1>5 DEF KeysInv, Signed
<1>7. \A q \in Procs : x8[q].step \in ExportSteps => x8[q].sign \in KeySigns
  BY OfExport DEF IsExport
<1>8. ExportsSigned(x6', x8', x13', x8')
  BY <1>1, <1>3, <1>7 DEF KeysInv, ExportsSigned
<1> QED BY <1>2, <1>6, <1>8 DEF KeysInv

LEMMA RotateStep ==
  ASSUME EvidenceInv, NEW p \in Procs, NEW k \in Ids, NEW root \in RootNames,
         Evidence!Rotate(p, k, root)
  PROVE  EvidenceInv'
<1> DEFINE next == [keys |-> [x6.keys EXCEPT ![k] = x10 + 1], signer |-> root]
           r == [step |-> "ring", id |-> k, pair |-> x10 + 1, ring |-> next]
<1>1. /\ x8[p] = Evidence!Idle /\ x6 # Torn /\ x6.keys[k] = None /\ x10' = x10 + 1
      /\ x8' = [x8 EXCEPT ![p] = r]
      /\ UNCHANGED <<x1, x2, x3, x4, x6, x7, x9, x12>>
  BY DEF Evidence!Rotate, Evidence!NextKeys, Evidence!fileVars
<1> DEFINE others == {x8[q].id : q \in {o \in Procs : Evidence!Rotating(o)}}
<1>9. x13' = IF others = {} THEN x13 ELSE x13 \cup others \cup {k}
  BY DEF Evidence!Rotate
<1>10. \A q \in Procs : Rotates(x8[q]) => others # {} /\ x8[q].id \in others
  BY DEF Rotates, Evidence!Rotating
<1>11. others \subseteq Ids
  <2>1. \A q \in Procs : Evidence!Rotating(q) => x8[q].id \in Ids
    BY StepsDiffer DEF EvidenceInv, EvidenceTypes, ExportSteps, Evidence!Rotating, KeyRotations
  <2> QED BY <2>1
<1> HIDE DEF others
<1>12. /\ x13 \subseteq x13' /\ \A q \in Procs : Rotates(x8[q]) => x8[q].id \in x13' /\ k \in x13'
       /\ x13' \subseteq Ids
  BY <1>9, <1>10, <1>11 DEF EvidenceInv, EvidenceTypes
<1>2. EvidenceTypes /\ x6 \in KeyRings /\ x10 + 1 \in Nat
  BY <1>1 DEF EvidenceInv, EvidenceTypes
<1>3. next \in KeyRings /\ next.keys = [x6.keys EXCEPT ![k] = x10 + 1] /\ next.signer = root
  BY <1>2 DEF KeyRings
<1> HIDE DEF next
<1>4. r \in KeyRotations /\ r.step = "ring" /\ r.id = k /\ r.pair = x10 + 1 /\ r.ring = next
  BY <1>2, <1>3 DEF KeyRotations
<1> HIDE DEF r
<1>5. x8[p].step \notin ExportSteps /\ x8[p].step \notin {"ring", "key"}
  BY <1>1, StepsDiffer
<1>6. /\ BundlesInv' /\ x8' = [q \in Procs |-> x8'[q]]
      /\ \A q \in Procs : x8'[q] = IF q = p THEN r ELSE x8[q]
      /\ \A q \in Procs : x8'[q] = Evidence!Idle \/ IsExport(x8'[q]) \/ x8'[q] \in KeyRotations
      /\ \A q \in Procs : x8'[q].step \in ExportSteps => x8'[q] = x8[q]
  BY <1>1, <1>4, <1>5, BundlesStay
<1>7. EvidenceTypes'
  BY <1>1, <1>2, <1>6, <1>12 DEF EvidenceTypes
<1>8. \A m \in Ids, pair \in Nat : Backed(x6, x8, x13, m, pair) => Backed(x6', x8', x13', m, pair)
  <2> SUFFICES ASSUME NEW m \in Ids, NEW pair \in Nat, Backed(x6, x8, x13, m, pair), m \notin x13'
               PROVE  /\ InRing(x6, m, pair)
                      /\ \A q \in Procs : Rotates(x8'[q]) => InRing(x8'[q].ring, m, pair)
    BY <1>1 DEF Backed
  <2>1. /\ InRing(x6, m, pair)
        /\ \A q \in Procs : Rotates(x8[q]) => InRing(x8[q].ring, m, pair)
    BY <1>1, <1>12 DEF Backed
  <2>2. m # k
    BY <1>1, <2>1, EvidenceConstants DEF InRing
  <2>3. InRing(next, m, pair)
    BY <1>2, <1>3, <2>1, <2>2 DEF InRing, KeyRings
  <2> QED BY <1>4, <1>6, <2>1, <2>3
<1>13. \A sign \in KeySigns : SignOk(x6, x8, x13, sign) => SignOk(x6', x8', x13', sign)
  BY <1>8 DEF SignOk, KeySigns
<1>14. InRing(next, k, x10 + 1)
  BY <1>2, <1>3 DEF InRing, KeyRings
<1>15. RotationsApart(x6', x8', x13')
  <2>1. \A q \in Procs : Rotates(x8'[q]) /\ q # p => Rotates(x8[q]) /\ x8'[q] = x8[q]
    BY <1>6
  <2>2. \A q, o \in Procs : Rotates(x8'[q]) /\ Rotates(x8'[o]) /\ q # o => x8'[q].id \in x13'
    BY <1>4, <1>6, <1>12, <2>1
  <2>3. \A q \in Procs : Rotates(x8'[q]) => InRing(x8'[q].ring, x8'[q].id, x8'[q].pair)
    BY <1>4, <1>6, <1>14, <2>1 DEF EvidenceInv, KeysInv, RotationsApart
  <2>4. ASSUME NEW q \in Procs, x8'[q].step = "key", x8'[q].id \notin x13'
        PROVE  InRing(x6, x8'[q].id, x8'[q].pair)
    BY <1>4, <1>6, <1>12, <2>4 DEF Rotates
  <2> QED BY <1>1, <2>2, <2>3, <2>4 DEF RotationsApart
<1>16. KeysInv'
  BY <1>1, <1>2, <1>6, <1>8, <1>13, <1>15, KeysFollow
<1> QED BY <1>6, <1>7, <1>16 DEF EvidenceInv

LEMMA WriteRingStep ==
  ASSUME EvidenceInv, NEW p \in Procs, Evidence!WriteRing(p) PROVE EvidenceInv'
<1> DEFINE r == [x8[p] EXCEPT !.step = "key"]
<1>1. /\ x8[p].step = "ring" /\ x6' = x8[p].ring /\ x8' = [x8 EXCEPT ![p].step = "key"]
      /\ UNCHANGED <<x1, x2, x3, x4, x7, x9, x10, x12, x13>>
  BY DEF Evidence!WriteRing, Evidence!GoOn, Evidence!fileVars
<1>2. EvidenceTypes /\ x8' = [x8 EXCEPT ![p] = r]
  BY <1>1 DEF EvidenceInv
<1>3. x8[p] \in KeyRotations
  BY <1>1, <1>2, StepsDiffer DEF EvidenceTypes, ExportSteps
<1>4. /\ r \in KeyRotations /\ r.step = "key" /\ r.id = x8[p].id /\ r.pair = x8[p].pair
      /\ r.ring = x8[p].ring /\ x8[p].id \in Ids /\ x8[p].pair \in Nat /\ x8[p].ring \in KeyRings
  BY <1>3 DEF KeyRotations
<1> HIDE DEF r
<1>5. x8[p].step \notin ExportSteps
  BY <1>1 DEF ExportSteps
<1>6. /\ BundlesInv' /\ x8' = [q \in Procs |-> x8'[q]]
      /\ \A q \in Procs : x8'[q] = IF q = p THEN r ELSE x8[q]
      /\ \A q \in Procs : x8'[q] = Evidence!Idle \/ IsExport(x8'[q]) \/ x8'[q] \in KeyRotations
      /\ \A q \in Procs : x8'[q].step \in ExportSteps => x8'[q] = x8[q]
  BY <1>1, <1>2, <1>4, <1>5, BundlesStay
<1>7. EvidenceTypes'
  BY <1>1, <1>2, <1>4, <1>6 DEF EvidenceTypes
<1>8. \A m \in Ids, pair \in Nat : Backed(x6, x8, x13, m, pair) => Backed(x6', x8', x13', m, pair)
  <2>1. \A q \in Procs : Rotates(x8'[q]) => Rotates(x8[q]) /\ x8'[q].ring = x8[q].ring
    BY <1>1, <1>4, <1>6 DEF Rotates
  <2> QED BY <1>1, <2>1 DEF Backed, Rotates
<1>9. RotationsApart(x6', x8', x13')
  <2>1. RotationsApart(x6, x8, x13)
    BY DEF EvidenceInv, KeysInv
  <2>2. \A q \in Procs : Rotates(x8'[q]) =>
          /\ Rotates(x8[q]) /\ x8'[q].id = x8[q].id /\ x8'[q].pair = x8[q].pair
          /\ x8'[q].ring = x8[q].ring
    BY <1>1, <1>4, <1>6 DEF Rotates
  <2>3. ASSUME NEW q \in Procs, x8'[q].step = "key", x8'[q].id \notin x13
        PROVE  InRing(x6', x8'[q].id, x8'[q].pair)
    <3>1. Rotates(x8'[q]) /\ Rotates(x8[p])
      BY <1>1, <2>3 DEF Rotates
    <3>2. q = p
      BY <2>1, <2>2, <2>3, <3>1 DEF RotationsApart
    <3> QED BY <1>1, <2>1, <2>2, <3>1, <3>2 DEF RotationsApart
  <2> QED BY <1>1, <2>1, <2>2, <2>3 DEF RotationsApart
<1>10. KeysInv'
  BY <1>1, <1>6, <1>8, <1>9, KeysFollow
<1> QED BY <1>6, <1>7, <1>10 DEF EvidenceInv

LEMMA WriteKeyStep ==
  ASSUME EvidenceInv, NEW p \in Procs, Evidence!WriteKey(p) PROVE EvidenceInv'
<1>1. /\ x8[p].step = "key" /\ x7' = [x7 EXCEPT ![x8[p].id] = x8[p].pair]
      /\ x8' = [x8 EXCEPT ![p] = Evidence!Idle]
      /\ UNCHANGED <<x1, x2, x3, x4, x6, x9, x10, x12, x13>>
  BY DEF Evidence!WriteKey, Evidence!fileVars
<1>2. EvidenceTypes
  BY DEF EvidenceInv
<1>3. x8[p] \in KeyRotations
  BY <1>1, <1>2, StepsDiffer DEF EvidenceTypes, ExportSteps
<1>4. x8[p].id \in Ids /\ x8[p].pair \in Nat
  BY <1>3 DEF KeyRotations
<1>5. x8[p].step \notin ExportSteps
  BY <1>1 DEF ExportSteps
<1>6. /\ BundlesInv' /\ x8' = [q \in Procs |-> x8'[q]]
      /\ \A q \in Procs : x8'[q] = IF q = p THEN Evidence!Idle ELSE x8[q]
      /\ \A q \in Procs : x8'[q] = Evidence!Idle \/ IsExport(x8'[q]) \/ x8'[q] \in KeyRotations
      /\ \A q \in Procs : x8'[q].step \in ExportSteps => x8'[q] = x8[q]
  BY <1>1, <1>5, BundlesStay
<1>7. /\ x7' \in [Ids -> Nat \cup {None, Torn}] /\ x7'[x8[p].id] = x8[p].pair
      /\ \A k \in Ids : k # x8[p].id => x7'[k] = x7[k]
  BY <1>1, <1>2, <1>4 DEF EvidenceTypes
<1>8. EvidenceTypes'
  BY <1>1, <1>2, <1>6, <1>7 DEF EvidenceTypes
<1>9. \A q \in Procs : Rotates(x8'[q]) => q # p /\ x8'[q] = x8[q]
  BY <1>6, StepsDiffer DEF Rotates
<1>10. /\ \A k, pair : Backed(x6, x8, x13, k, pair) => Backed(x6', x8', x13', k, pair)
       /\ \A sign : SignOk(x6, x8, x13, sign) => SignOk(x6', x8', x13', sign)
       /\ RotationsApart(x6, x8, x13) => RotationsApart(x6', x8', x13')
  BY <1>1, <1>9, BackedStays
<1>11. Backed(x6', x8', x13', x8[p].id, x8[p].pair)
  <2> SUFFICES ASSUME x8[p].id \notin x13
               PROVE  /\ x6 # Torn => InRing(x6, x8[p].id, x8[p].pair)
                      /\ \A q \in Procs : ~ Rotates(x8'[q])
    BY <1>1 DEF Backed
  <2> QED BY <1>1, <1>9 DEF EvidenceInv, KeysInv, RotationsApart, Rotates
<1>12. KeysBacked(x6', x7', x8', x13')
  BY <1>7, <1>10, <1>11 DEF EvidenceInv, KeysInv, KeysBacked
<1>13. ExportsSigned(x6', x8', x13', x8') /\ Signed(x6', x8', x13', x3') /\ Signed(x6', x8', x13', x4')
  BY <1>1, <1>6, <1>10 DEF EvidenceInv, KeysInv, ExportsSigned, Signed
<1>14. KeysInv'
  BY <1>10, <1>12, <1>13 DEF EvidenceInv, KeysInv
<1> QED BY <1>6, <1>8, <1>14 DEF EvidenceInv

LEMMA KillRotationStep ==
  ASSUME EvidenceInv, NEW p \in Procs, Evidence!KillRotation(p) PROVE EvidenceInv'
<1>1. /\ x8[p].step \in {"ring", "key"} /\ x6' \in {x6, Torn}
      /\ x7' \in {x7, [x7 EXCEPT ![x8[p].id] = Torn]} /\ x8' = [x8 EXCEPT ![p] = Evidence!Idle]
      /\ UNCHANGED <<x1, x2, x3, x4, x9, x10, x12, x13>>
  BY DEF Evidence!KillRotation, Evidence!Rotating, Evidence!fileVars
<1>2. EvidenceTypes /\ x8[p].step \notin ExportSteps
  BY <1>1 DEF EvidenceInv, ExportSteps
<1>3. /\ BundlesInv' /\ x8' = [q \in Procs |-> x8'[q]]
      /\ \A q \in Procs : x8'[q] = IF q = p THEN Evidence!Idle ELSE x8[q]
      /\ \A q \in Procs : x8'[q] = Evidence!Idle \/ IsExport(x8'[q]) \/ x8'[q] \in KeyRotations
      /\ \A q \in Procs : x8'[q].step \in ExportSteps => x8'[q] = x8[q]
  BY <1>1, <1>2, BundlesStay
<1>4. x7' \in [Ids -> Nat \cup {None, Torn}] /\ \A k \in Ids : x7'[k] \in {x7[k], Torn}
  BY <1>1, <1>2 DEF EvidenceTypes
<1>5. EvidenceTypes'
  BY <1>1, <1>2, <1>3, <1>4 DEF EvidenceTypes
<1>6. \A q \in Procs : Rotates(x8'[q]) => x8'[q] = x8[q]
  BY <1>3, StepsDiffer DEF Rotates
<1>7. /\ \A k, pair : Backed(x6, x8, x13, k, pair) => Backed(x6', x8', x13', k, pair)
      /\ \A sign : SignOk(x6, x8, x13, sign) => SignOk(x6', x8', x13', sign)
      /\ RotationsApart(x6, x8, x13) => RotationsApart(x6', x8', x13')
  BY <1>1, <1>6, BackedStays
<1>8. KeysBacked(x6', x7', x8', x13')
  <2> SUFFICES ASSUME NEW k \in Ids, x7'[k] \notin {None, Torn}
               PROVE  Backed(x6', x8', x13', k, x7'[k])
    BY DEF KeysBacked
  <2>1. x7'[k] = x7[k]
    BY <1>4
  <2> QED BY <1>7, <2>1 DEF EvidenceInv, KeysInv, KeysBacked
<1>9. ExportsSigned(x6', x8', x13', x8') /\ Signed(x6', x8', x13', x3') /\ Signed(x6', x8', x13', x4')
  BY <1>1, <1>3, <1>7 DEF EvidenceInv, KeysInv, ExportsSigned, Signed
<1> QED BY <1>3, <1>5, <1>7, <1>8, <1>9 DEF EvidenceInv, KeysInv

LEMMA EvidenceStep ==
  ASSUME EvidenceInv,
         Evidence!Next \/ UNCHANGED <<x1, x2, x3, x4, x5, x6, x7, x8, x9, x10, x11, x12, x13>>
  PROVE  EvidenceInv'
<1>1. CASE UNCHANGED <<x1, x2, x3, x4, x5, x6, x7, x8, x9, x10, x11, x12, x13>>
  BY <1>1 DEF EvidenceInv, EvidenceTypes, KeysInv, BundlesInv, AloneHasWritten, PlainKept, SealedKept
<1>2. ASSUME NEW p \in Procs, NEW n \in Ids, NEW pass \in BOOLEAN, NEW wanted \in BOOLEAN,
             NEW key \in Ids \cup {None}, Evidence!Export(p, n, pass, wanted, key)
      PROVE  EvidenceInv'
  BY <1>2, ExportStep
<1>3. ASSUME NEW p \in Procs, NEW kept \in 1..KeptBundles, Evidence!Prune(p, kept) PROVE EvidenceInv'
  BY <1>3, PruneStep
<1>4. ASSUME NEW p \in Procs, NEW k \in Ids, NEW root \in RootNames, Evidence!Rotate(p, k, root)
      PROVE  EvidenceInv'
  BY <1>4, RotateStep
<1>5. ASSUME NEW p \in Procs,
             \/ Evidence!WriteBundle(p) \/ Evidence!Seal(p) \/ Evidence!List(p)
             \/ Evidence!WriteManifest(p) \/ Evidence!SealManifest(p) \/ Evidence!Done(p)
             \/ Evidence!WriteRing(p) \/ Evidence!WriteKey(p)
             \/ Evidence!KillExport(p) \/ Evidence!KillRotation(p)
      PROVE  EvidenceInv'
  BY <1>5, WriteBundleStep, SealStep, ListStep, WriteManifestStep, SealManifestStep, DoneStep,
     WriteRingStep, WriteKeyStep, KillExportStep, KillRotationStep
<1> QED BY <1>1, <1>2, <1>3, <1>4, <1>5 DEF Evidence!Next

LEMMA EvidenceValid ==
  ASSUME EvidenceInv PROVE Evidence!EvidenceStaysValid
<1> DEFINE file(n, form) == Evidence!ManifestFor(n, form)
<1> SUFFICES ASSUME NEW n \in Ids, NEW form \in x12[n],
                    \A p \in Procs : Evidence!Exporting(p) => x8[p].name # n,
                    file(n, form) # None
             PROVE  /\ Evidence!Parses(file(n, form)) /\ Evidence!BundleFor(n, form) = file(n, form).of
                    /\ \/ file(n, form).sign = None \/ x6 = Torn \/ file(n, form).sign.id \in x13
                       \/ Evidence!SignatureHolds(file(n, form).sign)
  BY DEF Evidence!EvidenceStaysValid
<1>1. /\ form \in {"plain", "sealed"}
      /\ \A p \in Procs : x8[p].step \in ExportSteps => x8[p].name # n
      /\ Signed(x6, x8, x13, x3) /\ Signed(x6, x8, x13, x4)
  BY DEF EvidenceInv, EvidenceTypes, KeysInv, Evidence!Exporting, ExportSteps
<1>2. \A sign : SignOk(x6, x8, x13, sign) =>
        sign = None \/ x6 = Torn \/ sign.id \in x13 \/ Evidence!SignatureHolds(sign)
  BY DEF SignOk, Backed, InRing, Evidence!SignatureHolds
<1>3. CASE form = "plain"
  <2>1. x3[n] # None /\ x3[n] # Torn /\ x1[n] = x3[n].of /\ x1[n] # None /\ file(n, form) = x3[n]
    BY <1>1, <1>3 DEF EvidenceInv, BundlesInv, PlainKept, Evidence!ManifestFor
  <2>2. SignOk(x6, x8, x13, x3[n].sign)
    BY <1>1, <2>1 DEF Signed
  <2>3. Evidence!BundleFor(n, form) = x1[n]
    BY <1>3, <2>1 DEF Evidence!BundleFor, Evidence!FirstFound
  <2> QED BY <1>2, <2>1, <2>2, <2>3 DEF Evidence!Parses
<1>4. CASE form = "sealed"
  <2>1. x4[n] # None /\ x4[n] # Torn /\ x2[n] = x4[n].of /\ x2[n] # None /\ file(n, form) = x4[n]
    BY <1>1, <1>4 DEF EvidenceInv, BundlesInv, SealedKept, Evidence!ManifestFor
  <2>2. SignOk(x6, x8, x13, x4[n].sign)
    BY <1>1, <2>1 DEF Signed
  <2>3. Evidence!BundleFor(n, form) = x2[n]
    BY <1>4, <2>1 DEF Evidence!BundleFor, Evidence!FirstFound
  <2> QED BY <1>2, <2>1, <2>2, <2>3 DEF Evidence!Parses
<1> QED BY <1>1, <1>3, <1>4

-----------------------------------------------------------------------------
(* Strict handoffs of an incident.                                         *)

HandoffBundles == [by : Nat, reports : Nat \cup {None}]
HandoffManifests ==
  [of : HandoffBundles \cup {Torn}, reports : Nat \cup {None}, sign : [id : Ids \cup {None}, pair : Nat]]
HandoffSteps == {"export", "manifest", "load", "bundle", "keys", "event", "done"}
HandoffRuns ==
  [step : HandoffSteps, flags : HandoffFlags, signing : Ids \cup {None},
   expected : Ids \cup {None}, no : Nat, ok : BOOLEAN,
   stage : {"none", "preflight", "export", "verify"}, saw : HandoffManifests \cup {None},
   errors : BOOLEAN, attempts : Nat, alone : BOOLEAN]

HandoffTypes ==
  /\ x1 \in HandoffBundles \cup {None, Torn} /\ x2 \in HandoffManifests \cup {None, Torn}
  /\ x4 \in {{"root"}, {"next"}, None}
  /\ x5 = Handoffs!Idle \/ x5 \in HandoffRuns
  /\ x7 \in [runs : Nat, changes : Nat, failures : Nat, kills : Nat]

\* The run is at one of the steps, or has ended with a verdict.
At(r, steps) == r.step \in steps \/ (r.step = "done" /\ r.stage = "verify")

\* Runs are numbered, and the chain has an event of a run only once it has ended, with its
\* verdict.
EventsTold(r, events, spent) ==
  /\ \A e \in events : e.run \in Nat /\ e.run <= spent.runs
  /\ r \in HandoffRuns => r.no = spent.runs /\ r.attempts <= spent.failures
  /\ r \in HandoffRuns /\ r.step # "done" => \A e \in events : e.run # r.no
  /\ r.step = "done" => \A e \in events : e.run = r.no => e.ok = r.ok
  /\ r.step = "done" /\ r.stage = "verify" /\ r.ok =>
       \/ \E e \in events : e.run = r.no
       \/ ~ Handoffs!EventRequired(r.flags) /\ spent.failures >= EventAttempts

\* What a run has found when no check has failed.
Consistent(r) ==
  /\ r.saw.reports = r.saw.of.reports
  /\ r.saw.reports = None => ~ Handoffs!ReportsRequired(r.flags)
ChecksMade(r) ==
  /\ r.step \in {"export", "manifest", "load", "bundle"} => ~ r.errors
  /\ r.step \in {"bundle", "keys"} => r.saw \in HandoffManifests
  /\ At(r, {"keys", "event"}) /\ ~ r.errors => Consistent(r)
  /\ At(r, {"event"}) /\ ~ r.errors => r.saw.sign.id = Handoffs!Expected(r)
  /\ r.step = "done" => r.stage # "none" /\ (r.stage = "export" => ~ r.ok)
  /\ r.step = "done" /\ r.stage = "verify" /\ r.ok => ~ r.errors

\* The files of a run that nothing disturbs are its own.
OwnBundle(r) == [by |-> r.no, reports |-> Handoffs!Reports(r)]
OwnManifest(r) ==
  [of |-> OwnBundle(r), reports |-> Handoffs!Reports(r), sign |-> [id |-> r.signing, pair |-> 1]]
FilesAreOwn(r, bundle, manifest) ==
  /\ At(r, {"manifest", "load", "bundle", "keys", "event"}) => bundle = OwnBundle(r)
  /\ At(r, {"load", "bundle", "keys", "event"}) => manifest = OwnManifest(r)
  /\ At(r, {"bundle", "keys", "event"}) => r.saw = manifest

\* It fails on nothing but what a preflight does not look at.
LeftOut(r) == ~ Handoffs!IncludesReports(r.flags) /\ Handoffs!ReportsRequired(r.flags)
Unseen(r, ring, trust) ==
  \/ Handoffs!ExportRefuses(r.flags) \/ "direct" \in r.flags
  \/ LeftOut(r)
  \/ r.signing # Handoffs!Expected(r)
  \/ ring.signer \notin trust \/ ring.keys[Handoffs!Expected(r)] # 1
FailsUnseen(r, ring, trust, failures) ==
  /\ At(r, {"export", "manifest", "load", "bundle", "keys", "event"}) => ring # None /\ trust # None
  /\ r.step = "keys" /\ r.errors => LeftOut(r)
  /\ At(r, {"event"}) /\ r.errors => Unseen(r, ring, trust)
  /\ At(r, {"event"}) /\ ~ r.errors =>
       ring.signer \in trust /\ ring.keys[Handoffs!Expected(r)] = r.saw.sign.pair
  /\ r.step = "done" /\ r.stage = "export" => Unseen(r, ring, trust)
  /\ r.step = "done" /\ r.stage = "verify" /\ ~ r.ok => r.errors \/ failures >= EventAttempts

AloneInv ==
  x5 \in HandoffRuns /\ x5.alone =>
    FilesAreOwn(x5, x1, x2) /\ FailsUnseen(x5, x3, x4, x7.failures)

HandoffInv ==
  HandoffTypes /\ EventsTold(x5, x6, x7) /\ (x5 \in HandoffRuns => ChecksMade(x5)) /\ AloneInv

LEMMA HandoffConstants ==
  /\ None \notin Nat /\ None # Torn /\ None \notin {"root", "next"}
  /\ \A b \in HandoffBundles : b # None /\ b # Torn
  /\ \A m \in HandoffManifests : m # None /\ m # Torn
BY EvidenceAssumption, HandoffsAssumption DEF HandoffBundles, HandoffManifests

LEMMA RunsDiffer ==
  /\ Handoffs!Idle \notin HandoffRuns /\ Handoffs!Idle.step = "idle"
  /\ \A r \in HandoffRuns : r.step \in HandoffSteps
<1>1. Handoffs!Idle.step = "idle" /\ "idle" \notin HandoffSteps
  BY DEF Handoffs!Idle, HandoffSteps
<1>2. \A r \in HandoffRuns : r.step \in HandoffSteps
  BY DEF HandoffRuns
<1> QED BY <1>1, <1>2

LEMMA RunMoves ==
  ASSUME NEW r \in HandoffRuns, NEW s \in HandoffSteps, NEW errors \in BOOLEAN
  PROVE  LET n == [r EXCEPT !.step = s, !.errors = errors] IN
         /\ n \in HandoffRuns /\ n.step = s /\ n.errors = errors
         /\ n.flags = r.flags /\ n.signing = r.signing /\ n.expected = r.expected /\ n.no = r.no
         /\ n.ok = r.ok /\ n.stage = r.stage /\ n.saw = r.saw /\ n.attempts = r.attempts
         /\ n.alone = r.alone
BY DEF HandoffRuns

LEMMA RunEnds ==
  ASSUME NEW r \in HandoffRuns, NEW ok \in BOOLEAN, NEW stage \in {"preflight", "export", "verify"}
  PROVE  LET n == Handoffs!Summary(r, ok, stage) IN
         /\ n \in HandoffRuns /\ n.step = "done" /\ n.ok = ok /\ n.stage = stage
         /\ n.flags = r.flags /\ n.signing = r.signing /\ n.expected = r.expected /\ n.no = r.no
         /\ n.saw = r.saw /\ n.errors = r.errors /\ n.attempts = r.attempts /\ n.alone = r.alone
BY DEF HandoffRuns, HandoffSteps, Handoffs!Summary

\* What a run was called with decides what it expects, writes and cannot see.
LEMMA SameCall ==
  ASSUME NEW r, NEW n, n.flags = r.flags, n.signing = r.signing, n.expected = r.expected,
         n.no = r.no
  PROVE  /\ Handoffs!Expected(n) = Handoffs!Expected(r) /\ Handoffs!Reports(n) = Handoffs!Reports(r)
         /\ OwnBundle(n) = OwnBundle(r) /\ OwnManifest(n) = OwnManifest(r)
         /\ LeftOut(n) <=> LeftOut(r)
         /\ \A ring, trust : Unseen(n, ring, trust) <=> Unseen(r, ring, trust)
<1>1. /\ Handoffs!Expected(n) = Handoffs!Expected(r) /\ Handoffs!Reports(n) = Handoffs!Reports(r)
      /\ LeftOut(n) <=> LeftOut(r)
  BY DEF Handoffs!Expected, Handoffs!Reports, LeftOut
<1>2. OwnBundle(n) = OwnBundle(r)
  BY <1>1 DEF OwnBundle
<1> QED BY <1>1, <1>2 DEF OwnManifest, Unseen

LEMMA OwnFiles ==
  ASSUME NEW r \in HandoffRuns
  PROVE  /\ OwnBundle(r) \in HandoffBundles /\ OwnManifest(r) \in HandoffManifests
         /\ OwnBundle(r).by = r.no /\ OwnBundle(r).reports = Handoffs!Reports(r)
         /\ OwnManifest(r).of = OwnBundle(r) /\ OwnManifest(r).reports = Handoffs!Reports(r)
         /\ OwnManifest(r).sign.id = r.signing /\ OwnManifest(r).sign.pair = 1
         /\ Handoffs!Reports(r) = None <=> ~ Handoffs!IncludesReports(r.flags)
<1>1. r.no \in Nat /\ r.signing \in Ids \cup {None}
  BY DEF HandoffRuns
<1>2. /\ Handoffs!Reports(r) \in Nat \cup {None}
      /\ Handoffs!Reports(r) = None <=> ~ Handoffs!IncludesReports(r.flags)
  BY <1>1, HandoffConstants DEF Handoffs!Reports
<1>3. /\ OwnBundle(r) \in HandoffBundles /\ OwnBundle(r).by = r.no
      /\ OwnBundle(r).reports = Handoffs!Reports(r)
  BY <1>1, <1>2 DEF OwnBundle, HandoffBundles
<1>4. [id |-> r.signing, pair |-> 1] \in [id : Ids \cup {None}, pair : Nat]
  BY <1>1
<1> QED BY <1>2, <1>3, <1>4 DEF OwnManifest, HandoffManifests

LEMMA HandoffsStart ==
  ASSUME Handoffs!Init PROVE HandoffInv
<1>1. /\ x1 = None /\ x2 = None /\ x4 \in {{"root"}, {"next"}, None} /\ x5 = Handoffs!Idle /\ x6 = {}
      /\ x7 = [runs |-> 0, changes |-> 0, failures |-> 0, kills |-> 0]
  BY DEF Handoffs!Init
<1>2. x7 \in [runs : Nat, changes : Nat, failures : Nat, kills : Nat]
  BY <1>1
<1>3. x5 \notin HandoffRuns /\ x5.step = "idle"
  BY <1>1, RunsDiffer
<1>4. EventsTold(x5, x6, x7)
  BY <1>1, <1>3 DEF EventsTold
<1> QED BY <1>1, <1>2, <1>3, <1>4 DEF HandoffInv, HandoffTypes, AloneInv

LEMMA StartStep ==
  ASSUME HandoffInv, NEW flags \in HandoffFlags, NEW signing \in Ids \cup {None},
         NEW expected \in Ids \cup {None}, Handoffs!Start(flags, signing, expected)
  PROVE  HandoffInv'
<1> DEFINE r == [step |-> "export", flags |-> flags, signing |-> signing, expected |-> expected,
                 no |-> x7.runs + 1, ok |-> FALSE, stage |-> "none", saw |-> None,
                 errors |-> FALSE, attempts |-> 0, alone |-> TRUE]
<1>1. /\ x7' = [x7 EXCEPT !.runs = @ + 1] /\ UNCHANGED <<x1, x2, x3, x4, x6>>
      /\ \/ x5' = Handoffs!Summary(r, FALSE, "preflight")
         \/ x5' = Handoffs!Summary(r, TRUE, "preflight")
         \/ x5' = r /\ Handoffs!PreflightPasses(r)
  BY DEF Handoffs!Start
<1>2. HandoffTypes /\ x7 \in [runs : Nat, changes : Nat, failures : Nat, kills : Nat]
  BY DEF HandoffInv, HandoffTypes
<1>3. /\ r \in HandoffRuns /\ r.step = "export" /\ r.no = x7.runs + 1 /\ ~ r.errors
      /\ r.attempts = 0 /\ r.stage = "none"
  BY <1>2 DEF HandoffRuns, HandoffSteps
<1>4. Handoffs!PreflightPasses(r) => x3 # None /\ x4 # None
  BY DEF Handoffs!PreflightPasses
<1> HIDE DEF r
<1>5. /\ x7' \in [runs : Nat, changes : Nat, failures : Nat, kills : Nat]
      /\ x7'.runs = x7.runs + 1 /\ x7'.failures = x7.failures /\ x7.runs \in Nat /\ x7.failures \in Nat
  BY <1>1, <1>2
<1>6. \A e \in x6 : e.run \in Nat /\ e.run <= x7.runs
  BY DEF HandoffInv, EventsTold
<1>7. \A e \in x6 : e.run \in Nat /\ e.run <= x7'.runs /\ e.run # x7.runs + 1
  <2>1. \A e \in x6 : e.run # x7.runs + 1
    BY <1>5, <1>6
  <2> QED BY <1>5, <1>6, <2>1
<1>8. CASE x5' = r /\ Handoffs!PreflightPasses(r)
  <2>1. HandoffTypes'
    BY <1>1, <1>2, <1>3, <1>5, <1>8 DEF HandoffTypes
  <2>2. EventsTold(x5', x6', x7')
    BY <1>1, <1>3, <1>5, <1>7, <1>8 DEF EventsTold
  <2>3. ChecksMade(x5')
    BY <1>3, <1>8 DEF ChecksMade, At
  <2>4. FilesAreOwn(x5', x1', x2') /\ FailsUnseen(x5', x3', x4', x7'.failures)
    BY <1>1, <1>3, <1>4, <1>8 DEF FilesAreOwn, FailsUnseen, At
  <2> QED BY <2>1, <2>2, <2>3, <2>4 DEF HandoffInv, AloneInv
<1>9. ASSUME NEW ok \in BOOLEAN, x5' = Handoffs!Summary(r, ok, "preflight") PROVE HandoffInv'
  <2>1. /\ x5' \in HandoffRuns /\ x5'.step = "done" /\ x5'.stage = "preflight"
        /\ x5'.no = x7.runs + 1 /\ x5'.attempts = 0
    BY <1>3, <1>9, RunEnds
  <2>2. HandoffTypes'
    BY <1>1, <1>2, <1>5, <2>1 DEF HandoffTypes
  <2>3. EventsTold(x5', x6', x7')
    BY <1>1, <1>5, <1>7, <2>1 DEF EventsTold
  <2>4. ChecksMade(x5') /\ FilesAreOwn(x5', x1', x2') /\ FailsUnseen(x5', x3', x4', x7'.failures)
    BY <2>1 DEF ChecksMade, FilesAreOwn, FailsUnseen, At
  <2> QED BY <2>2, <2>3, <2>4 DEF HandoffInv, AloneInv
<1> QED BY <1>1, <1>8, <1>9

\* What the invariant says of a run under way.
LEMMA OfRun ==
  ASSUME HandoffInv, x5.step \in HandoffSteps
  PROVE  /\ HandoffTypes /\ EventsTold(x5, x6, x7) /\ x5 \in HandoffRuns /\ ChecksMade(x5)
         /\ x5.alone => FilesAreOwn(x5, x1, x2) /\ FailsUnseen(x5, x3, x4, x7.failures)
<1>1. x5 \in HandoffRuns
  BY RunsDiffer DEF HandoffInv, HandoffTypes, HandoffSteps
<1> QED BY <1>1 DEF HandoffInv, AloneInv

LEMMA WriteOwnBundleStep ==
  ASSUME HandoffInv, Handoffs!WriteBundle PROVE HandoffInv'
<1>1. x5.step = "export" /\ UNCHANGED <<x2, x3, x4, x6, x7>>
  BY DEF Handoffs!WriteBundle
<1>2. /\ HandoffTypes /\ EventsTold(x5, x6, x7) /\ x5 \in HandoffRuns /\ ChecksMade(x5)
      /\ x5.alone => FilesAreOwn(x5, x1, x2) /\ FailsUnseen(x5, x3, x4, x7.failures)
  BY <1>1, OfRun DEF HandoffSteps
<1>3. CASE Handoffs!ExportRefuses(x5.flags)
  <2>1. x5' = Handoffs!Summary(x5, FALSE, "export") /\ x1' = x1
    BY <1>3 DEF Handoffs!WriteBundle
  <2>2. /\ x5' \in HandoffRuns /\ x5'.step = "done" /\ ~ x5'.ok /\ x5'.stage = "export"
        /\ x5'.flags = x5.flags /\ x5'.signing = x5.signing /\ x5'.expected = x5.expected
        /\ x5'.no = x5.no /\ x5'.attempts = x5.attempts /\ x5'.alone = x5.alone
    BY <1>2, <2>1, RunEnds
  <2>3. HandoffTypes'
    BY <1>1, <1>2, <2>1, <2>2 DEF HandoffTypes
  <2>4. EventsTold(x5', x6', x7')
    BY <1>1, <1>2, <2>2 DEF EventsTold
  <2>5. ChecksMade(x5') /\ FilesAreOwn(x5', x1', x2')
    BY <2>2 DEF ChecksMade, FilesAreOwn, At
  <2>6. FailsUnseen(x5', x3', x4', x7'.failures)
    BY <1>3, <2>2 DEF FailsUnseen, Unseen, At
  <2> QED BY <2>3, <2>4, <2>5, <2>6 DEF HandoffInv, AloneInv
<1>4. CASE ~ Handoffs!ExportRefuses(x5.flags)
  <2> DEFINE r == [x5 EXCEPT !.step = "manifest"]
  <2>1. x1' = OwnBundle(x5) /\ x5' = r
    BY <1>4 DEF Handoffs!WriteBundle, OwnBundle
  <2>2. /\ r \in HandoffRuns /\ r.step = "manifest" /\ r.errors = x5.errors
        /\ r.flags = x5.flags /\ r.signing = x5.signing /\ r.expected = x5.expected
        /\ r.no = x5.no /\ r.attempts = x5.attempts /\ r.alone = x5.alone
    BY <1>2 DEF HandoffRuns, HandoffSteps
  <2> HIDE DEF r
  <2>3. HandoffTypes'
    BY <1>1, <1>2, <2>1, <2>2, OwnFiles DEF HandoffTypes
  <2>4. EventsTold(x5', x6', x7')
    BY <1>1, <1>2, <2>1, <2>2 DEF EventsTold
  <2>5. ChecksMade(x5')
    BY <1>1, <1>2, <2>1, <2>2 DEF ChecksMade, At
  <2>6. FilesAreOwn(x5', x1', x2')
    BY <2>1, <2>2, SameCall DEF FilesAreOwn, At
  <2>7. x5'.alone => FailsUnseen(x5', x3', x4', x7'.failures)
    BY <1>1, <1>2, <2>1, <2>2 DEF FailsUnseen, At
  <2> QED BY <2>1, <2>2, <2>3, <2>4, <2>5, <2>6, <2>7 DEF HandoffInv, AloneInv
<1> QED BY <1>3, <1>4

LEMMA WriteOwnManifestStep ==
  ASSUME HandoffInv, Handoffs!WriteManifest PROVE HandoffInv'
<1>1. x5.step = "manifest" /\ UNCHANGED <<x1, x3, x4, x6, x7>>
  BY DEF Handoffs!WriteManifest
<1>2. /\ HandoffTypes /\ EventsTold(x5, x6, x7) /\ x5 \in HandoffRuns /\ ChecksMade(x5)
      /\ x5.alone => FilesAreOwn(x5, x1, x2) /\ FailsUnseen(x5, x3, x4, x7.failures)
  BY <1>1, OfRun DEF HandoffSteps
<1>3. CASE x1 = None
  <2>1. x5' = Handoffs!Summary(x5, FALSE, "export") /\ x2' = x2
    BY <1>3 DEF Handoffs!WriteManifest
  <2>2. /\ x5' \in HandoffRuns /\ x5'.step = "done" /\ ~ x5'.ok /\ x5'.stage = "export"
        /\ x5'.flags = x5.flags /\ x5'.signing = x5.signing /\ x5'.expected = x5.expected
        /\ x5'.no = x5.no /\ x5'.attempts = x5.attempts /\ x5'.alone = x5.alone
    BY <1>2, <2>1, RunEnds
  <2>3. HandoffTypes'
    BY <1>1, <1>2, <2>1, <2>2 DEF HandoffTypes
  <2>4. EventsTold(x5', x6', x7')
    BY <1>1, <1>2, <2>2 DEF EventsTold
  <2>5. ChecksMade(x5')
    BY <2>2 DEF ChecksMade, At
  <2>6. ~ x5.alone
    BY <1>1, <1>2, <1>3, OwnFiles, HandoffConstants DEF FilesAreOwn, At
  <2> QED BY <2>2, <2>3, <2>4, <2>5, <2>6 DEF HandoffInv, AloneInv
<1>4. CASE x1 # None
  <2> DEFINE r == [x5 EXCEPT !.step = "load"]
             sign == [id |-> x5.signing, pair |-> 1]
             written == [of |-> x1, reports |-> Handoffs!Reports(x5), sign |-> sign]
  <2>1. x2' = written /\ x5' = r
    BY <1>4 DEF Handoffs!WriteManifest, Handoffs!Verify
  <2>2. /\ r \in HandoffRuns /\ r.step = "load" /\ r.errors = x5.errors
        /\ r.flags = x5.flags /\ r.signing = x5.signing /\ r.expected = x5.expected
        /\ r.no = x5.no /\ r.attempts = x5.attempts /\ r.alone = x5.alone
    BY <1>2 DEF HandoffRuns, HandoffSteps
  <2>3. written \in HandoffManifests
    <3>1. Handoffs!Reports(x5) \in Nat \cup {None}
      BY <1>2 DEF Handoffs!Reports, HandoffRuns
    <3>2. x1 \in HandoffBundles \cup {Torn}
      BY <1>2, <1>4 DEF HandoffTypes
    <3>3. sign \in [id : Ids \cup {None}, pair : Nat]
      BY <1>2 DEF HandoffRuns
    <3> QED BY <3>1, <3>2, <3>3 DEF HandoffManifests
  <2>4. x5.alone => x1 = OwnBundle(x5) /\ written = OwnManifest(x5)
    BY <1>1, <1>2 DEF FilesAreOwn, At, OwnManifest
  <2> HIDE DEF r, written
  <2>5. HandoffTypes'
    BY <1>1, <1>2, <2>1, <2>2, <2>3 DEF HandoffTypes
  <2>6. EventsTold(x5', x6', x7')
    BY <1>1, <1>2, <2>1, <2>2 DEF EventsTold
  <2>7. ChecksMade(x5')
    BY <1>1, <1>2, <2>1, <2>2 DEF ChecksMade, At
  <2>8. x5'.alone => FilesAreOwn(x5', x1', x2')
    BY <1>1, <2>1, <2>2, <2>4, SameCall DEF FilesAreOwn, At
  <2>9. x5'.alone => FailsUnseen(x5', x3', x4', x7'.failures)
    BY <1>1, <1>2, <2>1, <2>2 DEF FailsUnseen, At
  <2> QED BY <2>1, <2>2, <2>5, <2>6, <2>7, <2>8, <2>9 DEF HandoffInv, AloneInv
<1> QED BY <1>3, <1>4

LEMMA LoadManifestStep ==
  ASSUME HandoffInv, Handoffs!LoadManifest PROVE HandoffInv'
<1>1. x5.step = "load" /\ UNCHANGED <<x1, x2, x3, x4, x6, x7>>
  BY DEF Handoffs!LoadManifest
<1>2. /\ HandoffTypes /\ EventsTold(x5, x6, x7) /\ x5 \in HandoffRuns /\ ChecksMade(x5)
      /\ x5.alone => FilesAreOwn(x5, x1, x2) /\ FailsUnseen(x5, x3, x4, x7.failures)
  BY <1>1, OfRun DEF HandoffSteps
<1>3. CASE ~ Handoffs!ManifestParses
  <2>1. x5' = [x5 EXCEPT !.step = "event", !.errors = @ \/ ~ FALSE]
    BY <1>3 DEF Handoffs!LoadManifest, Handoffs!Checked
  <2>2. x5' = [x5 EXCEPT !.step = "event", !.errors = TRUE]
    BY <2>1
  <2>3. /\ x5' \in HandoffRuns /\ x5'.step = "event" /\ x5'.errors
        /\ x5'.no = x5.no /\ x5'.attempts = x5.attempts /\ x5'.alone = x5.alone
    BY <1>2, <2>2, RunMoves DEF HandoffSteps
  <2>4. HandoffTypes'
    BY <1>1, <1>2, <2>3 DEF HandoffTypes
  <2>5. EventsTold(x5', x6', x7')
    BY <1>1, <1>2, <2>3 DEF EventsTold
  <2>6. ChecksMade(x5')
    BY <2>3 DEF ChecksMade, At
  <2>7. ~ x5.alone
    BY <1>1, <1>2, <1>3, OwnFiles, HandoffConstants DEF FilesAreOwn, At, Handoffs!ManifestParses
  <2> QED BY <2>3, <2>4, <2>5, <2>6, <2>7 DEF HandoffInv, AloneInv
<1>4. CASE Handoffs!ManifestParses
  <2> DEFINE r == [x5 EXCEPT !.step = "bundle", !.saw = x2]
  <2>1. x5' = r /\ x2 \in HandoffManifests
    BY <1>2, <1>4 DEF Handoffs!LoadManifest, Handoffs!ManifestParses, HandoffTypes
  <2>2. /\ r \in HandoffRuns /\ r.step = "bundle" /\ r.errors = x5.errors /\ r.saw = x2
        /\ r.flags = x5.flags /\ r.signing = x5.signing /\ r.expected = x5.expected
        /\ r.no = x5.no /\ r.attempts = x5.attempts /\ r.alone = x5.alone
    BY <1>2, <2>1 DEF HandoffRuns, HandoffSteps
  <2> HIDE DEF r
  <2>3. HandoffTypes'
    BY <1>1, <1>2, <2>1, <2>2 DEF HandoffTypes
  <2>4. EventsTold(x5', x6', x7')
    BY <1>1, <1>2, <2>1, <2>2 DEF EventsTold
  <2>5. ChecksMade(x5')
    BY <1>1, <1>2, <2>1, <2>2 DEF ChecksMade, At
  <2>6. x5'.alone => FilesAreOwn(x5', x1', x2')
    BY <1>1, <1>2, <2>1, <2>2, SameCall DEF FilesAreOwn, At
  <2>7. x5'.alone => FailsUnseen(x5', x3', x4', x7'.failures)
    BY <1>1, <1>2, <2>1, <2>2 DEF FailsUnseen, At
  <2> QED BY <2>1, <2>2, <2>3, <2>4, <2>5, <2>6, <2>7 DEF HandoffInv, AloneInv
<1> QED BY <1>3, <1>4

LEMMA CheckBundleStep ==
  ASSUME HandoffInv, Handoffs!CheckBundle PROVE HandoffInv'
<1> DEFINE holds == /\ x1 \notin {None, Torn}
                    /\ x1 = x5.saw.of
                    /\ Handoffs!ReportsMatch(x5.saw, x1)
           r == [x5 EXCEPT !.step = "keys", !.errors = @ \/ ~ holds]
<1>1. x5.step = "bundle" /\ x5' = r /\ UNCHANGED <<x1, x2, x3, x4, x6, x7>>
  BY DEF Handoffs!CheckBundle, Handoffs!Checked
<1>2. /\ HandoffTypes /\ EventsTold(x5, x6, x7) /\ x5 \in HandoffRuns /\ ChecksMade(x5)
      /\ x5.alone => FilesAreOwn(x5, x1, x2) /\ FailsUnseen(x5, x3, x4, x7.failures)
  BY <1>1, OfRun DEF HandoffSteps
<1>3. ~ x5.errors /\ x5.saw \in HandoffManifests
  BY <1>1, <1>2 DEF ChecksMade
<1>4. holds => Consistent(x5)
  BY DEF Consistent, Handoffs!ReportsMatch
<1>5. x5.alone /\ ~ holds => LeftOut(x5)
  <2>1. x5.alone => x1 = OwnBundle(x5) /\ x5.saw = OwnManifest(x5)
    BY <1>1, <1>2 DEF FilesAreOwn, At
  <2>2. /\ OwnBundle(x5) \notin {None, Torn} /\ OwnManifest(x5).of = OwnBundle(x5)
        /\ OwnManifest(x5).reports = OwnBundle(x5).reports
        /\ OwnManifest(x5).reports = None <=> ~ Handoffs!IncludesReports(x5.flags)
    BY <1>2, OwnFiles, HandoffConstants
  <2> QED BY <2>1, <2>2 DEF Handoffs!ReportsMatch, LeftOut
<1> HIDE DEF holds
<1>6. /\ r \in HandoffRuns /\ r.step = "keys" /\ (r.errors <=> ~ holds) /\ r.saw = x5.saw
      /\ r.flags = x5.flags /\ r.signing = x5.signing /\ r.expected = x5.expected
      /\ r.no = x5.no /\ r.attempts = x5.attempts /\ r.alone = x5.alone
  <2>0. "keys" \in HandoffSteps
    BY DEF HandoffSteps
  <2>1. CASE holds
    <3>1. r = [x5 EXCEPT !.step = "keys", !.errors = FALSE]
      BY <1>3, <2>1
    <3> HIDE DEF r
    <3> QED BY <1>2, <2>0, <2>1, <3>1, RunMoves
  <2>2. CASE ~ holds
    <3>1. r = [x5 EXCEPT !.step = "keys", !.errors = TRUE]
      BY <2>2
    <3> HIDE DEF r
    <3> QED BY <1>2, <2>0, <2>2, <3>1, RunMoves
  <2> QED BY <2>1, <2>2
<1> HIDE DEF r
<1>7. HandoffTypes'
  BY <1>1, <1>2, <1>6 DEF HandoffTypes
<1>8. EventsTold(x5', x6', x7')
  BY <1>1, <1>2, <1>6 DEF EventsTold
<1>9. ChecksMade(x5')
  BY <1>1, <1>2, <1>3, <1>4, <1>6 DEF ChecksMade, At, Consistent
<1>10. x5'.alone => FilesAreOwn(x5', x1', x2')
  BY <1>1, <1>2, <1>6, SameCall DEF FilesAreOwn, At
<1>11. x5'.alone => FailsUnseen(x5', x3', x4', x7'.failures)
  BY <1>1, <1>2, <1>5, <1>6, SameCall DEF FailsUnseen, At
<1> QED BY <1>1, <1>6, <1>7, <1>8, <1>9, <1>10, <1>11 DEF HandoffInv, AloneInv

LEMMA CheckKeysStep ==
  ASSUME HandoffInv, Handoffs!CheckKeys PROVE HandoffInv'
<1> DEFINE holds == /\ "direct" \notin x5.flags
                    /\ Handoffs!RingIsTrusted
                    /\ Handoffs!SignatureHolds(x5.saw.sign)
           r == [x5 EXCEPT !.step = "event", !.errors = @ \/ ~ holds]
           expected == Handoffs!Expected(x5)
<1>1. x5.step = "keys" /\ x5' = r /\ UNCHANGED <<x1, x2, x3, x4, x6, x7>>
  BY DEF Handoffs!CheckKeys, Handoffs!Checked
<1>2. /\ HandoffTypes /\ EventsTold(x5, x6, x7) /\ x5 \in HandoffRuns /\ ChecksMade(x5)
      /\ x5.alone => FilesAreOwn(x5, x1, x2) /\ FailsUnseen(x5, x3, x4, x7.failures)
  BY <1>1, OfRun DEF HandoffSteps
<1>3. Handoffs!SignatureHolds(x5.saw.sign) <=>
        x5.saw.sign.id = expected /\ x3.keys[expected] = x5.saw.sign.pair
  BY DEF Handoffs!SignatureHolds, Handoffs!KeyIdMatches
<1>4. holds => x5.saw.sign.id = expected /\ x3.signer \in x4 /\ x3.keys[expected] = x5.saw.sign.pair
  BY <1>3 DEF Handoffs!RingIsTrusted
<1>5. x5.alone /\ ~ holds => Unseen(x5, x3, x4)
  <2> SUFFICES ASSUME x5.alone, ~ Unseen(x5, x3, x4) PROVE holds
    OBVIOUS
  <2>1. x3 # None /\ x4 # None /\ x5.saw = OwnManifest(x5)
    BY <1>1, <1>2 DEF FilesAreOwn, FailsUnseen, At
  <2>2. /\ "direct" \notin x5.flags /\ x5.signing = expected
        /\ x3.signer \in x4 /\ x3.keys[expected] = 1
    BY DEF Unseen
  <2>3. x3.signer # None
    BY <1>2, <2>1, <2>2, HandoffConstants DEF HandoffTypes
  <2>4. Handoffs!RingIsTrusted
    BY <2>1, <2>2, <2>3 DEF Handoffs!RingIsTrusted, Handoffs!RingIsSigned
  <2>5. Handoffs!SignatureHolds(x5.saw.sign)
    BY <1>2, <1>3, <2>1, <2>2, OwnFiles
  <2> QED BY <2>2, <2>4, <2>5
<1> HIDE DEF holds
<1>6. /\ r \in HandoffRuns /\ r.step = "event" /\ (r.errors <=> x5.errors \/ ~ holds) /\ r.saw = x5.saw
      /\ r.flags = x5.flags /\ r.signing = x5.signing /\ r.expected = x5.expected
      /\ r.no = x5.no /\ r.attempts = x5.attempts /\ r.alone = x5.alone
  <2>0. "event" \in HandoffSteps /\ x5.errors \in BOOLEAN
    BY <1>2 DEF HandoffSteps, HandoffRuns
  <2>1. CASE holds /\ ~ x5.errors
    <3>1. r = [x5 EXCEPT !.step = "event", !.errors = FALSE]
      BY <2>1
    <3> HIDE DEF r
    <3> QED BY <1>2, <2>0, <2>1, <3>1, RunMoves
  <2>2. CASE x5.errors \/ ~ holds
    <3>1. r = [x5 EXCEPT !.step = "event", !.errors = TRUE]
      BY <2>2
    <3> HIDE DEF r
    <3> QED BY <1>2, <2>0, <2>2, <3>1, RunMoves
  <2> QED BY <2>1, <2>2
<1> HIDE DEF r
<1>7. HandoffTypes'
  BY <1>1, <1>2, <1>6 DEF HandoffTypes
<1>8. EventsTold(x5', x6', x7')
  BY <1>1, <1>2, <1>6 DEF EventsTold
<1>9. Handoffs!Expected(x5') = expected
  BY <1>1, <1>6, SameCall
<1>10. ChecksMade(x5')
  BY <1>1, <1>2, <1>4, <1>6, <1>9 DEF ChecksMade, At, Consistent
<1>11. x5'.alone => FilesAreOwn(x5', x1', x2')
  BY <1>1, <1>2, <1>6, SameCall DEF FilesAreOwn, At
<1>12. x5'.alone => FailsUnseen(x5', x3', x4', x7'.failures)
  <2>1. x5.alone /\ x5.errors => LeftOut(x5)
    BY <1>1, <1>2 DEF FailsUnseen
  <2>2. x5'.alone /\ x5'.errors => Unseen(x5', x3', x4')
    BY <1>1, <1>5, <1>6, <2>1, SameCall DEF Unseen
  <2> QED BY <1>1, <1>2, <1>4, <1>6, <1>9, <2>2 DEF FailsUnseen, At
<1> QED BY <1>1, <1>6, <1>7, <1>8, <1>10, <1>11, <1>12 DEF HandoffInv, AloneInv

\* The verdict of a verification, whether or not its event was written.
LEMMA RunVerdict ==
  ASSUME x5 \in HandoffRuns, NEW written \in BOOLEAN, Handoffs!Ends(written)
  PROVE  /\ x5' \in HandoffRuns /\ x5'.step = "done" /\ x5'.stage = "verify"
         /\ x5'.ok = IF ~ x5.errors /\ (Handoffs!EventRequired(x5.flags) => written)
                     THEN TRUE ELSE FALSE
         /\ x5'.flags = x5.flags /\ x5'.signing = x5.signing /\ x5'.expected = x5.expected
         /\ x5'.no = x5.no /\ x5'.saw = x5.saw /\ x5'.errors = x5.errors
         /\ x5'.attempts = x5.attempts /\ x5'.alone = x5.alone
<1> DEFINE verdict == ~ x5.errors /\ (Handoffs!EventRequired(x5.flags) => written)
<1>1. x5' = Handoffs!Summary(x5, verdict, "verify")
  BY DEF Handoffs!Ends
<1>2. CASE verdict
  <2>1. x5' = Handoffs!Summary(x5, TRUE, "verify")
    BY <1>1, <1>2 DEF Handoffs!Summary
  <2> QED BY <1>2, <2>1, RunEnds
<1>3. CASE ~ verdict
  <2>1. x5' = Handoffs!Summary(x5, FALSE, "verify")
    BY <1>1, <1>3 DEF Handoffs!Summary
  <2> QED BY <1>3, <2>1, RunEnds
<1> QED BY <1>2, <1>3

\* A verdict keeps what the checks have found.
LEMMA VerdictKeepsFindings ==
  ASSUME HandoffInv, x5.step = "event", NEW written \in BOOLEAN, Handoffs!Ends(written),
         UNCHANGED <<x1, x2, x3, x4>>,
         x5.alone /\ ~ x5.errors /\ ~ written => x7'.failures >= EventAttempts
  PROVE  /\ ChecksMade(x5')
         /\ x5'.alone => FilesAreOwn(x5', x1', x2') /\ FailsUnseen(x5', x3', x4', x7'.failures)
<1>1. /\ x5 \in HandoffRuns /\ ChecksMade(x5)
      /\ x5.alone => FilesAreOwn(x5, x1, x2) /\ FailsUnseen(x5, x3, x4, x7.failures)
  BY OfRun DEF HandoffSteps
<1>2. /\ x5' \in HandoffRuns /\ x5'.step = "done" /\ x5'.stage = "verify"
      /\ x5'.ok = IF ~ x5.errors /\ (Handoffs!EventRequired(x5.flags) => written)
                  THEN TRUE ELSE FALSE
      /\ x5'.flags = x5.flags /\ x5'.signing = x5.signing /\ x5'.expected = x5.expected
      /\ x5'.no = x5.no /\ x5'.saw = x5.saw /\ x5'.errors = x5.errors
      /\ x5'.attempts = x5.attempts /\ x5'.alone = x5.alone
  BY <1>1, RunVerdict
<1>3. Handoffs!Expected(x5') = Handoffs!Expected(x5)
  BY <1>2, SameCall
<1>4. ChecksMade(x5')
  BY <1>1, <1>2, <1>3 DEF ChecksMade, At, Consistent
<1>5. x5'.alone => FilesAreOwn(x5', x1', x2')
  BY <1>1, <1>2, SameCall DEF FilesAreOwn, At
<1>6. x5'.alone /\ x5'.errors => Unseen(x5', x3', x4')
  <2>1. x5.alone /\ x5.errors => Unseen(x5, x3, x4)
    BY <1>1 DEF FailsUnseen, At
  <2> QED BY <1>2, <2>1, SameCall
<1>7. x5'.alone => FailsUnseen(x5', x3', x4', x7'.failures)
  BY <1>1, <1>2, <1>3, <1>6 DEF FailsUnseen, At
<1> QED BY <1>4, <1>5, <1>7

LEMMA AppendEventStep ==
  ASSUME HandoffInv, Handoffs!AppendEvent PROVE HandoffInv'
<1> DEFINE event == [run |-> x5.no, ok |-> ~ x5.errors]
<1>1. /\ x5.step = "event" /\ x6' = x6 \cup {event} /\ Handoffs!Ends(TRUE)
      /\ UNCHANGED <<x1, x2, x3, x4, x7>>
  BY DEF Handoffs!AppendEvent
<1>2. HandoffTypes /\ EventsTold(x5, x6, x7) /\ x5 \in HandoffRuns
  BY <1>1, OfRun DEF HandoffSteps
<1>3. /\ x5' \in HandoffRuns /\ x5'.step = "done" /\ x5'.no = x5.no /\ x5'.attempts = x5.attempts
      /\ x5'.ok = IF ~ x5.errors THEN TRUE ELSE FALSE
  BY <1>1, <1>2, RunVerdict
<1>4. /\ ChecksMade(x5')
      /\ x5'.alone => FilesAreOwn(x5', x1', x2') /\ FailsUnseen(x5', x3', x4', x7'.failures)
  BY <1>1, VerdictKeepsFindings
<1>5. HandoffTypes'
  BY <1>1, <1>2, <1>3 DEF HandoffTypes
<1>6. event.run = x5.no /\ event.ok = x5'.ok
  BY <1>3
<1> HIDE DEF event
<1>7. x5.no \in Nat /\ x5.no <= x7.runs
  BY <1>2 DEF HandoffRuns, EventsTold
<1>8. EventsTold(x5', x6', x7')
  BY <1>1, <1>2, <1>3, <1>6, <1>7 DEF EventsTold
<1> QED BY <1>3, <1>4, <1>5, <1>8 DEF HandoffInv, AloneInv

LEMMA AppendFailsStep ==
  ASSUME HandoffInv, Handoffs!AppendFails PROVE HandoffInv'
<1>1. /\ x5.step = "event" /\ x7' = [x7 EXCEPT !.failures = @ + 1]
      /\ UNCHANGED <<x1, x2, x3, x4, x6>>
  BY DEF Handoffs!AppendFails
<1>2. /\ HandoffTypes /\ EventsTold(x5, x6, x7) /\ x5 \in HandoffRuns /\ ChecksMade(x5)
      /\ x5.alone => FilesAreOwn(x5, x1, x2) /\ FailsUnseen(x5, x3, x4, x7.failures)
  BY <1>1, OfRun DEF HandoffSteps
<1>3. /\ x7' \in [runs : Nat, changes : Nat, failures : Nat, kills : Nat]
      /\ x7'.runs = x7.runs /\ x7'.failures = x7.failures + 1 /\ x7.failures \in Nat
  BY <1>1, <1>2 DEF HandoffTypes
<1>4. x5.attempts \in Nat /\ x5.attempts <= x7.failures /\ EventAttempts \in Nat
  BY <1>2, HandoffsAssumption DEF HandoffRuns, EventsTold
<1>5. CASE x5.attempts + 1 < EventAttempts
  <2> DEFINE r == [x5 EXCEPT !.attempts = @ + 1]
  <2>1. x5' = r
    BY <1>5 DEF Handoffs!AppendFails
  <2>2. /\ r \in HandoffRuns /\ r.step = "event" /\ r.errors = x5.errors /\ r.saw = x5.saw
        /\ r.flags = x5.flags /\ r.signing = x5.signing /\ r.expected = x5.expected
        /\ r.no = x5.no /\ r.attempts = x5.attempts + 1 /\ r.alone = x5.alone
    BY <1>1, <1>2 DEF HandoffRuns
  <2> HIDE DEF r
  <2>3. HandoffTypes'
    BY <1>1, <1>2, <1>3, <2>1, <2>2 DEF HandoffTypes
  <2>4. x5'.attempts <= x7'.failures
    BY <1>3, <1>4, <2>1, <2>2
  <2>5. EventsTold(x5', x6', x7')
    BY <1>1, <1>2, <1>3, <2>1, <2>2, <2>4 DEF EventsTold
  <2>6. Handoffs!Expected(x5') = Handoffs!Expected(x5)
    BY <2>1, <2>2, SameCall
  <2>7. ChecksMade(x5')
    BY <1>1, <1>2, <2>1, <2>2, <2>6 DEF ChecksMade, At, Consistent
  <2>8. x5'.alone => FilesAreOwn(x5', x1', x2')
    BY <1>1, <1>2, <2>1, <2>2, SameCall DEF FilesAreOwn, At
  <2>9. x5'.alone => FailsUnseen(x5', x3', x4', x7'.failures)
    <3>1. x5'.alone /\ x5'.errors => Unseen(x5', x3', x4')
      <4>1. x5.alone /\ x5.errors => Unseen(x5, x3, x4)
        BY <1>1, <1>2 DEF FailsUnseen, At
      <4> QED BY <1>1, <2>1, <2>2, <4>1, SameCall
    <3> QED BY <1>1, <1>2, <2>1, <2>2, <2>6, <3>1 DEF FailsUnseen, At
  <2> QED BY <2>1, <2>2, <2>3, <2>5, <2>7, <2>8, <2>9 DEF HandoffInv, AloneInv
<1>6. CASE ~ (x5.attempts + 1 < EventAttempts)
  <2>1. Handoffs!Ends(FALSE)
    BY <1>6 DEF Handoffs!AppendFails
  <2>2. x7'.failures >= EventAttempts
    BY <1>3, <1>4, <1>6
  <2>3. /\ x5' \in HandoffRuns /\ x5'.step = "done" /\ x5'.no = x5.no /\ x5'.attempts = x5.attempts
        /\ x5'.flags = x5.flags /\ (x5'.ok => ~ Handoffs!EventRequired(x5.flags))
    BY <1>2, <2>1, RunVerdict
  <2>4. /\ ChecksMade(x5')
        /\ x5'.alone => FilesAreOwn(x5', x1', x2') /\ FailsUnseen(x5', x3', x4', x7'.failures)
    BY <1>1, <2>1, <2>2, VerdictKeepsFindings
  <2>5. HandoffTypes'
    BY <1>1, <1>2, <1>3, <2>3 DEF HandoffTypes
  <2>6. x5'.attempts <= x7'.failures
    BY <1>3, <1>4, <2>3
  <2>7. EventsTold(x5', x6', x7')
    BY <1>1, <1>2, <1>3, <2>2, <2>3, <2>6 DEF EventsTold
  <2> QED BY <2>3, <2>4, <2>5, <2>7 DEF HandoffInv, AloneInv
<1> QED BY <1>5, <1>6

\* What else changes on the host disturbs the run that has begun.
LEMMA HostChanges ==
  ASSUME HandoffInv, Handoffs!Change,
         x1' \in HandoffBundles \cup {None, Torn}, x2' \in HandoffManifests \cup {None, Torn},
         x4' \in {{"root"}, {"next"}, None}
  PROVE  HandoffInv'
<1>1. /\ x7' = [x7 EXCEPT !.changes = @ + 1] /\ x6' = x6
      /\ x5' = IF x5 = Handoffs!Idle THEN x5 ELSE [x5 EXCEPT !.alone = FALSE]
  BY DEF Handoffs!Change
<1>2. HandoffTypes /\ EventsTold(x5, x6, x7) /\ (x5 \in HandoffRuns => ChecksMade(x5))
  BY DEF HandoffInv
<1>3. /\ x7' \in [runs : Nat, changes : Nat, failures : Nat, kills : Nat]
      /\ x7'.runs = x7.runs /\ x7'.failures = x7.failures
  BY <1>1, <1>2 DEF HandoffTypes
<1>4. CASE x5 = Handoffs!Idle
  <2>1. x5' = x5 /\ x5 \notin HandoffRuns /\ x5.step # "done"
    BY <1>1, <1>4, RunsDiffer
  <2>2. EventsTold(x5', x6', x7')
    BY <1>1, <1>2, <1>3, <2>1 DEF EventsTold
  <2> QED BY <1>2, <1>3, <2>1, <2>2 DEF HandoffInv, HandoffTypes, AloneInv
<1>5. CASE x5 # Handoffs!Idle
  <2> DEFINE r == [x5 EXCEPT !.alone = FALSE]
  <2>1. x5' = r /\ x5 \in HandoffRuns
    BY <1>1, <1>2, <1>5 DEF HandoffTypes
  <2>2. /\ r \in HandoffRuns /\ r.step = x5.step /\ r.errors = x5.errors /\ r.saw = x5.saw
        /\ r.flags = x5.flags /\ r.signing = x5.signing /\ r.expected = x5.expected
        /\ r.no = x5.no /\ r.attempts = x5.attempts /\ ~ r.alone
        /\ r.ok = x5.ok /\ r.stage = x5.stage
    BY <2>1 DEF HandoffRuns
  <2> HIDE DEF r
  <2>3. HandoffTypes'
    BY <1>3, <2>1, <2>2 DEF HandoffTypes
  <2>4. EventsTold(x5', x6', x7')
    BY <1>1, <1>2, <1>3, <2>1, <2>2 DEF EventsTold
  <2>5. Handoffs!Expected(x5') = Handoffs!Expected(x5)
    BY <2>1, <2>2, SameCall
  <2>6. ChecksMade(x5')
    BY <1>2, <2>1, <2>2, <2>5 DEF ChecksMade, At, Consistent
  <2> QED BY <2>1, <2>2, <2>3, <2>4, <2>6 DEF HandoffInv, AloneInv
<1> QED BY <1>4, <1>5

LEMMA KillHandoffStep ==
  ASSUME HandoffInv, Handoffs!Kill PROVE HandoffInv'
<1>1. /\ x7' = [x7 EXCEPT !.kills = @ + 1] /\ x1' \in {x1, Torn} /\ x2' \in {x2, Torn}
      /\ x5' = Handoffs!Idle /\ UNCHANGED <<x3, x4, x6>>
  BY DEF Handoffs!Kill
<1>2. HandoffTypes /\ EventsTold(x5, x6, x7)
  BY DEF HandoffInv
<1>3. /\ x7' \in [runs : Nat, changes : Nat, failures : Nat, kills : Nat]
      /\ x7'.runs = x7.runs
  BY <1>1, <1>2 DEF HandoffTypes
<1>4. x5' \notin HandoffRuns /\ x5'.step # "done"
  BY <1>1, RunsDiffer
<1>5. EventsTold(x5', x6', x7')
  BY <1>1, <1>2, <1>3, <1>4 DEF EventsTold
<1> QED BY <1>1, <1>2, <1>3, <1>4, <1>5 DEF HandoffInv, HandoffTypes, AloneInv

LEMMA HandoffStep ==
  ASSUME HandoffInv, Handoffs!Next \/ UNCHANGED <<x1, x2, x3, x4, x5, x6, x7>>
  PROVE  HandoffInv'
<1>1. HandoffTypes
  BY DEF HandoffInv
<1>2. CASE UNCHANGED <<x1, x2, x3, x4, x5, x6, x7>>
  BY <1>2 DEF HandoffInv, HandoffTypes, AloneInv
<1>3. ASSUME NEW flags \in HandoffFlags, NEW signing \in Ids \cup {None},
             NEW expected \in Ids \cup {None}, Handoffs!Start(flags, signing, expected)
      PROVE  HandoffInv'
  BY <1>3, StartStep
<1>4. ASSUME \/ Handoffs!WriteBundle \/ Handoffs!WriteManifest \/ Handoffs!LoadManifest
             \/ Handoffs!CheckBundle \/ Handoffs!CheckKeys
             \/ Handoffs!AppendEvent \/ Handoffs!AppendFails \/ Handoffs!Kill
      PROVE  HandoffInv'
  BY <1>4, WriteOwnBundleStep, WriteOwnManifestStep, LoadManifestStep, CheckBundleStep,
     CheckKeysStep, AppendEventStep, AppendFailsStep, KillHandoffStep
<1>5. CASE Handoffs!Prune
  BY <1>1, <1>5, HostChanges DEF Handoffs!Prune, HandoffTypes
<1>6. ASSUME NEW reports \in {0, None}, Handoffs!OtherBundle(reports) PROVE HandoffInv'
  <2>1. [by |-> 0, reports |-> reports] \in HandoffBundles
    BY DEF HandoffBundles
  <2> QED BY <1>1, <1>6, <2>1, HostChanges DEF Handoffs!OtherBundle, HandoffTypes
<1>7. ASSUME NEW reports \in {0, None}, NEW id \in Ids, NEW pair \in Handoffs!Pairs,
             Handoffs!OtherManifest(reports, id, pair)
      PROVE  HandoffInv'
  <2>1. x1 \in HandoffBundles /\ pair \in Nat
    BY <1>1, <1>7 DEF Handoffs!OtherManifest, HandoffTypes, Handoffs!Pairs
  <2>2. [of |-> x1, reports |-> reports, sign |-> [id |-> id, pair |-> pair]] \in HandoffManifests
    BY <2>1 DEF HandoffManifests
  <2> QED BY <1>1, <1>7, <2>2, HostChanges DEF Handoffs!OtherManifest, HandoffTypes
<1>8. ASSUME NEW id \in Ids, Handoffs!Rotate(id) PROVE HandoffInv'
  BY <1>1, <1>8, HostChanges DEF Handoffs!Rotate, HandoffTypes
<1>9. ASSUME NEW roots \in {{"root"}, {"next"}}, Handoffs!ReplaceTrust(roots) PROVE HandoffInv'
  BY <1>1, <1>9, HostChanges DEF Handoffs!ReplaceTrust, HandoffTypes
<1> QED BY <1>2, <1>3, <1>4, <1>5, <1>6, <1>7, <1>8, <1>9 DEF Handoffs!Next

LEMMA HandoffsTell ==
  ASSUME HandoffInv
  PROVE  Handoffs!OkHandoffIsEvidence /\ Handoffs!ChainTellsVerdicts /\ Handoffs!PreflightPredicts
<1> SUFFICES ASSUME Handoffs!Finished
             PROVE  Handoffs!OkHandoffIsEvidence /\ Handoffs!ChainTellsVerdicts
                    /\ Handoffs!PreflightPredicts
  BY DEF Handoffs!OkHandoffIsEvidence, Handoffs!ChainTellsVerdicts, Handoffs!PreflightPredicts
<1>1. x5.step = "done" /\ x5.stage # "preflight"
  BY DEF Handoffs!Finished
<1>2. /\ EventsTold(x5, x6, x7) /\ x5 \in HandoffRuns /\ ChecksMade(x5)
      /\ x5.alone => FilesAreOwn(x5, x1, x2) /\ FailsUnseen(x5, x3, x4, x7.failures)
  BY <1>1, OfRun DEF HandoffSteps
<1>3. x5.stage \in {"export", "verify"}
  BY <1>1, <1>2 DEF ChecksMade, HandoffRuns
<1>4. x5.ok => /\ x5.stage = "verify" /\ ~ x5.errors /\ Consistent(x5)
               /\ x5.saw.sign.id = Handoffs!Expected(x5)
  BY <1>1, <1>2, <1>3 DEF ChecksMade, At
<1>5. Handoffs!OkHandoffIsEvidence
  <2> SUFFICES ASSUME x5.ok
               PROVE  /\ x5.saw.sign.id = Handoffs!Expected(x5) /\ x5.saw.reports = x5.saw.of.reports
                      /\ x5.saw.reports = None => ~ Handoffs!ReportsRequired(x5.flags)
                      /\ x5.alone =>
                           /\ x1 = x2.of /\ x1.by = x5.no
                           /\ x3.signer \in x4 /\ x3.keys[Handoffs!Expected(x5)] = x2.sign.pair
    BY DEF Handoffs!OkHandoffIsEvidence
  <2>1. x5.alone => x1 = OwnBundle(x5) /\ x2 = OwnManifest(x5) /\ x5.saw = x2
    BY <1>1, <1>2, <1>4 DEF FilesAreOwn, At
  <2>2. x5.alone => x1 = x2.of /\ x1.by = x5.no
    BY <1>2, <2>1, OwnFiles
  <2>3. x5.alone => x3.signer \in x4 /\ x3.keys[Handoffs!Expected(x5)] = x5.saw.sign.pair
    BY <1>1, <1>2, <1>4 DEF FailsUnseen, At
  <2> QED BY <1>4, <2>1, <2>2, <2>3 DEF Consistent
<1>6. Handoffs!ChainTellsVerdicts
  BY <1>1, <1>2, <1>4 DEF EventsTold, Handoffs!ChainTellsVerdicts
<1>7. Handoffs!PreflightPredicts
  <2> SUFFICES ASSUME x5.alone, ~ x5.ok PROVE Handoffs!BlindSpot \/ x7.failures >= EventAttempts
    BY DEF Handoffs!PreflightPredicts
  <2>1. Unseen(x5, x3, x4) => Handoffs!BlindSpot
    BY DEF Unseen, LeftOut, Handoffs!BlindSpot
  <2>2. Unseen(x5, x3, x4) \/ x7.failures >= EventAttempts
    BY <1>1, <1>2, <1>3 DEF FailsUnseen, At
  <2> QED BY <2>1, <2>2
<1> QED BY <1>5, <1>6, <1>7

=============================================================================
