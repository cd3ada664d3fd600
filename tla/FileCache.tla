----------------------------- MODULE FileCache ------------------------------
(***************************************************************************)
(* FileCache.read: contents cached under the modification time that a stat *)
(* after the read reports. Every file operation is awaited, so reads of    *)
(* one file overlap with each other and with writers of the file; the time *)
(* of two writes may be the same.                                          *)
(***************************************************************************)
EXTENDS Integers, Sequences, FiniteSetsExt

CONSTANTS
  Files, Reads,
  Sizes,          \* Sizes[v]: bytes of version v of a file
  MaxSize,        \* the limit in bytes
  MaxTime         \* bound on the clock

NoFile == [v |-> 0, mtime |-> 0]

VARIABLES
  disk,           \* file -> version and modification time
  cache,          \* file -> version and modification time kept, or NoFile
  currentSize,    \* the counter of cached bytes
  now,
  read,           \* read -> [at, file, seen]: seen is the entry or content read so far
  blurred,        \* files written between a read and its stat, or twice at one time
  overlapped      \* since the last clear, a file was stored over a copy cached meanwhile

fileVars == <<disk, cache, currentSize, now, read, blurred, overlapped>>

Cached == {f \in Files : cache[f] # NoFile}
Bytes(v) == IF v = 0 THEN 0 ELSE Sizes[v]
CachedBytes(fs) == MapThenSumSet(LAMBDA f : Bytes(cache[f].v), fs)

Init ==
  /\ disk = [f \in Files |-> [v |-> 1, mtime |-> 1]] /\ now = 1
  /\ cache = [f \in Files |-> NoFile] /\ currentSize = 0
  /\ read = [r \in Reads |-> [at |-> "new", file |-> "none", seen |-> NoFile]]
  /\ blurred = {} /\ overlapped = FALSE

\* A writer outside the cache, and the clock that stamps its files.
Write(f) ==
  /\ disk[f].v < Len(Sizes)
  /\ disk' = [disk EXCEPT ![f] = [v |-> @.v + 1, mtime |-> now]]
  /\ blurred' = IF disk[f].mtime = now \/ \E r \in Reads : read[r].at = "stat" /\ read[r].file = f
                THEN blurred \cup {f} ELSE blurred
  /\ UNCHANGED <<cache, currentSize, now, read, overlapped>>
Tick ==
  /\ now < MaxTime /\ now' = now + 1
  /\ UNCHANGED <<disk, cache, currentSize, read, blurred, overlapped>>

\* evict: the size leaves the counter only with an entry.
Evict(f) ==
  /\ cache' = [cache EXCEPT ![f] = NoFile]
  /\ currentSize' = currentSize - Bytes(cache[f].v)

Lookup(r, f) ==
  /\ read[r].at = "new"
  /\ read' = [read EXCEPT ![r] = [at |-> IF f \in Cached THEN "check" ELSE "readFile",
                                  file |-> f, seen |-> cache[f]]]
  /\ UNCHANGED <<disk, cache, currentSize, now, blurred, overlapped>>

\* The entry found before the stat is compared and returned, whatever became of it since.
Hit(r) ==
  /\ read[r].at = "check" /\ read[r].seen.mtime = disk[read[r].file].mtime
  /\ read' = [read EXCEPT ![r].at = "done"]
  /\ UNCHANGED <<disk, cache, currentSize, now, blurred, overlapped>>
Modified(r) ==
  /\ read[r].at = "check" /\ read[r].seen.mtime # disk[read[r].file].mtime
  /\ Evict(read[r].file)
  /\ read' = [read EXCEPT ![r].at = "readFile"]
  /\ UNCHANGED <<disk, now, blurred, overlapped>>

ReadFile(r) ==
  /\ read[r].at = "readFile"
  /\ read' = [read EXCEPT ![r].at = "stat", ![r].seen = [v |-> disk[read[r].file].v, mtime |-> 0]]
  /\ UNCHANGED <<disk, cache, currentSize, now, blurred, overlapped>>

\* Oldest files first, until the new one fits or nothing is left.
Fits(kept, size) ==
  kept = {} \/ currentSize - CachedBytes(Cached \ kept) + size <= MaxSize
MakeRoom(kept, size) ==
  /\ Fits(kept, size)
  /\ \A k \in kept, e \in Cached \ kept : cache[e].mtime <= cache[k].mtime
  /\ kept = Cached \/ \E last \in Cached \ kept :
       /\ \A e \in Cached \ kept : cache[e].mtime <= cache[last].mtime
       /\ ~ Fits(kept \cup {last}, size)

StatedNow(f) == now
Stated(f) == disk[f].mtime
Store(r) == \E kept \in SUBSET Cached :
  LET f == read[r].file
      size == Bytes(read[r].seen.v)
  IN
  /\ read[r].at = "stat"
  /\ MakeRoom(kept, size)
  /\ cache' = [g \in Files |-> IF g = f THEN [v |-> read[r].seen.v, mtime |-> Stated(f)]
                               ELSE IF g \in kept THEN cache[g] ELSE NoFile]
  /\ currentSize' = currentSize - CachedBytes(Cached \ kept) + size
  /\ overlapped' = (overlapped \/ f \in kept)
  /\ read' = [read EXCEPT ![r].at = "done"]
  /\ UNCHANGED <<disk, now, blurred>>

\* invalidate and invalidatePattern; clear also resets the counter.
Invalidate(fs) ==
  /\ fs # {} /\ cache' = [f \in Files |-> IF f \in fs THEN NoFile ELSE cache[f]]
  /\ currentSize' = currentSize - CachedBytes(fs)
  /\ UNCHANGED <<disk, now, read, blurred, overlapped>>
Clear ==
  /\ cache' = [f \in Files |-> NoFile] /\ currentSize' = 0 /\ overlapped' = FALSE
  /\ UNCHANGED <<disk, now, read, blurred>>

Next ==
  \/ Tick \/ Clear
  \/ \E fs \in SUBSET Cached : Invalidate(fs)
  \/ \E f \in Files : Write(f) \/ \E r \in Reads : Lookup(r, f)
  \/ \E r \in Reads : Hit(r) \/ Modified(r) \/ ReadFile(r) \/ Store(r)

Spec == Init /\ [][Next]_fileVars

-----------------------------------------------------------------------------
(* Properties.                                                             *)

\* What the modification time accepts as a hit is the file's present content, unless the
\* file was written between a read and its stat or twice within the clock's resolution.
HitsAreCurrent ==
  \A f \in Cached \ blurred : cache[f].mtime = disk[f].mtime => cache[f].v = disk[f].v

\* Overlapping reads of a file count its bytes twice and never too few: the cached bytes
\* stay within the limit unless one file alone is larger, and without such an overlap the
\* counter is exact.
BytesAreBounded ==
  /\ CachedBytes(Cached) <= currentSize
  /\ CachedBytes(Cached) <= MaxSize \/ Cardinality(Cached) = 1
  /\ overlapped \/ currentSize = CachedBytes(Cached)

=============================================================================
