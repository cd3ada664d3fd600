----------------------------- MODULE EmbedIndex -----------------------------
(***************************************************************************)
(* The embedding index: the Rust pipeline of each process holds all its    *)
(* documents in memory, reads the index file once, and rewrites the whole  *)
(* file after every change, silently giving up when it cannot.  The        *)
(* TypeScript adapter in front of it caches search results for a while.    *)
(* A search is abstracted to the documents it ranks.                       *)
(***************************************************************************)
EXTENDS Integers, FiniteSets

CONSTANTS
  Procs, Ids, Texts,
  None,               \* no document, no file
  Torn,               \* a file that cannot be parsed
  Sizes,              \* length of a text
  Limits,             \* values of max_text_bytes a process may be configured with
  Ttl, MaxTime,       \* time a search result is cached, bound on the clock
  MaxFaults, MaxStores

VARIABLES
  index, temp,        \* embed index file: documents, None or Torn; its temporary file
  proc,               \* process -> whether it loaded the index, its documents, its limit,
                      \* the file it is writing, the cached search
  now, faults, stores,
  acked,              \* history: the documents after the last change somebody was told of
  excused             \* history: a save failed, or two processes had the index loaded

vars == <<index, temp, proc, now, faults, stores, acked, excused>>

Docs == [Ids -> Texts \cup {None}]
NoDocs == [i \in Ids |-> None]
NoResult == [found |-> NoDocs, expires |-> 0]
Fresh == [loaded |-> FALSE, docs |-> NoDocs, limit |-> 0, saving |-> "no", result |-> NoResult,
          outdated |-> FALSE]   \* history: the cached result was found before the last reset

Init ==
  /\ index = None /\ temp = None
  /\ proc = [p \in Procs |-> Fresh]
  /\ now = 0 /\ faults = 0 /\ stores = 0
  /\ acked = NoDocs /\ excused = FALSE

Fault == faults < MaxFaults /\ faults' = faults + 1
Others(p) == {q \in Procs \ {p} : proc[q].loaded}

\* load_docs_from_disk: an index that is missing, unreadable or corrupt gives no documents,
\* and a document above this process's limit is passed over.
Within(limit, docs) ==
  [i \in Ids |-> IF docs[i] # None /\ Sizes[docs[i]] > limit THEN None ELSE docs[i]]
Loadable(limit) == IF index \in {None, Torn} THEN NoDocs ELSE Within(limit, index)
\* get_embed_pipeline: the first call in the process.
Load(p, limit) ==
  /\ ~ proc[p].loaded
  /\ proc' = [proc EXCEPT ![p] = [Fresh EXCEPT !.loaded = TRUE, !.limit = limit,
                                               !.docs = Loadable(limit)]]
  /\ excused' = (excused \/ Others(p) # {})
  /\ UNCHANGED <<index, temp, now, faults, stores, acked>>

\* A change is made in memory and answered whatever becomes of the file.
Change(p, docs, result) ==
  /\ proc[p].loaded /\ proc[p].saving = "no" /\ stores < MaxStores
  /\ stores' = stores + 1 /\ acked' = docs
  /\ proc' = [proc EXCEPT ![p].docs = docs, ![p].saving = "begin", ![p].result = result,
                          ![p].outdated = @ \/ docs = NoDocs]
  /\ UNCHANGED <<index, temp, now, faults, excused>>
Upsert(p, i, text) ==
  /\ Sizes[text] <= proc[p].limit
  /\ Change(p, [proc[p].docs EXCEPT ![i] = text], proc[p].result)
\* embedReset drops the cached searches, then the documents.
AfterReset(p) == NoResult
Reset(p) == Change(p, NoDocs, AfterReset(p))

\* persist_best_effort: <index>.tmp, which all processes share, then a rename.
BeginSave(p) ==
  /\ proc[p].saving = "begin"
  /\ temp' = Torn
  /\ proc' = [proc EXCEPT ![p].saving = "write"]
  /\ UNCHANGED <<index, now, faults, stores, acked, excused>>
WriteTemp(p) ==
  /\ proc[p].saving = "write"
  /\ temp' = proc[p].docs
  /\ proc' = [proc EXCEPT ![p].saving = "rename"]
  /\ UNCHANGED <<index, now, faults, stores, acked, excused>>
RenameTorn(p) ==
  /\ proc[p].saving \in {"write", "rename"}
  /\ index' = temp /\ temp' = None
  /\ proc' = [proc EXCEPT ![p].saving = "no"]
  /\ UNCHANGED <<now, faults, stores, acked, excused>>
Rename(p) ==
  /\ proc[p].saving = "rename"
  /\ index' = IF temp = None THEN index ELSE temp
  /\ temp' = None
  /\ proc' = [proc EXCEPT ![p].saving = "no"]
  /\ UNCHANGED <<now, faults, stores, acked, excused>>
SaveFails(p) ==
  /\ proc[p].saving # "no" /\ Fault
  /\ excused' = TRUE
  /\ proc' = [proc EXCEPT ![p].saving = "no"]
  /\ UNCHANGED <<index, temp, now, stores, acked>>

\* search and search_tuned score every document; the order and top_k are left out.
Ranked(p) == proc[p].docs
\* embedSearch: a cached result until it expires; a store does not drop it.
Cached(p) == now < proc[p].result.expires
Search(p) ==
  /\ proc[p].loaded /\ proc[p].saving = "no" /\ ~ Cached(p)
  /\ proc' = [proc EXCEPT ![p].result = [found |-> Ranked(p), expires |-> now + Ttl],
                          ![p].outdated = FALSE]
  /\ UNCHANGED <<index, temp, now, faults, stores, acked, excused>>

\* The process ends, or is killed while it writes.
Exit(p) ==
  /\ proc[p].loaded
  /\ IF proc[p].saving = "no" THEN UNCHANGED <<faults, excused>> ELSE Fault /\ excused' = TRUE
  /\ proc' = [proc EXCEPT ![p] = Fresh]
  /\ UNCHANGED <<index, temp, now, stores, acked>>

Tick ==
  /\ now < MaxTime /\ now' = now + 1
  /\ UNCHANGED <<index, temp, proc, faults, stores, acked, excused>>

Next ==
  \/ Tick
  \/ \E p \in Procs :
       \/ BeginSave(p) \/ WriteTemp(p) \/ Rename(p) \/ SaveFails(p)
       \/ Reset(p) \/ Search(p) \/ Exit(p)
       \/ \E limit \in Limits : Load(p, limit)
       \/ \E i \in Ids, text \in Texts : Upsert(p, i, text)

Spec == Init /\ [][Next]_vars

(***************************************************************************)
(* Properties                                                              *)
(***************************************************************************)
\* The index is rewritten as a whole, from one process's memory, and read only at its start:
\* through restarts a working process has every document of the last acknowledged change that
\* its text limit admits, unless a save failed, which nobody is told of, or another process
\* had the index loaded.  (A store under a smaller limit makes the omission permanent.)
DocumentsSurvive ==
  excused \/ \A p \in Procs : proc[p].loaded => proc[p].docs = Within(proc[p].limit, acked)

\* embedStore leaves cached searches in place, so an answer may lack the newest documents;
\* it never shows a document that a reset of the same process has removed.
NoResultOutlivesAReset ==
  \A p \in Procs : Cached(p) /\ proc[p].outdated => proc[p].result.found = NoDocs
=============================================================================
