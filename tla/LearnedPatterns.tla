-------------------------- MODULE LearnedPatterns ---------------------------
(***************************************************************************)
(* What the cognitive models learn and keep: the feedback on suggested     *)
(* tags (cognitive/learning.ts) and the decision patterns of Model C       *)
(* (cognitive/model-c.ts).  Both stores are read once, when a process      *)
(* opens them, and rewritten whole after every change; a file that cannot  *)
(* be parsed is an empty one.                                              *)
(***************************************************************************)
EXTENDS Integers, Sequences, FiniteSets, SequencesExt, FiniteSetsExt

CONSTANTS
  Procs, Tags,
  Histories,           \* the decisions of the chains: sequences of [hour, day, tags, chain]
  MinOccurrences,      \* patternMinOccurrences
  Absent, Torn, None,
  MaxChanges, MaxFaults

VARIABLES
  file,                \* "feedback", "patterns" -> what is stored, Absent or Torn
  proc,                \* process -> step, store, the data of it, the groups still to learn
  blocks,              \* the decisions
  events,              \* the `patterns` chain: [context, occurrences]
  changes, faults,
  learned,             \* history: what the changes amount to
  spoiled              \* history: stores two processes held, a kill tore or a save did not reach

vars == <<file, proc, blocks, events, changes, faults, learned, spoiled>>

Stores == {"feedback", "patterns"}
Unseen == [accepted |-> 0, rejected |-> 0, alias |-> None]
Fresh(s) == IF s = "feedback" THEN [t \in Tags |-> Unseen] ELSE <<>>
Blank == [s \in Stores |-> Fresh(s)]
Idle == [step |-> "idle", store |-> None, data |-> Blank, groups |-> <<>>, at |-> 0]
Init ==
  /\ file = [s \in Stores |-> Absent] /\ proc = [p \in Procs |-> Idle]
  /\ blocks \in Histories /\ events = <<>>
  /\ changes = 0 /\ faults = 0
  /\ learned = Blank /\ spoiled = {}

-----------------------------------------------------------------------------

\* getAcceptanceRate, in twentieths of the number of answers; 0.1 and 0.9 bound it.
Total(f) == f.accepted + f.rejected
Rate(f) == f.accepted * (10 + Min({Total(f), 10}))
Clamped(f) ==
  LET unit == 20 * Total(f)
  IN CASE Total(f) = 0 -> <<1, 2>>
       [] 10 * Rate(f) < unit -> <<1, 10>>
       [] 10 * Rate(f) > 9 * unit -> <<9, 10>>
       [] OTHER -> <<Rate(f), unit>>
AtMost(a, b) == a[1] * b[2] <= b[1] * a[2]

\* recordFeedback.
Judged(f, action, tag) ==
  CASE action = "accept" -> [f EXCEPT !.accepted = @ + 1]
    [] action = "reject" -> [f EXCEPT !.rejected = @ + 1]
    [] action = "modify" -> [f EXCEPT !.alias = tag]

\* contextToKey: a quarter of the day, the weekday and the tags, whatever the chain.
Key(c) == <<c.hour \div 6, c.day, c.tags>>
\* groupBySimilarContext, in the order of each group's first decision; small groups are left out.
First(i) == \A j \in 1..(i - 1) : Key(blocks[j]) # Key(blocks[i])
GroupAt(i) == [context |-> blocks[i],
               occurrences |-> Cardinality({j \in DOMAIN blocks : Key(blocks[j]) = Key(blocks[i])})]
BigEnough(g) == g.occurrences >= MinOccurrences
Groups ==
  SelectSeq([n \in 1..Cardinality({i \in DOMAIN blocks : First(i)}) |->
               GroupAt(CHOOSE i \in DOMAIN blocks :
                 First(i) /\ Cardinality({j \in 1..i : First(j)}) = n)], BigEnough)

\* calculateContextSimilarity >= contextSimilarityThreshold (0.7), of the factors there are.
AreSimilar(a, b) ==
  LET all == Cardinality(a.tags \cup b.tags)
      unit == IF all = 0 THEN 1 ELSE all
      apart == IF a.hour < b.hour THEN b.hour - a.hour ELSE a.hour - b.hour
      Same(f) == IF a[f] = b[f] THEN 120 * unit ELSE 0
  IN 10 * unit * (12 - Min({apart, 12})) + Same("day") + Same("chain")
       + 120 * Cardinality(a.tags \cap b.tags) >= 84 * unit * (IF all = 0 THEN 3 ELSE 4)

\* findSimilarPattern, the first one stored, and what learn makes of a group.
Found(patterns, g) ==
  Min({Len(patterns) + 1}
      \cup {i \in DOMAIN patterns : AreSimilar(g.context, patterns[i].context)})
Learnt(patterns, g) ==
  IF Found(patterns, g) > Len(patterns)
    THEN Append(patterns, g)
    ELSE [patterns EXCEPT ![Found(patterns, g)].occurrences = @ + g.occurrences]
-----------------------------------------------------------------------------

Holds(p, s) == proc[p].store = s
Held(p) == proc[p].data[proc[p].store]
\* load: a file that is not there, or is not JSON, holds nothing.
Open(p, s) ==
  /\ proc[p] = Idle
  /\ proc' = [proc EXCEPT ![p] = [Idle EXCEPT !.step = "open", !.store = s,
                !.data[s] = IF file[s] \in {Absent, Torn} THEN @ ELSE file[s]]]
  /\ spoiled' = IF \E q \in Procs : Holds(q, s) THEN spoiled \cup {s} ELSE spoiled
  /\ UNCHANGED <<file, blocks, events, changes, faults, learned>>
Leave(p) ==
  /\ proc[p].step = "open"
  /\ proc' = [proc EXCEPT ![p] = Idle]
  /\ UNCHANGED <<file, blocks, events, changes, faults, learned, spoiled>>

\* A change is made in memory and the whole store saved.
Counted == changes < MaxChanges /\ changes' = changes + 1
Changes(p, s, data, sum, at) ==
  /\ proc' = [proc EXCEPT ![p].data[s] = data, ![p].step = "save", ![p].at = at]
  /\ learned' = [learned EXCEPT ![s] = sum]
  /\ UNCHANGED <<file, blocks, events, faults, spoiled>>
Feedback(p, t, action, u) ==
  /\ proc[p].step = "open" /\ Holds(p, "feedback") /\ Counted
  /\ Changes(p, "feedback", [Held(p) EXCEPT ![t] = Judged(@, action, u)],
             [learned["feedback"] EXCEPT ![t] = Judged(@, action, u)], 0)
\* `memphis learn --reset`, and import.
Replace(p, data) ==
  /\ proc[p].step = "open" /\ Holds(p, "feedback") /\ Counted
  /\ Changes(p, "feedback", data, data, 0)

\* learn: one group after the other, each stored and then told to the chain.
Learn(p) ==
  /\ proc[p].step = "open" /\ Holds(p, "patterns") /\ Groups # <<>> /\ Counted
  /\ proc' = [proc EXCEPT ![p].groups = Groups, ![p].step = "group"]
  /\ UNCHANGED <<file, blocks, events, faults, learned, spoiled>>
LearnGroup(p) ==
  LET g == Head(proc[p].groups) IN
  /\ proc[p].step = "group"
  /\ Changes(p, "patterns", Learnt(Held(p), g), Learnt(learned["patterns"], g),
             Found(Held(p), g))
  /\ UNCHANGED changes
Tell(p) ==
  LET told == Held(p)[proc[p].at] IN
  /\ proc[p].step = "tell"
  /\ \/ events' = Append(events, told) /\ UNCHANGED faults
     \/ faults < MaxFaults /\ faults' = faults + 1 /\ UNCHANGED events
  /\ proc' = [proc EXCEPT ![p].groups = Tail(@), ![p].at = 0,
                ![p].step = IF Len(proc[p].groups) = 1 THEN "open" ELSE "group"]
  /\ UNCHANGED <<file, blocks, changes, learned, spoiled>>

\* save: the file is truncated, then written; an error is logged and the change stays in memory.
Saved(p) == IF Holds(p, "patterns") THEN "tell" ELSE "open"
Truncate(p) ==
  /\ proc[p].step = "save"
  /\ \/ /\ file' = [file EXCEPT ![proc[p].store] = Torn]
        /\ proc' = [proc EXCEPT ![p].step = "write"] /\ UNCHANGED <<faults, spoiled>>
     \/ /\ faults < MaxFaults /\ faults' = faults + 1 /\ spoiled' = spoiled \cup {proc[p].store}
        /\ proc' = [proc EXCEPT ![p].step = Saved(p)] /\ UNCHANGED file
  /\ UNCHANGED <<blocks, events, changes, learned>>
Write(p) ==
  /\ proc[p].step = "write"
  /\ file' = [file EXCEPT ![proc[p].store] = Held(p)]
  /\ proc' = [proc EXCEPT ![p].step = Saved(p)]
  /\ UNCHANGED <<blocks, events, changes, faults, learned, spoiled>>

Kill(p) ==
  /\ proc[p] # Idle /\ faults < MaxFaults /\ faults' = faults + 1
  /\ proc' = [proc EXCEPT ![p] = Idle]
  /\ spoiled' = IF proc[p].step \in {"save", "write", "group", "tell"}
                  THEN spoiled \cup {proc[p].store} ELSE spoiled
  /\ UNCHANGED <<file, blocks, events, changes, learned>>

Next ==
  \E p \in Procs :
    \/ \E s \in Stores : Open(p, s)
    \/ \E t, u \in Tags, action \in {"accept", "reject", "modify"} : Feedback(p, t, action, u)
    \/ Replace(p, Fresh("feedback"))
    \/ \E t \in Tags : Replace(p, [Fresh("feedback") EXCEPT ![t].accepted = 1])
    \/ Leave(p) \/ Learn(p) \/ LearnGroup(p) \/ Tell(p) \/ Truncate(p) \/ Write(p) \/ Kill(p)
Spec == Init /\ [][Next]_vars

-----------------------------------------------------------------------------

\* A store holds all that was learned, over the processes that opened it one after the other,
\* unless two held it at once, one was killed before it had saved, or a save failed.
StoresKeepWhatWasLearned ==
  \A s \in Stores \ spoiled :
    (\A p \in Procs : Holds(p, s) => proc[p].step = "open") =>
      file[s] = learned[s] \/ (file[s] = Absent /\ learned[s] = Fresh(s))

\* However the groups of a history merge into patterns, a pass of learn counts each decision of
\* a group that is large enough exactly once (and a second pass counts them all again), and the
\* chain was told every pattern as it is stored.
DecisionsAreCounted ==
  LET patterns == file["patterns"]
      Sum(q) == FoldSeq(LAMBDA g, n : n + g.occurrences, 0, q)
      settled == \A p \in Procs : Holds(p, "patterns") => proc[p].step = "open"
  IN "patterns" \notin spoiled /\ settled /\ patterns # Absent =>
       /\ \E passes \in 1..changes : Sum(patterns) = passes * Sum(Groups)
       /\ faults = 0 => ToSet(patterns) \subseteq ToSet(events)

\* An answer moves the acceptance rate of its tag its own way, or leaves it at a bound.
RatesFollowFeedback ==
  \A p \in Procs : Holds(p, "feedback") => \A t \in Tags :
    LET f == Held(p)[t]
    IN /\ AtMost(Clamped(f), Clamped(Judged(f, "accept", t)))
       /\ AtMost(Clamped(Judged(f, "reject", t)), Clamped(f))
=============================================================================
