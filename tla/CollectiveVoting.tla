-------------------------- MODULE CollectiveVoting --------------------------
(***************************************************************************)
(* Model D: one proposal of a coordinator, the votes of its local agent    *)
(* and of the remote ones.  The remote votes are collected by a broadcast  *)
(* that is recorded only when every agent has answered or timed out; the   *)
(* local agent, and the callers of closeVoting and execute, act meanwhile. *)
(* Each step is also appended to the decisions chain, behind the caller's  *)
(* back; that record is ChainAppend's and is left out here.                *)
(***************************************************************************)
EXTENDS Integers, Sequences, FiniteSets, FiniteSetsExt, SequencesExt

CONSTANTS
  Local,               \* the coordinator's own agent
  Remotes,             \* the remote agents, in the order of the configuration
  Weight,              \* agent -> weight of its vote
  Threshold,           \* consensusThreshold, in tenths
  Deadline, MaxTime,   \* votingTimeout, bound on the clock
  MaxReclosings        \* bound on calls of closeVoting

VARIABLES
  status,              \* "none" or the status of the proposal
  votes,               \* the votes cast, in order
  result,              \* DecisionResult, or NoResult
  broadcast,           \* "idle", "waiting" for answers, "recording" them
  answers,             \* remote agent -> its answer: a choice, "none", or "open" so far
  now,
  executions,          \* history: calls of execute that succeeded
  reclosings,          \* history: calls of closeVoting by a caller
  reopened             \* history: calls of closeVoting on an executed proposal

vars == <<status, votes, result, broadcast, answers, now, executions, reclosings, reopened>>

Ballots == {"approve", "reject", "abstain"}
Agents == {Local} \cup ToSet(Remotes)
NoResult == [approved |-> FALSE, counted |-> <<>>, executedBy |-> "none"]

Init ==
  /\ status = "none" /\ votes = <<>> /\ result = NoResult
  /\ broadcast = "idle" /\ answers = [a \in ToSet(Remotes) |-> "open"]
  /\ now = 0 /\ executions = 0 /\ reclosings = 0 /\ reopened = 0

\* proposeToNetwork, up to the await.
Propose ==
  /\ status = "none"
  /\ status' = "voting" /\ broadcast' = "waiting"
  /\ UNCHANGED <<votes, result, answers, now, executions, reclosings, reopened>>

\* broadcastProposal of one agent: a vote, an answer without one, an error, a timeout.
Answer(a) ==
  /\ broadcast = "waiting" /\ answers[a] = "open"
  /\ \E answer \in Ballots \cup {"none"} : answers' = [answers EXCEPT ![a] = answer]
  /\ broadcast' = IF \E b \in DOMAIN answers : answers'[b] = "open" THEN "waiting" ELSE "recording"
  /\ UNCHANGED <<status, votes, result, now, executions, reclosings, reopened>>

Voted(cast) == {v.agent : v \in ToSet(cast)}
Heads(cast, choice) == {v \in ToSet(cast) : v.choice = choice}
WeightOf(cast, choice) == MapThenSumSet(LAMBDA v : Weight[v.agent], Heads(cast, choice))

\* closeVoting: the outcome by weight, abstentions aside.
Outcome(cast) ==
  LET yes == WeightOf(cast, "approve")
      all == yes + WeightOf(cast, "reject")
  IN all > 0 /\ 10 * yes >= Threshold * all /\ 2 * yes >= all
Close(cast) ==
  /\ result' = [approved |-> Outcome(cast), counted |-> cast, executedBy |-> "none"]
  /\ status' = IF Outcome(cast) THEN "approved" ELSE "rejected"

\* shouldCloseVoting: by heads, not by weight.
Majority(cast, choice) == 2 * Cardinality(Heads(cast, choice)) > Cardinality(Agents)
ClosesItself(cast, time) ==
  \/ Len(cast) >= Cardinality(Agents)
  \/ time > Deadline
  \/ Majority(cast, "approve") \/ Majority(cast, "reject")

\* vote: the clock may tick between the check of the deadline and the one that closes.
AcceptedInAnyState(a) == status # "none" /\ a \notin Voted(votes) /\ now <= Deadline
Accepted(a) == status = "voting" /\ a \notin Voted(votes) /\ now <= Deadline
Cast(a, choice) ==
  LET cast == Append(votes, [agent |-> a, choice |-> choice]) IN
  /\ votes' = cast
  /\ now' \in {now, now + 1} \cap (0..MaxTime)
  /\ IF ClosesItself(cast, now') THEN Close(cast) ELSE UNCHANGED <<status, result>>
  /\ UNCHANGED <<executions, reclosings, reopened>>

LocalVote(choice) ==
  /\ Accepted(Local) /\ Cast(Local, choice)
  /\ UNCHANGED <<broadcast, answers>>

\* The recorder takes the answers in the order of the agents; a vote that is refused
\* marks the answer as failed and nothing else.
ToRecord == SelectSeq(Remotes, LAMBDA a : answers[a] # "recorded")
Record ==
  /\ broadcast = "recording" /\ ToRecord # <<>>
  /\ LET a == Head(ToRecord) IN
       /\ answers' = [answers EXCEPT ![a] = "recorded"]
       /\ IF answers[a] \in Ballots /\ Accepted(a)
          THEN Cast(a, answers[a])
          ELSE UNCHANGED <<status, votes, result, now, executions, reclosings, reopened>>
  /\ UNCHANGED broadcast

\* A caller closes the vote, in whatever state the proposal is.
CloseVoting ==
  /\ status # "none" /\ reclosings < MaxReclosings
  /\ Close(votes)
  /\ reclosings' = reclosings + 1
  /\ reopened' = IF status = "executed" THEN reopened + 1 ELSE reopened
  /\ UNCHANGED <<votes, broadcast, answers, now, executions>>

Execute(a) ==
  /\ status = "approved"
  /\ status' = "executed" /\ result' = [result EXCEPT !.executedBy = a]
  /\ executions' = executions + 1
  /\ UNCHANGED <<votes, broadcast, answers, now, reclosings, reopened>>

Tick ==
  /\ now < MaxTime /\ now' = now + 1
  /\ UNCHANGED <<status, votes, result, broadcast, answers, executions, reclosings, reopened>>

Next ==
  \/ Propose \/ Record \/ CloseVoting \/ Tick
  \/ \E a \in ToSet(Remotes) : Answer(a)
  \/ \E choice \in Ballots : LocalVote(choice)
  \/ \E a \in Agents : Execute(a)

Spec == Init /\ [][Next]_vars

-----------------------------------------------------------------------------
(* Properties, of a state or, where a prime occurs, of a step.             *)

Decided == status \in {"approved", "rejected", "executed"}

\* Once a vote is decided no late answer of the network, no local vote and no second
\* closing changes what was counted or what came out of it.
OutcomeStands ==
  Decided => result'.approved = result.approved /\ result'.counted = result.counted

\* A proposal is executed when its votes approve it, and once for each time it became
\* approved: closeVoting does not look whether it was executed already, makes it "approved"
\* again and forgets who executed it, and then it may be executed once more.
ExecutedOnceApproved ==
  /\ status = "executed" => Outcome(votes)
  /\ executions <= 1 + reopened
=============================================================================
