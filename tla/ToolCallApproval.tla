-------------------------- MODULE ToolCallApproval --------------------------
(***************************************************************************)
(* The gate of the MCP server and the operator commands behind it.  Every  *)
(* MCP server is a process that reads the policy of each tool once, when   *)
(* it is created.  A call of a tool under require-approval either spends   *)
(* an approved request or creates a pending one; the operator approves or  *)
(* denies it with `memphis config tools`, each command a process of its    *)
(* own.  They share the SQLite tables tool_permissions and                 *)
(* tool_call_approvals and no transaction: a step is one statement.        *)
(***************************************************************************)
EXTENDS Integers

CONSTANTS
  Requests,    \* request ids
  Tools,
  Operators,   \* processes of the command line
  Gates,       \* MCP server processes
  TTL,         \* DEFAULT_TTL_MS, in ticks
  MaxTime,     \* bound on the clock
  MaxSets      \* bound on the changes of the policy table

VARIABLES
  row,         \* tool_call_approvals
  policy,      \* tool_permissions, an absent row read as "allow"
  sets,        \* changes of the policy table so far
  gate,        \* each server: the policies it read, whether they are current, its call
  operator,    \* each command: what it is about to write, and where; either one has the
               \* state in which it saw the request
  clock,
  approvals,   \* history: how often each request was approved
  runs,        \* history: how often a handler ran on each request
  overwritten, \* history: writes on each request by a process that had read another state
  ungated      \* history: a call ran unapproved though every gate had read require-approval

vars == <<row, policy, sets, gate, operator, clock, approvals, runs, overwritten, ungated>>

Policies == {"allow", "deny", "require-approval"}
Decisions == {"approved", "denied", "expired"}
States == {"absent", "pending", "used"} \cup Decisions

Absent == [state |-> "absent", tool |-> CHOOSE t \in Tools : TRUE, expires |-> 0]
Idle == [writes |-> "nothing", on |-> {}, saw |-> "pending"]
Fresh(p) == [policy |-> p, fresh |-> TRUE, found |-> {}, saw |-> "approved"]

Init ==
  /\ row = [r \in Requests |-> Absent]
  /\ policy = [t \in Tools |-> "require-approval"] /\ sets = 0
  /\ gate = [g \in Gates |-> Fresh(policy)]
  /\ operator = [o \in Operators |-> Idle]
  /\ clock = 0
  /\ approvals = [r \in Requests |-> 0] /\ runs = [r \in Requests |-> 0]
  /\ overwritten = [r \in Requests |-> 0] /\ ungated = FALSE

\* The update has no condition on the state that was read.
Transition(r, state, saw) ==
  /\ row' = [row EXCEPT ![r].state = state]
  /\ overwritten' = IF row[r].state = saw THEN overwritten
                    ELSE [overwritten EXCEPT ![r] = @ + 1]

\* The operator's commands -----------------------------------------------------------

\* approve and deny: getOrThrow, the check that it is pending, and for approve the
\* check of the expiry, against the time at which the command began.
Verdict(r, verb) ==
  IF verb = "approved" /\ clock > row[r].expires THEN "expired" ELSE verb
Look(o, r, verb) ==
  /\ operator[o] = Idle /\ row[r].state = "pending"
  /\ operator' = [operator EXCEPT ![o] =
       [writes |-> Verdict(r, verb), on |-> {r}, saw |-> row[r].state]]
  /\ UNCHANGED <<row, policy, sets, gate, clock, approvals, runs, overwritten, ungated>>

Decide(o) ==
  /\ \E r \in operator[o].on :
       /\ Transition(r, operator[o].writes, operator[o].saw)
       /\ approvals' = IF operator[o].writes = "approved"
                       THEN [approvals EXCEPT ![r] = @ + 1] ELSE approvals
  /\ operator' = [operator EXCEPT ![o] = Idle]
  /\ UNCHANGED <<policy, sets, gate, clock, runs, ungated>>

\* pending: the sweep before the list.
Overdue == {r \in Requests : row[r].state = "pending" /\ row[r].expires < clock}
ExpirePending ==
  /\ Overdue # {}
  /\ row' = [r \in Requests |-> IF r \in Overdue THEN [row[r] EXCEPT !.state = "expired"]
                                ELSE row[r]]
  /\ UNCHANGED <<policy, sets, gate, operator, clock, approvals, runs, overwritten, ungated>>

\* allow, deny, set and, with every tool back to the default, reset.
ChangePolicies(p) ==
  /\ sets < MaxSets /\ p # policy
  /\ policy' = p /\ sets' = sets + 1
  /\ gate' = [g \in Gates |-> [gate[g] EXCEPT !.fresh = FALSE]]
  /\ UNCHANGED <<row, operator, clock, approvals, runs, overwritten, ungated>>
SetPolicy(t, p) == ChangePolicies([policy EXCEPT ![t] = p])
ResetPolicies == ChangePolicies([t \in Tools |-> "allow"])

\* The gate --------------------------------------------------------------------------

\* createMemphisMcpServer in a new process; the call of the old one dies with it.
StartGate(g) ==
  /\ gate' = [gate EXCEPT ![g] = Fresh(policy)]
  /\ UNCHANGED <<row, policy, sets, operator, clock, approvals, runs, overwritten, ungated>>

Free(g) == gate[g].found = {}
Gated(g, t) == gate[g].policy[t] = "require-approval"

CallAllowed(g, t) ==
  /\ Free(g) /\ gate[g].policy[t] = "allow"
  /\ ungated' = (ungated \/ (policy[t] # "allow" /\ \A h \in Gates : gate[h].fresh))
  /\ UNCHANGED <<row, policy, sets, gate, operator, clock, approvals, runs, overwritten>>

\* findApproved, and the check that the request is for this tool.
UsableAgain(r, t) == row[r].state \in {"approved", "used"} /\ row[r].expires > clock /\ row[r].tool = t
Usable(r, t) == row[r].state = "approved" /\ row[r].expires > clock /\ row[r].tool = t
FindApproved(g, t, r) ==
  /\ Free(g) /\ Gated(g, t) /\ Usable(r, t)
  /\ gate' = [gate EXCEPT ![g] = [@ EXCEPT !.found = {r}, !.saw = row[r].state]]
  /\ UNCHANGED <<row, policy, sets, operator, clock, approvals, runs, overwritten, ungated>>

\* markUsed, after which the handler starts without another await.
MarkUsed(g) ==
  /\ \E r \in gate[g].found :
       /\ Transition(r, "used", gate[g].saw)
       /\ runs' = [runs EXCEPT ![r] = @ + 1]
  /\ gate' = [gate EXCEPT ![g].found = {}]
  /\ UNCHANGED <<policy, sets, operator, clock, approvals, ungated>>

\* A call without a request id, or with one that is unknown.
CreateRequest(g, t, r) ==
  /\ Free(g) /\ Gated(g, t) /\ row[r] = Absent
  /\ row' = [row EXCEPT ![r] = [state |-> "pending", tool |-> t, expires |-> clock + TTL]]
  /\ UNCHANGED <<policy, sets, gate, operator, clock, approvals, runs, overwritten, ungated>>

Tick ==
  /\ clock < MaxTime /\ clock' = clock + 1
  /\ UNCHANGED <<row, policy, sets, gate, operator, approvals, runs, overwritten, ungated>>

Next ==
  \/ \E o \in Operators, r \in Requests, verb \in {"approved", "denied"} : Look(o, r, verb)
  \/ \E o \in Operators : Decide(o)
  \/ ExpirePending
  \/ \E t \in Tools, p \in Policies : SetPolicy(t, p)
  \/ ResetPolicies
  \/ \E g \in Gates : StartGate(g) \/ MarkUsed(g)
  \/ \E g \in Gates, t \in Tools : CallAllowed(g, t)
  \/ \E g \in Gates, t \in Tools, r \in Requests : FindApproved(g, t, r) \/ CreateRequest(g, t, r)
  \/ Tick

Spec == Init /\ [][Next]_vars

-----------------------------------------------------------------------------
(* Properties, of a state or, where a prime occurs, of a step.             *)

\* A request is approved once and lets one call run.  Only a write that did not look at
\* what it overwrote makes more of it: a second gate that found the same approval, or an
\* operator who still saw the request pending; each such write costs one run and one
\* approval at most, and nothing else does, whatever else overlapped on the request.
OneRunPerApproval ==
  \A r \in Requests : runs[r] <= 1 + overwritten[r] /\ approvals[r] <= 1 + overwritten[r]

\* A request that was denied, used or has expired stays so, and does not run, unless a
\* process writes that saw it in another state.
FinalStatesStand ==
  \A r \in Requests : row[r].state \in {"denied", "used", "expired"} =>
    (row'[r] = row[r] /\ runs'[r] = runs[r]) \/ overwritten'[r] > overwritten[r]

\* A policy that asks for an approval or denies a tool binds once every server has been
\* restarted, however many processes and requests there are.
PolicyBindsAfterRestart == ~ ungated

\* Whatever the processes do to each other, a handler never runs for a request that no
\* operator approved.
ApprovedBeforeRun == \A r \in Requests : runs[r] > 0 => approvals[r] > 0

=============================================================================
