--------------------------- MODULE ServicesProofs ---------------------------
(* Theorems about the components of MCServices: for every set of requests, *)
(* tools, processes, runs and executions, and whatever the others do.      *)
EXTENDS MCServices, FiniteSetTheorems, SequenceTheorems, TLAPS

USE ServicesAssumption

-----------------------------------------------------------------------------
(* A behaviour is of one component, and a step is a step of that one.      *)

LEMMA InitOfPart ==
  ASSUME Init
  PROVE  /\ part = "tooling" => Tooling!Init
         /\ part = "executor" => Executor!Init
         /\ part = "loop" => Loop!Init
         /\ part = "providers" => Providers!Init
         /\ part = "voting" => Voting!Init
         /\ part = "limiter" => Limiter!Init
         /\ part = "alerts" => Alerts!Init
         /\ part = "batcher" => Batcher!Init
         /\ part = "native" => Native!Init
BY DEF Init

LEMMA StepOfPart ==
  ASSUME [Next]_vars
  PROVE  /\ part' = part
         /\ part = "tooling" => Tooling!Next \/ UNCHANGED <<x1, x2, x3, x4, x5, x6, x7, x8, x9, x10>>
         /\ part = "executor" => Executor!Next \/ UNCHANGED <<x1, x2, x3, x4>>
         /\ part = "loop" => Loop!Next \/ UNCHANGED <<x1, x2>>
         /\ part = "providers" => Providers!Next \/ UNCHANGED <<x1, x2, x3, x4, x5, x6>>
         /\ part = "voting" => Voting!Next \/ UNCHANGED <<x1, x2, x3, x4, x5, x6, x7, x8, x9>>
         /\ part = "limiter" => Limiter!Next \/ UNCHANGED <<x1, x2, x3, x4>>
         /\ part = "alerts" => Alerts!Next \/ UNCHANGED <<x1, x2, x3, x4, x5, x6, x7, x8, x9>>
         /\ part = "batcher" =>
              Batcher!Next \/ UNCHANGED <<x1, x2, x3, x4, x5, x6, x7, x8, x9, x10, x11>>
         /\ part = "native" => Native!Next \/ UNCHANGED <<x1, x2, x3, x4, x5>>
BY DEF Next, vars, from3

-----------------------------------------------------------------------------
(* The tool gate.                                                          *)

Singles == {{r} : r \in Requests}
AnyTool == Tools \cup {Tooling!Absent.tool}
AllPolicies == [Tools -> Tooling!Policies]
AllRows == [state : Tooling!States, tool : AnyTool, expires : Int]
\* Whoever is between a look at a row and its write saw an approval, or a request pending.
AllGates == [policy : AllPolicies, fresh : BOOLEAN, found : {{}} \cup Singles, saw : {"approved"}]
AllCommands ==
  {Tooling!Idle} \cup [writes : Tooling!Decisions, on : Singles, saw : {"pending"}]

ToolingTypes ==
  /\ x1 \in [Requests -> AllRows]
  /\ x2 \in AllPolicies
  /\ x4 \in [Gates -> AllGates]
  /\ x5 \in [Operators -> AllCommands]
  /\ x6 \in Int
  /\ x7 \in [Requests -> Nat] /\ x8 \in [Requests -> Nat]
  /\ x9 \in [Requests -> Nat]

\* What is left to a request in a state: the run that it can have, the approval.
Left(state, states) == IF state \in states THEN 1 ELSE 0

\* A request whose row has the state s, approved a times and run n times, w of its writes
\* having overwritten another state than was seen: what it had and what is left to it come
\* to one, and one for each of those writes.
Counted(s, a, n, w) ==
  /\ n + Left(s, {"absent", "pending", "approved"}) <= 1 + w
  /\ a + Left(s, {"absent", "pending"}) <= 1 + w

\* An approved row, a gate that found one and a run come after an approval, always.
Approved ==
  /\ \A r \in Requests : x1[r].state = "approved" \/ x8[r] > 0 => x7[r] > 0
  /\ \A g \in Gates : \A r \in x4[g].found : x7[r] > 0

\* A server started after the last change of the policies has read them as they are.
PoliciesRead == ~ x10 /\ \A g \in Gates : x4[g].fresh => x4[g].policy = x2

ToolingInv ==
  /\ ToolingTypes
  /\ \A r \in Requests : Counted(x1[r].state, x7[r], x8[r], x9[r])
  /\ Approved /\ PoliciesRead

LEMMA ToolingStarts ==
  ASSUME Tooling!Init PROVE ToolingInv
<1>1. ToolingTypes
  BY DEF Tooling!Init, ToolingTypes, AllRows, AllGates, AllCommands, AnyTool, AllPolicies,
         Tooling!Absent, Tooling!Idle, Tooling!Fresh, Tooling!States, Tooling!Policies
<1>2. \A r \in Requests : Counted(x1[r].state, x7[r], x8[r], x9[r])
  BY DEF Tooling!Init, Counted, Left, Tooling!Absent
<1>3. Approved /\ PoliciesRead
  BY DEF Tooling!Init, Approved, PoliciesRead, Tooling!Absent, Tooling!Idle, Tooling!Fresh
<1> QED BY <1>1, <1>2, <1>3 DEF ToolingInv

\* What each command and each gate is about.
LEMMA OnRequests ==
  ASSUME ToolingTypes
  PROVE  /\ \A o \in Operators : \A r \in x5[o].on :
              /\ r \in Requests /\ x5[o].on = {r}
              /\ x5[o].writes \in Tooling!Decisions /\ x5[o].saw = "pending"
         /\ \A g \in Gates : \A r \in x4[g].found :
              r \in Requests /\ x4[g].found = {r} /\ x4[g].saw = "approved"
BY DEF ToolingTypes, AllCommands, AllGates, Singles, Tooling!Idle

\* A step of a command or of a gate on one request.
LEMMA LookStep ==
  ASSUME ToolingInv, NEW o \in Operators, NEW r \in Requests,
         NEW verb \in {"approved", "denied"}, Tooling!Look(o, r, verb)
  PROVE  ToolingInv'
<1> USE DEF ToolingInv
<1>1. x1[r].state = "pending" /\ UNCHANGED <<x1, x2, x3, x4, x6, x7, x8, x9, x10>>
  BY DEF Tooling!Look
<1>2. PICK w \in Tooling!Decisions :
        x5' = [x5 EXCEPT ![o] = [writes |-> w, on |-> {r}, saw |-> "pending"]]
  BY <1>1 DEF Tooling!Look, Tooling!Verdict, Tooling!Decisions
<1>3. x5' \in [Operators -> AllCommands]
  BY <1>2 DEF ToolingTypes, AllCommands, Singles
<1> QED BY <1>1, <1>3 DEF ToolingTypes, Approved, PoliciesRead

\* A write of a state over the one that the row has, by a process that saw another or not.
LEMMA TransitionIs ==
  ASSUME ToolingTypes, NEW r \in Requests, NEW state \in Tooling!States,
         NEW saw, Tooling!Transition(r, state, saw)
  PROVE  /\ x1' \in [Requests -> AllRows] /\ x9' \in [Requests -> Nat]
         /\ x1'[r].state = state
         /\ x9'[r] = IF x1[r].state = saw THEN x9[r] ELSE x9[r] + 1
         /\ \A s \in Requests : s # r => x1'[s] = x1[s] /\ x9'[s] = x9[s]
BY DEF Tooling!Transition, ToolingTypes, AllRows

LEMMA DecideStep ==
  ASSUME ToolingInv, NEW o \in Operators, Tooling!Decide(o)
  PROVE  ToolingInv'
<1> USE DEF ToolingInv
<1>1. PICK r \in x5[o].on :
        /\ Tooling!Transition(r, x5[o].writes, x5[o].saw)
        /\ x7' = IF x5[o].writes = "approved" THEN [x7 EXCEPT ![r] = @ + 1] ELSE x7
  BY DEF Tooling!Decide
<1>2. x5' = [x5 EXCEPT ![o] = Tooling!Idle] /\ UNCHANGED <<x2, x3, x4, x6, x8, x10>>
  BY DEF Tooling!Decide
<1>3. r \in Requests /\ x5[o].writes \in Tooling!Decisions /\ x5[o].saw = "pending"
  BY <1>1, OnRequests
<1> DEFINE w == x5[o].writes
<1>4. w \in Tooling!States
  BY <1>3 DEF Tooling!States
<1>5. /\ x1' \in [Requests -> AllRows] /\ x9' \in [Requests -> Nat]
      /\ x1'[r].state = w
      /\ x9'[r] = IF x1[r].state = "pending" THEN x9[r] ELSE x9[r] + 1
      /\ \A s \in Requests : s # r => x1'[s] = x1[s] /\ x9'[s] = x9[s]
  BY <1>1, <1>3, <1>4, TransitionIs
<1>6. /\ x7' \in [Requests -> Nat]
      /\ x7'[r] = IF w = "approved" THEN x7[r] + 1 ELSE x7[r]
      /\ \A s \in Requests : s # r => x7'[s] = x7[s]
  BY <1>1, <1>3 DEF ToolingTypes
<1>7. ToolingTypes'
  <2>1. x5' \in [Operators -> AllCommands]
    BY <1>2 DEF ToolingTypes, AllCommands
  <2> QED BY <1>2, <1>5, <1>6, <2>1 DEF ToolingTypes
<1>8. ASSUME NEW s \in Requests PROVE Counted(x1[s].state, x7[s], x8[s], x9[s])'
  <2>1. Counted(x1[s].state, x7[s], x8[s], x9[s])
    OBVIOUS
  <2>2. CASE s # r
    BY <1>2, <1>5, <1>6, <2>1, <2>2
  <2>3. CASE s = r
    <3>1. x7[r] \in Nat /\ x8[r] \in Nat /\ x9[r] \in Nat
      BY <1>3 DEF ToolingTypes
    <3>2. CASE x1[r].state = "pending"
      BY <1>2, <1>3, <1>5, <1>6, <2>1, <2>3, <3>1, <3>2 DEF Counted, Left, Tooling!Decisions
    <3>3. CASE x1[r].state # "pending"
      BY <1>2, <1>3, <1>5, <1>6, <2>1, <2>3, <3>1, <3>3 DEF Counted, Left, Tooling!Decisions
    <3> QED BY <3>2, <3>3
  <2> QED BY <2>2, <2>3
<1>9. Approved'
  <2>1. \A s \in Requests : x7'[s] >= x7[s] /\ x7[s] \in Nat /\ x7'[s] \in Nat
    BY <1>6 DEF ToolingTypes
  <2>2. w = "approved" => x7'[r] > 0
    BY <1>3, <1>6 DEF ToolingTypes
  <2>3. \A s \in Requests : x1'[s].state = "approved" \/ x8'[s] > 0 => x7'[s] > 0
    BY <1>2, <1>5, <2>1, <2>2 DEF Approved
  <2>4. \A g \in Gates : \A s \in x4'[g].found : x7'[s] > 0
    <3>1. \A g \in Gates : \A s \in x4[g].found : s \in Requests
      BY OnRequests
    <3> QED BY <1>2, <2>1, <3>1 DEF Approved
  <2> QED BY <2>3, <2>4 DEF Approved
<1>10. PoliciesRead'
  BY <1>2 DEF PoliciesRead
<1> QED BY <1>7, <1>8, <1>9, <1>10

LEMMA ExpireStep ==
  ASSUME ToolingInv, Tooling!ExpirePending
  PROVE  ToolingInv'
<1> USE DEF ToolingInv
<1> DEFINE O == Tooling!Overdue
<1>1. /\ x1' = [r \in Requests |-> IF r \in O THEN [x1[r] EXCEPT !.state = "expired"] ELSE x1[r]]
      /\ UNCHANGED <<x2, x3, x4, x5, x6, x7, x8, x9, x10>>
  BY DEF Tooling!ExpirePending
<1>2. O \subseteq Requests /\ \A r \in O : x1[r].state = "pending"
  BY DEF Tooling!Overdue
<1>3. ToolingTypes'
  <2>1. x1' \in [Requests -> AllRows]
    BY <1>1 DEF ToolingTypes, AllRows, Tooling!States, Tooling!Decisions
  <2> QED BY <1>1, <2>1 DEF ToolingTypes
<1>4. \A r \in Requests : x1'[r].state = IF r \in O THEN "expired" ELSE x1[r].state
  BY <1>1 DEF ToolingTypes, AllRows
<1>5. ASSUME NEW s \in Requests PROVE Counted(x1[s].state, x7[s], x8[s], x9[s])'
  <2>1. Counted(x1[s].state, x7[s], x8[s], x9[s])
    OBVIOUS
  <2>2. x7[s] \in Nat /\ x8[s] \in Nat /\ x9[s] \in Nat
    BY DEF ToolingTypes
  <2>3. CASE s \in O
    BY <1>1, <1>2, <1>4, <2>1, <2>2, <2>3 DEF Counted, Left
  <2>4. CASE s \notin O
    BY <1>1, <1>4, <2>1, <2>4
  <2> QED BY <2>3, <2>4
<1>6. Approved'
  BY <1>1, <1>4 DEF Approved
<1>7. PoliciesRead'
  BY <1>1 DEF PoliciesRead
<1> QED BY <1>3, <1>5, <1>6, <1>7

LEMMA PolicyStep ==
  ASSUME ToolingInv, NEW p \in AllPolicies, Tooling!ChangePolicies(p)
  PROVE  ToolingInv'
<1>1. /\ x2' = p /\ UNCHANGED <<x1, x5, x6, x7, x8, x9, x10>>
      /\ x4' = [g \in Gates |-> [x4[g] EXCEPT !.fresh = FALSE]]
  BY DEF Tooling!ChangePolicies
<1>2. ToolingTypes'
  <2>1. x4' \in [Gates -> AllGates]
    BY <1>1 DEF ToolingInv, ToolingTypes, AllGates
  <2> QED BY <1>1, <2>1 DEF ToolingInv, ToolingTypes
<1>3. \A g \in Gates : x4'[g].found = x4[g].found /\ ~ x4'[g].fresh
  BY <1>1 DEF ToolingInv, ToolingTypes, AllGates
<1>4. Approved'
  BY <1>1, <1>3 DEF ToolingInv, Approved
<1>5. PoliciesRead'
  BY <1>1, <1>3 DEF ToolingInv, PoliciesRead
<1> QED BY <1>1, <1>2, <1>4, <1>5 DEF ToolingInv

LEMMA StartGateStep ==
  ASSUME ToolingInv, NEW g \in Gates, Tooling!StartGate(g)
  PROVE  ToolingInv'
<1>1. /\ x4' = [x4 EXCEPT ![g] = Tooling!Fresh(x2)]
      /\ UNCHANGED <<x1, x2, x5, x6, x7, x8, x9, x10>>
  BY DEF Tooling!StartGate
<1>2. ToolingTypes'
  <2>1. x4' \in [Gates -> AllGates]
    BY <1>1 DEF ToolingInv, ToolingTypes, AllGates, Tooling!Fresh
  <2> QED BY <1>1, <2>1 DEF ToolingInv, ToolingTypes
<1>3. \A h \in Gates : x4'[h] = IF h = g THEN Tooling!Fresh(x2) ELSE x4[h]
  BY <1>1 DEF ToolingInv, ToolingTypes
<1>4. \A h \in Gates : x4'[h].found \subseteq x4[h].found
  BY <1>3 DEF Tooling!Fresh
<1>5. Approved'
  BY <1>1, <1>4 DEF ToolingInv, Approved
<1>6. PoliciesRead'
  BY <1>1, <1>3 DEF ToolingInv, PoliciesRead, Tooling!Fresh
<1> QED BY <1>1, <1>2, <1>5, <1>6 DEF ToolingInv

\* Only a server that has read another policy than the table's lets a call pass that the
\* table would not.
LEMMA CallAllowedStep ==
  ASSUME ToolingInv, NEW g \in Gates, NEW t \in Tools, Tooling!CallAllowed(g, t)
  PROVE  ToolingInv'
<1>1. /\ UNCHANGED <<x1, x2, x4, x5, x6, x7, x8, x9>> /\ x4[g].policy[t] = "allow"
      /\ x10' = (x10 \/ (x2[t] # "allow" /\ \A h \in Gates : x4[h].fresh))
  BY DEF Tooling!CallAllowed
<1>2. ~ x10'
  BY <1>1 DEF ToolingInv, PoliciesRead
<1> QED BY <1>1, <1>2 DEF ToolingInv, ToolingTypes, PoliciesRead, Approved

LEMMA FindStep ==
  ASSUME ToolingInv, NEW g \in Gates, NEW t \in Tools, NEW r \in Requests,
         Tooling!FindApproved(g, t, r)
  PROVE  ToolingInv'
<1> USE DEF ToolingInv
<1>1. x1[r].state = "approved" /\ UNCHANGED <<x1, x2, x5, x6, x7, x8, x9, x10>>
  BY DEF Tooling!FindApproved, Tooling!Usable
<1>2. x4' = [x4 EXCEPT ![g] = [x4[g] EXCEPT !.found = {r}, !.saw = "approved"]]
  BY <1>1 DEF Tooling!FindApproved, ToolingTypes
<1>3. x4[g] \in AllGates
  BY DEF ToolingTypes
<1>4. /\ [x4[g] EXCEPT !.found = {r}, !.saw = "approved"] \in AllGates
      /\ \A h \in Gates : /\ x4'[h].found = IF h = g THEN {r} ELSE x4[h].found
                          /\ x4'[h].fresh = x4[h].fresh /\ x4'[h].policy = x4[h].policy
  BY <1>2, <1>3 DEF ToolingTypes, AllGates, Singles
<1>5. ToolingTypes'
  BY <1>1, <1>2, <1>4 DEF ToolingTypes
<1>6. x7[r] > 0
  BY <1>1 DEF Approved
<1>7. Approved'
  BY <1>1, <1>4, <1>6 DEF Approved
<1>8. PoliciesRead'
  BY <1>1, <1>4 DEF PoliciesRead
<1> QED BY <1>1, <1>5, <1>7, <1>8

LEMMA MarkStep ==
  ASSUME ToolingInv, NEW g \in Gates, Tooling!MarkUsed(g)
  PROVE  ToolingInv'
<1> USE DEF ToolingInv
<1>1. PICK r \in x4[g].found :
        Tooling!Transition(r, "used", x4[g].saw) /\ x8' = [x8 EXCEPT ![r] = @ + 1]
  BY DEF Tooling!MarkUsed
<1>2. x4' = [x4 EXCEPT ![g].found = {}] /\ UNCHANGED <<x2, x5, x6, x7, x10>>
  BY DEF Tooling!MarkUsed
<1>3. r \in Requests /\ x4[g].saw = "approved" /\ "used" \in Tooling!States
  BY <1>1, OnRequests DEF Tooling!States
<1>4. /\ x1' \in [Requests -> AllRows] /\ x9' \in [Requests -> Nat]
      /\ x1'[r].state = "used"
      /\ x9'[r] = IF x1[r].state = "approved" THEN x9[r] ELSE x9[r] + 1
      /\ \A s \in Requests : s # r => x1'[s] = x1[s] /\ x9'[s] = x9[s]
  BY <1>1, <1>3, TransitionIs
<1>5. x8' \in [Requests -> Nat] /\ x8'[r] = x8[r] + 1
      /\ \A s \in Requests : s # r => x8'[s] = x8[s]
  BY <1>1, <1>3 DEF ToolingTypes
<1>6. \A h \in Gates : /\ x4'[h].found = IF h = g THEN {} ELSE x4[h].found
                       /\ x4'[h].fresh = x4[h].fresh /\ x4'[h].policy = x4[h].policy
  BY <1>2 DEF ToolingTypes, AllGates
<1>7. ToolingTypes'
  <2>1. x4' \in [Gates -> AllGates]
    BY <1>2 DEF ToolingTypes, AllGates
  <2> QED BY <1>2, <1>4, <1>5, <2>1 DEF ToolingTypes
<1>8. ASSUME NEW s \in Requests PROVE Counted(x1[s].state, x7[s], x8[s], x9[s])'
  <2>1. Counted(x1[s].state, x7[s], x8[s], x9[s])
    OBVIOUS
  <2>2. CASE s # r
    BY <1>2, <1>4, <1>5, <2>1, <2>2
  <2>3. CASE s = r
    <3>1. x7[r] \in Nat /\ x8[r] \in Nat /\ x9[r] \in Nat
      BY <1>3 DEF ToolingTypes
    <3>2. CASE x1[r].state = "approved"
      BY <1>2, <1>4, <1>5, <2>1, <2>3, <3>1, <3>2 DEF Counted, Left
    <3>3. CASE x1[r].state # "approved"
      BY <1>2, <1>4, <1>5, <2>1, <2>3, <3>1, <3>3 DEF Counted, Left
    <3> QED BY <3>2, <3>3
  <2> QED BY <2>2, <2>3
<1>9. Approved'
  <2>1. x7[r] > 0
    BY <1>1 DEF Approved
  <2> QED BY <1>2, <1>4, <1>5, <1>6, <2>1 DEF Approved
<1>10. PoliciesRead'
  BY <1>2, <1>6 DEF PoliciesRead
<1> QED BY <1>7, <1>8, <1>9, <1>10

LEMMA CreateStep ==
  ASSUME ToolingInv, NEW g \in Gates, NEW t \in Tools, NEW r \in Requests,
         Tooling!CreateRequest(g, t, r)
  PROVE  ToolingInv'
<1> USE DEF ToolingInv
<1>1. /\ x1[r].state = "absent" /\ UNCHANGED <<x2, x4, x5, x6, x7, x8, x9, x10>>
      /\ x1' = [x1 EXCEPT ![r] = [state |-> "pending", tool |-> t, expires |-> x6 + TTL]]
  BY DEF Tooling!CreateRequest, Tooling!Absent
<1>2. ToolingTypes'
  <2>1. x1' \in [Requests -> AllRows]
    BY <1>1 DEF ToolingTypes, AllRows, AnyTool, Tooling!States
  <2> QED BY <1>1, <2>1 DEF ToolingTypes
<1>3. x1'[r].state = "pending" /\ \A s \in Requests : s # r => x1'[s] = x1[s]
  BY <1>1 DEF ToolingTypes
<1>4. ASSUME NEW s \in Requests PROVE Counted(x1[s].state, x7[s], x8[s], x9[s])'
  <2>1. Counted(x1[s].state, x7[s], x8[s], x9[s])
    OBVIOUS
  <2>2. CASE s # r
    BY <1>1, <1>3, <2>1, <2>2
  <2>3. CASE s = r
    BY <1>1, <1>3, <2>1, <2>3 DEF Counted, Left
  <2> QED BY <2>2, <2>3
<1>5. Approved'
  BY <1>1, <1>3 DEF Approved
<1>6. PoliciesRead'
  BY <1>1 DEF PoliciesRead
<1> QED BY <1>2, <1>4, <1>5, <1>6

LEMMA ToolingStep ==
  ASSUME ToolingInv, Tooling!Next \/ UNCHANGED <<x1, x2, x3, x4, x5, x6, x7, x8, x9, x10>>
  PROVE  ToolingInv'
<1>1. CASE UNCHANGED <<x1, x2, x3, x4, x5, x6, x7, x8, x9, x10>>
  BY <1>1 DEF ToolingInv, ToolingTypes, Approved, PoliciesRead
<1>2. CASE \E o \in Operators, r \in Requests, verb \in {"approved", "denied"} :
             Tooling!Look(o, r, verb)
  BY <1>2, LookStep
<1>3. CASE \E o \in Operators : Tooling!Decide(o)
  BY <1>3, DecideStep
<1>4. CASE Tooling!ExpirePending
  BY <1>4, ExpireStep
<1>5. CASE \E t \in Tools, p \in Tooling!Policies : Tooling!SetPolicy(t, p)
  <2>1. PICK t \in Tools, p \in Tooling!Policies : Tooling!ChangePolicies([x2 EXCEPT ![t] = p])
    BY <1>5 DEF Tooling!SetPolicy
  <2>2. [x2 EXCEPT ![t] = p] \in AllPolicies
    BY DEF ToolingInv, ToolingTypes, AllPolicies
  <2> QED BY <2>1, <2>2, PolicyStep
<1>6. CASE Tooling!ResetPolicies
  <2>1. [t \in Tools |-> "allow"] \in AllPolicies
    BY DEF AllPolicies, Tooling!Policies
  <2> QED BY <1>6, <2>1, PolicyStep DEF Tooling!ResetPolicies
<1>7. CASE \E g \in Gates : Tooling!StartGate(g) \/ Tooling!MarkUsed(g)
  BY <1>7, StartGateStep, MarkStep
<1>8. CASE \E g \in Gates, t \in Tools : Tooling!CallAllowed(g, t)
  BY <1>8, CallAllowedStep
<1>9. CASE \E g \in Gates, t \in Tools, r \in Requests :
             Tooling!FindApproved(g, t, r) \/ Tooling!CreateRequest(g, t, r)
  BY <1>9, FindStep, CreateStep
<1>10. CASE Tooling!Tick
  <2>1. UNCHANGED <<x1, x2, x4, x5, x7, x8, x9, x10>> /\ x6' = x6 + 1
    BY <1>10 DEF Tooling!Tick
  <2> QED BY <2>1 DEF ToolingInv, ToolingTypes, Approved, PoliciesRead
<1> QED BY <1>1, <1>2, <1>3, <1>4, <1>5, <1>6, <1>7, <1>8, <1>9, <1>10 DEF Tooling!Next

\* A request is approved once and lets one call run, and once more for each write that
\* overwrote a state its process had not seen; no call runs without an approval; and a
\* stricter policy binds every server started after it: for any number of servers, commands,
\* requests and tools.
THEOREM ApprovalsHold == Spec => []ApprovalsBind
<1> DEFINE Inv == part = "tooling" => ToolingInv
<1>1. Init => Inv
  BY InitOfPart, ToolingStarts
<1>2. Inv /\ [Next]_vars => Inv'
  BY StepOfPart, ToolingStep
<1>3. Inv => ApprovalsBind
  <2>1. SUFFICES ASSUME ToolingInv
        PROVE Tooling!OneRunPerApproval /\ Tooling!ApprovedBeforeRun /\ Tooling!PolicyBindsAfterRestart
    BY DEF ApprovalsBind
  <2>2. ASSUME NEW r \in Requests PROVE x8[r] <= 1 + x9[r] /\ x7[r] <= 1 + x9[r]
    <3>1. /\ Counted(x1[r].state, x7[r], x8[r], x9[r])
          /\ x7[r] \in Nat /\ x8[r] \in Nat /\ x9[r] \in Nat
      BY <2>1, <2>2 DEF ToolingInv, ToolingTypes
    <3> QED BY <3>1 DEF Counted, Left
  <2>3. Tooling!OneRunPerApproval
    BY <2>2 DEF Tooling!OneRunPerApproval
  <2> QED BY <2>1, <2>3 DEF ToolingInv, Approved, PoliciesRead, Tooling!ApprovedBeforeRun,
                            Tooling!PolicyBindsAfterRestart
<1> HIDE DEF Inv
<1> QED BY <1>1, <1>2, <1>3, PTL DEF Spec

-----------------------------------------------------------------------------
(* The limits of the agent loop.                                           *)

Reasons == {"none", "max_steps_exceeded", "max_tool_calls_exceeded", "max_wait_exceeded",
            "max_errors_exceeded", "non_recoverable_error"}
LoopStates == [steps : Nat, tool_calls : Nat, wait_ms : Nat, errors : Nat,
               completed : BOOLEAN, halt : Reasons]

LoopInv ==
  /\ x1 \in [Loop!Engines -> LoopStates] /\ x2 \in [Loop!Engines -> BOOLEAN]
  /\ Loop!EnginesAgree /\ Loop!LimitsHold

LEMMA LoopStarts ==
  ASSUME Loop!Init PROVE LoopInv
BY DEF Loop!Init, Loop!NewLoop, Loop!Engines, Loop!EnginesAgree, Loop!LimitsHold, Loop!Halted,
       LoopInv, LoopStates, Reasons

Within(s) ==
  /\ s.steps <= MaxSteps /\ s.tool_calls <= MaxToolCalls
  /\ s.wait_ms <= MaxWait /\ s.errors <= MaxErrors

LEMMA ActionType ==
  ASSUME NEW a \in Loop!Actions
  PROVE  /\ a.type \in {"tool_call", "complete", "wait", "error"}
         /\ a.type = "wait" => a.ms \in Nat
<1>1. CASE a \in [type : {"tool_call", "complete"}]
  BY <1>1
<1>2. CASE a \in [type : {"wait"}, ms : Durations]
  BY <1>2
<1>3. CASE a \in [type : {"error"}, recoverable : BOOLEAN]
  BY <1>3
<1> QED BY <1>1, <1>2, <1>3 DEF Loop!Actions

LEMMA ChargedIsOne ==
  ASSUME NEW n \in LoopStates, NEW a \in Loop!Actions
  PROVE  /\ \A e \in Loop!Engines : Loop!Charged(e, n, a) = Loop!Charged("tool", n, a)
         /\ Loop!Charged("tool", n, a) \in LoopStates
         /\ Loop!Charged("tool", n, a).steps = n.steps
<1>1. /\ a.type \in {"tool_call", "complete", "wait", "error"}
      /\ a.type = "wait" => a.ms \in Nat
  BY ActionType
<1>2. CASE a.type = "tool_call"
  <2>1. \A e : Loop!Charged(e, n, a) = [n EXCEPT !.tool_calls = @ + 1]
    BY <1>2 DEF Loop!Charged
  <2> QED BY <2>1 DEF LoopStates
<1>3. CASE a.type = "wait"
  <2>1. \A e \in Loop!Engines : Loop!Toll(e, a) = a.ms
    BY <1>1, <1>3 DEF Loop!Toll, Loop!AtLeast
  <2>2. \A e : Loop!Charged(e, n, a) = [n EXCEPT !.wait_ms = @ + Loop!Toll(e, a)]
    BY <1>3 DEF Loop!Charged
  <2>3. \A e \in Loop!Engines : Loop!Charged(e, n, a) = [n EXCEPT !.wait_ms = @ + a.ms]
    BY <2>1, <2>2
  <2>4. "tool" \in Loop!Engines
    BY DEF Loop!Engines
  <2> QED BY <1>1, <1>3, <2>3, <2>4 DEF LoopStates
<1>4. CASE a.type = "error"
  <2>1. \A e : Loop!Charged(e, n, a) = [n EXCEPT !.errors = @ + 1]
    BY <1>4 DEF Loop!Charged
  <2> QED BY <2>1 DEF LoopStates
<1>5. CASE a.type = "complete"
  <2>1. \A e : Loop!Charged(e, n, a) = [n EXCEPT !.completed = TRUE]
    BY <1>5 DEF Loop!Charged
  <2> QED BY <2>1 DEF LoopStates
<1> QED BY <1>1, <1>2, <1>3, <1>4, <1>5

LEMMA EndedType ==
  ASSUME NEW c \in LoopStates, NEW a
  PROVE  /\ Loop!Ended(c, a) \in LoopStates
         /\ Loop!Ended(c, a).steps = c.steps /\ Loop!Ended(c, a).tool_calls = c.tool_calls
         /\ Loop!Ended(c, a).wait_ms = c.wait_ms /\ Loop!Ended(c, a).errors = c.errors
<1>1. CASE a.type = "error" /\ ~ a.recoverable
  <2>1. Loop!Ended(c, a) = [c EXCEPT !.completed = TRUE, !.halt = "non_recoverable_error"]
    BY <1>1 DEF Loop!Ended
  <2> QED BY <2>1 DEF LoopStates, Reasons
<1>2. CASE ~ (a.type = "error" /\ ~ a.recoverable)
  <2>1. Loop!Ended(c, a) = c
    BY <1>2 DEF Loop!Ended
  <2> QED BY <2>1
<1> QED BY <1>1, <1>2

\* What every engine makes of a loop that goes on is the same: no duration is negative.
LEMMA StepIsOne ==
  ASSUME NEW s \in LoopStates, NEW a \in Loop!Actions
  PROVE  /\ \A e \in Loop!Engines : Loop!StepOf(e, s, a) = Loop!StepOf("tool", s, a)
         /\ Loop!StepOf("tool", s, a) \in [state : LoopStates, ok : BOOLEAN]
<1> DEFINE n == Loop!Counted(s)
           c == Loop!Charged("tool", n, a)
<1>1. n \in LoopStates
  BY DEF LoopStates, Loop!Counted
<1>2. c \in LoopStates /\ \A e \in Loop!Engines : Loop!Charged(e, n, a) = c
  BY <1>1, ChargedIsOne
<1> DEFINE r == IF n.steps > MaxSteps THEN [state |-> Loop!Refused(n, "max_steps_exceeded"), ok |-> FALSE]
                ELSE IF Loop!Exceeded(c) # "none" THEN [state |-> Loop!Refused(c, Loop!Exceeded(c)), ok |-> FALSE]
                ELSE [state |-> Loop!Ended(c, a), ok |-> TRUE]
<1>3. \A e \in Loop!Engines : Loop!StepOf(e, s, a) = r
  BY <1>2 DEF Loop!StepOf
<1> HIDE DEF n, c
<1>4. "tool" \in Loop!Engines
  BY DEF Loop!Engines
<1>5. Loop!Exceeded(c) \in Reasons
  BY DEF Loop!Exceeded, Reasons
<1>6. /\ Loop!Refused(n, "max_steps_exceeded") \in LoopStates
      /\ Loop!Refused(c, Loop!Exceeded(c)) \in LoopStates
  <2>1. \A m \in LoopStates, why \in Reasons : Loop!Refused(m, why) \in LoopStates
    BY DEF Loop!Refused, LoopStates
  <2>2. "max_steps_exceeded" \in Reasons
    BY DEF Reasons
  <2> QED BY <1>1, <1>2, <1>5, <2>1, <2>2
<1>7. Loop!Ended(c, a) \in LoopStates
  BY <1>2, EndedType
<1>8. r \in [state : LoopStates, ok : BOOLEAN]
  <2>1. \A m \in LoopStates, ok \in BOOLEAN :
          [state |-> m, ok |-> ok] \in [state : LoopStates, ok : BOOLEAN]
    OBVIOUS
  <2> QED BY <1>6, <1>7, <2>1
<1> HIDE DEF r
<1> QED BY <1>3, <1>4, <1>8

\* It is within the limits, or the loop has halted.
LEMMA StepWithin ==
  ASSUME NEW s \in LoopStates, NEW a \in Loop!Actions, NEW t,
         t = Loop!StepOf("tool", s, a).state
  PROVE  ~ Within(t) => Loop!Halted(t)
<1> DEFINE n == Loop!Counted(s)
           c == Loop!Charged("tool", n, a)
<1>1. n \in LoopStates
  BY DEF Loop!Counted, LoopStates
<1>2. c \in LoopStates /\ c.steps = n.steps
  BY <1>1, ChargedIsOne
<1> HIDE DEF n, c
<1>3. CASE n.steps > MaxSteps
  <2>1. t = Loop!Refused(n, "max_steps_exceeded")
    BY <1>3 DEF Loop!StepOf, n, c
  <2> QED BY <1>1, <2>1 DEF Loop!Refused, Loop!Halted, LoopStates
<1>4. CASE ~ (n.steps > MaxSteps) /\ Loop!Exceeded(c) # "none"
  <2>1. t = Loop!Refused(c, Loop!Exceeded(c))
    BY <1>4 DEF Loop!StepOf, n, c
  <2> QED BY <1>2, <1>4, <2>1 DEF Loop!Refused, Loop!Halted, LoopStates
<1>5. CASE ~ (n.steps > MaxSteps) /\ Loop!Exceeded(c) = "none"
  <2>1. t = Loop!Ended(c, a)
    BY <1>5 DEF Loop!StepOf, n, c
  <2>2. Within(c)
    BY <1>1, <1>2, <1>5 DEF Loop!Exceeded, Within, LoopStates
  <2>3. t.steps = c.steps /\ t.tool_calls = c.tool_calls /\ t.wait_ms = c.wait_ms /\ t.errors = c.errors
    BY <1>2, <2>1, EndedType
  <2> QED BY <2>2, <2>3 DEF Within
<1> QED BY <1>3, <1>4, <1>5

\* Two states of a loop differ in nothing but the steps that were counted.
SameButSteps(s, t) ==
  /\ s.tool_calls = t.tool_calls /\ s.wait_ms = t.wait_ms /\ s.errors = t.errors
  /\ s.completed = t.completed /\ s.halt = t.halt

LEMMA SameButStepsIs ==
  ASSUME NEW s \in LoopStates, NEW t \in LoopStates
  PROVE  [s EXCEPT !.steps = 0] = [t EXCEPT !.steps = 0] <=> SameButSteps(s, t)
BY DEF LoopStates, SameButSteps

\* A loop that has halted keeps everything but the steps the executor goes on counting.
LEMMA HaltedStep ==
  ASSUME NEW s \in LoopStates, Loop!Halted(s), NEW a, NEW e \in Loop!Engines
  PROVE  /\ Loop!Step(e, s, a).ok = FALSE /\ Loop!Step(e, s, a).state \in LoopStates
         /\ SameButSteps(Loop!Step(e, s, a).state, s)
<1>1. Loop!Counted(s) \in LoopStates /\ SameButSteps(Loop!Counted(s), s)
  BY DEF Loop!Counted, LoopStates, SameButSteps
<1>2. SameButSteps(s, s)
  BY DEF SameButSteps
<1>3. CASE e = "crate"
  <2>1. Loop!Step(e, s, a) = [state |-> s, ok |-> FALSE]
    BY <1>3 DEF Loop!Step, Loop!CrateStep
  <2> QED BY <1>2, <2>1
<1>4. CASE e = "tool"
  <2>1. Loop!Step(e, s, a) = [state |-> s, ok |-> FALSE]
    BY <1>4 DEF Loop!Step, Loop!ToolStep
  <2> QED BY <1>2, <2>1
<1>5. CASE e = "executor"
  <2>1. Loop!Step(e, s, a) = [state |-> Loop!Counted(s), ok |-> FALSE]
    BY <1>5 DEF Loop!Step, Loop!ExecutorStep
  <2> QED BY <1>1, <2>1
<1> QED BY <1>3, <1>4, <1>5 DEF Loop!Engines

\* A loop that goes on makes the same step in every engine.
LEMMA GoingStep ==
  ASSUME NEW s \in LoopStates, ~ Loop!Halted(s), NEW a \in Loop!Actions, NEW e \in Loop!Engines
  PROVE  Loop!Step(e, s, a) = Loop!StepOf("tool", s, a)
<1>1. Loop!StepOf(e, s, a) = Loop!StepOf("tool", s, a)
  BY StepIsOne
<1>2. Loop!Readable(a)
  BY ActionType DEF Loop!Readable
<1>3. CASE e = "crate"
  BY <1>1, <1>2, <1>3 DEF Loop!Step, Loop!CrateStep
<1>4. CASE e = "tool"
  BY <1>4 DEF Loop!Step, Loop!ToolStep
<1>5. CASE e = "executor"
  BY <1>1, <1>5 DEF Loop!Step, Loop!ExecutorStep
<1> QED BY <1>3, <1>4, <1>5 DEF Loop!Engines

LEMMA ApplyStep ==
  ASSUME LoopInv, NEW a \in Loop!Actions, Loop!Apply(a)
  PROVE  LoopInv' /\ Loop!HaltIsFinal
<1> DEFINE E == Loop!Engines
<1>1. /\ x1' = [e \in E |-> Loop!Step(e, x1[e], a).state]
      /\ x2' = [e \in E |-> Loop!Step(e, x1[e], a).ok]
  BY DEF Loop!Apply
<1>2. \A e \in E : x1[e] \in LoopStates
  BY DEF LoopInv
<1>3. \A d, e \in E : SameButSteps(x1[d], x1[e]) /\ (~ Loop!Halted(x1[d]) => x1[d] = x1[e])
  BY <1>2, SameButStepsIs DEF LoopInv, Loop!EnginesAgree
<1>4. \A e \in E : x1'[e] = Loop!Step(e, x1[e], a).state /\ x2'[e] = Loop!Step(e, x1[e], a).ok
  BY <1>1
<1> HIDE DEF E
<1>5. CASE \E e \in E : Loop!Halted(x1[e])
  <2>1. \A e \in E : Loop!Halted(x1[e])
    BY <1>3, <1>5 DEF SameButSteps, Loop!Halted
  <2>2. \A e \in E : x2'[e] = FALSE /\ x1'[e] \in LoopStates /\ SameButSteps(x1'[e], x1[e])
    BY <1>2, <1>4, <2>1, HaltedStep DEF E
  <2>3. \A e \in E : Loop!Halted(x1'[e])
    BY <2>1, <2>2 DEF SameButSteps, Loop!Halted
  <2>4. \A d, e \in E : SameButSteps(x1'[d], x1'[e])
    BY <1>3, <2>2 DEF SameButSteps
  <2>5. \A d, e \in E : [x1'[d] EXCEPT !.steps = 0] = [x1'[e] EXCEPT !.steps = 0]
    BY <2>2, <2>4, SameButStepsIs
  <2>6. \A e \in E : [x1'[e] EXCEPT !.steps = 0] = [x1[e] EXCEPT !.steps = 0]
    BY <1>2, <2>2, SameButStepsIs
  <2>7. Loop!HaltIsFinal
    BY <2>2, <2>6 DEF Loop!HaltIsFinal, E
  <2>8. Loop!EnginesAgree' /\ Loop!LimitsHold'
    BY <2>2, <2>3, <2>5 DEF Loop!EnginesAgree, Loop!LimitsHold, E
  <2>9. x1' \in [E -> LoopStates] /\ x2' \in [E -> BOOLEAN]
    BY <1>1, <1>4, <2>2 DEF E
  <2> QED BY <2>7, <2>8, <2>9 DEF LoopInv, E
<1>6. CASE \A e \in E : ~ Loop!Halted(x1[e])
  <2>1. "tool" \in E
    BY DEF E, Loop!Engines
  <2> DEFINE s == x1["tool"]
             r == Loop!StepOf("tool", s, a)
  <2>2. s \in LoopStates /\ \A e \in E : x1[e] = s
    BY <1>2, <1>3, <1>6, <2>1
  <2>3. r \in [state : LoopStates, ok : BOOLEAN]
    BY <2>2, StepIsOne
  <2>4. \A e \in E : Loop!Step(e, s, a) = r
    BY <1>6, <2>1, <2>2, GoingStep DEF E
  <2>5. ~ Within(r.state) => Loop!Halted(r.state)
    BY <2>2, StepWithin
  <2>6. PICK t \in [state : LoopStates, ok : BOOLEAN] : t = r
    BY <2>3
  <2>7. \A e \in E : x1'[e] = t.state /\ x2'[e] = t.ok
    BY <1>4, <2>2, <2>4, <2>6
  <2> HIDE DEF s, r
  <2>8. Loop!HaltIsFinal
    BY <1>6 DEF Loop!HaltIsFinal, E
  <2>9. Loop!EnginesAgree'
    BY <2>7 DEF Loop!EnginesAgree, E
  <2>10. Loop!LimitsHold'
    BY <2>5, <2>6, <2>7 DEF Loop!LimitsHold, Within, E
  <2>11. x1' \in [E -> LoopStates] /\ x2' \in [E -> BOOLEAN]
    BY <1>1, <1>4, <2>7 DEF E
  <2> QED BY <2>8, <2>9, <2>10, <2>11 DEF LoopInv, E
<1> QED BY <1>5, <1>6

LEMMA LoopStep ==
  ASSUME LoopInv, Loop!Next \/ UNCHANGED <<x1, x2>>
  PROVE  LoopInv'
<1>1. CASE UNCHANGED <<x1, x2>>
  BY <1>1 DEF LoopInv, Loop!EnginesAgree, Loop!LimitsHold
<1>2. CASE Loop!Next
  BY <1>2, ApplyStep DEF Loop!Next
<1> QED BY <1>1, <1>2

-----------------------------------------------------------------------------
(* Attempts and providers of a call.                                       *)

AnyProvider == ProviderNames \cup {Default}
CallStages == {"new", "calling", "backoff", "done", "failed", "refused"}
AllCalls == [stage : CallStages, provider : AnyProvider, attempt : Nat,
             primary : SUBSET ProviderNames]
Tries == [ProviderNames -> Nat]

\* A provider refused a call for good or has had all its attempts, t counting them.
Spent(t, f, p) == t[p] = MaxRetries + 1 \/ p \in f

\* What a call k says of the attempts t and of the final answers f: the attempts on its
\* provider are its own, and it is the fallback's turn only after the first provider's.
Budgeted(k, t, f) ==
  /\ \A p \in ProviderNames : t[p] <= MaxRetries + 1
  /\ \E q \in AnyProvider : \A p \in ProviderNames : t[p] > 0 => p \in {q, Fallback}
  /\ k.stage = "new" => \A p \in ProviderNames : t[p] = 0
  /\ k.stage \in Providers!Running =>
       /\ k.provider \in ProviderNames /\ k.attempt <= MaxRetries
       /\ t[k.provider] = k.attempt + 1
       /\ k.stage = "backoff" => k.attempt < MaxRetries
       /\ k.primary = {k.provider} => \A p \in ProviderNames : p # k.provider => t[p] = 0
       /\ k.primary # {k.provider} =>
            k.provider = Fallback
            /\ \A p \in ProviderNames : p # Fallback /\ t[p] > 0 => Spent(t, f, p)
  /\ k.stage = "failed" =>
       /\ \A p \in ProviderNames : t[p] > 0 => Spent(t, f, p)
       /\ Fallback \in ProviderNames => t[Fallback] > 0

ProvidersInv ==
  /\ x3 \in [Calls -> AllCalls] /\ x5 \in [Calls -> Tries]
  /\ x6 \in [Calls -> SUBSET ProviderNames]
  /\ \A c \in Calls : Budgeted(x3[c], x5[c], x6[c])

LEMMA ProvidersStart ==
  ASSUME Providers!Init PROVE ProvidersInv
<1>1. /\ x3 \in [Calls -> AllCalls] /\ x5 \in [Calls -> Tries]
      /\ x6 \in [Calls -> SUBSET ProviderNames]
  BY DEF Providers!Init, Providers!NewCall, AllCalls, CallStages, AnyProvider, Tries
<1>2. \A c \in Calls : Budgeted(x3[c], x5[c], x6[c])
  BY DEF Providers!Init, Providers!NewCall, Budgeted, AnyProvider, Providers!Running
<1> QED BY <1>1, <1>2 DEF ProvidersInv

\* The first provider's first attempt.
LEMMA FirstTry ==
  ASSUME NEW k \in AllCalls, NEW t \in Tries, NEW f \in SUBSET ProviderNames,
         Budgeted(k, t, f), k.stage = "new", NEW p \in ProviderNames
  PROVE  Budgeted([stage |-> "calling", provider |-> p, attempt |-> 0, primary |-> {p}],
                  [t EXCEPT ![p] = @ + 1], f)
BY DEF Budgeted, Tries, AnyProvider, Providers!Running

\* Those a call has turned to, one at most, have had their turn.
Turned(t, f, primary) ==
  /\ primary \subseteq ProviderNames /\ \E q \in AnyProvider : primary \subseteq {q}
  /\ \A p \in ProviderNames \ primary : t[p] = 0
  /\ \A p \in primary : t[p] > 0 /\ t[p] <= MaxRetries + 1 /\ Spent(t, f, p)

LEMMA FallbackTry ==
  ASSUME NEW t \in Tries, NEW f \in SUBSET ProviderNames, NEW primary, Turned(t, f, primary),
         Fallback \in ProviderNames \ primary
  PROVE  Budgeted([stage |-> "calling", provider |-> Fallback, attempt |-> 0, primary |-> primary],
                  [t EXCEPT ![Fallback] = @ + 1], f)
<1> DEFINE u == [t EXCEPT ![Fallback] = @ + 1]
<1>1. u \in Tries /\ u[Fallback] = 1 /\ \A p \in ProviderNames : p # Fallback => u[p] = t[p]
  BY DEF Tries, Turned
<1>2. PICK q \in AnyProvider : primary \subseteq {q}
  BY DEF Turned
<1> HIDE DEF u
<1>3. \A p \in ProviderNames : u[p] <= MaxRetries + 1
  BY <1>1 DEF Turned, Tries
<1>4. \A p \in ProviderNames : u[p] > 0 => p \in {q, Fallback}
  BY <1>1, <1>2 DEF Turned
<1>5. \A p \in ProviderNames : p # Fallback /\ u[p] > 0 => Spent(u, f, p)
  BY <1>1 DEF Turned, Spent
<1>6. primary # {Fallback}
  OBVIOUS
<1>7. Budgeted([stage |-> "calling", provider |-> Fallback, attempt |-> 0, primary |-> primary], u, f)
  BY <1>1, <1>3, <1>4, <1>5, <1>6 DEF Budgeted
<1> QED BY <1>7 DEF u

LEMMA NoFallback ==
  ASSUME NEW k \in AllCalls, NEW t \in Tries, NEW f \in SUBSET ProviderNames, NEW primary,
         Turned(t, f, primary), Fallback \notin ProviderNames \ primary
  PROVE  Budgeted([k EXCEPT !.stage = "failed"], t, f)
<1>1. \A p \in ProviderNames : t[p] <= MaxRetries + 1
  BY DEF Turned, Tries
<1>2. \E q \in AnyProvider : \A p \in ProviderNames : t[p] > 0 => p \in {q, Fallback}
  <2>1. PICK q \in AnyProvider : primary \subseteq {q}
    BY DEF Turned
  <2> QED BY <2>1 DEF Turned
<1>3. [k EXCEPT !.stage = "failed"].stage = "failed"
  BY DEF AllCalls
<1>4. /\ \A p \in ProviderNames : t[p] > 0 => Spent(t, f, p)
      /\ Fallback \in ProviderNames => t[Fallback] > 0
  BY DEF Turned
<1> QED BY <1>1, <1>2, <1>3, <1>4 DEF Budgeted, Providers!Running

\* A call that ends or refuses leaves its attempts as they are.
LEMMA EndOfCall ==
  ASSUME NEW k \in AllCalls, NEW t \in Tries, NEW f, Budgeted(k, t, f),
         NEW s \in {"done", "refused"}
  PROVE  Budgeted([k EXCEPT !.stage = s], t, f)
BY DEF Budgeted, AllCalls, Providers!Running

LEMMA BackoffBegins ==
  ASSUME NEW k \in AllCalls, NEW t \in Tries, NEW f, Budgeted(k, t, f),
         k.stage = "calling", k.attempt < MaxRetries
  PROVE  Budgeted([k EXCEPT !.stage = "backoff"], t, f)
BY DEF Budgeted, AllCalls, Providers!Running

LEMMA NextTry ==
  ASSUME NEW k \in AllCalls, NEW t \in Tries, NEW f, Budgeted(k, t, f), k.stage = "backoff"
  PROVE  Budgeted([k EXCEPT !.stage = "calling", !.attempt = @ + 1],
                  [t EXCEPT ![k.provider] = @ + 1], f)
<1> DEFINE p == k.provider
           u == [t EXCEPT ![p] = @ + 1]
           n == [k EXCEPT !.stage = "calling", !.attempt = @ + 1]
<1>1. /\ p \in ProviderNames /\ k.attempt < MaxRetries /\ t[p] = k.attempt + 1
      /\ k.primary = {p} => \A q \in ProviderNames : q # p => t[q] = 0
      /\ k.primary # {p} =>
           p = Fallback /\ \A q \in ProviderNames : q # Fallback /\ t[q] > 0 => Spent(t, f, q)
  BY DEF Budgeted, Providers!Running
<1>2. n.stage = "calling" /\ n.provider = p /\ n.attempt = k.attempt + 1 /\ n.primary = k.primary
  BY DEF AllCalls
<1>3. u[p] = k.attempt + 2 /\ \A q \in ProviderNames : q # p => u[q] = t[q]
  BY <1>1 DEF Tries, AllCalls
<1>4. k.attempt \in Nat
  BY DEF AllCalls
<1>5. \A q \in ProviderNames : u[q] <= MaxRetries + 1
  BY <1>1, <1>3, <1>4 DEF Budgeted
<1>6. \E q \in AnyProvider : \A r \in ProviderNames : u[r] > 0 => r \in {q, Fallback}
  <2>1. PICK q \in AnyProvider : \A r \in ProviderNames : t[r] > 0 => r \in {q, Fallback}
    BY DEF Budgeted
  <2>2. t[p] > 0
    BY <1>1, <1>4
  <2> QED BY <1>1, <1>3, <2>1, <2>2
<1> HIDE DEF p, u, n
<1>7. \A q \in ProviderNames : q # p /\ Spent(t, f, q) => Spent(u, f, q)
  BY <1>3 DEF Spent
<1>8. n.primary # {p} => p = Fallback /\ \A q \in ProviderNames : q # Fallback /\ u[q] > 0 => Spent(u, f, q)
  BY <1>1, <1>2, <1>3, <1>7
<1>9. n.primary = {p} => \A q \in ProviderNames : q # p => u[q] = 0
  BY <1>1, <1>2, <1>3
<1>10. Budgeted(n, u, f)
  BY <1>1, <1>2, <1>3, <1>4, <1>5, <1>6, <1>8, <1>9 DEF Budgeted
<1> QED BY <1>10 DEF p, u, n

\* The last attempt on a provider failed; those it turned to before are spent already.
LEMMA LastFailure ==
  ASSUME NEW k \in AllCalls, NEW t \in Tries, NEW f \in SUBSET ProviderNames, Budgeted(k, t, f),
         k.stage = "calling", NEW g \in SUBSET ProviderNames, f \subseteq g,
         k.attempt < MaxRetries => k.provider \in g
  PROVE  /\ k.primary = {k.provider} => Turned(t, g, {k.provider})
         /\ k.primary # {k.provider} => Budgeted([k EXCEPT !.stage = "failed"], t, g)
<1> DEFINE p == k.provider
<1>1. /\ p \in ProviderNames /\ k.attempt <= MaxRetries /\ t[p] = k.attempt + 1
      /\ k.primary = {p} => \A q \in ProviderNames : q # p => t[q] = 0
      /\ k.primary # {p} =>
           p = Fallback /\ \A q \in ProviderNames : q # Fallback /\ t[q] > 0 => Spent(t, f, q)
      /\ \A q \in ProviderNames : t[q] <= MaxRetries + 1
  BY DEF Budgeted, Providers!Running
<1>2. k.attempt \in Nat /\ t[p] > 0
  BY <1>1 DEF AllCalls
<1>3. Spent(t, g, p)
  BY <1>1, <1>2 DEF Spent
<1>4. ASSUME k.primary = {p} PROVE Turned(t, g, {p})
  BY <1>1, <1>2, <1>3, <1>4 DEF Turned, AnyProvider
<1>5. ASSUME k.primary # {p} PROVE Budgeted([k EXCEPT !.stage = "failed"], t, g)
  <2>1. \A q \in ProviderNames : t[q] > 0 => Spent(t, g, q)
    BY <1>1, <1>3, <1>5 DEF Spent
  <2>2. [k EXCEPT !.stage = "failed"].stage = "failed"
    BY DEF AllCalls
  <2>3. \E q \in AnyProvider : \A r \in ProviderNames : t[r] > 0 => r \in {q, Fallback}
    BY DEF Budgeted
  <2> QED BY <1>1, <1>2, <1>5, <2>1, <2>2, <2>3 DEF Budgeted, Providers!Running
<1> QED BY <1>4, <1>5

\* A step of one call leaves what holds of the others.
LEMMA OneCall ==
  ASSUME ProvidersInv, NEW c \in Calls, NEW k \in AllCalls, NEW t \in Tries,
         NEW f \in SUBSET ProviderNames, Budgeted(k, t, f),
         x3' = [x3 EXCEPT ![c] = k], x5' = [x5 EXCEPT ![c] = t], x6' = [x6 EXCEPT ![c] = f]
  PROVE  ProvidersInv'
<1>1. /\ x3' \in [Calls -> AllCalls] /\ x5' \in [Calls -> Tries]
      /\ x6' \in [Calls -> SUBSET ProviderNames]
  BY DEF ProvidersInv
<1>2. \A d \in Calls : Budgeted(x3'[d], x5'[d], x6'[d])
  <2>1. TAKE d \in Calls
  <2>2. CASE d = c
    <3>1. x3'[d] = k /\ x5'[d] = t /\ x6'[d] = f
      BY <2>2 DEF ProvidersInv
    <3> QED BY <3>1
  <2>3. CASE d # c
    <3>1. x3'[d] = x3[d] /\ x5'[d] = x5[d] /\ x6'[d] = x6[d]
      BY <2>3 DEF ProvidersInv
    <3> QED BY <3>1 DEF ProvidersInv
  <2> QED BY <2>2, <2>3
<1> QED BY <1>1, <1>2 DEF ProvidersInv

LEMMA CallTypes ==
  ASSUME ProvidersInv, NEW c \in Calls
  PROVE  /\ x3[c] \in AllCalls /\ x5[c] \in Tries /\ x6[c] \in SUBSET ProviderNames
         /\ Budgeted(x3[c], x5[c], x6[c])
         /\ x3 = [x3 EXCEPT ![c] = x3[c]] /\ x5 = [x5 EXCEPT ![c] = x5[c]]
         /\ x6 = [x6 EXCEPT ![c] = x6[c]]
BY DEF ProvidersInv

LEMMA TryIs ==
  ASSUME ProvidersInv, NEW c \in Calls, NEW p \in ProviderNames, NEW primary \in SUBSET ProviderNames,
         Providers!Try(c, p, primary)
  PROVE  /\ x3' = [x3 EXCEPT ![c] =
              [stage |-> "calling", provider |-> p, attempt |-> 0, primary |-> primary]]
         /\ x5' = [x5 EXCEPT ![c] = [x5[c] EXCEPT ![p] = @ + 1]]
         /\ [stage |-> "calling", provider |-> p, attempt |-> 0, primary |-> primary] \in AllCalls
         /\ [x5[c] EXCEPT ![p] = @ + 1] \in Tries
<1>1. x5[c] \in Tries
  BY DEF ProvidersInv
<1> QED BY <1>1 DEF Providers!Try, AllCalls, CallStages, AnyProvider, Tries

LEMMA StageIs ==
  ASSUME ProvidersInv, NEW c \in Calls, NEW s \in CallStages, Providers!Stage(c, s)
  PROVE  x3' = [x3 EXCEPT ![c] = [x3[c] EXCEPT !.stage = s]] /\ [x3[c] EXCEPT !.stage = s] \in AllCalls
<1>1. x3[c] \in AllCalls
  BY DEF ProvidersInv
<1> QED BY <1>1 DEF Providers!Stage, AllCalls

LEMMA FallBackStep ==
  ASSUME ProvidersInv, NEW c \in Calls, NEW primary \in SUBSET ProviderNames,
         NEW f \in SUBSET ProviderNames, Turned(x5[c], f, primary),
         Providers!FallBack(c, primary), x6' = [x6 EXCEPT ![c] = f]
  PROVE  ProvidersInv'
<1>1. x3[c] \in AllCalls /\ x5[c] \in Tries
  BY CallTypes
<1>2. CASE Fallback \in ProviderNames \ primary
  <2>1. Providers!Try(c, Fallback, primary)
    BY <1>2 DEF Providers!FallBack
  <2>2. Fallback \in ProviderNames
    BY <1>2
  <2> DEFINE k == [stage |-> "calling", provider |-> Fallback, attempt |-> 0, primary |-> primary]
             t == [x5[c] EXCEPT ![Fallback] = @ + 1]
  <2>3. /\ x3' = [x3 EXCEPT ![c] = k] /\ x5' = [x5 EXCEPT ![c] = t]
        /\ k \in AllCalls /\ t \in Tries
    BY <2>1, <2>2, TryIs
  <2>4. Budgeted(k, t, f)
    BY <1>1, <1>2, FallbackTry
  <2> HIDE DEF k, t
  <2> QED BY <2>3, <2>4, OneCall
<1>3. CASE Fallback \notin ProviderNames \ primary
  <2>1. Providers!Stage(c, "failed") /\ x5' = x5
    BY <1>3 DEF Providers!FallBack
  <2>2. "failed" \in CallStages
    BY DEF CallStages
  <2> DEFINE k == [x3[c] EXCEPT !.stage = "failed"]
  <2>3. x3' = [x3 EXCEPT ![c] = k] /\ k \in AllCalls
    BY <2>1, <2>2, StageIs
  <2>4. Budgeted(k, x5[c], f)
    BY <1>1, <1>3, NoFallback
  <2>5. x5' = [x5 EXCEPT ![c] = x5[c]]
    BY <2>1, CallTypes
  <2> HIDE DEF k
  <2> QED BY <1>1, <2>3, <2>4, <2>5, OneCall
<1> QED BY <1>2, <1>3

LEMMA ResolveStep ==
  ASSUME ProvidersInv, NEW c \in Calls, NEW requested, NEW strategy,
         Providers!Resolve(c, requested, strategy)
  PROVE  ProvidersInv'
<1>1. x3[c].stage = "new" /\ x6' = x6
  BY DEF Providers!Resolve
<1>2. PICK p : IF Providers!Resolves(p) THEN Providers!Try(c, p, {p}) ELSE Providers!FallBack(c, {})
  BY DEF Providers!Resolve
<1>3. /\ x3[c] \in AllCalls /\ x5[c] \in Tries /\ x6[c] \in SUBSET ProviderNames
      /\ Budgeted(x3[c], x5[c], x6[c])
  BY CallTypes
<1>4. x6' = [x6 EXCEPT ![c] = x6[c]]
  BY <1>1, CallTypes
<1>5. CASE Providers!Resolves(p)
  <2>1. Providers!Try(c, p, {p}) /\ p \in ProviderNames /\ {p} \in SUBSET ProviderNames
    BY <1>2, <1>5 DEF Providers!Resolves
  <2> DEFINE k == [stage |-> "calling", provider |-> p, attempt |-> 0, primary |-> {p}]
             t == [x5[c] EXCEPT ![p] = @ + 1]
  <2>2. /\ x3' = [x3 EXCEPT ![c] = k] /\ x5' = [x5 EXCEPT ![c] = t]
        /\ k \in AllCalls /\ t \in Tries
    BY <2>1, TryIs
  <2>3. Budgeted(k, t, x6[c])
    BY <1>1, <1>3, <2>1, FirstTry
  <2> HIDE DEF k, t
  <2> QED BY <1>3, <1>4, <2>2, <2>3, OneCall
<1>6. CASE ~ Providers!Resolves(p)
  <2>1. Providers!FallBack(c, {}) /\ {} \in SUBSET ProviderNames
    BY <1>2, <1>6
  <2>2. Turned(x5[c], x6[c], {})
    BY <1>1, <1>3 DEF Turned, Budgeted, AnyProvider
  <2> QED BY <1>3, <1>4, <2>1, <2>2, FallBackStep
<1> QED BY <1>5, <1>6

LEMMA FailStep ==
  ASSUME ProvidersInv, NEW c \in Calls, NEW retryable \in BOOLEAN, Providers!Fail(c, retryable)
  PROVE  ProvidersInv'
<1> DEFINE k == x3[c]
           p == k.provider
           g == IF retryable THEN x6[c] ELSE x6[c] \cup {p}
<1>1. /\ k \in AllCalls /\ x5[c] \in Tries /\ x6[c] \in SUBSET ProviderNames
      /\ Budgeted(k, x5[c], x6[c])
  BY CallTypes
<1>2. k.stage = "calling" /\ x6' = IF retryable THEN x6 ELSE [x6 EXCEPT ![c] = @ \cup {p}]
  BY DEF Providers!Fail
<1>3. p \in ProviderNames
  BY <1>1, <1>2 DEF Budgeted, Providers!Running
<1>4. g \in SUBSET ProviderNames /\ x6[c] \subseteq g
  BY <1>1, <1>3
<1>5. x6' = [x6 EXCEPT ![c] = g]
  BY <1>2, CallTypes
<1>6. IF Providers!MayRetry(c, retryable)
      THEN Providers!Stage(c, "backoff") /\ UNCHANGED x5
      ELSE IF k.primary = {p} THEN Providers!FallBack(c, {p})
      ELSE Providers!Stage(c, "failed") /\ UNCHANGED x5
  BY DEF Providers!Fail
<1>7. CASE Providers!MayRetry(c, retryable)
  <2>1. Providers!Stage(c, "backoff") /\ x5' = x5 /\ k.attempt < MaxRetries /\ g = x6[c]
    BY <1>6, <1>7 DEF Providers!MayRetry
  <2>2. "backoff" \in CallStages
    BY DEF CallStages
  <2>3. x5' = [x5 EXCEPT ![c] = x5[c]]
    BY <2>1, CallTypes
  <2> DEFINE n == [k EXCEPT !.stage = "backoff"]
  <2>4. x3' = [x3 EXCEPT ![c] = n] /\ n \in AllCalls
    BY <2>1, <2>2, StageIs
  <2>5. Budgeted(n, x5[c], g)
    BY <1>1, <1>2, <2>1, BackoffBegins
  <2> HIDE DEF n, g, k
  <2> QED BY <1>1, <1>4, <1>5, <2>3, <2>4, <2>5, OneCall
<1>8. CASE ~ Providers!MayRetry(c, retryable)
  <2>1. k.attempt < MaxRetries => p \in g
    BY <1>8 DEF Providers!MayRetry
  <2>2. /\ k.primary = {p} => Turned(x5[c], g, {p})
        /\ k.primary # {p} => Budgeted([k EXCEPT !.stage = "failed"], x5[c], g)
    <3> HIDE DEF g, k
    <3> QED BY <1>1, <1>2, <1>4, <2>1, LastFailure
  <2>3. CASE k.primary = {p}
    <3>1. Providers!FallBack(c, {p}) /\ {p} \in SUBSET ProviderNames
      BY <1>3, <1>6, <1>8, <2>3
    <3> HIDE DEF g, k
    <3> QED BY <1>4, <1>5, <2>2, <2>3, <3>1, FallBackStep
  <2>4. CASE k.primary # {p}
    <3>1. Providers!Stage(c, "failed") /\ x5' = x5
      BY <1>6, <1>8, <2>4
    <3>2. "failed" \in CallStages
      BY DEF CallStages
    <3>3. x5' = [x5 EXCEPT ![c] = x5[c]]
      BY <3>1, CallTypes
    <3> DEFINE n == [k EXCEPT !.stage = "failed"]
    <3>4. x3' = [x3 EXCEPT ![c] = n] /\ n \in AllCalls
      BY <3>1, <3>2, StageIs
    <3>5. Budgeted(n, x5[c], g)
      BY <2>2, <2>4
    <3> HIDE DEF n, g, k
    <3> QED BY <1>1, <1>4, <1>5, <3>3, <3>4, <3>5, OneCall
  <2> QED BY <2>3, <2>4
<1> QED BY <1>7, <1>8

LEMMA RetryStep ==
  ASSUME ProvidersInv, NEW c \in Calls, Providers!Retry(c)
  PROVE  ProvidersInv'
<1> DEFINE k == x3[c]
           p == k.provider
           n == [k EXCEPT !.stage = "calling", !.attempt = @ + 1]
           t == [x5[c] EXCEPT ![p] = @ + 1]
<1>1. /\ k \in AllCalls /\ x5[c] \in Tries /\ x6[c] \in SUBSET ProviderNames
      /\ Budgeted(k, x5[c], x6[c]) /\ x6 = [x6 EXCEPT ![c] = x6[c]]
  BY CallTypes
<1>2. k.stage = "backoff" /\ x6' = [x6 EXCEPT ![c] = x6[c]]
  BY <1>1 DEF Providers!Retry
<1>3. p \in ProviderNames
  BY <1>1, <1>2 DEF Budgeted, Providers!Running
<1>4. x3' = [x3 EXCEPT ![c] = n] /\ x5' = [x5 EXCEPT ![c] = t]
  BY <1>1 DEF Providers!Retry
<1>5. n \in AllCalls
  <2>1. \A m \in AllCalls : [m EXCEPT !.stage = "calling", !.attempt = @ + 1] \in AllCalls
    <3>1. TAKE m \in AllCalls
    <3>2. "calling" \in CallStages /\ m.attempt + 1 \in Nat
      BY DEF AllCalls, CallStages
    <3>3. [m EXCEPT !.stage = "calling"] \in AllCalls
      BY <3>2 DEF AllCalls
    <3>4. \A v \in AllCalls, i \in Nat : [v EXCEPT !.attempt = i] \in AllCalls
      BY DEF AllCalls
    <3>5. [m EXCEPT !.stage = "calling", !.attempt = @ + 1]
            = [[m EXCEPT !.stage = "calling"] EXCEPT !.attempt = m.attempt + 1]
      BY DEF AllCalls
    <3> QED BY <3>2, <3>3, <3>4, <3>5
  <2> QED BY <1>1, <2>1
<1>6. t \in Tries
  <2>1. \A u \in Tries, q \in ProviderNames : [u EXCEPT ![q] = @ + 1] \in Tries
    BY DEF Tries
  <2> QED BY <1>1, <1>3, <2>1
<1>7. Budgeted(n, t, x6[c])
  BY <1>1, <1>2, NextTry
<1> HIDE DEF n, t
<1> QED BY <1>1, <1>2, <1>4, <1>5, <1>6, <1>7, OneCall

\* A call succeeds, or is refused in safe mode.
LEMMA EndStep ==
  ASSUME ProvidersInv, NEW c \in Calls, NEW s \in {"done", "refused"},
         Providers!Stage(c, s), UNCHANGED <<x5, x6>>
  PROVE  ProvidersInv'
<1> DEFINE n == [x3[c] EXCEPT !.stage = s]
<1>1. /\ x3[c] \in AllCalls /\ x5[c] \in Tries /\ x6[c] \in SUBSET ProviderNames
      /\ Budgeted(x3[c], x5[c], x6[c])
  BY CallTypes
<1>2. x5' = [x5 EXCEPT ![c] = x5[c]] /\ x6' = [x6 EXCEPT ![c] = x6[c]]
  BY CallTypes
<1>3. s \in CallStages
  BY DEF CallStages
<1>4. x3' = [x3 EXCEPT ![c] = n] /\ n \in AllCalls
  BY <1>3, StageIs
<1>5. Budgeted(n, x5[c], x6[c])
  BY <1>1, EndOfCall
<1> HIDE DEF n
<1> QED BY <1>1, <1>2, <1>4, <1>5, OneCall

LEMMA ProvidersStep ==
  ASSUME ProvidersInv, Providers!Next \/ UNCHANGED <<x1, x2, x3, x4, x5, x6>>
  PROVE  ProvidersInv'
<1>1. CASE UNCHANGED <<x3, x5, x6>>
  BY <1>1 DEF ProvidersInv
<1>2. ASSUME NEW c \in Calls, Providers!Start(c) \/ Providers!Answer(c) \/ Providers!Retry(c)
      PROVE  ProvidersInv'
  <2>1. CASE Providers!Refuse(c)
    BY <2>1, EndStep DEF Providers!Refuse
  <2>2. CASE \E q \in Requested, s \in {"default", "latency-aware"} : Providers!Resolve(c, q, s)
    BY <2>2, ResolveStep
  <2>3. CASE Providers!Succeed(c)
    BY <2>3, EndStep DEF Providers!Succeed
  <2>4. CASE Providers!Fail(c, TRUE) \/ Providers!Fail(c, FALSE)
    BY <2>4, FailStep
  <2>5. CASE Providers!Retry(c)
    BY <2>5, RetryStep
  <2> QED BY <1>2, <2>1, <2>2, <2>3, <2>4, <2>5 DEF Providers!Start, Providers!Answer
<1>3. CASE Providers!Tick
  <2>1. UNCHANGED <<x3, x5, x6>>
    BY <1>3 DEF Providers!Tick
  <2> QED BY <1>1, <2>1
<1> QED BY <1>1, <1>2, <1>3 DEF Providers!Next

LEMMA PairSize ==
  ASSUME NEW a, NEW b
  PROVE  IsFiniteSet({a, b}) /\ Cardinality({a, b}) <= 2
<1>1. IsFiniteSet({}) /\ Cardinality({}) = 0
  BY FS_EmptySet
<1>2. IsFiniteSet({a}) /\ Cardinality({a}) = 1
  <2>1. {a} = {} \cup {a} /\ a \notin {}
    OBVIOUS
  <2>2. IsFiniteSet({} \cup {a}) /\ Cardinality({} \cup {a}) = 0 + 1
    BY <1>1, <2>1, FS_AddElement
  <2> QED BY <2>1, <2>2
<1>3. IsFiniteSet({a} \cup {b}) /\ Cardinality({a} \cup {b}) \in {1, 2}
  BY <1>2, FS_AddElement
<1>4. {a} \cup {b} = {a, b}
  OBVIOUS
<1> QED BY <1>3, <1>4

LEMMA ProvidersHold ==
  ASSUME ProvidersInv PROVE Providers!RetryBudget /\ Providers!NoPrematureFailure
<1>1. ASSUME NEW c \in Calls
      PROVE Providers!Cardinality({p \in ProviderNames : x5[c][p] > 0}) <= 2
  <2> DEFINE asked == {p \in ProviderNames : x5[c][p] > 0}
  <2>1. Budgeted(x3[c], x5[c], x6[c])
    BY CallTypes
  <2>2. PICK q \in AnyProvider : \A p \in ProviderNames : x5[c][p] > 0 => p \in {q, Fallback}
    BY <2>1 DEF Budgeted
  <2>3. asked \subseteq {q, Fallback}
    BY <2>2
  <2>4. IsFiniteSet({q, Fallback}) /\ Cardinality({q, Fallback}) <= 2
    BY PairSize
  <2>5. IsFiniteSet(asked) /\ Cardinality(asked) <= Cardinality({q, Fallback})
    BY <2>3, <2>4, FS_Subset
  <2>6. Cardinality(asked) \in Nat /\ Cardinality({q, Fallback}) \in Nat
    BY <2>4, <2>5, FS_CardinalityType
  <2>7. Cardinality(asked) <= 2
    BY <2>4, <2>5, <2>6
  <2> HIDE DEF asked
  <2>8. Providers!Cardinality(asked) = Cardinality(asked)
    BY DEF Providers!Cardinality, Cardinality
  <2>9. Providers!Cardinality(asked) <= 2
    BY <2>7, <2>8
  <2> QED BY <2>9 DEF asked
<1>2. Providers!RetryBudget
  BY <1>1 DEF Providers!RetryBudget, ProvidersInv, Budgeted
<1>3. Providers!NoPrematureFailure
  BY DEF Providers!NoPrematureFailure, Providers!UsedUp, ProvidersInv, Budgeted, Spent
<1> QED BY <1>2, <1>3

-----------------------------------------------------------------------------
(* The fixed-window limiter.                                               *)

Histories == [0..LimiterTime -> Nat]
Upto(h, t) == IF t < 0 THEN 0 ELSE IF t > LimiterTime THEN h[LimiterTime] ELSE h[t]

\* What was let through up to a time grows with it; nothing is let through after now, or
\* after the end of the window that was opened last.
Grows(h, now, end) ==
  /\ \A s, t \in Int : s <= t => Upto(h, s) <= Upto(h, t)
  /\ \A t \in Int : t >= now => Upto(h, t) = Upto(h, now)
  /\ \A t \in Int : t >= end - 1 => Upto(h, t) = Upto(h, end - 1)

\* The last window counts what was let through since it opened; of the windows before it
\* one at most is met by an interval that ends where it opens and is shorter than a window.
Windows(h, now, end, count) ==
  LET opened == end - WindowMs IN
  /\ opened <= now /\ count <= MaxRequests
  /\ Upto(h, now) - Upto(h, opened - 1) = count
  /\ \A t \in Int : opened - WindowMs < t /\ t <= opened =>
       Upto(h, opened - 1) - Upto(h, t - 1) <= MaxRequests

Bounded(h) == \A t \in Int : Upto(h, t + WindowMs - 1) - Upto(h, t - 1) <= 2 * MaxRequests

LimiterInv ==
  /\ x1 \in [count : Nat, resetAt : Int] /\ x2 \in 0..LimiterTime /\ x3 \in Histories
  /\ Grows(x3, x2, x1.resetAt) /\ Windows(x3, x2, x1.resetAt, x1.count) /\ Bounded(x3)
  /\ ~ x4

LEMMA UptoType ==
  ASSUME NEW h \in Histories, NEW t \in Int PROVE Upto(h, t) \in Nat
BY DEF Histories, Upto

LEMMA LimiterStarts ==
  ASSUME Limiter!Init PROVE LimiterInv
<1>1. x1 = [count |-> 0, resetAt |-> 0] /\ x2 = 0 /\ x3 \in Histories /\ ~ x4
  BY DEF Limiter!Init, Histories
<1>2. \A t \in Int : Upto(x3, t) = 0
  BY DEF Limiter!Init, Upto
<1>3. Grows(x3, 0, 0)
  BY <1>2 DEF Grows
<1>4. Windows(x3, 0, 0, 0)
  BY <1>2 DEF Windows
<1>5. Bounded(x3)
  BY <1>2 DEF Bounded
<1> QED BY <1>1, <1>3, <1>4, <1>5 DEF LimiterInv

\* A history with one more request, let through now.
Admits(h, now) == [t \in 0..LimiterTime |-> IF t < now THEN h[t] ELSE h[t] + 1]

LEMMA AdmitsOne ==
  ASSUME NEW h \in Histories, NEW now \in 0..LimiterTime
  PROVE  /\ Admits(h, now) \in Histories
         /\ \A t \in Int : Upto(Admits(h, now), t) = IF t < now THEN Upto(h, t) ELSE Upto(h, t) + 1
<1>1. Admits(h, now) \in Histories
  BY DEF Admits, Histories
<1>2. ASSUME NEW t \in Int
      PROVE Upto(Admits(h, now), t) = IF t < now THEN Upto(h, t) ELSE Upto(h, t) + 1
  <2>1. CASE t < 0
    BY <2>1 DEF Upto
  <2>2. CASE t > LimiterTime
    BY <2>2 DEF Upto, Admits
  <2>3. CASE t \in 0..LimiterTime
    BY <2>3 DEF Upto, Admits
  <2> QED BY <2>1, <2>2, <2>3
<1> QED BY <1>1, <1>2

LEMMA AdmitsGrows ==
  ASSUME NEW h \in Histories, NEW now \in 0..LimiterTime, NEW end \in Int, NEW next \in Int,
         Grows(h, now, end), next > now
  PROVE  Grows(Admits(h, now), now, next)
<1> DEFINE i == Admits(h, now)
<1>1. \A t \in Int : Upto(h, t) \in Nat /\ Upto(i, t) = IF t < now THEN Upto(h, t) ELSE Upto(h, t) + 1
  BY AdmitsOne, UptoType
<1> HIDE DEF i
<1>2. \A s, t \in Int : s <= t => Upto(i, s) <= Upto(i, t)
  BY <1>1 DEF Grows
<1>3. \A t \in Int : t >= now => Upto(i, t) = Upto(h, now) + 1
  BY <1>1 DEF Grows
<1>4. now \in Int /\ next - 1 \in Int /\ next - 1 >= now
  OBVIOUS
<1>5. \A t \in Int : t >= now => Upto(i, t) = Upto(i, now)
  BY <1>3, <1>4
<1>6. \A t \in Int : t >= next - 1 => Upto(i, t) = Upto(i, next - 1)
  BY <1>3, <1>4
<1> QED BY <1>2, <1>5, <1>6 DEF Grows, i

\* A request is counted in the window that is open.
LEMMA CountedOne ==
  ASSUME NEW h \in Histories, NEW now \in 0..LimiterTime, NEW end \in Int, NEW count \in Nat,
         Grows(h, now, end), Windows(h, now, end, count), Bounded(h), count < MaxRequests
  PROVE  Windows(Admits(h, now), now, end, count + 1) /\ Bounded(Admits(h, now))
<1> DEFINE i == Admits(h, now)
           s == end - WindowMs
<1>1. \A t \in Int : Upto(h, t) \in Nat /\ Upto(i, t) = IF t < now THEN Upto(h, t) ELSE Upto(h, t) + 1
  BY AdmitsOne, UptoType
<1>2. s \in Int /\ now \in Int /\ s <= now /\ MaxRequests \in Nat /\ WindowMs \in Nat \ {0}
  BY DEF Windows
<1>3. /\ Upto(h, now) - Upto(h, s - 1) = count
      /\ \A t \in Int : s - WindowMs < t /\ t <= s => Upto(h, s - 1) - Upto(h, t - 1) <= MaxRequests
  BY DEF Windows
<1> HIDE DEF i, s
<1>4. Upto(i, now) - Upto(i, s - 1) = count + 1
  BY <1>1, <1>2, <1>3
<1>5. \A t \in Int : s - WindowMs < t /\ t <= s => Upto(i, s - 1) - Upto(i, t - 1) <= MaxRequests
  <2>1. TAKE t \in Int
  <2>2. HAVE s - WindowMs < t /\ t <= s
  <2>3. t - 1 \in Int /\ t - 1 < now /\ s - 1 \in Int /\ s - 1 < now
    BY <1>2, <2>2
  <2>4. Upto(i, t - 1) = Upto(h, t - 1) /\ Upto(i, s - 1) = Upto(h, s - 1)
    BY <1>1, <2>3
  <2> QED BY <1>3, <2>2, <2>4
<1>6. Windows(i, now, end, count + 1)
  BY <1>2, <1>4, <1>5 DEF Windows, s
<1>7. Bounded(i)
  <2>1. SUFFICES ASSUME NEW t \in Int
        PROVE Upto(i, t + WindowMs - 1) - Upto(i, t - 1) <= 2 * MaxRequests
    BY DEF Bounded
  <2>2. PICK a \in Int : a = t - 1
    OBVIOUS
  <2>3. PICK b \in Int : b = t + WindowMs - 1
    BY <1>2
  <2>4. Upto(h, b) - Upto(h, a) <= 2 * MaxRequests
    BY <2>2, <2>3 DEF Bounded
  <2>5. CASE a >= now \/ b < now
    <3>1. a <= b
      BY <1>2, <2>2, <2>3
    <3>2. Upto(i, b) - Upto(i, a) = Upto(h, b) - Upto(h, a)
      BY <1>1, <1>2, <2>5, <3>1
    <3> QED BY <2>2, <2>3, <2>4, <3>2
  <2>6. CASE a < now /\ b >= now
    <3>1. Upto(i, a) = Upto(h, a) /\ Upto(i, b) = Upto(h, now) + 1
      BY <1>1, <1>2, <2>6 DEF Grows
    <3>2. Upto(i, b) - Upto(h, s - 1) <= MaxRequests
      BY <1>1, <1>2, <1>3, <3>1
    <3>3. CASE a >= s
      <4>1. Upto(h, s - 1) <= Upto(h, a)
        BY <1>2, <3>3 DEF Grows
      <4> QED BY <1>1, <1>2, <2>2, <2>3, <3>1, <3>2, <4>1
    <3>4. CASE a < s
      <4>1. s - WindowMs < t /\ t <= s
        BY <1>2, <2>2, <2>3, <2>6, <3>4
      <4>2. Upto(h, s - 1) - Upto(h, a) <= MaxRequests
        BY <1>3, <2>2, <4>1
      <4> QED BY <1>1, <1>2, <2>2, <2>3, <3>1, <3>2, <4>2
    <3> QED BY <1>2, <3>3, <3>4
  <2> QED BY <1>2, <2>5, <2>6
<1> QED BY <1>6, <1>7 DEF i

\* A request opens a window when the last one has ended.
LEMMA OpenedOne ==
  ASSUME NEW h \in Histories, NEW now \in 0..LimiterTime, NEW end \in Int, NEW count \in Nat,
         Grows(h, now, end), Windows(h, now, end, count), Bounded(h), now >= end
  PROVE  Windows(Admits(h, now), now, now + WindowMs, 1) /\ Bounded(Admits(h, now))
<1> DEFINE i == Admits(h, now)
           s == end - WindowMs
<1>1. \A t \in Int : Upto(h, t) \in Nat /\ Upto(i, t) = IF t < now THEN Upto(h, t) ELSE Upto(h, t) + 1
  BY AdmitsOne, UptoType
<1>2. s \in Int /\ now \in Int /\ s + WindowMs <= now /\ MaxRequests \in Nat \ {0} /\ WindowMs \in Nat \ {0}
  OBVIOUS
<1>3. Upto(h, now) - Upto(h, s - 1) = count /\ count <= MaxRequests
  BY DEF Windows
<1> HIDE DEF i, s
<1>4. Upto(h, now) = Upto(h, end - 1) /\ Upto(h, now - 1) = Upto(h, end - 1)
  BY <1>2 DEF Grows
<1>5. Upto(i, now) - Upto(i, now - 1) = 1
  BY <1>1, <1>2, <1>4
<1>6. ASSUME NEW t \in Int, now - WindowMs < t, t <= now
      PROVE Upto(i, now - 1) - Upto(i, t - 1) <= MaxRequests
  <2>1. t - 1 \in Int /\ now - 1 \in Int /\ s - 1 \in Int /\ t - 1 < now /\ s - 1 <= t - 1
    BY <1>2, <1>6
  <2>2. Upto(i, t - 1) = Upto(h, t - 1) /\ Upto(i, now - 1) = Upto(h, now)
    BY <1>1, <1>4, <2>1
  <2>3. Upto(h, s - 1) <= Upto(h, t - 1)
    BY <2>1 DEF Grows
  <2> QED BY <1>1, <1>2, <1>3, <2>1, <2>2, <2>3
<1>7. Windows(i, now, now + WindowMs, 1)
  <2>1. now + WindowMs - WindowMs = now
    BY <1>2
  <2> QED BY <1>2, <1>5, <1>6, <2>1 DEF Windows
<1>8. Bounded(i)
  <2>1. SUFFICES ASSUME NEW t \in Int
        PROVE Upto(i, t + WindowMs - 1) - Upto(i, t - 1) <= 2 * MaxRequests
    BY DEF Bounded
  <2>2. PICK a \in Int : a = t - 1
    OBVIOUS
  <2>3. PICK b \in Int : b = t + WindowMs - 1
    BY <1>2
  <2>4. Upto(h, b) - Upto(h, a) <= 2 * MaxRequests
    BY <2>2, <2>3 DEF Bounded
  <2>5. CASE a >= now \/ b < now
    <3>1. a <= b
      BY <1>2, <2>2, <2>3
    <3>2. Upto(i, b) - Upto(i, a) = Upto(h, b) - Upto(h, a)
      BY <1>1, <1>2, <2>5, <3>1
    <3> QED BY <2>2, <2>3, <2>4, <3>2
  <2>6. CASE a < now /\ b >= now
    <3>1. Upto(i, b) = Upto(h, now) + 1
      BY <1>1, <1>2, <2>6 DEF Grows
    <3>2. Upto(i, now - 1) = Upto(h, now)
      BY <1>1, <1>2, <1>4
    <3>3. now - WindowMs < t /\ t <= now
      BY <1>2, <2>2, <2>3, <2>6
    <3>4. Upto(i, now - 1) - Upto(i, a) <= MaxRequests
      BY <1>6, <2>2, <3>3
    <3>5. Upto(i, a) \in Nat /\ Upto(h, now) \in Nat
      BY <1>1, <1>2, <2>6
    <3>6. Upto(i, b) - Upto(i, a) <= 2 * MaxRequests
      BY <1>2, <3>1, <3>2, <3>4, <3>5
    <3> QED BY <2>2, <2>3, <3>6
  <2> QED BY <1>2, <2>5, <2>6
<1> QED BY <1>7, <1>8 DEF i

LEMMA NewWindowStep ==
  ASSUME LimiterInv, Limiter!NewWindow
  PROVE  LimiterInv'
<1> USE DEF LimiterInv
<1>1. /\ x1' = [count |-> 1, resetAt |-> x2 + WindowMs] /\ x2' = x2 /\ x4' = x4
      /\ x3' = Admits(x3, x2) /\ x2 >= x1.resetAt
  BY DEF Limiter!NewWindow, Limiter!Accept, Admits
<1>2. PICK end \in Int, count \in Nat : end = x1.resetAt /\ count = x1.count
  OBVIOUS
<1>3. PICK now \in 0..LimiterTime, h \in Histories : now = x2 /\ h = x3
  OBVIOUS
<1>4. Grows(h, now, end) /\ Windows(h, now, end, count) /\ Bounded(h) /\ now >= end
  BY <1>1, <1>2, <1>3
<1>5. now + WindowMs \in Int /\ now + WindowMs > now
  OBVIOUS
<1>6. Grows(Admits(h, now), now, now + WindowMs)
  BY <1>4, <1>5, AdmitsGrows
<1>7. Windows(Admits(h, now), now, now + WindowMs, 1) /\ Bounded(Admits(h, now))
  BY <1>4, OpenedOne
<1>8. Admits(h, now) \in Histories
  BY AdmitsOne
<1>9. x1'.count = 1 /\ x1'.resetAt = now + WindowMs /\ x1' \in [count : Nat, resetAt : Int]
  BY <1>1, <1>3, <1>5
<1>10. x3' = Admits(h, now) /\ x2' = now
  BY <1>1, <1>3
<1>11. Grows(x3', x2', x1'.resetAt) /\ Windows(x3', x2', x1'.resetAt, x1'.count) /\ Bounded(x3')
  BY <1>6, <1>7, <1>9, <1>10
<1> QED BY <1>1, <1>8, <1>9, <1>10, <1>11

LEMMA CountOneStep ==
  ASSUME LimiterInv, Limiter!CountOne
  PROVE  LimiterInv'
<1> USE DEF LimiterInv
<1>1. /\ x1' = [x1 EXCEPT !.count = @ + 1] /\ x2' = x2 /\ x4' = x4
      /\ x3' = Admits(x3, x2) /\ x2 < x1.resetAt /\ x1.count < MaxRequests
  BY DEF Limiter!CountOne, Limiter!Accept, Admits
<1>2. PICK end \in Int, count \in Nat : end = x1.resetAt /\ count = x1.count
  OBVIOUS
<1>3. PICK now \in 0..LimiterTime, h \in Histories : now = x2 /\ h = x3
  OBVIOUS
<1>4. /\ Grows(h, now, end) /\ Windows(h, now, end, count) /\ Bounded(h)
      /\ end > now /\ count < MaxRequests
  BY <1>1, <1>2, <1>3
<1>5. Grows(Admits(h, now), now, end)
  BY <1>4, AdmitsGrows
<1>6. Windows(Admits(h, now), now, end, count + 1) /\ Bounded(Admits(h, now))
  BY <1>4, CountedOne
<1>7. Admits(h, now) \in Histories
  BY AdmitsOne
<1>8. x1'.count = count + 1 /\ x1'.resetAt = end /\ x1' \in [count : Nat, resetAt : Int]
  BY <1>1, <1>2
<1>9. x3' = Admits(h, now) /\ x2' = now
  BY <1>1, <1>3
<1>10. Grows(x3', x2', x1'.resetAt) /\ Windows(x3', x2', x1'.resetAt, x1'.count) /\ Bounded(x3')
  BY <1>5, <1>6, <1>8, <1>9
<1> QED BY <1>1, <1>7, <1>8, <1>9, <1>10

\* Between the opening of a window, less than a window ago, and now as many have passed as
\* the window has counted.
LEMMA RefuseStep ==
  ASSUME LimiterInv, Limiter!Refuse
  PROVE  LimiterInv'
<1> USE DEF LimiterInv
<1>1. /\ UNCHANGED <<x1, x2, x3>> /\ x2 < x1.resetAt /\ x1.count >= MaxRequests
      /\ x4' = (x4 \/ Limiter!Passed(x2 - WindowMs + 1, x2) < MaxRequests)
  BY DEF Limiter!Refuse
<1>2. PICK end \in Int, count \in Nat : end = x1.resetAt /\ count = x1.count
  OBVIOUS
<1>3. PICK now \in Int : now = x2
  OBVIOUS
<1>4. Upto(x3, now) - Upto(x3, end - WindowMs - 1) = count
  BY <1>2, <1>3 DEF Windows
<1>5. Upto(x3, now - WindowMs) <= Upto(x3, end - WindowMs - 1)
  <2>1. now - WindowMs \in Int /\ end - WindowMs - 1 \in Int /\ now - WindowMs <= end - WindowMs - 1
    BY <1>1, <1>2, <1>3
  <2> QED BY <2>1 DEF Grows
<1>6. Upto(x3, now) \in Nat /\ Upto(x3, now - WindowMs) \in Nat /\ Upto(x3, end - WindowMs - 1) \in Nat
  BY UptoType
<1>7. Upto(x3, now) - Upto(x3, now - WindowMs) >= MaxRequests
  BY <1>1, <1>2, <1>4, <1>5, <1>6
<1>8. now - WindowMs + 1 - 1 = now - WindowMs
  OBVIOUS
<1>9. Limiter!Passed(now - WindowMs + 1, now) = Upto(x3, now) - Upto(x3, now - WindowMs)
  BY <1>8 DEF Limiter!Passed, Limiter!UpTo, Upto
<1>10. ~ x4'
  <2>1. ~ (Limiter!Passed(x2 - WindowMs + 1, x2) < MaxRequests)
    BY <1>3, <1>6, <1>7, <1>9
  <2> QED BY <1>1, <2>1, Zenon
<1> QED BY <1>1, <1>10

LEMMA LimiterTick ==
  ASSUME LimiterInv, Limiter!Tick
  PROVE  LimiterInv'
<1> USE DEF LimiterInv
<1>1. UNCHANGED <<x1, x3, x4>> /\ x2 < LimiterTime /\ x2' = x2 + 1
  BY DEF Limiter!Tick
<1>2. PICK end \in Int, count \in Nat : end = x1.resetAt /\ count = x1.count
  OBVIOUS
<1>3. PICK now \in 0..LimiterTime : now = x2
  OBVIOUS
<1>4. Grows(x3, now, end) /\ Windows(x3, now, end, count)
  BY <1>2, <1>3
<1>5. now \in Int /\ now + 1 \in Int /\ Upto(x3, now + 1) = Upto(x3, now)
  BY <1>4 DEF Grows
<1>6. Grows(x3, now + 1, end)
  BY <1>4, <1>5 DEF Grows
<1>7. Windows(x3, now + 1, end, count)
  BY <1>4, <1>5 DEF Windows
<1>8. x2' = now + 1 /\ x2' \in 0..LimiterTime
  BY <1>1, <1>3
<1> QED BY <1>1, <1>2, <1>6, <1>7, <1>8

LEMMA LimiterStep ==
  ASSUME LimiterInv, Limiter!Next \/ UNCHANGED <<x1, x2, x3, x4>>
  PROVE  LimiterInv'
<1>1. CASE UNCHANGED <<x1, x2, x3, x4>>
  BY <1>1 DEF LimiterInv
<1>2. CASE Limiter!Next
  BY <1>2, NewWindowStep, CountOneStep, RefuseStep, LimiterTick DEF Limiter!Next, Limiter!Check
<1> QED BY <1>1, <1>2

LEMMA LimiterHolds ==
  ASSUME LimiterInv PROVE Limiter!TwiceTheLimitAtMost /\ Limiter!RefusedOnlyAtTheLimit
<1>1. ASSUME NEW t \in 0..LimiterTime
      PROVE Limiter!Passed(t, t + WindowMs - 1) <= 2 * MaxRequests
  <2>1. Limiter!Passed(t, t + WindowMs - 1) = Upto(x3, t + WindowMs - 1) - Upto(x3, t - 1)
    BY DEF Limiter!Passed, Limiter!UpTo, Upto
  <2>2. t \in Int
    OBVIOUS
  <2> QED BY <2>1, <2>2 DEF LimiterInv, Bounded
<1> QED BY <1>1 DEF Limiter!TwiceTheLimitAtMost, Limiter!RefusedOnlyAtTheLimit, LimiterInv

\* The limits hold: of a loop in every engine, whatever the limits are; of the attempts and
\* providers of a call, however many calls interleave, and no call gives up before; of the
\* requests in any interval as long as a window, and none is refused below the limit.
THEOREM LimitsAreKept == Spec => []LimitsHold
<1> DEFINE Inv == /\ part = "loop" => LoopInv
                  /\ part = "providers" => ProvidersInv
                  /\ part = "limiter" => LimiterInv
<1>1. Init => Inv
  BY InitOfPart, LoopStarts, ProvidersStart, LimiterStarts
<1>2. Inv /\ [Next]_vars => Inv'
  BY StepOfPart, LoopStep, ProvidersStep, LimiterStep
<1>3. Inv => LimitsHold
  BY ProvidersHold, LimiterHolds DEF LimitsHold, LoopInv
<1> HIDE DEF Inv
<1> QED BY <1>1, <1>2, <1>3, PTL DEF Spec

-----------------------------------------------------------------------------
(* The executor and its replays.                                           *)

AnyRun == Runs \cup {Executor!Waiting.run}
Answers == Executions \cup {NoAnswer}
ExecStages == {"new", "begun", "calling", "record", "complete", "done", "failed", "dead"}
AllEvents == [event : {"task.tool_result", "task.error"}, run : AnyRun, answer : Answers]
AllExecs == [stage : ExecStages, run : AnyRun, answer : Answers, dedupe : BOOLEAN]

ExecutorTypes ==
  /\ x1 \in Seq(AllEvents) /\ x2 \in [Executions -> AllExecs]
  /\ x3 \in [Runs -> SUBSET Executions] /\ x4 \in [Runs -> Nat]

IsResult(v, r) == v.event = "task.tool_result" /\ v.run = r
HasResult(r, events) == \E i \in DOMAIN events : IsResult(events[i], r)

\* An execution k has an answer after the provider gave one or one was reused, and it is
\* one that its own run was given.
Holds(k, given) ==
  /\ k.stage # "new" => k.run \in Runs
  /\ k.stage \in {"new", "begun", "calling"} => k.answer = NoAnswer
  /\ k.stage \in {"record", "complete", "done"} => k.answer # NoAnswer
  /\ k.answer # NoAnswer => k.run \in Runs /\ k.answer \in given[k.run]
Told(v, given) ==
  v.event = "task.tool_result" => v.run \in Runs /\ v.answer \in given[v.run]

\* An execution k of the run r that may still get an answer of its own, and one because of
\* which the run needs no other to begin.
May(k, r, events) ==
  k.run = r /\ \/ k.stage = "calling"
               \/ k.stage = "begun" /\ (k.dedupe => ~ HasResult(r, events))
Occupies(k, r) == k.run = r /\ k.stage \in {"begun", "calling", "record"}

\* The executions that were or may yet be answered, and whether the run has room for one more:
\* nothing is recorded and nothing is under way.
Charged(r, events, exec, given) == given[r] \cup {e \in Executions : May(exec[e], r, events)}
Room(r, events, exec) ==
  IF HasResult(r, events) \/ \E e \in Executions : Occupies(exec[e], r) THEN 0 ELSE 1

\* They come to one, and one for each lapse.
Budget(r, events, exec, given, lapses) ==
  Cardinality(Charged(r, events, exec, given)) + Room(r, events, exec) <= 1 + lapses[r]

ExecutorInv ==
  /\ ExecutorTypes
  /\ \A e \in Executions : Holds(x2[e], x3)
  /\ \A i \in DOMAIN x1 : Told(x1[i], x3)
  /\ \A r \in Runs : \A e \in x3[r] : x2[e].stage \notin {"new", "begun", "calling"}
  /\ \A r \in Runs : Budget(r, x1, x2, x3, x4)

LEMMA ExecutorStarts ==
  ASSUME Executor!Init PROVE ExecutorInv
<1>1. ExecutorTypes
  BY DEF Executor!Init, ExecutorTypes, Executor!Waiting, AllExecs, ExecStages, AnyRun, Answers
<1>2. \A e \in Executions : x2[e].stage = "new" /\ x2[e].answer = NoAnswer
  BY DEF Executor!Init, Executor!Waiting
<1>3. x1 = <<>> /\ \A r \in Runs : x3[r] = {} /\ x4[r] = 0
  BY DEF Executor!Init
<1>4. \A e \in Executions : Holds(x2[e], x3)
  BY <1>2 DEF Holds
<1>5. \A r \in Runs : Budget(r, x1, x2, x3, x4)
  <2>1. TAKE r \in Runs
  <2>2. Charged(r, x1, x2, x3) = {}
    BY <1>2, <1>3 DEF Charged, May
  <2>3. Cardinality({}) = 0
    BY FS_EmptySet
  <2>4. Room(r, x1, x2) \in {0, 1}
    BY DEF Room
  <2>5. Cardinality(Charged(r, x1, x2, x3)) = 0 /\ x4[r] = 0
    BY <1>3, <2>2, <2>3
  <2> QED BY <2>4, <2>5 DEF Budget
<1> QED BY <1>1, <1>3, <1>4, <1>5 DEF ExecutorInv

LEMMA ChargedIsFinite ==
  ASSUME ExecutorTypes, NEW r \in Runs
  PROVE  /\ IsFiniteSet(Charged(r, x1, x2, x3))
         /\ Cardinality(Charged(r, x1, x2, x3)) \in Nat
<1>1. Charged(r, x1, x2, x3) \in SUBSET Executions
  BY DEF Charged, ExecutorTypes
<1> QED BY <1>1, FS_Subset, FS_CardinalityType DEF ServicesAssumption

\* Nobody else is charged, or one more who takes the room or lapsed; and room is made by one
\* who is not charged any more, or by a lapse.
LEMMA BudgetKept ==
  ASSUME NEW C, NEW D, NEW e, NEW room \in {0, 1}, NEW roomAfter \in {0, 1},
         NEW l \in Nat, NEW m \in {l, l + 1}, IsFiniteSet(C), Cardinality(C) + room <= 1 + l,
         \/ D \subseteq C /\ (roomAfter <= room \/ m = l + 1)
         \/ e \in C /\ D \subseteq C \ {e}
         \/ D \subseteq C \cup {e} /\ roomAfter = 0 /\ (room = 1 \/ m = l + 1)
  PROVE  Cardinality(D) + roomAfter <= 1 + m
<1>0. Cardinality(C) \in Nat
  BY FS_CardinalityType
<1>1. CASE D \subseteq C /\ (roomAfter <= room \/ m = l + 1)
  <2>1. D \in SUBSET C
    BY <1>1
  <2>2. Cardinality(D) <= Cardinality(C) /\ Cardinality(D) \in Nat
    BY <2>1, FS_Subset, FS_CardinalityType
  <2> QED BY <1>0, <1>1, <2>2
<1>2. CASE e \in C /\ D \subseteq C \ {e}
  <2>1. IsFiniteSet(C \ {e}) /\ Cardinality(C \ {e}) = Cardinality(C) - 1
    BY <1>2, FS_RemoveElement
  <2>2. D \in SUBSET (C \ {e})
    BY <1>2
  <2>3. Cardinality(D) <= Cardinality(C \ {e}) /\ Cardinality(D) \in Nat
    BY <2>1, <2>2, FS_Subset, FS_CardinalityType
  <2> QED BY <1>0, <2>1, <2>3
<1>3. CASE D \subseteq C \cup {e} /\ roomAfter = 0 /\ (room = 1 \/ m = l + 1)
  <2>1. /\ IsFiniteSet(C \cup {e})
        /\ Cardinality(C \cup {e}) = Cardinality(C) \/ Cardinality(C \cup {e}) = Cardinality(C) + 1
    BY FS_AddElement
  <2>2. D \in SUBSET (C \cup {e})
    BY <1>3
  <2>3. Cardinality(D) <= Cardinality(C \cup {e}) /\ Cardinality(D) \in Nat
    BY <2>1, <2>2, FS_Subset, FS_CardinalityType
  <2>4. Cardinality(C \cup {e}) <= Cardinality(C) + 1
    BY <1>0, <2>1
  <2> QED BY <1>0, <1>3, <2>1, <2>3, <2>4
<1> QED BY <1>1, <1>2, <1>3

\* A step of the execution e, which belongs to the run s when the step is over, keeps the budget
\* of the other runs.
LEMMA OtherRuns ==
  ASSUME ExecutorInv, NEW e \in Executions, NEW s \in Runs, NEW r \in Runs, r # s,
         \A d \in Executions \ {e} : x2'[d] = x2[d],
         x2'[e].run = s, x2[e].run = s \/ x2[e].stage = "new",
         HasResult(r, x1') <=> HasResult(r, x1), x3'[r] = x3[r], x4'[r] = x4[r]
  PROVE  Budget(r, x1', x2', x3', x4')
<1>1. \A d \in Executions : May(x2'[d], r, x1') <=> May(x2[d], r, x1)
  BY DEF May
<1>2. \A d \in Executions : Occupies(x2'[d], r) <=> Occupies(x2[d], r)
  BY DEF Occupies
<1>3. Charged(r, x1', x2', x3') = Charged(r, x1, x2, x3)
  BY <1>1 DEF Charged
<1>4. Room(r, x1', x2') = Room(r, x1, x2)
  BY <1>2 DEF Room
<1> QED BY <1>3, <1>4 DEF Budget, ExecutorInv

\* And of its own run, if it charges no more than it should.
LEMMA OwnRun ==
  ASSUME ExecutorInv, NEW e, NEW r \in Runs, x4'[r] \in {x4[r], x4[r] + 1},
         LET C == Charged(r, x1, x2, x3)
             D == Charged(r, x1', x2', x3')
             room == Room(r, x1, x2)
             after == Room(r, x1', x2') IN
         \/ D \subseteq C /\ (after = 0 \/ after = room \/ x4'[r] = x4[r] + 1)
         \/ e \in C /\ D \subseteq C \ {e}
         \/ D \subseteq C \cup {e} /\ after = 0 /\ (room = 1 \/ x4'[r] = x4[r] + 1)
  PROVE  Budget(r, x1', x2', x3', x4')
<1> DEFINE C == Charged(r, x1, x2, x3)
           D == Charged(r, x1', x2', x3')
           room == Room(r, x1, x2)
           after == Room(r, x1', x2')
           l == x4[r]
           m == x4'[r]
<1>1. IsFiniteSet(C)
  BY ChargedIsFinite DEF ExecutorInv
<1>2. Cardinality(C) + room <= 1 + l
  BY DEF ExecutorInv, Budget
<1>3. room \in {0, 1} /\ after \in {0, 1}
  BY DEF Room
<1>4. l \in Nat /\ m \in {l, l + 1}
  BY DEF ExecutorInv, ExecutorTypes
<1>5. \/ D \subseteq C /\ (after <= room \/ m = l + 1)
      \/ e \in C /\ D \subseteq C \ {e}
      \/ D \subseteq C \cup {e} /\ after = 0 /\ (room = 1 \/ m = l + 1)
  <2>1. \/ D \subseteq C /\ (after = 0 \/ after = room \/ m = l + 1)
        \/ e \in C /\ D \subseteq C \ {e}
        \/ D \subseteq C \cup {e} /\ after = 0 /\ (room = 1 \/ m = l + 1)
    OBVIOUS
  <2> HIDE DEF C, D, room, after, l, m
  <2>2. after = 0 \/ after = room => after <= room
    BY <1>3
  <2> QED BY <2>1, <2>2
<1> HIDE DEF C, D, room, after, l, m
<1>6. Cardinality(D) + after <= 1 + m
  BY <1>1, <1>2, <1>3, <1>4, <1>5, BudgetKept
<1> QED BY <1>6 DEF Budget, D, after, m

\* What the steps of an execution e that goes on have in common; n is what becomes of it.
Moves(e, n) ==
  /\ n \in AllExecs /\ x2' = [x2 EXCEPT ![e] = n]
  /\ n.run = x2[e].run /\ n.stage \notin {"new", "begun"}
  /\ x2[e].stage \in {"begun", "calling", "record", "complete"}
  /\ x4' = x4 \/ x4' = [x4 EXCEPT ![x2[e].run] = @ + 1]

\* Such a step keeps the types, what holds of each execution, and the budget.
LEMMA MoveStep ==
  ASSUME ExecutorInv, NEW e \in Executions, NEW n, Moves(e, n),
         x1' \in Seq(AllEvents), \A i \in DOMAIN x1' : Told(x1'[i], x3'),
         \A r \in Runs : HasResult(r, x1) => HasResult(r, x1'),
         \A r \in Runs : r # x2[e].run /\ HasResult(r, x1') => HasResult(r, x1),
         \/ x3' = x3
         \/ /\ x2[e].stage = "calling" /\ n.stage = "record"
            /\ x3' = [x3 EXCEPT ![x2[e].run] = @ \cup {e}],
         Holds(n, x3'), n.stage = "calling" => x2[e].stage = "begun",
         n.stage = "calling" =>
           May(x2[e], x2[e].run, x1) \/ x4' = [x4 EXCEPT ![x2[e].run] = @ + 1],
         n.stage = "record" => x2[e].stage = "calling" /\ x3' # x3,
         x2[e].stage = "record" =>
           HasResult(x2[e].run, x1') \/ x4' = [x4 EXCEPT ![x2[e].run] = @ + 1]
  PROVE  ExecutorInv'
<1> USE DEF ExecutorInv
<1> DEFINE k == x2[e]
           s == k.run
<1>1. /\ n \in AllExecs /\ n.run = s /\ n.stage \notin {"new", "begun"}
      /\ k.stage \in {"begun", "calling", "record", "complete"}
      /\ x4' = x4 \/ x4' = [x4 EXCEPT ![s] = @ + 1]
  BY DEF Moves
<1>2. s \in Runs
  BY <1>1 DEF Holds
<1>3. x2'[e] = n /\ \A d \in Executions : d # e => x2'[d] = x2[d]
  BY DEF Moves, ExecutorTypes
<1>4. /\ \A r \in Runs : x3[r] \subseteq x3'[r] /\ x3'[r] \subseteq x3[r] \cup {e}
      /\ \A r \in Runs : r # s => x3'[r] = x3[r]
      /\ e \in x3'[s] => e \in x3[s] \/ (k.stage = "calling" /\ n.stage = "record")
      /\ x3' \in [Runs -> SUBSET Executions]
  <2>1. x3 \in [Runs -> SUBSET Executions]
    BY DEF ExecutorTypes
  <2>2. CASE x3' = x3
    BY <2>1, <2>2
  <2>3. CASE k.stage = "calling" /\ n.stage = "record" /\ x3' = [x3 EXCEPT ![s] = @ \cup {e}]
    <3> HIDE DEF k, s
    <3> QED BY <1>2, <2>1, <2>3
  <2> QED BY <2>2, <2>3
<1>5. /\ x4' \in [Runs -> Nat] /\ x4'[s] \in {x4[s], x4[s] + 1}
      /\ \A r \in Runs : r # s => x4'[r] = x4[r]
      /\ x4' = [x4 EXCEPT ![s] = @ + 1] => x4'[s] = x4[s] + 1
  <2>1. x4 \in [Runs -> Nat]
    BY DEF ExecutorTypes
  <2> HIDE DEF s
  <2> QED BY <1>1, <1>2, <2>1
<1>6. ExecutorTypes'
  <2>1. x2' \in [Executions -> AllExecs]
    BY DEF Moves, ExecutorTypes
  <2> QED BY <1>4, <1>5, <2>1 DEF ExecutorTypes
<1>7. \A d \in Executions : Holds(x2'[d], x3')
  <2>1. \A d \in Executions : Holds(x2[d], x3')
    BY <1>4 DEF Holds
  <2> QED BY <1>3, <2>1
<1>8. \A r \in Runs : \A d \in x3'[r] : x2'[d].stage \notin {"new", "begun", "calling"}
  <2>1. TAKE r \in Runs
  <2>2. TAKE d \in x3'[r]
  <2>3. d \in Executions
    BY <1>4
  <2>4. CASE d # e
    BY <1>3, <1>4, <2>3, <2>4
  <2>5. CASE d = e
    <3>1. CASE e \in x3[r]
      <4>1. n.stage # "calling"
        BY <3>1
      <4> QED BY <1>1, <1>3, <2>5, <4>1
    <3>2. CASE e \notin x3[r]
      <4>1. n.stage = "record"
        BY <1>4, <2>5, <3>2
      <4> QED BY <1>3, <2>5, <4>1
    <3> QED BY <3>1, <3>2
  <2> QED BY <2>4, <2>5
<1>9. Budget(s, x1', x2', x3', x4')
  <2> DEFINE C == Charged(s, x1, x2, x3)
             D == Charged(s, x1', x2', x3')
  <2>1. \A d \in Executions \ {e} : May(x2'[d], s, x1') => May(x2[d], s, x1)
    <3>1. HasResult(s, x1) => HasResult(s, x1')
      BY <1>2
    <3> QED BY <1>3, <3>1 DEF May
  <2>2. D \subseteq C \cup {e}
    BY <1>2, <1>4, <2>1 DEF Charged
  <2>3. May(x2'[e], s, x1') <=> n.stage = "calling"
    BY <1>1, <1>3 DEF May
  <2>4. \A d \in Executions \ {e} : Occupies(x2'[d], s) <=> Occupies(x2[d], s)
    BY <1>3
  <2>5. Occupies(k, s) <=> k.stage # "complete"
    BY <1>1 DEF Occupies
  <2>6. CASE n.stage = "calling"
    <3>1. Room(s, x1', x2') = 0
      BY <1>1, <1>3, <2>6 DEF Room, Occupies
    <3>2. May(k, s, x1) => e \in C
      BY DEF Charged
    <3>3. May(k, s, x1) => D \subseteq C
      BY <2>2, <3>2
    <3> HIDE DEF C, D
    <3>4. \/ D \subseteq C /\ Room(s, x1', x2') = 0
          \/ D \subseteq C \cup {e} /\ Room(s, x1', x2') = 0 /\ x4'[s] = x4[s] + 1
      BY <1>5, <2>2, <2>6, <3>1, <3>3
    <3> QED BY <1>2, <1>5, <3>4, OwnRun DEF C, D
  <2>7. CASE n.stage = "record"
    <3>1. Room(s, x1', x2') = 0
      BY <1>1, <1>3, <2>7 DEF Room, Occupies
    <3>2. e \in C
      BY <2>7 DEF Charged, May
    <3>3. D \subseteq C
      BY <2>2, <3>2
    <3> QED BY <1>2, <1>5, <3>1, <3>3, OwnRun
  <2>8. CASE n.stage \notin {"calling", "record"}
    <3>1. e \in D => e \in x3[s]
      BY <1>4, <2>3, <2>8 DEF Charged
    <3>2. D \subseteq C
      BY <2>2, <3>1 DEF Charged
    <3>3. CASE k.stage \in {"begun", "calling"} /\ May(k, s, x1)
      <4>1. e \in C /\ e \notin x3[s]
        BY <1>2, <3>3 DEF Charged
      <4>2. D \subseteq C \ {e}
        BY <3>1, <3>2, <4>1
      <4> QED BY <1>2, <1>5, <4>1, <4>2, OwnRun
    <3>4. CASE k.stage \in {"begun", "calling"} /\ ~ May(k, s, x1)
      <4>1. HasResult(s, x1')
        BY <1>2, <3>4 DEF May
      <4>2. Room(s, x1', x2') = 0
        BY <4>1 DEF Room
      <4> QED BY <1>2, <1>5, <3>2, <4>2, OwnRun
    <3>5. CASE k.stage = "record"
      <4>1. HasResult(s, x1') => Room(s, x1', x2') = 0
        BY DEF Room
      <4>2. Room(s, x1', x2') = 0 \/ x4'[s] = x4[s] + 1
        BY <1>5, <3>5, <4>1
      <4> QED BY <1>2, <1>5, <3>2, <4>2, OwnRun
    <3>6. CASE k.stage = "complete"
      <4>1. \A d \in Executions : Occupies(x2'[d], s) <=> Occupies(x2[d], s)
        BY <1>3, <2>4, <2>5, <2>8, <3>6, <1>1 DEF Occupies
      <4>2. Room(s, x1', x2') = 0 \/ Room(s, x1', x2') = Room(s, x1, x2)
        BY <1>2, <4>1 DEF Room
      <4> QED BY <1>2, <1>5, <3>2, <4>2, OwnRun
    <3> QED BY <1>1, <3>3, <3>4, <3>5, <3>6
  <2> QED BY <2>6, <2>7, <2>8
<1>10. ASSUME NEW r \in Runs PROVE Budget(r, x1', x2', x3', x4')
  <2>1. CASE r = s
    BY <1>9, <2>1
  <2>2. CASE r # s
    <3>1. HasResult(r, x1') <=> HasResult(r, x1)
      BY <2>2
    <3>2. \A d \in Executions \ {e} : x2'[d] = x2[d]
      BY <1>3
    <3>3. x2'[e].run = s /\ x2[e].run = s
      BY <1>1, <1>3
    <3> HIDE DEF s, k
    <3> QED BY <1>2, <1>4, <1>5, <2>2, <3>1, <3>2, <3>3, OtherRuns
  <2> QED BY <2>1, <2>2
<1> QED BY <1>6, <1>7, <1>8, <1>10

LEMMA BeginStep ==
  ASSUME ExecutorInv, NEW e \in Executions, NEW r \in Runs, NEW dedupe \in BOOLEAN,
         Executor!Begin(e, r, dedupe)
  PROVE  ExecutorInv'
<1> USE DEF ExecutorInv
<1> DEFINE k == [stage |-> "begun", run |-> r, answer |-> NoAnswer, dedupe |-> dedupe]
<1>1. /\ x2[e].stage = "new" /\ x2' = [x2 EXCEPT ![e] = k] /\ x1' = x1 /\ x3' = x3
      /\ x4' = IF Executor!Overlaps(r) \/ ~ dedupe THEN [x4 EXCEPT ![r] = @ + 1] ELSE x4
  BY DEF Executor!Begin, Executor!Lapse
<1>2. k \in AllExecs /\ k.stage = "begun" /\ k.run = r /\ k.answer = NoAnswer /\ k.dedupe = dedupe
  BY DEF AllExecs, ExecStages, AnyRun, Answers
<1> HIDE DEF k
<1>3. /\ x4' \in [Runs -> Nat] /\ x4'[r] \in {x4[r], x4[r] + 1}
      /\ \A s \in Runs : s # r => x4'[s] = x4[s]
      /\ Executor!Overlaps(r) \/ ~ dedupe => x4'[r] = x4[r] + 1
  BY <1>1 DEF ExecutorTypes
<1>4. ExecutorTypes'
  BY <1>1, <1>2, <1>3 DEF ExecutorTypes
<1>5. x2'[e] = k /\ \A d \in Executions : d # e => x2'[d] = x2[d]
  BY <1>1 DEF ExecutorTypes
<1>6. \A d \in Executions : Holds(x2'[d], x3')
  BY <1>1, <1>2, <1>5 DEF Holds
<1>7. \A s \in Runs : \A d \in x3'[s] : x2'[d].stage \notin {"new", "begun", "calling"}
  BY <1>1, <1>5 DEF ExecutorTypes
<1>8. ASSUME NEW s \in Runs PROVE Budget(s, x1', x2', x3', x4')
  <2>1. CASE s # r
    <3>1. \A d \in Executions \ {e} : x2'[d] = x2[d]
      BY <1>5
    <3>2. x2'[e].run = r
      BY <1>2, <1>5
    <3> QED BY <1>1, <1>3, <2>1, <3>1, <3>2, OtherRuns
  <2>2. CASE s = r
    <3>1. Room(r, x1', x2') = 0
      BY <1>2, <1>5 DEF Room, Occupies
    <3>2. \A d \in Executions \ {e} : May(x2'[d], r, x1') => May(x2[d], r, x1)
      BY <1>1, <1>5 DEF May
    <3>3. Charged(r, x1', x2', x3') \subseteq Charged(r, x1, x2, x3) \cup {e}
      BY <1>1, <3>2 DEF Charged
    <3>4. CASE Executor!Overlaps(r) \/ ~ dedupe
      BY <1>3, <2>2, <3>1, <3>3, <3>4, OwnRun
    <3>5. CASE ~ Executor!Overlaps(r) /\ dedupe /\ HasResult(r, x1)
      <4>1. ~ May(x2'[e], r, x1')
        BY <1>1, <1>2, <1>5, <3>5 DEF May
      <4>2. Charged(r, x1', x2', x3') \subseteq Charged(r, x1, x2, x3)
        BY <1>1, <3>2, <4>1 DEF Charged
      <4> QED BY <1>3, <2>2, <3>1, <4>2, OwnRun
    <3>6. CASE ~ Executor!Overlaps(r) /\ dedupe /\ ~ HasResult(r, x1)
      <4>1. \A d \in Executions : ~ Occupies(x2[d], r)
        BY <3>6 DEF Executor!Overlaps, Executor!Ended, Occupies
      <4>2. Room(r, x1, x2) = 1
        BY <3>6, <4>1 DEF Room
      <4> QED BY <1>3, <2>2, <3>1, <3>3, <4>2, OwnRun
    <3> QED BY <3>4, <3>5, <3>6
  <2> QED BY <2>1, <2>2
<1> QED BY <1>1, <1>4, <1>6, <1>7, <1>8

\* An event is appended after those that are there.
LEMMA EventAppended ==
  ASSUME NEW s \in Seq(AllEvents), NEW v \in AllEvents
  PROVE  /\ Append(s, v) \in Seq(AllEvents)
         /\ \A i \in DOMAIN s : i \in DOMAIN Append(s, v) /\ Append(s, v)[i] = s[i]
         /\ \A i \in DOMAIN Append(s, v) : i \in DOMAIN s \/ Append(s, v)[i] = v
         /\ \E i \in DOMAIN Append(s, v) : Append(s, v)[i] = v
<1>1. Append(s, v) \in Seq(AllEvents) /\ Len(Append(s, v)) = Len(s) + 1
  OBVIOUS
<1>2. DOMAIN s = 1..Len(s) /\ DOMAIN Append(s, v) = 1..(Len(s) + 1) /\ Len(s) \in Nat
  BY <1>1
<1>3. \A i \in 1..Len(s) : Append(s, v)[i] = s[i]
  OBVIOUS
<1>4. Append(s, v)[Len(s) + 1] = v
  OBVIOUS
<1>5. Len(s) + 1 \in DOMAIN Append(s, v)
  BY <1>2
<1>6. \A i \in DOMAIN Append(s, v) : i \in DOMAIN s \/ i = Len(s) + 1
  BY <1>2
<1>7. \A i \in DOMAIN s : i \in DOMAIN Append(s, v)
  BY <1>2
<1> QED BY <1>1, <1>2, <1>3, <1>4, <1>5, <1>6, <1>7

\* An execution takes a recorded answer.
LEMMA TakesAnswer ==
  ASSUME ExecutorInv, NEW e \in Executions, x2[e].stage = "begun",
         NEW i \in Executor!Recorded(x2[e].run),
         x2' = [x2 EXCEPT ![e].stage = "complete", ![e].answer = x1[i].answer],
         x1' = x1, x3' = x3, x4' = x4 \/ x4' = [x4 EXCEPT ![x2[e].run] = @ + 1]
  PROVE  ExecutorInv'
<1> DEFINE k == x2[e]
           a == x1[i].answer
           n == [k EXCEPT !.stage = "complete", !.answer = a]
<1>1. i \in DOMAIN x1 /\ IsResult(x1[i], k.run)
  BY DEF Executor!Recorded, IsResult
<1>2. k \in AllExecs /\ Told(x1[i], x3) /\ Holds(k, x3)
  BY <1>1 DEF ExecutorInv, ExecutorTypes
<1>3. k.run \in Runs /\ a \in x3[k.run] /\ a \in Executions /\ a # NoAnswer
  <2>1. k.run \in Runs /\ a \in x3[k.run]
    BY <1>1, <1>2 DEF Told, Holds, IsResult
  <2>2. x3[k.run] \subseteq Executions
    BY <2>1 DEF ExecutorInv, ExecutorTypes
  <2> QED BY <2>1, <2>2 DEF ServicesAssumption
<1>4. n \in AllExecs /\ n.stage = "complete" /\ n.run = k.run /\ n.answer = a
  <2>1. \A m \in AllExecs : \A b \in Answers :
          /\ [m EXCEPT !.stage = "complete", !.answer = b] \in AllExecs
          /\ [m EXCEPT !.stage = "complete", !.answer = b].stage = "complete"
          /\ [m EXCEPT !.stage = "complete", !.answer = b].run = m.run
          /\ [m EXCEPT !.stage = "complete", !.answer = b].answer = b
    BY DEF AllExecs, ExecStages
  <2>2. a \in Answers
    BY <1>3 DEF Answers
  <2> QED BY <1>2, <2>1, <2>2
<1>5. x2' = [x2 EXCEPT ![e] = n]
  BY DEF ExecutorInv, ExecutorTypes
<1>6. Moves(e, n)
  BY <1>4, <1>5 DEF Moves
<1>7. Holds(n, x3')
  BY <1>3, <1>4 DEF Holds
<1>8. x1' \in Seq(AllEvents) /\ \A j \in DOMAIN x1' : Told(x1'[j], x3')
  BY DEF ExecutorInv, ExecutorTypes
<1> HIDE DEF n
<1> QED BY <1>4, <1>6, <1>7, <1>8, MoveStep

\* An execution moves to another stage and keeps its answer.
LEMMA GoIs ==
  ASSUME ExecutorInv, NEW e \in Executions, NEW s \in ExecStages, Executor!Go(e, s)
  PROVE  \E n \in AllExecs : /\ n.stage = s /\ n.run = x2[e].run /\ n.answer = x2[e].answer
                             /\ x2' = [x2 EXCEPT ![e] = n]
<1>1. x2[e] \in AllExecs /\ x2' = [x2 EXCEPT ![e] = [x2[e] EXCEPT !.stage = s]]
  BY DEF Executor!Go, ExecutorInv, ExecutorTypes
<1>2. \A m \in AllExecs :
        /\ [m EXCEPT !.stage = s] \in AllExecs /\ [m EXCEPT !.stage = s].stage = s
        /\ [m EXCEPT !.stage = s].run = m.run /\ [m EXCEPT !.stage = s].answer = m.answer
  BY DEF AllExecs
<1> QED BY <1>1, <1>2

\* The answer is missing, or it has been recorded or dropped: the execution goes on.
LEMMA GoStep ==
  ASSUME ExecutorInv, NEW e \in Executions, NEW s \in {"calling", "complete", "done", "failed", "dead"},
         x2[e].stage \in {"begun", "calling", "record", "complete"},
         Executor!Go(e, s), x1' = x1, x3' = x3,
         x4' = x4 \/ x4' = [x4 EXCEPT ![x2[e].run] = @ + 1],
         s = "calling" => /\ x2[e].stage = "begun"
                          /\ \/ x2[e].dedupe => Executor!Recorded(x2[e].run) = {}
                             \/ x4' = [x4 EXCEPT ![x2[e].run] = @ + 1],
         s \in {"complete", "done"} => x2[e].stage \in {"record", "complete"},
         x2[e].stage = "record" => x4' = [x4 EXCEPT ![x2[e].run] = @ + 1]
  PROVE  ExecutorInv'
<1>1. PICK n \in AllExecs : /\ n.stage = s /\ n.run = x2[e].run /\ n.answer = x2[e].answer
                            /\ x2' = [x2 EXCEPT ![e] = n]
  <2>1. s \in ExecStages
    BY DEF ExecStages
  <2> QED BY <2>1, GoIs
<1>2. Holds(x2[e], x3) /\ x2[e].run \in Runs
  BY DEF Holds, ExecutorInv
<1>3. Moves(e, n)
  BY <1>1 DEF Moves
<1>4. Holds(n, x3')
  BY <1>1, <1>2 DEF Holds
<1>5. x1' \in Seq(AllEvents) /\ \A j \in DOMAIN x1' : Told(x1'[j], x3')
  BY DEF ExecutorInv, ExecutorTypes
<1>6. Executor!Recorded(x2[e].run) = {} => ~ HasResult(x2[e].run, x1)
  BY DEF Executor!Recorded, HasResult, IsResult
<1>7. n.stage = "calling" =>
        May(x2[e], x2[e].run, x1) \/ x4' = [x4 EXCEPT ![x2[e].run] = @ + 1]
  BY <1>1, <1>6 DEF May
<1>8. n.stage # "record" /\ (n.stage = "calling" => x2[e].stage = "begun")
  BY <1>1
<1> QED BY <1>3, <1>4, <1>5, <1>7, <1>8, MoveStep

\* The execution leaves an event: the result it was given, or the provider's error.
LEMMA EventStep ==
  ASSUME ExecutorInv, NEW e \in Executions, NEW s \in {"complete", "failed"},
         NEW event \in {"task.tool_result", "task.error"}, NEW answer \in Answers,
         Executor!Go(e, s), Executor!Appended(e, event, answer), x3' = x3, x4' = x4,
         \/ x2[e].stage = "record" /\ s = "complete" /\ event = "task.tool_result" /\ answer = x2[e].answer
         \/ x2[e].stage = "calling" /\ s = "failed" /\ event = "task.error"
  PROVE  ExecutorInv'
<1>1. PICK n \in AllExecs : /\ n.stage = s /\ n.run = x2[e].run /\ n.answer = x2[e].answer
                            /\ x2' = [x2 EXCEPT ![e] = n]
  <2>1. s \in ExecStages
    BY DEF ExecStages
  <2> QED BY <2>1, GoIs
<1>2. Holds(x2[e], x3) /\ x2[e].run \in Runs
  BY DEF Holds, ExecutorInv
<1>3. Moves(e, n)
  BY <1>1 DEF Moves
<1>4. Holds(n, x3')
  BY <1>1, <1>2 DEF Holds
<1>5. PICK v \in AllEvents : /\ v.event = event /\ v.run = x2[e].run /\ v.answer = answer
                             /\ x1' = Append(x1, v)
  <2> DEFINE v == [event |-> event, run |-> x2[e].run, answer |-> answer]
  <2>1. v \in AllEvents
    BY <1>2 DEF AllEvents, AnyRun
  <2>2. x1' = Append(x1, v)
    BY DEF Executor!Appended
  <2> QED BY <2>1, <2>2
<1>6. x1 \in Seq(AllEvents)
  BY DEF ExecutorInv, ExecutorTypes
<1>7. /\ x1' \in Seq(AllEvents)
      /\ \A i \in DOMAIN x1 : i \in DOMAIN x1' /\ x1'[i] = x1[i]
      /\ \A i \in DOMAIN x1' : i \in DOMAIN x1 \/ x1'[i] = v
      /\ \E i \in DOMAIN x1' : x1'[i] = v
  BY <1>5, <1>6, EventAppended
<1>8. \A i \in DOMAIN x1' : Told(x1'[i], x3')
  <2>1. Told(v, x3)
    BY <1>2, <1>5 DEF Told, Holds
  <2>2. TAKE i \in DOMAIN x1'
  <2>3. CASE i \in DOMAIN x1
    BY <1>7, <2>3 DEF ExecutorInv
  <2>4. CASE x1'[i] = v
    BY <2>1, <2>4
  <2> QED BY <1>7, <2>3, <2>4
<1>9. \A r \in Runs : HasResult(r, x1) => HasResult(r, x1')
  BY <1>7 DEF HasResult
<1>10. \A r \in Runs : r # x2[e].run /\ HasResult(r, x1') => HasResult(r, x1)
  <2>1. \A r \in Runs : r # x2[e].run => ~ IsResult(v, r)
    BY <1>5 DEF IsResult
  <2> QED BY <1>7, <2>1 DEF HasResult
<1>11. x2[e].stage = "record" => HasResult(x2[e].run, x1')
  BY <1>5, <1>7 DEF HasResult, IsResult
<1>12. n.stage # "record" /\ n.stage # "calling"
  BY <1>1
<1>13. x1' \in Seq(AllEvents)
  BY <1>7
<1> QED BY <1>3, <1>4, <1>8, <1>9, <1>10, <1>11, <1>12, <1>13, MoveStep

LEMMA AnswerStep ==
  ASSUME ExecutorInv, NEW e \in Executions, Executor!Answer(e)
  PROVE  ExecutorInv'
<1> DEFINE k == x2[e]
           n == [k EXCEPT !.stage = "record", !.answer = e]
<1>1. /\ k.stage = "calling" /\ x1' = x1 /\ x4' = x4
      /\ x2' = [x2 EXCEPT ![e].stage = "record", ![e].answer = e]
      /\ x3' = [x3 EXCEPT ![k.run] = @ \cup {e}]
  BY DEF Executor!Answer
<1>2. k \in AllExecs /\ k.run \in Runs
  BY <1>1 DEF ExecutorInv, ExecutorTypes, Holds
<1>3. n \in AllExecs /\ n.stage = "record" /\ n.run = k.run /\ n.answer = e
  <2>1. \A m \in AllExecs : \A b \in Answers :
          /\ [m EXCEPT !.stage = "record", !.answer = b] \in AllExecs
          /\ [m EXCEPT !.stage = "record", !.answer = b].stage = "record"
          /\ [m EXCEPT !.stage = "record", !.answer = b].run = m.run
          /\ [m EXCEPT !.stage = "record", !.answer = b].answer = b
    BY DEF AllExecs, ExecStages
  <2>2. e \in Answers
    BY DEF Answers
  <2> QED BY <1>2, <2>1, <2>2
<1>4. x2' = [x2 EXCEPT ![e] = n]
  BY <1>1 DEF ExecutorInv, ExecutorTypes
<1> HIDE DEF n
<1>5. x3'[k.run] = x3[k.run] \cup {e} /\ \A r \in Runs : x3[r] \subseteq x3'[r]
  BY <1>1, <1>2 DEF ExecutorInv, ExecutorTypes
<1>6. Moves(e, n)
  BY <1>1, <1>3, <1>4 DEF Moves
<1>7. Holds(n, x3')
  BY <1>2, <1>3, <1>5 DEF Holds, ServicesAssumption
<1>8. \A i \in DOMAIN x1' : Told(x1'[i], x3')
  BY <1>1, <1>5 DEF Told, ExecutorInv
<1>9. x3' # x3
  BY <1>1, <1>2, <1>5 DEF ExecutorInv
<1>10. x1' \in Seq(AllEvents)
  BY <1>1 DEF ExecutorInv, ExecutorTypes
<1> QED BY <1>1, <1>3, <1>6, <1>7, <1>8, <1>9, <1>10, MoveStep

LEMMA ExecutorStep ==
  ASSUME ExecutorInv, Executor!Next \/ UNCHANGED <<x1, x2, x3, x4>>
  PROVE  ExecutorInv'
<1>1. CASE UNCHANGED <<x1, x2, x3, x4>>
  BY <1>1 DEF ExecutorInv, ExecutorTypes
<1>2. ASSUME NEW e \in Executions,
             (\E r \in Runs, dedupe \in BOOLEAN : Executor!Begin(e, r, dedupe)) \/ Executor!Answer(e)
      PROVE  ExecutorInv'
  BY <1>2, BeginStep, AnswerStep
<1>3. ASSUME NEW e \in Executions, Executor!Reuse(e) PROVE ExecutorInv'
  BY <1>3, TakesAnswer DEF Executor!Reuse, Executor!Newest
<1>4. ASSUME NEW e \in Executions, Executor!SearchFails(e) PROVE ExecutorInv'
  <2>1. /\ x2[e].stage = "begun" /\ x1' = x1 /\ x3' = x3
        /\ x4' = [x4 EXCEPT ![x2[e].run] = @ + 1]
    BY <1>4 DEF Executor!SearchFails, Executor!Lapse
  <2>2. CASE Executor!Go(e, "calling")
    BY <2>1, <2>2, GoStep
  <2>3. CASE \E i \in Executor!Recorded(x2[e].run) \ Executor!Newest(x2[e].run) :
               x2' = [x2 EXCEPT ![e].stage = "complete", ![e].answer = x1[i].answer]
    BY <2>1, <2>3, TakesAnswer
  <2> QED BY <1>4, <2>2, <2>3 DEF Executor!SearchFails
<1>5. ASSUME NEW e \in Executions, Executor!Generate(e) PROVE ExecutorInv'
  BY <1>5, GoStep DEF Executor!Generate
<1>6. ASSUME NEW e \in Executions, Executor!RecordFails(e) PROVE ExecutorInv'
  BY <1>6, GoStep DEF Executor!RecordFails, Executor!Lapse
<1>7. ASSUME NEW e \in Executions, Executor!Complete(e) PROVE ExecutorInv'
  BY <1>7, GoStep DEF Executor!Complete
<1>8. ASSUME NEW e \in Executions, Executor!Kill(e) PROVE ExecutorInv'
  <2>1. /\ x2[e].stage \in {"begun", "calling", "record", "complete"}
        /\ Executor!Go(e, "dead") /\ x1' = x1 /\ x3' = x3
    BY <1>8 DEF Executor!Kill, Executor!Ended, ExecutorInv, ExecutorTypes, AllExecs, ExecStages
  <2>2. x4' = IF x2[e].stage = "record" THEN [x4 EXCEPT ![x2[e].run] = @ + 1] ELSE x4
    BY <1>8 DEF Executor!Kill, Executor!Lapse
  <2> QED BY <2>1, <2>2, GoStep
<1>9. ASSUME NEW e \in Executions, Executor!Record(e) PROVE ExecutorInv'
  <2>1. x2[e].answer \in Answers
    BY DEF ExecutorInv, ExecutorTypes, AllExecs
  <2> QED BY <1>9, <2>1, EventStep DEF Executor!Record
<1>10. ASSUME NEW e \in Executions, Executor!Fail(e) PROVE ExecutorInv'
  <2>1. NoAnswer \in Answers
    BY DEF Answers
  <2> QED BY <1>10, <2>1, EventStep DEF Executor!Fail
<1> QED BY <1>1, <1>2, <1>3, <1>4, <1>5, <1>6, <1>7, <1>8, <1>9, <1>10 DEF Executor!Next

\* However often a run is replayed and however many executions there are, the provider
\* answers it once, and once more at most for each overlap, search that missed the result and
\* answer that was not recorded; no replay returns an answer of another run.
THEOREM ReplaysHold == Spec => []ReplaysAreExact
<1> DEFINE Inv == part = "executor" => ExecutorInv
<1>1. Init => Inv
  BY InitOfPart, ExecutorStarts
<1>2. Inv /\ [Next]_vars => Inv'
  BY StepOfPart, ExecutorStep
<1>3. Inv => ReplaysAreExact
  <2>1. SUFFICES ASSUME ExecutorInv
        PROVE Executor!OneAnswerPerRun /\ Executor!AnswersBelongToTheirRun
    BY DEF ReplaysAreExact
  <2>2. ASSUME NEW r \in Runs PROVE Executor!Cardinality(x3[r]) <= 1 + x4[r]
    <3> DEFINE C == Charged(r, x1, x2, x3)
    <3>1. IsFiniteSet(C) /\ Cardinality(C) \in Nat
      BY <2>1, ChargedIsFinite DEF ExecutorInv
    <3>2. x3[r] \in SUBSET C
      BY DEF Charged
    <3>3. Cardinality(C) + Room(r, x1, x2) <= 1 + x4[r] /\ Room(r, x1, x2) \in {0, 1}
      BY <2>1 DEF ExecutorInv, Budget, Room
    <3>4. x4[r] \in Nat
      BY <2>1 DEF ExecutorInv, ExecutorTypes
    <3> HIDE DEF C
    <3>5. Cardinality(x3[r]) <= Cardinality(C) /\ Cardinality(x3[r]) \in Nat
      BY <3>1, <3>2, FS_Subset, FS_CardinalityType
    <3>6. Cardinality(x3[r]) <= 1 + x4[r]
      BY <3>1, <3>3, <3>4, <3>5
    <3>7. Executor!Cardinality(x3[r]) = Cardinality(x3[r])
      BY DEF Executor!Cardinality, Cardinality
    <3> QED BY <3>6, <3>7
  <2>3. Executor!OneAnswerPerRun
    BY <2>2 DEF Executor!OneAnswerPerRun
  <2>4. Executor!AnswersBelongToTheirRun
    BY <2>1 DEF Executor!AnswersBelongToTheirRun, ExecutorInv, Holds
  <2> QED BY <2>3, <2>4
<1> HIDE DEF Inv
<1> QED BY <1>1, <1>2, <1>3, PTL DEF Spec

-----------------------------------------------------------------------------
(* Decisions.                                                              *)

\* Only a process between its look and its write, the sweep of what is pending and the
\* creation of a request change a row. Of one that is denied, used or expired only the
\* first does, which saw it pending or approved.
LEMMA FinalStep ==
  ASSUME ToolingInv, Tooling!Next
  PROVE  Tooling!FinalStatesStand
<1> USE DEF ToolingInv
<1>1. SUFFICES ASSUME NEW r \in Requests, x1[r].state \in {"denied", "used", "expired"}
      PROVE (x1'[r] = x1[r] /\ x8'[r] = x8[r]) \/ x9'[r] > x9[r]
  BY DEF Tooling!FinalStatesStand
<1>2. x9[r] \in Nat
  BY DEF ToolingTypes
<1>3. ASSUME NEW o \in Operators, Tooling!Decide(o)
      PROVE (x1'[r] = x1[r] /\ x8'[r] = x8[r]) \/ x9'[r] > x9[r]
  <2>1. PICK s \in x5[o].on : Tooling!Transition(s, x5[o].writes, x5[o].saw)
    BY <1>3 DEF Tooling!Decide
  <2>2. s \in Requests /\ x5[o].saw = "pending" /\ x5[o].writes \in Tooling!States
    BY <2>1, OnRequests DEF Tooling!States
  <2>3. /\ x9'[s] = IF x1[s].state = "pending" THEN x9[s] ELSE x9[s] + 1
        /\ \A q \in Requests : q # s => x1'[q] = x1[q] /\ x9'[q] = x9[q]
    BY <2>1, <2>2, TransitionIs
  <2>4. x8' = x8
    BY <1>3 DEF Tooling!Decide
  <2> QED BY <1>1, <1>2, <2>3, <2>4
<1>4. ASSUME Tooling!ExpirePending PROVE x1'[r] = x1[r] /\ x8' = x8
  BY <1>1, <1>4 DEF Tooling!ExpirePending, Tooling!Overdue
<1>5. ASSUME NEW g \in Gates, Tooling!MarkUsed(g)
      PROVE (x1'[r] = x1[r] /\ x8'[r] = x8[r]) \/ x9'[r] > x9[r]
  <2>1. PICK s \in x4[g].found :
          Tooling!Transition(s, "used", x4[g].saw) /\ x8' = [x8 EXCEPT ![s] = @ + 1]
    BY <1>5 DEF Tooling!MarkUsed
  <2>2. s \in Requests /\ x4[g].saw = "approved" /\ "used" \in Tooling!States
    BY <2>1, OnRequests DEF Tooling!States
  <2>3. /\ x9'[s] = IF x1[s].state = "approved" THEN x9[s] ELSE x9[s] + 1
        /\ \A q \in Requests : q # s => x1'[q] = x1[q] /\ x9'[q] = x9[q]
    BY <2>1, <2>2, TransitionIs
  <2>4. \A q \in Requests : q # s => x8'[q] = x8[q]
    BY <2>1, <2>2 DEF ToolingTypes
  <2> QED BY <1>1, <1>2, <2>3, <2>4
<1>6. ASSUME NEW g \in Gates, NEW t \in Tools, NEW s \in Requests, Tooling!CreateRequest(g, t, s)
      PROVE  x1'[r] = x1[r] /\ x8' = x8
  <2>1. s # r
    BY <1>1, <1>6 DEF Tooling!CreateRequest, Tooling!Absent
  <2> QED BY <1>6, <2>1 DEF Tooling!CreateRequest, ToolingTypes
<1>7. CASE UNCHANGED <<x1, x8>>
  BY <1>7
<1>8. \/ \E o \in Operators : Tooling!Decide(o)
      \/ Tooling!ExpirePending
      \/ \E g \in Gates : Tooling!MarkUsed(g)
      \/ \E g \in Gates, t \in Tools, s \in Requests : Tooling!CreateRequest(g, t, s)
      \/ UNCHANGED <<x1, x8>>
  BY DEF Tooling!Next, Tooling!Look, Tooling!SetPolicy, Tooling!ResetPolicies,
         Tooling!ChangePolicies, Tooling!StartGate, Tooling!CallAllowed, Tooling!FindApproved,
         Tooling!Tick
<1> QED BY <1>3, <1>4, <1>5, <1>6, <1>7, <1>8

\* A vote that is decided was counted as it stands; it is executed only when it was
\* approved, and again only after closeVoting was called on it.
Settled(s, cast, r) ==
  /\ s \in {"approved", "rejected", "executed"} =>
       r.counted = cast /\ r.approved = Voting!Outcome(cast) /\ DOMAIN r = {"approved", "counted", "executedBy"}
  /\ s \in {"approved", "executed"} => Voting!Outcome(cast)
ExecutedFor(s, n, m) == n \in Nat /\ m \in Nat /\ n <= m + (IF s = "executed" THEN 1 ELSE 0)
VotingInv == Settled(x1, x2, x3) /\ ExecutedFor(x1, x7, x9)

LEMMA VotingStarts ==
  ASSUME Voting!Init PROVE VotingInv
BY DEF Voting!Init, VotingInv, Settled, ExecutedFor

LEMMA ClosedIsSettled ==
  ASSUME NEW cast, Voting!Close(cast)
  PROVE  /\ Settled(x1', cast, x3') /\ x1' \in {"approved", "rejected"}
         /\ x3'.counted = cast /\ x3'.approved = Voting!Outcome(cast)
<1>1. /\ x3' = [approved |-> Voting!Outcome(cast), counted |-> cast, executedBy |-> "none"]
      /\ x1' = IF Voting!Outcome(cast) THEN "approved" ELSE "rejected"
  BY DEF Voting!Close
<1>2. x1' \in {"approved", "rejected"} /\ (x1' = "approved" => Voting!Outcome(cast))
  BY <1>1
<1>3. x3'.counted = cast /\ x3'.approved = Voting!Outcome(cast)
      /\ DOMAIN x3' = {"approved", "counted", "executedBy"}
  BY <1>1
<1> QED BY <1>2, <1>3 DEF Settled

\* A vote is cast only while the proposal is open.
LEMMA CastStep ==
  ASSUME VotingInv, NEW a, NEW choice, Voting!Accepted(a), Voting!Cast(a, choice)
  PROVE  VotingInv' /\ Voting!OutcomeStands
<1>1. x1 = "voting" /\ UNCHANGED <<x7, x9>>
  BY DEF Voting!Accepted, Voting!Cast
<1>2. Voting!OutcomeStands
  BY <1>1 DEF Voting!OutcomeStands, Voting!Decided
<1>3. Voting!Close(x2') \/ UNCHANGED <<x1, x3>>
  BY DEF Voting!Cast
<1>4. CASE UNCHANGED <<x1, x3>>
  <2>1. Settled(x1', x2', x3') /\ ExecutedFor(x1', x7', x9')
    BY <1>1, <1>4 DEF VotingInv, Settled, ExecutedFor
  <2> QED BY <1>2, <2>1 DEF VotingInv
<1>5. CASE Voting!Close(x2')
  <2>1. Settled(x1', x2', x3') /\ x1' \in {"approved", "rejected"}
    BY <1>5, ClosedIsSettled
  <2>2. ExecutedFor(x1', x7', x9')
    BY <1>1, <2>1 DEF VotingInv, ExecutedFor
  <2> QED BY <1>2, <2>1, <2>2 DEF VotingInv
<1> QED BY <1>3, <1>4, <1>5

LEMMA VotingStep ==
  ASSUME VotingInv, Voting!Next \/ UNCHANGED <<x1, x2, x3, x4, x5, x6, x7, x8, x9>>
  PROVE  VotingInv' /\ Voting!OutcomeStands
<1>1. CASE UNCHANGED <<x1, x2, x3, x7, x9>>
  BY <1>1 DEF VotingInv, Voting!OutcomeStands
<1>2. CASE Voting!Propose
  BY <1>2 DEF Voting!Propose, VotingInv, Settled, ExecutedFor, Voting!OutcomeStands, Voting!Decided
<1>3. CASE \E a : Voting!Answer(a)
  <2>1. UNCHANGED <<x1, x2, x3, x7, x9>>
    BY <1>3 DEF Voting!Answer
  <2> QED BY <1>1, <2>1
<1>4. CASE \E choice \in Voting!Ballots : Voting!LocalVote(choice)
  BY <1>4, CastStep DEF Voting!LocalVote
<1>5. CASE Voting!Record
  BY <1>1, <1>5, CastStep DEF Voting!Record
<1>6. CASE Voting!CloseVoting
  <2>1. Voting!Close(x2) /\ x2' = x2 /\ x7' = x7 /\ x9' = IF x1 = "executed" THEN x9 + 1 ELSE x9
    BY <1>6 DEF Voting!CloseVoting
  <2>2. Settled(x1', x2, x3') /\ x1' \in {"approved", "rejected"} /\ x3'.counted = x2
        /\ x3'.approved = Voting!Outcome(x2)
    BY <2>1, ClosedIsSettled
  <2>3. Voting!OutcomeStands
    BY <2>2 DEF VotingInv, Settled, Voting!OutcomeStands, Voting!Decided
  <2>4. ExecutedFor(x1', x7', x9')
    BY <2>1, <2>2 DEF VotingInv, ExecutedFor
  <2>5. Settled(x1', x2', x3')
    BY <2>1, <2>2
  <2> QED BY <2>3, <2>4, <2>5 DEF VotingInv
<1>7. CASE \E a \in Voting!Agents : Voting!Execute(a)
  <2>1. PICK a : /\ x1 = "approved" /\ x1' = "executed" /\ x3' = [x3 EXCEPT !.executedBy = a]
                 /\ x7' = x7 + 1 /\ UNCHANGED <<x2, x9>>
    BY <1>7 DEF Voting!Execute
  <2>2. x3.counted = x2 /\ x3.approved = Voting!Outcome(x2) /\ Voting!Outcome(x2)
        /\ DOMAIN x3 = {"approved", "counted", "executedBy"}
    BY <2>1 DEF VotingInv, Settled
  <2>3. x3'.counted = x3.counted /\ x3'.approved = x3.approved /\ DOMAIN x3' = DOMAIN x3
    BY <2>1, <2>2
  <2>4. Settled(x1', x2, x3')
    BY <2>2, <2>3 DEF Settled
  <2>5. Settled(x1', x2', x3')
    BY <2>1, <2>4
  <2>6. ExecutedFor(x1', x7', x9')
    BY <2>1 DEF VotingInv, ExecutedFor
  <2>7. Voting!OutcomeStands
    BY <2>3 DEF Voting!OutcomeStands
  <2> QED BY <2>5, <2>6, <2>7 DEF VotingInv
<1>8. CASE Voting!Tick
  <2>1. UNCHANGED <<x1, x2, x3, x7, x9>>
    BY <1>8 DEF Voting!Tick
  <2> QED BY <1>1, <2>1
<1> QED BY <1>1, <1>2, <1>3, <1>4, <1>5, <1>6, <1>7, <1>8 DEF Voting!Next

\* What was decided stays decided: a request that was denied, used or has expired, unless a
\* process writes that saw it pending or approved; the outcome and the count of a vote, also
\* when it is closed again; a loop that has halted.
THEOREM DecisionsHold == Spec => DecisionsStand
<1> DEFINE Inv == /\ part = "tooling" => ToolingInv
                  /\ part = "voting" => VotingInv
                  /\ part = "loop" => LoopInv
           Stand == /\ part = "tooling" => Tooling!FinalStatesStand
                    /\ part = "voting" => Voting!OutcomeStands
                    /\ part = "loop" => Loop!HaltIsFinal
<1>1. Init => Inv
  BY InitOfPart, ToolingStarts, VotingStarts, LoopStarts
<1>2. Inv /\ [Next]_vars => Inv'
  BY StepOfPart, ToolingStep, VotingStep, LoopStep
<1>3. Inv /\ [Next]_vars => [Stand]_vars
  <2>1. SUFFICES ASSUME Inv, Next PROVE Stand
    OBVIOUS
  <2>2. ASSUME part = "loop" PROVE Loop!HaltIsFinal
    <3>1. Loop!Next
      BY <2>1, <2>2 DEF Next
    <3> QED BY <2>1, <2>2, <3>1, ApplyStep DEF Loop!Next
  <2>3. ASSUME part = "tooling" PROVE Tooling!FinalStatesStand
    <3>1. Tooling!Next
      BY <2>1, <2>3 DEF Next
    <3> QED BY <2>1, <2>3, <3>1, FinalStep
  <2>4. ASSUME part = "voting" PROVE Voting!OutcomeStands
    <3>1. Voting!Next
      BY <2>1, <2>4 DEF Next
    <3> QED BY <2>1, <2>4, <3>1, VotingStep
  <2> QED BY <2>2, <2>3, <2>4
<1> HIDE DEF Inv
<1>4. [][Next]_vars /\ []Inv => [][Stand]_vars
  BY <1>3, PTL
<1>5. [][Stand]_vars => DecisionsStand
  BY DEF DecisionsStand
<1> HIDE DEF Stand
<1> QED BY <1>1, <1>2, <1>4, <1>5, PTL DEF Spec

-----------------------------------------------------------------------------
(* Alerts.                                                                 *)

HIDE ServicesAssumption

AlertIds == Alerts!AlertIds

\* The alerts of an event that the sends of S stand for.
Sends(S, e) == UNION {Alerts!Covered(s) : s \in {s \in S : s.id[2] = e}}

\* What the emitter knows of an id, what is under way, and the flushes.
AlertTypes ==
  /\ x1 \in [AlertIds -> [known : BOOLEAN, sentAt : Int, suppressed : Nat]]
  /\ x2 \subseteq [id : AlertIds, covers : Nat,
                   by : {<<f>> : f \in Flushes} \cup (Events \X Nat)]
  /\ x3 \in [Flushes -> [todo : SUBSET AlertIds, now : Nat, waits : BOOLEAN]]
  /\ x4 \in Nat
  /\ x5 \in [Events -> Nat] /\ x6 \in [Events -> Nat] /\ x9 \in [Events -> Nat]
  /\ x7 \in [AlertIds -> Int]

\* Who begins a send has none under way: sends stay apart.
SendsAreApart ==
  /\ \A s \in x2 : \A e \in Events, n \in Nat : s.by = <<e, n>> => n < x5[e]
  /\ \A s \in x2 : \A f \in Flushes : s.by = <<f>> => x3[f].waits
  /\ \A s, t \in x2 : s.by = t.by => s = t

\* A send never begins after the time the emitter remembers for its id, an unknown id was
\* never sent nor counted, and no summary is ever suppressed: the alert it sums up was
\* sent or counted last when the summary was, or later.
TimesAgree ==
  /\ \A i \in AlertIds :
       /\ x7[i] <= x1[i].sentAt
       /\ ~ x1[i].known => x1[i].sentAt = -2 /\ x7[i] = -2 /\ x1[i].suppressed = 0
  /\ \A e \in Events :
       /\ x1[Alerts!Summary(Alerts!Id(e))].suppressed = 0
       /\ x1[Alerts!Summary(Alerts!Id(e))].known =>
            x1[Alerts!Summary(Alerts!Id(e))].sentAt <= x1[Alerts!Id(e)].sentAt

Accounted ==
  \A e \in Events :
    /\ IsFiniteSet(Sends(x2, e))
    /\ x5[e] = x6[e] + x9[e] + Cardinality(Sends(x2, e)) + x1[Alerts!Id(e)].suppressed

AlertInv == AlertTypes /\ SendsAreApart /\ TimesAgree /\ Accounted /\ ~ x8

\* The two ids of an event, and what they say of each other.
LEMMA IdsOfEvents ==
  /\ \A e \in Events : Alerts!Id(e) \in AlertIds /\ Alerts!Id(e)[2] = e
                       /\ Alerts!Summary(Alerts!Id(e)) \in AlertIds
                       /\ Alerts!Summary(Alerts!Id(e))[2] = e
                       /\ Alerts!Summary(Alerts!Id(e)) = <<"AlertSuppressed", e>>
                       /\ Alerts!Id(e) = <<"alert", e>>
                       /\ Alerts!Summary(Alerts!Id(e)) # Alerts!Id(e)
  /\ \A i \in AlertIds : \E e \in Events :
       i[2] = e /\ (i = Alerts!Id(e) \/ i = Alerts!Summary(Alerts!Id(e)))
BY DEF AlertIds, Alerts!AlertIds, Alerts!Id, Alerts!Summary, Alerts!Summaries

\* The alerts that one send stands for.
LEMMA CoveredSize ==
  ASSUME NEW s, s.covers \in Nat
  PROVE  IsFiniteSet(Alerts!Covered(s)) /\ Cardinality(Alerts!Covered(s)) = s.covers
<1>1. IsFiniteSet({s}) /\ Cardinality({s}) = 1
  BY FS_Singleton
<1>2. IsFiniteSet(1..s.covers) /\ Cardinality(1..s.covers) = s.covers
  BY FS_Interval
<1>3. Cardinality({s} \X (1..s.covers)) = 1 * s.covers /\ IsFiniteSet({s} \X (1..s.covers))
  BY <1>1, <1>2, FS_Product
<1> QED BY <1>3 DEF Alerts!Covered


\* A further send adds what it covers.
LEMMA OneMoreSend ==
  ASSUME NEW S, NEW e, IsFiniteSet(Sends(S, e)), NEW t, t \notin S, t.covers \in Nat
  PROVE  /\ IsFiniteSet(Sends(S \cup {t}, e))
         /\ Cardinality(Sends(S \cup {t}, e))
              = Cardinality(Sends(S, e)) + (IF t.id[2] = e THEN t.covers ELSE 0)
<1>0. Cardinality(Sends(S, e)) \in Nat
  BY FS_CardinalityType
<1>1. CASE t.id[2] # e
  <2>1. {s \in S \cup {t} : s.id[2] = e} = {s \in S : s.id[2] = e}
    BY <1>1
  <2>2. Sends(S \cup {t}, e) = Sends(S, e)
    BY <2>1 DEF Sends
  <2> QED BY <1>0, <1>1, <2>2
<1>2. CASE t.id[2] = e
  <2>1. {s \in S \cup {t} : s.id[2] = e} = {s \in S : s.id[2] = e} \cup {t}
    BY <1>2
  <2>2. Sends(S \cup {t}, e) = Sends(S, e) \cup Alerts!Covered(t)
    BY <2>1 DEF Sends
  <2>3. Sends(S, e) \cap Alerts!Covered(t) = {}
    BY DEF Sends, Alerts!Covered
  <2>4. IsFiniteSet(Alerts!Covered(t)) /\ Cardinality(Alerts!Covered(t)) = t.covers
    BY CoveredSize
  <2>5. /\ IsFiniteSet(Sends(S, e) \cup Alerts!Covered(t))
        /\ Cardinality(Sends(S, e) \cup Alerts!Covered(t))
             = Cardinality(Sends(S, e)) + Cardinality(Alerts!Covered(t)) - Cardinality({})
    BY <2>3, <2>4, FS_Union
  <2>6. Cardinality({}) = 0
    BY FS_EmptySet
  <2>7. /\ IsFiniteSet(Sends(S \cup {t}, e))
        /\ Cardinality(Sends(S \cup {t}, e)) = Cardinality(Sends(S, e)) + t.covers
    <3>1. \A a, b \in Nat, z \in Int : z = 0 => a + b - z = a + b
      OBVIOUS
    <3>2. Cardinality(Sends(S, e) \cup Alerts!Covered(t)) = Cardinality(Sends(S, e)) + t.covers
      BY <1>0, <2>4, <2>5, <2>6, <3>1
    <3> QED BY <2>2, <2>5, <3>2, Zenon
  <2> QED BY <1>2, <2>7
<1> QED BY <1>1, <1>2

\* And one that ends takes it away.
LEMMA OneSendLess ==
  ASSUME NEW S, NEW e, IsFiniteSet(Sends(S, e)), NEW t \in S, t.covers \in Nat
  PROVE  /\ IsFiniteSet(Sends(S \ {t}, e))
         /\ Cardinality(Sends(S, e))
              = Cardinality(Sends(S \ {t}, e)) + (IF t.id[2] = e THEN t.covers ELSE 0)
<1>1. Sends(S \ {t}, e) \in SUBSET Sends(S, e)
  BY DEF Sends
<1>2. IsFiniteSet(Sends(S \ {t}, e))
  BY <1>1, FS_Subset
<1>3. (S \ {t}) \cup {t} = S
  OBVIOUS
<1>4. t \notin S \ {t}
  OBVIOUS
<1>5. Cardinality(Sends((S \ {t}) \cup {t}, e))
              = Cardinality(Sends(S \ {t}, e)) + (IF t.id[2] = e THEN t.covers ELSE 0)
  BY <1>2, <1>4, OneMoreSend
<1> QED BY <1>2, <1>3, <1>5

LEMMA AlertsStart ==
  ASSUME Alerts!Init PROVE AlertInv
<1>1. AlertTypes
  BY DEF Alerts!Init, AlertTypes, AlertIds, Alerts!Unknown, Alerts!NotRunning, Alerts!Never
<1>2. SendsAreApart
  BY DEF Alerts!Init, SendsAreApart
<1>3. TimesAgree
  BY IdsOfEvents DEF Alerts!Init, TimesAgree, AlertIds, Alerts!Unknown, Alerts!Never
<1>4. Accounted
  <2>1. \A e : Sends({}, e) = {}
    BY DEF Sends
  <2>2. IsFiniteSet({}) /\ Cardinality({}) = 0
    BY FS_EmptySet
  <2>3. /\ x2 = {} /\ x5 = [e \in Events |-> 0] /\ x6 = [e \in Events |-> 0]
        /\ x9 = [e \in Events |-> 0]
        /\ \A i \in AlertIds : x1[i].suppressed = 0
    BY DEF Alerts!Init, AlertIds, Alerts!Unknown
  <2>4. SUFFICES ASSUME NEW e \in Events
        PROVE  /\ IsFiniteSet(Sends(x2, e))
               /\ x5[e] = x6[e] + x9[e] + Cardinality(Sends(x2, e)) + x1[Alerts!Id(e)].suppressed
    BY DEF Accounted
  <2>5. Sends(x2, e) = {} /\ x1[Alerts!Id(e)].suppressed = 0 /\ x5[e] = 0 /\ x6[e] = 0 /\ x9[e] = 0
    BY <2>1, <2>3, IdsOfEvents
  <2> QED BY <2>2, <2>5
<1> QED BY <1>1, <1>2, <1>3, <1>4 DEF AlertInv, Alerts!Init

\* MarkSent, as a record.
Known(d, i, now) == [known |-> TRUE, sentAt |-> now, suppressed |-> d[i].suppressed]
LEMMA MarkedIs ==
  ASSUME NEW d \in [AlertIds -> [known : BOOLEAN, sentAt : Int, suppressed : Nat]],
         NEW id \in AlertIds, NEW now \in Int
  PROVE  /\ Alerts!MarkSent(d, id, now) \in [AlertIds -> [known : BOOLEAN, sentAt : Int, suppressed : Nat]]
         /\ \A i \in AlertIds :
              Alerts!MarkSent(d, id, now)[i] = IF i = id THEN Known(d, i, now) ELSE d[i]
<1>1. Known(d, id, now) \in [known : BOOLEAN, sentAt : Int, suppressed : Nat]
  BY DEF Known
<1>2. Alerts!MarkSent(d, id, now) = [d EXCEPT ![id] = Known(d, id, now)]
  BY DEF Alerts!MarkSent, Known
<1> QED BY <1>1, <1>2

\* An alert is raised.
LEMMA WriteEventStep ==
  ASSUME AlertInv, NEW e \in Events, Alerts!WriteEvent(e)
  PROVE  AlertInv'
<1> DEFINE id == Alerts!Id(e)
           t == [id |-> id, covers |-> 1, by |-> <<e, x5[e]>>]
<1>0. id \in AlertIds /\ id[2] = e /\ \A i \in Events : Alerts!Id(i) = id => i = e
  BY IdsOfEvents
<1>1. /\ x5' = [x5 EXCEPT ![e] = @ + 1] /\ UNCHANGED <<x3, x4, x6, x9>>
      /\ x5 \in [Events -> Nat] /\ x4 \in Nat /\ x3' = x3 /\ x6' = x6 /\ x4' = x4 /\ x9' = x9
  BY DEF Alerts!WriteEvent, AlertInv, AlertTypes
<1>2. CASE Alerts!Within(x1, id, x4)
  <2>1. /\ x1' = [x1 EXCEPT ![id].suppressed = @ + 1] /\ UNCHANGED <<x2, x7, x8>>
        /\ x1[id].known
    BY <1>2 DEF Alerts!WriteEvent, Alerts!Suppress, Alerts!Within
  <2>2. AlertTypes'
    BY <1>0, <1>1, <2>1 DEF AlertInv, AlertTypes
  <2>3. SendsAreApart'
    BY <1>1, <2>1 DEF AlertInv, SendsAreApart
  <2>4. TimesAgree'
    BY <1>0, <2>1, IdsOfEvents DEF AlertInv, AlertTypes, TimesAgree
  <2>5. Accounted'
    <3>1. SUFFICES ASSUME NEW d \in Events
                   PROVE  /\ IsFiniteSet(Sends(x2', d))
                          /\ x5'[d] = x6'[d] + x9'[d] + Cardinality(Sends(x2', d)) + x1'[Alerts!Id(d)].suppressed
      BY DEF Accounted
    <3>2. /\ IsFiniteSet(Sends(x2, d))
          /\ x5[d] = x6[d] + x9[d] + Cardinality(Sends(x2, d)) + x1[Alerts!Id(d)].suppressed
      BY DEF AlertInv, Accounted
    <3>3. x5'[d] = x5[d] + (IF e = d THEN 1 ELSE 0) /\ x6'[d] = x6[d] /\ x9'[d] = x9[d]
          /\ x6[d] \in Nat /\ x9[d] \in Nat /\ x5[d] \in Nat
      BY <1>1 DEF AlertInv, AlertTypes
    <3>4. /\ x1'[Alerts!Id(d)].suppressed = x1[Alerts!Id(d)].suppressed + (IF e = d THEN 1 ELSE 0)
          /\ x1[Alerts!Id(d)].suppressed \in Nat
      BY <1>0, <2>1, IdsOfEvents DEF AlertInv, AlertTypes
    <3>5. Cardinality(Sends(x2, d)) \in Nat /\ x2' = x2
      BY <2>1, <3>2, FS_CardinalityType
    <3>6. CASE e = d
      BY <3>2, <3>3, <3>4, <3>5, <3>6
    <3>7. CASE e # d
      BY <3>2, <3>3, <3>4, <3>5, <3>7
    <3> QED BY <3>6, <3>7
  <2> QED BY <2>1, <2>2, <2>3, <2>4, <2>5 DEF AlertInv
<1>3. CASE ~ Alerts!Within(x1, id, x4)
  <2>1. /\ x1' = Alerts!MarkSent(x1, id, x4)
        /\ x2' = x2 \cup {t} /\ x7' = [x7 EXCEPT ![id] = x4]
        /\ x8' = (x8 \/ x4 - x7[id] < 2)
    BY <1>3 DEF Alerts!WriteEvent, Alerts!BeginSend, Alerts!NthOf
  <2>10. /\ x1' \in [AlertIds -> [known : BOOLEAN, sentAt : Int, suppressed : Nat]]
         /\ \A i \in AlertIds : x1'[i] = IF i = id THEN Known(x1, i, x4) ELSE x1[i]
    <3>1. x1 \in [AlertIds -> [known : BOOLEAN, sentAt : Int, suppressed : Nat]]
      BY DEF AlertInv, AlertTypes
    <3>2. id \in AlertIds /\ x4 \in Int
      BY <1>0, <1>1
    <3> HIDE DEF id
    <3>3. /\ Alerts!MarkSent(x1, id, x4) \in [AlertIds -> [known : BOOLEAN, sentAt : Int, suppressed : Nat]]
          /\ \A i \in AlertIds :
               Alerts!MarkSent(x1, id, x4)[i] = IF i = id THEN Known(x1, i, x4) ELSE x1[i]
      BY <3>1, <3>2, MarkedIs
    <3> QED BY <2>1, <3>3
  <2>2. x1[id].known => x4 - x1[id].sentAt >= 2
    BY <1>0, <1>1, <1>3 DEF Alerts!Within, AlertInv, AlertTypes
  <2>3. x4 - x7[id] >= 2 /\ x4 >= x1[id].sentAt /\ x1[id].sentAt \in Int /\ x7[id] \in Int
    BY <1>0, <1>1, <2>2 DEF AlertInv, AlertTypes, TimesAgree
  <2>4. ~ x8'
    <3>1. ~ (x4 - x7[id] < 2)
      BY <1>1, <2>3
    <3> HIDE DEF id
    <3> QED BY <2>1, <3>1, Zenon DEF AlertInv
  <2>5. AlertTypes'
    <3>1. t \in [id : AlertIds, covers : Nat, by : {<<f>> : f \in Flushes} \cup (Events \X Nat)]
      BY <1>0, <1>1
    <3> HIDE DEF t
    <3>2. x1' \in [AlertIds -> [known : BOOLEAN, sentAt : Int, suppressed : Nat]]
      BY <2>10
    <3>3. /\ x5' \in [Events -> Nat] /\ x6' \in [Events -> Nat] /\ x9' \in [Events -> Nat]
          /\ x4' \in Nat
          /\ x7' \in [AlertIds -> Int]
          /\ x3' \in [Flushes -> [todo : SUBSET AlertIds, now : Nat, waits : BOOLEAN]]
      BY <1>0, <1>1, <2>1 DEF AlertInv, AlertTypes
    <3>4. x2' \subseteq [id : AlertIds, covers : Nat,
                         by : {<<f>> : f \in Flushes} \cup (Events \X Nat)]
      BY <2>1, <3>1 DEF AlertInv, AlertTypes
    <3> QED BY <3>2, <3>3, <3>4 DEF AlertTypes
  <2>6. t \notin x2
    BY <1>1 DEF AlertInv, SendsAreApart
  <2>7. SendsAreApart'
    <3>1. \A f : t.by # <<f>>
      OBVIOUS
    <3>2. x5[e] \in Nat /\ \A d \in Events : x5[d] \in Nat /\ x5[d] <= x5'[d]
      BY <1>1
    <3>3. \A s \in x2 : s.by # t.by
      BY <3>2 DEF AlertInv, SendsAreApart
    <3>4. \A d \in Events, n \in Nat : t.by = <<d, n>> => n < x5'[d]
      BY <1>1, <3>2
    <3> HIDE DEF t
    <3>5. \A s \in x2' : \A d \in Events, n \in Nat : s.by = <<d, n>> => n < x5'[d]
      BY <1>1, <2>1, <3>2, <3>4 DEF AlertInv, SendsAreApart
    <3>6. \A s \in x2' : \A f \in Flushes : s.by = <<f>> => x3'[f].waits
      BY <1>1, <2>1, <3>1 DEF AlertInv, SendsAreApart
    <3>7. \A s, u \in x2' : s.by = u.by => s = u
      BY <2>1, <3>3 DEF AlertInv, SendsAreApart
    <3> QED BY <3>5, <3>6, <3>7 DEF SendsAreApart
  <2>8. TimesAgree'
    <3>1. \A i \in AlertIds : x1'[i] = IF i = id THEN Known(x1, i, x4) ELSE x1[i]
      BY <2>10
    <3>2. \A i \in AlertIds : x7'[i] = IF i = id THEN x4 ELSE x7[i]
      BY <1>0, <2>1 DEF AlertInv, AlertTypes
    <3> HIDE DEF id, t
    <3>3. Known(x1, id, x4).known /\ Known(x1, id, x4).sentAt = x4
      BY DEF Known
    <3>4. \A i \in AlertIds :
           /\ x7'[i] <= x1'[i].sentAt
           /\ ~ x1'[i].known => x1'[i].sentAt = -2 /\ x7'[i] = -2 /\ x1'[i].suppressed = 0
      BY <1>1, <3>1, <3>2, <3>3 DEF AlertInv, TimesAgree
    <3>5. \A i \in Events : Alerts!Summary(Alerts!Id(i)) # id /\ Alerts!Summary(Alerts!Id(i)) \in AlertIds
      BY IdsOfEvents DEF id
    <3>6. ASSUME NEW i \in Events
          PROVE  /\ x1'[Alerts!Summary(Alerts!Id(i))] = x1[Alerts!Summary(Alerts!Id(i))]
                 /\ x1'[Alerts!Id(i)].sentAt >= x1[Alerts!Id(i)].sentAt
                 /\ x1'[Alerts!Id(i)].sentAt \in Int /\ x1[Alerts!Id(i)].sentAt \in Int
                 /\ x1[Alerts!Summary(Alerts!Id(i))].sentAt \in Int
      <4>1. x1'[Alerts!Summary(Alerts!Id(i))] = x1[Alerts!Summary(Alerts!Id(i))]
        BY <3>1, <3>5
      <4>2. Alerts!Id(i) \in AlertIds
        BY IdsOfEvents
      <4>3. x1[Alerts!Summary(Alerts!Id(i))].sentAt \in Int /\ x1[Alerts!Id(i)].sentAt \in Int
        BY <3>5, <4>2 DEF AlertInv, AlertTypes
      <4>4. CASE Alerts!Id(i) = id
        <5>1. x1'[Alerts!Id(i)].sentAt = x4
          BY <3>1, <3>3, <4>2, <4>4
        <5> QED BY <1>1, <2>3, <4>1, <4>3, <4>4, <5>1
      <4>5. CASE Alerts!Id(i) # id
        <5>1. x1'[Alerts!Id(i)] = x1[Alerts!Id(i)]
          BY <3>1, <4>2, <4>5
        <5> QED BY <4>1, <4>3, <5>1
      <4> QED BY <4>4, <4>5
    <3> QED BY <3>4, <3>6 DEF AlertInv, TimesAgree
  <2>9. Accounted'
    <3>1. SUFFICES ASSUME NEW d \in Events
                   PROVE  /\ IsFiniteSet(Sends(x2', d))
                          /\ x5'[d] = x6'[d] + x9'[d] + Cardinality(Sends(x2', d)) + x1'[Alerts!Id(d)].suppressed
      BY DEF Accounted
    <3>2. t.covers \in Nat /\ t.covers = 1 /\ t.id[2] = e
      BY <1>0
    <3>3. /\ IsFiniteSet(Sends(x2, d))
          /\ x5[d] = x6[d] + x9[d] + Cardinality(Sends(x2, d)) + x1[Alerts!Id(d)].suppressed
      BY DEF AlertInv, Accounted
    <3> HIDE DEF t
    <3>4. /\ IsFiniteSet(Sends(x2 \cup {t}, d))
          /\ Cardinality(Sends(x2 \cup {t}, d)) = Cardinality(Sends(x2, d)) + (IF e = d THEN 1 ELSE 0)
      BY <2>6, <3>2, <3>3, OneMoreSend
    <3>5. x1'[Alerts!Id(d)].suppressed = x1[Alerts!Id(d)].suppressed /\ x1[Alerts!Id(d)].suppressed \in Nat
      <4>1. x1'[Alerts!Id(d)].suppressed = x1[Alerts!Id(d)].suppressed
        <5>1. x1'[Alerts!Id(d)] = IF Alerts!Id(d) = id THEN Known(x1, Alerts!Id(d), x4) ELSE x1[Alerts!Id(d)]
          BY <2>10, IdsOfEvents
        <5> QED BY <5>1 DEF Known
      <4> QED BY <4>1, IdsOfEvents DEF AlertInv, AlertTypes
    <3>6. x5'[d] = x5[d] + (IF e = d THEN 1 ELSE 0) /\ x6'[d] = x6[d] /\ x9'[d] = x9[d]
          /\ x6[d] \in Nat /\ x9[d] \in Nat /\ x5[d] \in Nat
      BY <1>1 DEF AlertInv, AlertTypes
    <3>7. Cardinality(Sends(x2, d)) \in Nat
      BY <3>3, FS_CardinalityType
    <3> QED BY <2>1, <3>3, <3>4, <3>5, <3>6, <3>7
  <2> QED BY <2>4, <2>5, <2>7, <2>8, <2>9 DEF AlertInv
<1> QED BY <1>2, <1>3

\* A send ends: what it covers was told, or lost.
LEMMA SentStep ==
  ASSUME AlertInv, NEW s \in x2, Alerts!Sent(s) \/ Alerts!Lost(s)
  PROVE  AlertInv'
<1>1. /\ x2' = x2 \ {s}
      /\ \/ x6' = [x6 EXCEPT ![s.id[2]] = @ + s.covers] /\ x9' = x9
         \/ x9' = [x9 EXCEPT ![s.id[2]] = @ + s.covers] /\ x6' = x6
      /\ x3' = [f \in Flushes |-> IF s.by = <<f>> THEN [x3[f] EXCEPT !.waits = FALSE] ELSE x3[f]]
      /\ UNCHANGED <<x1, x4, x5, x7, x8>>
  BY DEF Alerts!Sent, Alerts!Lost, Alerts!Ends
<1>2. s.covers \in Nat /\ s.id \in AlertIds /\ s.id[2] \in Events
  BY IdsOfEvents DEF AlertInv, AlertTypes
<1>3. AlertTypes'
  <2>0. /\ x3 \in [Flushes -> [todo : SUBSET AlertIds, now : Nat, waits : BOOLEAN]]
        /\ x6 \in [Events -> Nat] /\ x9 \in [Events -> Nat]
    BY DEF AlertInv, AlertTypes
  <2>1. x3' \in [Flushes -> [todo : SUBSET AlertIds, now : Nat, waits : BOOLEAN]]
    <3>1. x3' = [f \in Flushes |-> IF s.by = <<f>> THEN [x3[f] EXCEPT !.waits = FALSE] ELSE x3[f]]
      BY <1>1
    <3> QED BY <2>0, <3>1
  <2>2. x6' \in [Events -> Nat] /\ x9' \in [Events -> Nat]
    <3> DEFINE d == s.id[2]
               c == s.covers
    <3>1. d \in Events /\ c \in Nat
      BY <1>2
    <3>2. \/ x6' = [x6 EXCEPT ![d] = @ + c] /\ x9' = x9
          \/ x9' = [x9 EXCEPT ![d] = @ + c] /\ x6' = x6
      BY <1>1
    <3> HIDE DEF d, c
    <3> QED BY <2>0, <3>1, <3>2
  <2>3. x2' \subseteq [id : AlertIds, covers : Nat,
                       by : {<<f>> : f \in Flushes} \cup (Events \X Nat)]
    BY <1>1 DEF AlertInv, AlertTypes
  <2> QED BY <1>1, <2>1, <2>2, <2>3 DEF AlertInv, AlertTypes
<1>5. TimesAgree'
  BY <1>1 DEF AlertInv, TimesAgree
<1>6. Accounted'
  <2>1. SUFFICES ASSUME NEW d \in Events
                 PROVE  /\ IsFiniteSet(Sends(x2', d))
                        /\ x5'[d] = x6'[d] + x9'[d] + Cardinality(Sends(x2', d)) + x1'[Alerts!Id(d)].suppressed
    BY DEF Accounted
  <2>2. /\ IsFiniteSet(Sends(x2, d))
        /\ x5[d] = x6[d] + x9[d] + Cardinality(Sends(x2, d)) + x1[Alerts!Id(d)].suppressed
    BY DEF AlertInv, Accounted
  <2>3. /\ IsFiniteSet(Sends(x2 \ {s}, d))
        /\ Cardinality(Sends(x2, d))
             = Cardinality(Sends(x2 \ {s}, d)) + (IF s.id[2] = d THEN s.covers ELSE 0)
    BY <1>2, <2>2, OneSendLess
  <2>4. /\ x6'[d] + x9'[d] = x6[d] + x9[d] + (IF s.id[2] = d THEN s.covers ELSE 0)
        /\ x5[d] \in Nat /\ x6[d] \in Nat /\ x9[d] \in Nat /\ x6'[d] \in Nat /\ x9'[d] \in Nat
    BY <1>1, <1>2 DEF AlertInv, AlertTypes
  <2>5. x1[Alerts!Id(d)].suppressed \in Nat
    BY IdsOfEvents DEF AlertInv, AlertTypes
  <2>6. Cardinality(Sends(x2 \ {s}, d)) \in Nat
    BY <2>3, FS_CardinalityType
  <2> QED BY <1>1, <1>2, <2>2, <2>3, <2>4, <2>5, <2>6
<1>7. SendsAreApart'
  <2>1. \A f \in Flushes : s.by # <<f>> => x3'[f] = x3[f]
    BY <1>1
  <2>2. \A u \in x2' : u \in x2 /\ u # s /\ u.by # s.by
    BY <1>1 DEF AlertInv, SendsAreApart
  <2> QED BY <1>1, <2>1, <2>2 DEF AlertInv, SendsAreApart
<1> QED BY <1>1, <1>3, <1>5, <1>6, <1>7 DEF AlertInv

\* A flush looks at an id: it has nothing to report, or sends a summary of its count.
LEMMA VisitStep ==
  ASSUME AlertInv, NEW f \in Flushes, NEW i \in AlertIds, Alerts!Visit(f, i)
  PROVE  AlertInv'
<1>1. UNCHANGED <<x4, x5, x6, x9>> /\ ~ x3[f].waits /\ x3[f].now \in Nat /\ x3 \in [Flushes -> [todo : SUBSET AlertIds, now : Nat, waits : BOOLEAN]]
  BY DEF Alerts!Visit, AlertInv, AlertTypes
<1>2. CASE Alerts!Skip(f, i)
  <2>1. UNCHANGED <<x1, x2, x7, x8>> /\ x3' = [x3 EXCEPT ![f].todo = @ \ {i}]
    BY <1>2 DEF Alerts!Skip
  <2>2. x3' \in [Flushes -> [todo : SUBSET AlertIds, now : Nat, waits : BOOLEAN]]
        /\ \A g \in Flushes : x3'[g].waits = x3[g].waits
    BY <1>1, <2>1
  <2>3. AlertTypes'
    BY <1>1, <2>1, <2>2 DEF AlertInv, AlertTypes
  <2>4. SendsAreApart'
    BY <1>1, <2>1, <2>2 DEF AlertInv, SendsAreApart
  <2>5. TimesAgree' /\ Accounted' /\ ~ x8'
    BY <1>1, <2>1 DEF AlertInv, TimesAgree, Accounted
  <2> QED BY <2>3, <2>4, <2>5 DEF AlertInv
<1>3. CASE Alerts!Report(f, i)
  <2> DEFINE now == x3[f].now
             reset == Alerts!MarkSentAndForget(x1, i, now)
             t == [id |-> Alerts!Summary(i), covers |-> x1[i].suppressed, by |-> <<f>>]
  <2>1. x1[i].suppressed > 0 /\ now - x1[i].sentAt >= 2
    BY <1>3 DEF Alerts!Report, Alerts!Due
  <2>2. PICK e \in Events : i = Alerts!Id(e)
    BY <2>1, IdsOfEvents DEF AlertInv, TimesAgree
  <2> DEFINE sum == Alerts!Summary(i)
  <2>3. /\ sum \in AlertIds /\ sum # i /\ sum[2] = e /\ i[2] = e
        /\ \A d \in Events : /\ (Alerts!Id(d) = i <=> d = e) /\ Alerts!Id(d) # sum
                           /\ (Alerts!Summary(Alerts!Id(d)) = sum <=> d = e)
                           /\ Alerts!Summary(Alerts!Id(d)) # i
    BY <2>2, IdsOfEvents
  <2>4. /\ reset \in [AlertIds -> [known : BOOLEAN, sentAt : Int, suppressed : Nat]]
        /\ \A j \in AlertIds :
             reset[j] = IF j = i THEN [known |-> TRUE, sentAt |-> now, suppressed |-> 0] ELSE x1[j]
    BY <1>1 DEF AlertInv, AlertTypes, Alerts!MarkSentAndForget
  <2>5. x1[sum].known => x1[sum].sentAt <= x1[i].sentAt
    BY <2>2 DEF AlertInv, TimesAgree
  <2>6. /\ x1[sum].sentAt \in Int /\ x1[i].sentAt \in Int /\ x7[sum] \in Int /\ x1[i].suppressed \in Nat
        /\ now \in Nat /\ x1[sum].suppressed = 0 /\ x7[sum] <= x1[sum].sentAt
        /\ (~ x1[sum].known => x7[sum] = -2)
    BY <1>1, <2>2, <2>3 DEF AlertInv, AlertTypes, TimesAgree
  <2>7. ~ Alerts!Within(reset, sum, now)
    <3>1. reset[sum] = x1[sum]
      BY <2>3, <2>4
    <3> HIDE DEF reset, now, sum
    <3> QED BY <2>1, <2>5, <2>6, <3>1 DEF Alerts!Within
  <2>8. /\ x1' = Alerts!MarkSent(reset, sum, now)
        /\ x2' = x2 \cup {t} /\ x7' = [x7 EXCEPT ![sum] = now]
        /\ x8' = (x8 \/ now - x7[sum] < 2)
        /\ x3' = [x3 EXCEPT ![f] = [todo |-> @.todo \ {i}, now |-> now, waits |-> TRUE]]
    BY <1>3, <2>7 DEF Alerts!Report, Alerts!BeginSend
  <2>9. /\ x1' \in [AlertIds -> [known : BOOLEAN, sentAt : Int, suppressed : Nat]]
        /\ \A j \in AlertIds :
             x1'[j] = IF j = sum THEN [known |-> TRUE, sentAt |-> now, suppressed |-> 0]
                      ELSE IF j = i THEN [known |-> TRUE, sentAt |-> now, suppressed |-> 0]
                      ELSE x1[j]
    <3>1. reset[sum].suppressed = 0 /\ now \in Int
      BY <2>3, <2>4, <2>6
    <3> HIDE DEF reset, now, sum
    <3>2. /\ Alerts!MarkSent(reset, sum, now) \in [AlertIds -> [known : BOOLEAN, sentAt : Int, suppressed : Nat]]
          /\ \A j \in AlertIds :
               Alerts!MarkSent(reset, sum, now)[j] = IF j = sum THEN Known(reset, j, now) ELSE reset[j]
      <4>1. reset \in [AlertIds -> [known : BOOLEAN, sentAt : Int, suppressed : Nat]]
        BY <2>4
      <4>2. sum \in AlertIds /\ now \in Int
        BY <2>3, <3>1
      <4> QED BY <4>1, <4>2, MarkedIs
    <3>3. Known(reset, sum, now) = [known |-> TRUE, sentAt |-> now, suppressed |-> 0]
      BY <3>1 DEF Known
    <3> QED BY <2>4, <2>8, <3>2, <3>3
  <2>10. ~ x8'
    <3>1. ~ (now - x7[sum] < 2)
      <4> HIDE DEF now, sum
      <4> QED BY <2>1, <2>5, <2>6
    <3> HIDE DEF now, sum
    <3> QED BY <2>8, <3>1, Zenon DEF AlertInv
  <2>11. t.covers \in Nat /\ t.covers = x1[i].suppressed /\ t.id = sum /\ t.by = <<f>>
    BY <2>6
  <2>12. \A d \in Events : \A n : <<f>> # <<d, n>>
    OBVIOUS
  <2> HIDE DEF t, sum, now, reset
  <2>13. /\ x3' \in [Flushes -> [todo : SUBSET AlertIds, now : Nat, waits : BOOLEAN]]
         /\ x3'[f].waits /\ \A g \in Flushes \ {f} : x3'[g] = x3[g]
    BY <1>1, <2>6, <2>8
  <2>14. AlertTypes'
    <3>1. t \in [id : AlertIds, covers : Nat, by : {<<g>> : g \in Flushes} \cup (Events \X Nat)]
      BY <2>3, <2>6 DEF t
    <3>2. x2' \subseteq [id : AlertIds, covers : Nat,
                         by : {<<g>> : g \in Flushes} \cup (Events \X Nat)]
      BY <2>8, <3>1 DEF AlertInv, AlertTypes
    <3>3. x7' \in [AlertIds -> Int]
      BY <2>3, <2>6, <2>8 DEF AlertInv, AlertTypes
    <3> QED BY <1>1, <2>9, <2>13, <3>2, <3>3 DEF AlertInv, AlertTypes
  <2>15. \A s \in x2 : s.by # t.by
    BY <1>1, <2>11 DEF AlertInv, SendsAreApart
  <2>16. SendsAreApart'
    <3>1. \A s \in x2' : s \in x2 \/ s = t
      BY <2>8
    <3>2. \A s \in x2' : \A d \in Events, n \in Nat : s.by = <<d, n>> => n < x5'[d]
      BY <1>1, <2>11, <2>12, <3>1 DEF AlertInv, SendsAreApart
    <3>3. \A s \in x2' : \A g \in Flushes : s.by = <<g>> => x3'[g].waits
      BY <2>11, <2>13, <3>1 DEF AlertInv, SendsAreApart
    <3>4. \A s, u \in x2' : s.by = u.by => s = u
      BY <2>15, <3>1 DEF AlertInv, SendsAreApart
    <3> QED BY <3>2, <3>3, <3>4 DEF SendsAreApart
  <2>17. TimesAgree'
    <3>1. \A j \in AlertIds : x7'[j] = IF j = sum THEN now ELSE x7[j]
      BY <2>3, <2>8 DEF AlertInv, AlertTypes
    <3>2. ASSUME NEW j \in AlertIds
          PROVE  /\ x7'[j] <= x1'[j].sentAt
                 /\ ~ x1'[j].known => x1'[j].sentAt = -2 /\ x7'[j] = -2 /\ x1'[j].suppressed = 0
      <4>1. CASE j = sum
        BY <2>6, <2>9, <3>1, <4>1
      <4>2. CASE j = i /\ j # sum
        <5>1. x7[i] <= x1[i].sentAt /\ x7[i] \in Int
          BY DEF AlertInv, AlertTypes, TimesAgree
        <5>2. x7'[j] = x7[i] /\ x1'[j] = [known |-> TRUE, sentAt |-> now, suppressed |-> 0]
          BY <2>9, <3>1, <4>2
        <5> QED BY <2>1, <2>6, <5>1, <5>2
      <4>3. CASE j # i /\ j # sum
        <5>1. x7'[j] = x7[j] /\ x1'[j] = x1[j]
          BY <2>9, <3>1, <4>3
        <5> QED BY <5>1 DEF AlertInv, TimesAgree
      <4> QED BY <4>1, <4>2, <4>3
    <3>3. ASSUME NEW d \in Events
          PROVE  /\ x1'[Alerts!Summary(Alerts!Id(d))].suppressed = 0
                 /\ x1'[Alerts!Summary(Alerts!Id(d))].known =>
                      x1'[Alerts!Summary(Alerts!Id(d))].sentAt <= x1'[Alerts!Id(d)].sentAt
      <4>1. Alerts!Id(d) \in AlertIds /\ Alerts!Summary(Alerts!Id(d)) \in AlertIds
        BY IdsOfEvents
      <4>2. CASE d = e
        BY <2>2, <2>3, <2>6, <2>9, <4>1, <4>2
      <4>3. CASE d # e
        <5>1. /\ x1'[Alerts!Summary(Alerts!Id(d))] = x1[Alerts!Summary(Alerts!Id(d))]
              /\ x1'[Alerts!Id(d)] = x1[Alerts!Id(d)]
          BY <2>3, <2>9, <4>1, <4>3
        <5> QED BY <5>1 DEF AlertInv, TimesAgree
      <4> QED BY <4>2, <4>3
    <3> QED BY <3>2, <3>3 DEF TimesAgree
  <2>18. Accounted'
    <3>1. SUFFICES ASSUME NEW d \in Events
                   PROVE  /\ IsFiniteSet(Sends(x2', d))
                          /\ x5'[d] = x6'[d] + x9'[d] + Cardinality(Sends(x2', d)) + x1'[Alerts!Id(d)].suppressed
      BY DEF Accounted
    <3>2. /\ IsFiniteSet(Sends(x2, d))
          /\ x5[d] = x6[d] + x9[d] + Cardinality(Sends(x2, d)) + x1[Alerts!Id(d)].suppressed
      BY DEF AlertInv, Accounted
    <3>3. t \notin x2
      BY <2>15
    <3>4. /\ IsFiniteSet(Sends(x2 \cup {t}, d))
          /\ Cardinality(Sends(x2 \cup {t}, d))
               = Cardinality(Sends(x2, d)) + (IF t.id[2] = d THEN t.covers ELSE 0)
      BY <2>11, <3>2, <3>3, OneMoreSend
    <3>5. Cardinality(Sends(x2, d)) \in Nat /\ x5[d] \in Nat /\ x6[d] \in Nat /\ x9[d] \in Nat
      BY <3>2, FS_CardinalityType DEF AlertInv, AlertTypes
    <3>6. CASE d = e
      <4>1. x1'[Alerts!Id(d)].suppressed = 0 /\ Alerts!Id(d) = i
        BY <2>2, <2>3, <2>9, <3>6
      <4>2. t.id[2] = d
        BY <2>3, <2>11, <3>6
      <4> QED BY <1>1, <2>6, <2>8, <2>11, <3>2, <3>4, <3>5, <4>1, <4>2
    <3>7. CASE d # e
      <4>1. x1'[Alerts!Id(d)] = x1[Alerts!Id(d)]
        BY <2>3, <2>9, <3>7, IdsOfEvents
      <4>2. t.id[2] # d
        BY <2>3, <2>11, <3>7
      <4> QED BY <1>1, <2>8, <3>2, <3>4, <3>5, <4>1, <4>2
    <3> QED BY <3>6, <3>7
  <2> QED BY <2>10, <2>14, <2>16, <2>17, <2>18 DEF AlertInv
<1> QED BY <1>2, <1>3 DEF Alerts!Visit

LEMMA AlertStep ==
  ASSUME AlertInv, Alerts!Next \/ UNCHANGED <<x1, x2, x3, x4, x5, x6, x7, x8, x9>>
  PROVE  AlertInv'
<1>1. CASE UNCHANGED <<x1, x2, x5, x6, x7, x8, x9>> /\ x4' \in Nat
           /\ x3' \in [Flushes -> [todo : SUBSET AlertIds, now : Nat, waits : BOOLEAN]]
           /\ \A f \in Flushes : x3[f].waits => x3'[f].waits
  <2>1. AlertTypes'
    BY <1>1 DEF AlertInv, AlertTypes
  <2>2. SendsAreApart'
    BY <1>1 DEF AlertInv, SendsAreApart
  <2>3. TimesAgree' /\ Accounted' /\ ~ x8'
    BY <1>1 DEF AlertInv, TimesAgree, Accounted
  <2> QED BY <2>1, <2>2, <2>3 DEF AlertInv
<1>2. CASE UNCHANGED <<x1, x2, x3, x4, x5, x6, x7, x8, x9>>
  BY <1>1, <1>2 DEF AlertInv, AlertTypes
<1>3. CASE \E f \in Flushes : Alerts!StartFlush(f)
  <2>1. PICK f \in Flushes :
          /\ x3' = [x3 EXCEPT ![f] = [todo |-> {i \in AlertIds : x1[i].known}, now |-> x4, waits |-> FALSE]]
          /\ ~ x3[f].waits /\ UNCHANGED <<x1, x2, x4, x5, x6, x7, x8, x9>>
    BY <1>3 DEF Alerts!StartFlush, AlertIds
  <2>2. x3' \in [Flushes -> [todo : SUBSET AlertIds, now : Nat, waits : BOOLEAN]]
        /\ \A g \in Flushes : x3[g].waits => x3'[g].waits
    BY <2>1 DEF AlertInv, AlertTypes
  <2> QED BY <1>1, <2>1, <2>2 DEF AlertInv, AlertTypes
<1>4. CASE Alerts!Tick
  BY <1>1, <1>4 DEF AlertInv, AlertTypes, Alerts!Tick
<1> QED BY <1>2, <1>3, <1>4, WriteEventStep, SentStep, VisitStep DEF Alerts!Next, AlertIds

LEMMA AlertsHold ==
  ASSUME AlertInv
  PROVE  Alerts!EveryAlertIsAccounted /\ Alerts!OneAlertPerWindow
<1>1. \A e \in Events : Alerts!OnTheWay(e) = Cardinality(Sends(x2, e))
  BY DEF Alerts!OnTheWay, Sends, Alerts!Cardinality, Cardinality
<1> QED BY <1>1 DEF AlertInv, Accounted, Alerts!EveryAlertIsAccounted, Alerts!OneAlertPerWindow, Alerts!Counted

-----------------------------------------------------------------------------
(* The batcher.                                                            *)

AllTasks == ReadTasks \cup WriteTasks
Elements(s) == {s[i] : i \in DOMAIN s}
Queued(r, w, p, a) == Elements(r) \cup Elements(w) \cup Elements(p) \cup a

BatcherTypes ==
  /\ x1 \in Seq(ReadTasks) /\ x2 \in Seq(WriteTasks)
  /\ x5 \in {"idle", "reads", "writes"}
  /\ x6 \in Seq(FlushCalls) /\ x7 \subseteq FlushCalls
  /\ x8 \in Seq(WriteTasks) /\ x9 \in Seq(WriteTasks)
  /\ x4 \subseteq AllTasks /\ x11 \in [FlushCalls -> SUBSET AllTasks]

\* What runs, and what was taken to be run, is of the phase of the flush that runs.
PhasesApart ==
  /\ x5 = "idle" => x3 = <<>> /\ x4 = {}
  /\ x5 # "idle" => x6 # <<>>
  /\ x5 = "reads" => x3 \in Seq(ReadTasks) /\ x4 \subseteq ReadTasks
  /\ x5 = "writes" => x3 \in Seq(WriteTasks) /\ \A s, t \in x4 : s = t

\* The writes in their order: begun, taken, waiting.
InOrder == x8 = IF x5 = "writes" THEN x9 \o x3 \o x2 ELSE x9 \o x2

\* What a call of flush promised has ended or still waits, and has ended once it resolved;
\* nothing that the flush that runs promised is among the reads that came after its own.
PromisesKept ==
  /\ \A f \in FlushCalls : x11[f] \subseteq x10 \cup Queued(x1, x2, x3, x4)
  /\ \A f \in x7 : x11[f] \subseteq x10
  /\ x5 = "writes" => x11[Head(x6)] \cap Elements(x1) = {}

BatcherInv == BatcherTypes /\ PhasesApart /\ InOrder /\ PromisesKept

\* The elements of a queue that changes.
LEMMA ElementsOfAppend ==
  ASSUME NEW S, NEW s \in Seq(S), NEW e \in S
  PROVE  /\ Append(s, e) \in Seq(S) /\ Elements(Append(s, e)) = Elements(s) \cup {e}
         /\ s # <<>> => Head(Append(s, e)) = Head(s)
<1>1. /\ Append(s, e) \in Seq(S) /\ Len(Append(s, e)) = Len(s) + 1 /\ Len(s) \in Nat
      /\ \A i \in 1..Len(s) : Append(s, e)[i] = s[i]
      /\ Append(s, e)[Len(s) + 1] = e
      /\ DOMAIN s = 1..Len(s) /\ DOMAIN Append(s, e) = 1..(Len(s) + 1)
  BY AppendProperties, LenProperties
<1>2. Elements(Append(s, e)) = Elements(s) \cup {e}
  BY <1>1 DEF Elements
<1>3. s # <<>> => Head(Append(s, e)) = Head(s)
  BY HeadTailAppend
<1> QED BY <1>1, <1>2, <1>3

LEMMA ElementsOfEmpty ==
  Elements(<<>>) = {} /\ \A S : <<>> \in Seq(S)
BY DEF Elements

LEMMA ElementsOfTail ==
  ASSUME NEW S, NEW s \in Seq(S), s # <<>>
  PROVE  /\ Head(s) \in S /\ Tail(s) \in Seq(S) /\ Elements(s) = {Head(s)} \cup Elements(Tail(s))
         /\ s = <<Head(s)>> \o Tail(s)
<1>1. /\ Head(s) \in S /\ Tail(s) \in Seq(S) /\ Len(Tail(s)) = Len(s) - 1 /\ Len(s) \in Nat
      /\ \A i \in 1..Len(Tail(s)) : Tail(s)[i] = s[i + 1]
      /\ DOMAIN s = 1..Len(s) /\ DOMAIN Tail(s) = 1..(Len(s) - 1) /\ Head(s) = s[1] /\ Len(s) > 0
  BY HeadTailProperties, LenProperties, EmptySeq
<1>2. Elements(s) = {Head(s)} \cup Elements(Tail(s))
  <2>1. \A i \in 1..Len(s) : i = 1 \/ (i - 1 \in 1..(Len(s) - 1) /\ s[i] = Tail(s)[i - 1])
    BY <1>1
  <2>2. \A i \in 1..(Len(s) - 1) : i + 1 \in 1..Len(s) /\ Tail(s)[i] = s[i + 1]
    BY <1>1
  <2>3. ASSUME NEW e \in Elements(s) PROVE e \in {Head(s)} \cup Elements(Tail(s))
    <3>1. PICK i \in 1..Len(s) : e = s[i]
      BY <1>1 DEF Elements
    <3>2. CASE i = 1
      BY <1>1, <3>1, <3>2
    <3>3. CASE i # 1
      BY <1>1, <2>1, <3>1, <3>3 DEF Elements
    <3> QED BY <3>2, <3>3
  <2>4. ASSUME NEW e \in Elements(Tail(s)) PROVE e \in Elements(s)
    <3>1. PICK i \in 1..(Len(s) - 1) : e = Tail(s)[i]
      BY <1>1 DEF Elements
    <3> QED BY <1>1, <2>2, <3>1 DEF Elements
  <2>5. Head(s) \in Elements(s)
    BY <1>1 DEF Elements
  <2> QED BY <2>3, <2>4, <2>5
<1>3. s = <<Head(s)>> \o Tail(s)
  BY <1>1
<1> QED BY <1>1, <1>2, <1>3

LEMMA ElementsOfSplit ==
  ASSUME NEW S, NEW s \in Seq(S), NEW n \in 0..Len(s)
  PROVE  /\ SubSeq(s, n + 1, Len(s)) \in Seq(S) /\ Elements(SubSeq(s, 1, n)) \subseteq S
         /\ Elements(s) = Elements(SubSeq(s, 1, n)) \cup Elements(SubSeq(s, n + 1, Len(s)))
<1>1. Len(s) \in Nat /\ DOMAIN s = 1..Len(s) /\ \A i \in 1..Len(s) : s[i] \in S
  BY LenProperties, ElementOfSeq
<1> DEFINE a == SubSeq(s, 1, n)
           b == SubSeq(s, n + 1, Len(s))
<1>2. a \in Seq(S) /\ Len(a) = n /\ (\A i \in 1..n : a[i] = s[i]) /\ DOMAIN a = 1..n
  BY <1>1, SubSeqProperties, LenProperties
<1>3. b \in Seq(S) /\ Len(b) = Len(s) - n /\ (\A i \in 1..(Len(s) - n) : b[i] = s[n + i])
      /\ DOMAIN b = 1..(Len(s) - n)
  <2>1. n + 1 \in Int /\ Len(s) \in Int /\ \A i \in (n + 1)..Len(s) : s[i] \in S
    BY <1>1
  <2>2. /\ b \in Seq(S) /\ Len(b) = IF n + 1 <= Len(s) THEN Len(s) - (n + 1) + 1 ELSE 0
        /\ \A i \in 1..(Len(s) - (n + 1) + 1) : b[i] = s[(n + 1) + i - 1]
    BY <2>1, SubSeqProperties
  <2>3. \A m \in Nat : \A k \in 0..m :
           /\ m - (k + 1) + 1 = m - k /\ (IF k + 1 <= m THEN m - (k + 1) + 1 ELSE 0) = m - k
           /\ \A i \in 1..(m - k) : (k + 1) + i - 1 = k + i
    OBVIOUS
  <2> HIDE DEF b
  <2>4. /\ Len(s) - (n + 1) + 1 = Len(s) - n
        /\ (IF n + 1 <= Len(s) THEN Len(s) - (n + 1) + 1 ELSE 0) = Len(s) - n
        /\ \A i \in 1..(Len(s) - n) : (n + 1) + i - 1 = n + i
    BY <1>1, <2>3
  <2>5. Len(b) = Len(s) - n
    BY <2>2, <2>4
  <2>6. \A i \in 1..(Len(s) - n) : b[i] = s[n + i]
    BY <2>2, <2>4
  <2>7. DOMAIN b = 1..Len(b)
    BY <2>2, LenProperties
  <2> QED BY <2>2, <2>5, <2>6, <2>7
<1> HIDE DEF a, b
<1>4. \A i \in 1..Len(s) : i \in 1..n \/ (i - n \in 1..(Len(s) - n) /\ s[i] = b[i - n])
  BY <1>1, <1>3
<1>5. Elements(s) = Elements(a) \cup Elements(b)
  <2>1. ASSUME NEW e \in Elements(s) PROVE e \in Elements(a) \cup Elements(b)
    <3>1. PICK i \in 1..Len(s) : e = s[i]
      BY <1>1 DEF Elements
    <3>2. CASE i \in 1..n
      BY <1>2, <3>1, <3>2 DEF Elements
    <3>3. CASE i \notin 1..n
      BY <1>3, <1>4, <3>1, <3>3 DEF Elements
    <3> QED BY <3>2, <3>3
  <2>2. ASSUME NEW e \in Elements(a) PROVE e \in Elements(s)
    <3>1. PICK i \in 1..n : e = a[i]
      BY <1>2 DEF Elements
    <3>2. i \in 1..Len(s) /\ e = s[i]
      BY <1>1, <1>2, <3>1
    <3> QED BY <1>1, <3>2 DEF Elements
  <2>3. ASSUME NEW e \in Elements(b) PROVE e \in Elements(s)
    <3>1. PICK i \in 1..(Len(s) - n) : e = b[i]
      BY <1>3 DEF Elements
    <3>2. n + i \in 1..Len(s) /\ e = s[n + i]
      BY <1>1, <1>3, <3>1
    <3> QED BY <1>1, <3>2 DEF Elements
  <2> QED BY <2>1, <2>2, <2>3
<1>6. Elements(a) \subseteq S
  BY <1>1, <1>2 DEF Elements
<1> QED BY <1>3, <1>5, <1>6 DEF a, b

LEMMA ElementsAre ==
  ASSUME NEW S, NEW s \in Seq(S)
  PROVE  Elements(s) \subseteq S /\ (s # <<>> => Head(s) \in Elements(s))
<1>1. Len(s) \in Nat /\ DOMAIN s = 1..Len(s) /\ \A i \in 1..Len(s) : s[i] \in S
  BY LenProperties, ElementOfSeq
<1>2. Elements(s) \subseteq S
  BY <1>1 DEF Elements
<1> QED BY <1>2, ElementsOfTail

LEMMA BatcherStarts ==
  ASSUME Batcher!Init PROVE BatcherInv
BY ElementsOfEmpty, ConcatEmptySeq
   DEF Batcher!Init, BatcherInv, BatcherTypes, PhasesApart, InOrder, PromisesKept, Queued

LEMMA WaitingIs == Batcher!Waiting = Queued(x1, x2, x3, x4)
BY DEF Batcher!Waiting, Batcher!ToSet, Queued, Elements

\* Tasks are queued.
LEMMA EnqueueStep ==
  ASSUME BatcherInv, NEW t, Batcher!EnqueueRead(t) \/ Batcher!EnqueueWrite(t)
  PROVE  BatcherInv'
<1>0. t \notin x10 \cup Queued(x1, x2, x3, x4)
  BY WaitingIs DEF Batcher!EnqueueRead, Batcher!EnqueueWrite, Batcher!Unqueued
<1>1. \A f \in FlushCalls : t \notin x11[f]
  BY <1>0 DEF BatcherInv, PromisesKept
<1>2. CASE Batcher!EnqueueRead(t)
  <2>1. /\ t \in ReadTasks /\ x1' = Append(x1, t)
        /\ UNCHANGED <<x2, x3, x4, x5, x6, x7, x8, x9, x10, x11>>
    BY <1>2 DEF Batcher!EnqueueRead, Batcher!history
  <2>2. x1' \in Seq(ReadTasks) /\ Elements(x1') = Elements(x1) \cup {t}
    BY <2>1, ElementsOfAppend DEF BatcherInv, BatcherTypes
  <2>3. x5 = "writes" => Head(x6) \in FlushCalls
    BY ElementsOfTail DEF BatcherInv, BatcherTypes, PhasesApart
  <2>4. PromisesKept'
    BY <1>1, <2>1, <2>2, <2>3 DEF BatcherInv, PromisesKept, Queued
  <2> QED BY <2>1, <2>2, <2>4 DEF BatcherInv, BatcherTypes, PhasesApart, InOrder
<1>3. CASE Batcher!EnqueueWrite(t)
  <2>1. /\ t \in WriteTasks /\ x2' = Append(x2, t) /\ x8' = Append(x8, t)
        /\ UNCHANGED <<x1, x3, x4, x5, x6, x7, x9, x10, x11>>
    BY <1>3 DEF Batcher!EnqueueWrite
  <2>2. x2' \in Seq(WriteTasks) /\ Elements(x2') = Elements(x2) \cup {t} /\ x8' \in Seq(WriteTasks)
    BY <2>1, ElementsOfAppend DEF BatcherInv, BatcherTypes
  <2>3. PromisesKept'
    BY <2>1, <2>2 DEF BatcherInv, PromisesKept, Queued
  <2>4. InOrder'
    <3>1. ASSUME NEW s \in Seq(WriteTasks) PROVE Append(s \o x2, t) = s \o Append(x2, t)
      <4>1. x2 \in Seq(WriteTasks) /\ <<t>> \in Seq(WriteTasks) /\ t \in WriteTasks
        BY <2>1 DEF BatcherInv, BatcherTypes
      <4>2. Append(x2, t) = x2 \o <<t>> /\ s \o x2 \in Seq(WriteTasks)
        BY <4>1, AppendIsConcat, ConcatProperties
      <4>3. Append(s \o x2, t) = (s \o x2) \o <<t>>
        BY <4>1, <4>2, AppendIsConcat
      <4> QED BY <4>1, <4>2, <4>3, ConcatAssociative
    <3>2. x9 \in Seq(WriteTasks) /\ (x5 = "writes" => x9 \o x3 \in Seq(WriteTasks))
      BY ConcatProperties DEF BatcherInv, BatcherTypes, PhasesApart
    <3> QED BY <2>1, <3>1, <3>2 DEF BatcherInv, InOrder
  <2> QED BY <2>1, <2>2, <2>3, <2>4 DEF BatcherInv, BatcherTypes, PhasesApart
<1> QED BY <1>2, <1>3

\* A call of flush promises what waits.
LEMMA FlushStep ==
  ASSUME BatcherInv, NEW f \in FlushCalls, Batcher!Flush(f)
  PROVE  BatcherInv'
<1>1. /\ f \notin Elements(x6) \cup x7 /\ x6' = Append(x6, f)
      /\ x11' = [x11 EXCEPT ![f] = Queued(x1, x2, x3, x4)]
      /\ UNCHANGED <<x1, x2, x3, x4, x5, x7, x8, x9, x10>>
  BY WaitingIs DEF Batcher!Flush, Batcher!ToSet, Elements
<1>2. Queued(x1, x2, x3, x4) \in SUBSET AllTasks
  <2>1. Elements(x1) \subseteq AllTasks /\ Elements(x2) \subseteq AllTasks
    BY ElementsAre DEF BatcherInv, BatcherTypes, AllTasks
  <2>2. Elements(x3) \subseteq AllTasks
    <3>1. x3 \in Seq(ReadTasks) \/ x3 \in Seq(WriteTasks)
      BY ElementsOfEmpty DEF BatcherInv, BatcherTypes, PhasesApart
    <3> QED BY <3>1, ElementsAre DEF AllTasks
  <2> QED BY <2>1, <2>2 DEF BatcherInv, BatcherTypes, Queued
<1>3. x6' \in Seq(FlushCalls) /\ x6' # <<>> /\ (x6 # <<>> => Head(x6') = Head(x6))
  BY <1>1, ElementsOfAppend, AppendProperties DEF BatcherInv, BatcherTypes
<1>4. x11' \in [FlushCalls -> SUBSET AllTasks]
      /\ \A g \in FlushCalls : x11'[g] = IF g = f THEN Queued(x1, x2, x3, x4) ELSE x11[g]
  BY <1>1, <1>2 DEF BatcherInv, BatcherTypes
<1>5. x6 # <<>> => Head(x6) # f /\ Head(x6) \in FlushCalls
  BY <1>1, ElementsAre, ElementsOfTail DEF BatcherInv, BatcherTypes
<1>6. BatcherTypes'
  BY <1>1, <1>3, <1>4 DEF BatcherInv, BatcherTypes
<1>7. PhasesApart' /\ InOrder'
  BY <1>1, <1>3 DEF BatcherInv, PhasesApart, InOrder
<1>8. PromisesKept'
  <2>1. \A g \in FlushCalls : x11'[g] \subseteq x10 \cup Queued(x1, x2, x3, x4)
    BY <1>4 DEF BatcherInv, PromisesKept
  <2>2. \A g \in x7 : g \in FlushCalls /\ g # f /\ x11[g] \subseteq x10
    BY <1>1 DEF BatcherInv, BatcherTypes, PromisesKept
  <2>3. x5 = "writes" => x11'[Head(x6')] \cap Elements(x1) = {}
    BY <1>3, <1>4, <1>5 DEF BatcherInv, PhasesApart, PromisesKept
  <2> QED BY <1>1, <1>4, <2>1, <2>2, <2>3 DEF PromisesKept
<1> QED BY <1>6, <1>7, <1>8 DEF BatcherInv

\* The flush takes, runs and ends.
LEMMA InternalStep ==
  ASSUME BatcherInv, Batcher!Internal
  PROVE  BatcherInv'
<1>1. CASE Batcher!StartFlush
  <2>1. x5 = "idle" /\ x6 # <<>> /\ x5' = "reads" /\ UNCHANGED <<x1, x2, x3, x4, x6, x7, x8, x9, x10, x11>>
    BY <1>1 DEF Batcher!StartFlush, Batcher!history
  <2>2. PhasesApart'
    BY <2>1, ElementsOfEmpty DEF BatcherInv, PhasesApart
  <2> QED BY <2>1, <2>2 DEF BatcherInv, BatcherTypes, InOrder, PromisesKept, Queued
<1>2. CASE Batcher!TakeReads
  <2>1. /\ x5 = "reads" /\ x4 = {} /\ x3 = <<>> /\ x3' = x1 /\ x1' = <<>>
        /\ UNCHANGED <<x2, x4, x5, x6, x7, x8, x9, x10, x11>>
    BY <1>2 DEF Batcher!TakeReads, Batcher!history, Batcher!BatchDone
  <2>2. Queued(x1', x2', x3', x4') = Queued(x1, x2, x3, x4)
    BY <2>1, ElementsOfEmpty DEF Queued
  <2>3. BatcherTypes' /\ PhasesApart' /\ InOrder'
    BY <2>1, ElementsOfEmpty DEF BatcherInv, BatcherTypes, PhasesApart, InOrder
  <2> QED BY <2>1, <2>2, <2>3 DEF BatcherInv, PromisesKept
<1>3. CASE Batcher!RunReads
  <2>1. PICK n \in 0..Len(x3) :
          /\ x4' = Elements(SubSeq(x3, 1, n)) /\ x3' = SubSeq(x3, n + 1, Len(x3))
    <3>1. Batcher!Batch \in 0..Len(x3)
      BY <1>3, LenProperties DEF Batcher!RunReads, Batcher!Batch, BatcherInv, PhasesApart
    <3> QED BY <1>3, <3>1 DEF Batcher!RunReads, Batcher!ToSet, Elements
  <2>2. x5 = "reads" /\ x4 = {} /\ UNCHANGED <<x1, x2, x5, x6, x7, x8, x9, x10, x11>> /\ x3 \in Seq(ReadTasks)
    BY <1>3 DEF Batcher!RunReads, Batcher!history, Batcher!BatchDone, BatcherInv, PhasesApart
  <2>3. /\ x3' \in Seq(ReadTasks) /\ x4' \subseteq ReadTasks
        /\ Elements(x3) = x4' \cup Elements(x3')
    BY <2>1, <2>2, ElementsOfSplit
  <2>4. Queued(x1', x2', x3', x4') = Queued(x1, x2, x3, x4)
    BY <2>2, <2>3 DEF Queued
  <2>5. BatcherTypes' /\ PhasesApart' /\ InOrder'
    BY <2>2, <2>3 DEF BatcherInv, BatcherTypes, PhasesApart, InOrder, AllTasks
  <2> QED BY <2>2, <2>4, <2>5 DEF BatcherInv, PromisesKept
<1>4. CASE Batcher!ReadsDone
  <2>1. /\ x5 = "reads" /\ x4 = {} /\ x3 = <<>> /\ x1 = <<>> /\ x5' = "writes"
        /\ UNCHANGED <<x1, x2, x3, x4, x6, x7, x8, x9, x10, x11>>
    BY <1>4 DEF Batcher!ReadsDone, Batcher!history, Batcher!BatchDone
  <2>2. BatcherTypes' /\ PhasesApart'
    BY <2>1, ElementsOfEmpty DEF BatcherInv, BatcherTypes, PhasesApart
  <2>3. PromisesKept'
    BY <2>1, ElementsOfEmpty DEF BatcherInv, PromisesKept
  <2>4. InOrder'
    <3>1. x9 \o <<>> = x9
      BY ConcatEmptySeq DEF BatcherInv, BatcherTypes
    <3> QED BY <2>1, <3>1 DEF BatcherInv, InOrder
  <2> QED BY <2>2, <2>3, <2>4 DEF BatcherInv
<1>5. CASE Batcher!TakeWrites
  <2>1. /\ x5 = "writes" /\ x4 = {} /\ x3 = <<>> /\ x3' = x2 /\ x2' = <<>>
        /\ UNCHANGED <<x1, x4, x5, x6, x7, x8, x9, x10, x11>>
    BY <1>5 DEF Batcher!TakeWrites, Batcher!history, Batcher!BatchDone
  <2>2. Queued(x1', x2', x3', x4') = Queued(x1, x2, x3, x4)
    BY <2>1, ElementsOfEmpty DEF Queued
  <2>3. BatcherTypes' /\ PhasesApart'
    BY <2>1, ElementsOfEmpty DEF BatcherInv, BatcherTypes, PhasesApart
  <2>4. InOrder'
    <3>1. x9 \o <<>> = x9 /\ x9 \o x2 \in Seq(WriteTasks) /\ (x9 \o x2) \o <<>> = x9 \o x2
      BY ConcatEmptySeq, ConcatProperties DEF BatcherInv, BatcherTypes
    <3> QED BY <2>1, <3>1 DEF BatcherInv, InOrder
  <2> QED BY <2>1, <2>2, <2>3, <2>4 DEF BatcherInv, PromisesKept
<1>6. CASE Batcher!RunWrite
  <2>1. /\ x5 = "writes" /\ x4 = {} /\ x3 # <<>> /\ x4' = {Head(x3)} /\ x3' = Tail(x3)
        /\ x9' = Append(x9, Head(x3)) /\ UNCHANGED <<x1, x2, x5, x6, x7, x8, x10, x11>>
    BY <1>6 DEF Batcher!RunWrite, Batcher!BatchDone
  <2>2. x3 \in Seq(WriteTasks) /\ x9 \in Seq(WriteTasks) /\ x2 \in Seq(WriteTasks)
    BY <2>1 DEF BatcherInv, BatcherTypes, PhasesApart
  <2>3. /\ Head(x3) \in WriteTasks /\ Tail(x3) \in Seq(WriteTasks)
        /\ Elements(x3) = {Head(x3)} \cup Elements(Tail(x3)) /\ x3 = <<Head(x3)>> \o Tail(x3)
    BY <2>1, <2>2, ElementsOfTail
  <2>4. Queued(x1', x2', x3', x4') = Queued(x1, x2, x3, x4)
    BY <2>1, <2>3 DEF Queued
  <2>5. x9' \in Seq(WriteTasks)
    BY <2>1, <2>2, <2>3, ElementsOfAppend
  <2>6. BatcherTypes' /\ PhasesApart'
    BY <2>1, <2>2, <2>3, <2>5 DEF BatcherInv, BatcherTypes, PhasesApart, AllTasks
  <2>7. InOrder'
    <3>1. x9 \o x3 = x9' \o x3'
      <4>1. <<Head(x3)>> \in Seq(WriteTasks) /\ x9' = x9 \o <<Head(x3)>>
        BY <2>1, <2>2, <2>3, AppendIsConcat
      <4>2. x9 \o (<<Head(x3)>> \o Tail(x3)) = (x9 \o <<Head(x3)>>) \o Tail(x3)
        BY <2>2, <2>3, <4>1, ConcatAssociative
      <4> QED BY <2>1, <2>3, <4>1, <4>2
    <3> QED BY <2>1, <3>1 DEF BatcherInv, InOrder
  <2> QED BY <2>1, <2>4, <2>6, <2>7 DEF BatcherInv, PromisesKept
<1>7. CASE Batcher!EndFlush
  <2>1. /\ x5 = "writes" /\ x4 = {} /\ x3 = <<>> /\ x2 = <<>> /\ x5' = "idle"
        /\ x6' = Tail(x6) /\ x7' = x7 \cup {Head(x6)} /\ UNCHANGED <<x1, x2, x3, x4, x8, x9, x10, x11>>
    BY <1>7 DEF Batcher!EndFlush, Batcher!history, Batcher!BatchDone
  <2>2. Head(x6) \in FlushCalls /\ Tail(x6) \in Seq(FlushCalls)
    BY <2>1, ElementsOfTail DEF BatcherInv, BatcherTypes, PhasesApart
  <2>3. BatcherTypes' /\ PhasesApart'
    BY <2>1, <2>2 DEF BatcherInv, BatcherTypes, PhasesApart
  <2>4. InOrder'
    <3>1. x9 \o <<>> = x9
      BY ConcatEmptySeq DEF BatcherInv, BatcherTypes
    <3> QED BY <2>1, <3>1 DEF BatcherInv, InOrder
  <2>5. x11[Head(x6)] \subseteq x10
    <3>1. x11[Head(x6)] \subseteq x10 \cup Elements(x1)
      BY <2>1, <2>2, ElementsOfEmpty DEF BatcherInv, PromisesKept, Queued
    <3> QED BY <2>1, <3>1 DEF BatcherInv, PromisesKept
  <2>6. PromisesKept'
    BY <2>1, <2>5 DEF BatcherInv, PromisesKept
  <2> QED BY <2>3, <2>4, <2>6 DEF BatcherInv
<1> QED BY <1>1, <1>2, <1>3, <1>4, <1>5, <1>6, <1>7 DEF Batcher!Internal

LEMMA BatcherStep ==
  ASSUME BatcherInv, Batcher!Next \/ UNCHANGED <<x1, x2, x3, x4, x5, x6, x7, x8, x9, x10, x11>>
  PROVE  BatcherInv'
<1>1. CASE UNCHANGED <<x1, x2, x3, x4, x5, x6, x7, x8, x9, x10, x11>>
  BY <1>1 DEF BatcherInv, BatcherTypes, PhasesApart, InOrder, PromisesKept, Queued
<1>2. CASE \E t \in ReadTasks \cup WriteTasks : Batcher!EndTask(t)
  <2>1. PICK t \in x4 : /\ x4' = x4 \ {t} /\ x10' = x10 \cup {t}
                        /\ UNCHANGED <<x1, x2, x3, x5, x6, x7, x8, x9, x11>>
    BY <1>2 DEF Batcher!EndTask
  <2>2. BatcherTypes' /\ PhasesApart' /\ InOrder'
    BY <2>1 DEF BatcherInv, BatcherTypes, PhasesApart, InOrder
  <2>3. PromisesKept'
    BY <2>1 DEF BatcherInv, PromisesKept, Queued
  <2> QED BY <2>2, <2>3 DEF BatcherInv
<1> QED BY <1>1, <1>2, EnqueueStep, FlushStep, InternalStep DEF Batcher!Next

LEMMA BatcherHolds ==
  ASSUME BatcherInv
  PROVE  Batcher!FlushCoversItsTasks /\ Batcher!WritesInOrder
<1>1. Batcher!FlushCoversItsTasks
  BY DEF BatcherInv, PromisesKept, Batcher!FlushCoversItsTasks
<1>2. PICK s \in Seq(WriteTasks) : x8 = x9 \o s
  <2>1. CASE x5 = "writes"
    <3>1. x9 \in Seq(WriteTasks) /\ x3 \in Seq(WriteTasks) /\ x2 \in Seq(WriteTasks)
      BY <2>1 DEF BatcherInv, BatcherTypes, PhasesApart
    <3>2. x3 \o x2 \in Seq(WriteTasks) /\ (x9 \o x3) \o x2 = x9 \o (x3 \o x2)
      BY <3>1, ConcatProperties, ConcatAssociative
    <3> QED BY <2>1, <3>2 DEF BatcherInv, InOrder
  <2>2. CASE x5 # "writes"
    BY <2>2 DEF BatcherInv, BatcherTypes, InOrder
  <2> QED BY <2>1, <2>2
<1>3. Batcher!IsPrefix(x9, x8)
  <2>1. x9 \in Seq(WriteTasks) /\ x8 \in Seq(WriteTasks)
    BY DEF BatcherInv, BatcherTypes
  <2>2. /\ Len(x9) \in Nat /\ Len(s) \in Nat /\ Len(x8) = Len(x9) + Len(s)
        /\ \A i \in 1..Len(x9) : x8[i] = x9[i]
    BY <1>2, <2>1, ConcatProperties, LenProperties
  <2>3. SubSeq(x9, 1, Len(x9)) = SubSeq(x8, 1, Len(x9))
    BY <2>1, <2>2
  <2> QED BY <2>2, <2>3 DEF Batcher!IsPrefix
<1>4. Cardinality(x4) > 1 => x4 \subseteq ReadTasks
  <2>1. CASE x5 = "reads"
    BY <2>1 DEF BatcherInv, PhasesApart
  <2>2. CASE x5 # "reads"
    <3>1. \A t, u \in x4 : t = u
      BY <2>2 DEF BatcherInv, BatcherTypes, PhasesApart
    <3>2. x4 = {} \/ \E t : x4 = {t}
      <4>1. CASE x4 = {}
        BY <4>1
      <4>2. CASE x4 # {}
        <5>1. PICK t \in x4 : TRUE
          BY <4>2
        <5>2. x4 = {t}
          BY <3>1, <5>1
        <5> QED BY <5>2
      <4> QED BY <4>1, <4>2
    <3>3. x4 = {} => Cardinality(x4) = 0
      BY FS_EmptySet
    <3>4. \A t : x4 = {t} => Cardinality(x4) = 1
      BY FS_Singleton
    <3> QED BY <3>2, <3>3, <3>4
  <2> QED BY <2>1, <2>2
<1> QED BY <1>1, <1>3, <1>4 DEF Batcher!WritesInOrder, Batcher!Cardinality, Cardinality

-----------------------------------------------------------------------------
(* The native transport: one request, one answer.                          *)

Connections ==
  [step : {"open", "ending", "closed", "crashed"}, got : Nat, of : Nat, blanks : Nat, runs : Nat,
   left : BOOLEAN]
Says == {"result", "error"}

\* While the client keeps to the protocol nothing has been answered on an open connection,
\* and once it was, nothing runs.
Unanswered(c, m) ==
  c.step = "open" /\ (c.runs = 0 \/ (c.runs = 1 /\ (m = "input" \/ c.got = c.of)))
Over(c) == c.step \in {"ending", "closed"} /\ c.runs = 0
OneAnswerSoFar ==
  /\ x3 \in Connections /\ x4 \in Seq(Says)
  /\ x5 = FALSE => (Unanswered(x3, x1) /\ x4 = <<>>) \/ (Over(x3) /\ Len(x4) = 1)
NativeInv == OneAnswerSoFar /\ x5 \in BOOLEAN

LEMMA NativeStarts ==
  ASSUME Native!Init PROVE NativeInv
<1>1. PICK n \in 1..3 : x3 = [Native!Fresh EXCEPT !.of = n]
  BY DEF Native!Init
<1>2. x3 = [step |-> "open", got |-> 0, of |-> n, blanks |-> 0, runs |-> 0, left |-> FALSE]
  BY <1>1 DEF Native!Fresh
<1>3. x3 \in Connections /\ Unanswered(x3, x1)
  BY <1>2 DEF Connections, Unanswered
<1>4. x4 = <<>> /\ x4 \in Seq(Says)
  BY DEF Native!Init
<1>5. x5 \in BOOLEAN
  BY DEF Native!Init
<1> QED BY <1>3, <1>4, <1>5 DEF NativeInv, OneAnswerSoFar

LEMMA SaysOne ==
  ASSUME NEW s \in Seq(Says), NEW a \in Says
  PROVE  Append(s, a) \in Seq(Says) /\ (s = <<>> => Len(Append(s, a)) = 1)
OBVIOUS

\* What a request that is whole makes of a connection.
LEMMA HandledIs ==
  ASSUME NEW c \in Connections
  PROVE  /\ Native!Handled(c) \in Connections
         /\ Native!Handled(c).step = c.step /\ Native!Handled(c).got = c.got
         /\ Native!Handled(c).of = c.of /\ Native!Handled(c).runs \in {c.runs, c.runs + 1}
<1>1. c.runs \in Nat /\ c.runs + 1 \in Nat
  BY DEF Connections
<1>2. [c EXCEPT !.runs = c.runs + 1] \in Connections
  BY <1>1 DEF Connections
<1>3. /\ [c EXCEPT !.runs = c.runs + 1].step = c.step /\ [c EXCEPT !.runs = c.runs + 1].got = c.got
      /\ [c EXCEPT !.runs = c.runs + 1].of = c.of /\ [c EXCEPT !.runs = c.runs + 1].runs = c.runs + 1
  BY DEF Connections
<1> QED BY <1>2, <1>3 DEF Native!Handled

LEMMA NativeStep ==
  ASSUME OneAnswerSoFar, Native!Next \/ UNCHANGED <<x1, x2, x3, x4, x5>>
  PROVE  OneAnswerSoFar'
<1>0. /\ x3 \in Connections /\ x4 \in Seq(Says) /\ x3.runs \in Nat /\ x3.got \in Nat /\ x3.of \in Nat
      /\ "error" \in Says /\ "result" \in Says
  BY DEF OneAnswerSoFar, Connections, Says
<1>1. CASE UNCHANGED <<x1, x2, x3, x4, x5>>
  BY <1>1 DEF OneAnswerSoFar
<1>2. CASE Native!Direct
  <2>1. /\ x3.step = "open" /\ ~ (x3.runs > 0) /\ x5' = x5 /\ x1' = x1
        /\ x1 = "input" \/ x2 = "garbled"
        /\ IF x2 = "valid" THEN x3' = Native!Handled(x3) /\ x4' = x4
           ELSE x3' = [x3 EXCEPT !.step = "closed"] /\ x4' = Append(x4, "error")
    BY <1>2 DEF Native!Direct, Native!IsRunning, Native!Says, Native!Same
  <2>2. CASE x2 = "valid"
    <3>1. x1' = "input" /\ x3' \in Connections /\ x3'.step = "open" /\ x3'.runs \in {0, 1}
      BY <1>0, <2>1, <2>2, HandledIs
    <3>2. Unanswered(x3', x1') /\ x4' = x4
      BY <2>1, <2>2, <3>1 DEF Unanswered
    <3> QED BY <1>0, <2>1, <3>1, <3>2 DEF OneAnswerSoFar, Over
  <2>3. CASE x2 # "valid"
    <3>1. x3' \in Connections /\ Over(x3')
      BY <1>0, <2>1, <2>3 DEF Connections, Over
    <3>2. x4' \in Seq(Says) /\ (x4 = <<>> => Len(x4') = 1)
      BY <1>0, <2>1, <2>3, SaysOne
    <3> QED BY <2>1, <3>1, <3>2 DEF OneAnswerSoFar, Over
  <2> QED BY <2>2, <2>3
<1>3. CASE Native!Data
  <2> DEFINE c == [x3 EXCEPT !.got = x3.got + 1]
  <2>1. /\ x3.step = "open" /\ x3.got < x3.of /\ x5' = x5 /\ x1' = x1 /\ x4' = x4
        /\ x1 # "input"
        /\ x3' = c \/ (c.got = c.of /\ x3' = Native!Handled(c))
    BY <1>3 DEF Native!Data, Native!Sends, Native!Same
  <2>2. c \in Connections /\ c.step = "open" /\ c.runs = x3.runs
    BY <1>0, <2>1 DEF Connections
  <2>3. x5 = FALSE => x3.runs = 0 /\ x4 = <<>>
    BY <1>0, <2>1 DEF OneAnswerSoFar, Unanswered, Over
  <2> HIDE DEF c
  <2>4. /\ x3' \in Connections /\ x3'.step = "open"
        /\ x5 = FALSE => x3'.runs = 0 \/ (x3'.runs = 1 /\ x3'.got = x3'.of)
    BY <2>1, <2>2, <2>3, HandledIs
  <2> QED BY <1>0, <2>1, <2>3, <2>4 DEF OneAnswerSoFar, Unanswered
<1>4. CASE Native!Blank
  <2> DEFINE c == [x3 EXCEPT !.blanks = x3.blanks + 1]
  <2>1. x3' = Native!Handled(c) /\ x5' = TRUE /\ x4' = x4
    BY <1>4 DEF Native!Blank
  <2>2. c \in Connections
    BY <1>0 DEF Connections
  <2> HIDE DEF c
  <2> QED BY <1>0, <2>1, <2>2, HandledIs DEF OneAnswerSoFar
<1>5. CASE Native!PeerEnds
  <2>1. /\ x3' = [[x3 EXCEPT !.left = TRUE] EXCEPT !.step = "ending"] /\ x5' = TRUE
        /\ x4' = x4 \/ x4' = Append(x4, "error")
    BY <1>5 DEF Native!PeerEnds, Native!Says
  <2>2. [x3 EXCEPT !.left = TRUE] \in Connections
    BY <1>0 DEF Connections
  <2>3. x3' \in Connections
    BY <2>1, <2>2 DEF Connections
  <2> QED BY <1>0, <2>1, <2>3, SaysOne DEF OneAnswerSoFar
<1>6. CASE Native!Close
  <2>1. x3.step = "ending" /\ x3' = [x3 EXCEPT !.step = "closed"] /\ x4' = x4 /\ x5' = x5
    BY <1>6 DEF Native!Close, Native!Same
  <2>2. x3' \in Connections /\ (Over(x3) => Over(x3'))
    BY <1>0, <2>1 DEF Connections, Over
  <2> QED BY <1>0, <2>1, <2>2 DEF OneAnswerSoFar, Unanswered
<1>7. CASE Native!Answer
  <2> DEFINE c == [x3 EXCEPT !.runs = x3.runs - 1]
  <2>1. /\ x3.runs > 0 /\ x5' = x5
        /\ \/ x3.step = "open" /\ x4' = Append(x4, "result")
              /\ x3' = [c EXCEPT !.step = IF x1 = "input" THEN "closed" ELSE "ending"]
           \/ x3.step = "ending" /\ x3' = [[x3 EXCEPT !.step = "crashed"] EXCEPT !.runs = 0] /\ x4' = x4
           \/ x3.step = "closed" /\ x3' = c /\ x4' = x4
    BY <1>7 DEF Native!Answer, Native!IsRunning, Native!Says, Native!Same
  <2>2. c \in Connections /\ c.runs = x3.runs - 1
    BY <1>0, <2>1 DEF Connections
  <2>3. [x3 EXCEPT !.step = "crashed"] \in Connections
    BY <1>0 DEF Connections
  <2>4. [[x3 EXCEPT !.step = "crashed"] EXCEPT !.runs = 0] \in Connections
    BY <2>3 DEF Connections
  <2> HIDE DEF c
  <2>5. x3' \in Connections
    BY <2>1, <2>2, <2>4 DEF Connections
  <2>6. x5 = FALSE => x3.step = "open" /\ x3.runs = 1 /\ x4 = <<>>
    BY <2>1 DEF OneAnswerSoFar, Unanswered, Over
  <2>7. x3.step = "open" => x3'.step \in {"closed", "ending"} /\ x3'.runs = x3.runs - 1
    BY <2>1, <2>2 DEF Connections
  <2>8. x4' \in Seq(Says) /\ (x4' = Append(x4, "result") /\ x4 = <<>> => Len(x4') = 1)
    BY <1>0, <2>1, SaysOne
  <2>9. x5 = FALSE => Over(x3') /\ Len(x4') = 1
    BY <2>1, <2>6, <2>7, <2>8 DEF Over
  <2> QED BY <2>1, <2>5, <2>8, <2>9 DEF OneAnswerSoFar
<1>8. CASE Native!Fails
  <2> DEFINE c == [x3 EXCEPT !.runs = x3.runs - 1]
  <2>1. /\ x3.runs > 0 /\ x5' = x5 /\ x1' = x1
        /\ IF x1 = "input" THEN x3' = [c EXCEPT !.step = "closed"] /\ x4' = Append(x4, "error")
           ELSE x3' = c /\ x4' = x4
    BY <1>8 DEF Native!Fails, Native!IsRunning, Native!Says, Native!Same
  <2>2. c \in Connections /\ c.runs = x3.runs - 1 /\ c.step = x3.step
    BY <1>0, <2>1 DEF Connections
  <2> HIDE DEF c
  <2>3. [c EXCEPT !.step = "closed"] \in Connections /\ [c EXCEPT !.step = "closed"].step = "closed"
        /\ [c EXCEPT !.step = "closed"].runs = c.runs
    BY <2>2 DEF Connections
  <2>4. x5 = FALSE => x3.step = "open" /\ x3.runs = 1 /\ x4 = <<>>
    BY <2>1 DEF OneAnswerSoFar, Unanswered, Over
  <2>5. x4' \in Seq(Says) /\ (x4' = Append(x4, "error") /\ x4 = <<>> => Len(x4') = 1)
    BY <1>0, <2>1, SaysOne
  <2>6. CASE x1 = "input"
    <3>1. x5 = FALSE => Over(x3') /\ Len(x4') = 1
      <4>1. x3'.step = "closed" /\ x3'.runs = x3.runs - 1
        BY <2>1, <2>2, <2>3, <2>6
      <4>2. x4' = Append(x4, "error")
        BY <2>1, <2>6
      <4> QED BY <2>4, <2>5, <4>1, <4>2 DEF Over
    <3> QED BY <2>1, <2>3, <2>5, <2>6, <3>1 DEF OneAnswerSoFar
  <2>7. CASE x1 # "input"
    <3>1. x5 = FALSE => Unanswered(x3', x1') /\ x4' = <<>>
      BY <2>1, <2>2, <2>4, <2>7 DEF Unanswered
    <3> QED BY <2>1, <2>2, <2>5, <2>7, <3>1 DEF OneAnswerSoFar
  <2> QED BY <2>6, <2>7
<1> QED BY <1>1, <1>2, <1>3, <1>4, <1>5, <1>6, <1>7, <1>8 DEF Native!Next

LEMMA FlagStep ==
  ASSUME x5 \in BOOLEAN, Native!Next \/ UNCHANGED <<x1, x2, x3, x4, x5>>
  PROVE  x5' \in BOOLEAN
<1>1. x5' = x5 \/ x5' = TRUE
  BY DEF Native!Next, Native!Direct, Native!Data, Native!Blank, Native!PeerEnds, Native!Close,
         Native!Answer, Native!Fails, Native!Same
<1> QED BY <1>1

LEMMA NativeHolds ==
  ASSUME NativeInv PROVE Native!OneAnswer
<1>1. ASSUME x5 = FALSE
      PROVE  /\ x3.step # "crashed" /\ Len(x4) + x3.runs <= 1
             /\ x3.step = "closed" => Len(x4) = 1
  <2>1. CASE Unanswered(x3, x1) /\ x4 = <<>>
    <3>1. Len(x4) = 0
      BY <2>1
    <3> QED BY <2>1, <3>1 DEF Unanswered
  <2>2. CASE Over(x3) /\ Len(x4) = 1
    BY <2>2 DEF Over
  <2> QED BY <1>1, <2>1, <2>2 DEF NativeInv, OneAnswerSoFar
<1>2. CASE x5 = FALSE
  BY <1>1, <1>2 DEF Native!OneAnswer
<1>3. CASE x5 = TRUE
  BY <1>3 DEF Native!OneAnswer
<1> QED BY <1>2, <1>3 DEF NativeInv

-----------------------------------------------------------------------------
(* What is taken on is not dropped.                                        *)

LEMMA VotingHolds ==
  ASSUME VotingInv PROVE Voting!ExecutedOnceApproved
<1>1. x1 = "executed" => Voting!Outcome(x2)
  BY DEF VotingInv, Settled
<1>2. x7 <= 1 + x9
  BY DEF VotingInv, ExecutedFor
<1> QED BY <1>1, <1>2 DEF Voting!ExecutedOnceApproved

\* An alert is sent or logged, folded into a later one or counted, once per window, or its
\* delivery and the emergency log both failed; a flush resolves after the tasks it covers,
\* with the writes in their order; a proposal is executed when its votes approve it, once and
\* once more for each closing after an execution; a request to the native gateway has one run
\* and one answer.
THEOREM NothingDropped == Spec => []NothingIsDropped
<1> DEFINE Inv == /\ part = "alerts" => AlertInv
                  /\ part = "batcher" => BatcherInv
                  /\ part = "voting" => VotingInv
                  /\ part = "native" => NativeInv
<1>1. Init => Inv
  BY InitOfPart, AlertsStart, BatcherStarts, VotingStarts, NativeStarts
<1>2. Inv /\ [Next]_vars => Inv'
  <2>1. SUFFICES ASSUME Inv, [Next]_vars PROVE Inv'
    OBVIOUS
  <2>2. part' = part
    BY <2>1, StepOfPart
  <2>3. ASSUME part = "alerts" PROVE AlertInv'
    <3>1. AlertInv
      BY <2>1, <2>3
    <3>2. Alerts!Next \/ UNCHANGED <<x1, x2, x3, x4, x5, x6, x7, x8, x9>>
      BY <2>1, <2>3, StepOfPart
    <3> QED BY <3>1, <3>2, AlertStep
  <2>4. ASSUME part = "batcher" PROVE BatcherInv'
    <3>1. BatcherInv
      BY <2>1, <2>4
    <3>2. Batcher!Next \/ UNCHANGED <<x1, x2, x3, x4, x5, x6, x7, x8, x9, x10, x11>>
      BY <2>1, <2>4, StepOfPart
    <3> QED BY <3>1, <3>2, BatcherStep
  <2>5. ASSUME part = "voting" PROVE VotingInv'
    BY <2>1, <2>5, StepOfPart, VotingStep
  <2>6. ASSUME part = "native" PROVE NativeInv'
    <3>1. OneAnswerSoFar /\ x5 \in BOOLEAN
      BY <2>1, <2>6 DEF NativeInv
    <3>2. Native!Next \/ UNCHANGED <<x1, x2, x3, x4, x5>>
      BY <2>1, <2>6, StepOfPart
    <3> QED BY <3>1, <3>2, NativeStep, FlagStep DEF NativeInv
  <2> QED BY <2>2, <2>3, <2>4, <2>5, <2>6
<1>3. Inv => NothingIsDropped
  BY AlertsHold, BatcherHolds, VotingHolds, NativeHolds DEF NothingIsDropped
<1> HIDE DEF Inv
<1> QED BY <1>1, <1>2, <1>3, PTL DEF Spec

=============================================================================
