------------------------- MODULE DualApprovalProofs -------------------------
(* Theorems about DualApproval for every set of requests, actors, keys and *)
(* server processes, and every time to live.                               *)
EXTENDS DualApproval, FiniteSetTheorems, TLAPS

USE NormalizeAssumption, NobodyAssumption, VersionsAssumption, TtlAssumption,
    MaxNowAssumption

\* What a handler does to the three tables, by action of the handler.
LEMMA RecordType ==
  ASSUME TypeOK, NEW r \in Requests, NEW to \in States, NEW actor \in Identities,
         Record(r, to, actor)
  PROVE  events' \in [Requests -> Seq(Events)]
<1> DEFINE e == [to |-> to, actor |-> actor, at |-> now]
<1>1. e \in Events
  BY DEF Events, TypeOK
<1>2. Append(events[r], e) \in Seq(Events)
  BY <1>1 DEF TypeOK
<1> QED BY <1>2 DEF Record, TypeOK

\* The call a server runs is well typed at each stage.
LEMMA CallType ==
  ASSUME TypeOK, NEW s \in Servers
  PROVE  /\ call[s].stage = "inserted" => call[s] \in Creations
         /\ call[s].stage = "counted" => call[s] \in Calls
         /\ call[s].stage = "applied" => call[s] \in Creations \cup Calls
         /\ call[s].stage = "selected" => call[s] \in Sweeps
BY DEF TypeOK, Creations, Calls, Sweeps, Idle

\* A decision keeps the three tables well typed.
LEMMA DecideType ==
  ASSUME TypeOK, NEW c \in Calls,
         NEW to \in States, Decide(c, to)
  PROVE  /\ row' \in [Requests -> Rows]
         /\ events' \in [Requests -> Seq(Events)]
         /\ idem' \in [Keys -> Reservations \cup {NoReservation}]
<1>1. c.req \in Requests /\ c.actor \in Identities /\ c.action \in Actions
  BY DEF Calls
<1>2. row[c.req] \in Rows
  BY <1>1 DEF TypeOK
<1>3. [req |-> c.req, action |-> c.action, actor |-> c.actor] \in Reservations
  BY <1>1 DEF Reservations
<1>4. idem' \in [Keys -> Reservations \cup {NoReservation}]
  BY <1>3 DEF Decide, Reserve, TypeOK
<1> DEFINE a == IF to = "approved" THEN c.actor ELSE row[c.req].approver
           new == [row[c.req] EXCEPT !.state = to, !.approver = a,
                                     !.version = row[c.req].version + 1]
<1>5. new \in Rows
  <2>1. a \in Identities \cup {Nobody} /\ row[c.req].version + 1 \in Nat
    BY <1>1, <1>2 DEF Rows
  <2> HIDE DEF a
  <2> QED BY <1>2, <2>1 DEF Rows
<1>6. row' \in [Requests -> Rows]
  BY <1>5 DEF Decide, TypeOK
<1>7. events' \in [Requests -> Seq(Events)]
  BY <1>1, RecordType DEF Decide
<1> QED BY <1>4, <1>6, <1>7

LEMMA TxType ==
  ASSUME TypeOK, NEW c \in Calls, ApproveTx(c) \/ CancelTx(c)
  PROVE  /\ row' \in [Requests -> Rows]
         /\ events' \in [Requests -> Seq(Events)]
         /\ idem' \in [Keys -> Reservations \cup {NoReservation}]
<1>1. CASE Replay(c)
  BY <1>1 DEF Replay, TypeOK
<1>2. CASE Decide(c, "expired")
  BY <1>2, DecideType DEF States
<1>3. CASE Decide(c, "approved")
  BY <1>3, DecideType DEF States
<1>4. CASE Decide(c, "canceled")
  BY <1>4, DecideType DEF States
<1> QED BY <1>1, <1>2, <1>3, <1>4 DEF ApproveTx, CancelTx

LEMMA TypeStep == TypeOK /\ [Next]_vars => TypeOK'
<1> SUFFICES ASSUME TypeOK, [Next]_vars PROVE TypeOK'
  OBVIOUS
<1>1. ASSUME NEW s \in Servers, NEW r \in Requests, NEW raw \in RawIds,
             CreateRequest(s, r, raw)
      PROVE  TypeOK'
  <2>1. row' \in [Requests -> Rows]
    BY <1>1 DEF CreateRequest, TypeOK, Rows, States
  <2>2. call' \in [Servers -> Creations \cup Calls \cup Sweeps \cup {Idle}]
    BY <1>1 DEF CreateRequest, TypeOK, Creations
  <2> QED BY <1>1, <2>1, <2>2 DEF CreateRequest, TypeOK
<1>2. ASSUME NEW s \in Servers, CreateEvent(s) PROVE TypeOK'
  <2>1. call[s] \in Creations
    BY <1>2, CallType DEF CreateEvent
  <2>2. events' \in [Requests -> Seq(Events)]
    BY <1>2, <2>1, RecordType DEF CreateEvent, Creations, States
  <2>3. row[call[s].req].version \in Nat
    BY <2>1 DEF Creations, TypeOK, Rows
  <2>4. call' \in [Servers -> Creations \cup Calls \cup Sweeps \cup {Idle}]
    BY <1>2, <2>1, <2>3 DEF CreateEvent, TypeOK, Creations
  <2> QED BY <1>2, <2>2, <2>4 DEF CreateEvent, TypeOK
<1>3. ASSUME NEW s \in Servers, NEW a \in Actions, NEW r \in Requests, NEW k \in Keys,
             NEW raw \in RawIds, NEW v \in Versions, Begin(s, a, r, k, raw, v)
      PROVE  TypeOK'
  <2>1. Len(events[r]) \in Nat
    BY DEF TypeOK
  <2>2. call' \in [Servers -> Creations \cup Calls \cup Sweeps \cup {Idle}]
    BY <1>3, <2>1 DEF Begin, TypeOK, Calls
  <2> QED BY <1>3, <2>2 DEF Begin, TypeOK
<1>4. ASSUME NEW s \in Servers, Apply(s) PROVE TypeOK'
  <2>1. call[s] \in Calls
    BY <1>4, CallType DEF Apply
  <2>2. /\ row' \in [Requests -> Rows]
        /\ events' \in [Requests -> Seq(Events)]
        /\ idem' \in [Keys -> Reservations \cup {NoReservation}]
    BY <1>4, <2>1, TxType DEF Apply
  <2>3. row'[call[s].req].version \in Nat
    BY <2>1, <2>2 DEF Calls, Rows
  <2>4. call' \in [Servers -> Creations \cup Calls \cup Sweeps \cup {Idle}]
    BY <1>4, <2>1, <2>3 DEF Apply, TypeOK, Calls
  <2> QED BY <1>4, <2>2, <2>4 DEF Apply, TypeOK
<1>5. ASSUME NEW s \in Servers, Refuse(s) PROVE TypeOK'
  BY <1>5 DEF Refuse, TypeOK
<1>6. ASSUME NEW s \in Servers, Emit(s) PROVE TypeOK'
  <2>1. call[s] \in Creations \cup Calls
    BY <1>6, CallType DEF Emit
  <2>2. ASSUME NEW e \in LastListed(call[s].req)
        PROVE  [server |-> s, req |-> call[s].req, to |-> e.to,
                version |-> call[s].version] \in ChainEvents
    <3>1. e \in Events
      BY <2>1 DEF LastListed, TypeOK, Creations, Calls
    <3> QED BY <2>1, <3>1 DEF ChainEvents, Creations, Calls, Events
  <2> QED BY <1>6, <2>2 DEF Emit, TypeOK
<1>7. ASSUME NEW s \in Servers, Replayed(s) PROVE TypeOK'
  BY <1>7 DEF Replayed, TypeOK
<1>8. ASSUME NEW s \in Servers, SelectDue(s) PROVE TypeOK'
  BY <1>8 DEF SelectDue, TypeOK, Sweeps
<1>9. ASSUME NEW s \in Servers, ExpireDue(s) PROVE TypeOK'
  <2>1. call[s] \in Sweeps
    BY <1>9, CallType DEF ExpireDue
  <2>2. ASSUME NEW r \in Requests
        PROVE  [row[r] EXCEPT !.state = "expired", !.version = row[r].version + 1] \in Rows
    <3>1. row[r] \in Rows /\ row[r].version + 1 \in Nat
      BY DEF TypeOK, Rows
    <3> QED BY <3>1 DEF Rows, States
  <2>3. row' \in [Requests -> Rows]
    BY <1>9, <2>2 DEF ExpireDue, TypeOK
  <2>4. ASSUME NEW r \in Requests
        PROVE  Append(events[r], [to |-> "expired", actor |-> Nobody, at |-> call[s].at])
                 \in Seq(Events)
    <3>1. [to |-> "expired", actor |-> Nobody, at |-> call[s].at] \in Events
      BY <2>1 DEF Events, Sweeps, States
    <3> QED BY <3>1 DEF TypeOK
  <2>5. events' \in [Requests -> Seq(Events)]
    BY <1>9, <2>4 DEF ExpireDue, TypeOK
  <2> QED BY <1>9, <2>3, <2>5 DEF ExpireDue, TypeOK
<1>10. ASSUME NEW s \in Servers, Crash(s) PROVE TypeOK'
  BY <1>10 DEF Crash, TypeOK
<1>11. ASSUME NEW o \in outbox, WriteChainEvent(o) PROVE TypeOK'
  <2>1. o.req \in Requests /\ o.to \in States
    BY DEF TypeOK, ChainEvents
  <2>2. [chain EXCEPT ![o.req][o.to] = @ + 1] \in [Requests -> [States -> Nat]]
    BY <2>1 DEF TypeOK
  <2> QED BY <1>11, <2>2 DEF WriteChainEvent, TypeOK
<1>12. CASE Tick
  BY <1>12 DEF Tick, TypeOK
<1>13. CASE UNCHANGED vars
  BY <1>13 DEF vars, TypeOK
<1> QED
  BY <1>1, <1>2, <1>3, <1>4, <1>5, <1>6, <1>7, <1>8, <1>9, <1>10, <1>11, <1>12, <1>13
  DEF Next, Handler

\* Every column, event, reservation and running call has its type: an actor
\* is stored normalized, a state is one of the four the CHECK allows.
THEOREM TypeCorrect == Spec => []TypeOK
<1>1. Init => TypeOK
  BY DEF Init, TypeOK, NoRow, Rows, Idle
<1>2. QED BY <1>1, TypeStep, PTL DEF Spec

-----------------------------------------------------------------------------
(* The life of one request.  Whatever step the system takes, a given       *)
(* request sees one of four things.                                        *)

Untouched(r) == row'[r] = row[r] /\ events'[r] = events[r]

Opened(r) ==
  /\ row[r] = NoRow
  /\ row'[r].state = "pending" /\ row'[r].version = 0
  /\ events'[r] = events[r]

Logged(r) ==
  /\ row'[r] = row[r]
  /\ \E e \in Events : e.to = "pending" /\ events'[r] = Append(events[r], e)

DecidedBy(r, e) ==
  /\ e.to \in Final
  /\ row[r].state = "pending"
  /\ row'[r].state = e.to
  /\ row'[r].version = row[r].version + 1
  /\ row'[r].initiator = row[r].initiator
  /\ row'[r].expiresAt = row[r].expiresAt
  /\ events'[r] = Append(events[r], e)
  /\ e.to = "approved" =>
       /\ row'[r].approver = e.actor
       /\ e.actor \in Identities \ {row[r].initiator}
       /\ e.at <= row[r].expiresAt

RequestStep(r) ==
  Untouched(r) \/ Opened(r) \/ Logged(r) \/ \E e \in Events : DecidedBy(r, e)

LEMMA DecideStep ==
  ASSUME TypeOK, NEW c \in Calls, NEW to \in Final, Decide(c, to),
         row[c.req].state = "pending",
         to = "approved" => ~ Lapsed(c.req) /\ MayApprove(c)
  PROVE  /\ [to |-> to, actor |-> c.actor, at |-> now] \in Events
         /\ DecidedBy(c.req, [to |-> to, actor |-> c.actor, at |-> now])
         /\ \A r \in Requests \ {c.req} : Untouched(r)
<1> DEFINE q == c.req
           e == [to |-> to, actor |-> c.actor, at |-> now]
<1>1. q \in Requests /\ c.actor \in Identities
  BY DEF Calls
<1>2. row[q] \in Rows /\ now \in Nat
  BY <1>1 DEF TypeOK
<1>3. e \in Events
  BY <1>1, <1>2 DEF Events, Final
<1>4. events'[q] = Append(events[q], e)
  BY <1>1 DEF Decide, Record, TypeOK
<1>5. /\ row'[q].state = to
      /\ row'[q].approver = IF to = "approved" THEN c.actor ELSE row[q].approver
      /\ row'[q].version = row[q].version + 1
      /\ row'[q].initiator = row[q].initiator
      /\ row'[q].expiresAt = row[q].expiresAt
  BY <1>1, <1>2 DEF Decide, TypeOK, Rows
<1>6. to = "approved" => c.actor # row[q].initiator /\ now <= row[q].expiresAt
  BY <1>2 DEF MayApprove, Lapsed, Rows
<1>7. DecidedBy(q, e)
  BY <1>1, <1>4, <1>5, <1>6 DEF DecidedBy
<1>8. ASSUME NEW r \in Requests \ {q} PROVE Untouched(r)
  BY <1>8 DEF Decide, Record, Untouched, TypeOK
<1> QED BY <1>3, <1>7, <1>8

\* What a transaction may decide, by the call it serves.
Decides(c, to) ==
  /\ Decidable(c) /\ Decide(c, to)
  /\ to = "approved" => ~ Lapsed(c.req) /\ MayApprove(c)
  /\ to \in IF c.action = "cancel" THEN {"canceled"} ELSE {"approved", "expired"}

LEMMA TxDecides ==
  ASSUME NEW c \in Calls,
         \/ c.action = "approve" /\ ApproveTx(c)
         \/ c.action = "cancel" /\ CancelTx(c)
  PROVE  Replay(c) \/ \E to \in Final : Decides(c, to)
<1>1. "approved" \in Final /\ "expired" \in Final /\ "canceled" \in Final
  BY DEF Final, States
<1>2. CASE Decidable(c) /\ Lapsed(c.req) /\ Decide(c, "expired") /\ c.action = "approve"
  BY <1>1, <1>2 DEF Decides
<1>3. CASE /\ Decidable(c) /\ ~ Lapsed(c.req) /\ MayApprove(c) /\ Decide(c, "approved")
           /\ c.action = "approve"
  BY <1>1, <1>3 DEF Decides
<1>4. CASE Decidable(c) /\ Decide(c, "canceled") /\ c.action = "cancel"
  BY <1>1, <1>4 DEF Decides
<1> QED BY <1>2, <1>3, <1>4 DEF ApproveTx, CancelTx

LEMMA TxStep ==
  ASSUME TypeOK, NEW s \in Servers, Apply(s), NEW r \in Requests
  PROVE  Untouched(r) \/ \E e \in Events : DecidedBy(r, e)
<1>1. call[s] \in Calls
  BY CallType DEF Apply
<1>2. CASE Replay(call[s])
  BY <1>2 DEF Replay, Untouched
<1>3. ASSUME NEW to \in Final, Decides(call[s], to)
      PROVE  Untouched(r) \/ \E e \in Events : DecidedBy(r, e)
  BY <1>1, <1>3, DecideStep DEF Decides, Decidable
<1> QED BY <1>1, <1>2, <1>3, TxDecides DEF Apply

LEMMA CreateEventStep ==
  ASSUME TypeOK, NEW s \in Servers, CreateEvent(s), NEW r \in Requests
  PROVE  Untouched(r) \/ Logged(r)
<1>1. call[s] \in Creations
  BY CallType DEF CreateEvent
<1> DEFINE e == [to |-> "pending", actor |-> call[s].actor, at |-> now]
<1>2. e \in Events
  BY <1>1 DEF Events, States, Creations, TypeOK
<1>3. CASE r = call[s].req
  BY <1>1, <1>2, <1>3 DEF CreateEvent, Record, Logged, TypeOK, Creations
<1>4. CASE r # call[s].req
  BY <1>4 DEF CreateEvent, Record, Untouched, TypeOK
<1> QED BY <1>3, <1>4

LEMMA SweepStep ==
  ASSUME TypeOK, NEW s \in Servers, ExpireDue(s), NEW r \in Requests
  PROVE  Untouched(r) \/ \E e \in Events : DecidedBy(r, e) /\ e.to = "expired"
<1>1. call[s] \in Sweeps
  BY CallType DEF ExpireDue
<1> DEFINE e == [to |-> "expired", actor |-> Nobody, at |-> call[s].at]
           R == StillPending(call[s].due)
<1>2. e \in Events
  BY <1>1 DEF Events, States, Sweeps
<1>3. CASE r \in R
  <2>1. row[r].state = "pending" /\ row[r] \in Rows
    BY <1>3 DEF StillPending, TypeOK
  <2>2. events'[r] = Append(events[r], e)
    BY <1>3 DEF ExpireDue
  <2>3. /\ row'[r].state = "expired"
        /\ row'[r].version = row[r].version + 1
        /\ row'[r].initiator = row[r].initiator
        /\ row'[r].expiresAt = row[r].expiresAt
    BY <1>3, <2>1 DEF ExpireDue, Rows
  <2>4. DecidedBy(r, e)
    BY <2>1, <2>2, <2>3 DEF DecidedBy, Final, States
  <2> QED BY <1>2, <2>4
<1>4. CASE r \notin R
  BY <1>4 DEF ExpireDue, Untouched
<1> QED BY <1>3, <1>4

LEMMA StepOfRequest ==
  ASSUME TypeOK, [Next]_vars, NEW r \in Requests
  PROVE  RequestStep(r)
<1> USE DEF RequestStep
<1>1. ASSUME NEW s \in Servers, NEW q \in Requests, NEW raw \in RawIds,
             CreateRequest(s, q, raw)
      PROVE  RequestStep(r)
  BY <1>1 DEF CreateRequest, TypeOK, Untouched, Opened
<1>2. ASSUME NEW s \in Servers, CreateEvent(s) PROVE RequestStep(r)
  BY <1>2, CreateEventStep
<1>3. ASSUME NEW s \in Servers, Apply(s) PROVE RequestStep(r)
  BY <1>3, TxStep
<1>4. ASSUME NEW s \in Servers, ExpireDue(s) PROVE RequestStep(r)
  BY <1>4, SweepStep
<1>5. CASE UNCHANGED <<row, events>>
  BY <1>5 DEF Untouched
<1> QED
  BY <1>1, <1>2, <1>3, <1>4, <1>5
  DEF Next, Handler, vars, Begin, Refuse, Emit, Replayed, SelectDue, Crash,
      WriteChainEvent, Tick

-----------------------------------------------------------------------------
(* The four-eyes rule.                                                     *)

LEMMA AppendKeeps ==
  ASSUME NEW S, NEW q \in Seq(S), NEW e \in S
  PROVE  /\ DOMAIN Append(q, e) = DOMAIN q \cup {Len(q) + 1}
         /\ Len(q) + 1 \notin DOMAIN q
         /\ \A i \in DOMAIN q : Append(q, e)[i] = q[i]
         /\ Append(q, e)[Len(q) + 1] = e
OBVIOUS

LEMMA FourEyesStep == TypeOK /\ FourEyes /\ [Next]_vars => FourEyes'
<1> SUFFICES ASSUME TypeOK, FourEyes, [Next]_vars, NEW r \in Requests,
                    row'[r].state = "approved"
             PROVE  /\ row'[r].approver \in Identities \ {row'[r].initiator}
                    /\ \E i \in DOMAIN events'[r] :
                         /\ events'[r][i].to = "approved"
                         /\ events'[r][i].actor = row'[r].approver
                         /\ events'[r][i].at <= row'[r].expiresAt
  BY DEF FourEyes
<1>1. events[r] \in Seq(Events)
  BY DEF TypeOK
<1>2. CASE Untouched(r)
  BY <1>2 DEF Untouched, FourEyes
<1>3. CASE Opened(r)
  BY <1>3 DEF Opened
<1>4. CASE Logged(r)
  BY <1>1, <1>4, AppendKeeps DEF Logged, FourEyes
<1>5. ASSUME NEW e \in Events, DecidedBy(r, e)
      PROVE  /\ row'[r].approver \in Identities \ {row'[r].initiator}
             /\ \E i \in DOMAIN events'[r] :
                  /\ events'[r][i].to = "approved"
                  /\ events'[r][i].actor = row'[r].approver
                  /\ events'[r][i].at <= row'[r].expiresAt
  <2>1. e.to = "approved"
    BY <1>5 DEF DecidedBy
  <2>2. /\ Len(events[r]) + 1 \in DOMAIN events'[r]
        /\ events'[r][Len(events[r]) + 1] = e
    BY <1>1, <1>5, AppendKeeps DEF DecidedBy
  <2> QED BY <1>5, <2>1, <2>2 DEF DecidedBy
<1> QED BY <1>2, <1>3, <1>4, <1>5, StepOfRequest DEF RequestStep

\* A freeze or unfreeze is approved only by an identity other than the one
\* that opened the request, in time, and the audit trail shows who it was.
THEOREM FourEyesHolds == Spec => []FourEyes
<1>1. Init => FourEyes
  BY DEF Init, FourEyes, NoRow
<1>2. QED BY <1>1, FourEyesStep, TypeCorrect, PTL DEF Spec

-----------------------------------------------------------------------------
(* Table and audit trail.                                                  *)

LEMMA AuditStep == TypeOK /\ AuditMatchesRow /\ [Next]_vars => AuditMatchesRow'
<1> SUFFICES ASSUME TypeOK, AuditMatchesRow, [Next]_vars, NEW r \in Requests
             PROVE  /\ Cardinality(Decisions(r)') = row'[r].version
                    /\ row'[r].version = IF row'[r].state \in Final THEN 1 ELSE 0
                    /\ \A i \in Decisions(r)' : events'[r][i].to = row'[r].state
  BY DEF AuditMatchesRow
<1> DEFINE Goal == /\ Cardinality(Decisions(r)') = row'[r].version
                   /\ row'[r].version = IF row'[r].state \in Final THEN 1 ELSE 0
                   /\ \A i \in Decisions(r)' : events'[r][i].to = row'[r].state
<1>1. /\ events[r] \in Seq(Events)
      /\ row[r].version \in Nat
      /\ Cardinality(Decisions(r)) = row[r].version
      /\ row[r].version = IF row[r].state \in Final THEN 1 ELSE 0
      /\ \A i \in Decisions(r) : events[r][i].to = row[r].state
  BY DEF TypeOK, Rows, AuditMatchesRow
<1>2. Decisions(r) \subseteq 1..Len(events[r]) /\ IsFiniteSet(Decisions(r))
  <2>1. Decisions(r) \subseteq 1..Len(events[r])
    BY <1>1 DEF Decisions
  <2>2. IsFiniteSet(1..Len(events[r]))
    <3>1. 1 \in Int /\ Len(events[r]) \in Int
      BY <1>1
    <3> QED BY <3>1, FS_Interval
  <2> QED BY <2>1, <2>2, FS_Subset
<1>3. CASE Untouched(r)
  BY <1>1, <1>3 DEF Untouched, Decisions
<1>4. CASE Opened(r)
  <2>1. row[r].version = 0 /\ Decisions(r)' = Decisions(r)
    BY <1>4 DEF Opened, NoRow, Decisions
  <2>2. Decisions(r) = {}
    BY <1>1, <1>2, <2>1, FS_EmptySet
  <2> QED BY <1>1, <1>4, <2>1, <2>2 DEF Opened, Final
<1>5. CASE Logged(r)
  <2>1. PICK e \in Events : e.to = "pending" /\ events'[r] = Append(events[r], e)
    BY <1>5 DEF Logged
  <2>2. Decisions(r)' = Decisions(r)
    BY <1>1, <2>1, AppendKeeps DEF Decisions
  <2>3. \A i \in Decisions(r) : events'[r][i] = events[r][i]
    BY <1>1, <2>1, AppendKeeps DEF Decisions
  <2> QED BY <1>1, <1>5, <2>2, <2>3 DEF Logged
<1>6. ASSUME NEW e \in Events, DecidedBy(r, e) PROVE Goal
  <2>1. row[r].version = 0 /\ Decisions(r) = {}
    <3>1. row[r].version = 0
      BY <1>1, <1>6 DEF DecidedBy, Final
    <3> QED BY <1>1, <1>2, <3>1, FS_EmptySet
  <2>2. events'[r] = Append(events[r], e) /\ e.to # "pending"
    BY <1>6 DEF DecidedBy, Final
  <2>3. Decisions(r)' = {Len(events[r]) + 1}
    BY <1>1, <2>1, <2>2, AppendKeeps DEF Decisions
  <2>4. Cardinality(Decisions(r)') = 1
    BY <2>3, FS_Singleton
  <2>5. events'[r][Len(events[r]) + 1].to = e.to
    BY <1>1, <2>2, AppendKeeps
  <2> QED BY <1>6, <2>1, <2>3, <2>4, <2>5 DEF DecidedBy
<1> QED BY <1>3, <1>4, <1>5, <1>6, StepOfRequest DEF RequestStep

\* The state and state_version of a row are always those its audit events
\* account for, and no request is ever decided twice.
THEOREM AuditHolds == Spec => []AuditMatchesRow
<1>1. Init => AuditMatchesRow
  <2> SUFFICES ASSUME Init, NEW r \in Requests
               PROVE  /\ Cardinality(Decisions(r)) = row[r].version
                      /\ row[r].version = IF row[r].state \in Final THEN 1 ELSE 0
                      /\ \A i \in Decisions(r) : events[r][i].to = row[r].state
    BY DEF AuditMatchesRow
  <2>1. row[r].version = 0 /\ row[r].state = "absent" /\ Decisions(r) = {}
    BY DEF Init, NoRow, Decisions
  <2> QED BY <2>1, FS_EmptySet DEF Final, States
<1>2. QED BY <1>1, AuditStep, TypeCorrect, PTL DEF Spec

-----------------------------------------------------------------------------
(* What the reserved keys paid for.                                        *)

\* A step leaves the keys of a request alone and then decides it, if at all, by the
\* sweep; or it reserves one free key for the decision it makes.
KeysUntouched(r) ==
  \A k \in Keys : /\ idem'[k].req = r <=> idem[k].req = r
                  /\ idem[k].req = r => idem'[k] = idem[k]
Swept(r) == \E e \in Events : DecidedBy(r, e) /\ e.to = "expired"
PaidBy(r, k, e) ==
  /\ DecidedBy(r, e)
  /\ idem[k] = NoReservation
  /\ \E action \in Actions :
       /\ idem' = [idem EXCEPT ![k] = [req |-> r, action |-> action, actor |-> e.actor]]
       /\ e.to \in IF action = "cancel" THEN {"canceled"} ELSE {"approved", "expired"}
KeyStep(r) ==
  \/ KeysUntouched(r) /\ (Untouched(r) \/ Opened(r) \/ Logged(r) \/ Swept(r))
  \/ \E k \in Keys, e \in Events : PaidBy(r, k, e)

LEMMA ApplyPays ==
  ASSUME TypeOK, NEW s \in Servers, Apply(s), NEW r \in Requests
  PROVE  KeyStep(r)
<1> DEFINE c == call[s]
<1>1. c \in Calls
  BY CallType DEF Apply
<1>2. c.req \in Requests /\ c.key \in Keys /\ c.action \in Actions /\ c.actor \in Identities
  BY <1>1 DEF Calls
<1>3. CASE Replay(c)
  BY <1>3 DEF Replay, Untouched, KeysUntouched, KeyStep
<1>4. ASSUME NEW to \in Final, Decides(c, to) PROVE KeyStep(r)
  <2> DEFINE e == [to |-> to, actor |-> c.actor, at |-> now]
  <2>1. /\ e \in Events /\ DecidedBy(c.req, e)
        /\ \A q \in Requests \ {c.req} : Untouched(q)
    BY <1>1, <1>4, DecideStep DEF Decides, Decidable
  <2>2. /\ idem[c.key] = NoReservation
        /\ idem' = [idem EXCEPT ![c.key] = [req |-> c.req, action |-> c.action,
                                            actor |-> c.actor]]
    BY <1>4 DEF Decides, Decidable, KeyFree, Decide, Reserve
  <2>3. CASE r = c.req
    <3>1. PaidBy(r, c.key, e)
      BY <1>2, <1>4, <2>1, <2>2, <2>3 DEF PaidBy, Decides
    <3> QED BY <1>2, <2>1, <3>1 DEF KeyStep
  <2>4. CASE r # c.req
    <3>1. KeysUntouched(r)
      BY <1>2, <2>2, <2>4 DEF KeysUntouched, NoReservation, TypeOK
    <3> QED BY <2>1, <2>4, <3>1 DEF KeyStep
  <2> QED BY <2>3, <2>4
<1> QED BY <1>1, <1>3, <1>4, TxDecides DEF Apply

LEMMA StepOfKeys ==
  ASSUME TypeOK, [Next]_vars, NEW r \in Requests
  PROVE  KeyStep(r)
<1>1. ASSUME NEW s \in Servers, Apply(s) PROVE KeyStep(r)
  BY <1>1, ApplyPays
<1>2. ASSUME NEW s \in Servers, ExpireDue(s) PROVE KeyStep(r)
  <2>1. KeysUntouched(r)
    BY <1>2 DEF ExpireDue, KeysUntouched
  <2>2. Untouched(r) \/ Swept(r)
    BY <1>2, SweepStep DEF Swept
  <2> QED BY <2>1, <2>2 DEF KeyStep
<1>3. CASE UNCHANGED idem /\ (Untouched(r) \/ Opened(r) \/ Logged(r))
  BY <1>3 DEF KeysUntouched, KeyStep
<1>4. ASSUME NEW s \in Servers, NEW q \in Requests, NEW raw \in RawIds,
             CreateRequest(s, q, raw)
      PROVE  KeyStep(r)
  <2>1. Untouched(r) \/ Opened(r)
    BY <1>4 DEF CreateRequest, TypeOK, Untouched, Opened
  <2>2. UNCHANGED idem
    BY <1>4 DEF CreateRequest
  <2> QED BY <1>3, <2>1, <2>2
<1>5. ASSUME NEW s \in Servers, CreateEvent(s) PROVE KeyStep(r)
  <2>1. Untouched(r) \/ Logged(r)
    BY <1>5, CreateEventStep
  <2>2. UNCHANGED idem
    BY <1>5 DEF CreateEvent
  <2> QED BY <1>3, <2>1, <2>2
<1>6. CASE UNCHANGED <<row, events, idem>>
  BY <1>3, <1>6 DEF Untouched
<1> QED
  BY <1>1, <1>2, <1>4, <1>5, <1>6
  DEF Next, Handler, vars, Begin, Refuse, Emit, Replayed, SelectDue, Crash,
      WriteChainEvent, Tick

\* The invariant: no key for an open request, at most one for a decided one.
PaidFor(r, k) ==
  \E i \in Decisions(r) :
    /\ events[r][i].actor = idem[k].actor
    /\ events[r][i].to \in (IF idem[k].action = "cancel" THEN {"canceled"}
                                                       ELSE {"approved", "expired"})
KeyInv ==
  \A r \in Requests :
    /\ row[r].state \notin Final => KeysOf(r) = {}
    /\ \E k \in Keys \cup {Nobody} : KeysOf(r) \subseteq {k}
    /\ \A k \in KeysOf(r) : PaidFor(r, k)
    /\ KeysOf(r) = {} => row[r].state \in {"absent", "pending", "expired"}

LEMMA KeyInvStep == TypeOK /\ KeyInv /\ [Next]_vars => KeyInv'
<1> SUFFICES ASSUME TypeOK, KeyInv, [Next]_vars, NEW r \in Requests
             PROVE  /\ row'[r].state \notin Final => KeysOf(r)' = {}
                    /\ \E k \in Keys \cup {Nobody} : KeysOf(r)' \subseteq {k}
                    /\ \A k \in KeysOf(r)' : PaidFor(r, k)'
                    /\ KeysOf(r)' = {} => row'[r].state \in {"absent", "pending", "expired"}
  BY DEF KeyInv
<1> DEFINE Goal == /\ row'[r].state \notin Final => KeysOf(r)' = {}
                   /\ \E k \in Keys \cup {Nobody} : KeysOf(r)' \subseteq {k}
                   /\ \A k \in KeysOf(r)' : PaidFor(r, k)'
                   /\ KeysOf(r)' = {} => row'[r].state \in {"absent", "pending", "expired"}
<1>1. events[r] \in Seq(Events) /\ idem \in [Keys -> Reservations \cup {NoReservation}]
  BY DEF TypeOK
<1>2. /\ row[r].state \notin Final => KeysOf(r) = {}
      /\ \E k \in Keys \cup {Nobody} : KeysOf(r) \subseteq {k}
      /\ \A k \in KeysOf(r) : PaidFor(r, k)
      /\ KeysOf(r) = {} => row[r].state \in {"absent", "pending", "expired"}
  BY DEF KeyInv
<1>3. ASSUME KeysUntouched(r), Untouched(r) \/ Opened(r) \/ Logged(r) \/ Swept(r)
      PROVE  Goal
  <2>1. KeysOf(r)' = KeysOf(r)
    BY <1>3 DEF KeysUntouched, KeysOf
  <2>2. ASSUME NEW i \in Decisions(r)
        PROVE  i \in Decisions(r)' /\ events'[r][i] = events[r][i]
    <3>1. CASE events'[r] = events[r]
      BY <3>1 DEF Decisions
    <3>2. ASSUME NEW e \in Events, events'[r] = Append(events[r], e)
          PROVE  i \in Decisions(r)' /\ events'[r][i] = events[r][i]
      BY <1>1, <3>2, AppendKeeps DEF Decisions
    <3> QED BY <1>3, <3>1, <3>2 DEF Untouched, Opened, Logged, Swept, DecidedBy
  <2>3. ASSUME NEW k \in KeysOf(r)' PROVE PaidFor(r, k)'
    <3>1. k \in KeysOf(r) /\ idem'[k] = idem[k]
      BY <1>3, <2>1 DEF KeysUntouched, KeysOf
    <3>2. PICK i \in Decisions(r) :
            /\ events[r][i].actor = idem[k].actor
            /\ events[r][i].to \in (IF idem[k].action = "cancel" THEN {"canceled"}
                                                               ELSE {"approved", "expired"})
      BY <1>2, <3>1 DEF PaidFor
    <3> QED BY <2>2, <3>1, <3>2 DEF PaidFor
  <2>4. row'[r].state \notin Final => KeysOf(r)' = {}
    BY <1>2, <1>3, <2>1 DEF Untouched, Opened, Logged, Swept, DecidedBy, NoRow, Final, States
  <2>5. KeysOf(r)' = {} => row'[r].state \in {"absent", "pending", "expired"}
    BY <1>2, <1>3, <2>1 DEF Untouched, Opened, Logged, Swept, DecidedBy
  <2> QED BY <1>2, <2>1, <2>3, <2>4, <2>5
<1>4. ASSUME NEW k \in Keys, NEW e \in Events, PaidBy(r, k, e) PROVE Goal
  <2>1. PICK action \in Actions :
          /\ idem' = [idem EXCEPT ![k] = [req |-> r, action |-> action, actor |-> e.actor]]
          /\ e.to \in IF action = "cancel" THEN {"canceled"} ELSE {"approved", "expired"}
    BY <1>4 DEF PaidBy
  <2>2. KeysOf(r) = {} /\ row'[r].state \in Final
    BY <1>2, <1>4 DEF PaidBy, DecidedBy, Final
  <2>3. KeysOf(r)' = {k}
    BY <1>1, <2>1, <2>2 DEF KeysOf
  <2>4. Len(events[r]) + 1 \in Decisions(r)' /\ events'[r][Len(events[r]) + 1] = e
    BY <1>1, <1>4, AppendKeeps DEF PaidBy, DecidedBy, Decisions, Final
  <2>5. idem'[k] = [req |-> r, action |-> action, actor |-> e.actor]
    BY <1>1, <2>1
  <2>6. PaidFor(r, k)'
    BY <2>1, <2>4, <2>5 DEF PaidFor
  <2> QED BY <2>2, <2>3, <2>6
<1> QED BY <1>3, <1>4, StepOfKeys DEF KeyStep

\* An approval_request_id is charged for one decision at most, the one its audit event
\* shows, and no decision but an expiry goes without one.
THEOREM KeysHold == Spec => []KeysAccountForDecisions
<1>1. Init => KeyInv
  BY DEF Init, KeyInv, KeysOf, NoReservation, NoRow, Final, States
<1>2. TypeOK /\ AuditMatchesRow /\ KeyInv => KeysAccountForDecisions
  <2> SUFFICES ASSUME TypeOK, AuditMatchesRow, KeyInv, NEW r \in Requests
               PROVE  Cardinality(KeysOf(r)) <= row[r].version
    BY DEF KeyInv, PaidFor, KeysAccountForDecisions
  <2>1. PICK k \in Keys \cup {Nobody} : KeysOf(r) \subseteq {k}
    BY DEF KeyInv
  <2>2. KeysOf(r) = {} \/ KeysOf(r) = {k}
    BY <2>1
  <2>3. row[r].version = IF row[r].state \in Final THEN 1 ELSE 0
    BY DEF AuditMatchesRow
  <2>4. KeysOf(r) # {} => row[r].state \in Final
    BY DEF KeyInv
  <2> QED BY <2>2, <2>3, <2>4, FS_EmptySet, FS_Singleton
<1>3. QED BY <1>1, <1>2, KeyInvStep, TypeCorrect, AuditHolds, PTL DEF Spec

-----------------------------------------------------------------------------
(* The hash chain follows the database, with one server process.           *)

OneServer == \A s, z \in Servers : s = z

\* A recorded decision stays recorded.
LEMMA DecisionsKept ==
  ASSUME TypeOK, [Next]_vars, NEW r \in Requests, NEW i \in Decisions(r)
  PROVE  i \in Decisions(r)' /\ events'[r][i] = events[r][i]
<1>1. CASE events'[r] = events[r]
  BY <1>1 DEF Decisions
<1>2. ASSUME NEW e \in Events, events'[r] = Append(events[r], e)
      PROVE  i \in Decisions(r)' /\ events'[r][i] = events[r][i]
  <2>1. events[r] \in Seq(Events)
    BY DEF TypeOK
  <2> QED BY <1>2, <2>1, AppendKeeps DEF Decisions
<1> QED
  BY <1>1, <1>2, StepOfRequest DEF RequestStep, Untouched, Opened, Logged, DecidedBy

\* A transition is on its way to the chain or written there, at most once.  A handler
\* that has one to report is the first to report it.
Awaiting(r, t) == {o \in outbox : o.req = r /\ o.to = t}
Reported(r, t) == chain[r][t] # 0 \/ Awaiting(r, t) # {}
ReportedOnce(r, t) ==
  /\ Reported(r, t) => \E i \in Decisions(r) : events[r][i].to = t
  /\ \/ chain[r][t] = 0 /\ Awaiting(r, t) = {}
     \/ chain[r][t] = 0 /\ \E o \in ChainEvents : Awaiting(r, t) = {o}
     \/ chain[r][t] = 1 /\ Awaiting(r, t) = {}
Accurate(s) ==
  /\ call[s].stage = "inserted" => row[call[s].req].state = "pending"
  /\ call[s].stage = "counted" => call[s].before = Len(events[call[s].req])
  /\ call[s].stage = "applied" /\ Transitioned(call[s]) =>
       \A t \in Final : ~ Reported(call[s].req, t)
ChainInv ==
  /\ \A r \in Requests, t \in Final : ReportedOnce(r, t)
  /\ \A s \in Servers : Accurate(s)

\* What is still to be decided is not reported.
LEMMA PendingUnreported ==
  ASSUME AuditMatchesRow, ChainInv, NEW r \in Requests, row[r].state = "pending",
         NEW t \in Final
  PROVE  ~ Reported(r, t)
<1>1. \A i \in Decisions(r) : events[r][i].to = "pending" /\ events[r][i].to # "pending"
  BY DEF AuditMatchesRow, Decisions
<1>2. Reported(r, t) => \E i \in Decisions(r) : events[r][i].to = t
  BY DEF ChainInv, ReportedOnce
<1> QED BY <1>1, <1>2

LEMMA ReportsKept ==
  ASSUME TypeOK, ChainInv, [Next]_vars, UNCHANGED <<outbox, chain>>
  PROVE  \A r \in Requests, t \in Final : ReportedOnce(r, t)'
<1> SUFFICES ASSUME NEW r \in Requests, NEW t \in Final PROVE ReportedOnce(r, t)'
  OBVIOUS
<1>1. ReportedOnce(r, t)
  BY DEF ChainInv
<1>2. Awaiting(r, t)' = Awaiting(r, t) /\ Reported(r, t)' = Reported(r, t)
  BY DEF Awaiting, Reported
<1>3. ASSUME NEW i \in Decisions(r), events[r][i].to = t
      PROVE  i \in Decisions(r)' /\ events'[r][i].to = t
  BY <1>3, DecisionsKept
<1> QED BY <1>1, <1>2, <1>3 DEF ReportedOnce

\* A transaction that decided something is about to report it first.
LEMMA ApplyAccurate ==
  ASSUME TypeOK, AuditMatchesRow, ChainInv, NEW s \in Servers, Apply(s)
  PROVE  Accurate(s)'
<1> DEFINE c == call[s]
<1>1. c \in Calls
  BY CallType DEF Apply
<1>2. /\ call'[s].stage = "applied" /\ call'[s].req = c.req /\ call'[s].before = c.before
      /\ UNCHANGED <<outbox, chain>> /\ c.req \in Requests
  BY <1>1 DEF Apply, TypeOK, Calls
<1>3. CASE Replay(c)
  <2>1. Len(events'[c.req]) = c.before
    BY <1>3 DEF Replay, Apply, ChainInv, Accurate
  <2>2. ~ Transitioned(call[s])'
    BY <1>2, <2>1 DEF Transitioned
  <2> QED BY <1>2, <2>2 DEF Accurate
<1>4. ASSUME NEW to \in Final, Decides(c, to) PROVE Accurate(s)'
  <2>1. \A t \in Final : ~ Reported(c.req, t)
    BY <1>2, <1>4, PendingUnreported DEF Decides, Decidable
  <2>2. \A t \in Final : Reported(call[s].req, t)' = Reported(c.req, t)
    BY <1>2 DEF Reported, Awaiting
  <2> QED BY <1>2, <2>1, <2>2 DEF Accurate
<1> QED BY <1>1, <1>3, <1>4, TxDecides DEF Apply

\* What a handler hands to the chain is an event of its request.
LEMMA EmitsAnEvent ==
  ASSUME TypeOK, NEW s \in Servers, Emit(s)
  PROVE  \E e \in Events, o \in ChainEvents :
           /\ o.req = call[s].req /\ o.to = e.to
           /\ \E i \in DOMAIN events[o.req] : events[o.req][i] = e
           /\ outbox' = outbox \cup {o}
<1>1. call[s] \in Creations \cup Calls
  BY CallType DEF Emit
<1>2. call[s].req \in Requests /\ call[s].version \in Nat
  BY <1>1 DEF Creations, Calls
<1>3. PICK e \in LastListed(call[s].req) :
        outbox' = outbox \cup {[server |-> s, req |-> call[s].req, to |-> e.to,
                                version |-> call[s].version]}
  BY DEF Emit
<1>4. PICK i \in DOMAIN events[call[s].req] : events[call[s].req][i] = e
  BY DEF LastListed
<1>5. e \in Events
  BY <1>2, <1>4 DEF TypeOK
<1> DEFINE o == [server |-> s, req |-> call[s].req, to |-> e.to, version |-> call[s].version]
<1>6. o \in ChainEvents
  BY <1>2, <1>5 DEF ChainEvents, Events
<1> QED BY <1>3, <1>4, <1>5, <1>6

LEMMA EmitReports ==
  ASSUME TypeOK, ChainInv, NEW s \in Servers, Emit(s), NEW r \in Requests, NEW t \in Final
  PROVE  ReportedOnce(r, t)'
<1>1. PICK e \in Events, o \in ChainEvents :
        /\ o.req = call[s].req /\ o.to = e.to
        /\ \E i \in DOMAIN events[o.req] : events[o.req][i] = e
        /\ outbox' = outbox \cup {o}
  BY EmitsAnEvent
<1>2. ReportedOnce(r, t) /\ UNCHANGED <<events, chain>>
  BY DEF ChainInv, Emit
<1>3. Decisions(r)' = Decisions(r)
  BY <1>2 DEF Decisions
<1>4. CASE o.req = r /\ o.to = t
  <2>1. ~ Reported(r, t)
    BY <1>1, <1>4 DEF Emit, ChainInv, Accurate
  <2>2. Awaiting(r, t)' = {o}
    BY <1>1, <1>4, <2>1 DEF Awaiting, Reported
  <2>3. \E i \in Decisions(r) : events[r][i].to = t
    BY <1>1, <1>4 DEF Decisions, Final
  <2> QED BY <1>1, <1>2, <1>3, <2>1, <2>2, <2>3 DEF ReportedOnce, Reported
<1>5. CASE ~ (o.req = r /\ o.to = t)
  <2>1. Awaiting(r, t)' = Awaiting(r, t)
    BY <1>1, <1>5 DEF Awaiting
  <2> QED BY <1>1, <1>2, <1>3, <2>1 DEF ReportedOnce, Reported
<1> QED BY <1>4, <1>5

LEMMA WriteReports ==
  ASSUME TypeOK, ChainInv, NEW o \in outbox, WriteChainEvent(o),
         NEW r \in Requests, NEW t \in Final
  PROVE  /\ ReportedOnce(r, t)'
         /\ ~ Reported(r, t) => ~ Reported(r, t)'
<1>1. /\ ReportedOnce(r, t) /\ UNCHANGED events /\ outbox' = outbox \ {o}
      /\ o.req \in Requests /\ o.to \in States /\ t \in States
  BY DEF ChainInv, WriteChainEvent, TypeOK, ChainEvents, Final
<1>2. Decisions(r)' = Decisions(r) /\ chain[r][t] \in Nat
  BY <1>1 DEF Decisions, TypeOK
<1>3. CASE o.req = r /\ o.to = t
  <2>1. o \in Awaiting(r, t)
    BY <1>3 DEF Awaiting
  <2>2. chain[r][t] = 0 /\ Awaiting(r, t) = {o} /\ Reported(r, t)
    BY <1>1, <2>1 DEF ReportedOnce, Reported
  <2>3. Awaiting(r, t)' = {}
    BY <1>1, <2>2 DEF Awaiting
  <2>4. chain'[r][t] \in {0, 1}
    BY <1>1, <1>2, <1>3, <2>2 DEF WriteChainEvent, TypeOK
  <2> QED BY <1>1, <1>2, <2>2, <2>3, <2>4 DEF ReportedOnce
<1>4. CASE ~ (o.req = r /\ o.to = t)
  <2>1. Awaiting(r, t)' = Awaiting(r, t)
    BY <1>1, <1>4 DEF Awaiting
  <2>2. chain'[r][t] = chain[r][t]
    BY <1>1, <1>4 DEF WriteChainEvent, TypeOK
  <2>3. Reported(r, t)' = Reported(r, t)
    BY <2>1, <2>2 DEF Reported
  <2> QED BY <1>1, <1>2, <2>1, <2>2, <2>3 DEF ReportedOnce
<1> QED BY <1>3, <1>4

LEMMA ChainInvStep ==
  ASSUME OneServer, TypeOK, AuditMatchesRow, ChainInv, [Next]_vars
  PROVE  ChainInv'
<1>1. ASSUME NEW s \in Servers, Accurate(s)', UNCHANGED <<outbox, chain>> PROVE ChainInv'
  BY <1>1, ReportsKept DEF OneServer, ChainInv
<1>2. ASSUME NEW s \in Servers, call'[s] = Idle,
             \A r \in Requests, t \in Final : ReportedOnce(r, t)'
      PROVE  ChainInv'
  <2>1. Accurate(s)'
    BY <1>2 DEF Accurate, Idle
  <2> QED BY <1>2, <2>1 DEF OneServer, ChainInv
<1>3. ASSUME NEW s \in Servers, call'[s] = Idle, UNCHANGED <<outbox, chain>> PROVE ChainInv'
  BY <1>2, <1>3, ReportsKept
<1>4. ASSUME NEW s \in Servers, NEW r \in Requests, NEW raw \in RawIds,
             CreateRequest(s, r, raw)
      PROVE  ChainInv'
  <2>1. /\ call'[s].stage = "inserted" /\ call'[s].req = r
        /\ row'[r].state = "pending" /\ UNCHANGED <<outbox, chain>>
    BY <1>4 DEF CreateRequest, TypeOK
  <2>2. Accurate(s)'
    BY <2>1 DEF Accurate
  <2> QED BY <1>1, <2>1, <2>2
<1>5. ASSUME NEW s \in Servers, CreateEvent(s) PROVE ChainInv'
  <2>1. call[s] \in Creations /\ call[s].req \in Requests
    BY <1>5, CallType DEF CreateEvent, Creations
  <2>2. /\ call'[s].stage = "applied" /\ call'[s].req = call[s].req
        /\ UNCHANGED <<outbox, chain>>
    BY <1>5, <2>1 DEF CreateEvent, TypeOK, Creations
  <2>3. \A t \in Final : ~ Reported(call[s].req, t)
    BY <1>5, <2>1, PendingUnreported DEF CreateEvent, ChainInv, Accurate
  <2>4. \A t \in Final : Reported(call[s].req, t)' = Reported(call[s].req, t)
    BY <2>2 DEF Reported, Awaiting
  <2>5. Accurate(s)'
    BY <2>2, <2>3, <2>4 DEF Accurate
  <2> QED BY <1>1, <2>2, <2>5
<1>6. ASSUME NEW s \in Servers, NEW a \in Actions, NEW r \in Requests, NEW k \in Keys,
             NEW raw \in RawIds, NEW v \in Versions, Begin(s, a, r, k, raw, v)
      PROVE  ChainInv'
  <2>1. /\ call'[s].stage = "counted" /\ call'[s].req = r
        /\ call'[s].before = Len(events'[r]) /\ UNCHANGED <<outbox, chain>>
    BY <1>6 DEF Begin, TypeOK
  <2>2. Accurate(s)'
    BY <2>1 DEF Accurate
  <2> QED BY <1>1, <2>1, <2>2
<1>7. ASSUME NEW s \in Servers, Apply(s) PROVE ChainInv'
  BY <1>1, <1>7, ApplyAccurate DEF Apply
<1>8. ASSUME NEW s \in Servers, Emit(s) PROVE ChainInv'
  BY <1>2, <1>8, EmitReports DEF Emit, TypeOK
<1>9. ASSUME NEW s \in Servers, Refuse(s) \/ Replayed(s) \/ ExpireDue(s) PROVE ChainInv'
  BY <1>3, <1>9 DEF Refuse, Replayed, ExpireDue, TypeOK
<1>10. ASSUME NEW s \in Servers, SelectDue(s) PROVE ChainInv'
  <2>1. call'[s].stage = "selected" /\ UNCHANGED <<outbox, chain>>
    BY <1>10 DEF SelectDue, TypeOK
  <2>2. Accurate(s)'
    BY <2>1 DEF Accurate
  <2> QED BY <1>1, <2>1, <2>2
<1>11. ASSUME NEW s \in Servers, Crash(s) PROVE ChainInv'
  <2>1. outbox' = {} /\ call'[s] = Idle /\ UNCHANGED <<events, chain>>
    BY <1>11 DEF Crash, OneServer, TypeOK, ChainEvents
  <2>2. ASSUME NEW r \in Requests, NEW t \in Final PROVE ReportedOnce(r, t)'
    <3>1. ReportedOnce(r, t) /\ Decisions(r)' = Decisions(r) /\ Awaiting(r, t)' = {}
      BY <2>1 DEF ChainInv, Decisions, Awaiting
    <3> QED BY <2>1, <3>1 DEF ReportedOnce, Reported
  <2> QED BY <1>2, <2>1, <2>2
<1>12. ASSUME NEW o \in outbox, WriteChainEvent(o) PROVE ChainInv'
  <2>1. ASSUME NEW s \in Servers PROVE Accurate(s)'
    <3>1. Accurate(s) /\ UNCHANGED <<row, events, call>>
      BY <1>12 DEF ChainInv, WriteChainEvent
    <3>2. CASE call[s].stage = "applied"
      <4>1. call[s].req \in Requests
        BY <3>2, CallType DEF Creations, Calls
      <4> QED BY <1>12, <3>1, <3>2, <4>1, WriteReports DEF Accurate, Transitioned
    <3>3. CASE call[s].stage # "applied"
      BY <3>1, <3>3 DEF Accurate
    <3> QED BY <3>2, <3>3
  <2> QED BY <1>12, <2>1, WriteReports DEF ChainInv
<1>13. CASE UNCHANGED <<row, events, call, outbox, chain>>
  <2>1. ASSUME NEW s \in Servers PROVE Accurate(s)'
    <3>1. Accurate(s) /\ \A t \in Final : Reported(call[s].req, t)' = Reported(call[s].req, t)
      BY <1>13 DEF ChainInv, Reported, Awaiting
    <3> QED BY <1>13, <3>1 DEF Accurate, Transitioned
  <2> QED BY <1>13, <2>1, ReportsKept DEF ChainInv
<1> QED
  BY <1>4, <1>5, <1>6, <1>7, <1>8, <1>9, <1>10, <1>11, <1>12, <1>13
  DEF Next, Handler, vars, Tick

\* With one server process the hash chain has no decision that the database lacks and
\* none twice, although a crash may lose an append that was still outstanding.
THEOREM ChainFollows ==
  ASSUME OneServer PROVE Spec => []ChainFollowsDatabase
<1>1. Init => ChainInv
  BY DEF Init, ChainInv, ReportedOnce, Reported, Awaiting, Accurate, Idle, Final, States
<1>2. TypeOK /\ ChainInv => ChainFollowsDatabase
  <2> SUFFICES ASSUME TypeOK, ChainInv, NEW r \in Requests, NEW t \in Final
               PROVE  chain[r][t] + Cardinality(Awaiting(r, t))
                        <= Cardinality({i \in Decisions(r) : events[r][i].to = t})
    BY DEF ChainFollowsDatabase, Awaiting
  <2> DEFINE D == {i \in Decisions(r) : events[r][i].to = t}
  <2>1. ReportedOnce(r, t)
    BY DEF ChainInv
  <2>2. IsFiniteSet(D)
    <3>1. events[r] \in Seq(Events)
      BY DEF TypeOK
    <3>2. D \subseteq 1..Len(events[r])
      BY <3>1 DEF Decisions
    <3>3. IsFiniteSet(1..Len(events[r]))
      <4>1. 1 \in Int /\ Len(events[r]) \in Int
        BY <3>1
      <4> QED BY <4>1, FS_Interval
    <3> HIDE DEF D
    <3> QED BY <3>2, <3>3, FS_Subset
  <2>3. CASE Reported(r, t)
    <3>1. PICK i \in Decisions(r) : events[r][i].to = t
      BY <2>1, <2>3 DEF ReportedOnce
    <3>2. {i} \subseteq D /\ Cardinality({i}) = 1
      BY <3>1, FS_Singleton
    <3>3. Cardinality(D) \in Nat /\ 1 <= Cardinality(D)
      <4> HIDE DEF D
      <4>1. Cardinality({i}) <= Cardinality(D)
        BY <2>2, <3>2, FS_Subset
      <4>2. Cardinality(D) \in Nat
        BY <2>2, FS_CardinalityType
      <4> QED BY <3>2, <4>1, <4>2
    <3>4. \/ chain[r][t] = 0 /\ Cardinality(Awaiting(r, t)) = 1
          \/ chain[r][t] = 1 /\ Cardinality(Awaiting(r, t)) = 0
      <4>1. CASE Awaiting(r, t) = {}
        BY <2>1, <2>3, <4>1, FS_EmptySet DEF ReportedOnce, Reported
      <4>2. ASSUME NEW o \in ChainEvents, chain[r][t] = 0, Awaiting(r, t) = {o}
            PROVE  Cardinality(Awaiting(r, t)) = 1
        BY <4>2, FS_Singleton
      <4> QED BY <2>1, <4>1, <4>2 DEF ReportedOnce
    <3> HIDE DEF D
    <3>5. chain[r][t] + Cardinality(Awaiting(r, t)) <= Cardinality(D)
      BY <3>3, <3>4
    <3> QED BY <3>5 DEF D
  <2>4. CASE ~ Reported(r, t)
    <3>1. chain[r][t] = 0 /\ Cardinality(Awaiting(r, t)) = 0
      BY <2>4, FS_EmptySet DEF Reported
    <3>2. Cardinality(D) \in Nat
      BY <2>2, FS_CardinalityType
    <3> HIDE DEF D
    <3>3. chain[r][t] + Cardinality(Awaiting(r, t)) <= Cardinality(D)
      BY <3>1, <3>2
    <3> QED BY <3>3 DEF D
  <2> QED BY <2>3, <2>4
<1>3. QED BY <1>1, <1>2, ChainInvStep, TypeCorrect, AuditHolds, PTL DEF Spec

-----------------------------------------------------------------------------
(* Decisions and reservations are final.                                   *)

LEMMA ReservationsKept ==
  ASSUME TypeOK, [Next]_vars, NEW k \in Keys, idem[k] # NoReservation
  PROVE  idem'[k] = idem[k]
<1>1. ASSUME NEW s \in Servers, Apply(s) PROVE idem'[k] = idem[k]
  <2>1. call[s] \in Calls
    BY <1>1, CallType DEF Apply
  <2>2. CASE Replay(call[s])
    BY <2>2 DEF Replay
  <2>3. ASSUME Decidable(call[s]), Reserve(call[s]) PROVE idem'[k] = idem[k]
    BY <2>1, <2>3 DEF Decidable, KeyFree, Reserve, TypeOK
  <2> QED BY <1>1, <2>2, <2>3 DEF Apply, ApproveTx, CancelTx, Decide
<1>2. CASE UNCHANGED idem
  BY <1>2
<1> QED
  BY <1>1, <1>2
  DEF Next, Handler, vars, CreateRequest, CreateEvent, Begin, Refuse, Emit, Replayed,
      SelectDue, ExpireDue, Crash, WriteChainEvent, Tick

\* Once approved, expired or canceled a request never changes again, and a
\* used approval_request_id stays bound to the call that used it.
THEOREM DecisionsFinal == Spec => DecisionsAreFinal
<1>1. ASSUME TypeOK, [Next]_vars
      PROVE  /\ \A k \in Keys : idem[k] # NoReservation => idem'[k] = idem[k]
             /\ \A r \in Requests : row[r].state \in Final => row'[r] = row[r]
  <2>1. ASSUME NEW r \in Requests, row[r].state \in Final PROVE row'[r] = row[r]
    BY <1>1, <2>1, StepOfRequest
    DEF RequestStep, Untouched, Opened, Logged, DecidedBy, NoRow, Final, States
  <2> QED BY <1>1, <2>1, ReservationsKept
<1>2. QED BY <1>1, TypeCorrect, PTL DEF Spec, DecisionsAreFinal

-----------------------------------------------------------------------------
(* The rows implement the abstract workflow.                               *)

\* Every transaction grants, lapses or leaves the abstract request alone.
LEMMA TxImplements ==
  ASSUME TypeOK, NEW c \in Calls, ApproveTx(c) \/ CancelTx(c)
  PROVE  [Lifecycle!LifecycleNext]_(Lifecycle!lifecycleVars)
<1> DEFINE q == c.req
           st == [r \in Requests |-> row[r].state]
           ow == [r \in Requests |-> row[r].initiator]
           ap == [r \in Requests |-> row[r].approver]
<1>1. q \in Requests /\ c.actor \in Identities /\ row[q] \in Rows
  BY DEF Calls, TypeOK
<1>2. CASE Replay(c)
  BY <1>2 DEF Replay, Lifecycle!lifecycleVars
<1>3. ASSUME NEW to \in {"expired", "canceled"}, Decidable(c), Decide(c, to)
      PROVE  Lifecycle!LifecycleNext
  <2>1. row' = [row EXCEPT ![q] = [row[q] EXCEPT !.state = to, !.approver = row[q].approver,
                                                !.version = row[q].version + 1]]
    BY <1>3 DEF Decide
  <2>2. /\ ow' = ow /\ ap' = ap
        /\ \A r \in Requests : st'[r] = IF r \in {q} THEN to ELSE st[r]
    BY <1>1, <2>1 DEF TypeOK, Rows
  <2>3. Lifecycle!Lapse({q}, to)
    BY <1>1, <1>3, <2>2 DEF Lifecycle!Lapse, Decidable
  <2> QED BY <1>1, <2>3 DEF Lifecycle!LifecycleNext
<1>4. ASSUME Decidable(c), MayApprove(c), Decide(c, "approved")
      PROVE  Lifecycle!LifecycleNext
  <2>1. row' = [row EXCEPT ![q] = [row[q] EXCEPT !.state = "approved", !.approver = c.actor,
                                                !.version = row[q].version + 1]]
    BY <1>4 DEF Decide
  <2>2. /\ ow' = ow
        /\ st' = [st EXCEPT ![q] = "approved"]
        /\ ap' = [ap EXCEPT ![q] = c.actor]
    BY <1>1, <2>1 DEF TypeOK, Rows
  <2>3. Lifecycle!Grant(q, c.actor)
    BY <1>1, <1>4, <2>2 DEF Lifecycle!Grant, Decidable, MayApprove
  <2> QED BY <1>1, <2>3 DEF Lifecycle!LifecycleNext
<1> QED BY <1>2, <1>3, <1>4 DEF ApproveTx, CancelTx

LEMMA StepImplements ==
  ASSUME TypeOK, [Next]_vars
  PROVE  [Lifecycle!LifecycleNext]_(Lifecycle!lifecycleVars)
<1> DEFINE st == [r \in Requests |-> row[r].state]
           ow == [r \in Requests |-> row[r].initiator]
           ap == [r \in Requests |-> row[r].approver]
<1>1. ASSUME NEW s \in Servers, NEW q \in Requests, NEW raw \in RawIds,
             CreateRequest(s, q, raw)
      PROVE  Lifecycle!LifecycleNext
  <2>1. /\ st' = [st EXCEPT ![q] = "pending"]
        /\ ow' = [ow EXCEPT ![q] = Normalize[raw]]
        /\ ap' = ap
    <3>1. ASSUME NEW r \in Requests
          PROVE  /\ row'[r].state = IF r = q THEN "pending" ELSE row[r].state
                 /\ row'[r].initiator = IF r = q THEN Normalize[raw] ELSE row[r].initiator
                 /\ row'[r].approver = row[r].approver
      BY <1>1 DEF CreateRequest, NoRow, TypeOK
    <3> QED BY <3>1
  <2>2. Lifecycle!Submit(q, Normalize[raw])
    BY <1>1, <2>1 DEF Lifecycle!Submit, CreateRequest, NoRow
  <2> QED BY <2>2 DEF Lifecycle!LifecycleNext
<1>2. ASSUME NEW s \in Servers, Apply(s)
      PROVE  [Lifecycle!LifecycleNext]_(Lifecycle!lifecycleVars)
  <2>1. call[s] \in Calls
    BY <1>2, CallType DEF Apply
  <2> QED BY <1>2, <2>1, TxImplements DEF Apply
<1>3. ASSUME NEW s \in Servers, ExpireDue(s) PROVE Lifecycle!LifecycleNext
  <2> DEFINE R == StillPending(call[s].due)
  <2>1. call[s] \in Sweeps
    BY <1>3, CallType DEF ExpireDue
  <2>2. R \in SUBSET Requests
    BY <2>1 DEF StillPending, Sweeps
  <2>3. row' = [r \in Requests |-> IF r \in R
                  THEN [row[r] EXCEPT !.state = "expired", !.version = row[r].version + 1]
                  ELSE row[r]]
    BY <1>3 DEF ExpireDue
  <2>4. /\ ow' = ow /\ ap' = ap
        /\ st' = [r \in Requests |-> IF r \in R THEN "expired" ELSE st[r]]
    <3>1. ASSUME NEW r \in Requests
          PROVE  /\ row'[r].initiator = row[r].initiator
                 /\ row'[r].approver = row[r].approver
                 /\ row'[r].state = IF r \in R THEN "expired" ELSE row[r].state
      <4>1. row[r] \in Rows
        BY DEF TypeOK
      <4> HIDE DEF R
      <4> QED BY <2>3, <4>1 DEF Rows
    <3> HIDE DEF R
    <3> QED BY <3>1
  <2>5. \A r \in R : st[r] = "pending"
    BY <2>2 DEF StillPending
  <2>6. Lifecycle!Lapse(R, "expired")
    BY <2>2, <2>4, <2>5 DEF Lifecycle!Lapse
  <2> QED BY <2>2, <2>6 DEF Lifecycle!LifecycleNext
<1>4. CASE UNCHANGED row
  BY <1>4 DEF Lifecycle!lifecycleVars
<1> QED
  BY <1>1, <1>2, <1>3, <1>4
  DEF Next, Handler, vars, CreateEvent, Begin, Refuse, Emit, Replayed, SelectDue, Crash,
      WriteChainEvent, Tick

\* The repository and its handlers implement the abstract approval workflow:
\* opened once, decided at most once, granted only by somebody else.
THEOREM Implements == Spec => ImplementsLifecycle
<1>1. Init => Lifecycle!LifecycleInit
  BY DEF Init, NoRow, Lifecycle!LifecycleInit
<1>2. QED
  BY <1>1, StepImplements, TypeCorrect, PTL
  DEF Spec, ImplementsLifecycle, Lifecycle!LifecycleSpec

=============================================================================
