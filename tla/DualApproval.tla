---------------------------- MODULE DualApproval ----------------------------
(***************************************************************************)
(* Dual approval of freeze and unfreeze (the admin HTTP routes and         *)
(* SqliteDualApprovalRepository).  Several server processes share one      *)
(* SQLite file.  A handler reads the number of audit events, runs one      *)
(* repository call, reads the events again, and hands the last event to    *)
(* the hash chain, asynchronously.  A process may crash between any two of *)
(* these steps.                                                            *)
(***************************************************************************)
EXTENDS Integers, Sequences, FiniteSets, TLC

CONSTANTS
  Requests,     \* request ids (UUIDs drawn by createRequest)
  RawIds,       \* actor ids as clients spell them
  Identities,   \* what normalizeIdentity maps them to
  Normalize,    \* [RawIds -> Identities]
  Keys,         \* approval_request_id values chosen by clients
  Servers,      \* server processes on the same database
  Versions,     \* expectedStateVersion values clients send
  Ttl,          \* time to live of a request, in clock ticks
  MaxNow,       \* bound on the clock
  Nobody        \* a NULL column, a free key, an idle server; the actor
                \* 'system' of expirePending is also not an identity

ASSUME NormalizeAssumption == Normalize \in [RawIds -> Identities]
ASSUME NobodyAssumption == Nobody \notin Identities /\ Nobody \notin Requests
ASSUME VersionsAssumption == Versions \subseteq Nat
ASSUME TtlAssumption == Ttl \in Nat \ {0}
ASSUME MaxNowAssumption == MaxNow \in Nat

VARIABLES
  row,     \* dual_approval_requests
  events,  \* dual_approval_events of each request, in insertion order
  idem,    \* dual_approval_idempotency: key -> [req, action, actor]
  now,     \* Date.now(): may stay the same across several calls
  call,    \* the synchronous part of the handler each server is running
  outbox,  \* transitions handed to appendBlock and not yet written
  chain    \* how often each transition of a request is on the 'system' chain

vars == <<row, events, idem, now, call, outbox, chain>>

States == {"pending", "approved", "expired", "canceled"}
Final == States \ {"pending"}
Actions == {"approve", "cancel"}

Rows == [state : States \cup {"absent"}, initiator : Identities \cup {Nobody},
         approver : Identities \cup {Nobody}, expiresAt : Nat, version : Nat]
NoRow == [state |-> "absent", initiator |-> Nobody, approver |-> Nobody,
          expiresAt |-> 0, version |-> 0]
Events == [to : States, actor : Identities \cup {Nobody}, at : Nat]
Reservations == [req : Requests, action : Actions, actor : Identities]
NoReservation == [req |-> Nobody, action |-> "none", actor |-> Nobody]

\* A running handler: what it was asked, the event count read before the
\* repository call, the state_version that call returned, and how far it is.
\* A sweep remembers the rows it
\* selected and its timestamp.
Creations == [stage : {"inserted", "applied"}, action : {"create"}, req : Requests,
              actor : Identities, before : Nat, version : Nat]
Calls == [stage : {"counted", "applied"}, action : Actions, req : Requests, key : Keys,
          actor : Identities, expected : Nat, before : Nat, version : Nat]
Sweeps == [stage : {"selected"}, due : SUBSET Requests, at : Nat]
Idle == [stage |-> "idle"]

ChainEvents == [server : Servers, req : Requests, to : States, version : Nat]

Init ==
  /\ row = [r \in Requests |-> NoRow]
  /\ events = [r \in Requests |-> <<>>]
  /\ idem = [k \in Keys |-> NoReservation]
  /\ now = 0
  /\ call = [s \in Servers |-> Idle]
  /\ outbox = {}
  /\ chain = [r \in Requests |-> [t \in States |-> 0]]

-----------------------------------------------------------------------------
(* The repository.                                                         *)

Record(r, to, actor) ==
  events' = [events EXCEPT ![r] = Append(@, [to |-> to, actor |-> actor, at |-> now])]

\* isIdempotentReplay: the key is bound to this very call.  Bound to another
\* one, the call fails with 409.
Replays(c) ==
  idem[c.key] = [req |-> c.req, action |-> c.action, actor |-> c.actor]
KeyFreePerRequest(c) == idem[c.key].req # c.req
KeyFree(c) == idem[c.key] = NoReservation

Reserve(c) ==
  idem' = [idem EXCEPT ![c.key] = [req |-> c.req, action |-> c.action, actor |-> c.actor]]

\* reserveIdempotency, the guarded UPDATE and insertEvent, in one transaction.
Decide(c, to) ==
  /\ Reserve(c)
  /\ row' = [row EXCEPT ![c.req] =
               [row[c.req] EXCEPT !.state = to,
                                  !.approver = IF to = "approved" THEN c.actor
                                                ELSE row[c.req].approver,
                                  !.version = row[c.req].version + 1]]
  /\ Record(c.req, to, c.actor)

Replay(c) ==
  /\ Replays(c)
  /\ UNCHANGED <<row, events, idem>>

Decidable(c) == KeyFree(c) /\ row[c.req].state = "pending"

\* The checks of approve that follow the replay test, in their order.
Lapsed(r) == now > row[r].expiresAt
MayApproveUnlessStale(c) == row[c.req].version = c.expected
MayApprove(c) ==
  /\ c.actor # row[c.req].initiator
  /\ row[c.req].version = c.expected

\* The transaction of approve, when it does not throw.
ApproveTx(c) ==
  \/ Replay(c)
  \/ Decidable(c) /\ Lapsed(c.req) /\ Decide(c, "expired")
  \/ Decidable(c) /\ ~ Lapsed(c.req) /\ MayApprove(c) /\ Decide(c, "approved")

CancelAnyState(c) ==
  \/ Replay(c)
  \/ KeyFree(c) /\ Decide(c, "canceled")

\* The transaction of cancel, when it does not throw.  It reads no clock.
CancelTx(c) ==
  \/ Replay(c)
  \/ Decidable(c) /\ row[c.req].version = c.expected /\ Decide(c, "canceled")

\* Every throw of approve and cancel rolls the transaction back.  (With a
\* second process on the file the transaction may also fail as SQLITE_BUSY.)
Refused(c) ==
  /\ ~ Replays(c)
  /\ \/ ~ KeyFree(c)
     \/ row[c.req].state # "pending"
     \/ c.action = "approve" /\ ~ Lapsed(c.req) /\ ~ MayApprove(c)
     \/ c.action = "cancel" /\ row[c.req].version # c.expected

\* listEvents orders by created_at only: among events of the latest
\* timestamp any may come last.
LastListed(r) ==
  {events[r][i] : i \in {i \in DOMAIN events[r] :
                           \A j \in DOMAIN events[r] : events[r][j].at <= events[r][i].at}}

-----------------------------------------------------------------------------
(* The handlers.                                                           *)

CreateRequestRawInitiator(s, r, raw) ==
  /\ call[s] = Idle
  /\ row[r] = NoRow
  /\ row' = [row EXCEPT ![r] = [state |-> "pending", initiator |-> raw,
                                approver |-> Nobody, expiresAt |-> now + Ttl, version |-> 0]]
  /\ UNCHANGED <<events, idem, now, call, outbox, chain>>

\* POST /request: the row and its first event are two separate autocommitted
\* statements.
CreateRequest(s, r, raw) ==
  /\ call[s] = Idle
  /\ row[r] = NoRow
  /\ row' = [row EXCEPT ![r] = [state |-> "pending", initiator |-> Normalize[raw],
                                approver |-> Nobody, expiresAt |-> now + Ttl, version |-> 0]]
  /\ call' = [call EXCEPT ![s] = [stage |-> "inserted", action |-> "create", req |-> r,
                                  actor |-> Normalize[raw], before |-> 0, version |-> 0]]
  /\ UNCHANGED <<events, idem, now, outbox, chain>>

CreateEvent(s) ==
  /\ call[s].stage = "inserted"
  /\ Record(call[s].req, "pending", call[s].actor)
  /\ call' = [call EXCEPT ![s].stage = "applied",
                          ![s].version = row[call[s].req].version]
  /\ UNCHANGED <<row, idem, now, outbox, chain>>

\* POST /approve and /cancel: eventsBefore, on a request id that exists.
Begin(s, a, r, k, raw, v) ==
  /\ call[s] = Idle
  /\ row[r] # NoRow
  /\ call' = [call EXCEPT ![s] = [stage |-> "counted", action |-> a, req |-> r, key |-> k,
                                  actor |-> Normalize[raw], expected |-> v,
                                  before |-> Len(events[r]), version |-> 0]]
  /\ UNCHANGED <<row, events, idem, now, outbox, chain>>

Apply(s) ==
  /\ call[s].stage = "counted"
  /\ \/ call[s].action = "approve" /\ ApproveTx(call[s])
     \/ call[s].action = "cancel" /\ CancelTx(call[s])
  /\ call' = [call EXCEPT ![s].stage = "applied",
                          ![s].version = row'[call[s].req].version]
  /\ UNCHANGED <<now, outbox, chain>>

Refuse(s) ==
  /\ call[s].stage = "counted"
  /\ Refused(call[s]) \/ Servers # {s}
  /\ call' = [call EXCEPT ![s] = Idle]
  /\ UNCHANGED <<row, events, idem, now, outbox, chain>>

\* eventsAfter is compared with eventsBefore to tell a transition from an
\* idempotent replay.
TransitionedAlways(c) == events[c.req] # <<>>
Transitioned(c) == Len(events[c.req]) > c.before

\* The last listed event goes to the chain.
Emit(s) ==
  /\ call[s].stage = "applied"
  /\ Transitioned(call[s])
  /\ \E e \in LastListed(call[s].req) :
       outbox' = outbox \cup {[server |-> s, req |-> call[s].req, to |-> e.to,
                               version |-> call[s].version]}
  /\ call' = [call EXCEPT ![s] = Idle]
  /\ UNCHANGED <<row, events, idem, now, chain>>

Replayed(s) ==
  /\ call[s].stage = "applied"
  /\ ~ Transitioned(call[s])
  /\ call' = [call EXCEPT ![s] = Idle]
  /\ UNCHANGED <<row, events, idem, now, outbox, chain>>

\* appendBlock succeeds, or throws and the error goes to the audit log only.
WriteChainEvent(o) ==
  /\ o \in outbox
  /\ outbox' = outbox \ {o}
  /\ \/ chain' = [chain EXCEPT ![o.req][o.to] = @ + 1]
     \/ UNCHANGED chain
  /\ UNCHANGED <<row, events, idem, now, call>>

\* expirePending selects outside the transaction and tests the state again
\* inside it: what another process decided in between is skipped.
SelectDue(s) ==
  LET due == {r \in Requests : row[r].state = "pending" /\ row[r].expiresAt < now}
  IN  /\ call[s] = Idle
      /\ due # {}
      /\ call' = [call EXCEPT ![s] = [stage |-> "selected", due |-> due, at |-> now]]
      /\ UNCHANGED <<row, events, idem, now, outbox, chain>>

StillPendingUnchecked(R) == R
StillPending(R) == {r \in R : row[r].state = "pending"}

ExpireDue(s) ==
  /\ call[s].stage = "selected"
  /\ LET R == StillPending(call[s].due)
     IN  /\ row' = [r \in Requests |-> IF r \in R
                       THEN [row[r] EXCEPT !.state = "expired", !.version = row[r].version + 1]
                       ELSE row[r]]
         /\ events' = [r \in Requests |-> IF r \in R
                       THEN Append(events[r], [to |-> "expired", actor |-> Nobody,
                                               at |-> call[s].at])
                       ELSE events[r]]
  /\ call' = [call EXCEPT ![s] = Idle]
  /\ UNCHANGED <<idem, now, outbox, chain>>

Tick ==
  /\ now < MaxNow
  /\ now' = now + 1
  /\ UNCHANGED <<row, events, idem, call, outbox, chain>>

\* A process dies: its handler and its pending chain writes are gone.
Crash(s) ==
  /\ call' = [call EXCEPT ![s] = Idle]
  /\ outbox' = {o \in outbox : o.server # s}
  /\ UNCHANGED <<row, events, idem, now, chain>>

Handler(s) ==
  \/ \E r \in Requests, raw \in RawIds : CreateRequest(s, r, raw)
  \/ CreateEvent(s)
  \/ \E a \in Actions, r \in Requests, k \in Keys, raw \in RawIds, v \in Versions :
       Begin(s, a, r, k, raw, v)
  \/ Apply(s)
  \/ Refuse(s)
  \/ Emit(s)
  \/ Replayed(s)
  \/ SelectDue(s)
  \/ ExpireDue(s)

Next ==
  \/ \E s \in Servers : Handler(s) \/ Crash(s)
  \/ \E o \in outbox : WriteChainEvent(o)
  \/ Tick

Spec == Init /\ [][Next]_vars

-----------------------------------------------------------------------------
TypeOK ==
  /\ row \in [Requests -> Rows]
  /\ events \in [Requests -> Seq(Events)]
  /\ idem \in [Keys -> Reservations \cup {NoReservation}]
  /\ now \in 0..MaxNow
  /\ call \in [Servers -> Creations \cup Calls \cup Sweeps \cup {Idle}]
  /\ outbox \subseteq ChainEvents
  /\ chain \in [Requests -> [States -> Nat]]

Decisions(r) == {i \in DOMAIN events[r] : events[r][i].to # "pending"}
KeysOf(r) == {k \in Keys : idem[k].req = r}

\* The four-eyes rule as the audit trail shows it: an approved request has an
\* approval event by its recorded approver, who is not the identity that
\* opened it however either was spelled, and it was approved in time.
FourEyes ==
  \A r \in Requests : row[r].state = "approved" =>
    /\ row[r].approver \in Identities \ {row[r].initiator}
    /\ \E i \in DOMAIN events[r] :
         /\ events[r][i].to = "approved"
         /\ events[r][i].actor = row[r].approver
         /\ events[r][i].at <= row[r].expiresAt

\* Table and audit trail agree at every moment, whatever crashed and however
\* processes interleave: state_version counts the decisions recorded, there
\* is at most one, and it is the row's state.
AuditMatchesRow ==
  \A r \in Requests :
    /\ Cardinality(Decisions(r)) = row[r].version
    /\ row[r].version = IF row[r].state \in Final THEN 1 ELSE 0
    /\ \A i \in Decisions(r) : events[r][i].to = row[r].state

\* Every reserved approval_request_id paid for exactly one decision, made by
\* the actor it names and of the kind it names; a decision without a key is
\* an expiry by the sweep.
KeysAccountForDecisions ==
  \A r \in Requests :
    /\ Cardinality(KeysOf(r)) <= row[r].version
    /\ \A k \in KeysOf(r) : \E i \in Decisions(r) :
         /\ events[r][i].actor = idem[k].actor
         /\ events[r][i].to \in (IF idem[k].action = "cancel" THEN {"canceled"}
                                                       ELSE {"approved", "expired"})
    /\ KeysOf(r) = {} => row[r].state \in {"absent", "pending", "expired"}

\* A reservation is never rebound and a decision never revised: a retry
\* with the same approval_request_id can change nothing any more.
DecisionsAreFinal ==
  [][/\ \A k \in Keys : idem[k] # NoReservation => idem'[k] = idem[k]
     /\ \A r \in Requests : row[r].state \in Final => row'[r] = row[r]]_vars

\* The hash chain records no decision the database does not have, and no
\* transition twice, although handlers die between commit and append.
\* Holds for one server process.
ChainFollowsDatabase ==
  \A r \in Requests, t \in Final :
    LET pending == {o \in outbox : o.req = r /\ o.to = t}
    IN  chain[r][t] + Cardinality(pending) <= Cardinality({i \in Decisions(r) : events[r][i].to = t})

\* listEvents returns the events in the order they happened, so the one a
\* handler reports last is the transition it made: version 1 is a decision
\* (the e2e test of cancel expects exactly ['pending', 'canceled']).
LastEventIsTheTransition ==
  \A o \in outbox : o.version = 1 => o.to \in Final

\* The abstract workflow this implements.
Lifecycle == INSTANCE RequestLifecycle WITH
  status <- [r \in Requests |-> row[r].state],
  owner <- [r \in Requests |-> row[r].initiator],
  approvedBy <- [r \in Requests |-> row[r].approver]

\* Rows move exactly as the abstract workflow allows.
ImplementsLifecycle == Lifecycle!LifecycleSpec

-----------------------------------------------------------------------------
(* Values for TLC.                                                         *)

\* Two spellings of one person, and another person.
MCNormalize == [raw \in RawIds |-> IF raw = "Bob" THEN "bob" ELSE "alice"]
MCSymmetry == Permutations(Requests) \cup Permutations(Keys) \cup Permutations(Servers)

=============================================================================
