-------------------------- MODULE RequestLifecycle --------------------------
(***************************************************************************)
(* What an approval workflow promises, with no storage, clock, keys or     *)
(* processes: a request is opened once by its owner and decided at most    *)
(* once, and only somebody else than the owner may approve it.             *)
(* DualApproval is shown to implement this module.                         *)
(***************************************************************************)
CONSTANTS Requests, Identities, Nobody

VARIABLES status, owner, approvedBy

lifecycleVars == <<status, owner, approvedBy>>

Open == {"pending"}
Closed == {"approved", "expired", "canceled"}

LifecycleInit ==
  /\ status = [r \in Requests |-> "absent"]
  /\ owner = [r \in Requests |-> Nobody]
  /\ approvedBy = [r \in Requests |-> Nobody]

Submit(r, i) ==
  /\ status[r] = "absent"
  /\ status' = [status EXCEPT ![r] = "pending"]
  /\ owner' = [owner EXCEPT ![r] = i]
  /\ UNCHANGED approvedBy

Grant(r, i) ==
  /\ status[r] = "pending"
  /\ i # owner[r]
  /\ status' = [status EXCEPT ![r] = "approved"]
  /\ approvedBy' = [approvedBy EXCEPT ![r] = i]
  /\ UNCHANGED owner

\* Several requests may lapse in one step: a sweep closes all it finds.
Lapse(R, s) ==
  /\ \A r \in R : status[r] = "pending"
  /\ status' = [r \in Requests |-> IF r \in R THEN s ELSE status[r]]
  /\ UNCHANGED <<owner, approvedBy>>

LifecycleNext ==
  \/ \E r \in Requests, i \in Identities : Submit(r, i) \/ Grant(r, i)
  \/ \E R \in SUBSET Requests, s \in {"expired", "canceled"} : Lapse(R, s)

LifecycleSpec == LifecycleInit /\ [][LifecycleNext]_lifecycleVars

(* No request ever leaves a closed state, and none is approved by the one  *)
(* who opened it.                                                          *)
DecidedOnce ==
  [][\A r \in Requests : status[r] \in Closed => status'[r] = status[r]]_lifecycleVars

=============================================================================
