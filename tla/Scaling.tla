-------------------------------- MODULE Scaling --------------------------------
(***************************************************************************)
(* The controlled scaling authority (campaigns/phase10_scaling.py): one    *)
(* global lock document, one record per activation, both with a finite     *)
(* life; activation, revocation and validation.                            *)
(*                                                                         *)
(* A storage call may raise, with or without having written.  A process    *)
(* may die between two calls.                                              *)
(*                                                                         *)
(* The lock has no row at first, and put_json with expected version 0      *)
(* locks nothing on PostgreSQL (storage/project_database.py:295-317): a    *)
(* second first writer that looked before the row was there replaces it,   *)
(* under version 1.  overwritten records that this happened; on SQLite it  *)
(* never does.                                                             *)
(***************************************************************************)
EXTENDS Integers, FiniteSets

CONSTANTS Operators,       \* requests that activate and revoke
          MaxActivations,  \* activations that can be begun
          TTL,             \* activation_ttl_seconds
          MaxClock,
          MaxFailures      \* storage calls that raise, and deaths

Activations == 1..MaxActivations

VARIABLES clock, failures,
          lock,      \* the document of the global authority lock
          recs,      \* activation records
          operator,  \* where each operator is, and its locals
          begun,     \* activations begun
          outcome,   \* how activate ended: granted or raised
          overwritten, \* a first writer has replaced another's lock
          check      \* a validation in progress and its answer

authority == <<lock, recs, outcome>>
scalingVars == <<clock, failures, authority, operator, begun, check, overwritten>>

Free == [status |-> "none", id |-> 0, expires |-> 0, ver |-> 0]
Absent == [status |-> "none", expires |-> 0]
OperatorIdle == [pc |-> "idle", id |-> 0, time |-> 0, ver |-> 0]
NoCheck == [pc |-> "idle", id |-> 0, row |-> Absent, revoked |-> FALSE,
            allowed |-> FALSE]

ScalingInit ==
    /\ clock = 1 /\ failures = 0
    /\ lock = Free
    /\ recs = [a \in Activations |-> Absent]
    /\ operator = [o \in Operators |-> OperatorIdle]
    /\ begun = 0
    /\ outcome = [a \in Activations |-> "none"]
    /\ check = NoCheck /\ overwritten = FALSE

Failure == failures < MaxFailures /\ failures' = failures + 1
OperatorGoes(o, label) == operator' = [operator EXCEPT ![o].pc = label]
Ends(o) == operator' = [operator EXCEPT ![o] = OperatorIdle]

\* A storage write of one call: done; or raised, written or not.
Writes(write, same, done, raised) ==
    \/ write /\ done /\ UNCHANGED failures
    \/ (write \/ same) /\ raised /\ Failure

Outcome(o, how) == outcome' = [outcome EXCEPT ![operator[o].id] = how]

----------------------------------------------------------------------------
\* The plan's integrity, eligibility, gates, campaigns, step and drawdown.
PlanAccepted(plan) ==
    /\ plan.intact /\ plan.eligible /\ plan.campaigns >= 2
    /\ plan.current > 0 /\ plan.current < plan.proposed
    /\ plan.proposed <= 50 /\ 2 * plan.proposed <= 3 * plan.current

Plans == [intact : BOOLEAN, eligible : BOOLEAN, campaigns : {1, 2},
          current : {0, 20, 40}, proposed : {20, 30, 31, 50, 51}]

\* activate, up to the lock: everything before it is a check of the plan.
ActivateBegins(o) ==
    /\ operator[o].pc = "idle" /\ begun < MaxActivations
    /\ \E plan \in Plans : PlanAccepted(plan)
    /\ begun' = begun + 1
    /\ operator' = [operator EXCEPT ![o] = [pc |-> "readLock", id |-> begun',
                                time |-> clock, ver |-> 0]]
    /\ UNCHANGED <<clock, failures, authority, check, overwritten>>

ReadLock(o) ==
    /\ operator[o].pc = "readLock"
    /\ IF lock.status = "active" /\ lock.expires > operator[o].time
       THEN Ends(o) /\ Outcome(o, "raised")
       ELSE /\ operator' = [operator EXCEPT ![o].pc = "putLock", ![o].ver = lock.ver]
            /\ UNCHANGED outcome
    /\ UNCHANGED <<clock, failures, lock, recs, begun, check, overwritten>>

TakeLock(o) ==
    lock' = [status |-> "active", id |-> operator[o].id,
             expires |-> operator[o].time + TTL, ver |-> operator[o].ver + 1]

\* The put finds the version it expects, or it finds none and, on PostgreSQL,
\* meets the row that another first writer has committed by then.
Crosses(o) == operator[o].ver = 0 /\ lock.ver # 0
PutsLock(o) ==
    /\ Writes(TakeLock(o) /\ overwritten' = (overwritten \/ Crosses(o)),
              UNCHANGED <<lock, overwritten>>,
              OperatorGoes(o, "putRecord") /\ UNCHANGED outcome,
              Ends(o) /\ Outcome(o, "raised"))
    /\ UNCHANGED <<clock, recs, begun, check>>

PutLockBlindly(o) == operator[o].pc = "putLock" /\ PutsLock(o)

\* Whoever loses the race, or gets no answer, raises without cleaning up.
PutLock(o) ==
    /\ operator[o].pc = "putLock"
    /\ \/ lock.ver = operator[o].ver /\ PutsLock(o)
       \/ Crosses(o) /\ PutsLock(o)
       \/ /\ lock.ver # operator[o].ver
          /\ Ends(o) /\ Outcome(o, "raised")
          /\ UNCHANGED <<clock, failures, lock, recs, begun, check, overwritten>>

PutRecord(o) ==
    /\ operator[o].pc = "putRecord"
    /\ Writes(recs' = [recs EXCEPT ![operator[o].id] =
                           [status |-> "active",
                            expires |-> operator[o].time + TTL]],
              UNCHANGED recs,
              OperatorGoes(o, "event"), OperatorGoes(o, "abortRecord"))
    /\ UNCHANGED <<clock, lock, outcome, begun, check, overwritten>>

\* The event is appended last; when that raises the activation is undone.
AppendEvent(o) ==
    /\ operator[o].pc = "event"
    /\ \/ Ends(o) /\ Outcome(o, "granted") /\ UNCHANGED failures
       \/ OperatorGoes(o, "abortRecord") /\ Failure /\ UNCHANGED outcome
    /\ UNCHANGED <<clock, lock, recs, begun, check, overwritten>>

\* _abort_partial_activation: two writes, each of which may fail silently.
AbortRecord(o) ==
    LET a == operator[o].id IN
    /\ operator[o].pc = "abortRecord"
    /\ IF recs[a].status = "active"
       THEN Writes(recs' = [recs EXCEPT ![a].status = "aborted"],
                   UNCHANGED recs, TRUE, TRUE)
       ELSE UNCHANGED <<recs, failures>>
    /\ OperatorGoes(o, "abortLock")
    /\ UNCHANGED <<clock, lock, outcome, begun, check, overwritten>>

AbortLock(o) ==
    /\ operator[o].pc = "abortLock"
    /\ IF lock.id = operator[o].id
       THEN Writes(lock' = [lock EXCEPT !.status = "aborted", !.ver = @ + 1],
                   UNCHANGED lock, TRUE, TRUE)
       ELSE UNCHANGED <<lock, failures>>
    /\ Ends(o) /\ Outcome(o, "raised")
    /\ UNCHANGED <<clock, recs, begun, check, overwritten>>

----------------------------------------------------------------------------
\* revoke: the record, then the lock if it still names the activation.
Revoke(o, a) ==
    /\ operator[o].pc = "idle" /\ recs[a].status = "active"
    /\ Writes(recs' = [recs EXCEPT ![a].status = "revoked"],
              UNCHANGED recs,
              operator' = [operator EXCEPT ![o] = [OperatorIdle EXCEPT !.pc = "revokeLock",
                                                   !.id = a]],
              Ends(o))
    /\ UNCHANGED <<clock, lock, outcome, begun, check, overwritten>>

RevokeReadsLock(o) ==
    /\ operator[o].pc = "revokeLock"
    /\ IF lock.id = operator[o].id
       THEN operator' = [operator EXCEPT ![o].pc = "unlock", ![o].ver = lock.ver]
       ELSE Ends(o)
    /\ UNCHANGED <<clock, failures, authority, begun, check, overwritten>>

\* What is written back is the copy that was read, which on PostgreSQL may
\* name another activation than the row; its date is read by nobody.
RevokeLock(o) ==
    /\ operator[o].pc = "unlock"
    /\ IF lock.ver = operator[o].ver
       THEN Writes(lock' = [lock EXCEPT !.status = "revoked", !.id = operator[o].id,
                                        !.ver = @ + 1],
                   UNCHANGED lock, TRUE, TRUE)
       ELSE UNCHANGED <<lock, failures>>
    /\ Ends(o)
    /\ UNCHANGED <<clock, recs, outcome, begun, check, overwritten>>

----------------------------------------------------------------------------
\* validate_authority reads the record, then the lock.
ValidateBegins(a) ==
    /\ check.pc = "idle" /\ recs[a].status # "none"
    /\ check' = [pc |-> "lock", id |-> a, row |-> recs[a],
                 revoked |-> recs[a].status = "revoked", allowed |-> FALSE]
    /\ UNCHANGED <<clock, failures, authority, operator, begun, overwritten>>

Allowed(row, a, time) ==
    /\ row.status = "active" /\ time < row.expires
    /\ lock.status = "active" /\ lock.id = a /\ lock.expires = row.expires

Validate ==
    /\ check.pc = "lock"
    /\ check' = [check EXCEPT !.pc = "done",
                              !.allowed = Allowed(check.row, check.id, clock)]
    /\ UNCHANGED <<clock, failures, authority, operator, begun, overwritten>>

Answered ==
    /\ check.pc = "done" /\ check' = NoCheck
    /\ UNCHANGED <<clock, failures, authority, operator, begun, overwritten>>

----------------------------------------------------------------------------
Tick ==
    /\ clock < MaxClock /\ clock' = clock + 1
    /\ UNCHANGED <<failures, authority, operator, begun, check, overwritten>>

Die(o) ==
    /\ operator[o].pc # "idle" /\ Failure /\ Ends(o)
    /\ UNCHANGED <<clock, authority, begun, check, overwritten>>

ScalingNext ==
    \/ \E o \in Operators :
           \/ ActivateBegins(o) \/ ReadLock(o) \/ PutLock(o) \/ PutRecord(o)
           \/ AppendEvent(o) \/ AbortRecord(o) \/ AbortLock(o)
           \/ RevokeReadsLock(o) \/ RevokeLock(o) \/ Die(o)
           \/ \E a \in Activations : Revoke(o, a)
    \/ \E a \in Activations : ValidateBegins(a)
    \/ Validate \/ Answered \/ Tick

ScalingSpec == ScalingInit /\ [][ScalingNext]_scalingVars
----------------------------------------------------------------------------
ScalingTypeOK ==
    /\ clock \in 1..MaxClock /\ begun \in 0..MaxActivations
    /\ lock \in [status : {"none", "active", "revoked", "aborted"},
                 id : 0..begun, expires : 0..(MaxClock + TTL), ver : Nat]
    /\ recs \in [Activations -> [status : {"none", "active", "revoked", "aborted"},
                         expires : 0..(MaxClock + TTL)]]
    /\ outcome \in [Activations -> {"none", "granted", "raised"}]
    /\ \A o \in Operators : operator[o].id \in 0..begun

\* "Two simultaneous scaling activations: exactly one wins the global
\* optimistic lock; the other fails closed."  Two activations that both
\* answered with an authority are never both unexpired and unrevoked, unless
\* one replaced the other's first lock on PostgreSQL.
OneWins ==
    ~overwritten => \A a, b \in Activations :
        /\ outcome[a] = "granted" /\ outcome[b] = "granted"
        /\ recs[a].status = "active" /\ recs[b].status = "active"
        /\ clock < recs[a].expires /\ clock < recs[b].expires
        => a = b

\* "Authority revoked: validation blocks it."  Also when the revocation died
\* or lost the lock document between its two writes.
RevokedIsRefused == check.revoked => ~check.allowed

\* An activation that raised authorizes nothing afterwards, whichever of its
\* three writes failed.  Undoing it takes two more writes whose errors are
\* swallowed: when they fail too, three failures in all, it may stay in force.
RaisedIsRefused ==
    failures <= 2 =>
        \A a \in Activations : outcome[a] = "raised" => ~Allowed(recs[a], a, clock)

\* A revocation that was overtaken by a new activation leaves the new
\* authority alone: the lock an activation won is revoked only for it, again
\* unless a first lock was replaced under the version the revocation read.
RevokesItsOwn ==
    [][~overwritten' /\ lock.status = "active" /\ lock'.status = "revoked" =>
           recs[lock.id].status = "revoked"]_scalingVars

\* What the scaling authority promises: nothing revoked or raised in force;
\* and, as long as no first lock was replaced, one winner and no revocation
\* of another activation's lock.
AuthorityIsExclusive ==
    /\ [](ScalingTypeOK /\ OneWins /\ RevokedIsRefused /\ RaisedIsRefused)
    /\ RevokesItsOwn
=============================================================================
