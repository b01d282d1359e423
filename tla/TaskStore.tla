------------------------------ MODULE TaskStore ------------------------------
(***************************************************************************)
(* The task table of internal/db: the life of a task row under every       *)
(* operation the store offers, in any order its callers can invoke them.   *)
(*                                                                         *)
(* Every operation below is one write transaction of the store.  The store *)
(* opens one connection and begins each transaction with BEGIN IMMEDIATE,  *)
(* so a transaction is one atomic step here.  The two reclaim sweeps are   *)
(* not atomic: each scans for candidates in one read and then judges every *)
(* candidate again in a transaction of its own, and anything may happen in *)
(* between, including a heartbeat of the worker.                           *)
(*                                                                         *)
(* The callers (scheduler, spawn path, workers, watcher) are modelled in   *)
(* the modules that extend this one; here they are unconstrained.          *)
(***************************************************************************)
EXTENDS Integers, FiniteSets

CONSTANTS
  Task,           \* ids of the (non-cc) tasks
  Sweeper,        \* processes that run the supervise pass
  MaxRetries,     \* tasks.max_retries
  LeaseDuration,  \* DefaultLeaseDuration, in ticks
  MaxTime         \* bound on the clock

ASSUME ConstantsAssumption ==
  /\ MaxRetries \in Nat
  /\ LeaseDuration \in Nat \ {0}
  /\ MaxTime \in Nat

VARIABLES
  now,      \* the wall clock every process reads
  status,   \* tasks.status
  owner,    \* tasks.lease_owner
  expires,  \* tasks.lease_expires_at
  retry,    \* tasks.retry_count
  gone,     \* the task's newest window_gone outranks every sign of life
  sweep     \* the candidates each sweeper has scanned and not yet judged

taskVars == <<status, owner, expires, retry, gone>>
vars == <<now, taskVars, sweep>>

\* "absent" stands for an id without a row.
Status == {"absent", "pending", "active", "needs_input", "blocked", "done",
           "delivered", "torn_down", "failed"}

\* The statuses `ttorch report` can set, and those its callers can record.
Reportable  == {"active", "needs_input", "blocked", "done"}
Recordable  == {"blocked", "delivered", "torn_down"}
LandOwner   == {"gater", "lander"}
LeaseOwner  == {"", "worker"} \cup LandOwner
Actor       == {"worker", "manager"}
NoExpiry    == -1

Exists(t) == status[t] # "absent"
Idle      == [kind |-> "idle", at |-> 0, todo |-> {}]

Init ==
  /\ now = 0
  /\ status = [t \in Task |-> "absent"]
  /\ owner = [t \in Task |-> ""]
  /\ expires = [t \in Task |-> NoExpiry]
  /\ retry = [t \in Task |-> 0]
  /\ gone = [t \in Task |-> FALSE]
  /\ sweep = [p \in Sweeper |-> Idle]

Tick ==
  /\ now < MaxTime
  /\ now' = now + 1
  /\ UNCHANGED <<taskVars, sweep>>

-----------------------------------------------------------------------------
(* Leases.                                                                 *)

ArmLease(t, o) ==
  /\ owner' = [owner EXCEPT ![t] = o]
  /\ expires' = [expires EXCEPT ![t] = now + LeaseDuration]

ClearLease(t) ==
  /\ owner' = [owner EXCEPT ![t] = ""]
  /\ expires' = [expires EXCEPT ![t] = NoExpiry]

\* Mutant: a heartbeat arms an expiry on a task nobody leased.
ExtendAnyLease(t) ==
  /\ expires' = [expires EXCEPT ![t] = now + LeaseDuration]
  /\ UNCHANGED owner

\* A no-op on a task that holds no lease.
ExtendHeldLease(t) ==
  /\ expires' = [expires EXCEPT ![t] = IF owner[t] = "" THEN @ ELSE now + LeaseDuration]
  /\ UNCHANGED owner

\* expiry.Before(now): a lease that expires now is still held.
ExpiredAt(t, time) == expires[t] # NoExpiry /\ expires[t] < time

\* An event of actor worker:<id> outranks every earlier window_gone.
SignOfLife(t, a) == gone' = [gone EXCEPT ![t] = IF a = "worker" THEN FALSE ELSE @]

-----------------------------------------------------------------------------
(* Task rows, reports and transitions.                                     *)

CreateTask(t) ==
  /\ ~Exists(t)
  /\ status' = [status EXCEPT ![t] = "pending"]
  /\ UNCHANGED <<now, owner, expires, retry, gone, sweep>>

\* The spawn path of an id that has no row inserts it active; on a row it
\* synchronises runtime fields only, and no status.
UpsertTask(t) ==
  /\ status' = [status EXCEPT ![t] = IF Exists(t) THEN @ ELSE "active"]
  /\ UNCHANGED <<now, owner, expires, retry, gone, sweep>>

\* The new status overwrites whatever the row holds.
ReportStatus(t, s, a) ==
  /\ Exists(t)
  /\ status' = [status EXCEPT ![t] = s]
  /\ ExtendHeldLease(t)
  /\ SignOfLife(t, a)
  /\ UNCHANGED <<now, retry, sweep>>

SetStage(t, a) ==
  /\ Exists(t)
  /\ ExtendHeldLease(t)
  /\ SignOfLife(t, a)
  /\ UNCHANGED <<now, status, retry, sweep>>

\* Unconditional as well, by the manager or the scheduler; the lease stays.
RecordTransition(t, s) ==
  /\ Exists(t)
  /\ status' = [status EXCEPT ![t] = s]
  /\ UNCHANGED <<now, owner, expires, retry, gone, sweep>>

GrantLease(t) ==
  /\ Exists(t)
  /\ ArmLease(t, "worker")
  /\ UNCHANGED <<now, status, retry, gone, sweep>>

ExtendLease(t) ==
  /\ ExtendHeldLease(t)
  /\ UNCHANGED <<now, status, retry, gone, sweep>>

AppendSpawned(t) ==
  /\ gone' = [gone EXCEPT ![t] = FALSE]
  /\ UNCHANGED <<now, status, owner, expires, retry, sweep>>

AppendWindowGone(t) ==
  /\ gone' = [gone EXCEPT ![t] = TRUE]
  /\ UNCHANGED <<now, status, owner, expires, retry, sweep>>

-----------------------------------------------------------------------------
(* Claims.                                                                 *)

\* The claim plants a 'spawned' marker in its own transaction.
ClaimTask(t) ==
  /\ status[t] = "pending"
  /\ status' = [status EXCEPT ![t] = "active"]
  /\ ArmLease(t, "worker")
  /\ gone' = [gone EXCEPT ![t] = FALSE]
  /\ UNCHANGED <<now, retry, sweep>>

\* Mutant: the release forgets to check that the task is still active.
ReleaseAnyClaim(t) ==
  /\ owner[t] = "worker"
  /\ status' = [status EXCEPT ![t] = "pending"]
  /\ ClearLease(t)
  /\ UNCHANGED <<now, retry, gone, sweep>>

ReleaseClaim(t) ==
  /\ status[t] = "active"
  /\ owner[t] = "worker"
  /\ status' = [status EXCEPT ![t] = "pending"]
  /\ ClearLease(t)
  /\ UNCHANGED <<now, retry, gone, sweep>>

\* Only an unexpired lease of the same owner refuses the claim.
LandClaimable(t, o) ==
  /\ status[t] = "done"
  /\ ~(owner[t] = o /\ expires[t] # NoExpiry /\ expires[t] >= now)

ClaimForLand(t, o) ==
  /\ LandClaimable(t, o)
  /\ ArmLease(t, o)
  /\ UNCHANGED <<now, status, retry, gone, sweep>>

ReleaseLandClaim(t, o) ==
  /\ status[t] = "done"
  /\ owner[t] = o
  /\ ClearLease(t)
  /\ UNCHANGED <<now, status, retry, gone, sweep>>

-----------------------------------------------------------------------------
(* Reclaim sweeps.                                                         *)

\* Mutant: one retry too many.
ReclaimOnceMore(t) ==
  /\ IF retry[t] > MaxRetries
     THEN /\ status' = [status EXCEPT ![t] = "failed"]
          /\ UNCHANGED retry
     ELSE /\ status' = [status EXCEPT ![t] = "pending"]
          /\ retry' = [retry EXCEPT ![t] = @ + 1]
  /\ ClearLease(t)
  /\ UNCHANGED gone

\* Back to pending while retries are left, otherwise poison-pilled.
ReclaimTransition(t) ==
  /\ IF retry[t] >= MaxRetries
     THEN /\ status' = [status EXCEPT ![t] = "failed"]
          /\ UNCHANGED retry
     ELSE /\ status' = [status EXCEPT ![t] = "pending"]
          /\ retry' = [retry EXCEPT ![t] = @ + 1]
  /\ ClearLease(t)
  /\ UNCHANGED gone

\* The sweep's clock is read before the scan and used by every re-check.
BeginLeaseSweep(p) ==
  /\ sweep[p].kind = "idle"
  /\ sweep' = [sweep EXCEPT ![p] =
       [kind |-> "lease", at |-> now,
        todo |-> {t \in Task : status[t] = "active" /\ ExpiredAt(t, now)}]]
  /\ UNCHANGED <<now, taskVars>>

BeginGoneSweep(p) ==
  /\ sweep[p].kind = "idle"
  /\ sweep' = [sweep EXCEPT ![p] =
       [kind |-> "gone", at |-> now,
        todo |-> {t \in Task : status[t] = "active" /\ gone[t]}]]
  /\ UNCHANGED <<now, taskVars>>

\* Mutant: the re-check trusts the scan about the lease.
StillActive(t, time) == status[t] = "active"

\* What the re-check under the write lock accepts.
LeaseStillExpired(t, time) == status[t] = "active" /\ ExpiredAt(t, time)
WindowStillGone(t)         == status[t] = "active" /\ gone[t]

Dequeue(p, t) == sweep' = [sweep EXCEPT ![p].todo = @ \ {t}]

ReclaimExpired(p, t) ==
  /\ sweep[p].kind = "lease"
  /\ t \in sweep[p].todo
  /\ IF LeaseStillExpired(t, sweep[p].at)
     THEN ReclaimTransition(t)
     ELSE UNCHANGED taskVars
  /\ Dequeue(p, t)
  /\ UNCHANGED now

ReclaimWindowGone(p, t) ==
  /\ sweep[p].kind = "gone"
  /\ t \in sweep[p].todo
  /\ IF WindowStillGone(t)
     THEN ReclaimTransition(t)
     ELSE UNCHANGED taskVars
  /\ Dequeue(p, t)
  /\ UNCHANGED now

\* The sweep returns, at its end or early on an error or a killed process.
EndSweep(p) ==
  /\ sweep[p].kind # "idle"
  /\ sweep' = [sweep EXCEPT ![p] = Idle]
  /\ UNCHANGED <<now, taskVars>>

-----------------------------------------------------------------------------

RowStep(t) ==
  \/ CreateTask(t)
  \/ UpsertTask(t)
  \/ \E s \in Reportable, a \in Actor : ReportStatus(t, s, a)
  \/ \E a \in Actor : SetStage(t, a)
  \/ \E s \in Recordable : RecordTransition(t, s)
  \/ AppendSpawned(t)
  \/ AppendWindowGone(t)

LeaseStep(t) ==
  \/ GrantLease(t)
  \/ ExtendLease(t)
  \/ ClaimTask(t)
  \/ ReleaseClaim(t)
  \/ \E o \in LandOwner : ClaimForLand(t, o) \/ ReleaseLandClaim(t, o)

SweepStep(p) ==
  \/ BeginLeaseSweep(p)
  \/ BeginGoneSweep(p)
  \/ \E t \in Task : ReclaimExpired(p, t) \/ ReclaimWindowGone(p, t)
  \/ EndSweep(p)

Next ==
  \/ Tick
  \/ \E t \in Task : RowStep(t) \/ LeaseStep(t)
  \/ \E p \in Sweeper : SweepStep(p)

Spec == Init /\ [][Next]_vars

-----------------------------------------------------------------------------
(* Properties.                                                             *)

\* Every variable has its type.
TypeOK ==
  /\ now \in Nat
  /\ status \in [Task -> Status]
  /\ owner \in [Task -> LeaseOwner]
  /\ expires \in [Task -> Nat \cup {NoExpiry}]
  /\ retry \in [Task -> Nat]
  /\ gone \in [Task -> BOOLEAN]
  /\ sweep \in [Sweeper -> [kind : {"idle", "lease", "gone"}, at : Nat,
                            todo : SUBSET Task]]

\* The lease columns move together: an expiry without an owner would let the
\* sweep reclaim a task nobody leased, an owner without an expiry would be a
\* lease that never lapses.
LeaseShape == \A t \in Task : owner[t] = "" <=> expires[t] = NoExpiry

\* However reclaims, re-dispatches and late reports interleave, a task is
\* never sent back to the backlog more than MaxRetries times, and it is
\* poison-pilled only once they are used up.
RetriesBounded ==
  \A t \in Task :
    /\ retry[t] <= MaxRetries
    /\ status[t] = "failed" => retry[t] = MaxRetries

\* A sweep never reads a clock ahead of the current one.
SweepClockPast == \A p \in Sweeper : sweep[p].at <= now

Reclaimed(t) ==
  \/ retry'[t] # retry[t]
  \/ status[t] # "failed" /\ status'[t] = "failed"

\* A reclaim is never inference: at the moment the transaction commits, not
\* only when the sweep scanned, the task is active and either its lease has
\* run out or a window_gone outranks every sign of life of the worker.
ReclaimJustified ==
  [][\A t \in Task :
       Reclaimed(t) =>
         /\ status[t] = "active"
         /\ ExpiredAt(t, now) \/ gone[t]]_vars

\* The life the rows show: an id without a row is on offer, as a spawn may take
\* it straight to active.
PhaseOf(s) ==
  CASE s \in {"absent", "pending"} -> "offered"
    [] s = "active"               -> "underway"
    [] s = "failed"               -> "dead"
    [] OTHER                      -> "managed"

Lifecycle == INSTANCE TaskLifecycle WITH
  Lives <- MaxRetries,
  phase <- [t \in Task |-> PhaseOf(status[t])],
  lives <- [t \in Task |-> MaxRetries - retry[t]]

\* The store keeps the promise of TaskLifecycle: no late report, expired claim,
\* stale sweep or recorded outcome puts a task back in the backlog or kills it,
\* except from active and within the retry ceiling.
ImplementsLifecycle == Lifecycle!LifecycleSpec
=============================================================================
