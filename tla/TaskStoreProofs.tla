--------------------------- MODULE TaskStoreProofs ---------------------------
(***************************************************************************)
(* Proofs about TaskStore for every set of tasks and sweepers and every    *)
(* retry ceiling, lease duration and clock bound.                          *)
(***************************************************************************)
EXTENDS MCTaskStore, WellFoundedInduction, TLAPS

(***************************************************************************)
(* What the lease helpers and the reclaim transition leave of a row.       *)
(***************************************************************************)
LEMMA ArmLeaseTyped ==
  ASSUME TypeOK, NEW t \in Task, NEW o \in LeaseOwner, ArmLease(t, o)
  PROVE  /\ owner' \in [Task -> LeaseOwner]
         /\ expires' \in [Task -> Nat \cup {NoExpiry}]
  <1>1. now + LeaseDuration \in Nat
    BY ConstantsAssumption DEF TypeOK
  <1>2. QED
    BY <1>1 DEF TypeOK, ArmLease

LEMMA ClearLeaseTyped ==
  ASSUME TypeOK, NEW t \in Task, ClearLease(t)
  PROVE  /\ owner' \in [Task -> LeaseOwner]
         /\ expires' \in [Task -> Nat \cup {NoExpiry}]
  BY DEF TypeOK, ClearLease, LeaseOwner

LEMMA ExtendHeldLeaseTyped ==
  ASSUME TypeOK, NEW t \in Task, ExtendHeldLease(t)
  PROVE  /\ owner' \in [Task -> LeaseOwner]
         /\ expires' \in [Task -> Nat \cup {NoExpiry}]
  <1>1. now + LeaseDuration \in Nat
    BY ConstantsAssumption DEF TypeOK
  <1>2. QED
    BY <1>1 DEF TypeOK, ExtendHeldLease

LEMMA ReclaimTransitionTyped ==
  ASSUME TypeOK, NEW t \in Task, ReclaimTransition(t)
  PROVE  /\ status' \in [Task -> Status]
         /\ owner' \in [Task -> LeaseOwner]
         /\ expires' \in [Task -> Nat \cup {NoExpiry}]
         /\ retry' \in [Task -> Nat]
         /\ gone' \in [Task -> BOOLEAN]
  <1>1. ClearLease(t)
    BY DEF ReclaimTransition
  <1>2. owner' \in [Task -> LeaseOwner] /\ expires' \in [Task -> Nat \cup {NoExpiry}]
    BY <1>1, ClearLeaseTyped
  <1>3. CASE retry[t] >= MaxRetries
    BY <1>2, <1>3 DEF TypeOK, ReclaimTransition, Status
  <1>4. CASE ~(retry[t] >= MaxRetries)
    BY <1>2, <1>4 DEF TypeOK, ReclaimTransition, Status
  <1>5. QED
    BY <1>3, <1>4

(***************************************************************************)
(* Type correctness.                                                       *)
(***************************************************************************)
LEMMA TypeInit == Init => TypeOK
  <1> SUFFICES ASSUME Init
               PROVE  TypeOK
    OBVIOUS
  <1>1. now \in Nat /\ status \in [Task -> Status]
    BY DEF Init, Status
  <1>2. owner \in [Task -> LeaseOwner]
    BY DEF Init, LeaseOwner
  <1>3. expires \in [Task -> Nat \cup {NoExpiry}]
    BY DEF Init
  <1>4. retry \in [Task -> Nat] /\ gone \in [Task -> BOOLEAN]
    BY DEF Init
  <1>5. sweep \in [Sweeper -> [kind : {"idle", "lease", "gone"}, at : Nat,
                               todo : SUBSET Task]]
    BY DEF Init, Idle
  <1>6. QED
    BY <1>1, <1>2, <1>3, <1>4, <1>5 DEF TypeOK

LEMMA TypeRowStep ==
  ASSUME TypeOK, NEW t \in Task, RowStep(t)
  PROVE  TypeOK'
  <1> USE ConstantsAssumption DEF TypeOK
  <1>1. CASE CreateTask(t)
    BY <1>1 DEF CreateTask, Status
  <1>2. CASE UpsertTask(t)
    BY <1>2 DEF UpsertTask, Status
  <1>3. CASE \E s \in Reportable, a \in Actor : ReportStatus(t, s, a)
    BY <1>3, ExtendHeldLeaseTyped
       DEF ReportStatus, SignOfLife, Reportable, Status
  <1>4. CASE \E a \in Actor : SetStage(t, a)
    BY <1>4, ExtendHeldLeaseTyped DEF SetStage, SignOfLife
  <1>5. CASE \E s \in Recordable : RecordTransition(t, s)
    BY <1>5 DEF RecordTransition, Recordable, Status
  <1>6. CASE AppendSpawned(t)
    BY <1>6 DEF AppendSpawned
  <1>7. CASE AppendWindowGone(t)
    BY <1>7 DEF AppendWindowGone
  <1>8. QED
    BY <1>1, <1>2, <1>3, <1>4, <1>5, <1>6, <1>7 DEF RowStep

LEMMA TypeLeaseStep ==
  ASSUME TypeOK, NEW t \in Task, LeaseStep(t)
  PROVE  TypeOK'
  <1>1. CASE GrantLease(t)
    BY <1>1, ArmLeaseTyped DEF TypeOK, GrantLease, LeaseOwner
  <1>2. CASE ExtendLease(t)
    BY <1>2, ExtendHeldLeaseTyped DEF TypeOK, ExtendLease
  <1>3. CASE ClaimTask(t)
    BY <1>3, ArmLeaseTyped DEF TypeOK, ClaimTask, LeaseOwner, Status
  <1>4. CASE ReleaseClaim(t)
    BY <1>4, ClearLeaseTyped DEF TypeOK, ReleaseClaim, Status
  <1>5. ASSUME NEW o \in LandOwner, ClaimForLand(t, o)
        PROVE  TypeOK'
    BY <1>5, ArmLeaseTyped DEF TypeOK, ClaimForLand, LeaseOwner
  <1>6. ASSUME NEW o \in LandOwner, ReleaseLandClaim(t, o)
        PROVE  TypeOK'
    BY <1>6, ClearLeaseTyped DEF TypeOK, ReleaseLandClaim
  <1>7. QED
    BY <1>1, <1>2, <1>3, <1>4, <1>5, <1>6 DEF LeaseStep

LEMMA TypeSweepStep ==
  ASSUME TypeOK, NEW p \in Sweeper, SweepStep(p)
  PROVE  TypeOK'
  <1> USE ConstantsAssumption
  <1>1. CASE BeginLeaseSweep(p)
    BY <1>1 DEF TypeOK, BeginLeaseSweep, taskVars
  <1>2. CASE BeginGoneSweep(p)
    BY <1>2 DEF TypeOK, BeginGoneSweep, taskVars
  <1>3. ASSUME NEW t \in Task, ReclaimExpired(p, t)
        PROVE  TypeOK'
    <2>1. now' \in Nat /\ sweep' \in [Sweeper ->
            [kind : {"idle", "lease", "gone"}, at : Nat, todo : SUBSET Task]]
      BY <1>3 DEF TypeOK, ReclaimExpired, Dequeue
    <2>2. CASE LeaseStillExpired(t, sweep[p].at)
      BY <1>3, <2>1, <2>2, ReclaimTransitionTyped DEF ReclaimExpired, TypeOK
    <2>3. CASE ~LeaseStillExpired(t, sweep[p].at)
      BY <1>3, <2>1, <2>3 DEF ReclaimExpired, TypeOK, taskVars
    <2>4. QED
      BY <2>2, <2>3
  <1>4. ASSUME NEW t \in Task, ReclaimWindowGone(p, t)
        PROVE  TypeOK'
    <2>1. now' \in Nat /\ sweep' \in [Sweeper ->
            [kind : {"idle", "lease", "gone"}, at : Nat, todo : SUBSET Task]]
      BY <1>4 DEF TypeOK, ReclaimWindowGone, Dequeue
    <2>2. CASE WindowStillGone(t)
      BY <1>4, <2>1, <2>2, ReclaimTransitionTyped DEF ReclaimWindowGone, TypeOK
    <2>3. CASE ~WindowStillGone(t)
      BY <1>4, <2>1, <2>3 DEF ReclaimWindowGone, TypeOK, taskVars
    <2>4. QED
      BY <2>2, <2>3
  <1>5. CASE EndSweep(p)
    BY <1>5 DEF TypeOK, EndSweep, taskVars, Idle
  <1>6. QED
    BY <1>1, <1>2, <1>3, <1>4, <1>5 DEF SweepStep

LEMMA TypeNext == TypeOK /\ [Next]_vars => TypeOK'
  <1> SUFFICES ASSUME TypeOK, [Next]_vars
               PROVE  TypeOK'
    OBVIOUS
  <1>1. CASE Tick
    BY <1>1 DEF TypeOK, Tick, taskVars
  <1>2. ASSUME NEW t \in Task, RowStep(t)
        PROVE  TypeOK'
    BY <1>2, TypeRowStep
  <1>3. ASSUME NEW t \in Task, LeaseStep(t)
        PROVE  TypeOK'
    BY <1>3, TypeLeaseStep
  <1>4. ASSUME NEW p \in Sweeper, SweepStep(p)
        PROVE  TypeOK'
    BY <1>4, TypeSweepStep
  <1>5. CASE UNCHANGED vars
    BY <1>5 DEF TypeOK, vars, taskVars
  <1>6. QED
    BY <1>1, <1>2, <1>3, <1>4, <1>5 DEF Next

\* Every operation of the store keeps every column within its type.
THEOREM TypeCorrect == Spec => []TypeOK
  BY TypeInit, TypeNext, PTL DEF Spec

(***************************************************************************)
(* The lease columns move together.  Per row, owner and expiry are written *)
(* by the three lease helpers only.                                        *)
(***************************************************************************)
LEMMA ExpiryIsATime ==
  ASSUME TypeOK
  PROVE  now + LeaseDuration # NoExpiry
  <1>1. now \in Nat /\ LeaseDuration \in Nat
    BY ConstantsAssumption DEF TypeOK
  <1>2. QED
    BY <1>1 DEF NoExpiry

LEMMA ArmLeaseShape ==
  ASSUME TypeOK, LeaseShape, NEW t \in Task, NEW o \in LeaseOwner \ {""},
         ArmLease(t, o)
  PROVE  LeaseShape'
  <1>1. now + LeaseDuration # NoExpiry
    BY ExpiryIsATime
  <1>2. QED
    BY <1>1 DEF TypeOK, LeaseShape, ArmLease

LEMMA ClearLeaseShape ==
  ASSUME TypeOK, LeaseShape, NEW t \in Task, ClearLease(t)
  PROVE  LeaseShape'
  BY DEF TypeOK, LeaseShape, ClearLease

LEMMA ExtendHeldLeaseShape ==
  ASSUME TypeOK, LeaseShape, NEW t \in Task, ExtendHeldLease(t)
  PROVE  LeaseShape'
  <1>1. now + LeaseDuration # NoExpiry
    BY ExpiryIsATime
  <1>2. QED
    BY <1>1 DEF TypeOK, LeaseShape, ExtendHeldLease

LEMMA LeaseShapeInit == Init => LeaseShape
  BY DEF Init, LeaseShape

LEMMA LeaseShapeNext == TypeOK /\ LeaseShape /\ [Next]_vars => LeaseShape'
  <1> SUFFICES ASSUME TypeOK, LeaseShape, [Next]_vars
               PROVE  LeaseShape'
    OBVIOUS
  <1>1. CASE UNCHANGED <<owner, expires>>
    BY <1>1 DEF LeaseShape
  <1>2. CASE Tick \/ UNCHANGED vars
    BY <1>1, <1>2 DEF Tick, vars, taskVars
  <1>3. ASSUME NEW t \in Task, RowStep(t)
        PROVE  LeaseShape'
    <2>1. ExtendHeldLease(t) \/ UNCHANGED <<owner, expires>>
      BY <1>3 DEF RowStep, CreateTask, UpsertTask, ReportStatus, SetStage,
                  RecordTransition, AppendSpawned, AppendWindowGone
    <2>2. QED
      BY <1>1, <2>1, ExtendHeldLeaseShape
  <1>4. ASSUME NEW t \in Task, LeaseStep(t)
        PROVE  LeaseShape'
    <2>1. \/ \E o \in LeaseOwner \ {""} : ArmLease(t, o)
          \/ ClearLease(t)
          \/ ExtendHeldLease(t)
      BY <1>4 DEF LeaseStep, GrantLease, ExtendLease, ClaimTask, ReleaseClaim,
                  ClaimForLand, ReleaseLandClaim, LeaseOwner, LandOwner
    <2>2. QED
      BY <2>1, ArmLeaseShape, ClearLeaseShape, ExtendHeldLeaseShape
  <1>5. ASSUME NEW p \in Sweeper, SweepStep(p)
        PROVE  LeaseShape'
    <2>1. (\E t \in Task : ClearLease(t)) \/ UNCHANGED <<owner, expires>>
      BY <1>5 DEF SweepStep, BeginLeaseSweep, BeginGoneSweep, ReclaimExpired,
                  ReclaimWindowGone, ReclaimTransition, EndSweep, taskVars
    <2>2. QED
      BY <1>1, <2>1, ClearLeaseShape
  <1>6. QED
    BY <1>2, <1>3, <1>4, <1>5 DEF Next

\* No operation leaves a lease without an expiry or an expiry without a
\* lease, for any interleaving of claims, heartbeats, releases and sweeps.
THEOREM LeaseShapeCorrect == Spec => []LeaseShape
  <1>1. Init => TypeOK /\ LeaseShape
    BY TypeInit, LeaseShapeInit
  <1>2. TypeOK /\ LeaseShape /\ [Next]_vars => (TypeOK /\ LeaseShape)'
    BY TypeNext, LeaseShapeNext
  <1>3. QED
    BY <1>1, <1>2, PTL DEF Spec

(***************************************************************************)
(* The retry ceiling.  Only the reclaim transition writes retry_count, and *)
(* only it writes 'failed'; every other transition leaves 'failed' behind. *)
(***************************************************************************)
LEMMA RetriesInit == Init => RetriesBounded
  <1> SUFFICES ASSUME Init, NEW t \in Task
               PROVE  retry[t] <= MaxRetries /\ status[t] # "failed"
    BY DEF RetriesBounded
  <1>1. retry[t] = 0 /\ status[t] = "absent"
    BY DEF Init
  <1>2. QED
    BY <1>1, ConstantsAssumption

LEMMA ReclaimTransitionBounded ==
  ASSUME TypeOK, RetriesBounded, NEW t \in Task, ReclaimTransition(t)
  PROVE  RetriesBounded'
  <1>1. MaxRetries \in Nat /\ retry[t] \in Nat /\ retry[t] <= MaxRetries
    BY ConstantsAssumption DEF TypeOK, RetriesBounded
  <1>2. CASE retry[t] >= MaxRetries
    <2>1. retry[t] = MaxRetries
      BY <1>1, <1>2
    <2>2. QED
      BY <1>2, <2>1 DEF TypeOK, RetriesBounded, ReclaimTransition
  <1>3. CASE ~(retry[t] >= MaxRetries)
    <2>1. retry[t] + 1 <= MaxRetries
      BY <1>1, <1>3
    <2>2. QED
      BY <1>3, <2>1 DEF TypeOK, RetriesBounded, ReclaimTransition
  <1>4. QED
    BY <1>2, <1>3

\* A step that keeps retry_count and sends no row to 'failed' is harmless.
NoReclaim ==
  /\ UNCHANGED retry
  /\ \A u \in Task : status'[u] = "failed" => status[u] = "failed"

LEMMA RetriesNext == TypeOK /\ RetriesBounded /\ [Next]_vars => RetriesBounded'
  <1> SUFFICES ASSUME TypeOK, RetriesBounded, [Next]_vars
               PROVE  RetriesBounded'
    OBVIOUS
  <1>1. CASE NoReclaim
    BY <1>1 DEF NoReclaim, RetriesBounded
  <1>2. CASE Tick \/ UNCHANGED vars
    BY <1>1, <1>2 DEF Tick, vars, taskVars, NoReclaim
  <1>3. ASSUME NEW t \in Task, RowStep(t)
        PROVE  RetriesBounded'
    <2>1. NoReclaim
      BY <1>3 DEF RowStep, CreateTask, UpsertTask, ReportStatus, SetStage,
                  RecordTransition, AppendSpawned, AppendWindowGone, NoReclaim,
                  TypeOK, Reportable, Recordable
    <2>2. QED
      BY <1>1, <2>1
  <1>4. ASSUME NEW t \in Task, LeaseStep(t)
        PROVE  RetriesBounded'
    <2>1. NoReclaim
      BY <1>4 DEF LeaseStep, GrantLease, ExtendLease, ClaimTask, ReleaseClaim,
                  ClaimForLand, ReleaseLandClaim, NoReclaim, TypeOK
    <2>2. QED
      BY <1>1, <2>1
  <1>5. ASSUME NEW p \in Sweeper, SweepStep(p)
        PROVE  RetriesBounded'
    <2>1. (\E t \in Task : ReclaimTransition(t)) \/ NoReclaim
      BY <1>5 DEF SweepStep, BeginLeaseSweep, BeginGoneSweep, ReclaimExpired,
                  ReclaimWindowGone, EndSweep, taskVars, NoReclaim
    <2>2. QED
      BY <1>1, <2>1, ReclaimTransitionBounded
  <1>6. QED
    BY <1>2, <1>3, <1>4, <1>5 DEF Next

\* A task is sent back to the backlog at most MaxRetries times over its whole
\* life and poison-pilled only then, whatever late reports and re-dispatches
\* come in between.
THEOREM RetriesCorrect == Spec => []RetriesBounded
  <1>1. Init => TypeOK /\ RetriesBounded
    BY TypeInit, RetriesInit
  <1>2. TypeOK /\ RetriesBounded /\ [Next]_vars => (TypeOK /\ RetriesBounded)'
    BY TypeNext, RetriesNext
  <1>3. QED
    BY <1>1, <1>2, PTL DEF Spec

(***************************************************************************)
(* Reclaim is never inference.  The sweep judges with the clock it read    *)
(* before its scan; the clock never runs back, so what had expired then    *)
(* has expired when the reclaim commits.                                   *)
(***************************************************************************)
LEMMA SweepClockInit == Init => SweepClockPast
  <1> SUFFICES ASSUME Init, NEW p \in Sweeper
               PROVE  sweep[p].at <= now
    BY DEF SweepClockPast
  <1>1. sweep[p] = Idle /\ now = 0
    BY DEF Init
  <1>2. QED
    BY <1>1 DEF Idle

LEMMA SweepClockNext == TypeOK /\ SweepClockPast /\ [Next]_vars => SweepClockPast'
  <1> SUFFICES ASSUME TypeOK, SweepClockPast, [Next]_vars
               PROVE  SweepClockPast'
    OBVIOUS
  <1>1. CASE UNCHANGED <<now, sweep>>
    BY <1>1 DEF SweepClockPast
  <1>2. CASE Tick
    BY <1>2 DEF Tick, SweepClockPast, TypeOK
  <1>3. ASSUME NEW t \in Task, RowStep(t) \/ LeaseStep(t)
        PROVE  SweepClockPast'
    <2>1. UNCHANGED <<now, sweep>>
      BY <1>3 DEF RowStep, CreateTask, UpsertTask, ReportStatus, SetStage,
                  RecordTransition, AppendSpawned, AppendWindowGone, LeaseStep,
                  GrantLease, ExtendLease, ClaimTask, ReleaseClaim,
                  ClaimForLand, ReleaseLandClaim
    <2>2. QED
      BY <1>1, <2>1
  <1>4. ASSUME NEW p \in Sweeper, SweepStep(p)
        PROVE  SweepClockPast'
    <2>1. CASE BeginLeaseSweep(p) \/ BeginGoneSweep(p)
      BY <2>1 DEF BeginLeaseSweep, BeginGoneSweep, SweepClockPast, TypeOK
    <2>2. CASE \E t \in Task : ReclaimExpired(p, t) \/ ReclaimWindowGone(p, t)
      BY <2>2 DEF ReclaimExpired, ReclaimWindowGone, Dequeue, SweepClockPast, TypeOK
    <2>3. CASE EndSweep(p)
      BY <2>3 DEF EndSweep, Idle, SweepClockPast, TypeOK
    <2>4. QED
      BY <1>4, <2>1, <2>2, <2>3 DEF SweepStep
  <1>5. CASE UNCHANGED vars
    BY <1>1, <1>5 DEF vars
  <1>6. QED
    BY <1>2, <1>3, <1>4, <1>5 DEF Next

Justified(t) == status[t] = "active" /\ (ExpiredAt(t, now) \/ gone[t])

LEMMA ReclaimStepJustified ==
  ASSUME TypeOK, SweepClockPast, [Next]_vars, NEW t \in Task, Reclaimed(t)
  PROVE  Justified(t)
  <1>1. CASE NoReclaim
    BY <1>1 DEF NoReclaim, Reclaimed
  <1>2. CASE Tick \/ UNCHANGED vars
    BY <1>1, <1>2 DEF Tick, vars, taskVars, NoReclaim
  <1>3. ASSUME NEW u \in Task, RowStep(u) \/ LeaseStep(u)
        PROVE  NoReclaim
    <2>1. CASE RowStep(u)
      BY <2>1 DEF RowStep, CreateTask, UpsertTask, ReportStatus, SetStage,
                  RecordTransition, AppendSpawned, AppendWindowGone, NoReclaim,
                  TypeOK, Reportable, Recordable
    <2>2. CASE LeaseStep(u)
      BY <2>2 DEF LeaseStep, GrantLease, ExtendLease, ClaimTask, ReleaseClaim,
                  ClaimForLand, ReleaseLandClaim, NoReclaim, TypeOK
    <2>3. QED
      BY <1>3, <2>1, <2>2
  <1>4. ASSUME NEW p \in Sweeper, SweepStep(p)
        PROVE  Justified(t)
    <2>1. CASE BeginLeaseSweep(p) \/ BeginGoneSweep(p) \/ EndSweep(p)
      BY <1>1, <2>1 DEF BeginLeaseSweep, BeginGoneSweep, EndSweep, taskVars, NoReclaim
    <2>2. ASSUME NEW u \in Task, ReclaimTransition(u)
          PROVE  u = t
      BY <2>2 DEF ReclaimTransition, Reclaimed, TypeOK
    <2>3. ASSUME NEW u \in Task, ReclaimExpired(p, u)
          PROVE  Justified(t)
      <3>1. CASE LeaseStillExpired(u, sweep[p].at)
        <4>1. u = t
          BY <2>2, <2>3, <3>1 DEF ReclaimExpired
        <4>2. sweep[p].at \in Nat /\ sweep[p].at <= now /\ now \in Nat
          BY DEF TypeOK, SweepClockPast
        <4>3. expires[t] # NoExpiry => expires[t] \in Nat
          BY DEF TypeOK
        <4>4. QED
          BY <3>1, <4>1, <4>2, <4>3 DEF LeaseStillExpired, ExpiredAt, Justified
      <3>2. CASE ~LeaseStillExpired(u, sweep[p].at)
        BY <1>1, <2>3, <3>2 DEF ReclaimExpired, taskVars, NoReclaim
      <3>3. QED
        BY <3>1, <3>2
    <2>4. ASSUME NEW u \in Task, ReclaimWindowGone(p, u)
          PROVE  Justified(t)
      <3>1. CASE WindowStillGone(u)
        BY <2>2, <2>4, <3>1 DEF ReclaimWindowGone, WindowStillGone, Justified
      <3>2. CASE ~WindowStillGone(u)
        BY <1>1, <2>4, <3>2 DEF ReclaimWindowGone, taskVars, NoReclaim
      <3>3. QED
        BY <3>1, <3>2
    <2>5. QED
      BY <1>4, <2>1, <2>3, <2>4 DEF SweepStep
  <1>5. QED
    BY <1>1, <1>2, <1>3, <1>4 DEF Next

\* Whatever happens between a sweep's scan and its transactions, a task is
\* reclaimed only while it is active and its lease has run out, or a
\* window_gone outranks every sign of life of its worker.
THEOREM ReclaimNeverInference == Spec => ReclaimJustified
  <1> DEFINE Inv == TypeOK /\ SweepClockPast
  <1>1. Init => Inv
    BY TypeInit, SweepClockInit
  <1>2. Inv /\ [Next]_vars => Inv'
    BY TypeNext, SweepClockNext
  <1>3. Inv /\ [Next]_vars =>
          [\A t \in Task :
             Reclaimed(t) =>
               /\ status[t] = "active"
               /\ ExpiredAt(t, now) \/ gone[t]]_vars
    BY ReclaimStepJustified DEF Justified
  <1>4. QED
    BY <1>1, <1>2, <1>3, PTL DEF Spec, ReclaimJustified

(***************************************************************************)
(* The store implements TaskLifecycle.  Every operation writes the status  *)
(* of one row at most, so each maps to a step of that row or a stutter.    *)
(***************************************************************************)
Phases == [u \in Task |-> PhaseOf(status[u])]
Lives  == [u \in Task |-> MaxRetries - retry[u]]

LEMMA PhaseOfStatus ==
  /\ PhaseOf("absent") = "offered" /\ PhaseOf("pending") = "offered"
  /\ PhaseOf("active") = "underway" /\ PhaseOf("failed") = "dead"
  /\ \A s \in (Reportable \cup Recordable) \ {"active"} : PhaseOf(s) = "managed"
  BY DEF PhaseOf, Reportable, Recordable

LEMMA MovePhase ==
  ASSUME TypeOK, NEW t \in Task, NEW s, status' = [status EXCEPT ![t] = s]
  PROVE  Phases' = [Phases EXCEPT ![t] = PhaseOf(s)]
  <1>1. status'[t] = s /\ \A u \in Task \ {t} : status'[u] = status[u]
    BY DEF TypeOK
  <1>2. QED
    BY <1>1 DEF Phases, PhaseOf

LEMMA StutterStep ==
  ASSUME Phases' = Phases, retry' = retry
  PROVE  UNCHANGED Lifecycle!lifecycleVars
  BY DEF Phases, Lifecycle!lifecycleVars

LEMMA ProceedStep ==
  ASSUME TypeOK, NEW t \in Task, NEW s \in Reportable \cup Recordable,
         status' = [status EXCEPT ![t] = s], retry' = retry
  PROVE  Lifecycle!Proceed(t)
  <1>1. Phases' = [Phases EXCEPT ![t] = PhaseOf(s)]
    BY MovePhase
  <1>2. PhaseOf(s) \in {"underway", "managed"}
    BY PhaseOfStatus
  <1>3. QED
    BY <1>1, <1>2 DEF Phases, Lifecycle!Proceed

LEMMA UndoStep ==
  ASSUME TypeOK, NEW t \in Task, ReleaseClaim(t)
  PROVE  Lifecycle!Undo(t)
  <1>1. Phases' = [Phases EXCEPT ![t] = "offered"]
    <2>1. status' = [status EXCEPT ![t] = "pending"]
      BY DEF ReleaseClaim
    <2>2. Phases' = [Phases EXCEPT ![t] = PhaseOf("pending")]
      BY <2>1, MovePhase
    <2>3. QED
      BY <2>2, PhaseOfStatus
  <1>2. Phases[t] = "underway"
    BY PhaseOfStatus DEF Phases, ReleaseClaim
  <1>3. QED
    BY <1>1, <1>2 DEF Phases, ReleaseClaim, Lifecycle!Undo

LEMMA ReclaimStep ==
  ASSUME TypeOK, RetriesBounded, NEW t \in Task, status[t] = "active",
         ReclaimTransition(t)
  PROVE  Lifecycle!Retry(t) \/ Lifecycle!Die(t)
  <1>1. Phases[t] = "underway"
    BY PhaseOfStatus DEF Phases
  <1>2. MaxRetries \in Nat /\ retry[t] \in Nat /\ retry[t] <= MaxRetries
    BY ConstantsAssumption DEF TypeOK, RetriesBounded
  <1>3. CASE retry[t] >= MaxRetries
    <2>1. Phases' = [Phases EXCEPT ![t] = "dead"]
      BY <1>3, MovePhase, PhaseOfStatus DEF ReclaimTransition
    <2>2. Lives[t] = 0 /\ retry' = retry
      BY <1>2, <1>3 DEF Lives, ReclaimTransition
    <2>3. QED
      BY <1>1, <2>1, <2>2 DEF Phases, Lives, Lifecycle!Die
  <1>4. CASE ~(retry[t] >= MaxRetries)
    <2>1. Phases' = [Phases EXCEPT ![t] = "offered"]
      BY <1>4, MovePhase, PhaseOfStatus DEF ReclaimTransition
    <2>2. Lives[t] > 0
      BY <1>2, <1>4 DEF Lives
    <2>3. Lives' = [Lives EXCEPT ![t] = @ - 1]
      <3>1. retry' = [retry EXCEPT ![t] = @ + 1]
        BY <1>4 DEF ReclaimTransition
      <3>2. MaxRetries - (retry[t] + 1) = (MaxRetries - retry[t]) - 1
        BY <1>2
      <3>3. retry'[t] = retry[t] + 1 /\ \A u \in Task \ {t} : retry'[u] = retry[u]
        BY <3>1 DEF TypeOK
      <3>4. QED
        BY <3>2, <3>3 DEF Lives
    <2>4. QED
      BY <1>1, <2>1, <2>2, <2>3 DEF Phases, Lives, Lifecycle!Retry
  <1>5. QED
    BY <1>3, <1>4

LEMMA LifecycleInitially == Init => Lifecycle!LifecycleInit
  <1> SUFFICES ASSUME Init
               PROVE  Lifecycle!LifecycleInit
    OBVIOUS
  <1>1. Phases = [u \in Task |-> "offered"]
    BY PhaseOfStatus DEF Init, Phases
  <1>2. Lives = [u \in Task |-> MaxRetries]
    <2>1. MaxRetries - 0 = MaxRetries
      BY ConstantsAssumption
    <2>2. \A u \in Task : retry[u] = 0
      BY DEF Init
    <2>3. QED
      BY <2>1, <2>2 DEF Lives
  <1>3. QED
    BY <1>1, <1>2 DEF Phases, Lives, Lifecycle!LifecycleInit

LEMMA LifecycleStep ==
  ASSUME TypeOK, RetriesBounded, [Next]_vars
  PROVE  [Lifecycle!LifecycleNext]_(Lifecycle!lifecycleVars)
  <1>1. CASE status' = status /\ retry' = retry
    BY <1>1, StutterStep DEF Phases
  <1>2. CASE Tick \/ UNCHANGED vars
    BY <1>1, <1>2 DEF Tick, vars, taskVars
  <1>3. ASSUME NEW t \in Task, RowStep(t)
        PROVE  [Lifecycle!LifecycleNext]_(Lifecycle!lifecycleVars)
    <2>1. CASE CreateTask(t)
      <3>1. Phases' = [Phases EXCEPT ![t] = "offered"] /\ retry' = retry
        BY <2>1, MovePhase, PhaseOfStatus DEF CreateTask
      <3>2. Phases[t] = "offered"
        BY <2>1, PhaseOfStatus DEF CreateTask, Exists, Phases
      <3>3. Phases' = Phases
        BY <3>1, <3>2 DEF Phases
      <3>4. QED
        BY <3>1, <3>3, StutterStep
    <2>2. CASE UpsertTask(t)
      <3>1. CASE Exists(t)
        BY <1>1, <2>2, <3>1 DEF UpsertTask, TypeOK
      <3>2. CASE ~Exists(t)
        BY <2>2, <3>2, ProceedStep DEF UpsertTask, Reportable, Lifecycle!LifecycleNext
      <3>3. QED
        BY <3>1, <3>2
    <2>3. CASE \E s \in Reportable, a \in Actor : ReportStatus(t, s, a)
      BY <2>3, ProceedStep DEF ReportStatus, Lifecycle!LifecycleNext
    <2>4. CASE \E s \in Recordable : RecordTransition(t, s)
      BY <2>4, ProceedStep DEF RecordTransition, Lifecycle!LifecycleNext
    <2>5. CASE (\E a \in Actor : SetStage(t, a)) \/ AppendSpawned(t) \/ AppendWindowGone(t)
      BY <1>1, <2>5 DEF SetStage, AppendSpawned, AppendWindowGone
    <2>6. QED
      BY <1>3, <2>1, <2>2, <2>3, <2>4, <2>5 DEF RowStep
  <1>4. ASSUME NEW t \in Task, LeaseStep(t)
        PROVE  [Lifecycle!LifecycleNext]_(Lifecycle!lifecycleVars)
    <2>1. CASE ClaimTask(t)
      BY <2>1, ProceedStep DEF ClaimTask, Reportable, Lifecycle!LifecycleNext
    <2>2. CASE ReleaseClaim(t)
      BY <2>2, UndoStep DEF Lifecycle!LifecycleNext
    <2>3. CASE \/ GrantLease(t) \/ ExtendLease(t)
               \/ \E o \in LandOwner : ClaimForLand(t, o) \/ ReleaseLandClaim(t, o)
      BY <1>1, <2>3 DEF GrantLease, ExtendLease, ClaimForLand, ReleaseLandClaim
    <2>4. QED
      BY <1>4, <2>1, <2>2, <2>3 DEF LeaseStep
  <1>5. ASSUME NEW p \in Sweeper, SweepStep(p)
        PROVE  [Lifecycle!LifecycleNext]_(Lifecycle!lifecycleVars)
    <2>1. \/ status' = status /\ retry' = retry
          \/ \E t \in Task : status[t] = "active" /\ ReclaimTransition(t)
      BY <1>5 DEF SweepStep, BeginLeaseSweep, BeginGoneSweep, ReclaimExpired,
                  ReclaimWindowGone, LeaseStillExpired, WindowStillGone, EndSweep,
                  taskVars
    <2>2. QED
      BY <1>1, <2>1, ReclaimStep DEF Lifecycle!LifecycleNext
  <1>6. QED
    BY <1>2, <1>3, <1>4, <1>5 DEF Next

\* The store implements the abstract life of a task: whatever order its
\* operations come in, a task returns to the backlog only from active, undone
\* or as a counted retry, and is poison-pilled only from active and without a
\* retry left.  That a dying task has none left is what needs RetriesBounded.
THEOREM StoreImplementsLifecycle == Spec => ImplementsLifecycle
  <1> DEFINE Inv == TypeOK /\ RetriesBounded
  <1>1. Init => Inv
    BY TypeInit, RetriesInit
  <1>2. Inv /\ [Next]_vars => Inv'
    BY TypeNext, RetriesNext
  <1>3. Inv /\ [Next]_vars => [Lifecycle!LifecycleNext]_(Lifecycle!lifecycleVars)
    BY LifecycleStep
  <1>4. QED
    BY <1>1, <1>2, <1>3, LifecycleInitially, PTL
       DEF Spec, ImplementsLifecycle, Lifecycle!LifecycleSpec

--------------------------------------------------------------------------------
(***************************************************************************)
(* Delegation, for every set of parents, commands, servers, ids, tasks and *)
(* texts.  Inductive is what ties the ledger to the answers in hand, the   *)
(* briefs on disk to the rows, and a parent's record to what any command or*)
(* server still carries in its name.                                       *)
(***************************************************************************)

Asks == [on : Task \cup {"goal"} \cup Escalation, text : Text \cup {None}]
Shells == [at : {"rest", "call", "wait", "refused"}, rid : Rid \cup {None}, ask : Asks \cup {D!NoAsk}]
Servers == [at  : {"free", "begin", "look", "lint", "act", "reply", "refuse"},
            for : Shell \cup {None}, key : Parent \cup {None}, rid : Rid \cup {None},
            ask : Asks \cup {D!NoAsk}, result : Asks \cup {D!NoAsk}]
Pcs == {"free", "begin", "look", "lint", "act", "reply", "refuse"}

DelegationType ==
  /\ record \in [Parent -> [Rid -> Asks \cup {D!NoAsk}]]
  /\ shell \in [Shell -> [at  : {"rest", "call", "wait", "refused"},
                          rid : Rid \cup {None}, ask : Asks \cup {D!NoAsk}]]
  /\ \A c \in Shell : shell[c].at # "rest" => shell[c].rid \in Rid /\ shell[c].ask \in Asks
  /\ refused \in [Parent -> SUBSET Rid]
  /\ told \in SUBSET [rid : Rid, on : Task \cup {"goal"} \cup Escalation, result : Asks]
  /\ ledger \in [Rid -> Asks \cup {D!NoAsk}]
  /\ server \in [Server -> [at  : {"free", "begin", "look", "lint", "act", "reply", "refuse"},
                            for : Shell \cup {None}, key : Parent \cup {None}, rid : Rid \cup {None},
                            ask : Asks \cup {D!NoAsk}, result : Asks \cup {D!NoAsk}]]
  /\ \A s \in Server : server[s].at # "free" =>
       server[s].rid \in Rid /\ server[s].key \in Parent /\ server[s].ask \in Asks
  /\ \A s \in Server : server[s].at = "free" => server[s].ask = D!NoAsk /\ server[s].for = None
  /\ acted \in [Rid -> [times : Nat, for : Parent \cup {None}]]

\* What the answers in hand and the reports say of the ledger.
ActedInv ==
  /\ \A r \in Rid : acted[r].times = IF ledger[r] = D!NoAsk THEN 0 ELSE 1
  /\ \A s \in Server : server[s].at = "reply" =>
       ledger[server[s].rid] = server[s].result /\ server[s].result # D!NoAsk
       /\ server[s].result.on = server[s].ask.on
  /\ \A x \in told : ledger[x.rid] = x.result /\ x.result # D!NoAsk /\ x.result.on = x.on

BriefInv ==
  /\ task \in [Task -> [exists : BOOLEAN, brief : Text \cup {None}]]
  /\ brief \in [Task -> Text \cup {None}]
  /\ \A t \in Task : /\ ~task[t].exists => task[t].brief = None
                     /\ task[t].brief # None => brief[t] = task[t].brief

RecordInv ==
  /\ \A c \in Shell : shell[c].at = "refused" => shell[c].rid \in refused[Home[c]]
  /\ \A p \in Parent, r \in Rid : r \notin refused[p] =>
       /\ acted[r].for = p /\ D!Delegated(ledger[r]) => record[p][r] = ledger[r]
       /\ \A s \in Server : server[s].at # "free" /\ server[s].key = p /\ server[s].rid = r
            /\ D!Delegated(server[s].ask) => record[p][r] = server[s].ask
       /\ \A c \in Shell : shell[c].at # "rest" /\ Home[c] = p /\ shell[c].rid = r
            /\ D!Delegated(shell[c].ask) => record[p][r] = shell[c].ask

USE DelegationAssumption DEF D!NoAsk, D!Goal

LEMMA DInit == D!Init => DelegationType /\ ActedInv /\ BriefInv /\ RecordInv
<1> SUFFICES ASSUME D!Init PROVE DelegationType /\ ActedInv /\ BriefInv /\ RecordInv
  OBVIOUS
<1>1. DelegationType
  BY DEF D!Init, DelegationType, D!Resting, D!Free
<1>2. ActedInv
  BY DEF D!Init, ActedInv, D!Free
<1>3. BriefInv
  BY DEF D!Init, BriefInv, D!NoTask
<1>4. RecordInv
  BY DEF D!Init, RecordInv, D!Free, D!Resting, D!Delegated
<1> QED
  BY <1>1, <1>2, <1>3, <1>4

DInv == DelegationType /\ ActedInv /\ BriefInv /\ RecordInv

\* What one step of a command or of a server leaves.
LEMMA ShellMoves ==
  ASSUME shell \in [Shell -> Shells], NEW c \in Shell, NEW pc \in {"rest", "call", "wait", "refused"},
         shell' = [shell EXCEPT ![c].at = pc]
  PROVE  /\ shell' \in [Shell -> Shells]
         /\ shell'[c].at = pc
         /\ \A d \in Shell : shell'[d].rid = shell[d].rid /\ shell'[d].ask = shell[d].ask
         /\ \A d \in Shell : d # c => shell'[d] = shell[d]
<1>1. [shell[c] EXCEPT !.at = pc] \in Shells
  BY DEF Shells
<1>2. shell' = [shell EXCEPT ![c] = [shell[c] EXCEPT !.at = pc]]
  OBVIOUS
<1>3. shell' \in [Shell -> Shells] /\ shell'[c] = [shell[c] EXCEPT !.at = pc]
      /\ \A d \in Shell : d # c => shell'[d] = shell[d]
  BY <1>1, <1>2
<1>4. shell[c] \in Shells
  OBVIOUS
<1>5. shell'[c].at = pc /\ shell'[c].rid = shell[c].rid /\ shell'[c].ask = shell[c].ask
  BY <1>3, <1>4 DEF Shells
<1> QED
  BY <1>3, <1>5

LEMMA ServerMoves ==
  ASSUME server \in [Server -> Servers], NEW s \in Server, NEW pc \in Pcs,
         server' = [server EXCEPT ![s].at = pc]
  PROVE  /\ server' \in [Server -> Servers]
         /\ server'[s].at = pc /\ server'[s].result = server[s].result
         /\ server'[s].key = server[s].key /\ server'[s].for = server[s].for
         /\ server'[s].rid = server[s].rid /\ server'[s].ask = server[s].ask
         /\ \A x \in Server : x # s => server'[x] = server[x]
<1>1. [server[s] EXCEPT !.at = pc] \in Servers
  BY DEF Servers, Pcs
<1>2. server' = [server EXCEPT ![s] = [server[s] EXCEPT !.at = pc]]
  OBVIOUS
<1>3. server' \in [Server -> Servers] /\ server'[s] = [server[s] EXCEPT !.at = pc]
      /\ \A d \in Server : d # s => server'[d] = server[d]
  BY <1>1, <1>2
<1>4. server[s] \in Servers
  OBVIOUS
<1> QED
  BY <1>3, <1>4 DEF Servers

LEMMA ServerAnswers ==
  ASSUME server \in [Server -> Servers], NEW s \in Server, NEW pc \in Pcs,
         NEW k \in Asks \cup {D!NoAsk}, D!Answers(s, pc, k)
  PROVE  /\ server' \in [Server -> Servers]
         /\ server'[s].at = pc /\ server'[s].result = k
         /\ server'[s].key = server[s].key /\ server'[s].for = server[s].for
         /\ server'[s].rid = server[s].rid /\ server'[s].ask = server[s].ask
         /\ \A x \in Server : x # s => server'[x] = server[x]
<1>1. [server[s] EXCEPT !.at = pc, !.result = k] \in Servers
  BY DEF Servers, Pcs
<1>2. server' = [server EXCEPT ![s] = [server[s] EXCEPT !.at = pc, !.result = k]]
  BY DEF D!Answers
<1>3. server' \in [Server -> Servers] /\ server'[s] = [server[s] EXCEPT !.at = pc, !.result = k]
      /\ \A d \in Server : d # s => server'[d] = server[d]
  BY <1>1, <1>2
<1>4. server[s] \in Servers
  OBVIOUS
<1> QED
  BY <1>3, <1>4 DEF Servers

\* A command that begins has its record before anything is sent.
LEMMA BeginsKeeps ==
  ASSUME DInv, NEW c \in Shell, NEW r \in Rid, NEW q \in Asks, D!Begins(c, r, q),
         \/ D!RecordDelegation(Home[c], r, q)
         \/ ~D!Delegated(q) /\ UNCHANGED record
  PROVE  DInv'
<1>0. /\ shell' = [shell EXCEPT ![c] = [at |-> "call", rid |-> r, ask |-> q]]
      /\ shell[c].at = "rest"
      /\ UNCHANGED <<refused, told, ledger, task, brief, server, acted>>
  BY DEF D!Begins, D!peer, D!ShellAt
<1>1. Home[c] \in Parent
  OBVIOUS
<1>2. /\ record' \in [Parent -> [Rid -> Asks \cup {D!NoAsk}]]
      /\ \A p \in Parent, i \in Rid : record[p][i] # D!NoAsk => record'[p][i] = record[p][i]
      /\ D!Delegated(q) => record'[Home[c]][r] = q
  <2>1. CASE D!RecordDelegation(Home[c], r, q)
    BY <1>1, <2>1 DEF DInv, DelegationType, D!RecordDelegation
  <2>2. CASE ~D!Delegated(q) /\ UNCHANGED record
    BY <2>2 DEF DInv, DelegationType
  <2> QED BY <2>1, <2>2
<1>3. shell' \in [Shell -> Shells] /\ shell'[c] = [at |-> "call", rid |-> r, ask |-> q]
      /\ \A d \in Shell : d # c => shell'[d] = shell[d]
  BY <1>0 DEF DInv, DelegationType, Shells
<1>4. DelegationType'
  BY <1>0, <1>2, <1>3 DEF DInv, DelegationType, Shells
<1>5. ActedInv'
  BY <1>0 DEF DInv, ActedInv
<1>6. BriefInv'
  BY <1>0 DEF DInv, BriefInv
<1>7. RecordInv'
  <2>3. ASSUME NEW d \in Shell, shell'[d].at = "refused" PROVE shell'[d].rid \in refused'[Home[d]]
    BY <1>0, <1>3, <2>3 DEF DInv, RecordInv
  <2>4. ASSUME NEW p \in Parent, NEW i \in Rid, i \notin refused'[p],
               acted'[i].for = p, D!Delegated(ledger'[i])
        PROVE  record'[p][i] = ledger'[i]
    <3>1. record[p][i] = ledger[i] /\ record[p][i] # D!NoAsk
      BY <1>0, <2>4 DEF DInv, RecordInv, D!Delegated
    <3> QED BY <1>0, <1>2, <3>1
  <2>5. ASSUME NEW p \in Parent, NEW i \in Rid, i \notin refused'[p], NEW x \in Server,
               server'[x].at # "free", server'[x].key = p, server'[x].rid = i, D!Delegated(server'[x].ask)
        PROVE  record'[p][i] = server'[x].ask
    <3>1. record[p][i] = server[x].ask /\ record[p][i] # D!NoAsk
      BY <1>0, <2>5 DEF DInv, RecordInv, D!Delegated
    <3> QED BY <1>0, <1>2, <3>1
  <2>6. ASSUME NEW p \in Parent, NEW i \in Rid, i \notin refused'[p], NEW d \in Shell,
               shell'[d].at # "rest", Home[d] = p, shell'[d].rid = i, D!Delegated(shell'[d].ask)
        PROVE  record'[p][i] = shell'[d].ask
    <3>1. CASE d = c
      BY <1>2, <1>3, <2>6, <3>1
    <3>2. CASE d # c
      BY <1>0, <1>2, <1>3, <2>6, <3>2 DEF DInv, DelegationType, RecordInv, D!Delegated
    <3> QED BY <3>1, <3>2
  <2> QED
    BY <2>3, <2>4, <2>5, <2>6 DEF RecordInv, D!Delegated
<1> QED
  BY <1>4, <1>5, <1>6, <1>7 DEF DInv

\* The call hands the server what the command recorded.
LEMMA CallKeeps ==
  ASSUME DInv, NEW c \in Shell, NEW s \in Server, D!Call(c, s)
  PROVE  DInv'
<1>0. /\ server' = [server EXCEPT ![s] =
                  [D!Free EXCEPT !.at = "begin", !.for = c, !.key = Home[c],
                                 !.rid = shell[c].rid, !.ask = shell[c].ask]]
      /\ shell' = [shell EXCEPT ![c].at = "wait"]
      /\ shell[c].at = "call"
      /\ UNCHANGED <<record, refused, told, ledger, task, brief, acted>>
  BY DEF D!Call, D!ShellAt, D!ShellDoes, D!peer
<1>1. /\ Home[c] \in Parent /\ shell[c].rid \in Rid /\ shell[c].ask \in Asks
  BY <1>0 DEF DInv, DelegationType
<1>2. /\ shell' \in [Shell -> Shells]
      /\ \A d \in Shell : /\ shell'[d].rid = shell[d].rid /\ shell'[d].ask = shell[d].ask
                          /\ shell'[d].at # "rest" => shell[d].at # "rest"
                          /\ shell'[d].at = "refused" => shell[d].at = "refused"
  <2>1. shell \in [Shell -> Shells]
    BY DEF DInv, DelegationType, Shells
  <2> QED
    BY <1>0, <2>1, ShellMoves
<1>3. /\ server' \in [Server -> Servers]
      /\ server'[s].at = "begin" /\ server'[s].key = Home[c]
      /\ server'[s].rid = shell[c].rid /\ server'[s].ask = shell[c].ask
      /\ \A x \in Server : x # s => server'[x] = server[x]
  BY <1>0, <1>1 DEF DInv, DelegationType, Servers, D!Free
<1>4. DelegationType'
  BY <1>0, <1>1, <1>2, <1>3 DEF DInv, DelegationType, Shells, Servers
<1>5. ActedInv'
  BY <1>0, <1>3 DEF DInv, ActedInv
<1>6. BriefInv'
  BY <1>0 DEF DInv, BriefInv
<1>7. RecordInv'
  <2>1. \A d \in Shell : shell'[d].at = "refused" => shell'[d].rid \in refused'[Home[d]]
    BY <1>0, <1>2 DEF DInv, RecordInv
  <2>2. ASSUME NEW p \in Parent, NEW i \in Rid, i \notin refused'[p], NEW x \in Server,
               server'[x].at # "free", server'[x].key = p, server'[x].rid = i, D!Delegated(server'[x].ask)
        PROVE  record'[p][i] = server'[x].ask
    <3>1. CASE x = s
      BY <1>0, <1>3, <2>2, <3>1 DEF DInv, RecordInv, D!Delegated
    <3>2. CASE x # s
      BY <1>0, <1>3, <2>2, <3>2 DEF DInv, RecordInv, D!Delegated
    <3> QED BY <3>1, <3>2
  <2> QED
    BY <1>0, <1>2, <2>1, <2>2 DEF DInv, RecordInv, D!Delegated
<1> QED
  BY <1>4, <1>5, <1>6, <1>7 DEF DInv

\* Giving up leaves the record; forgetting needs a refusal.
LEMMA ShellKeeps ==
  ASSUME DInv, NEW c \in Shell, D!GivesUp(c) \/ D!ForgetDelegation(c)
  PROVE  DInv'
<1>0. /\ shell' = [shell EXCEPT ![c] = D!Resting]
      /\ UNCHANGED <<refused, told, ledger, task, brief, acted>>
  BY DEF D!GivesUp, D!ForgetDelegation, D!peer
<1>1. shell' \in [Shell -> Shells] /\ shell'[c].at = "rest" /\ \A d \in Shell : d # c => shell'[d] = shell[d]
  BY <1>0 DEF DInv, DelegationType, Shells, D!Resting
<1>2. /\ server' \in [Server -> Servers]
      /\ \A x \in Server : /\ server'[x].at = server[x].at /\ server'[x].key = server[x].key
                           /\ server'[x].rid = server[x].rid /\ server'[x].ask = server[x].ask
                           /\ server'[x].result = server[x].result
                           /\ server'[x].for \in {None, server[x].for}
  <2>1. CASE D!GivesUp(c)
    <3>1. server' = [x \in Server |-> IF server[x].for = c THEN [server[x] EXCEPT !.for = None]
                                                           ELSE server[x]]
      BY <2>1 DEF D!GivesUp, D!Orphaned
    <3>2. ASSUME NEW x \in Server
          PROVE  /\ server'[x] \in Servers
                 /\ server'[x].at = server[x].at /\ server'[x].key = server[x].key
                 /\ server'[x].rid = server[x].rid /\ server'[x].ask = server[x].ask
                 /\ server'[x].result = server[x].result
                 /\ server'[x].for \in {None, server[x].for}
      <4>1. server[x] \in Servers
        BY DEF DInv, DelegationType, Servers
      <4> QED
        BY <3>1, <4>1 DEF Servers
    <3> QED BY <3>1, <3>2
  <2>2. CASE D!ForgetDelegation(c)
    BY <2>2 DEF DInv, DelegationType, Servers, D!ForgetDelegation
  <2> QED BY <2>1, <2>2
<1>3. /\ record' \in [Parent -> [Rid -> Asks \cup {D!NoAsk}]]
      /\ \A p \in Parent, i \in Rid : i \notin refused[p] => record'[p][i] = record[p][i]
  <2>1. CASE D!GivesUp(c)
    BY <2>1 DEF DInv, DelegationType, D!GivesUp
  <2>2. CASE D!ForgetDelegation(c)
    <3>1. shell[c].rid \in refused[Home[c]] /\ shell[c].rid \in Rid
      BY <2>2 DEF DInv, DelegationType, RecordInv, D!ForgetDelegation, D!ShellAt
    <3>2. record' \in {record, [record EXCEPT ![Home[c]][shell[c].rid] = D!NoAsk]}
      BY <2>2 DEF D!ForgetDelegation
    <3>3. Home[c] \in Parent /\ record \in [Parent -> [Rid -> Asks \cup {D!NoAsk}]]
      BY DEF DInv, DelegationType
    <3>4. CASE record' = record
      BY <3>3, <3>4
    <3>5. CASE record' = [record EXCEPT ![Home[c]][shell[c].rid] = D!NoAsk]
      BY <3>1, <3>3, <3>5
    <3> QED BY <3>2, <3>4, <3>5
  <2> QED BY <2>1, <2>2
<1>4. DelegationType'
  BY <1>0, <1>1, <1>2, <1>3 DEF DInv, DelegationType, Shells, Servers
<1>5. ActedInv'
  BY <1>0, <1>2 DEF DInv, ActedInv
<1>6. BriefInv'
  BY <1>0 DEF DInv, BriefInv
<1>7. RecordInv'
  <2>1. \A d \in Shell : shell'[d].at = "refused" => shell'[d].rid \in refused'[Home[d]]
    BY <1>0, <1>1 DEF DInv, RecordInv
  <2>2. ASSUME NEW p \in Parent, NEW i \in Rid, i \notin refused'[p], NEW d \in Shell,
               shell'[d].at # "rest", Home[d] = p, shell'[d].rid = i, D!Delegated(shell'[d].ask)
        PROVE  record'[p][i] = shell'[d].ask
    BY <1>0, <1>1, <1>3, <2>2 DEF DInv, RecordInv, D!Delegated
  <2>3. ASSUME NEW p \in Parent, NEW i \in Rid, i \notin refused'[p], NEW x \in Server,
               server'[x].at # "free", server'[x].key = p, server'[x].rid = i, D!Delegated(server'[x].ask)
        PROVE  record'[p][i] = server'[x].ask
    BY <1>0, <1>2, <1>3, <2>3 DEF DInv, RecordInv, D!Delegated
  <2>4. ASSUME NEW p \in Parent, NEW i \in Rid, i \notin refused'[p],
               acted'[i].for = p, D!Delegated(ledger'[i])
        PROVE  record'[p][i] = ledger'[i]
    BY <1>0, <1>3, <2>4 DEF DInv, RecordInv, D!Delegated
  <2> QED
    BY <2>1, <2>2, <2>3, <2>4 DEF RecordInv, D!Delegated
<1> QED
  BY <1>4, <1>5, <1>6, <1>7 DEF DInv

\* A step of one server that touches nothing else keeps the invariant, if what it has
\* to reply is what the ledger holds.
LEMMA ServerKeeps ==
  ASSUME DInv, NEW s \in Server,
         UNCHANGED <<record, shell, refused, told, ledger, acted>>, BriefInv',
         server' \in [Server -> Servers], \A x \in Server : x # s => server'[x] = server[x],
         \/ server'[s].at = "free" /\ server'[s].ask = D!NoAsk /\ server'[s].for = None
         \/ /\ server[s].at # "free" /\ server'[s].at # "free" /\ server'[s].key = server[s].key
            /\ server'[s].rid = server[s].rid /\ server'[s].ask = server[s].ask,
         server'[s].at = "reply" =>
           /\ ledger[server'[s].rid] = server'[s].result /\ server'[s].result # D!NoAsk
           /\ server'[s].result.on = server'[s].ask.on
  PROVE  DInv'
<1>1. DelegationType'
  <2>1. \A x \in Server : server'[x].at # "free" =>
          server'[x].rid \in Rid /\ server'[x].key \in Parent /\ server'[x].ask \in Asks
    BY DEF DInv, DelegationType
  <2>2. \A x \in Server : server'[x].at = "free" => server'[x].ask = D!NoAsk /\ server'[x].for = None
    BY DEF DInv, DelegationType
  <2> QED
    BY <2>1, <2>2 DEF DInv, DelegationType, Servers
<1>2. ActedInv'
  BY DEF DInv, ActedInv
<1>3. RecordInv'
  <2>1. ASSUME NEW p \in Parent, NEW i \in Rid, i \notin refused'[p], NEW x \in Server,
               server'[x].at # "free", server'[x].key = p, server'[x].rid = i, D!Delegated(server'[x].ask)
        PROVE  record'[p][i] = server'[x].ask
    <3>1. server[x].at # "free" /\ server[x].key = p /\ server[x].rid = i
          /\ server[x].ask = server'[x].ask /\ i \notin refused[p]
      BY <2>1
    <3> QED BY <2>1, <3>1 DEF DInv, RecordInv, D!Delegated
  <2>2. \A d \in Shell : shell'[d].at = "refused" => shell'[d].rid \in refused'[Home[d]]
    BY DEF DInv, RecordInv
  <2>3. ASSUME NEW p \in Parent, NEW i \in Rid, i \notin refused'[p],
               acted'[i].for = p, D!Delegated(ledger'[i])
        PROVE  record'[p][i] = ledger'[i]
    BY <2>3 DEF DInv, RecordInv, D!Delegated
  <2>4. ASSUME NEW p \in Parent, NEW i \in Rid, i \notin refused'[p], NEW d \in Shell,
               shell'[d].at # "rest", Home[d] = p, shell'[d].rid = i, D!Delegated(shell'[d].ask)
        PROVE  record'[p][i] = shell'[d].ask
    BY <2>4 DEF DInv, RecordInv, D!Delegated
  <2> QED
    BY <2>1, <2>2, <2>3, <2>4 DEF RecordInv, D!Delegated
<1> QED
  BY <1>1, <1>2, <1>3 DEF DInv

\* The steps of a server that only read the peer.
LEMMA ReadsKeep ==
  ASSUME DInv, NEW s \in Server,
         \/ D!ServeTaskAdd(s) \/ D!ServeGoal(s) \/ D!ServeAnswer(s) \/ D!StoredTaskAdd(s)
         \/ D!AddBacklogTask(s) \/ D!Replays(s) \/ D!Conflicts(s) \/ D!ServerDies(s)
  PROVE  DInv'
<1>0. UNCHANGED <<record, shell, refused, told, ledger, task, brief, acted>>
  BY DEF D!ServeTaskAdd, D!ServeGoal, D!ServeAnswer, D!StoredTaskAdd, D!AddBacklogTask, D!Replays,
         D!Conflicts, D!ServerDies, D!Begun, D!parents, D!peer
<1>1. server \in [Server -> Servers]
  BY DEF DInv, DelegationType, Servers
<1>2. BriefInv'
  BY <1>0 DEF DInv, BriefInv
<1>3. CASE \E pc \in Pcs \ {"free", "reply"} : D!ServerDoes(s, pc) /\ server[s].at # "free"
  <2>1. PICK pc \in Pcs \ {"free", "reply"} : server' = [server EXCEPT ![s].at = pc] /\ server[s].at # "free"
    BY <1>3 DEF D!ServerDoes
  <2>2. /\ server' \in [Server -> Servers] /\ server'[s].at = pc
        /\ server'[s].key = server[s].key /\ server'[s].rid = server[s].rid
        /\ server'[s].ask = server[s].ask /\ \A x \in Server : x # s => server'[x] = server[x]
    BY <1>1, <2>1, ServerMoves DEF Pcs
  <2>3. pc # "reply" /\ pc # "free"
    OBVIOUS
  <2> QED
    BY <1>0, <1>2, <2>1, <2>2, <2>3, ServerKeeps
<1>4. CASE D!ServeTaskAdd(s) \/ D!ServeGoal(s) \/ D!ServeAnswer(s) \/ D!AddBacklogTask(s) \/ D!Conflicts(s)
  BY <1>3, <1>4 DEF D!ServeTaskAdd, D!ServeGoal, D!ServeAnswer, D!AddBacklogTask, D!Conflicts,
     D!Begun, D!CheckParent, D!ServerAt, Pcs
<1>5. CASE D!ServerDies(s)
  <2>1. server' = [server EXCEPT ![s] = D!Free]
    BY <1>5 DEF D!ServerDies
  <2>2. /\ server' \in [Server -> Servers] /\ server'[s].at = "free"
        /\ server'[s].ask = D!NoAsk /\ server'[s].for = None
        /\ \A x \in Server : x # s => server'[x] = server[x]
    BY <1>1, <2>1 DEF D!Free, Servers
  <2> QED
    BY <1>0, <1>2, <2>2, ServerKeeps
<1>6. ASSUME NEW k \in Asks \cup {D!NoAsk}, k = ledger[server[s].rid], k # D!NoAsk, server[s].at # "free",
             D!Answers(s, IF D!SameRequest(k, server[s].ask) THEN "reply" ELSE "refuse", k)
      PROVE  DInv'
  <2>1. CASE D!SameRequest(k, server[s].ask)
    <3>1. D!Answers(s, "reply", k) /\ k.on = server[s].ask.on
      BY <1>6, <2>1 DEF D!SameRequest
    <3>2. /\ server' \in [Server -> Servers] /\ server'[s].at = "reply" /\ server'[s].result = k
          /\ server'[s].key = server[s].key /\ server'[s].rid = server[s].rid
          /\ server'[s].ask = server[s].ask /\ \A x \in Server : x # s => server'[x] = server[x]
      BY <1>1, <1>6, <3>1, ServerAnswers DEF Pcs
    <3> QED
      BY <1>0, <1>2, <1>6, <3>1, <3>2, ServerKeeps
  <2>2. CASE ~D!SameRequest(k, server[s].ask)
    <3>1. D!Answers(s, "refuse", k)
      BY <1>6, <2>2
    <3>2. /\ server' \in [Server -> Servers] /\ server'[s].at = "refuse"
          /\ server'[s].key = server[s].key /\ server'[s].rid = server[s].rid
          /\ server'[s].ask = server[s].ask /\ \A x \in Server : x # s => server'[x] = server[x]
      BY <1>1, <1>6, <3>1, ServerAnswers DEF Pcs
    <3> QED
      BY <1>0, <1>2, <1>6, <3>2, ServerKeeps
  <2> QED BY <2>1, <2>2
<1>7. CASE D!StoredTaskAdd(s)
  <2>1. server[s].at = "look"
    BY <1>7 DEF D!StoredTaskAdd, D!ServerAt
  <2>2. ledger[server[s].rid] \in Asks \cup {D!NoAsk}
    BY <2>1 DEF DInv, DelegationType
  <2>3. CASE ledger[server[s].rid] = D!NoAsk
    BY <1>3, <1>7, <2>1, <2>3 DEF D!StoredTaskAdd, Pcs
  <2>4. CASE ledger[server[s].rid] # D!NoAsk
    BY <1>6, <1>7, <2>1, <2>2, <2>4 DEF D!StoredTaskAdd
  <2> QED BY <2>3, <2>4
<1>8. CASE D!Replays(s)
  <2>1. server[s].at = "act"
    BY <1>8 DEF D!Replays, D!ServerAt
  <2>2. ledger[server[s].rid] \in Asks \cup {D!NoAsk}
    BY <2>1 DEF DInv, DelegationType
  <2> QED
    BY <1>6, <1>8, <2>1, <2>2 DEF D!Replays, D!StoredRequest
<1> QED
  BY <1>4, <1>5, <1>7, <1>8

\* A server that acts: what it writes in the ledger is what it has to reply.
LEMMA ActsKeep ==
  ASSUME DInv, NEW s \in Server, D!Acts(s)
  PROVE  DInv'
<1> DEFINE r == server[s].rid
           ask == server[s].ask
<1>0. /\ server[s].at = "act" /\ ledger[r] = D!NoAsk
      /\ ledger' = [ledger EXCEPT ![r] = ask]
      /\ acted' = [acted EXCEPT ![r] = [times |-> @.times + 1, for |-> server[s].key]]
      /\ D!Answers(s, "reply", ask)
      /\ UNCHANGED <<record, shell, refused, told>>
  BY DEF D!Acts, D!ServerAt, D!StoredRequest, D!parents
<1>1. r \in Rid /\ server[s].key \in Parent /\ ask \in Asks /\ ask # D!NoAsk
  BY <1>0 DEF DInv, DelegationType, Asks
<1>2. /\ server' \in [Server -> Servers] /\ server'[s].at = "reply" /\ server'[s].result = ask
      /\ server'[s].key = server[s].key /\ server'[s].rid = r /\ server'[s].ask = ask
      /\ \A x \in Server : x # s => server'[x] = server[x]
  <2>1. server \in [Server -> Servers]
    BY DEF DInv, DelegationType, Servers
  <2> QED BY <1>0, <1>1, <2>1, ServerAnswers DEF Pcs
<1>3. /\ ledger' \in [Rid -> Asks \cup {D!NoAsk}] /\ ledger'[r] = ask
      /\ \A i \in Rid : i # r => ledger'[i] = ledger[i]
  BY <1>0, <1>1 DEF DInv, DelegationType
<1>4. /\ acted' \in [Rid -> [times : Nat, for : Parent \cup {None}]]
      /\ acted'[r].times = 1 /\ acted'[r].for = server[s].key
      /\ \A i \in Rid : i # r => acted'[i] = acted[i]
  <2>1. acted[r].times = 0
    BY <1>0, <1>1 DEF DInv, ActedInv
  <2>2. acted' = [acted EXCEPT ![r] = [times |-> acted[r].times + 1, for |-> server[s].key]]
    BY <1>0
  <2>3. acted' = [acted EXCEPT ![r] = [times |-> 1, for |-> server[s].key]]
    BY <2>1, <2>2
  <2> QED BY <1>1, <2>3 DEF DInv, DelegationType
<1>5. DelegationType'
  <2>1. \A x \in Server : /\ server'[x].at # "free" =>
                             server'[x].rid \in Rid /\ server'[x].key \in Parent /\ server'[x].ask \in Asks
                        /\ server'[x].at = "free" => server'[x].ask = D!NoAsk /\ server'[x].for = None
    BY <1>1, <1>2 DEF DInv, DelegationType
  <2> QED BY <1>0, <1>2, <1>3, <1>4, <2>1 DEF DInv, DelegationType, Servers
<1>6. ActedInv'
  <2>1. \A i \in Rid : acted'[i].times = IF ledger'[i] = D!NoAsk THEN 0 ELSE 1
    BY <1>1, <1>3, <1>4 DEF DInv, ActedInv
  <2>2. ASSUME NEW x \in Server, server'[x].at = "reply"
        PROVE  ledger'[server'[x].rid] = server'[x].result /\ server'[x].result # D!NoAsk
               /\ server'[x].result.on = server'[x].ask.on
    <3>1. CASE x = s
      BY <1>1, <1>2, <1>3, <3>1
    <3>2. CASE x # s
      <4>1. server'[x] = server[x] /\ server[x].rid \in Rid
        BY <1>2, <2>2, <3>2 DEF DInv, DelegationType
      <4>2. ledger[server[x].rid] = server[x].result /\ server[x].result # D!NoAsk
            /\ server[x].result.on = server[x].ask.on
        BY <2>2, <4>1 DEF DInv, ActedInv
      <4>3. server[x].rid # r
        BY <1>0, <4>2
      <4> QED BY <1>3, <4>1, <4>2, <4>3
    <3> QED BY <3>1, <3>2
  <2>3. ASSUME NEW x \in told'
        PROVE  ledger'[x.rid] = x.result /\ x.result # D!NoAsk /\ x.result.on = x.on
    <3>1. x \in told
      BY <1>0
    <3>2. ledger[x.rid] = x.result /\ x.result # D!NoAsk /\ x.result.on = x.on
      BY <3>1 DEF DInv, ActedInv
    <3>3. x.rid \in Rid /\ x.rid # r
      BY <1>0, <3>1, <3>2 DEF DInv, DelegationType
    <3> QED BY <1>3, <3>2, <3>3
  <2> QED BY <2>1, <2>2, <2>3 DEF ActedInv
<1>7. BriefInv'
  <2>1. CASE ask.on \in Task
    <3>1. /\ task' = [task EXCEPT ![ask.on] = [exists |-> TRUE, brief |-> ask.text]]
          /\ brief' = [brief EXCEPT ![ask.on] = ask.text] /\ ask.text \in Text \cup {None}
      BY <1>1, <2>1 DEF D!Acts, Asks
    <3> QED BY <2>1, <3>1 DEF DInv, BriefInv
  <2>2. CASE ask.on \notin Task
    BY <2>2 DEF D!Acts, DInv, BriefInv
  <2> QED BY <2>1, <2>2
<1>8. RecordInv'
  <2>1. \A d \in Shell : shell'[d].at = "refused" => shell'[d].rid \in refused'[Home[d]]
    BY <1>0 DEF DInv, RecordInv
  <2>2. ASSUME NEW p \in Parent, NEW i \in Rid, i \notin refused'[p],
               acted'[i].for = p, D!Delegated(ledger'[i])
        PROVE  record'[p][i] = ledger'[i]
    <3>1. CASE i = r
      BY <1>0, <1>3, <1>4, <2>2, <3>1 DEF DInv, RecordInv, D!Delegated
    <3>2. CASE i # r
      BY <1>0, <1>3, <1>4, <2>2, <3>2 DEF DInv, RecordInv, D!Delegated
    <3> QED BY <3>1, <3>2
  <2>3. ASSUME NEW p \in Parent, NEW i \in Rid, i \notin refused'[p], NEW x \in Server,
               server'[x].at # "free", server'[x].key = p, server'[x].rid = i, D!Delegated(server'[x].ask)
        PROVE  record'[p][i] = server'[x].ask
    <3>1. server[x].at # "free" /\ server[x].key = p /\ server[x].rid = i
          /\ server[x].ask = server'[x].ask /\ i \notin refused[p]
      BY <1>0, <1>2, <2>3
    <3> QED BY <1>0, <2>3, <3>1 DEF DInv, RecordInv, D!Delegated
  <2>4. ASSUME NEW p \in Parent, NEW i \in Rid, i \notin refused'[p], NEW d \in Shell,
               shell'[d].at # "rest", Home[d] = p, shell'[d].rid = i, D!Delegated(shell'[d].ask)
        PROVE  record'[p][i] = shell'[d].ask
    BY <1>0, <2>4 DEF DInv, RecordInv, D!Delegated
  <2> QED BY <2>1, <2>2, <2>3, <2>4 DEF RecordInv, D!Delegated
<1> QED BY <1>5, <1>6, <1>7, <1>8 DEF DInv

\* A commit that fails leaves at most a brief, of a task that is not there.
LEMMA CommitFailsKeeps ==
  ASSUME DInv, NEW s \in Server, D!CommitFails(s)
  PROVE  DInv'
<1>0. /\ server[s].at = "act" /\ server' = [server EXCEPT ![s].at = "refuse"]
      /\ UNCHANGED <<record, shell, refused, told, ledger, task, acted>>
  BY DEF D!CommitFails, D!ServerAt, D!ServerDoes, D!parents
<1>1. /\ server' \in [Server -> Servers] /\ server'[s].at = "refuse"
      /\ server'[s].key = server[s].key /\ server'[s].rid = server[s].rid
      /\ server'[s].ask = server[s].ask /\ \A x \in Server : x # s => server'[x] = server[x]
  <2>1. server \in [Server -> Servers]
    BY DEF DInv, DelegationType, Servers
  <2> QED BY <1>0, <2>1, ServerMoves DEF Pcs
<1>2. BriefInv'
  <2>1. CASE server[s].ask.on \in Task
    <3>1. ~task[server[s].ask.on].exists /\ brief' = [brief EXCEPT ![server[s].ask.on] = server[s].ask.text]
      BY <2>1 DEF D!CommitFails, D!Taken
    <3>2. server[s].ask.text \in Text \cup {None}
      BY <1>0 DEF DInv, DelegationType, Asks
    <3> QED BY <1>0, <2>1, <3>1, <3>2 DEF DInv, BriefInv
  <2>2. CASE server[s].ask.on \notin Task
    <3>1. brief' = brief
      BY <2>2 DEF D!CommitFails
    <3> QED BY <1>0, <3>1 DEF DInv, BriefInv
  <2> QED BY <2>1, <2>2
<1> QED
  BY <1>0, <1>1, <1>2, ServerKeeps

\* A server answers at most one command, and that command waits for it.
ForInv ==
  \A s \in Server : server[s].for # None =>
    /\ server[s].for \in Shell
    /\ shell[server[s].for].at = "wait" /\ shell[server[s].for].rid = server[s].rid
    /\ \A x \in Server : server[x].for = server[s].for => x = s

LEMMA ReplyKeeps ==
  ASSUME DInv, ForInv, NEW s \in Server, D!Reply(s)
  PROVE  DInv'
<1> DEFINE c == server[s].for
<1>0. /\ server[s].at \in {"reply", "refuse"} /\ server' = [server EXCEPT ![s] = D!Free]
      /\ UNCHANGED <<record, ledger, task, brief, acted>>
  BY DEF D!Reply, D!peer
<1>1. /\ server' \in [Server -> Servers] /\ server'[s] = D!Free
      /\ server'[s].at = "free" /\ server'[s].ask = D!NoAsk /\ server'[s].for = None
      /\ \A x \in Server : x # s => server'[x] = server[x]
  BY <1>0 DEF DInv, DelegationType, Servers, D!Free
<1>2. BriefInv'
  BY <1>0 DEF DInv, BriefInv
<1>3. CASE c = None
  <2>1. UNCHANGED <<shell, refused, told>>
    BY <1>3 DEF D!Reply
  <2> QED BY <1>0, <1>1, <1>2, <2>1, ServerKeeps
<1>4. CASE c # None
  <2>0. c \in Shell /\ shell[c].at = "wait" /\ shell[c].rid = server[s].rid /\ Home[c] \in Parent
        /\ server[s].rid \in Rid
    BY <1>0, <1>4 DEF ForInv, DInv, DelegationType
  <2>1. /\ refused' \in [Parent -> SUBSET Rid]
        /\ \A p \in Parent : refused[p] \subseteq refused'[p]
        /\ shell' \in [Shell -> Shells]
        /\ \A d \in Shell : shell'[d].at # "rest" =>
             shell[d].at # "rest" /\ shell'[d].rid = shell[d].rid /\ shell'[d].ask = shell[d].ask
        /\ \A d \in Shell : shell'[d].at = "refused" => shell'[d].rid \in refused'[Home[d]]
        /\ told' \in {told, told \cup {[rid |-> server[s].rid, on |-> server[s].ask.on, result |-> server[s].result]}}
        /\ server[s].at = "refuse" => told' = told
    <3>1. CASE server[s].at = "reply"
      <4>1. /\ shell' = [shell EXCEPT ![c] = D!Resting] /\ refused' = refused
            /\ told' = told \cup {[rid |-> server[s].rid, on |-> server[s].ask.on, result |-> server[s].result]}
        BY <1>4, <3>1 DEF D!Reply
      <4>2. shell' \in [Shell -> Shells] /\ shell'[c].at = "rest" /\ \A d \in Shell : d # c => shell'[d] = shell[d]
        BY <2>0, <4>1 DEF DInv, DelegationType, Shells, D!Resting
      <4> QED BY <2>0, <3>1, <4>1, <4>2 DEF DInv, DelegationType, RecordInv
    <3>2. CASE server[s].at = "refuse"
      <4>1. /\ shell' = [shell EXCEPT ![c].at = "refused"] /\ told' = told
            /\ refused' = [refused EXCEPT ![Home[c]] = @ \cup {server[s].rid}]
        BY <1>4, <3>2 DEF D!Reply, D!ShellDoes
      <4>2. shell \in [Shell -> Shells]
        BY DEF DInv, DelegationType, Shells
      <4>3. /\ shell' \in [Shell -> Shells] /\ shell'[c].at = "refused"
            /\ \A d \in Shell : shell'[d].rid = shell[d].rid /\ shell'[d].ask = shell[d].ask
            /\ \A d \in Shell : d # c => shell'[d] = shell[d]
        BY <2>0, <4>1, <4>2, ShellMoves
      <4>4. /\ refused' \in [Parent -> SUBSET Rid] /\ server[s].rid \in refused'[Home[c]]
            /\ \A p \in Parent : refused[p] \subseteq refused'[p]
        BY <2>0, <4>1 DEF DInv, DelegationType
      <4>5. ASSUME NEW d \in Shell, shell'[d].at = "refused" PROVE shell'[d].rid \in refused'[Home[d]]
        <5>1. CASE d = c
          BY <2>0, <4>3, <4>4, <5>1
        <5>2. CASE d # c
          <6>1. shell[d].at = "refused" /\ Home[d] \in Parent
            BY <4>3, <4>5, <5>2
          <6> QED BY <4>3, <4>4, <5>2, <6>1 DEF DInv, RecordInv
        <5> QED BY <5>1, <5>2
      <4>6. ASSUME NEW d \in Shell, shell'[d].at # "rest" PROVE shell[d].at # "rest"
        BY <2>0, <4>3, <4>6
      <4> QED BY <3>2, <4>1, <4>3, <4>4, <4>5, <4>6
    <3> QED BY <1>0, <3>1, <3>2
  <2>2. ASSUME NEW x \in told'
        PROVE  /\ x \in [rid : Rid, on : Task \cup {"goal"} \cup Escalation, result : Asks]
               /\ ledger[x.rid] = x.result /\ x.result # D!NoAsk /\ x.result.on = x.on
    <3>1. CASE x \in told
      BY <3>1 DEF DInv, DelegationType, ActedInv
    <3>2. CASE x \notin told
      <4>1. x = [rid |-> server[s].rid, on |-> server[s].ask.on, result |-> server[s].result]
        BY <2>1, <2>2, <3>2
      <4>2. server[s].at = "reply"
        BY <1>0, <2>1, <2>2, <3>2
      <4>3. /\ ledger[server[s].rid] = server[s].result /\ server[s].result # D!NoAsk
            /\ server[s].result.on = server[s].ask.on /\ server[s].ask \in Asks
            /\ server[s].result \in Asks
        BY <4>2 DEF DInv, ActedInv, DelegationType
      <4> QED BY <2>0, <4>1, <4>3 DEF Asks
    <3> QED BY <3>1, <3>2
  <2>3. DelegationType'
    <3>1. \A d \in Shell : shell'[d].at # "rest" => shell'[d].rid \in Rid /\ shell'[d].ask \in Asks
      BY <2>1 DEF DInv, DelegationType
    <3>2. told' \in SUBSET [rid : Rid, on : Task \cup {"goal"} \cup Escalation, result : Asks]
      BY <2>2
    <3>3. \A x \in Server : /\ server'[x].at # "free" =>
                               server'[x].rid \in Rid /\ server'[x].key \in Parent /\ server'[x].ask \in Asks
                          /\ server'[x].at = "free" => server'[x].ask = D!NoAsk /\ server'[x].for = None
      BY <1>1 DEF DInv, DelegationType
    <3> QED BY <1>0, <1>1, <2>1, <3>1, <3>2, <3>3 DEF DInv, DelegationType, Servers, Shells
  <2>4. ActedInv'
    BY <1>0, <1>1, <2>2 DEF DInv, ActedInv
  <2>5. RecordInv'
    <3>2. ASSUME NEW p \in Parent, NEW i \in Rid, i \notin refused'[p],
                 acted'[i].for = p, D!Delegated(ledger'[i])
          PROVE  record'[p][i] = ledger'[i]
      BY <1>0, <2>1, <3>2 DEF DInv, RecordInv, D!Delegated
    <3>3. ASSUME NEW p \in Parent, NEW i \in Rid, i \notin refused'[p], NEW x \in Server,
                 server'[x].at # "free", server'[x].key = p, server'[x].rid = i, D!Delegated(server'[x].ask)
          PROVE  record'[p][i] = server'[x].ask
      <4>1. x # s /\ server'[x] = server[x] /\ i \notin refused[p]
        BY <1>1, <2>1, <3>3
      <4> QED BY <1>0, <3>3, <4>1 DEF DInv, RecordInv, D!Delegated
    <3>4. ASSUME NEW p \in Parent, NEW i \in Rid, i \notin refused'[p], NEW d \in Shell,
                 shell'[d].at # "rest", Home[d] = p, shell'[d].rid = i, D!Delegated(shell'[d].ask)
          PROVE  record'[p][i] = shell'[d].ask
      <4>1. shell[d].at # "rest" /\ shell[d].rid = i /\ shell[d].ask = shell'[d].ask /\ i \notin refused[p]
        BY <2>1, <3>4
      <4> QED BY <1>0, <3>4, <4>1 DEF DInv, RecordInv, D!Delegated
    <3> QED BY <2>1, <3>2, <3>3, <3>4 DEF RecordInv, D!Delegated
  <2> QED BY <1>2, <2>3, <2>4, <2>5 DEF DInv
<1> QED BY <1>3, <1>4

\* A task added at the peer itself, another parent's adoption.
LEMMA OthersKeep ==
  ASSUME DInv,
         \/ \E t \in Task, text \in Text \cup {None} : D!AddLocally(t, text)
         \/ \E p \in Parent : D!Adopt(p)
  PROVE  DInv'
<1>0. UNCHANGED <<record, shell, refused, told, ledger, server, acted>>
  BY DEF D!AddLocally, D!Adopt, D!parents
<1>1. BriefInv'
  <2>1. ASSUME NEW t \in Task, NEW text \in Text \cup {None}, D!AddLocally(t, text) PROVE BriefInv'
    <3>1. /\ ~task[t].exists /\ task' = [task EXCEPT ![t] = [exists |-> TRUE, brief |-> text]]
          /\ brief' = IF text = None THEN brief ELSE [brief EXCEPT ![t] = text]
      BY <2>1 DEF D!AddLocally
    <3> QED BY <3>1 DEF DInv, BriefInv
  <2>2. ASSUME NEW p \in Parent, D!Adopt(p) PROVE BriefInv'
    BY <2>2 DEF D!Adopt, DInv, BriefInv
  <2> QED BY <2>1, <2>2
<1> QED
  BY <1>0, <1>1 DEF DInv, DelegationType, ActedInv, RecordInv, D!Delegated

LEMMA ForInit == D!Init => ForInv
  BY DEF D!Init, ForInv, D!Free

LEMMA ForKeeps ==
  ASSUME DelegationType, ForInv, D!Next
  PROVE  ForInv'
<1>1. ASSUME NEW c \in Shell, NEW r \in Rid, NEW q, D!Begins(c, r, q) PROVE ForInv'
  <2>1. /\ shell[c].at = "rest" /\ server' = server
        /\ shell' = [shell EXCEPT ![c] = [at |-> "call", rid |-> r, ask |-> q]]
    BY <1>1 DEF D!Begins, D!ShellAt
  <2>2. \A d \in Shell : shell[d].at = "wait" => shell'[d] = shell[d]
    BY <2>1 DEF DelegationType
  <2> QED BY <2>1, <2>2 DEF ForInv
<1>2. ASSUME NEW c \in Shell, NEW s \in Server, D!Call(c, s) PROVE ForInv'
  <2>1. /\ shell[c].at = "call" /\ shell' = [shell EXCEPT ![c].at = "wait"]
        /\ server' = [server EXCEPT ![s] = [D!Free EXCEPT !.at = "begin", !.for = c, !.key = Home[c],
                                                       !.rid = shell[c].rid, !.ask = shell[c].ask]]
    BY <1>2 DEF D!Call, D!ShellAt, D!ShellDoes
  <2>2. shell \in [Shell -> Shells]
    BY DEF DelegationType, Shells
  <2>3. /\ shell'[c].at = "wait" /\ \A d \in Shell : shell'[d].rid = shell[d].rid
        /\ \A d \in Shell : d # c => shell'[d] = shell[d]
    BY <2>1, <2>2, ShellMoves
  <2>4. /\ server'[s].for = c /\ server'[s].rid = shell[c].rid
        /\ \A x \in Server : x # s => server'[x] = server[x]
    BY <2>1 DEF DelegationType, D!Free
  <2>5. \A x \in Server : server[x].for # c
    BY <2>1 DEF ForInv
  <2> QED BY <2>3, <2>4, <2>5 DEF ForInv
<1>3. ASSUME NEW c \in Shell, D!GivesUp(c) PROVE ForInv'
  <2>1. /\ shell' = [shell EXCEPT ![c] = D!Resting]
        /\ server' = [x \in Server |-> IF server[x].for = c THEN [server[x] EXCEPT !.for = None]
                                                            ELSE server[x]]
    BY <1>3 DEF D!GivesUp, D!Orphaned
  <2>2. \A d \in Shell : d # c => shell'[d] = shell[d]
    BY <2>1 DEF DelegationType
  <2>3. ASSUME NEW x \in Server
        PROVE  /\ server[x].for = c => server'[x].for = None
               /\ server[x].for # c => server'[x] = server[x]
    <3>1. server[x] \in Servers
      BY DEF DelegationType, Servers
    <3> QED BY <2>1, <3>1 DEF Servers
  <2> QED BY <2>2, <2>3 DEF ForInv
<1>4. ASSUME NEW c \in Shell, D!ForgetDelegation(c) PROVE ForInv'
  <2>1. shell[c].at = "refused" /\ shell' = [shell EXCEPT ![c] = D!Resting] /\ server' = server
    BY <1>4 DEF D!ForgetDelegation, D!ShellAt
  <2>2. \A d \in Shell : d # c => shell'[d] = shell[d]
    BY <2>1 DEF DelegationType
  <2> QED BY <2>1, <2>2 DEF ForInv
<1>5. ASSUME NEW s \in Server, shell' = shell,
             \/ \E pc \in Pcs : D!ServerDoes(s, pc)
             \/ \E pc \in Pcs : \E k \in Asks \cup {D!NoAsk} : D!Answers(s, pc, k)
             \/ server' = [server EXCEPT ![s] = D!Free]
      PROVE  ForInv'
  <2>0. server \in [Server -> Servers]
    BY DEF DelegationType, Servers
  <2> DEFINE Kept == \A x \in Server : \/ server'[x].for = server[x].for /\ server'[x].rid = server[x].rid
                                       \/ server'[x].for = None
  <2>1. Kept
    <3>1. ASSUME NEW pc \in Pcs, D!ServerDoes(s, pc) PROVE Kept
      <4>1. server' = [server EXCEPT ![s].at = pc]
        BY <3>1 DEF D!ServerDoes
      <4>2. /\ server'[s].for = server[s].for /\ server'[s].rid = server[s].rid
            /\ \A x \in Server : x # s => server'[x] = server[x]
        BY <2>0, <4>1, ServerMoves
      <4> QED BY <4>2
    <3>2. ASSUME NEW pc \in Pcs, NEW k \in Asks \cup {D!NoAsk}, D!Answers(s, pc, k) PROVE Kept
      <4>1. /\ server'[s].for = server[s].for /\ server'[s].rid = server[s].rid
            /\ \A x \in Server : x # s => server'[x] = server[x]
        BY <2>0, <3>2, ServerAnswers
      <4> QED BY <4>1
    <3>3. CASE server' = [server EXCEPT ![s] = D!Free]
      BY <2>0, <3>3 DEF D!Free
    <3> QED BY <1>5, <3>1, <3>2, <3>3
  <2> QED BY <1>5, <2>1 DEF ForInv
<1>6. ASSUME NEW s \in Server, D!Reply(s) PROVE ForInv'
  <2>1. server' = [server EXCEPT ![s] = D!Free]
    BY <1>6 DEF D!Reply
  <2>2. server'[s].for = None /\ \A x \in Server : x # s => server'[x] = server[x]
    BY <2>1 DEF DelegationType, D!Free
  <2>3. CASE server[s].for = None
    <3>1. shell' = shell
      BY <1>6, <2>3 DEF D!Reply
    <3> QED BY <2>2, <3>1 DEF ForInv
  <2>4. CASE server[s].for # None
    <3>1. shell' = [shell EXCEPT ![server[s].for] = D!Resting] \/ shell' = [shell EXCEPT ![server[s].for].at = "refused"]
      BY <1>6, <2>4 DEF D!Reply, D!ShellDoes
    <3>2. \A d \in Shell : d # server[s].for => shell'[d] = shell[d]
      BY <3>1 DEF DelegationType
    <3>3. \A x \in Server : x # s /\ server[x].for # None => server[x].for # server[s].for
      BY <2>4 DEF ForInv
    <3> QED BY <2>2, <3>2, <3>3 DEF ForInv
  <2> QED BY <2>3, <2>4
<1>7. ASSUME NEW s \in Server, D!Serve(s) PROVE ForInv'
  <2>1. CASE D!Reply(s)
    BY <1>6, <2>1
  <2>2. CASE D!Acts(s)
    <3>1. server[s].ask \in Asks \cup {D!NoAsk} /\ D!Answers(s, "reply", server[s].ask) /\ shell' = shell
      BY <2>2 DEF D!Acts, D!parents, DelegationType
    <3> QED BY <1>5, <3>1 DEF Pcs
  <2>3. CASE D!ServerDies(s)
    BY <1>5, <2>3 DEF D!ServerDies, D!parents
  <2>4. CASE D!Replays(s)
    <3>1. server[s].rid \in Rid
      BY <2>4 DEF D!Replays, D!ServerAt, DelegationType
    <3>2. ledger[server[s].rid] \in Asks \cup {D!NoAsk} /\ shell' = shell
      BY <2>4, <3>1 DEF D!Replays, D!parents, DelegationType
    <3>3. \E pc \in Pcs : D!Answers(s, pc, ledger[server[s].rid])
      BY <2>4 DEF D!Replays, D!StoredRequest, Pcs
    <3> QED BY <1>5, <3>2, <3>3
  <2>5. CASE D!StoredTaskAdd(s)
    <3>1. server[s].rid \in Rid
      BY <2>5 DEF D!StoredTaskAdd, D!ServerAt, DelegationType
    <3>2. ledger[server[s].rid] \in Asks \cup {D!NoAsk} /\ shell' = shell
      BY <2>5, <3>1 DEF D!StoredTaskAdd, D!parents, DelegationType
    <3>3. D!ServerDoes(s, "lint") \/ \E pc \in Pcs : D!Answers(s, pc, ledger[server[s].rid])
      BY <2>5 DEF D!StoredTaskAdd, Pcs
    <3> QED BY <1>5, <3>2, <3>3 DEF Pcs
  <2>6. CASE D!ServeTaskAdd(s) \/ D!ServeGoal(s) \/ D!ServeAnswer(s) \/ D!AddBacklogTask(s)
             \/ D!Conflicts(s) \/ D!CommitFails(s)
    <3>1. shell' = shell /\ \E pc \in Pcs : D!ServerDoes(s, pc)
      BY <2>6 DEF D!ServeTaskAdd, D!ServeGoal, D!ServeAnswer, D!AddBacklogTask, D!Conflicts,
         D!CommitFails, D!Begun, D!CheckParent, D!parents, Pcs
    <3> QED BY <1>5, <3>1
  <2> QED BY <1>7, <2>1, <2>2, <2>3, <2>4, <2>5, <2>6 DEF D!Serve
<1>8. ASSUME NEW t, NEW text, D!AddLocally(t, text) PROVE ForInv'
  BY <1>8 DEF D!AddLocally, D!parents, ForInv
<1>9. ASSUME NEW p, D!Adopt(p) PROVE ForInv'
  BY <1>9 DEF D!Adopt, D!parents, ForInv
<1> QED
  BY <1>1, <1>2, <1>3, <1>4, <1>7, <1>8, <1>9 DEF D!Next, D!PeerTaskAdd, D!PeerGoal, D!PeerAnswer

LEMMA DelegationStep ==
  ASSUME DInv, ForInv, D!Next
  PROVE  DInv' /\ ForInv'
<1>1. ForInv'
  BY ForKeeps DEF DInv
<1>2. ASSUME NEW c \in Shell, NEW r \in Rid, NEW t \in Task, NEW text \in Text, D!PeerTaskAdd(c, r, t, text)
      PROVE  DInv'
  <2>1. [on |-> t, text |-> text] \in Asks
    BY DEF Asks
  <2> QED BY <1>2, <2>1, BeginsKeeps DEF D!PeerTaskAdd
<1>3. ASSUME NEW c \in Shell, NEW r \in Rid, D!PeerGoal(c, r) PROVE DInv'
  <2>1. [on |-> "goal", text |-> None] \in Asks
    BY DEF Asks
  <2> QED BY <1>3, <2>1, BeginsKeeps DEF D!PeerGoal
<1>4. ASSUME NEW c \in Shell, NEW r \in Rid, NEW e \in Escalation, D!PeerAnswer(c, r, e) PROVE DInv'
  <2>1. [on |-> e, text |-> None] \in Asks /\ ~D!Delegated([on |-> e, text |-> None])
    BY DEF Asks, D!Delegated
  <2> QED BY <1>4, <2>1, BeginsKeeps DEF D!PeerAnswer
<1>5. ASSUME NEW s \in Server, D!Serve(s) PROVE DInv'
  BY <1>5, ReadsKeep, ActsKeep, CommitFailsKeeps, ReplyKeeps DEF D!Serve
<1> QED
  BY <1>1, <1>2, <1>3, <1>4, <1>5, CallKeeps, ShellKeeps, OthersKeep DEF D!Next

\* Work that waits for its server, or is abandoned, keeps this true too.
LEMMA DelegationSound == SumSpec => [](DInv /\ ForInv)
<1>1. SumInit => DInv /\ ForInv
  BY DInit, ForInit DEF SumInit, DInv
<1>2. ASSUME DInv, ForInv, [SumNext]_all PROVE (DInv /\ ForInv)'
  <2>1. CASE D!Next
    BY <1>2, <2>1, DelegationStep
  <2>2. CASE UNCHANGED delegation
    BY <1>2, <2>2 DEF delegation, DInv, ForInv, DelegationType, ActedInv, BriefInv, RecordInv, D!Delegated
  <2> QED BY <1>2, <2>1, <2>2 DEF SumNext, all, opening
<1> QED BY <1>1, <1>2, PTL DEF SumSpec

\* However often a request is retried, the peer acts on it once, and what a command is
\* told of is that act (Delegation; db/peerrequest.go).
THEOREM RequestsActOnce == SumSpec => []ActedOnce
<1>1. DInv => ActedOnce
  BY DEF DInv, ActedInv, DelegationType, ActedOnce, D!ActedOnce
<1> QED BY <1>1, DelegationSound, PTL

\* A task has on disk the brief it was added with (Delegation; db/peerrequest.go).
THEOREM BriefsKept == SumSpec => []BriefKept
<1>1. DInv => BriefKept
  BY DEF DInv, BriefInv, BriefKept, D!BriefKept
<1> QED BY <1>1, DelegationSound, PTL

\* A parent knows of all it may have asked for (Delegation; db/peer.go).
THEOREM DelegationsOnRecord == SumSpec => []OnRecord
<1>1. ASSUME DInv, NEW p \in Parent, NEW r \in Rid, r \notin refused[p]
      PROVE  /\ acted[r].for = p /\ D!Delegated(ledger[r]) => record[p][r] = ledger[r]
             /\ \A s \in Server : server[s].key = p /\ server[s].rid = r /\ D!Delegated(server[s].ask)
                                    => record[p][r] = server[s].ask
  <2>1. \A s \in Server : D!Delegated(server[s].ask) => server[s].at # "free"
    BY <1>1 DEF DInv, DelegationType, D!Delegated
  <2> QED BY <1>1, <2>1 DEF DInv, RecordInv
<1>2. DInv => OnRecord
  BY <1>1 DEF OnRecord, D!OnRecord
<1> QED BY <1>2, DelegationSound, PTL

(***************************************************************************)
(* Opening: the schema and the import of the legacy files.  The argument   *)
(* for the schema: under ResetAlone the versions are always 1..n, whoever  *)
(* is migrating has reached no more than n, so that the one who finds the  *)
(* next version free is at n; and while a reset drops them one by one      *)
(* nobody else is beyond the opening.  For the import: a record is still   *)
(* to be done, in hand, filed or warned of, in the hands of each importer. *)
(***************************************************************************)
\* The last of the versions without a gap, and any last one.
LEMMA LastIs ==
  ASSUME NEW n \in Nat
  PROVE  O!Last(1..n) = n
<1>1. CASE n = 0
  BY <1>1 DEF O!Last
<1>2. CASE n # 0
  <2>1. n \in 1..n /\ \A j \in 1..n : j <= n
    BY <1>2
  <2>2. \A i \in 1..n : (\A j \in 1..n : j <= i) => i = n
    BY <2>1
  <2> QED BY <2>1, <2>2 DEF O!Last
<1> QED BY <1>1, <1>2

LEMMA LastTyped ==
  ASSUME NEW n \in Nat, NEW S \in SUBSET (1..n)
  PROVE  O!Last(S) \in Nat
<1>1. CASE S = {}
  BY <1>1 DEF O!Last
<1>2. CASE S # {}
  <2> DEFINE T == {n - x : x \in S}
  <2>1. T \subseteq Nat /\ T # {}
    <3>1. \A x \in S : x \in Nat /\ n - x \in Nat
      OBVIOUS
    <3> QED BY <1>2, <3>1
  <2>2. PICK y \in T : \A z \in T : ~(<<z, y>> \in OpToRel(<, Nat))
    BY <2>1, WFMin, NatLessThanWellFounded
  <2>3. PICK i \in S : y = n - i
    BY <2>2
  <2>4. \A j \in S : j <= i
    <3> SUFFICES ASSUME NEW j \in S, ~(j <= i) PROVE FALSE
      OBVIOUS
    <3>1. n - j \in T
      OBVIOUS
    <3>2. n \in Nat /\ i \in Nat /\ j \in Nat /\ y = n - i
      BY <2>3
    <3>3. y \in Nat /\ n - j \in Nat
      BY <2>1, <3>1
    <3>4. n - j < y
      BY <3>2
    <3> HIDE DEF T
    <3> QED BY <3>1, <3>3, <3>4, <2>2 DEF OpToRel
  <2>5. O!Last(S) = CHOOSE k \in S : \A j \in S : j <= k
    BY <1>2 DEF O!Last
  <2> HIDE DEF T
  <2>6. O!Last(S) \in S
    BY <2>4, <2>5
  <2>7. \A x \in S : x \in Nat
    OBVIOUS
  <2> QED BY <2>6, <2>7
<1> QED BY <1>1, <1>2

OpenType == O!TypeOK /\ \E n \in Nat : schema \subseteq 1..n

Procs == [at : O!Steps, have : Nat, todo : SUBSET Record, record : SUBSET Record,
          max : Nat, again : BOOLEAN]

\* A process before it opens, and after it ended.
LEMMA FreshTyped == O!Fresh \in Procs /\ [O!Fresh EXCEPT !.at = "ended"] \in Procs
BY DEF O!Fresh, Procs, O!Steps

LEMMA OpenTypeInit == O!Init => OpenType
<1> SUFFICES ASSUME O!Init PROVE OpenType
  OBVIOUS
<1>1. proc \in [Process -> Procs]
  BY FreshTyped DEF O!Init
<1> QED BY <1>1 DEF O!Init, OpenType, O!TypeOK, Procs

LEMMA OpenTypeStep == OpenType /\ O!Next => OpenType'
<1> SUFFICES ASSUME OpenType, NEW p \in Process,
                    \/ O!Opens(p) \/ O!Migrates(p) \/ O!Migrated(p) \/ O!OpensReadOnly(p) \/ O!Fails(p)
                    \/ O!Lists(p) \/ O!SeesNoEvents(p) \/ O!SeesNoTasks(p) \/ O!ReadsRecord(p) \/ O!CreatesTask(p)
                    \/ O!ReadsLast(p) \/ O!SeedsWatermark(p) \/ O!Moves(p)
                    \/ O!Posts(p) \/ O!Resets(p) \/ O!Drops(p) \/ O!Remakes(p)
             PROVE  OpenType'
  BY DEF O!Next
<1> USE DEF Procs
<1>0. proc \in [Process -> Procs] /\ proc[p] \in Procs /\ legacy \in {"present", "moved", "none"}
      /\ schema \subseteq Nat \ {0} /\ rows \subseteq Record /\ posted \in Nat
      /\ actionable \subseteq 1..posted /\ watermark \in Nat /\ filed \subseteq Record /\ warned \subseteq Record
  BY DEF OpenType, O!TypeOK
<1>1. PICK n \in Nat : schema \subseteq 1..n
  BY DEF OpenType
<1>2. O!Last(schema) \in Nat /\ O!Last(actionable) \in Nat
  BY <1>0, <1>1, LastTyped
<1>3. ASSUME UNCHANGED <<schema, rows, posted, actionable, watermark>>,
             UNCHANGED <<legacy, filed, warned>>, proc' \in [Process -> Procs] PROVE OpenType'
  BY <1>0, <1>1, <1>3 DEF OpenType, O!TypeOK
<1>4. CASE O!Opens(p)
  BY <1>0, <1>2, <1>3, <1>4 DEF O!Opens, O!Keep, O!Steps, O!store, O!unchangedHistory
<1>5. CASE O!Migrates(p)
  <2>1. /\ proc[p].have + 1 \in Nat \ {0} /\ schema' = schema \cup {proc[p].have + 1}
        /\ proc' = [proc EXCEPT ![p].have = proc[p].have + 1]
        /\ UNCHANGED <<rows, posted, actionable, watermark, legacy, filed, warned>>
    BY <1>0, <1>5 DEF O!Migrates, O!unchangedHistory
  <2>2. \E m \in Nat : schema' \subseteq 1..m
    <3>1. CASE n > proc[p].have
      BY <1>0, <1>1, <2>1, <3>1
    <3>2. CASE ~(n > proc[p].have)
      <4>1. schema' \subseteq 1..(proc[p].have + 1)
        BY <1>0, <1>1, <2>1, <3>2
      <4> QED BY <4>1, <2>1
    <3> QED BY <3>1, <3>2
  <2>3. proc' \in [Process -> Procs]
    BY <1>0, <2>1
  <2> QED BY <1>0, <2>1, <2>2, <2>3 DEF OpenType, O!TypeOK
<1>6. CASE O!Migrated(p)
  <2>1. \/ proc' = [proc EXCEPT ![p] = [O!Fresh EXCEPT !.at = "ended"]]
        \/ proc' = [proc EXCEPT ![p].at = "list"]
    BY <1>6 DEF O!Migrated, O!Go
  <2>2. proc' \in [Process -> Procs]
    BY <1>0, <2>1, FreshTyped DEF O!Steps
  <2> QED BY <1>3, <1>6, <2>2 DEF O!Migrated, O!store, O!unchangedHistory
<1>7. CASE O!OpensReadOnly(p)
  BY <1>0, <1>3, <1>7 DEF O!OpensReadOnly, O!Go, O!Steps, O!store, O!unchangedHistory
<1>8. CASE O!Fails(p)
  BY <1>0, <1>3, <1>8, FreshTyped DEF O!Fails, O!Steps, O!store, O!unchangedHistory, O!Fresh
<1>9. CASE O!Lists(p)
  <2>1. \/ proc' = [proc EXCEPT ![p] = [@ EXCEPT !.at = "events", !.todo = Record]]
        \/ proc' = [proc EXCEPT ![p].at = "open"]
    BY <1>9 DEF O!Lists, O!Keep, O!Go
  <2>2. proc' \in [Process -> Procs]
    <3>1. CASE proc' = [proc EXCEPT ![p].at = "open"]
      BY <1>0, <3>1 DEF O!Steps
    <3>2. CASE proc' = [proc EXCEPT ![p] = [@ EXCEPT !.at = "events", !.todo = Record]]
      <4> DEFINE q == [proc[p] EXCEPT !.at = "events", !.todo = Record]
      <4>1. q \in Procs
        BY <1>0 DEF O!Steps
      <4>2. proc' = [proc EXCEPT ![p] = q]
        BY <3>2
      <4> HIDE DEF q
      <4> QED BY <1>0, <4>1, <4>2
    <3> QED BY <2>1, <3>1, <3>2
  <2> QED BY <1>3, <1>9, <2>2 DEF O!Lists, O!store, O!unchangedHistory
<1>10. CASE O!SeesNoEvents(p)
  BY <1>0, <1>3, <1>10 DEF O!SeesNoEvents, O!Go, O!Steps, O!store, O!unchangedHistory
<1>11. CASE O!SeesNoTasks(p)
  BY <1>0, <1>3, <1>11 DEF O!SeesNoTasks, O!Go, O!Steps, O!store, O!unchangedHistory
<1>12. CASE O!ReadsRecord(p)
  <2>1. PICK r \in proc[p].todo :
           IF r \in Readable /\ legacy = "present"
           THEN /\ proc' = [proc EXCEPT ![p].at = "create", ![p].record = {r},
                                        ![p].todo = @ \ {r}]
                /\ UNCHANGED warned
           ELSE /\ proc' = [proc EXCEPT ![p].todo = @ \ {r}]
                /\ warned' = warned \cup {r}
    BY <1>12 DEF O!ReadsRecord
  <2>2. proc' \in [Process -> Procs] /\ warned' \subseteq Record
    BY <1>0, <2>1 DEF O!Steps
  <2> QED BY <1>0, <1>1, <1>12, <2>2 DEF O!ReadsRecord, O!store, OpenType, O!TypeOK
<1>13. CASE O!CreatesTask(p)
  <2>1. proc' \in [Process -> Procs]
    BY <1>0, <1>13 DEF O!CreatesTask, O!Keep, O!Steps
  <2>2. rows' \subseteq Record /\ posted' \in Nat /\ filed' \subseteq Record /\ warned' \subseteq Record
        /\ actionable' \subseteq 1..posted'
    BY <1>0, <1>13 DEF O!CreatesTask
  <2> QED BY <1>0, <1>1, <1>13, <2>1, <2>2 DEF O!CreatesTask, OpenType, O!TypeOK
<1>14. CASE O!ReadsLast(p)
  BY <1>0, <1>2, <1>3, <1>14 DEF O!ReadsLast, O!Keep, O!Steps, O!store, O!unchangedHistory
<1>15. CASE O!SeedsWatermark(p)
  <2>1. proc' \in [Process -> Procs] /\ watermark' \in Nat
    BY <1>0, <1>15 DEF O!SeedsWatermark, O!Go, O!Steps
  <2> QED BY <1>0, <1>1, <1>15, <2>1 DEF O!SeedsWatermark, O!unchangedHistory, OpenType, O!TypeOK
<1>16. CASE O!Moves(p)
  <2>1. proc' \in [Process -> Procs] /\ legacy' \in {"present", "moved", "none"}
    BY <1>0, <1>16 DEF O!Moves, O!Go, O!Steps
  <2> QED BY <1>0, <1>1, <1>16, <2>1 DEF O!Moves, O!store, OpenType, O!TypeOK
<1>17. CASE O!Posts(p)
  <2>1. posted' \in Nat /\ actionable' \subseteq 1..posted'
    <3>1. posted' = posted + 1 /\ actionable' \subseteq actionable \cup {posted + 1}
      BY <1>17 DEF O!Posts
    <3>2. \A i \in 1..posted : i \in 1..(posted + 1)
      BY <1>0
    <3>3. posted + 1 \in Nat /\ posted + 1 \in 1..(posted + 1)
      BY <1>0
    <3> QED BY <1>0, <3>1, <3>2, <3>3
  <2> QED BY <1>0, <1>1, <1>17, <2>1 DEF O!Posts, O!unchangedHistory, OpenType, O!TypeOK
<1>18. CASE O!Resets(p)
  BY <1>0, <1>2, <1>3, <1>18 DEF O!Resets, O!Steps, O!store, O!unchangedHistory
<1>19. CASE O!Drops(p)
  <2>1. proc' \in [Process -> Procs] /\ schema' \subseteq schema
    BY <1>0, <1>19 DEF O!Drops, O!Steps
  <2>2. rows' \subseteq Record /\ posted' \in Nat /\ watermark' \in Nat /\ actionable' \subseteq 1..posted'
    BY <1>0, <1>19 DEF O!Drops
  <2> QED BY <1>0, <1>1, <1>19, <2>1, <2>2 DEF O!Drops, O!unchangedHistory, OpenType, O!TypeOK
<1>20. CASE O!Remakes(p)
  BY <1>0, <1>2, <1>3, <1>20 DEF O!Remakes, O!Keep, O!Steps, O!store, O!unchangedHistory
<1> QED BY <1>4, <1>5, <1>6, <1>7, <1>8, <1>9, <1>10, <1>11, <1>12, <1>13, <1>14, <1>15, <1>16,
           <1>17, <1>18, <1>19, <1>20

\* Where a process has no store, where it touches none, and what holds of the schema.
Unserved == {"new", "migrate", "drop", "ended"}
Away   == {"new", "ended"}

SchemaInv ==
  /\ \E n \in Nat : schema = 1..n
  /\ \A p \in Process :
       /\ proc[p].at = "migrate" => 1..proc[p].have \subseteq schema
       /\ proc[p].at \notin Unserved => 1..Newest[p] \subseteq schema
       /\ proc[p].at = "drop" => proc[p].again /\ schema = 1..proc[p].have
       /\ proc[p].again => \A q \in Process \ {p} : proc[q].at \in Away

LEMMA SchemaInit == O!Init => SchemaInv
<1> SUFFICES ASSUME O!Init PROVE SchemaInv
  OBVIOUS
<1>1. schema = 1..0 /\ \A p \in Process : proc[p].at = "new" /\ ~proc[p].again
  BY DEF O!Init, O!Fresh
<1> QED BY <1>1 DEF SchemaInv, Unserved

\* A step of p that leaves the schema alone.
LEMMA SchemaMoves ==
  ASSUME OpenType, SchemaInv, NEW p \in Process, NEW r \in Procs,
         proc' = [proc EXCEPT ![p] = r], UNCHANGED schema,
         r.at = "migrate" => 1..r.have \subseteq schema,
         r.at \notin Unserved => 1..Newest[p] \subseteq schema,
         r.at = "drop" => r.again /\ schema = 1..r.have,
         r.again => \A q \in Process \ {p} : proc[q].at \in Away,
         (\E q \in Process \ {p} : proc[q].again) => r.at \in Away
  PROVE  SchemaInv'
<1>1. proc \in [Process -> Procs]
  BY DEF OpenType, O!TypeOK, Procs
<1>2. proc'[p] = r /\ \A q \in Process \ {p} : proc'[q] = proc[q]
  BY <1>1
<1>3. (\E n \in Nat : schema = 1..n)'
  BY DEF SchemaInv
<1>4. ASSUME NEW q \in Process
      PROVE  /\ proc'[q].at = "migrate" => 1..proc'[q].have \subseteq schema'
             /\ proc'[q].at \notin Unserved => 1..Newest[q] \subseteq schema'
             /\ proc'[q].at = "drop" => proc'[q].again /\ schema' = 1..proc'[q].have
             /\ proc'[q].again => \A o \in Process \ {q} : proc'[o].at \in Away
  <2>1. CASE q = p
    BY <1>2, <2>1
  <2>2. CASE q # p
    BY <1>2, <2>2 DEF SchemaInv
  <2> QED BY <2>1, <2>2
<1> QED BY <1>3, <1>4 DEF SchemaInv

LEMMA SchemaStep == ResetAlone /\ OpenType /\ SchemaInv /\ O!Next => SchemaInv'
<1> SUFFICES ASSUME ResetAlone, OpenType, SchemaInv, NEW p \in Process,
                    \/ O!Opens(p) \/ O!Migrates(p) \/ O!Migrated(p) \/ O!OpensReadOnly(p) \/ O!Fails(p)
                    \/ O!Lists(p) \/ O!SeesNoEvents(p) \/ O!SeesNoTasks(p) \/ O!ReadsRecord(p) \/ O!CreatesTask(p)
                    \/ O!ReadsLast(p) \/ O!SeedsWatermark(p) \/ O!Moves(p)
                    \/ O!Posts(p) \/ O!Resets(p) \/ O!Drops(p) \/ O!Remakes(p)
             PROVE  SchemaInv'
  BY DEF O!Next
<1>0. proc \in [Process -> Procs] /\ proc[p] \in Procs /\ proc' \in [Process -> Procs]
  BY OpenTypeStep DEF OpenType, O!TypeOK, Procs, O!Next
<1>1. PICK n \in Nat : schema = 1..n
  BY DEF SchemaInv
<1>2. O!Last(schema) = n
  BY <1>1, LastIs
<1>3. Newest[p] \in Nat \ {0}
  BY OpeningAssumption
\* p goes on with the store it got, or ends.
<1>4. ASSUME UNCHANGED schema, NEW r \in Procs, proc' = [proc EXCEPT ![p] = r],
             r.at = "ended" \/ (proc[p].at \notin Unserved /\ r.at \notin Unserved),
             r.again => proc[p].again
      PROVE  SchemaInv'
  <2>1. (\E q \in Process \ {p} : proc[q].again) => r.at \in Away
    BY <1>4 DEF SchemaInv, Unserved, Away
  <2>2. r.at \notin Unserved => 1..Newest[p] \subseteq schema
    BY <1>4 DEF SchemaInv, Unserved
  <2>3. r.at # "migrate" /\ r.at # "drop"
    BY <1>4 DEF Unserved
  <2>4. r.again => \A q \in Process \ {p} : proc[q].at \in Away
    BY <1>4 DEF SchemaInv
  <2> QED BY <1>4, <2>1, <2>2, <2>3, <2>4, SchemaMoves
<1>5. CASE O!Opens(p)
  <2> DEFINE r == [proc[p] EXCEPT !.at = "migrate", !.have = n]
  <2>1. r \in Procs /\ r.at = "migrate" /\ r.have = n /\ r.again = proc[p].again
    BY <1>0, <1>1 DEF Procs, O!Steps
  <2>2. proc' = [proc EXCEPT ![p] = r] /\ schema' = schema /\ \A q \in Process : ~proc[q].again
    BY <1>0, <1>2, <1>5 DEF O!Opens, O!Keep, O!store, O!Resetting
  <2> HIDE DEF r
  <2> QED BY <1>1, <2>1, <2>2, SchemaMoves DEF Unserved
<1>6. CASE O!Migrates(p)
  <2>1. /\ proc[p].at = "migrate" /\ proc[p].have + 1 \notin schema
        /\ schema' = schema \cup {proc[p].have + 1}
        /\ proc' = [proc EXCEPT ![p].have = proc[p].have + 1]
    BY <1>0, <1>6 DEF O!Migrates, O!At
  <2>2. proc[p].have \in Nat /\ 1..proc[p].have \subseteq schema
    BY <1>0, <2>1 DEF SchemaInv, Procs
  <2>3. proc[p].have = n
    <3>1. n + 1 > proc[p].have
      BY <1>1, <2>2
    <3> QED BY <1>1, <2>1, <2>2, <3>1
  <2>4. schema' = 1..(n + 1) /\ n + 1 \in Nat
    BY <1>1, <2>1, <2>3
  <2>5. /\ proc'[p].have = n + 1 /\ proc'[p].at = "migrate" /\ proc'[p].again = proc[p].again
        /\ \A q \in Process \ {p} : proc'[q] = proc[q]
    BY <1>0, <2>1, <2>3 DEF Procs
  <2>6. ASSUME NEW q \in Process
        PROVE  /\ proc'[q].at = "migrate" => 1..proc'[q].have \subseteq schema'
               /\ proc'[q].at \notin Unserved => 1..Newest[q] \subseteq schema'
               /\ proc'[q].at = "drop" => proc'[q].again /\ schema' = 1..proc'[q].have
               /\ proc'[q].again => \A o \in Process \ {q} : proc'[o].at \in Away
    <3>1. CASE q = p
      BY <2>1, <2>4, <2>5, <3>1 DEF SchemaInv, Unserved
    <3>2. CASE q # p
      <4>1. ~proc[q].again
        BY <2>1, <3>2 DEF SchemaInv, Away
      <4> QED BY <2>1, <2>5, <3>2, <4>1 DEF SchemaInv
    <3> QED BY <3>1, <3>2
  <2> QED BY <2>4, <2>6 DEF SchemaInv
<1>7. CASE O!Migrated(p)
  <2>1. proc[p].at = "migrate" /\ proc[p].have >= Newest[p] /\ schema' = schema
    BY <1>7 DEF O!Migrated, O!At, O!store
  <2>2. 1..Newest[p] \subseteq schema
    <3>1. 1..proc[p].have \subseteq schema /\ proc[p].have \in Nat
      BY <1>0, <2>1 DEF SchemaInv, Procs
    <3> QED BY <1>3, <2>1, <3>1
  <2>3. CASE proc[p].again
    <3>1. proc' = [proc EXCEPT ![p] = [O!Fresh EXCEPT !.at = "ended"]]
      BY <1>7, <2>3 DEF O!Migrated
    <3>2. [O!Fresh EXCEPT !.at = "ended"].at = "ended" /\ ~[O!Fresh EXCEPT !.at = "ended"].again
      BY DEF O!Fresh
    <3> QED BY <1>4, <2>1, <3>1, <3>2, FreshTyped
  <2>4. CASE ~proc[p].again
    <3> DEFINE r == [proc[p] EXCEPT !.at = "list"]
    <3>1. r \in Procs /\ r.at = "list" /\ r.again = proc[p].again
      BY <1>0 DEF Procs, O!Steps
    <3>2. proc' = [proc EXCEPT ![p] = r]
      BY <1>7, <2>4 DEF O!Migrated, O!Go
    <3>3. ~\E q \in Process \ {p} : proc[q].again
      BY <2>1 DEF SchemaInv, Away
    <3> HIDE DEF r
    <3> QED BY <2>1, <2>2, <2>4, <3>1, <3>2, <3>3, SchemaMoves
  <2> QED BY <2>3, <2>4
<1>8. CASE O!OpensReadOnly(p)
  <2>1. schema' = schema /\ \A q \in Process : ~proc[q].again
    BY <1>8 DEF O!OpensReadOnly, O!store, O!Resetting
  <2>2. CASE n < Newest[p]
    <3> DEFINE r == [proc[p] EXCEPT !.at = "ended"]
    <3>1. r \in Procs /\ r.at = "ended" /\ r.again = proc[p].again
      BY <1>0 DEF Procs, O!Steps
    <3>2. proc' = [proc EXCEPT ![p] = r]
      BY <1>2, <1>8, <2>2 DEF O!OpensReadOnly, O!Go
    <3> HIDE DEF r
    <3> QED BY <1>4, <2>1, <3>1, <3>2
  <2>3. CASE ~(n < Newest[p])
    <3> DEFINE r == [proc[p] EXCEPT !.at = "reading"]
    <3>1. r \in Procs /\ r.at = "reading" /\ r.again = proc[p].again
      BY <1>0 DEF Procs, O!Steps
    <3>2. proc' = [proc EXCEPT ![p] = r]
      BY <1>2, <1>8, <2>3 DEF O!OpensReadOnly, O!Go
    <3>3. 1..Newest[p] \subseteq schema
      BY <1>1, <1>3, <2>3
    <3> HIDE DEF r
    <3> QED BY <2>1, <3>1, <3>2, <3>3, SchemaMoves
  <2> QED BY <2>2, <2>3
<1>9. CASE O!Fails(p)
  <2>1. proc' = [proc EXCEPT ![p] = [O!Fresh EXCEPT !.at = "ended"]] /\ schema' = schema
    BY <1>9 DEF O!Fails, O!store
  <2>2. [O!Fresh EXCEPT !.at = "ended"].at = "ended" /\ ~[O!Fresh EXCEPT !.at = "ended"].again
    BY DEF O!Fresh
  <2> QED BY <1>4, <2>1, <2>2, FreshTyped
<1>10. ASSUME UNCHANGED schema, proc[p].at \notin Unserved,
              \A q \in Process \ {p} : proc'[q] = proc[q],
              proc'[p].at \notin Unserved, proc'[p].again = proc[p].again
       PROVE  SchemaInv'
  <2>1. proc' = [proc EXCEPT ![p] = proc'[p]] /\ proc'[p] \in Procs
    BY <1>0, <1>10
  <2> QED BY <1>4, <1>10, <2>1
<1>11. CASE O!Lists(p)
  <2>1. /\ \A q \in Process \ {p} : proc'[q] = proc[q]
        /\ proc'[p].at \in {"events", "open"} /\ proc'[p].again = proc[p].again
    <3>1. CASE proc' = [proc EXCEPT ![p].at = "open"]
      BY <1>0, <3>1 DEF Procs
    <3>2. CASE proc' = [proc EXCEPT ![p] = [@ EXCEPT !.at = "events", !.todo = Record]]
      BY <1>0, <3>2 DEF Procs
    <3> QED BY <1>11, <3>1, <3>2 DEF O!Lists, O!Keep, O!Go
  <2> QED BY <1>10, <1>11, <2>1 DEF O!Lists, O!At, O!store, Unserved
<1>12. CASE O!SeesNoEvents(p)
  BY <1>0, <1>10, <1>12 DEF O!SeesNoEvents, O!Go, O!At, O!store, Unserved, Procs
<1>13. CASE O!SeesNoTasks(p)
  BY <1>0, <1>10, <1>13 DEF O!SeesNoTasks, O!Go, O!At, O!store, Unserved, Procs
<1>14. CASE O!ReadsRecord(p)
  <2>1. /\ \A q \in Process \ {p} : proc'[q] = proc[q]
        /\ proc'[p].at \in {"import", "create"} /\ proc'[p].again = proc[p].again
    <3>1. PICK r \in proc[p].todo :
             \/ proc' = [proc EXCEPT ![p].at = "create", ![p].record = {r}, ![p].todo = @ \ {r}]
             \/ proc' = [proc EXCEPT ![p].todo = @ \ {r}]
      BY <1>14 DEF O!ReadsRecord
    <3>2. proc[p].at = "import"
      BY <1>14 DEF O!ReadsRecord, O!At
    <3>3. CASE proc' = [proc EXCEPT ![p].at = "create", ![p].record = {r}, ![p].todo = @ \ {r}]
      BY <1>0, <3>3 DEF Procs
    <3>4. CASE proc' = [proc EXCEPT ![p].todo = @ \ {r}]
      BY <1>0, <3>2, <3>4 DEF Procs
    <3> QED BY <3>1, <3>3, <3>4
  <2> QED BY <1>10, <1>14, <2>1 DEF O!ReadsRecord, O!At, O!store, Unserved
<1>15. CASE O!CreatesTask(p)
  BY <1>0, <1>10, <1>15 DEF O!CreatesTask, O!Keep, O!At, Unserved, Procs
<1>16. CASE O!ReadsLast(p)
  <2>1. /\ \A q \in Process \ {p} : proc'[q] = proc[q]
        /\ proc'[p].at = "seed" /\ proc'[p].again = proc[p].again
    BY <1>0, <1>16 DEF O!ReadsLast, O!Keep, Procs
  <2> QED BY <1>10, <1>16, <2>1 DEF O!ReadsLast, O!At, O!store, Unserved
<1>17. CASE O!SeedsWatermark(p)
  BY <1>0, <1>10, <1>17 DEF O!SeedsWatermark, O!Go, O!At, Unserved, Procs
<1>18. CASE O!Moves(p)
  BY <1>0, <1>10, <1>18 DEF O!Moves, O!Go, O!At, O!store, Unserved, Procs
<1>19. CASE O!Posts(p)
  BY <1>0, <1>10, <1>19 DEF O!Posts, O!At, Unserved, Procs
<1>20. CASE O!Resets(p)
  <2> DEFINE r == [proc[p] EXCEPT !.at = "drop", !.have = n, !.again = TRUE]
  <2>1. r \in Procs /\ r.at = "drop" /\ r.have = n /\ r.again
    BY <1>0, <1>1 DEF Procs, O!Steps
  <2>2. proc' = [proc EXCEPT ![p] = r] /\ schema' = schema /\ proc[p].at = "open"
        /\ \A q \in Process \ {p} : proc[q].at \in Away
    BY <1>0, <1>2, <1>20 DEF O!Resets, O!At, O!store, Away
  <2>3. ~\E q \in Process \ {p} : proc[q].again
    BY <2>2 DEF SchemaInv, Away
  <2> HIDE DEF r
  <2> QED BY <1>1, <2>1, <2>2, <2>3, SchemaMoves DEF Unserved
<1>21. CASE O!Drops(p)
  <2>1. /\ proc[p].at = "drop" /\ proc[p].have > 0 /\ schema' = schema \ {proc[p].have}
        /\ proc' = [proc EXCEPT ![p].have = @ - 1]
    BY <1>21 DEF O!Drops, O!At
  <2>2. proc[p].have \in Nat /\ schema = 1..proc[p].have
        /\ proc[p].again /\ \A q \in Process \ {p} : proc[q].at \in Away
    BY <1>0, <2>1 DEF SchemaInv, Procs
  <2>3. proc[p].have - 1 \in Nat /\ schema' = 1..(proc[p].have - 1)
    BY <2>1, <2>2
  <2>4. /\ proc'[p].have = proc[p].have - 1 /\ proc'[p].at = "drop" /\ proc'[p].again = proc[p].again
        /\ \A q \in Process \ {p} : proc'[q] = proc[q]
    BY <1>0, <2>1 DEF Procs
  <2>5. ASSUME NEW q \in Process
        PROVE  /\ proc'[q].at = "migrate" => 1..proc'[q].have \subseteq schema'
               /\ proc'[q].at \notin Unserved => 1..Newest[q] \subseteq schema'
               /\ proc'[q].at = "drop" => proc'[q].again /\ schema' = 1..proc'[q].have
               /\ proc'[q].again => \A o \in Process \ {q} : proc'[o].at \in Away
    <3>1. CASE q = p
      BY <2>2, <2>3, <2>4, <3>1 DEF Unserved
    <3>2. CASE q # p
      <4>1. ~proc[q].again
        BY <2>1, <3>2 DEF SchemaInv, Away
      <4> QED BY <2>2, <2>4, <3>2, <4>1 DEF Unserved, Away
    <3> QED BY <3>1, <3>2
  <2> QED BY <2>3, <2>5 DEF SchemaInv
<1>22. CASE O!Remakes(p)
  <2>1. proc[p].at = "drop" /\ proc[p].have = 0 /\ schema' = schema
        /\ proc' = [proc EXCEPT ![p] = [@ EXCEPT !.at = "migrate", !.have = n]]
    BY <1>2, <1>22 DEF O!Remakes, O!At, O!Keep, O!store
  <2> DEFINE r == [proc[p] EXCEPT !.at = "migrate", !.have = n]
  <2>2. r \in Procs /\ r.at = "migrate" /\ r.have = n /\ r.again = proc[p].again
    BY <1>0, <1>1 DEF Procs, O!Steps
  <2>3. proc' = [proc EXCEPT ![p] = r]
    BY <2>1
  <2>4. (\A q \in Process \ {p} : proc[q].at \in Away) /\ ~\E q \in Process \ {p} : proc[q].again
    BY <2>1 DEF SchemaInv, Away
  <2> HIDE DEF r
  <2> QED BY <1>1, <2>1, <2>2, <2>3, <2>4, SchemaMoves DEF Unserved
<1> QED BY <1>5, <1>6, <1>7, <1>8, <1>9, <1>11, <1>12, <1>13, <1>14, <1>15, <1>16, <1>17, <1>18,
           <1>19, <1>20, <1>21, <1>22

\* Each record an importer has not filed or warned of is still before it.
LegacyInv ==
  /\ \A p \in Process :
       /\ proc[p].at \in {"events", "tasks", "import"} => Readable \subseteq proc[p].todo \cup filed \cup warned
       /\ proc[p].at = "create" => Readable \subseteq proc[p].todo \cup proc[p].record \cup filed \cup warned
       /\ proc[p].at \in {"seed", "move"} => Readable \subseteq filed \cup warned
  /\ legacy = "moved" => Readable \subseteq filed \cup warned

LEMMA LegacyStep == OpenType /\ LegacyInv /\ O!Next => LegacyInv'
<1> SUFFICES ASSUME OpenType, LegacyInv, NEW p \in Process,
                    \/ O!Opens(p) \/ O!Migrates(p) \/ O!Migrated(p) \/ O!OpensReadOnly(p) \/ O!Fails(p)
                    \/ O!Lists(p) \/ O!SeesNoEvents(p) \/ O!SeesNoTasks(p) \/ O!ReadsRecord(p) \/ O!CreatesTask(p)
                    \/ O!ReadsLast(p) \/ O!SeedsWatermark(p) \/ O!Moves(p)
                    \/ O!Posts(p) \/ O!Resets(p) \/ O!Drops(p) \/ O!Remakes(p)
             PROVE  LegacyInv'
  BY DEF O!Next
<1>0. proc \in [Process -> Procs] /\ proc[p] \in Procs
  BY DEF OpenType, O!TypeOK, Procs
\* Only p moves, what was filed or warned of stays, and p keeps its part.
<1>1. ASSUME \A q \in Process \ {p} : proc'[q] = proc[q],
             filed \subseteq filed', warned \subseteq warned',
             legacy' = "moved" => Readable \subseteq filed' \cup warned',
             /\ proc'[p].at \in {"events", "tasks", "import"} => Readable \subseteq proc'[p].todo \cup filed' \cup warned'
             /\ proc'[p].at = "create" => Readable \subseteq proc'[p].todo \cup proc'[p].record \cup filed' \cup warned'
             /\ proc'[p].at \in {"seed", "move"} => Readable \subseteq filed' \cup warned'
      PROVE  LegacyInv'
  <2>1. ASSUME NEW q \in Process, q # p
        PROVE  /\ proc'[q].at \in {"events", "tasks", "import"} => Readable \subseteq proc'[q].todo \cup filed' \cup warned'
               /\ proc'[q].at = "create" => Readable \subseteq proc'[q].todo \cup proc'[q].record \cup filed' \cup warned'
               /\ proc'[q].at \in {"seed", "move"} => Readable \subseteq filed' \cup warned'
    BY <1>1, <2>1 DEF LegacyInv
  <2> QED BY <1>1, <2>1 DEF LegacyInv
<1>2. ASSUME \A q \in Process \ {p} : proc'[q] = proc[q], UNCHANGED <<legacy, filed, warned>>,
             proc'[p].at \notin {"events", "tasks", "import", "create", "seed", "move"}
      PROVE  LegacyInv'
  BY <1>1, <1>2 DEF LegacyInv
<1>3. CASE O!Opens(p)
  BY <1>0, <1>2, <1>3 DEF O!Opens, O!Keep, O!unchangedHistory, Procs
<1>4. CASE O!Migrates(p)
  BY <1>0, <1>2, <1>4 DEF O!Migrates, O!At, O!unchangedHistory, Procs
<1>5. CASE O!Migrated(p)
  <2>1. proc'[p].at \in {"list", "ended"} /\ \A q \in Process \ {p} : proc'[q] = proc[q]
    <3>1. [O!Fresh EXCEPT !.at = "ended"].at = "ended"
      BY DEF O!Fresh
    <3>2. CASE proc' = [proc EXCEPT ![p] = [O!Fresh EXCEPT !.at = "ended"]]
      BY <1>0, <3>1, <3>2
    <3>3. CASE proc' = [proc EXCEPT ![p].at = "list"]
      BY <1>0, <3>3 DEF Procs
    <3> QED BY <1>5, <3>2, <3>3 DEF O!Migrated, O!Go
  <2> QED BY <1>2, <1>5, <2>1 DEF O!Migrated, O!unchangedHistory
<1>6. CASE O!OpensReadOnly(p)
  BY <1>0, <1>2, <1>6 DEF O!OpensReadOnly, O!Go, O!unchangedHistory, Procs
<1>7. CASE O!Fails(p)
  <2>1. [O!Fresh EXCEPT !.at = "ended"].at = "ended"
    BY DEF O!Fresh
  <2> QED BY <1>0, <1>2, <1>7, <2>1 DEF O!Fails, O!unchangedHistory
<1>8. CASE O!Lists(p)
  <2>1. CASE legacy = "present"
    <3>1. proc'[p].at = "events" /\ proc'[p].todo = Record /\ \A q \in Process \ {p} : proc'[q] = proc[q]
      <4>1. proc' = [proc EXCEPT ![p] = [@ EXCEPT !.at = "events", !.todo = Record]]
        BY <1>8, <2>1 DEF O!Lists, O!Keep
      <4> QED BY <1>0, <4>1 DEF Procs
    <3> QED BY <1>1, <1>8, <3>1, OpeningAssumption DEF O!Lists, O!unchangedHistory, LegacyInv
  <2>2. CASE legacy # "present"
    BY <1>0, <1>2, <1>8, <2>2 DEF O!Lists, O!Go, O!unchangedHistory, Procs
  <2> QED BY <2>1, <2>2
<1>9. ASSUME O!SeesNoEvents(p) \/ O!SeesNoTasks(p) PROVE LegacyInv'
  <2>1. /\ proc[p].at \in {"events", "tasks"} /\ proc'[p].at \in {"tasks", "import", "open"}
        /\ proc'[p].todo = proc[p].todo
        /\ \A q \in Process \ {p} : proc'[q] = proc[q]
    BY <1>0, <1>9 DEF O!SeesNoEvents, O!SeesNoTasks, O!At, O!Go, Procs
  <2> QED BY <1>1, <1>9, <2>1 DEF O!SeesNoEvents, O!SeesNoTasks, O!unchangedHistory, LegacyInv
<1>10. CASE O!ReadsRecord(p)
  <2>1. PICK r \in proc[p].todo :
           IF r \in Readable /\ legacy = "present"
           THEN /\ proc' = [proc EXCEPT ![p].at = "create", ![p].record = {r},
                                        ![p].todo = @ \ {r}]
                /\ UNCHANGED warned
           ELSE /\ proc' = [proc EXCEPT ![p].todo = @ \ {r}]
                /\ warned' = warned \cup {r}
    BY <1>10 DEF O!ReadsRecord
  <2>2. proc[p].at = "import" /\ UNCHANGED <<legacy, filed>>
    BY <1>10 DEF O!ReadsRecord, O!At
  <2>3. Readable \subseteq proc[p].todo \cup filed \cup warned
    BY <2>2 DEF LegacyInv
  <2>4. CASE r \in Readable /\ legacy = "present"
    <3>1. /\ proc'[p].at = "create" /\ proc'[p].record = {r} /\ proc'[p].todo = proc[p].todo \ {r}
          /\ warned' = warned /\ \A q \in Process \ {p} : proc'[q] = proc[q]
      BY <1>0, <2>1, <2>4 DEF Procs
    <3> QED BY <1>1, <2>2, <2>3, <3>1 DEF LegacyInv
  <2>5. CASE ~(r \in Readable /\ legacy = "present")
    <3>1. /\ proc'[p].at = "import" /\ proc'[p].todo = proc[p].todo \ {r}
          /\ warned' = warned \cup {r} /\ \A q \in Process \ {p} : proc'[q] = proc[q]
      BY <1>0, <2>1, <2>2, <2>5 DEF Procs
    <3> QED BY <1>1, <2>2, <2>3, <3>1 DEF LegacyInv
  <2> QED BY <2>4, <2>5
<1>11. CASE O!CreatesTask(p)
  <2>1. proc[p].at = "create" /\ legacy' = legacy /\ filed \subseteq filed' /\ warned \subseteq warned'
        /\ proc[p].record \subseteq filed' \cup warned'
    BY <1>11 DEF O!CreatesTask, O!At
  <2>2. /\ proc'[p].at = "import" /\ proc'[p].todo = proc[p].todo
        /\ \A q \in Process \ {p} : proc'[q] = proc[q]
    BY <1>0, <1>11 DEF O!CreatesTask, O!Keep, Procs
  <2> QED BY <1>1, <2>1, <2>2 DEF LegacyInv
<1>12. CASE O!ReadsLast(p)
  <2>1. /\ proc[p].at = "import" /\ proc[p].todo = {} /\ proc'[p].at = "seed"
        /\ \A q \in Process \ {p} : proc'[q] = proc[q]
    BY <1>0, <1>12 DEF O!ReadsLast, O!At, O!Keep, Procs
  <2> QED BY <1>1, <1>12, <2>1 DEF O!ReadsLast, O!unchangedHistory, LegacyInv
<1>13. CASE O!SeedsWatermark(p)
  <2>1. proc[p].at = "seed" /\ proc'[p].at = "move" /\ \A q \in Process \ {p} : proc'[q] = proc[q]
    BY <1>0, <1>13 DEF O!SeedsWatermark, O!At, O!Go, Procs
  <2> QED BY <1>1, <1>13, <2>1 DEF O!SeedsWatermark, O!unchangedHistory, LegacyInv
<1>14. CASE O!Moves(p)
  <2>1. proc[p].at = "move" /\ proc'[p].at = "open" /\ \A q \in Process \ {p} : proc'[q] = proc[q]
    BY <1>0, <1>14 DEF O!Moves, O!At, O!Go, Procs
  <2> QED BY <1>1, <1>14, <2>1 DEF O!Moves, LegacyInv
<1>15. CASE O!Posts(p)
  BY <1>2, <1>15 DEF O!Posts, O!At, O!unchangedHistory
<1>16. CASE O!Resets(p)
  BY <1>0, <1>2, <1>16 DEF O!Resets, O!unchangedHistory, Procs
<1>17. CASE O!Drops(p)
  BY <1>0, <1>2, <1>17 DEF O!Drops, O!At, O!unchangedHistory, Procs
<1>18. CASE O!Remakes(p)
  BY <1>0, <1>2, <1>18 DEF O!Remakes, O!Keep, O!unchangedHistory, Procs
<1> QED BY <1>3, <1>4, <1>5, <1>6, <1>7, <1>8, <1>9, <1>10, <1>11, <1>12, <1>13, <1>14, <1>15,
           <1>16, <1>17, <1>18

\* The schema never has a gap, and whoever got the store finds all its binary knows
\* (Opening; db/migrate.go), as long as a reset has the store for itself.
THEOREM SchemaIsWhole == ResetAlone => (SumSpec => []SchemaWhole)
<1> SUFFICES ASSUME ResetAlone PROVE SumSpec => []SchemaWhole
  OBVIOUS
<1>1. SumInit => OpenType /\ SchemaInv
  BY OpenTypeInit, SchemaInit DEF SumInit
<1>2. ASSUME OpenType, SchemaInv, [SumNext]_all PROVE (OpenType /\ SchemaInv)'
  <2>1. CASE O!Next
    BY <1>2, <2>1, OpenTypeStep, SchemaStep
  <2>2. CASE UNCHANGED opening
    BY <1>2, <2>2 DEF opening, OpenType, O!TypeOK, SchemaInv
  <2> QED BY <1>2, <2>1, <2>2 DEF SumNext, all
<1>3. OpenType /\ SchemaInv => SchemaWhole
  <2> SUFFICES ASSUME SchemaInv PROVE SchemaWhole
    OBVIOUS
  <2>1. PICK n \in Nat : schema = 1..n
    BY DEF SchemaInv
  <2>2. \A v \in schema : 1..v \subseteq schema
    BY <2>1
  <2> QED BY <2>2 DEF SchemaInv, SchemaWhole, O!SchemaWhole, O!Served, O!At, Unserved
<1> QED BY <1>1, <1>2, <1>3, PTL DEF SumSpec

\* Once the legacy directory is out of the way, all that could be read of it was filed
\* or reported (Opening; db/import.go), also under concurrent imports and resets.
THEOREM LegacyIsKept == SumSpec => []O!LegacyKept
<1>1. SumInit => OpenType /\ LegacyInv
  <2> SUFFICES ASSUME O!Init PROVE LegacyInv
    BY OpenTypeInit DEF SumInit
  <2>1. \A p \in Process : proc[p].at = "new"
    BY DEF O!Init, O!Fresh
  <2> QED BY <2>1 DEF LegacyInv, O!Init
<1>2. ASSUME OpenType, LegacyInv, [SumNext]_all PROVE (OpenType /\ LegacyInv)'
  <2>1. CASE O!Next
    BY <1>2, <2>1, OpenTypeStep, LegacyStep
  <2>2. CASE UNCHANGED opening
    BY <1>2, <2>2 DEF opening, OpenType, O!TypeOK, LegacyInv
  <2> QED BY <1>2, <2>1, <2>2 DEF SumNext, all
<1>3. LegacyInv => O!LegacyKept
  BY DEF LegacyInv, O!LegacyKept
<1> QED BY <1>1, <1>2, <1>3, PTL DEF SumSpec
=============================================================================
