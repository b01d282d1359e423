---------------------------- MODULE DispatchProofs ----------------------------
(***************************************************************************)
(* Proofs about Dispatch for any number of daemons, consoles, tasks, slots *)
(* and faults, with or without hung workers and store failures; and, in   *)
(* the last part, about the clones a spawn draws from: CloneFiles,         *)
(* CloneImport and ClonePool.                                              *)
(***************************************************************************)
EXTENDS MCDaemons, FiniteSetTheorems, WellFoundedInduction, TLAPS

(***************************************************************************)
(* Type correctness.  What is not a matter of one assignment is the count  *)
(* of free slots: a daemon in the middle of a spawn still has one to       *)
(* spend, because it began the spawn with one and nobody else writes its   *)
(* tick.  Nor is the status a spawn reads before its save: it reads a row  *)
(* because it works on a task.                                             *)
(***************************************************************************)
SlotToSpend ==
  \A d \in Daemon : proc[d].pc \in SpawnSteps => tick[d].free > 0

\* A spawner in the middle of something works on a task.
AtWork ==
  \A p \in Spawner : proc[p].pc \notin {"idle", "tick"} => proc[p].task \in Task

Typed == TypeOK /\ SlotToSpend /\ AtWork

LEMMA NoneIsNotLive == None # "live"
  BY DEF None

LEMMA NoneIsNobody == None \notin Task /\ None \notin Slot
  BY ConstantsAssumption DEF None

LEMMA HeldSlotsAreSlots ==
  ASSUME TypeOK
  PROVE  HeldSlots \subseteq Slot
  BY DEF TypeOK, HeldSlots, Row

LEMMA FreeCountTyped ==
  ASSUME TypeOK
  PROVE  Cardinality(Slot) - Cardinality(HeldSlots) \in 0..Cardinality(Slot)
  <1>1. IsFiniteSet(Slot)
    BY ConstantsAssumption
  <1>2. IsFiniteSet(HeldSlots) /\ Cardinality(HeldSlots) <= Cardinality(Slot)
    BY <1>1, HeldSlotsAreSlots, FS_Subset
  <1>3. Cardinality(Slot) \in Nat /\ Cardinality(HeldSlots) \in Nat
    BY <1>1, <1>2, FS_CardinalityType
  <1>4. QED
    BY <1>2, <1>3

LEMMA RestTyped == AtRest \in Process /\ NoTick \in TickRead
  <1>1. Cardinality(Slot) \in Nat
    BY ConstantsAssumption, FS_CardinalityType
  <1>2. QED
    BY <1>1 DEF AtRest, NoTick, Process, TickRead, Steps

LEMMA StepNames ==
  SpawnSteps \cup TeardownSteps \cup {"idle", "tick", "transient", "permanent"}
    \cup {"check", "inuse", "acquire", "branch", "window", "launch", "save",
          "report", "lease", "event", "kill", "kill_unnamed", "retire"}
    \subseteq Steps
  BY DEF Steps, SpawnSteps, LaunchSteps, LaunchedSteps, TeardownSteps

\* Setting the program counter keeps the process table typed.
LEMMA GotoTyped ==
  ASSUME TypeOK, NEW p \in Spawner, NEW step \in Steps, Goto(p, step)
  PROVE  proc' \in [Spawner -> Process]
  BY DEF TypeOK, Goto, Process

LEMMA FailedTyped ==
  ASSUME TypeOK, NEW p \in Spawner, Failed(p)
  PROVE  proc' \in [Spawner -> Process]
  BY GotoTyped, StepNames DEF Failed

LEMMA ReleaseSlotTyped ==
  ASSUME TypeOK, NEW s, ReleaseSlot(s)
  PROVE  slot' \in [Slot -> [branch : Task \cup {None}, work : Work]]
  BY DEF TypeOK, ReleaseSlot, Work

LEMMA AbortTyped ==
  ASSUME TypeOK, NEW p \in Spawner, Abort(p)
  PROVE  /\ window' \in [Task -> [at : Slot \cup {None}, up : BOOLEAN]]
         /\ slot' \in [Slot -> [branch : Task \cup {None}, work : Work]]
         /\ proc' \in [Spawner -> Process]
         /\ UNCHANGED <<tick, fails, faults, deaths>>
  <1>1. window' \in [Task -> [at : Slot \cup {None}, up : BOOLEAN]]
    BY DEF TypeOK, Abort, NoWindow
  <1>2. slot' \in [Slot -> [branch : Task \cup {None}, work : Work]]
    BY ReleaseSlotTyped DEF Abort
  <1>3. proc' \in [Spawner -> Process]
    BY FailedTyped DEF Abort
  <1>4. QED
    BY <1>1, <1>2, <1>3 DEF Abort

\* The three tables spawns write, as facts to cite without the rest of TypeOK.
LEMMA Tables ==
  ASSUME TypeOK
  PROVE  /\ row \in [Task -> Row]
         /\ proc \in [Spawner -> Process]
         /\ fails \in [Daemon -> [Task -> 0..MaxFailures]]
  BY DEF TypeOK

LEMMA RowReported ==
  ASSUME TypeOK, NEW t \in Task, NEW s \in Status
  PROVE  [row EXCEPT ![t].status = s, ![t].lease = Extended(@)] \in [Task -> Row]
  <1>1. Extended(row[t].lease) \in {None, "live", "lapsed"}
    BY DEF Extended
  <1>2. QED
    BY <1>1, Tables DEF Row

\* What a failed dispatch may write: it parks the task, gives the claim back
\* if the row is still under it, or leaves the row alone.
LEMMA FailureWrites ==
  ASSUME NEW d, DispatchFailed(d)
  PROVE  LET t == proc[d].task IN
         /\ proc[d].pc \in {"transient", "permanent"}
         /\ \/ row' = row
            \/ row' = [row EXCEPT ![t].status = "blocked"]
            \/ UnderClaim(t) /\ row' = [row EXCEPT ![t].status = "pending", ![t].lease = None]
         /\ faults' = faults \/ (faults < MaxFaults /\ faults' = faults + 1)
  <1>1. Park(d) \/ Release(d)
    BY DEF DispatchFailed
  <1>2. CASE Park(d)
    BY <1>2 DEF Park, GivesUp, At, Unclaim, LoseWrite
  <1>3. CASE Release(d)
    BY <1>3 DEF Release, Retries, At, Unclaim, LoseWrite
  <1>4. QED
    BY <1>1, <1>2, <1>3

LEMMA TypeInit == Init => Typed
  <1> SUFFICES ASSUME Init
               PROVE  Typed
    OBVIOUS
  <1>1. row \in [Task -> Row]
    BY ConstantsAssumption DEF Init, Row, Status
  <1>2. window \in [Task -> [at : Slot \cup {None}, up : BOOLEAN]]
    BY DEF Init, NoWindow
  <1>3. slot \in [Slot -> [branch : Task \cup {None}, work : Work]]
    BY DEF Init, Work
  <1>4. proc \in [Spawner -> Process] /\ tick \in [Daemon -> TickRead]
    BY RestTyped DEF Init
  <1>5. fails \in [Daemon -> [Task -> 0..MaxFailures]]
    BY ConstantsAssumption DEF Init
  <1>6. faults \in 0..MaxFaults /\ deaths \in 0..MaxDeaths
    BY ConstantsAssumption DEF Init
  <1>7. SlotToSpend
    <2>1. \A d \in Daemon : proc[d].pc = "idle"
      BY DEF Init, AtRest, Spawner
    <2>2. QED
      BY <2>1 DEF SlotToSpend, SpawnSteps, LaunchSteps, LaunchedSteps
  <1>8. AtWork
    BY DEF Init, AtRest, AtWork
  <1>9. QED
    BY <1>1, <1>2, <1>3, <1>4, <1>5, <1>6, <1>7, <1>8 DEF Typed, TypeOK

LEMMA TypeDaemonTick ==
  ASSUME Typed, NEW d \in Daemon, DaemonTick(d)
  PROVE  TypeOK'
  <1> USE DEF Typed, Spawner
  <1>1. CASE BeginTick(d)
    <2>1. fails' \in [Daemon -> [Task -> 0..MaxFailures]]
      BY <1>1, ConstantsAssumption DEF BeginTick, PruneFailures, TypeOK
    <2>2. tick' \in [Daemon -> TickRead]
      <3> DEFINE read == [ready |-> Ready,
                          occupied |-> {t \in Task : row[t].status = "active" \/ SeenUp(t)},
                          free |-> Cardinality(Slot) - Cardinality(HeldSlots)]
      <3>1. read \in TickRead
        BY FreeCountTyped DEF TickRead, Ready
      <3>2. tick' = tick \/ tick' = [tick EXCEPT ![d] = read]
        BY <1>1 DEF BeginTick
      <3>3. QED
        BY <3>1, <3>2 DEF TypeOK
    <2>3. proc' \in [Spawner -> Process]
      <3>1. proc' = proc \/ Goto(d, "tick")
        BY <1>1 DEF BeginTick, Goto
      <3>2. QED
        BY <3>1, GotoTyped DEF TypeOK, Steps
    <2>4. QED
      BY <1>1, <2>1, <2>2, <2>3 DEF BeginTick, TypeOK
  <1>2. ASSUME NEW t \in Task, Claim(d, t)
        PROVE  TypeOK'
    <2>1. tick' \in [Daemon -> TickRead]
      BY <1>2 DEF Claim, TypeOK, TickRead
    <2>2. row' \in [Task -> Row]
      <3>1. Claimed(row[t]) \in Row
        BY Tables DEF Claimed, Row, Status
      <3>2. row' = row \/ row' = [row EXCEPT ![t] = Claimed(row[t])]
        BY <1>2 DEF Claim
      <3>3. QED
        BY <3>1, <3>2 DEF TypeOK
    <2>3. [AtRest EXCEPT !.pc = "check", !.task = t] \in Process
      BY DEF AtRest, Process, Steps, SpawnSteps
    <2>4. proc' \in [Spawner -> Process]
      BY <1>2, <2>3 DEF Claim, TypeOK
    <2>5. QED
      BY <1>2, <2>1, <2>2, <2>4 DEF Claim, TypeOK
  <1>3. CASE EndTick(d)
    BY <1>3, RestTyped DEF EndTick, TypeOK
  <1>4. CASE DispatchFailed(d)
    <2>0. proc[d].task \in Task
      BY <1>4, FailureWrites DEF AtWork
    <2>1. row' \in [Task -> Row]
      <3>1. CASE row' = row
        BY <3>1 DEF TypeOK
      <3>2. CASE row' = [row EXCEPT ![proc[d].task].status = "blocked"]
        BY <2>0, <3>2, Tables DEF Row, Status
      <3>3. CASE row' = [row EXCEPT ![proc[d].task].status = "pending",
                                    ![proc[d].task].lease = None]
        <4>1. \A r \in Row : [r EXCEPT !.status = "pending", !.lease = None] \in Row
          BY DEF Row, Status
        <4>2. QED
          BY <2>0, <3>3, <4>1, Tables
      <3>4. QED
        BY <1>4, <3>1, <3>2, <3>3, FailureWrites
    <2>2. fails' \in [Daemon -> [Task -> 0..MaxFailures]]
      <3> DEFINE count == fails[d][proc[d].task]
      <3>1. count \in 0..MaxFailures /\ MaxFailures \in Nat
        BY <2>0, ConstantsAssumption DEF TypeOK
      <3>2. PICK n \in 0..MaxFailures : fails' = [fails EXCEPT ![d][proc[d].task] = n]
        <4>1. CASE count = MaxFailures
          BY <1>4, <3>1, <4>1 DEF DispatchFailed
        <4>2. CASE count # MaxFailures
          <5>1. count + 1 \in 0..MaxFailures
            BY <3>1, <4>2
          <5>2. QED
            BY <1>4, <4>2, <5>1 DEF DispatchFailed
        <4>3. QED
          BY <4>1, <4>2
      <3>3. QED
        BY <2>0, <3>2 DEF TypeOK
    <2>3. [AtRest EXCEPT !.pc = "tick"] \in Process
      BY DEF AtRest, Process, Steps
    <2>4. proc' \in [Spawner -> Process]
      BY <1>4, <2>3 DEF DispatchFailed, TypeOK
    <2>5. faults' \in 0..MaxFaults
      <3>1. faults \in 0..MaxFaults /\ MaxFaults \in Nat
        BY ConstantsAssumption DEF TypeOK
      <3>2. faults' = faults \/ (faults < MaxFaults /\ faults' = faults + 1)
        BY <1>4, FailureWrites
      <3>3. QED
        BY <3>1, <3>2
    <2>6. QED
      BY <1>4, <2>1, <2>2, <2>4, <2>5 DEF DispatchFailed, TypeOK
  <1>5. QED
    BY <1>1, <1>2, <1>3, <1>4 DEF DaemonTick

LEMMA TypeSpawnPrepare ==
  ASSUME Typed, NEW p \in Spawner, proc[p].task \in Task,
         CheckWindow(p) \/ ReadInUse(p) \/ Acquire(p) \/ StartBranch(p)
  PROVE  TypeOK'
  <1> USE StepNames DEF Typed
  <1>1. CASE CheckWindow(p)
    <2>1. proc' \in [Spawner -> Process]
      BY <1>1, GotoTyped, FailedTyped DEF CheckWindow
    <2>2. QED
      BY <1>1, <2>1 DEF CheckWindow, TypeOK
  <1>2. CASE ReadInUse(p)
    <2>1. proc' \in [Spawner -> Process]
      <3>1. CASE Failed(p)
        BY <3>1, FailedTyped
      <3>2. CASE ~Failed(p)
        BY <1>2, <3>2, HeldSlotsAreSlots, Tables DEF ReadInUse, Process
      <3>3. QED
        BY <3>1, <3>2
    <2>2. QED
      BY <1>2, <2>1 DEF ReadInUse, TypeOK
  <1>3. CASE Acquire(p)
    <2>1. CASE Failed(p) /\ UNCHANGED slot
      BY <1>3, <2>1, FailedTyped DEF Acquire, TypeOK
    <2>2. ASSUME NEW s \in FreeSlot(p),
                 slot' = [slot EXCEPT ![s].branch = None],
                 proc' = [proc EXCEPT ![p].slot = s, ![p].pc = "branch", ![p].busy = {}]
          PROVE  TypeOK'
      <3>1. s \in Slot
        BY DEF FreeSlot
      <3>2. slot' \in [Slot -> [branch : Task \cup {None}, work : Work]]
        BY <2>2, <3>1 DEF TypeOK
      <3>3. proc' \in [Spawner -> Process]
        <4> DEFINE q == [proc[p] EXCEPT !.slot = s, !.pc = "branch", !.busy = {}]
        <4>1. q \in Process
          BY <3>1, Tables DEF Process
        <4>2. proc' = [proc EXCEPT ![p] = q]
          BY <2>2
        <4>3. QED
          BY <4>1, <4>2, Tables
      <3>4. QED
        BY <1>3, <3>2, <3>3 DEF Acquire, TypeOK
    <2>3. QED
      BY <1>3, <2>1, <2>2 DEF Acquire
  <1>4. CASE StartBranch(p)
    <2> DEFINE mine == [branch |-> proc[p].task, work |-> "none"]
    <2>1. slot' \in [Slot -> [branch : Task \cup {None}, work : Work]]
      <3>1. mine \in [branch : Task \cup {None}, work : Work]
        BY DEF Work
      <3>2. ReleaseSlot(proc[p].slot) \/ slot' = [slot EXCEPT ![proc[p].slot] = mine]
        BY <1>4 DEF StartBranch
      <3>3. QED
        BY <3>1, <3>2, ReleaseSlotTyped DEF TypeOK
    <2>2. proc' \in [Spawner -> Process]
      BY <1>4, GotoTyped, FailedTyped DEF StartBranch
    <2>3. QED
      BY <1>4, <2>1, <2>2 DEF StartBranch, TypeOK
  <1>5. QED
    BY <1>1, <1>2, <1>3, <1>4

LEMMA TypeSpawnLaunch ==
  ASSUME Typed, NEW p \in Spawner, proc[p].task \in Task, OpenWindow(p) \/ Launch(p)
  PROVE  TypeOK'
  <1> USE StepNames DEF Typed
  <1>1. CASE OpenWindow(p)
    <2> DEFINE opened == [at |-> proc[p].slot, up |-> FALSE]
    <2>1. slot' \in [Slot -> [branch : Task \cup {None}, work : Work]]
      BY <1>1, ReleaseSlotTyped DEF OpenWindow, TypeOK
    <2>2. proc' \in [Spawner -> Process]
      BY <1>1, GotoTyped, FailedTyped DEF OpenWindow
    <2>3. window' \in [Task -> [at : Slot \cup {None}, up : BOOLEAN]]
      <3>1. {opened, NoWindow} \subseteq [at : Slot \cup {None}, up : BOOLEAN]
        BY DEF TypeOK, Process, NoWindow
      <3>2. \E w \in {opened, NoWindow} : window' = [window EXCEPT ![proc[p].task] = w]
        BY <1>1 DEF OpenWindow
      <3>3. QED
        BY <3>1, <3>2 DEF TypeOK
    <2>4. QED
      BY <1>1, <2>1, <2>2, <2>3 DEF OpenWindow, TypeOK
  <1>2. CASE Launch(p)
    <2>1. CASE Abort(p) /\ UNCHANGED row
      BY <2>1, AbortTyped DEF TypeOK
    <2>2. CASE ~(Abort(p) /\ UNCHANGED row)
      <3>1. window' = [window EXCEPT ![proc[p].task].up = TRUE] /\ Goto(p, "save")
        BY <1>2, <2>2 DEF Launch
      <3>2. window' \in [Task -> [at : Slot \cup {None}, up : BOOLEAN]]
        BY <3>1 DEF TypeOK
      <3>3. proc' \in [Spawner -> Process]
        BY <3>1, GotoTyped
      <3>4. QED
        BY <1>2, <2>2, <3>2, <3>3 DEF Launch, TypeOK
    <2>3. QED
      BY <2>1, <2>2
  <1>3. QED
    BY <1>1, <1>2

LEMMA TypeSpawnSave ==
  ASSUME Typed, NEW p \in Spawner, proc[p].task \in Task, Save(p) \/ ReportActive(p)
  PROVE  TypeOK'
  <1> USE StepNames DEF Typed
  <1> DEFINE t == proc[p].task
  <1>1. CASE Save(p)
    <2>1. CASE Abort(p) /\ UNCHANGED row
      BY <2>1, AbortTyped DEF TypeOK
    <2>2. CASE ~(Abort(p) /\ UNCHANGED row)
      <3>1. row' \in [Task -> Row]
        <4>1. Saved(row[t], proc[p].slot) \in Row
          <5>1. row[t] \in Row /\ proc[p].slot \in Slot \cup {None}
            BY Tables DEF Process
          <5>2. QED
            BY <5>1 DEF Saved, Row
        <4>2. row' = [row EXCEPT ![t] = Saved(row[t], proc[p].slot)]
          BY <1>1, <2>2 DEF Save
        <4>3. QED
          BY <4>1, <4>2 DEF TypeOK
      <3>2. proc' \in [Spawner -> Process]
        <4>1. row[t].status \in Status
          BY DEF TypeOK, Row
        <4>2. proc' = [proc EXCEPT ![p].prior = row[t].status, ![p].pc = "report"]
          BY <1>1, <2>2 DEF Save
        <4>3. QED
          BY <4>1, <4>2, Tables DEF Process
      <3>3. QED
        BY <1>1, <2>2, <3>1, <3>2 DEF Save, TypeOK
    <2>3. QED
      BY <2>1, <2>2
  <1>2. CASE ReportActive(p)
    <2>1. row' \in [Task -> Row]
      <3>1. CASE row' = row
        BY <3>1 DEF TypeOK
      <3>2. CASE row' = [row EXCEPT ![t].status = "active", ![t].lease = Extended(@)]
        BY <3>2, RowReported DEF Status
      <3>3. CASE row' = [row EXCEPT ![t].named = FALSE, ![t].worktree = None]
        <4>1. \A r \in Row : [r EXCEPT !.named = FALSE, !.worktree = None] \in Row
          BY DEF Row
        <4>2. QED
          BY <3>3, <4>1, Tables
      <3>4. QED
        BY <1>2, <3>1, <3>2, <3>3 DEF ReportActive
    <2>2. CASE Abort(p)
      BY <2>1, <2>2, AbortTyped DEF TypeOK
    <2>3. CASE ~Abort(p)
      BY <1>2, <2>1, <2>3, GotoTyped DEF ReportActive, TypeOK
    <2>4. QED
      BY <2>2, <2>3
  <1>3. QED
    BY <1>1, <1>2

LEMMA TypeSpawnSettle ==
  ASSUME Typed, NEW p \in Spawner, proc[p].task \in Task, GrantLease(p) \/ Spawned(p)
  PROVE  TypeOK'
  <1> USE StepNames DEF Typed
  <1> DEFINE t == proc[p].task
  <1>1. CASE GrantLease(p)
    <2>1. row' \in [Task -> Row]
      <3>1. row' = row \/ row' = [row EXCEPT ![t].lease = "live"]
        BY <1>1 DEF GrantLease, BestEffort
      <3>2. QED
        BY <3>1, Tables DEF Row
    <2>2. QED
      BY <1>1, <2>1, GotoTyped DEF GrantLease, TypeOK
  <1>2. CASE Spawned(p)
    <2>1. row' \in [Task -> Row]
      <3>1. row' = row \/ row' = [row EXCEPT ![t].gone = FALSE]
        BY <1>2 DEF Spawned, BestEffort
      <3>2. QED
        BY <3>1, Tables DEF Row
    <2>2. proc' \in [Spawner -> Process]
      <3> DEFINE rest(step) == [AtRest EXCEPT !.pc = step]
      <3>1. rest("tick") \in Process /\ rest("idle") \in Process
        BY DEF AtRest, Process
      <3>2. proc' = [proc EXCEPT ![p] = rest("tick")] \/ proc' = [proc EXCEPT ![p] = rest("idle")]
        BY <1>2 DEF Spawned
      <3>3. QED
        BY <3>1, <3>2 DEF TypeOK
    <2>3. CASE p \in Daemon
      <3>1. tick[p].free \in 0..Cardinality(Slot) /\ tick[p].free > 0
        BY <1>2, <2>3 DEF Spawned, At, SlotToSpend, TypeOK, TickRead, SpawnSteps, LaunchedSteps
      <3>2. Cardinality(Slot) \in Nat
        BY ConstantsAssumption, FS_CardinalityType
      <3>3. tick[p].free - 1 \in 0..Cardinality(Slot)
        BY <3>1, <3>2
      <3>4. tick' \in [Daemon -> TickRead]
        <4>1. tick' = [tick EXCEPT ![p].free = tick[p].free - 1, ![p].occupied = @ \cup {t}]
          BY <1>2, <2>3 DEF Spawned
        <4>2. QED
          BY <2>3, <3>3, <4>1 DEF TypeOK, TickRead
      <3>5. fails' \in [Daemon -> [Task -> 0..MaxFailures]]
        BY <1>2, <2>3, Tables, ConstantsAssumption DEF Spawned
      <3>6. QED
        BY <1>2, <2>1, <2>2, <3>4, <3>5 DEF Spawned, TypeOK
    <2>4. CASE p \notin Daemon
      BY <1>2, <2>1, <2>2, <2>4 DEF Spawned, TypeOK
    <2>5. QED
      BY <2>3, <2>4
  <1>3. QED
    BY <1>1, <1>2

LEMMA TypeSpawnStep ==
  ASSUME Typed, NEW p \in Spawner, SpawnStep(p)
  PROVE  TypeOK'
  <1>1. proc[p].task \in Task
    BY DEF SpawnStep, Typed, AtWork, At, CheckWindow, ReadInUse, Acquire, StartBranch,
           OpenWindow, Launch, Save, ReportActive, GrantLease, Spawned
  <1>2. QED
    BY <1>1, TypeSpawnPrepare, TypeSpawnLaunch, TypeSpawnSave, TypeSpawnSettle
       DEF SpawnStep

LEMMA TypeConsoleStep ==
  ASSUME Typed, NEW c \in Console, ConsoleStep(c)
  PROVE  TypeOK'
  <1> USE StepNames DEF Typed, Spawner
  <1>1. ASSUME NEW t \in Task, BeginSpawn(c, t)
        PROVE  TypeOK'
    <2>1. [AtRest EXCEPT !.pc = "check", !.task = t] \in Process
      BY DEF AtRest, Process
    <2>2. QED
      BY <1>1, <2>1 DEF BeginSpawn, TypeOK
  <1>2. CASE SpawnFailed(c)
    BY <1>2, RestTyped DEF SpawnFailed, TypeOK
  <1>3. ASSUME NEW t \in Task, NEW force \in BOOLEAN, TeardownBegin(c, t, force)
        PROVE  TypeOK'
    <2> DEFINE step == IF row[t].named THEN "kill" ELSE "kill_unnamed"
               q == [proc[c] EXCEPT !.task = t, !.slot = row[t].worktree, !.pc = step]
    <2>1. q \in Process
      <3>1. row[t].worktree \in Slot \cup {None}
        BY Tables DEF Row
      <3>2. QED
        BY <3>1, Tables DEF Process
    <2>2. proc' = [proc EXCEPT ![c] = q]
      BY <1>3 DEF TeardownBegin
    <2>3. QED
      BY <1>3, <2>1, <2>2 DEF TeardownBegin, TypeOK
  <1>4. CASE TeardownRelease(c)
    <2>1. slot' \in [Slot -> [branch : Task \cup {None}, work : Work]]
      BY <1>4, ReleaseSlotTyped DEF TeardownRelease, TypeOK
    <2>2. window' \in [Task -> [at : Slot \cup {None}, up : BOOLEAN]]
      <3>1. NoWindow \in [at : Slot \cup {None}, up : BOOLEAN]
        BY DEF NoWindow
      <3>2. window' = window \/ \E u : window' = [window EXCEPT ![u] = NoWindow]
        BY <1>4 DEF TeardownRelease, KillNamed
      <3>3. QED
        BY <3>1, <3>2 DEF TypeOK
    <2>3. deaths' \in 0..MaxDeaths
      BY <1>4, ConstantsAssumption DEF TeardownRelease, KillNamed, TypeOK
    <2>4. proc' \in [Spawner -> Process]
      BY <1>4, GotoTyped DEF TeardownRelease
    <2>5. QED
      BY <1>4, <2>1, <2>2, <2>3, <2>4 DEF TeardownRelease, TypeOK
  <1>5. CASE TeardownRecord(c)
    <2> DEFINE t == proc[c].task
    <2>1. t \in Task
      BY <1>5 DEF TeardownRecord, At, AtWork
    <2>2. PICK w \in {row[t].worktree, None} :
            row' = [row EXCEPT ![t].status = "torn_down", ![t].worktree = w]
      BY <1>5 DEF TeardownRecord
    <2>3. \A r \in Row, x \in Slot \cup {None} :
            [r EXCEPT !.status = "torn_down", !.worktree = x] \in Row
      BY DEF Row, Status
    <2>4. w \in Slot \cup {None}
      BY <2>1, <2>2, Tables DEF Row
    <2>5. row' \in [Task -> Row]
      BY <2>1, <2>2, <2>3, <2>4, Tables
    <2>6. QED
      BY <1>5, <2>5, RestTyped DEF TeardownRecord, TypeOK
  <1>6. QED
    BY <1>1, <1>2, <1>3, <1>4, <1>5 DEF ConsoleStep

LEMMA TypeCrash ==
  ASSUME Typed, NEW p \in Spawner, Crash(p)
  PROVE  TypeOK'
  <1>1. faults' \in 0..MaxFaults
    BY ConstantsAssumption DEF Typed, TypeOK, Crash
  <1>2. fails' \in [Daemon -> [Task -> 0..MaxFailures]]
    <2>1. fails' = fails \/ fails' = [fails EXCEPT ![p] = [t \in Task |-> 0]]
      BY DEF Crash
    <2>2. [t \in Task |-> 0] \in [Task -> 0..MaxFailures]
      BY ConstantsAssumption
    <2>3. QED
      BY <2>1, <2>2, Tables DEF Typed
  <1>3. tick' \in [Daemon -> TickRead] /\ proc' \in [Spawner -> Process]
    BY RestTyped DEF Typed, TypeOK, Crash
  <1>4. QED
    BY <1>1, <1>2, <1>3 DEF Typed, TypeOK, Crash

LEMMA TypeTaskStep ==
  ASSUME Typed, NEW t \in Task, WorkerStep(t) \/ WatchStep(t)
  PROVE  TypeOK'
  <1> USE DEF Typed
  <1>1. ASSUME NEW w \in {"edits", "commits"}, WorkerEdits(t, w)
        PROVE  TypeOK'
    <2>1. slot' \in [Slot -> [branch : Task \cup {None}, work : Work]]
      BY <1>1 DEF WorkerEdits, TypeOK, Work
    <2>2. QED
      BY <1>1, <2>1 DEF WorkerEdits, TypeOK
  <1>2. ASSUME NEW s \in Reported, WorkerReports(t, s)
        PROVE  TypeOK'
    <2>1. \A r \in Row : [r EXCEPT !.status = s, !.gone = FALSE, !.lease = Extended(@)] \in Row
      BY DEF Row, Status, Reported, Extended
    <2>2. QED
      BY <1>2, <2>1 DEF WorkerReports, TypeOK
  <1>3. CASE WorkerDies(t)
    <2>1. deaths' \in 0..MaxDeaths
      BY <1>3, ConstantsAssumption DEF WorkerDies, TypeOK
    <2>2. QED
      BY <1>3, <2>1 DEF WorkerDies, TypeOK, NoWindow
  <1>4. CASE LeaseLapses(t)
    <2>1. \A r \in Row : [r EXCEPT !.lease = "lapsed"] \in Row
      BY DEF Row
    <2>2. QED
      BY <1>4, <2>1 DEF LeaseLapses, TypeOK
  <1>5. CASE WatchWindowGone(t)
    <2>1. \A r \in Row : [r EXCEPT !.gone = TRUE] \in Row
      BY DEF Row
    <2>2. QED
      BY <1>5, <2>1 DEF WatchWindowGone, TypeOK
  <1>6. CASE Reclaim(t)
    <2>1. row[t] \in Row /\ row[t].retry \in 0..MaxRetries /\ MaxRetries \in Nat
      BY Tables, ConstantsAssumption DEF Row
    <2>2. [row[t] EXCEPT !.status = "failed", !.lease = None] \in Row
      BY <2>1 DEF Row, Status
    <2>3. ~(row[t].retry >= MaxRetries)
            => [row[t] EXCEPT !.status = "pending", !.lease = None, !.retry = row[t].retry + 1] \in Row
      <3>1. ~(row[t].retry >= MaxRetries) => row[t].retry + 1 \in 0..MaxRetries
        BY <2>1
      <3>2. \A r \in Row, n \in 0..MaxRetries :
              [r EXCEPT !.status = "pending", !.lease = None, !.retry = n] \in Row
        BY DEF Row, Status
      <3>3. QED
        BY <2>1, <3>1, <3>2
    <2>4. row' \in [Task -> Row]
      BY <1>6, <2>2, <2>3, Tables DEF Reclaim
    <2>5. QED
      BY <1>6, <2>4 DEF Reclaim, TypeOK
  <1>7. QED
    BY <1>1, <1>2, <1>3, <1>4, <1>5, <1>6 DEF WorkerStep, WatchStep

(***************************************************************************)
(* A spawner's process and tick are its own: no step of another writes     *)
(* them.                                                                   *)
(***************************************************************************)
OwnStep(p) ==
  \/ SpawnStep(p)
  \/ Crash(p)
  \/ p \in Daemon /\ DaemonTick(p)
  \/ p \in Console /\ ConsoleStep(p)

Unmoved(p) == proc'[p] = proc[p] /\ (p \in Daemon => tick'[p] = tick[p])

LEMMA OthersStay ==
  ASSUME TypeOK, [Next]_vars, NEW p \in Spawner
  PROVE  Unmoved(p) \/ OwnStep(p)
  <1> USE DEF Unmoved
  <1>1. ASSUME NEW d \in Daemon, DaemonTick(d), d # p
        PROVE  Unmoved(p)
    BY <1>1 DEF TypeOK, Spawner, DaemonTick, BeginTick, Claim, EndTick, DispatchFailed
  <1>2. ASSUME NEW q \in Spawner, SpawnStep(q), q # p
        PROVE  Unmoved(p)
    BY <1>2 DEF TypeOK, SpawnStep, Goto, Failed, Abort, CheckWindow, ReadInUse, Acquire,
                StartBranch, OpenWindow, Launch, Save, ReportActive, GrantLease, Spawned
  <1>3. ASSUME NEW q \in Spawner, Crash(q), q # p
        PROVE  Unmoved(p)
    BY <1>3 DEF TypeOK, Crash
  <1>4. ASSUME NEW c \in Console, ConsoleStep(c), c # p
        PROVE  Unmoved(p)
    BY <1>4 DEF TypeOK, Spawner, ConsoleStep, Goto, BeginSpawn, SpawnFailed,
                TeardownBegin, TeardownRelease, TeardownRecord
  <1>5. ASSUME NEW t \in Task, WorkerStep(t) \/ WatchStep(t)
        PROVE  Unmoved(p)
    BY <1>5 DEF WorkerStep, WatchStep, WorkerEdits, WorkerReports, WorkerDies,
                LeaseLapses, WatchWindowGone, Reclaim
  <1>6. CASE UNCHANGED vars
    BY <1>6 DEF vars
  <1>7. QED
    BY <1>1, <1>2, <1>3, <1>4, <1>5, <1>6 DEF Next, OwnStep

LEMMA AtWorkNext ==
  ASSUME Typed, [Next]_vars
  PROVE  AtWork'
  <1> USE DEF Typed
  <1> SUFFICES ASSUME NEW p \in Spawner, proc'[p].pc \notin {"idle", "tick"}
               PROVE  proc'[p].task \in Task
    BY DEF AtWork
  <1>1. CASE Unmoved(p)
    BY <1>1 DEF Unmoved, AtWork
  <1>2. CASE SpawnStep(p)
    <2>1. proc[p].task \in Task
      BY <1>2 DEF SpawnStep, AtWork, At, CheckWindow, ReadInUse, Acquire, StartBranch,
                  OpenWindow, Launch, Save, ReportActive, GrantLease, Spawned
    <2>2. CASE Spawned(p)
      BY <2>2, Tables DEF Spawned, AtRest
    <2>3. CASE ReadInUse(p) \/ Acquire(p) \/ Save(p)
      <3>1. CASE ReadInUse(p)
        BY <2>1, <3>1, Tables DEF ReadInUse, Failed, Goto, Process
      <3>2. CASE Acquire(p)
        <4>1. CASE Failed(p)
          BY <2>1, <4>1, Tables DEF Failed, Goto, Process
        <4>2. ASSUME NEW s \in FreeSlot(p),
                     proc' = [proc EXCEPT ![p].slot = s, ![p].pc = "branch", ![p].busy = {}]
              PROVE  proc'[p].task \in Task
          BY <2>1, <4>2, Tables DEF Process
        <4>3. QED
          BY <3>2, <4>1, <4>2 DEF Acquire
      <3>3. CASE Save(p)
        <4>1. CASE Failed(p)
          BY <2>1, <4>1, Tables DEF Failed, Goto, Process
        <4>2. CASE ~Failed(p)
          BY <2>1, <3>3, <4>2, Tables DEF Save, Abort, Process
        <4>3. QED
          BY <4>1, <4>2
      <3>4. QED
        BY <2>3, <3>1, <3>2, <3>3
    <2>4. CASE \/ CheckWindow(p) \/ StartBranch(p) \/ OpenWindow(p) \/ Launch(p)
               \/ ReportActive(p) \/ GrantLease(p)
      <3>1. \E step \in Steps : Goto(p, step)
        BY <2>4, StepNames DEF CheckWindow, StartBranch, OpenWindow, Launch, ReportActive,
                               GrantLease, Abort, Failed
      <3>2. QED
        BY <2>1, <3>1, Tables DEF Goto
    <2>5. QED
      BY <1>2, <2>2, <2>3, <2>4 DEF SpawnStep
  <1>3. CASE Crash(p)
    BY <1>3, Tables DEF Crash, AtRest
  <1>4. CASE p \in Daemon /\ DaemonTick(p)
    <2>1. CASE BeginTick(p)
      <3>1. UNCHANGED proc \/ Goto(p, "tick")
        BY <2>1 DEF BeginTick, Goto
      <3>2. QED
        BY <3>1, Tables DEF Goto, AtWork, Process
    <2>2. ASSUME NEW t \in Task, Claim(p, t)
          PROVE  proc'[p].task \in Task
      BY <2>2, Tables DEF Claim, AtWork, AtRest
    <2>3. CASE EndTick(p) \/ DispatchFailed(p)
      BY <2>3, Tables DEF EndTick, DispatchFailed, AtRest
    <2>4. QED
      BY <1>4, <2>1, <2>2, <2>3 DEF DaemonTick
  <1>5. CASE p \in Console /\ ConsoleStep(p)
    <2>1. ASSUME NEW t \in Task, BeginSpawn(p, t) \/ \E force \in BOOLEAN : TeardownBegin(p, t, force)
          PROVE  proc'[p].task \in Task
      <3>1. CASE BeginSpawn(p, t)
        BY <3>1, Tables DEF BeginSpawn, AtRest
      <3>2. CASE \E force \in BOOLEAN : TeardownBegin(p, t, force)
        BY <3>2, Tables DEF TeardownBegin, Process
      <3>3. QED
        BY <2>1, <3>1, <3>2
    <2>2. CASE SpawnFailed(p) \/ TeardownRecord(p)
      BY <2>2, Tables DEF SpawnFailed, TeardownRecord, AtRest
    <2>3. CASE TeardownRelease(p)
      BY <2>3, Tables DEF TeardownRelease, KillNamed, Goto, At, AtWork
    <2>4. QED
      BY <1>5, <2>1, <2>2, <2>3 DEF ConsoleStep
  <1>6. QED
    BY <1>1, <1>2, <1>3, <1>4, <1>5, OthersStay DEF OwnStep

LEMMA SlotToSpendNext ==
  ASSUME Typed, [Next]_vars
  PROVE  SlotToSpend'
  <1> USE DEF Typed, SpawnSteps, LaunchSteps, LaunchedSteps
  <1> SUFFICES ASSUME NEW d \in Daemon, proc'[d].pc \in SpawnSteps
               PROVE  tick'[d].free > 0
    BY DEF SlotToSpend
  <1>1. d \in Spawner /\ d \notin Console
    BY ConstantsAssumption DEF Spawner
  <1>2. CASE Unmoved(d)
    BY <1>2 DEF Unmoved, SlotToSpend
  <1>3. CASE SpawnStep(d)
    <2>1. proc[d].pc \in SpawnSteps
      BY <1>3 DEF SpawnStep, At, CheckWindow, ReadInUse, Acquire, StartBranch,
                  OpenWindow, Launch, Save, ReportActive, GrantLease, Spawned
    <2>2. tick' = tick \/ proc'[d].pc = "tick"
      BY <1>1, <1>3, Tables
         DEF SpawnStep, Abort, CheckWindow, ReadInUse, Acquire, StartBranch, OpenWindow,
             Launch, Save, ReportActive, GrantLease, Spawned, AtRest
    <2>3. QED
      BY <2>1, <2>2 DEF SlotToSpend
  <1>4. CASE Crash(d)
    BY <1>1, <1>4, Tables DEF Crash, AtRest
  <1>5. CASE DaemonTick(d)
    <2>1. CASE BeginTick(d)
      BY <1>1, <2>1, Tables DEF BeginTick, Process
    <2>2. ASSUME NEW t \in Task, Claim(d, t)
          PROVE  tick'[d].free > 0
      BY <2>2 DEF Claim, Dispatchable, TypeOK, TickRead
    <2>3. CASE EndTick(d) \/ DispatchFailed(d)
      BY <1>1, <2>3, Tables DEF EndTick, DispatchFailed, AtRest
    <2>4. QED
      BY <1>5, <2>1, <2>2, <2>3 DEF DaemonTick
  <1>6. QED
    BY <1>1, <1>2, <1>3, <1>4, <1>5, OthersStay DEF OwnStep

LEMMA TypeNext == Typed /\ [Next]_vars => Typed'
  <1> SUFFICES ASSUME Typed, [Next]_vars
               PROVE  Typed'
    OBVIOUS
  <1>1. TypeOK'
    <2>1. CASE UNCHANGED vars
      BY <2>1 DEF vars, Typed, TypeOK
    <2>2. QED
      BY <2>1, TypeDaemonTick, TypeSpawnStep, TypeConsoleStep, TypeCrash, TypeTaskStep
         DEF Next
  <1>2. QED
    BY <1>1, AtWorkNext, SlotToSpendNext DEF Typed

\* Every table keeps its type whoever interleaves: in particular no daemon's
\* count of free slots goes below zero and no task passes its retry ceiling.
THEOREM TypeCorrect == Spec => []TypeOK
  <1>1. Typed => TypeOK
    BY DEF Typed
  <1>2. QED
    BY <1>1, TypeInit, TypeNext, PTL DEF Spec

(***************************************************************************)
(* The claim excludes every other daemon.  The status alone does not say   *)
(* why: it is pending again as soon as a sweep takes the task back.  What  *)
(* keeps a task out of the backlog while a daemon spawns it is that its    *)
(* claim also cleared whatever a sweep acts on, the lapsed lease and the   *)
(* lost window, and that neither comes back during the spawn.              *)
(***************************************************************************)
OutOfReach(r) == r.status # "pending" /\ r.lease # "lapsed" /\ r.gone = FALSE

ClaimHeld ==
  \A d \in Daemon :
    /\ proc[d].pc \notin TeardownSteps
    /\ proc[d].task \in Task => OutOfReach(row[proc[d].task])

ClaimInv == Typed /\ OneClaimant /\ ClaimHeld

LEMMA SpawnKeepsOutOfReach ==
  ASSUME TypeOK, NEW p \in Spawner, SpawnStep(p), NEW t \in Task, OutOfReach(row[t])
  PROVE  OutOfReach(row'[t])
  <1> USE Tables DEF OutOfReach, Row
  <1>1. CASE UNCHANGED row
    BY <1>1
  <1>2. CASE Save(p)
    <2>1. \A r \in Row, s \in Slot \cup {None} : OutOfReach(r) => OutOfReach(Saved(r, s))
      BY DEF Saved
    <2>2. \/ UNCHANGED row
          \/ row' = [row EXCEPT ![proc[p].task] = Saved(@, proc[p].slot)]
      BY <1>2 DEF Save
    <2>3. proc[p].slot \in Slot \cup {None}
      BY DEF Process
    <2>4. QED
      BY <2>1, <2>2, <2>3
  <1>3. CASE ReportActive(p)
    <2>1. CASE UNCHANGED row
      BY <1>1, <2>1
    <2>2. CASE row' = [row EXCEPT ![proc[p].task].named = FALSE,
                                  ![proc[p].task].worktree = None]
      BY <2>2
    <2>3. CASE row' = [row EXCEPT ![proc[p].task].status = "active",
                                  ![proc[p].task].lease = Extended(@)]
      <3>1. \A r \in Row : OutOfReach(r) =>
              OutOfReach([r EXCEPT !.status = "active", !.lease = Extended(r.lease)])
        BY DEF Extended
      <3>2. proc[p].task = t =>
              row'[t] = [row[t] EXCEPT !.status = "active", !.lease = Extended(row[t].lease)]
        BY <2>3
      <3>3. proc[p].task # t => row'[t] = row[t]
        BY <2>3
      <3>4. QED
        BY <3>1, <3>2, <3>3
    <2>4. QED
      BY <1>3, <2>1, <2>2, <2>3 DEF ReportActive
  <1>4. CASE GrantLease(p)
    <2>1. UNCHANGED row \/ row' = [row EXCEPT ![proc[p].task].lease = "live"]
      BY <1>4 DEF GrantLease, BestEffort
    <2>2. QED
      BY <1>1, <2>1
  <1>5. CASE Spawned(p)
    <2>1. UNCHANGED row \/ row' = [row EXCEPT ![proc[p].task].gone = FALSE]
      BY <1>5 DEF Spawned, BestEffort
    <2>2. QED
      BY <1>1, <2>1
  <1>6. CASE \/ CheckWindow(p) \/ ReadInUse(p) \/ Acquire(p) \/ StartBranch(p)
             \/ OpenWindow(p) \/ Launch(p)
    BY <1>1, <1>6 DEF CheckWindow, ReadInUse, Acquire, StartBranch, OpenWindow, Launch
  <1>7. QED
    BY <1>2, <1>3, <1>4, <1>5, <1>6 DEF SpawnStep

\* While a daemon works on a task no step of anybody else puts it in reach.
LEMMA ClaimUndisturbed ==
  ASSUME ClaimInv, [Next]_vars, NEW d \in Daemon, NEW t \in Task,
         proc[d].task = t, proc'[d].task = t
  PROVE  OutOfReach(row'[t])
  <1> USE DEF ClaimInv, Typed
  <1>1. OutOfReach(row[t]) /\ UnderDispatch(t)
    BY DEF ClaimHeld, UnderDispatch, Spawning, Spawner
  <1>2. CASE UNCHANGED row
    BY <1>1, <1>2
  <1>3. ASSUME NEW e \in Daemon, DaemonTick(e)
        PROVE  OutOfReach(row'[t])
    <2>1. ASSUME NEW u \in Task, Claim(e, u)
          PROVE  OutOfReach(row'[t])
      <3>1. u = t => UNCHANGED row
        BY <1>1, <2>1 DEF Claim, Claimable, OutOfReach
      <3>2. u # t => row'[t] = row[t]
        BY <2>1, Tables DEF Claim
      <3>3. QED
        BY <1>1, <3>1, <3>2
    <2>2. CASE DispatchFailed(e)
      <3>1. e # d
        BY <2>2, Tables, NoneIsNobody DEF DispatchFailed, AtRest, Spawner
      <3>2. proc[e].task # t
        BY <3>1, NoneIsNobody DEF OneClaimant
      <3>3. row'[t] = row[t]
        <4> DEFINE u == proc[e].task
        <4>1. \/ row' = row
              \/ row' = [row EXCEPT ![u].status = "blocked"]
              \/ row' = [row EXCEPT ![u].status = "pending", ![u].lease = None]
          BY <2>2, FailureWrites
        <4>2. QED
          BY <3>2, <4>1, Tables
      <3>4. QED
        BY <1>1, <3>3
    <2>3. CASE BeginTick(e) \/ EndTick(e)
      BY <1>2, <2>3 DEF BeginTick, EndTick
    <2>4. QED
      BY <1>3, <2>1, <2>2, <2>3 DEF DaemonTick
  <1>4. ASSUME NEW p \in Spawner, SpawnStep(p)
        PROVE  OutOfReach(row'[t])
    BY <1>1, <1>4, SpawnKeepsOutOfReach
  <1>5. ASSUME NEW c \in Console, ConsoleStep(c)
        PROVE  OutOfReach(row'[t])
    <2>1. CASE TeardownRecord(c)
      BY <1>1, <2>1, Tables DEF TeardownRecord, OutOfReach, Row
    <2>2. CASE ~TeardownRecord(c)
      BY <1>2, <1>5, <2>2 DEF ConsoleStep, BeginSpawn, SpawnFailed, TeardownBegin, TeardownRelease
    <2>3. QED
      BY <2>1, <2>2
  <1>6. ASSUME NEW u \in Task, WorkerStep(u)
        PROVE  OutOfReach(row'[t])
    <2>1. ASSUME NEW s \in Reported, WorkerReports(u, s)
          PROVE  OutOfReach(row'[t])
      BY <1>1, <2>1, Tables DEF WorkerReports, OutOfReach, Row, Reported, Extended
    <2>2. CASE UNCHANGED row
      BY <1>2, <2>2
    <2>3. QED
      BY <1>6, <2>1, <2>2 DEF WorkerStep, WorkerEdits, WorkerDies
  <1>7. ASSUME NEW u \in Task, WatchStep(u)
        PROVE  OutOfReach(row'[t])
    <2>1. u # t
      BY <1>1, <1>7 DEF WatchStep, LeaseLapses, WatchWindowGone, Reclaim, Reclaimable, OutOfReach
    <2>2. row'[t] = row[t]
      BY <1>7, <2>1, Tables DEF WatchStep, LeaseLapses, WatchWindowGone, Reclaim
    <2>3. QED
      BY <1>1, <2>2
  <1>8. CASE (\E p \in Spawner : Crash(p)) \/ UNCHANGED vars
    BY <1>2, <1>8 DEF Crash, vars
  <1>9. QED
    BY <1>3, <1>4, <1>5, <1>6, <1>7, <1>8 DEF Next

\* What a daemon's own step makes of the task it works on.
LEMMA DaemonTask ==
  ASSUME ClaimInv, [Next]_vars, NEW d \in Daemon
  PROVE  /\ proc'[d].pc \notin TeardownSteps
         /\ \/ proc'[d].task = proc[d].task
            \/ proc'[d].task = None
            \/ /\ Claim(d, proc'[d].task)
               /\ proc'[d].task \in Task
               /\ Claimable(proc'[d].task)
  <1> USE DEF ClaimInv, Typed, TeardownSteps
  <1>1. d \in Spawner /\ d \notin Console
    BY ConstantsAssumption DEF Spawner
  <1>2. proc[d].pc \notin TeardownSteps
    BY DEF ClaimHeld
  <1>3. CASE Unmoved(d)
    BY <1>2, <1>3 DEF Unmoved
  <1>4. CASE SpawnStep(d)
    <2>1. CASE Spawned(d)
      BY <1>1, <2>1, Tables DEF Spawned, AtRest
    <2>2. CASE ReadInUse(d)
      BY <1>1, <2>2, Tables DEF ReadInUse, Failed, Goto, Process
    <2>3. CASE Save(d)
      BY <1>1, <2>3, Tables DEF Save, Abort, Failed, Goto, Process
    <2>4. CASE Acquire(d)
      <3>1. CASE Failed(d)
        BY <1>1, <3>1, Tables DEF Failed, Goto, Process
      <3>2. ASSUME NEW s \in FreeSlot(d),
                   proc' = [proc EXCEPT ![d].slot = s, ![d].pc = "branch", ![d].busy = {}]
            PROVE  proc'[d].pc \notin TeardownSteps /\ proc'[d].task = proc[d].task
        BY <1>1, <3>2, Tables DEF Process
      <3>3. QED
        BY <2>4, <3>1, <3>2 DEF Acquire
    <2>5. CASE \/ CheckWindow(d) \/ StartBranch(d) \/ OpenWindow(d) \/ Launch(d)
               \/ ReportActive(d) \/ GrantLease(d)
      <3>1. \E step \in Steps \ TeardownSteps : Goto(d, step)
        BY <2>5, StepNames DEF CheckWindow, StartBranch, OpenWindow, Launch, ReportActive,
                               GrantLease, Abort, Failed
      <3>2. QED
        BY <1>1, <3>1, Tables DEF Goto, Process
    <2>6. QED
      BY <1>4, <2>1, <2>2, <2>3, <2>4, <2>5 DEF SpawnStep
  <1>5. CASE Crash(d)
    BY <1>1, <1>5, Tables DEF Crash, AtRest
  <1>6. CASE DaemonTick(d)
    <2>1. CASE BeginTick(d)
      <3>1. UNCHANGED proc \/ Goto(d, "tick")
        BY <2>1 DEF BeginTick, Goto
      <3>2. QED
        BY <1>1, <1>2, <3>1, Tables DEF Goto, Process
    <2>2. ASSUME NEW t \in Task, Claim(d, t)
          PROVE  /\ proc'[d].pc \notin TeardownSteps
                 /\ \/ proc'[d].task = proc[d].task
                    \/ proc'[d].task = t /\ Claimable(t)
      <3>1. \/ proc' = proc
            \/ /\ Claimable(t)
               /\ proc' = [proc EXCEPT ![d] = [AtRest EXCEPT !.pc = "check", !.task = t]]
        BY <2>2, Zenon DEF Claim
      <3>2. QED
        BY <1>1, <1>2, <3>1, Tables DEF AtRest
    <2>3. CASE EndTick(d) \/ DispatchFailed(d)
      BY <1>1, <2>3, Tables DEF EndTick, DispatchFailed, AtRest
    <2>4. QED
      BY <1>6, <2>1, <2>2, <2>3 DEF DaemonTick
  <1>7. QED
    BY <1>1, <1>3, <1>4, <1>5, <1>6, OthersStay DEF OwnStep

LEMMA ClaimInit == Init => ClaimInv
  <1> SUFFICES ASSUME Init
               PROVE  ClaimInv
    OBVIOUS
  <1>1. \A d \in Daemon : proc[d] = AtRest
    BY DEF Init, Spawner
  <1>2. OneClaimant
    BY <1>1 DEF OneClaimant, AtRest
  <1>3. ClaimHeld
    BY <1>1, NoneIsNobody DEF ClaimHeld, AtRest, TeardownSteps
  <1>4. QED
    BY <1>2, <1>3, TypeInit DEF ClaimInv

LEMMA ClaimNext == ClaimInv /\ [Next]_vars => ClaimInv'
  <1> SUFFICES ASSUME ClaimInv, [Next]_vars
               PROVE  ClaimInv'
    OBVIOUS
  <1>1. Typed'
    BY TypeNext DEF ClaimInv
  <1>2. ClaimHeld'
    <2> SUFFICES ASSUME NEW d \in Daemon, proc'[d].task \in Task
                 PROVE  OutOfReach(row'[proc'[d].task])
      BY DaemonTask DEF ClaimHeld, OutOfReach
    <2>1. CASE proc'[d].task = proc[d].task
      BY <2>1, ClaimUndisturbed
    <2>2. CASE Claim(d, proc'[d].task) /\ Claimable(proc'[d].task)
      <3>1. row' = [row EXCEPT ![proc'[d].task] = Claimed(@)]
        BY <2>2 DEF Claim
      <3>2. OutOfReach(Claimed(row[proc'[d].task]))
        BY Tables DEF Claimed, OutOfReach, ClaimInv, Typed, Row
      <3>3. QED
        BY <3>1, <3>2, Tables DEF ClaimInv, Typed
    <2>3. QED
      BY <2>1, <2>2, DaemonTask, NoneIsNobody
  <1>3. OneClaimant'
    <2> SUFFICES ASSUME NEW d \in Daemon, NEW e \in Daemon, d # e,
                        proc'[d].task # None, proc'[d].task = proc'[e].task
                 PROVE  FALSE
      BY DEF OneClaimant
    <2> DEFINE t == proc'[d].task
    <2>1. ASSUME NEW a \in Daemon, NEW b \in Daemon, a # b, Claim(a, t), Claimable(t),
                 t \in Task, proc'[b].task = t
          PROVE  FALSE
      <3>1. proc'[b] = proc[b]
        BY <2>1 DEF Claim, ClaimInv, Typed, TypeOK, Spawner
      <3>2. OutOfReach(row[t])
        BY <2>1, <3>1 DEF ClaimInv, ClaimHeld
      <3>3. QED
        BY <2>1, <3>2 DEF OutOfReach, Claimable
    <2>2. CASE proc'[d].task = proc[d].task /\ proc'[e].task = proc[e].task
      BY <2>2 DEF ClaimInv, OneClaimant
    <2>3. QED
      BY <2>1, <2>2, DaemonTask
  <1>4. QED
    BY <1>1, <1>2, <1>3 DEF ClaimInv

\* Double dispatch by claims is impossible: however many daemons tick on stale
\* ready lists, crash, fail and have their tasks reclaimed in between, no two
\* are ever spawning the same task.
THEOREM OneClaimantCorrect == Spec => []OneClaimant
  <1>1. ClaimInv => OneClaimant
    BY DEF ClaimInv
  <1>2. QED
    BY <1>1, ClaimInit, ClaimNext, PTL DEF Spec

(***************************************************************************)
(* Daemons alone: without consoles a task under dispatch is in one hand,   *)
(* and only that hand brings up a window of it.  What keeps a live worker  *)
(* under a lease is that its task is never offered again while it runs,    *)
(* provided that it does not sit out its lease in silence.                 *)
(***************************************************************************)
BeforeLaunch == {"check"} \cup LaunchSteps

WindowShape == \A t \in Task : Running(t) => HasWindow(t)

\* What a spawn that has not launched may rely on.
NotYetUp ==
  /\ \A d \in Daemon : proc[d].pc \in LaunchSteps => ~Running(proc[d].task)
  /\ WindowShape

LEMMA DaemonsOnly ==
  ASSUME Console = {}
  PROVE  Spawner = Daemon
  BY DEF Spawner

LEMMA WindowSteps ==
  ASSUME Typed, Console = {}, [Next]_vars, NEW t \in Task
  PROVE  \/ window'[t] = window[t]
         \/ window'[t] = NoWindow
         \/ \E d \in Daemon : OpenWindow(d) /\ proc[d].task = t
                              /\ window'[t] = [at |-> proc[d].slot, up |-> FALSE]
                              /\ Goto(d, "launch")
         \/ \E d \in Daemon : /\ At(d, "launch") /\ proc[d].task = t /\ HasWindow(t)
                              /\ window'[t] = [window[t] EXCEPT !.up = TRUE]
                              /\ Goto(d, "save") /\ UNCHANGED row
  <1> USE DEF Typed
  <1>1. window \in [Task -> [at : Slot \cup {None}, up : BOOLEAN]]
    BY DEF TypeOK
  <1>2. CASE UNCHANGED window
    BY <1>2
  <1>3. ASSUME NEW d \in Daemon, SpawnStep(d)
        PROVE  \/ window'[t] = window[t]
               \/ window'[t] = NoWindow
               \/ OpenWindow(d) /\ proc[d].task = t
                  /\ window'[t] = [at |-> proc[d].slot, up |-> FALSE] /\ Goto(d, "launch")
               \/ /\ At(d, "launch") /\ proc[d].task = t /\ HasWindow(t)
                  /\ window'[t] = [window[t] EXCEPT !.up = TRUE]
                  /\ Goto(d, "save") /\ UNCHANGED row
    <2>1. CASE OpenWindow(d)
      BY <1>1, <2>1 DEF OpenWindow
    <2>2. CASE Launch(d)
      BY <1>1, <2>2 DEF Launch, Abort
    <2>3. CASE Save(d) \/ ReportActive(d)
      BY <1>1, <2>3 DEF Save, ReportActive, Abort
    <2>4. CASE \/ CheckWindow(d) \/ ReadInUse(d) \/ Acquire(d) \/ StartBranch(d)
               \/ GrantLease(d) \/ Spawned(d)
      BY <2>4 DEF CheckWindow, ReadInUse, Acquire, StartBranch, GrantLease, Spawned
    <2>5. QED
      BY <1>3, <2>1, <2>2, <2>3, <2>4 DEF SpawnStep
  <1>4. ASSUME NEW u \in Task, WorkerDies(u)
        PROVE  window'[t] = window[t] \/ window'[t] = NoWindow
    BY <1>1, <1>4 DEF WorkerDies
  <1>5. CASE (\E d \in Daemon : DaemonTick(d)) \/ (\E d \in Daemon : Crash(d))
    BY <1>2, <1>5 DEF DaemonTick, BeginTick, Claim, EndTick, DispatchFailed, Crash
  <1>6. ASSUME NEW u \in Task, WorkerStep(u) \/ WatchStep(u), ~WorkerDies(u)
        PROVE  UNCHANGED window
    BY <1>6 DEF WorkerStep, WorkerEdits, WorkerReports, WatchStep, LeaseLapses,
                WatchWindowGone, Reclaim
  <1>7. QED
    BY <1>2, <1>3, <1>4, <1>5, <1>6, DaemonsOnly DEF Next, vars

\* A window comes up by the launch of the one daemon that spawns its task.
LEMMA UpByLaunch ==
  ASSUME Typed, Console = {}, [Next]_vars, NEW t \in Task, ~Running(t), Running(t)'
  PROVE  \E d \in Daemon : /\ At(d, "launch") /\ proc[d].task = t /\ HasWindow(t)
                           /\ window'[t] = [window[t] EXCEPT !.up = TRUE]
                           /\ Goto(d, "save") /\ UNCHANGED row
  <1>1. window'[t] # window[t] /\ window'[t] # NoWindow
    BY DEF Running, NoWindow
  <1>2. \A s : window'[t] # [at |-> s, up |-> FALSE]
    BY DEF Running
  <1>3. QED
    BY <1>1, <1>2, WindowSteps

LEMMA WindowShapeNext ==
  ASSUME Typed, Console = {}, WindowShape, [Next]_vars
  PROVE  WindowShape'
  <1> SUFFICES ASSUME NEW t \in Task, Running(t)'
               PROVE  HasWindow(t)'
    BY DEF WindowShape
  <1>1. CASE ~Running(t)
    <2>1. HasWindow(t) /\ window'[t] = [window[t] EXCEPT !.up = TRUE]
      BY <1>1, UpByLaunch
    <2>2. window[t] \in [at : Slot \cup {None}, up : BOOLEAN]
      BY DEF Typed, TypeOK
    <2>3. QED
      BY <2>1, <2>2 DEF HasWindow
  <1>2. CASE Running(t)
    <2>1. window'[t] # NoWindow
      BY DEF Running, NoWindow
    <2>2. window[t] \in [at : Slot \cup {None}, up : BOOLEAN]
      BY DEF Typed, TypeOK
    <2>3. \A s : window'[t] # [at |-> s, up |-> FALSE]
      BY DEF Running
    <2>4. HasWindow(t) /\ (window'[t] = window[t] \/ window'[t] = [window[t] EXCEPT !.up = TRUE])
      BY <1>2, <2>1, <2>3, WindowSteps DEF WindowShape
    <2>5. QED
      BY <2>2, <2>4 DEF HasWindow
  <1>3. QED
    BY <1>1, <1>2

\* Where a step of its own may bring a daemon that has not launched yet.
LEMMA EarlySteps ==
  ASSUME Typed, Console = {}, [Next]_vars, NEW d \in Daemon, proc'[d].pc \in BeforeLaunch
  PROVE  \/ proc'[d] = proc[d]
         \/ \E t \in Task : Claim(d, t) /\ Claimable(t) /\ proc'[d].task = t
                            /\ proc'[d].pc = "check"
         \/ /\ proc'[d].task = proc[d].task /\ proc[d].pc \in BeforeLaunch /\ UNCHANGED row
            /\ proc[d].pc = "check" => proc'[d].pc \in LaunchSteps /\ ~HasWindow(proc[d].task)
            /\ UNCHANGED window \/ window' = [window EXCEPT ![proc[d].task] =
                                                [at |-> proc[d].slot, up |-> FALSE]]
  <1> USE DEF Typed, BeforeLaunch, LaunchSteps
  <1>1. d \in Spawner /\ d \notin Console
    BY ConstantsAssumption DEF Spawner
  <1>2. CASE Unmoved(d)
    BY <1>2 DEF Unmoved
  <1>3. CASE SpawnStep(d)
    <2>1. CASE CheckWindow(d)
      BY <1>1, <2>1, Tables DEF CheckWindow, Refused, Failed, Goto, At, Process
    <2>2. CASE ReadInUse(d)
      BY <1>1, <2>2, Tables DEF ReadInUse, Failed, Goto, At, Process
    <2>3. CASE Acquire(d)
      <3>1. CASE Failed(d)
        BY <1>1, <3>1, Tables DEF Failed, Goto, Process
      <3>2. ASSUME NEW s \in FreeSlot(d),
                   proc' = [proc EXCEPT ![d].slot = s, ![d].pc = "branch", ![d].busy = {}]
            PROVE  proc'[d].task = proc[d].task
        BY <1>1, <3>2, Tables DEF Process
      <3>3. QED
        BY <2>3, <3>1, <3>2 DEF Acquire, At
    <2>4. CASE StartBranch(d)
      BY <1>1, <2>4, Tables DEF StartBranch, Failed, Goto, At, Process
    <2>5. CASE OpenWindow(d)
      BY <1>1, <2>5, Tables DEF OpenWindow, Failed, Goto, At, Process
    <2>6. CASE Launch(d)
      BY <1>1, <2>6, Tables DEF Launch, Abort, Failed, Goto, At, Process
    <2>7. CASE Save(d)
      <3>1. CASE Failed(d)
        BY <1>1, <3>1, Tables DEF Failed, Goto, Process
      <3>2. CASE ~Failed(d)
        BY <1>1, <2>7, <3>2, Tables DEF Save, Abort, Process
      <3>3. QED
        BY <3>1, <3>2
    <2>8. CASE ReportActive(d) \/ GrantLease(d)
      BY <1>1, <2>8, Tables DEF ReportActive, GrantLease, Abort, Failed, Goto, Process
    <2>9. CASE Spawned(d)
      BY <1>1, <2>9, Tables DEF Spawned, AtRest
    <2>10. QED
      BY <1>3, <2>1, <2>2, <2>3, <2>4, <2>5, <2>6, <2>7, <2>8, <2>9 DEF SpawnStep
  <1>4. CASE Crash(d)
    BY <1>1, <1>4, Tables DEF Crash, AtRest
  <1>5. CASE DaemonTick(d)
    <2>1. CASE BeginTick(d)
      <3>1. UNCHANGED proc \/ Goto(d, "tick")
        BY <2>1 DEF BeginTick, Goto
      <3>2. QED
        BY <1>1, <3>1, Tables DEF Goto, Process
    <2>2. ASSUME NEW t \in Task, Claim(d, t)
          PROVE  \/ proc'[d] = proc[d]
                 \/ Claimable(t) /\ proc'[d].task = t /\ proc'[d].pc = "check"
      <3>1. \/ proc' = proc
            \/ /\ Claimable(t)
               /\ proc' = [proc EXCEPT ![d] = [AtRest EXCEPT !.pc = "check", !.task = t]]
        BY <2>2, Zenon DEF Claim
      <3>2. QED
        BY <1>1, <3>1, Tables DEF AtRest
    <2>3. CASE EndTick(d) \/ DispatchFailed(d)
      BY <1>1, <2>3, Tables DEF EndTick, DispatchFailed, AtRest
    <2>4. QED
      BY <1>5, <2>1, <2>2, <2>3 DEF DaemonTick
  <1>6. QED
    BY <1>1, <1>2, <1>3, <1>4, <1>5, OthersStay DEF OwnStep

LEMMA NotYetUpNext ==
  ASSUME Console = {}, ClaimInv, NotYetUp, [Next]_vars
  PROVE  NotYetUp'
  <1> USE DEF ClaimInv
  <1>1. WindowShape'
    BY WindowShapeNext DEF NotYetUp
  <1>2. ASSUME NEW d \in Daemon, proc'[d].pc \in LaunchSteps, window'[proc'[d].task].up
        PROVE  FALSE
    <2> DEFINE t == proc'[d].task
    <2>1. t \in Task
      BY <1>2, AtWorkNext DEF Typed, AtWork, LaunchSteps, Spawner
    <2>2. CASE proc'[d] = proc[d]
      <3>1. ~Running(t)
        BY <1>2, <2>2 DEF NotYetUp
      <3>2. PICK e \in Daemon : At(e, "launch") /\ proc[e].task = t /\ Goto(e, "save")
        BY <1>2, <2>1, <3>1, UpByLaunch DEF Running
      <3>3. d = e
        BY <2>1, <2>2, <3>2, NoneIsNobody DEF OneClaimant
      <3>4. proc'[d].pc = "save"
        BY <3>2, <3>3, Tables DEF Goto, Typed, Spawner
      <3>5. QED
        BY <1>2, <3>4 DEF LaunchSteps
    <2>3. CASE proc'[d] # proc[d]
      <3>1. /\ t = proc[d].task /\ proc[d].pc \in BeforeLaunch
            /\ proc[d].pc = "check" => ~HasWindow(t)
            /\ UNCHANGED window \/ window' = [window EXCEPT ![t] = [at |-> proc[d].slot, up |-> FALSE]]
        BY <1>2, <2>3, EarlySteps DEF BeforeLaunch, LaunchSteps
      <3>2. ~Running(t)
        BY <2>1, <3>1 DEF NotYetUp, WindowShape, BeforeLaunch
      <3>3. QED
        BY <1>2, <2>1, <3>1, <3>2 DEF Running, Typed, TypeOK
    <2>4. QED
      BY <2>2, <2>3
  <1>3. QED
    BY <1>1, <1>2 DEF NotYetUp, Running

LEMMA NotYetUpInit == Init => NotYetUp
  <1> SUFFICES ASSUME Init
               PROVE  NotYetUp
    OBVIOUS
  <1>1. \A t \in Task : ~Running(t)
    BY DEF Init, NoWindow, Running
  <1>2. \A d \in Daemon : proc[d].pc \notin LaunchSteps
    BY DEF Init, AtRest, Spawner, LaunchSteps
  <1>3. QED
    BY <1>1, <1>2 DEF NotYetUp, WindowShape

\* Among daemons, opening a window never kills a live worker of the task: between the
\* window check of a spawn and its launch nobody else launches the task, whatever
\* crashes, is swept or is claimed again meanwhile (spawn.go, spawnWorker).
THEOREM NoWorkerReplacedByDaemons ==
  ASSUME Console = {}
  PROVE  Spec => []NoWorkerReplaced
  <1>1. Init => ClaimInv /\ NotYetUp
    BY ClaimInit, NotYetUpInit
  <1>2. ClaimInv /\ NotYetUp /\ [Next]_vars => (ClaimInv /\ NotYetUp)'
    BY ClaimNext, NotYetUpNext
  <1>3. ClaimInv /\ NotYetUp => NoWorkerReplaced
    BY DaemonsOnly DEF NotYetUp, NoWorkerReplaced
  <1>4. QED
    BY <1>1, <1>2, <1>3, PTL DEF Spec

\* What a daemon's claim gives the worker it launches, and what it keeps while it runs.
Held(r) == r.status = "active" /\ r.lease = "live"
Kept(r) == r.status \in Reported /\ r.lease = "live" /\ r.gone = FALSE

ClaimKept ==
  \A d \in Daemon : proc[d].pc \in BeforeLaunch =>
    Held(row[proc[d].task]) /\ ~Running(proc[d].task)

NoneLeftUp == \A d \in Daemon : proc[d].pc \in {"transient", "permanent"} => ~Running(proc[d].task)

LeaseKept == \A t \in Task : Running(t) => Kept(row[t])

WorkerInv == ClaimInv /\ NotYetUp /\ ClaimKept /\ NoneLeftUp /\ LeaseKept

\* Who writes a row.
LEMMA RowWriters ==
  ASSUME Typed, Console = {}, [Next]_vars, NEW t \in Task
  PROVE  \/ row'[t] = row[t]
         \/ \E d \in Daemon : Claim(d, t) /\ Claimable(t)
         \/ \E d \in Daemon : /\ SpawnStep(d) /\ proc[d].task = t
                              /\ proc[d].pc \in LaunchedSteps
         \/ \E d \in Daemon : DispatchFailed(d) /\ proc[d].task = t
         \/ \E s \in Reported : WorkerReports(t, s)
         \/ WatchStep(t)
  <1> USE DEF Typed
  <1>1. CASE UNCHANGED row
    BY <1>1
  <1>2. ASSUME NEW d \in Daemon, DaemonTick(d)
        PROVE  \/ row'[t] = row[t]
               \/ Claim(d, t) /\ Claimable(t)
               \/ DispatchFailed(d) /\ proc[d].task = t
    <2>1. ASSUME NEW u \in Task, Claim(d, u)
          PROVE  row'[t] = row[t] \/ (Claim(d, t) /\ Claimable(t))
      BY <2>1, Tables DEF Claim
    <2>2. CASE DispatchFailed(d)
      <3> DEFINE u == proc[d].task
      <3>1. \/ row' = row
            \/ row' = [row EXCEPT ![u].status = "blocked"]
            \/ row' = [row EXCEPT ![u].status = "pending", ![u].lease = None]
        BY <2>2, FailureWrites
      <3>2. QED
        BY <2>2, <3>1, Tables
    <2>3. CASE BeginTick(d) \/ EndTick(d)
      BY <2>3 DEF BeginTick, EndTick
    <2>4. QED
      BY <1>2, <2>1, <2>2, <2>3 DEF DaemonTick
  <1>3. ASSUME NEW d \in Daemon, SpawnStep(d)
        PROVE  row'[t] = row[t] \/ (proc[d].task = t /\ proc[d].pc \in LaunchedSteps)
    <2>1. CASE \/ CheckWindow(d) \/ ReadInUse(d) \/ Acquire(d) \/ StartBranch(d)
               \/ OpenWindow(d) \/ Launch(d)
      BY <2>1 DEF CheckWindow, ReadInUse, Acquire, StartBranch, OpenWindow, Launch
    <2>2. CASE Save(d) \/ ReportActive(d) \/ GrantLease(d) \/ Spawned(d)
      <3>1. proc[d].pc \in LaunchedSteps
        BY <2>2 DEF Save, ReportActive, GrantLease, Spawned, At, LaunchedSteps
      <3>2. proc[d].task # t => row'[t] = row[t]
        BY <2>2, Tables DEF Save, ReportActive, GrantLease, Spawned, BestEffort
      <3>3. QED
        BY <3>1, <3>2
    <2>3. QED
      BY <1>3, <2>1, <2>2 DEF SpawnStep
  <1>4. ASSUME NEW u \in Task, WorkerStep(u)
        PROVE  row'[t] = row[t] \/ \E s \in Reported : WorkerReports(t, s)
    <2>1. CASE UNCHANGED row
      BY <2>1
    <2>2. ASSUME NEW s \in Reported, WorkerReports(u, s)
          PROVE  row'[t] = row[t] \/ WorkerReports(t, s)
      BY <2>2, Tables DEF WorkerReports
    <2>3. QED
      BY <1>4, <2>1, <2>2 DEF WorkerStep, WorkerEdits, WorkerDies
  <1>5. ASSUME NEW u \in Task, WatchStep(u)
        PROVE  row'[t] = row[t] \/ WatchStep(t)
    BY <1>5, Tables DEF WatchStep, LeaseLapses, WatchWindowGone, Reclaim
  <1>6. CASE (\E d \in Daemon : Crash(d)) \/ UNCHANGED vars
    BY <1>6 DEF Crash, vars
  <1>7. QED
    BY <1>2, <1>3, <1>4, <1>5, <1>6, DaemonsOnly DEF Next

\* A claim that waits for its launch is left alone.
LEMMA ClaimKeptNext ==
  ASSUME Console = {}, WorkerInv, [Next]_vars
  PROVE  ClaimKept'
  <1> USE DEF WorkerInv, ClaimInv
  <1> SUFFICES ASSUME NEW d \in Daemon, proc'[d].pc \in BeforeLaunch
               PROVE  Held(row'[proc'[d].task]) /\ ~window'[proc'[d].task].up
    BY DEF ClaimKept, Running
  <1> DEFINE t == proc'[d].task
  <1>1. t \in Task
    BY AtWorkNext DEF Typed, AtWork, BeforeLaunch, LaunchSteps, Spawner
  <1>2. CASE proc'[d] = proc[d]
    <2>1. Held(row[t]) /\ ~Running(t) /\ UnderDispatch(t) /\ OutOfReach(row[t])
      BY <1>1, <1>2 DEF ClaimKept, ClaimHeld, UnderDispatch, Spawning, Spawner
    <2>2. ~window'[t].up
      <3>1. ASSUME window'[t].up PROVE FALSE
        <4>1. PICK e \in Daemon : At(e, "launch") /\ proc[e].task = t /\ Goto(e, "save")
          BY <1>1, <2>1, <3>1, UpByLaunch DEF Running
        <4>2. d = e
          BY <1>1, <1>2, <4>1, NoneIsNobody DEF OneClaimant
        <4>3. proc'[d].pc = "save"
          BY <4>1, <4>2, Tables DEF Goto, Typed, Spawner
        <4>4. QED
          BY <4>3 DEF BeforeLaunch, LaunchSteps
      <3>2. QED
        BY <3>1
    <2>3. row'[t] = row[t]
      <3>1. ~(\E e \in Daemon : Claim(e, t) /\ Claimable(t))
        BY <2>1 DEF Claimable, Held
      <3>2. \A e \in Daemon : proc[e].task = t => e = d
        BY <1>1, <1>2, NoneIsNobody DEF OneClaimant
      <3>3. proc[d].pc \notin LaunchedSteps /\ ~DispatchFailed(d)
        BY <1>2 DEF BeforeLaunch, LaunchSteps, LaunchedSteps, DispatchFailed, Park, Release,
                    GivesUp, Retries, At
      <3>4. ~(\E s \in Reported : WorkerReports(t, s))
        BY <2>1 DEF WorkerReports
      <3>5. ~WatchStep(t)
        BY <2>1 DEF WatchStep, LeaseLapses, WatchWindowGone, Reclaim, Reclaimable, OutOfReach, Held
      <3>6. QED
        BY <1>1, <3>1, <3>2, <3>3, <3>4, <3>5, RowWriters
    <2>4. QED
      BY <2>1, <2>2, <2>3
  <1>3. CASE Claim(d, t) /\ Claimable(t)
    <2>1. UNCHANGED window /\ row' = [row EXCEPT ![t] = Claimed(@)]
      BY <1>3 DEF Claim
    <2>2. Held(row'[t])
      BY <1>1, <2>1, Tables DEF Held, Claimed, Typed, Row
    <2>3. ~Running(t)
      BY <1>1, <1>3 DEF LeaseKept, Kept, Claimable, Reported
    <2>4. QED
      BY <2>1, <2>2, <2>3 DEF Running
  <1>4. CASE /\ t = proc[d].task /\ proc[d].pc \in BeforeLaunch /\ UNCHANGED row
             /\ UNCHANGED window \/ window' = [window EXCEPT ![t] = [at |-> proc[d].slot, up |-> FALSE]]
    BY <1>1, <1>4 DEF ClaimKept, Running, Typed, TypeOK
  <1>5. QED
    BY <1>2, <1>3, <1>4, EarlySteps

\* A dispatch that failed leaves no worker behind.
LEMMA NoneLeftUpNext ==
  ASSUME Console = {}, WorkerInv, [Next]_vars
  PROVE  NoneLeftUp'
  <1> USE DEF WorkerInv, ClaimInv
  <1> SUFFICES ASSUME NEW d \in Daemon, proc'[d].pc \in {"transient", "permanent"}
               PROVE  ~window'[proc'[d].task].up
    BY DEF NoneLeftUp, Running
  <1> DEFINE t == proc'[d].task
  <1>1. t \in Task /\ d \in Spawner /\ d \notin Console
    BY AtWorkNext, ConstantsAssumption DEF Typed, AtWork, Spawner
  <1>2. CASE Unmoved(d)
    <2>1. ~Running(t) /\ proc'[d] = proc[d]
      BY <1>2 DEF NoneLeftUp, Unmoved
    <2>2. ASSUME window'[t].up PROVE FALSE
      <3>1. PICK e \in Daemon : At(e, "launch") /\ proc[e].task = t /\ Goto(e, "save")
        BY <1>1, <2>1, <2>2, UpByLaunch DEF Running
      <3>2. d = e
        BY <1>1, <2>1, <3>1, NoneIsNobody DEF OneClaimant
      <3>3. proc'[d].pc = "save"
        BY <3>1, <3>2, Tables DEF Goto, Typed, Spawner
      <3>4. QED
        BY <3>3
    <2>3. QED
      BY <2>2
  <1>3. CASE SpawnStep(d)
    <2>1. t = proc[d].task
      <3>1. ~(Claim(d, t) /\ Claimable(t))
        <4>1. Claim(d, t) /\ Claimable(t) =>
                proc' = [proc EXCEPT ![d] = [AtRest EXCEPT !.pc = "check", !.task = t]]
          BY Zenon DEF Claim
        <4>2. QED
          BY <1>1, <4>1, Tables DEF AtRest, Typed
      <3>2. QED
        BY <1>1, <3>1, DaemonTask, NoneIsNobody
    <2>2. CASE \/ CheckWindow(d) \/ ReadInUse(d) \/ Acquire(d) \/ StartBranch(d)
      <3>1. UNCHANGED window /\ proc[d].pc \in BeforeLaunch
        BY <2>2 DEF CheckWindow, ReadInUse, Acquire, StartBranch, At, BeforeLaunch, LaunchSteps
      <3>2. QED
        BY <2>1, <3>1 DEF ClaimKept, Running
    <2>3. CASE OpenWindow(d) \/ Launch(d) \/ Save(d) \/ ReportActive(d)
      <3>1. window' = [window EXCEPT ![t] = NoWindow]
        BY <1>1, <2>1, <2>3, Tables
           DEF OpenWindow, Launch, Save, ReportActive, Abort, Goto, Typed, Process
      <3>2. QED
        BY <1>1, <3>1 DEF NoWindow, Typed, TypeOK
    <2>4. CASE GrantLease(d) \/ Spawned(d)
      BY <1>1, <2>4, Tables DEF GrantLease, Spawned, Goto, AtRest, Typed, Process
    <2>5. QED
      BY <1>3, <2>2, <2>3, <2>4 DEF SpawnStep
  <1>4. CASE Crash(d)
    BY <1>1, <1>4, Tables DEF Crash, AtRest, Typed
  <1>5. CASE DaemonTick(d)
    <2>1. CASE BeginTick(d)
      BY <1>1, <2>1, Tables DEF BeginTick, Typed, Process
    <2>2. ASSUME NEW u \in Task, Claim(d, u) PROVE FALSE
      <3>1. At(d, "tick") /\ (proc' = proc \/ proc' = [proc EXCEPT ![d] = [AtRest EXCEPT !.pc = "check", !.task = u]])
        BY <2>2, Zenon DEF Claim, Dispatchable, At
      <3>2. QED
        BY <1>1, <3>1, Tables DEF AtRest, Typed, At
    <2>3. CASE EndTick(d) \/ DispatchFailed(d)
      BY <1>1, <2>3, Tables DEF EndTick, DispatchFailed, AtRest, Typed
    <2>4. QED
      BY <1>5, <2>1, <2>2, <2>3 DEF DaemonTick
  <1>6. QED
    BY <1>1, <1>2, <1>3, <1>4, <1>5, OthersStay DEF OwnStep, Typed

\* A worker that is up keeps its lease.
LEMMA LeaseKeptNext ==
  ASSUME Console = {}, ~HungWorkers, WorkerInv, [Next]_vars
  PROVE  LeaseKept'
  <1> USE DEF WorkerInv, ClaimInv
  <1> SUFFICES ASSUME NEW t \in Task, window'[t].up
               PROVE  Kept(row'[t])
    BY DEF LeaseKept, Running
  <1>1. CASE ~Running(t)
    <2>1. PICK d \in Daemon : At(d, "launch") /\ proc[d].task = t /\ UNCHANGED row
      BY <1>1, UpByLaunch DEF Running
    <2>2. Held(row[t])
      BY <2>1 DEF ClaimKept, At, BeforeLaunch, LaunchSteps
    <2>3. row[t].gone = FALSE
      BY <2>1 DEF ClaimHeld, OutOfReach
    <2>4. QED
      BY <2>1, <2>2, <2>3 DEF Held, Kept, Reported
  <1>2. CASE Running(t)
    <2>1. Kept(row[t]) /\ HasWindow(t)
      BY <1>2 DEF LeaseKept, NotYetUp, WindowShape
    <2>2. row[t] \in Row
      BY Tables DEF Typed
    <2>3. CASE row'[t] = row[t]
      BY <2>1, <2>3
    <2>4. CASE \E d \in Daemon : Claim(d, t) /\ Claimable(t)
      BY <2>1, <2>4 DEF Claimable, Kept, Reported
    <2>5. ASSUME NEW d \in Daemon, SpawnStep(d), proc[d].task = t, proc[d].pc \in LaunchedSteps
          PROVE  Kept(row'[t])
      <3>1. window' # [window EXCEPT ![t] = NoWindow]
        BY DEF NoWindow, Typed, TypeOK
      <3>2. CASE Save(d)
        <4>1. row' = [row EXCEPT ![t] = Saved(@, proc[d].slot)]
          BY <2>5, <3>1, <3>2 DEF Save, Abort
        <4>2. row'[t] = Saved(row[t], proc[d].slot)
          BY <4>1, Tables DEF Typed
        <4>3. QED
          BY <2>1, <2>2, <4>2 DEF Saved, Kept, Row
      <3>3. CASE ReportActive(d)
        <4>1. row' = row \/ row' = [row EXCEPT ![t].status = "active", ![t].lease = Extended(@)]
          BY <2>5, <3>1, <3>3 DEF ReportActive, Abort
        <4>2. QED
          BY <2>1, <2>2, <4>1, Tables DEF Kept, Typed, Row, Extended, Reported
      <3>4. CASE GrantLease(d)
        <4>1. row' = row \/ row' = [row EXCEPT ![t].lease = "live"]
          BY <2>5, <3>4 DEF GrantLease, BestEffort
        <4>2. QED
          BY <2>1, <2>2, <4>1, Tables DEF Kept, Typed, Row
      <3>5. CASE Spawned(d)
        <4>1. row' = row \/ row' = [row EXCEPT ![t].gone = FALSE]
          BY <2>5, <3>5 DEF Spawned, BestEffort
        <4>2. QED
          BY <2>1, <2>2, <4>1, Tables DEF Kept, Typed, Row
      <3>6. QED
        BY <2>5, <3>2, <3>3, <3>4, <3>5
           DEF SpawnStep, LaunchedSteps, At, CheckWindow, ReadInUse, Acquire, StartBranch,
               OpenWindow, Launch
    <2>6. ASSUME NEW d \in Daemon, DispatchFailed(d), proc[d].task = t
          PROVE  FALSE
      BY <1>2, <2>6, FailureWrites DEF NoneLeftUp
    <2>7. ASSUME NEW s \in Reported, WorkerReports(t, s)
          PROVE  Kept(row'[t])
      <3>1. row'[t] = [row[t] EXCEPT !.status = s, !.gone = FALSE, !.lease = Extended(row[t].lease)]
        BY <2>7, Tables DEF WorkerReports, Typed
      <3>2. Extended(row[t].lease) = "live"
        BY <2>1, NoneIsNotLive DEF Kept, Extended
      <3>3. QED
        BY <2>2, <3>1, <3>2 DEF Kept, Row
    <2>8. ~WatchStep(t)
      BY <1>2, <2>1 DEF WatchStep, LeaseLapses, WatchWindowGone, Reclaim, Reclaimable, Kept
    <2>9. QED
      BY <2>3, <2>4, <2>5, <2>6, <2>7, <2>8, RowWriters
  <1>3. QED
    BY <1>1, <1>2

LEMMA WorkerInit == Init => WorkerInv
  <1> SUFFICES ASSUME Init
               PROVE  WorkerInv
    OBVIOUS
  <1>1. \A t \in Task : ~Running(t)
    BY DEF Init, NoWindow, Running
  <1>2. \A d \in Daemon : proc[d].pc = "idle"
    BY DEF Init, AtRest, Spawner
  <1>3. QED
    BY <1>1, <1>2, ClaimInit, NotYetUpInit
       DEF WorkerInv, ClaimKept, NoneLeftUp, LeaseKept, BeforeLaunch, LaunchSteps

\* A live worker of an active task holds a lease a sweep can judge, after every order of
\* claims, failed writes, kills, deaths and reclaims, if no worker sits out its lease in
\* silence and no console spawns (spawn.go, lease.go).
THEOREM WorkerLeasedByDaemons ==
  ASSUME Console = {}, ~HungWorkers
  PROVE  Spec => []WorkerLeased
  <1>1. WorkerInv /\ [Next]_vars => WorkerInv'
    BY ClaimNext, NotYetUpNext, ClaimKeptNext, NoneLeftUpNext, LeaseKeptNext DEF WorkerInv
  <1>2. WorkerInv => WorkerLeased
    BY NoneIsNotLive DEF WorkerInv, LeaseKept, Kept, WorkerLeased
  <1>3. QED
    BY WorkerInit, <1>1, <1>2, PTL DEF Spec

(***************************************************************************)
(* The rows implement TaskLifecycle.  Every step writes one row at most;   *)
(* what it does to the status and the retry count of that row decides      *)
(* which abstract step it is.                                              *)
(***************************************************************************)
Phases == [u \in Task |-> PhaseOf(row[u].status)]
Lives  == [u \in Task |-> MaxRetries - row[u].retry]

AbstractStep == [Lifecycle!LifecycleNext]_(Lifecycle!lifecycleVars)

LEMMA RowMoved ==
  ASSUME TypeOK, NEW t \in Task, NEW r \in Row, row' = [row EXCEPT ![t] = r]
  PROVE  /\ Phases' = [Phases EXCEPT ![t] = PhaseOf(r.status)]
         /\ Lives' = [Lives EXCEPT ![t] = MaxRetries - r.retry]
         /\ r.retry = row[t].retry => Lives' = Lives
  <1>1. row'[t] = r /\ \A u \in Task \ {t} : row'[u] = row[u]
    BY Tables
  <1>2. Phases' = [Phases EXCEPT ![t] = PhaseOf(r.status)]
    BY <1>1 DEF Phases, PhaseOf
  <1>3. Lives' = [Lives EXCEPT ![t] = MaxRetries - r.retry]
    <2>1. MaxRetries - row'[t].retry = MaxRetries - r.retry
      BY <1>1
    <2>2. \A u \in Task \ {t} : MaxRetries - row'[u].retry = MaxRetries - row[u].retry
      BY <1>1
    <2>3. Lives'[t] = MaxRetries - r.retry /\ \A u \in Task \ {t} : Lives'[u] = Lives[u]
      BY <2>1, <2>2 DEF Lives
    <2>4. QED
      BY <2>3 DEF Lives
  <1>4. r.retry = row[t].retry => Lives' = Lives
    BY <1>1 DEF Lives
  <1>5. QED
    BY <1>2, <1>3, <1>4

LEMMA Stutter ==
  ASSUME \A u \in Task : row'[u].status = row[u].status /\ row'[u].retry = row[u].retry
  PROVE  AbstractStep
  <1>1. Phases' = Phases /\ Lives' = Lives
    BY DEF Phases, Lives, PhaseOf
  <1>2. QED
    BY <1>1 DEF AbstractStep, Phases, Lives, Lifecycle!lifecycleVars

LEMMA Proceeds ==
  ASSUME TypeOK, NEW t \in Task, NEW r \in Row, row' = [row EXCEPT ![t] = r],
         r.retry = row[t].retry, r.status \notin {"pending", "failed"}
  PROVE  AbstractStep
  <1>1. PhaseOf(r.status) \in {"underway", "managed"}
    BY DEF PhaseOf
  <1>2. Phases' = [Phases EXCEPT ![t] = PhaseOf(r.status)] /\ Lives' = Lives
    BY RowMoved
  <1>3. Lifecycle!Proceed(t)
    BY <1>1, <1>2 DEF Phases, Lives, Lifecycle!Proceed
  <1>4. QED
    BY <1>3 DEF AbstractStep, Lifecycle!LifecycleNext

LEMMA Undoes ==
  ASSUME TypeOK, NEW t \in Task, NEW r \in Row, row' = [row EXCEPT ![t] = r],
         r.retry = row[t].retry, row[t].status = "active", r.status = "pending"
  PROVE  AbstractStep
  <1>1. Phases' = [Phases EXCEPT ![t] = "offered"] /\ Lives' = Lives /\ Phases[t] = "underway"
    <2>1. PhaseOf("pending") = "offered"
      BY DEF PhaseOf
    <2>2. Phases' = [Phases EXCEPT ![t] = PhaseOf(r.status)] /\ Lives' = Lives
      BY RowMoved
    <2>3. Phases[t] = "underway"
      BY DEF Phases, PhaseOf
    <2>4. QED
      BY <2>1, <2>2, <2>3
  <1>2. Lifecycle!Undo(t)
    BY <1>1 DEF Phases, Lives, Lifecycle!Undo
  <1>3. QED
    BY <1>2 DEF AbstractStep, Lifecycle!LifecycleNext

LEMMA ReclaimRefines ==
  ASSUME TypeOK, NEW t \in Task, Reclaim(t)
  PROVE  AbstractStep
  <1>1. Phases[t] = "underway"
    BY DEF Reclaim, Reclaimable, Phases, PhaseOf
  <1>2. MaxRetries \in Nat /\ row[t].retry \in 0..MaxRetries /\ row[t] \in Row
    BY Tables, ConstantsAssumption DEF Row
  <1>3. CASE row[t].retry >= MaxRetries
    <2> DEFINE r == [row[t] EXCEPT !.status = "failed", !.lease = None]
    <2>1. r \in Row /\ r.status = "failed" /\ r.retry = row[t].retry
      BY <1>2 DEF Row, Status
    <2>2. row' = [row EXCEPT ![t] = r]
      BY <1>3, Tables DEF Reclaim
    <2>3. Phases' = [Phases EXCEPT ![t] = "dead"] /\ Lives' = Lives
      <3>1. PhaseOf("failed") = "dead"
        BY DEF PhaseOf
      <3>2. Phases' = [Phases EXCEPT ![t] = PhaseOf(r.status)] /\ Lives' = Lives
        BY <2>1, <2>2, RowMoved
      <3>3. QED
        BY <2>1, <3>1, <3>2
    <2>4. Lives[t] = 0
      BY <1>2, <1>3 DEF Lives
    <2>5. Lifecycle!Die(t)
      BY <1>1, <2>3, <2>4 DEF Phases, Lives, Lifecycle!Die
    <2>6. QED
      BY <2>5 DEF AbstractStep, Lifecycle!LifecycleNext
  <1>4. CASE ~(row[t].retry >= MaxRetries)
    <2> DEFINE n == row[t].retry + 1
               r == [row[t] EXCEPT !.status = "pending", !.lease = None, !.retry = n]
    <2>1. n \in 0..MaxRetries
      BY <1>2, <1>4
    <2>2. r \in Row /\ r.status = "pending" /\ r.retry = n
      BY <1>2, <2>1 DEF Row, Status
    <2>3. row' = [row EXCEPT ![t] = r]
      BY <1>4, Tables DEF Reclaim
    <2>4. MaxRetries - n = Lives[t] - 1 /\ Lives[t] > 0
      BY <1>2, <1>4 DEF Lives
    <2>5. /\ Phases' = [Phases EXCEPT ![t] = "offered"]
          /\ Lives' = [Lives EXCEPT ![t] = Lives[t] - 1]
      <3>1. PhaseOf("pending") = "offered"
        BY DEF PhaseOf
      <3>2. /\ Phases' = [Phases EXCEPT ![t] = PhaseOf(r.status)]
            /\ Lives' = [Lives EXCEPT ![t] = MaxRetries - r.retry]
        BY <2>2, <2>3, RowMoved
      <3>3. QED
        BY <2>2, <2>4, <3>1, <3>2
    <2>6. Lifecycle!Retry(t)
      BY <1>1, <2>4, <2>5 DEF Phases, Lives, Lifecycle!Retry
    <2>7. QED
      BY <2>6 DEF AbstractStep, Lifecycle!LifecycleNext
  <1>5. QED
    BY <1>3, <1>4

LEMMA TaskStepRefines ==
  ASSUME TypeOK, NEW t \in Task, WorkerStep(t) \/ WatchStep(t)
  PROVE  AbstractStep
  <1>1. CASE row' = row
    BY <1>1, Stutter
  <1>2. ASSUME NEW s \in Reported, WorkerReports(t, s)
        PROVE  AbstractStep
    <2> DEFINE r == [row[t] EXCEPT !.status = s, !.gone = FALSE, !.lease = Extended(@)]
    <2>1. \A q \in Row : [q EXCEPT !.status = s, !.gone = FALSE, !.lease = Extended(@)] \in Row
      BY DEF Row, Status, Reported, Extended
    <2>2. r \in Row /\ r.status = s /\ r.retry = row[t].retry
      BY <2>1, Tables DEF Row
    <2>3. row' = [row EXCEPT ![t] = r]
      BY <1>2, Tables DEF WorkerReports
    <2>4. s \notin {"pending", "failed"}
      BY DEF Reported
    <2>5. QED
      BY <2>2, <2>3, <2>4, Proceeds
  <1>3. CASE LeaseLapses(t)
    BY <1>3, Stutter, Tables DEF LeaseLapses, Row
  <1>4. CASE WatchWindowGone(t)
    BY <1>4, Stutter, Tables DEF WatchWindowGone, Row
  <1>5. CASE Reclaim(t)
    BY <1>5, ReclaimRefines
  <1>6. CASE WorkerDies(t) \/ \E w \in {"edits", "commits"} : WorkerEdits(t, w)
    BY <1>1, <1>6 DEF WorkerDies, WorkerEdits
  <1>7. QED
    BY <1>2, <1>3, <1>4, <1>5, <1>6 DEF WorkerStep, WatchStep

LEMMA SpawnStepRefines ==
  ASSUME Typed, NEW p \in Spawner, SpawnStep(p)
  PROVE  AbstractStep
  <1> USE DEF Typed
  <1> DEFINE t == proc[p].task
  <1>1. t \in Task
    BY DEF SpawnStep, AtWork, At, CheckWindow, ReadInUse, Acquire, StartBranch,
           OpenWindow, Launch, Save, ReportActive, GrantLease, Spawned
  <1>2. CASE row' = row
    BY <1>2, Stutter
  <1>3. CASE Save(p)
    <2>1. row' = row \/ row' = [row EXCEPT ![t] = Saved(row[t], proc[p].slot)]
      BY <1>3 DEF Save
    <2>2. Saved(row[t], proc[p].slot).status = row[t].status
            /\ Saved(row[t], proc[p].slot).retry = row[t].retry
      BY <1>1, Tables DEF Saved, Row
    <2>3. QED
      BY <1>1, <1>2, <2>1, <2>2, Stutter, Tables
  <1>4. CASE ReportActive(p)
    <2>1. CASE row' = [row EXCEPT ![t].named = FALSE, ![t].worktree = None]
      BY <1>1, <2>1, Stutter, Tables DEF Row
    <2>2. CASE row' = [row EXCEPT ![t].status = "active", ![t].lease = Extended(@)]
      <3> DEFINE r == [row[t] EXCEPT !.status = "active", !.lease = Extended(@)]
      <3>1. \A q \in Row : [q EXCEPT !.status = "active", !.lease = Extended(@)] \in Row
        BY DEF Row, Status, Extended
      <3>2. r \in Row /\ r.status = "active" /\ r.retry = row[t].retry
        BY <1>1, <3>1, Tables DEF Row
      <3>3. row' = [row EXCEPT ![t] = r]
        BY <1>1, <2>2, Tables
      <3>4. QED
        BY <1>1, <3>2, <3>3, Proceeds
    <2>3. QED
      BY <1>2, <1>4, <2>1, <2>2 DEF ReportActive
  <1>5. CASE GrantLease(p)
    <2>1. row' = row \/ row' = [row EXCEPT ![t].lease = "live"]
      BY <1>5 DEF GrantLease, BestEffort
    <2>2. QED
      BY <1>1, <1>2, <2>1, Stutter, Tables DEF Row
  <1>6. CASE Spawned(p)
    <2>1. row' = row \/ row' = [row EXCEPT ![t].gone = FALSE]
      BY <1>6 DEF Spawned, BestEffort
    <2>2. QED
      BY <1>1, <1>2, <2>1, Stutter, Tables DEF Row
  <1>7. CASE \/ CheckWindow(p) \/ ReadInUse(p) \/ Acquire(p) \/ StartBranch(p)
             \/ OpenWindow(p) \/ Launch(p)
    BY <1>2, <1>7 DEF CheckWindow, ReadInUse, Acquire, StartBranch, OpenWindow, Launch
  <1>8. QED
    BY <1>3, <1>4, <1>5, <1>6, <1>7 DEF SpawnStep

LEMMA DaemonTickRefines ==
  ASSUME Typed, NEW d \in Daemon, DaemonTick(d)
  PROVE  AbstractStep
  <1> USE DEF Typed
  <1>1. CASE row' = row
    BY <1>1, Stutter
  <1>2. ASSUME NEW t \in Task, Claim(d, t)
        PROVE  AbstractStep
    <2>1. Claimed(row[t]) \in Row /\ Claimed(row[t]).retry = row[t].retry
            /\ Claimed(row[t]).status = "active"
      BY Tables DEF Claimed, Row, Status
    <2>2. row' = row \/ row' = [row EXCEPT ![t] = Claimed(row[t])]
      BY <1>2 DEF Claim
    <2>3. QED
      BY <1>1, <2>1, <2>2, Proceeds
  <1>3. CASE DispatchFailed(d)
    <2> DEFINE t == proc[d].task
    <2>1. t \in Task
      BY <1>3, FailureWrites DEF AtWork, Spawner
    <2>2. CASE row' = [row EXCEPT ![t].status = "blocked"]
      <3> DEFINE r == [row[t] EXCEPT !.status = "blocked"]
      <3>1. r \in Row /\ r.retry = row[t].retry /\ r.status = "blocked"
        <4>1. row[t] \in Row
          BY <2>1, Tables
        <4>2. QED
          BY <4>1 DEF Row, Status
      <3>2. row' = [row EXCEPT ![t] = r]
        BY <2>2, Zenon
      <3>3. QED
        BY <2>1, <3>1, <3>2, Proceeds
    <2>3. CASE UnderClaim(t) /\ row' = [row EXCEPT ![t].status = "pending", ![t].lease = None]
      <3> DEFINE r == [row[t] EXCEPT !.status = "pending", !.lease = None]
      <3>1. \A q \in Row : [q EXCEPT !.status = "pending", !.lease = None] \in Row
        BY DEF Row, Status
      <3>2. r \in Row /\ r.retry = row[t].retry /\ r.status = "pending"
        BY <2>1, <3>1, Tables DEF Row
      <3>3. row' = [row EXCEPT ![t] = r]
        BY <2>1, <2>3, Tables
      <3>4. QED
        BY <2>1, <2>3, <3>2, <3>3, Undoes DEF UnderClaim
    <2>4. QED
      BY <1>1, <1>3, <2>2, <2>3, FailureWrites
  <1>4. CASE BeginTick(d) \/ EndTick(d)
    BY <1>1, <1>4 DEF BeginTick, EndTick
  <1>5. QED
    BY <1>2, <1>3, <1>4 DEF DaemonTick

LEMMA ConsoleStepRefines ==
  ASSUME Typed, NEW c \in Console, ConsoleStep(c)
  PROVE  AbstractStep
  <1> USE DEF Typed
  <1>1. CASE TeardownRecord(c)
    <2> DEFINE t == proc[c].task
    <2>1. t \in Task
      BY <1>1 DEF TeardownRecord, At, AtWork, Spawner
    <2>2. PICK w \in {row[t].worktree, None} :
            row' = [row EXCEPT ![t].status = "torn_down", ![t].worktree = w]
      BY <1>1 DEF TeardownRecord
    <2>3. \A q \in Row, x \in Slot \cup {None} :
            [q EXCEPT !.status = "torn_down", !.worktree = x] \in Row
      BY DEF Row, Status
    <2>4. w \in Slot \cup {None}
      BY <2>1, <2>2, Tables DEF Row
    <2> DEFINE r == [row[t] EXCEPT !.status = "torn_down", !.worktree = w]
    <2>5. r \in Row /\ r.retry = row[t].retry /\ r.status = "torn_down"
      <3>1. row[t] \in Row
        BY <2>1, Tables
      <3>2. r \in Row
        BY <2>3, <2>4, <3>1
      <3>3. QED
        BY <3>1, <3>2 DEF Row
    <2>6. row' = [row EXCEPT ![t] = r]
      BY <2>1, <2>2, Tables
    <2>7. QED
      BY <2>1, <2>5, <2>6, Proceeds
  <1>2. CASE ~TeardownRecord(c)
    <2>1. row' = row
      BY <1>2 DEF ConsoleStep, BeginSpawn, SpawnFailed, TeardownBegin, TeardownRelease
    <2>2. QED
      BY <2>1, Stutter
  <1>3. QED
    BY <1>1, <1>2

LEMMA LifecycleInitially == Init => Lifecycle!LifecycleInit
  <1> SUFFICES ASSUME Init
               PROVE  Lifecycle!LifecycleInit
    OBVIOUS
  <1>1. \A u \in Task : row[u].status = "pending" /\ row[u].retry = 0
    BY DEF Init
  <1>2. Phases = [u \in Task |-> "offered"]
    BY <1>1 DEF Phases, PhaseOf
  <1>3. MaxRetries - 0 = MaxRetries
    BY ConstantsAssumption
  <1>4. Lives = [u \in Task |-> MaxRetries]
    BY <1>1, <1>3 DEF Lives
  <1>5. QED
    BY <1>2, <1>4 DEF Phases, Lives, Lifecycle!LifecycleInit

LEMMA NextRefines == Typed /\ [Next]_vars => AbstractStep
  <1> SUFFICES ASSUME Typed, [Next]_vars
               PROVE  AbstractStep
    OBVIOUS
  <1>1. CASE (\E p \in Spawner : Crash(p)) \/ UNCHANGED vars
    BY <1>1, Stutter DEF Crash, vars
  <1>2. QED
    BY <1>1, DaemonTickRefines, SpawnStepRefines, ConsoleStepRefines, TaskStepRefines
       DEF Next, Typed

\* Dispatch implements the abstract life of a task: no failed or parked spawn,
\* teardown, late report or sweep, in any interleaving, puts a task back in the
\* backlog except from active and, for a reclaim, at the price of a retry.
THEOREM DispatchImplementsLifecycle == Spec => ImplementsLifecycle
  <1>1. Typed /\ [Next]_vars => [Lifecycle!LifecycleNext]_(Lifecycle!lifecycleVars)
    BY NextRefines DEF AbstractStep
  <1>2. QED
    BY <1>1, LifecycleInitially, TypeInit, TypeNext, PTL
       DEF Spec, ImplementsLifecycle, Lifecycle!LifecycleSpec

--------------------------------------------------------------------------------
(***************************************************************************)
(* Worktrees and work, when spawns, teardowns and sweeps take turns, no    *)
(* spawner is killed and no row write is lost.  A live worker stays on     *)
(* record because its slot is nobody else's from the moment the pool hands *)
(* it out, a row that names a slot keeps it from the pool, and no sweep is *)
(* after a worker that is up.  A poison-pilled row is the exception: it    *)
(* names its slot still and the pool hands that out again, so what is      *)
(* proved is proved as long as no task has failed.                         *)
(***************************************************************************)
TakeTurns == OneAtATime /\ ~StoreFails /\ ~HungWorkers /\ MaxFaults = 0

NoneFailed == \A t \in Task : row[t].status # "failed"

Resting(p)   == proc[p].pc \in {"idle", "tick"}
Hands(p, t)  == proc[p].task = t /\ proc[p].pc \in LaunchSteps \cup LaunchedSteps
Naming(p, t) == proc[p].task = t /\ proc[p].pc = "report"
Retires(p, t) == proc[p].task = t /\ proc[p].pc = "retire"

Turns == \A p, q \in Spawner : Resting(p) \/ Resting(q) \/ p = q

\* No two rows name one slot.
Apart == \A t, u \in Task :
  t # u /\ row[t].worktree # None => row[t].worktree # row[u].worktree

\* A row that names a slot keeps it from the pool.
LetGo(t, naming) ==
  row[t].status \in Terminal /\ row[t].worktree # None => naming

OnBranch(t, retires) ==
  row[t].worktree # None => slot[row[t].worktree].branch = t \/ retires

\* A worker that is up is on record, and no sweep is after it.
OnRecord(t) ==
  /\ Live(t) /\ row[t].named /\ row[t].worktree = window[t].at
  /\ row[t].gone = FALSE /\ row[t].lease # "lapsed"

Known(t, hands) == Running(t) => HasWindow(t) /\ (OnRecord(t) \/ hands)

Nobodys(s) == s \in Slot /\ \A u \in Task : row[u].worktree # s

\* What a spawn or a teardown relies on between its steps.
Holds(p) ==
  LET pc == proc[p].pc
      t  == proc[p].task
      s  == proc[p].slot
  IN
  /\ pc \in {"inuse", "acquire", "branch", "window"} => ~HasWindow(t)
  /\ pc = "acquire" => \A u \in Task : row[u].worktree # None => row[u].worktree \in proc[p].busy
  /\ pc \in {"branch", "window", "launch", "save"} => Nobodys(s)
  /\ pc = "branch" => slot[s].work = "none" /\ slot[s].branch = None
  /\ pc \in {"window", "launch", "save"} => slot[s].branch = t
  /\ pc \in {"launch"} \cup LaunchedSteps /\ HasWindow(t) => window[t].at = s
  /\ pc \in {"report", "lease", "event"} => row[t].named /\ row[t].worktree = s /\ s \in Slot
  /\ pc = "report" /\ proc[p].prior = "active" => Live(t)
  /\ pc \in {"lease", "event"} => Live(t)
  /\ pc = "event" /\ Running(t) => row[t].lease # "lapsed"
  /\ pc \in TeardownSteps => s = row[t].worktree
  /\ pc \in {"kill_unnamed", "retire"} => ~Running(t)

WorkInv ==
  /\ Typed /\ Turns /\ Apart
  /\ \A t \in Task :
       /\ LetGo(t, \E p \in Spawner : Naming(p, t))
       /\ OnBranch(t, \E p \in Spawner : Retires(p, t))
       /\ Known(t, \E p \in Spawner : Hands(p, t))
  /\ \A p \in Spawner : Holds(p)

\* The same while only p may be at work.
Alone(p) == \A q \in Spawner : q = p \/ Resting(q)
WorkOf(p) ==
  /\ Apart /\ Holds(p)
  /\ \A t \in Task : LetGo(t, Naming(p, t)) /\ OnBranch(t, Retires(p, t)) /\ Known(t, Hands(p, t))

LEMMA AloneAtWork ==
  ASSUME WorkInv, NEW p \in Spawner, Alone(p)
  PROVE  WorkOf(p)
  <1>1. ASSUME NEW t \in Task
        PROVE  /\ (\E q \in Spawner : Naming(q, t)) => Naming(p, t)
               /\ (\E q \in Spawner : Retires(q, t)) => Retires(p, t)
               /\ (\E q \in Spawner : Hands(q, t)) => Hands(p, t)
    BY DEF Alone, Resting, Naming, Retires, Hands, LaunchSteps, LaunchedSteps
  <1>2. ASSUME NEW t \in Task
        PROVE  LetGo(t, Naming(p, t)) /\ OnBranch(t, Retires(p, t)) /\ Known(t, Hands(p, t))
    BY <1>1 DEF WorkInv, LetGo, OnBranch, Known
  <1>3. QED
    BY <1>2 DEF WorkInv, WorkOf

LEMMA WorkAlone ==
  ASSUME NEW p \in Spawner, Alone(p)', WorkOf(p)', Typed'
  PROVE  WorkInv'
  <1>1. Turns'
    BY DEF Alone, Turns, Resting
  <1>2. ASSUME NEW q \in Spawner
        PROVE  Holds(q)'
    <2>1. CASE q = p
      BY <2>1 DEF WorkOf
    <2>2. CASE q # p
      BY <2>2 DEF Alone, Resting, Holds, LaunchedSteps, TeardownSteps
    <2>3. QED
      BY <2>1, <2>2
  <1>3. ASSUME NEW t \in Task
        PROVE  /\ LetGo(t, \E q \in Spawner : Naming(q, t))'
               /\ OnBranch(t, \E q \in Spawner : Retires(q, t))'
               /\ Known(t, \E q \in Spawner : Hands(q, t))'
    BY DEF WorkOf, LetGo, OnBranch, Known
  <1>4. QED
    BY <1>1, <1>2, <1>3 DEF WorkInv, WorkOf


\* Steps that keep to the tables and leave the spawn.
Aside == {"idle", "tick", "check", "transient", "permanent"}

LEMMA AsideHolds ==
  ASSUME NEW p \in Spawner, proc'[p].pc \in Aside
  PROVE  Holds(p)'
  BY DEF Holds, Aside, LaunchedSteps, TeardownSteps

LEMMA Fails ==
  ASSUME TypeOK, NEW p \in Spawner, Failed(p)
  PROVE  proc'[p].pc \in {"transient", "permanent"} /\ proc'[p].task = proc[p].task
  BY Tables DEF Failed, Goto, Process

LEMMA Goes ==
  ASSUME TypeOK, NEW p \in Spawner, NEW step, Goto(p, step)
  PROVE  /\ proc'[p].pc = step /\ proc'[p].task = proc[p].task
         /\ proc'[p].slot = proc[p].slot /\ proc'[p].prior = proc[p].prior
         /\ proc'[p].busy = proc[p].busy
  BY Tables DEF Goto, Process

\* A spawn that fails before its worker is up.
LEMMA KeepsTables ==
  ASSUME TypeOK, NEW p \in Spawner, WorkOf(p), UNCHANGED <<row, window, slot>>,
         proc[p].pc \in Aside \/ ~HasWindow(proc[p].task),
         proc[p].pc \notin {"report", "retire"}, proc'[p].pc \in Aside
  PROVE  WorkOf(p)'
  <1>1. Holds(p)' /\ Apart'
    BY AsideHolds DEF WorkOf, Apart
  <1>2. ASSUME NEW t \in Task
        PROVE  LetGo(t, Naming(p, t))' /\ OnBranch(t, Retires(p, t))' /\ Known(t, Hands(p, t))'
    <2>1. ~Naming(p, t) /\ ~Retires(p, t)
      BY DEF Naming, Retires
    <2>2. Hands(p, t) => ~HasWindow(t)
      BY DEF Hands, Aside, LaunchSteps, LaunchedSteps
    <2>3. LetGo(t, FALSE) /\ OnBranch(t, FALSE)
      BY <2>1 DEF WorkOf, LetGo, OnBranch
    <2>4. Known(t, FALSE)
      BY <2>2 DEF WorkOf, Known
    <2>5. LetGo(t, FALSE)' /\ OnBranch(t, FALSE)' /\ Known(t, FALSE)'
      BY <2>3, <2>4 DEF LetGo, OnBranch, Known, OnRecord, Live, HasWindow, Running
    <2>6. QED
      BY <2>5 DEF LetGo, OnBranch, Known
  <1>3. QED
    BY <1>1, <1>2 DEF WorkOf

LEMMA CheckWork ==
  ASSUME Typed, NEW p \in Spawner, WorkOf(p), CheckWindow(p)
  PROVE  WorkOf(p)'
  <1>1. TypeOK /\ UNCHANGED <<row, window, slot>> /\ proc[p].pc = "check"
    BY DEF CheckWindow, At, Typed
  <1>2. CASE Failed(p)
    BY <1>1, <1>2, Fails, KeepsTables DEF Aside
  <1>3. CASE ~Refused(p) /\ Goto(p, "inuse")
    <2>1. ~HasWindow(proc[p].task)
      BY <1>3 DEF Refused
    <2>2. proc'[p].pc = "inuse" /\ proc'[p].task = proc[p].task
      BY <1>1, <1>3, Goes
    <2>3. Holds(p)'
      BY <1>1, <2>1, <2>2 DEF Holds, HasWindow, LaunchedSteps, TeardownSteps
    <2>4. ASSUME NEW t \in Task
          PROVE  LetGo(t, Naming(p, t))' /\ OnBranch(t, Retires(p, t))' /\ Known(t, Hands(p, t))'
      <3>1. ~Naming(p, t) /\ ~Retires(p, t) /\ ~Hands(p, t)
        BY <1>1 DEF Naming, Retires, Hands, LaunchSteps, LaunchedSteps
      <3>2. LetGo(t, FALSE) /\ OnBranch(t, FALSE) /\ Known(t, FALSE)
        BY <3>1 DEF WorkOf, LetGo, OnBranch, Known
      <3>3. QED
        BY <1>1, <3>2 DEF LetGo, OnBranch, Known, OnRecord, Live, HasWindow, Running
    <2>5. QED
      BY <1>1, <2>3, <2>4 DEF WorkOf, Apart
  <1>4. QED
    BY <1>2, <1>3 DEF CheckWindow

\* Between the window check and the launch only slots change, and only the slot
\* the spawn has in hand.
LEMMA EarlyWork ==
  ASSUME Typed, NEW p \in Spawner, WorkOf(p),
         proc[p].pc \in {"inuse", "acquire", "branch", "window"},
         UNCHANGED row, NEW s,
         \A u \in Task : row[u].worktree # s,
         \A x \in Slot : x # s => slot'[x] = slot[x],
         \A u \in Task : u # proc[p].task => window'[u] = window[u],
         ~window'[proc[p].task].up,
         proc'[p].pc \notin {"report", "retire"}, Holds(p)'
  PROVE  WorkOf(p)'
  <1>1. Apart'
    BY DEF WorkOf, Apart
  <1>2. ASSUME NEW t \in Task
        PROVE  LetGo(t, Naming(p, t))' /\ OnBranch(t, Retires(p, t))' /\ Known(t, Hands(p, t))'
    <2>1. ~Naming(p, t) /\ ~Retires(p, t)
      BY DEF Naming, Retires
    <2>2. LetGo(t, FALSE) /\ OnBranch(t, FALSE)
      BY <2>1 DEF WorkOf, LetGo, OnBranch
    <2>3. LetGo(t, Naming(p, t))'
      BY <2>2 DEF LetGo
    <2>4. OnBranch(t, Retires(p, t))'
      <3>1. row[t].worktree # None => row[t].worktree \in Slot
        BY Tables DEF Row, Typed
      <3>2. QED
        BY <2>2, <3>1 DEF OnBranch
    <2>5. CASE t = proc[p].task
      BY <2>3, <2>4, <2>5 DEF Known, Running
    <2>6. CASE t # proc[p].task
      <3>1. ~Hands(p, t)
        BY <2>6 DEF Hands
      <3>2. Known(t, FALSE) /\ window'[t] = window[t]
        BY <2>6, <3>1 DEF WorkOf, Known
      <3>3. QED
        BY <2>3, <2>4, <3>2 DEF Known, OnRecord, Live, HasWindow, Running
    <2>7. QED
      BY <2>5, <2>6
  <1>3. QED
    BY <1>1, <1>2 DEF WorkOf

LEMMA NotUp ==
  ASSUME NEW p \in Spawner, WorkOf(p), proc[p].task \in Task, ~HasWindow(proc[p].task)
  PROVE  ~window[proc[p].task].up
  BY DEF WorkOf, Known, Running

LEMMA ReadInUseWork ==
  ASSUME Typed, NEW p \in Spawner, WorkOf(p), ReadInUse(p)
  PROVE  WorkOf(p)'
  <1>1. TypeOK /\ UNCHANGED <<row, window, slot>> /\ proc[p].pc = "inuse" /\ proc[p].task \in Task
    BY DEF ReadInUse, At, Typed, AtWork
  <1>2. ~HasWindow(proc[p].task)
    BY <1>1 DEF WorkOf, Holds
  <1>3. CASE Failed(p)
    BY <1>1, <1>2, <1>3, Fails, KeepsTables DEF Aside
  <1>4. CASE proc' = [proc EXCEPT ![p].busy = HeldSlots, ![p].pc = "acquire"]
    <2>1. /\ proc'[p].pc = "acquire" /\ proc'[p].task = proc[p].task
          /\ proc'[p].busy = HeldSlots
      BY <1>1, <1>4, Tables DEF Process
    <2>2. ASSUME NEW u \in Task, row[u].worktree # None
          PROVE  row[u].worktree \in HeldSlots
      <3>1. ~Naming(p, u)
        BY <1>1 DEF Naming
      <3>2. Live(u)
        BY <2>2, <3>1 DEF WorkOf, LetGo, Live
      <3>3. QED
        BY <2>2, <3>2 DEF HeldSlots
    <2>3. Holds(p)'
      BY <1>1, <1>2, <2>1, <2>2 DEF Holds, HasWindow, LaunchedSteps, TeardownSteps
    <2>6. Apart'
      BY <1>1 DEF WorkOf, Apart
    <2>7. ASSUME NEW t \in Task
          PROVE  LetGo(t, Naming(p, t))' /\ OnBranch(t, Retires(p, t))' /\ Known(t, Hands(p, t))'
      <3>1. ~Naming(p, t) /\ ~Retires(p, t) /\ (Hands(p, t) => Hands(p, t)')
        BY <1>1, <2>1 DEF Naming, Retires, Hands, LaunchSteps
      <3>2. LetGo(t, FALSE) /\ OnBranch(t, FALSE) /\ Known(t, Hands(p, t))
        BY <3>1 DEF WorkOf, LetGo, OnBranch
      <3>3. QED
        BY <1>1, <3>1, <3>2 DEF LetGo, OnBranch, Known, OnRecord, Live, HasWindow, Running
    <2>8. QED
      BY <2>3, <2>6, <2>7 DEF WorkOf
  <1>5. QED
    BY <1>3, <1>4 DEF ReadInUse


\* A spawn that gives its slot back before its worker was up.
LEMMA GivesBack ==
  ASSUME Typed, NEW p \in Spawner, WorkOf(p),
         proc[p].pc \in {"inuse", "acquire", "branch", "window"},
         UNCHANGED row, Failed(p), NEW s,
         \A u \in Task : row[u].worktree # s,
         \A x \in Slot : x # s => slot'[x] = slot[x],
         \A u \in Task : u # proc[p].task => window'[u] = window[u],
         ~window'[proc[p].task].up
  PROVE  WorkOf(p)'
  <1>1. proc'[p].pc \in Aside /\ proc'[p].pc \notin {"report", "retire"}
    BY Fails DEF Aside, Typed
  <1>2. Holds(p)'
    BY <1>1, AsideHolds
  <1>3. QED
    BY <1>1, <1>2, EarlyWork

LEMMA AcquireWork ==
  ASSUME Typed, NEW p \in Spawner, WorkOf(p), Acquire(p)
  PROVE  WorkOf(p)'
  <1>1. TypeOK /\ UNCHANGED <<row, window>> /\ proc[p].pc = "acquire" /\ proc[p].task \in Task
    BY DEF Acquire, At, Typed, AtWork
  <1>2. /\ ~HasWindow(proc[p].task)
        /\ \A u \in Task : row[u].worktree # None => row[u].worktree \in proc[p].busy
    BY <1>1 DEF WorkOf, Holds
  <1>3. ~window[proc[p].task].up
    BY <1>1, <1>2, NotUp
  <1>4. CASE Failed(p) /\ UNCHANGED slot
    BY <1>1, <1>2, <1>4, Fails, KeepsTables DEF Aside
  <1>5. ASSUME NEW s \in FreeSlot(p), slot' = [slot EXCEPT ![s].branch = None],
               proc' = [proc EXCEPT ![p].slot = s, ![p].pc = "branch", ![p].busy = {}]
        PROVE  WorkOf(p)'
    <2>1. /\ proc'[p].pc = "branch" /\ proc'[p].task = proc[p].task /\ proc'[p].slot = s
      BY <1>1, <1>5, Tables DEF Process
    <2>2. s \in Slot /\ s \notin proc[p].busy /\ slot[s].work = "none"
      BY <1>5 DEF FreeSlot
    <2>3. /\ slot'[s].branch = None /\ slot'[s].work = "none"
          /\ \A x \in Slot : x # s => slot'[x] = slot[x]
      BY <1>1, <1>5, <2>2 DEF TypeOK
    <2>4. \A u \in Task : row[u].worktree # s
      BY <1>2, <2>2, NoneIsNobody
    <2>5. Holds(p)'
      BY <1>1, <1>2, <2>1, <2>2, <2>3, <2>4
         DEF Holds, HasWindow, Nobodys, LaunchedSteps, TeardownSteps
    <2>6. QED
      BY <1>1, <1>3, <2>1, <2>3, <2>4, <2>5, EarlyWork
  <1>6. QED
    BY <1>4, <1>5 DEF Acquire

LEMMA StartBranchWork ==
  ASSUME Typed, NEW p \in Spawner, WorkOf(p), StartBranch(p)
  PROVE  WorkOf(p)'
  <1> DEFINE t == proc[p].task
             s == proc[p].slot
  <1>1. TypeOK /\ UNCHANGED <<row, window>> /\ proc[p].pc = "branch" /\ t \in Task
    BY DEF StartBranch, At, Typed, AtWork
  <1>2. ~HasWindow(t) /\ Nobodys(s)
    BY <1>1 DEF WorkOf, Holds
  <1>3. ~window[t].up /\ s \in Slot /\ \A u \in Task : row[u].worktree # s
    BY <1>1, <1>2, NotUp DEF Nobodys
  <1>4. CASE ReleaseSlot(s) /\ Failed(p)
    <2>1. \A x \in Slot : x # s => slot'[x] = slot[x]
      BY <1>1, <1>4 DEF ReleaseSlot, TypeOK
    <2>2. QED
      BY <1>1, <1>3, <1>4, <2>1, GivesBack
  <1>5. CASE slot' = [slot EXCEPT ![s] = [branch |-> t, work |-> "none"]] /\ Goto(p, "window")
    <2>1. proc'[p].pc = "window" /\ proc'[p].task = t /\ proc'[p].slot = s
      BY <1>1, <1>5, Goes
    <2>2. slot'[s].branch = t /\ \A x \in Slot : x # s => slot'[x] = slot[x]
      BY <1>1, <1>3, <1>5 DEF TypeOK
    <2>3. Holds(p)'
      BY <1>1, <1>2, <1>3, <2>1, <2>2
         DEF Holds, HasWindow, Nobodys, LaunchedSteps, TeardownSteps
    <2>4. QED
      BY <1>1, <1>3, <2>1, <2>2, <2>3, EarlyWork
  <1>6. QED
    BY <1>4, <1>5 DEF StartBranch

LEMMA OpenWindowWork ==
  ASSUME Typed, NEW p \in Spawner, WorkOf(p), OpenWindow(p)
  PROVE  WorkOf(p)'
  <1> DEFINE t == proc[p].task
             s == proc[p].slot
  <1>1. TypeOK /\ UNCHANGED row /\ proc[p].pc = "window" /\ t \in Task
    BY DEF OpenWindow, At, Typed, AtWork
  <1>2. Nobodys(s) /\ slot[s].branch = t
    BY <1>1 DEF WorkOf, Holds
  <1>3. s \in Slot /\ \A u \in Task : row[u].worktree # s
    BY <1>2 DEF Nobodys
  <1>4. CASE window' = [window EXCEPT ![t] = NoWindow] /\ ReleaseSlot(s) /\ Failed(p)
    <2>1. \A x \in Slot : x # s => slot'[x] = slot[x]
      BY <1>1, <1>4 DEF ReleaseSlot, TypeOK
    <2>2. ~window'[t].up /\ \A u \in Task : u # t => window'[u] = window[u]
      BY <1>1, <1>4 DEF NoWindow, TypeOK
    <2>3. QED
      BY <1>1, <1>3, <1>4, <2>1, <2>2, GivesBack
  <1>5. CASE window' = [window EXCEPT ![t] = [at |-> s, up |-> FALSE]] /\ Goto(p, "launch") /\ UNCHANGED slot
    <2>1. proc'[p].pc = "launch" /\ proc'[p].task = t /\ proc'[p].slot = s
      BY <1>1, <1>5, Goes
    <2>2. /\ ~window'[t].up /\ window'[t].at = s
          /\ \A u \in Task : u # t => window'[u] = window[u]
      BY <1>1, <1>5 DEF TypeOK
    <2>3. Holds(p)'
      BY <1>1, <1>2, <1>3, <1>5, <2>1, <2>2
         DEF Holds, HasWindow, Nobodys, LaunchedSteps, TeardownSteps
    <2>4. QED
      BY <1>1, <1>3, <1>5, <2>1, <2>2, <2>3, EarlyWork
  <1>6. QED
    BY <1>4, <1>5 DEF OpenWindow

LEMMA LaunchWork ==
  ASSUME Typed, NEW p \in Spawner, WorkOf(p), Launch(p)
  PROVE  WorkOf(p)'
  <1> DEFINE t == proc[p].task
             s == proc[p].slot
  <1>1. TypeOK /\ UNCHANGED row /\ proc[p].pc = "launch" /\ t \in Task
    BY DEF Launch, At, Typed, AtWork
  <1>2. Nobodys(s) /\ slot[s].branch = t /\ (HasWindow(t) => window[t].at = s)
    BY <1>1 DEF WorkOf, Holds, LaunchedSteps
  <1>3. s \in Slot /\ \A u \in Task : row[u].worktree # s
    BY <1>2 DEF Nobodys
  <1>4. Apart'
    BY <1>1 DEF WorkOf, Apart
  <1>5. ASSUME NEW u \in Task
        PROVE  /\ LetGo(u, FALSE) /\ OnBranch(u, FALSE)
               /\ row[u].worktree # None => row[u].worktree \in Slot
               /\ u # t => Known(u, FALSE)
    <2>1. ~Naming(p, u) /\ ~Retires(p, u) /\ (u # t => ~Hands(p, u))
      BY <1>1 DEF Naming, Retires, Hands
    <2>2. QED
      BY <1>1, <2>1, Tables DEF WorkOf, LetGo, OnBranch, Known, Row
  <1>6. CASE window' = [window EXCEPT ![t] = NoWindow] /\ ReleaseSlot(s) /\ Failed(p)
    <2>1. \A x \in Slot : x # s => slot'[x] = slot[x]
      BY <1>1, <1>6 DEF ReleaseSlot, TypeOK
    <2>2. ~window'[t].up /\ \A u \in Task : u # t => window'[u] = window[u]
      BY <1>1, <1>6 DEF NoWindow, TypeOK
    <2>3. Holds(p)'
      BY <1>1, <1>6, Fails, AsideHolds DEF Aside
    <2>4. ASSUME NEW u \in Task
          PROVE  LetGo(u, Naming(p, u))' /\ OnBranch(u, Retires(p, u))' /\ Known(u, Hands(p, u))'
      <3>1. LetGo(u, FALSE)' /\ OnBranch(u, FALSE)'
        BY <1>1, <1>3, <1>5, <2>1 DEF LetGo, OnBranch
      <3>2. Known(u, FALSE)'
        BY <1>1, <1>5, <2>2 DEF Known, Running, OnRecord, Live, HasWindow
      <3>3. QED
        BY <3>1, <3>2 DEF LetGo, OnBranch, Known
    <2>5. QED
      BY <1>4, <2>3, <2>4 DEF WorkOf
  <1>7. CASE HasWindow(t) /\ window' = [window EXCEPT ![t].up = TRUE] /\ Goto(p, "save") /\ UNCHANGED slot
    <2>1. proc'[p].pc = "save" /\ proc'[p].task = t /\ proc'[p].slot = s
      BY <1>1, <1>7, Goes
    <2>2. window'[t].at = s /\ window'[t].at # None /\ \A u \in Task : u # t => window'[u] = window[u]
      BY <1>1, <1>2, <1>7 DEF TypeOK, HasWindow
    <2>3. Holds(p)'
      BY <1>1, <1>2, <1>3, <1>7, <2>1, <2>2
         DEF Holds, HasWindow, Nobodys, LaunchedSteps, TeardownSteps
    <2>4. ASSUME NEW u \in Task
          PROVE  LetGo(u, Naming(p, u))' /\ OnBranch(u, Retires(p, u))' /\ Known(u, Hands(p, u))'
      <3>1. LetGo(u, FALSE)' /\ OnBranch(u, FALSE)'
        BY <1>1, <1>5, <1>7 DEF LetGo, OnBranch
      <3>2. CASE u = t
        BY <2>1, <2>2, <3>1, <3>2 DEF LetGo, OnBranch, Known, Hands, HasWindow, LaunchedSteps
      <3>3. CASE u # t
        <4>1. Known(u, FALSE)'
          BY <1>1, <1>5, <2>2, <3>3 DEF Known, Running, OnRecord, Live, HasWindow
        <4>2. QED
          BY <3>1, <4>1 DEF LetGo, OnBranch, Known
      <3>4. QED
        BY <3>2, <3>3
    <2>5. QED
      BY <1>4, <2>3, <2>4 DEF WorkOf
  <1>8. QED
    BY <1>6, <1>7 DEF Launch, Abort


\* A step that writes one row, and not the slot it names.
LEMMA RowWork ==
  ASSUME NEW p \in Spawner, WorkOf(p), UNCHANGED <<window, slot>>,
         NEW t \in Task, \A u \in Task : u # t => row'[u] = row[u],
         row'[t].worktree = row[t].worktree,
         \A u \in Task : /\ u # t /\ Naming(p, u) => Naming(p, u)'
                         /\ Retires(p, u) => Retires(p, u)'
                         /\ u # t /\ Hands(p, u) => Hands(p, u)',
         LetGo(t, Naming(p, t))', Known(t, Hands(p, t))', Holds(p)'
  PROVE  WorkOf(p)'
  <1>1. Apart'
    BY DEF WorkOf, Apart
  <1>2. ASSUME NEW u \in Task
        PROVE  OnBranch(u, Retires(p, u))'
    BY DEF WorkOf, OnBranch
  <1>3. ASSUME NEW u \in Task, u # t
        PROVE  LetGo(u, Naming(p, u))' /\ Known(u, Hands(p, u))'
    <2>1. row'[u] = row[u] /\ window' = window
      BY <1>3
    <2>2. LetGo(u, Naming(p, u)) /\ Known(u, Hands(p, u))
      BY DEF WorkOf
    <2>3. (Naming(p, u) => Naming(p, u)') /\ (Hands(p, u) => Hands(p, u)')
      BY <1>3
    <2>4. QED
      BY <2>1, <2>2, <2>3 DEF LetGo, Known, OnRecord, Live, HasWindow, Running
  <1>4. QED
    BY <1>1, <1>2, <1>3 DEF WorkOf

LEMMA SaveWork ==
  ASSUME TakeTurns, Typed, NEW p \in Spawner, WorkOf(p), Save(p)
  PROVE  WorkOf(p)'
  <1> DEFINE t == proc[p].task
             s == proc[p].slot
  <1>1. TypeOK /\ UNCHANGED <<window, slot>> /\ proc[p].pc = "save" /\ t \in Task
    BY DEF Save, At, Typed, AtWork, TakeTurns
  <1>2. /\ row' = [row EXCEPT ![t] = Saved(@, s)]
        /\ proc' = [proc EXCEPT ![p].prior = row[t].status, ![p].pc = "report"]
    BY DEF Save, TakeTurns
  <1>3. /\ proc'[p].pc = "report" /\ proc'[p].task = t /\ proc'[p].slot = s
        /\ proc'[p].prior = row[t].status
    BY <1>1, <1>2, Tables DEF Process
  <1>4. /\ row'[t].named = TRUE /\ row'[t].worktree = s /\ row'[t].status = row[t].status
        /\ \A u \in Task : u # t => row'[u] = row[u]
    BY <1>1, <1>2, Tables DEF Row, Saved
  <1>5. Nobodys(s) /\ slot[s].branch = t /\ (HasWindow(t) => window[t].at = s)
    BY <1>1 DEF WorkOf, Holds, LaunchedSteps
  <1>6. s \in Slot /\ s # None /\ \A u \in Task : row[u].worktree # s
    BY <1>5, NoneIsNobody DEF Nobodys
  <1>7. Apart'
    BY <1>4, <1>6 DEF WorkOf, Apart
  <1>8. Holds(p)'
    BY <1>1, <1>3, <1>4, <1>5, <1>6
       DEF Holds, HasWindow, Live, Terminal, LaunchedSteps, TeardownSteps
  <1>9. ASSUME NEW u \in Task
        PROVE  LetGo(u, Naming(p, u))' /\ OnBranch(u, Retires(p, u))' /\ Known(u, Hands(p, u))'
    <2>1. CASE u = t
      <3>1. Naming(p, u)' /\ Hands(p, u)'
        BY <1>3, <2>1 DEF Naming, Hands, LaunchedSteps
      <3>2. OnBranch(u, Retires(p, u))'
        BY <1>1, <1>4, <1>5, <2>1 DEF OnBranch
      <3>3. Known(u, Hands(p, u)) /\ window' = window
        BY <1>1 DEF WorkOf
      <3>4. QED
        BY <3>1, <3>2, <3>3 DEF LetGo, Known, Running, HasWindow
    <2>2. CASE u # t
      <3>1. ~Naming(p, u) /\ ~Retires(p, u) /\ ~Hands(p, u)
        BY <2>2 DEF Naming, Retires, Hands
      <3>2. LetGo(u, FALSE) /\ OnBranch(u, FALSE) /\ Known(u, FALSE)
        BY <3>1 DEF WorkOf, LetGo, OnBranch, Known
      <3>3. row'[u] = row[u] /\ window' = window /\ slot' = slot
        BY <1>1, <1>4, <2>2
      <3>4. QED
        BY <3>2, <3>3 DEF LetGo, OnBranch, Known, Running, OnRecord, Live, HasWindow
    <2>3. QED
      BY <2>1, <2>2
  <1>10. QED
    BY <1>7, <1>8, <1>9 DEF WorkOf

LEMMA ReportWork ==
  ASSUME TakeTurns, Typed, NEW p \in Spawner, WorkOf(p), ReportActive(p),
         NEW t \in Task, t = proc[p].task
  PROVE  WorkOf(p)'
  <1> DEFINE s == proc[p].slot
  <1>1. TypeOK /\ UNCHANGED <<window, slot>> /\ proc[p].pc = "report" /\ t \in Task
    BY DEF ReportActive, At, Typed, AtWork, TakeTurns
  <1>2. /\ Goto(p, "lease")
        /\ row' = IF proc[p].prior = "active" THEN row
                  ELSE [row EXCEPT ![t].status = "active", ![t].lease = Extended(@)]
    BY DEF ReportActive, TakeTurns
  <1>3. proc'[p].pc = "lease" /\ proc'[p].task = t /\ proc'[p].slot = s
    BY <1>1, <1>2, Goes
  <1>4. /\ row[t].named /\ row[t].worktree = s /\ s \in Slot
        /\ (HasWindow(t) => window[t].at = s) /\ (proc[p].prior = "active" => Live(t))
    BY <1>1 DEF WorkOf, Holds, LaunchedSteps
  <1>5. /\ row'[t].named /\ row'[t].worktree = row[t].worktree /\ row'[t].status \notin Terminal
        /\ \A u \in Task : u # t => row'[u] = row[u]
    BY <1>1, <1>2, <1>4, Tables DEF Row, Live, Terminal
  <1>6. Holds(p)'
    BY <1>1, <1>3, <1>4, <1>5 DEF Holds, HasWindow, Live, LaunchedSteps, TeardownSteps
  <1>7. LetGo(t, Naming(p, t))' /\ Known(t, Hands(p, t))'
    <2>1. Known(t, Hands(p, t)) /\ Hands(p, t)'
      BY <1>3 DEF WorkOf, Hands, LaunchedSteps
    <2>2. QED
      BY <1>1, <1>5, <2>1 DEF LetGo, Known, Running, HasWindow
  <1>8. ASSUME NEW u \in Task
        PROVE  /\ u # t /\ Naming(p, u) => Naming(p, u)'
               /\ Retires(p, u) => Retires(p, u)'
               /\ u # t /\ Hands(p, u) => Hands(p, u)'
    BY <1>1 DEF Naming, Retires, Hands
  <1>9. QED
    BY <1>1, <1>5, <1>6, <1>7, <1>8, RowWork

LEMMA LeaseWork ==
  ASSUME TakeTurns, Typed, NEW p \in Spawner, WorkOf(p), GrantLease(p),
         NEW t \in Task, t = proc[p].task
  PROVE  WorkOf(p)'
  <1> DEFINE s == proc[p].slot
  <1>1. TypeOK /\ UNCHANGED <<window, slot>> /\ proc[p].pc = "lease" /\ t \in Task
    BY DEF GrantLease, At, Typed, AtWork
  <1>2. Goto(p, "event") /\ row' = [row EXCEPT ![t].lease = "live"]
    BY DEF GrantLease, TakeTurns, BestEffort
  <1>3. proc'[p].pc = "event" /\ proc'[p].task = t /\ proc'[p].slot = s
    BY <1>1, <1>2, Goes
  <1>4. /\ row[t].named /\ row[t].worktree = s /\ s \in Slot
        /\ (HasWindow(t) => window[t].at = s) /\ Live(t)
    BY <1>1 DEF WorkOf, Holds, LaunchedSteps
  <1>5. /\ row'[t].named /\ row'[t].worktree = row[t].worktree /\ row'[t].status \notin Terminal
        /\ row'[t].lease = "live" /\ \A u \in Task : u # t => row'[u] = row[u]
    BY <1>1, <1>2, <1>4, Tables DEF Row, Live
  <1>6. Holds(p)'
    BY <1>1, <1>3, <1>4, <1>5 DEF Holds, HasWindow, Live, LaunchedSteps, TeardownSteps
  <1>7. LetGo(t, Naming(p, t))' /\ Known(t, Hands(p, t))'
    <2>1. Known(t, Hands(p, t)) /\ Hands(p, t)'
      BY <1>3 DEF WorkOf, Hands, LaunchedSteps
    <2>2. QED
      BY <1>1, <1>5, <2>1 DEF LetGo, Known, Running, HasWindow
  <1>8. ASSUME NEW u \in Task
        PROVE  /\ u # t /\ Naming(p, u) => Naming(p, u)'
               /\ Retires(p, u) => Retires(p, u)'
               /\ u # t /\ Hands(p, u) => Hands(p, u)'
    BY <1>1 DEF Naming, Retires, Hands
  <1>9. QED
    BY <1>1, <1>5, <1>6, <1>7, <1>8, RowWork

LEMMA SpawnedWork ==
  ASSUME TakeTurns, Typed, NEW p \in Spawner, WorkOf(p), Spawned(p),
         NEW t \in Task, t = proc[p].task
  PROVE  WorkOf(p)'
  <1> DEFINE s == proc[p].slot
  <1>1. TypeOK /\ UNCHANGED <<window, slot>> /\ proc[p].pc = "event" /\ t \in Task
    BY DEF Spawned, At, Typed, AtWork
  <1>2. row' = [row EXCEPT ![t].gone = FALSE]
    BY DEF Spawned, TakeTurns, BestEffort
  <1>3. proc'[p].pc \in {"idle", "tick"}
    BY <1>1, Tables DEF Spawned, AtRest
  <1>4. /\ row[t].named /\ row[t].worktree = s /\ s \in Slot
        /\ (HasWindow(t) => window[t].at = s) /\ Live(t)
        /\ (Running(t) => row[t].lease # "lapsed")
    BY <1>1 DEF WorkOf, Holds, LaunchedSteps
  <1>5. /\ row'[t].named = row[t].named /\ row'[t].worktree = row[t].worktree
        /\ row'[t].status = row[t].status /\ row'[t].lease = row[t].lease
        /\ row'[t].gone = FALSE /\ \A u \in Task : u # t => row'[u] = row[u]
    BY <1>1, <1>2, Tables DEF Row
  <1>6. Holds(p)'
    BY <1>3, AsideHolds DEF Aside
  <1>7. LetGo(t, Naming(p, t))' /\ Known(t, Hands(p, t))'
    <2>1. Running(t) => HasWindow(t)
      BY DEF WorkOf, Known
    <2>2. QED
      BY <1>1, <1>4, <1>5, <2>1 DEF LetGo, Known, Running, HasWindow, OnRecord, Live
  <1>8. ASSUME NEW u \in Task
        PROVE  /\ u # t /\ Naming(p, u) => Naming(p, u)'
               /\ Retires(p, u) => Retires(p, u)'
               /\ u # t /\ Hands(p, u) => Hands(p, u)'
    BY <1>1 DEF Naming, Retires, Hands
  <1>9. QED
    BY <1>1, <1>5, <1>6, <1>7, <1>8, RowWork

LEMMA FailedWork ==
  ASSUME TakeTurns, Typed, NEW d \in Daemon, WorkOf(d), DispatchFailed(d),
         NEW t \in Task, t = proc[d].task
  PROVE  WorkOf(d)'
  <1>1. /\ TypeOK /\ UNCHANGED <<window, slot>> /\ proc[d].pc \in {"transient", "permanent"}
        /\ d \in Spawner /\ t \in Task
    BY FailureWrites DEF DispatchFailed, Typed, AtWork, Spawner
  <1>2. proc'[d].pc \in {"idle", "tick"}
    BY <1>1, Tables DEF DispatchFailed, AtRest
  <1>3. \/ row' = row
        \/ row' = [row EXCEPT ![t].status = "blocked"]
        \/ row' = [row EXCEPT ![t].status = "pending", ![t].lease = None]
    BY FailureWrites
  <1>4. /\ row'[t].named = row[t].named /\ row'[t].worktree = row[t].worktree
        /\ row'[t].gone = row[t].gone /\ row'[t].lease \in {row[t].lease, None}
        /\ row'[t].status = row[t].status \/ row'[t].status \notin Terminal
        /\ \A u \in Task : u # t => row'[u] = row[u]
    BY <1>1, <1>3, Tables DEF Row, Terminal
  <1>5. Holds(d)'
    BY <1>1, <1>2, AsideHolds DEF Aside
  <1>6. LetGo(t, Naming(d, t))' /\ Known(t, Hands(d, t))'
    <2>1. ~Naming(d, t) /\ ~Hands(d, t)
      BY <1>1 DEF Naming, Hands, LaunchSteps, LaunchedSteps
    <2>2. LetGo(t, FALSE) /\ Known(t, FALSE)
      BY <1>1, <2>1 DEF WorkOf, LetGo, Known
    <2>3. "lapsed" # None
      BY DEF None
    <2>4. QED
      BY <1>1, <1>4, <2>2, <2>3 DEF LetGo, Known, Running, HasWindow, OnRecord, Live
  <1>7. ASSUME NEW u \in Task
        PROVE  /\ u # t /\ Naming(d, u) => Naming(d, u)'
               /\ Retires(d, u) => Retires(d, u)'
               /\ u # t /\ Hands(d, u) => Hands(d, u)'
    BY <1>1 DEF Naming, Retires, Hands
  <1>8. QED
    BY <1>1, <1>4, <1>5, <1>6, <1>7, RowWork


LEMMA ClaimWork ==
  ASSUME Typed, NEW d \in Daemon, d \in Spawner, WorkOf(d), NEW t \in Task, Claim(d, t)
  PROVE  WorkOf(d)'
  <1>1. TypeOK /\ UNCHANGED <<window, slot>> /\ proc[d].pc = "tick"
    BY DEF Claim, Dispatchable, Typed
  <1>2. CASE UNCHANGED <<row, proc>>
    BY <1>1, <1>2, KeepsTables DEF Aside
  <1>3. CASE /\ row[t].status = "pending" /\ row' = [row EXCEPT ![t] = Claimed(@)]
             /\ proc' = [proc EXCEPT ![d] = [AtRest EXCEPT !.pc = "check", !.task = t]]
    <2>1. proc'[d].pc = "check"
      BY <1>1, <1>3, Tables DEF AtRest
    <2>2. /\ row'[t].status = "active" /\ row'[t].named = row[t].named
          /\ row'[t].worktree = row[t].worktree /\ row'[t].lease = "live"
          /\ row'[t].gone = FALSE /\ \A u \in Task : u # t => row'[u] = row[u]
      BY <1>1, <1>3, Tables DEF Row, Claimed
    <2>3. Holds(d)'
      BY <2>1, AsideHolds DEF Aside
    <2>4. ASSUME NEW u \in Task
          PROVE  ~Naming(d, u) /\ ~Retires(d, u) /\ ~Hands(d, u)
      BY <1>1 DEF Naming, Retires, Hands, LaunchSteps, LaunchedSteps
    <2>5. Known(t, FALSE)
      BY <2>4 DEF WorkOf, Known
    <2>6. LetGo(t, Naming(d, t))' /\ Known(t, Hands(d, t))'
      BY <1>1, <2>2, <2>5 DEF LetGo, Known, Running, HasWindow, OnRecord, Live, Terminal
    <2>7. QED
      BY <1>1, <2>2, <2>3, <2>4, <2>6, RowWork
  <1>4. QED
    BY <1>2, <1>3 DEF Claim, Claimable

LEMMA TeardownBeginWork ==
  ASSUME Typed, NEW c \in Spawner, WorkOf(c), NEW t \in Task, NEW force,
         TeardownBegin(c, t, force)
  PROVE  WorkOf(c)'
  <1>1. TypeOK /\ UNCHANGED <<row, window, slot>> /\ proc[c].pc = "idle"
    BY DEF TeardownBegin, At, Typed
  <1>2. /\ proc'[c].task = t /\ proc'[c].slot = row[t].worktree
        /\ proc'[c].pc \in {"kill", "kill_unnamed"}
        /\ proc'[c].pc = "kill_unnamed" => ~row[t].named
    BY <1>1, Tables DEF TeardownBegin, Process
  <1>3. ASSUME NEW u \in Task
        PROVE  LetGo(u, FALSE) /\ OnBranch(u, FALSE) /\ Known(u, FALSE)
    <2>1. ~Naming(c, u) /\ ~Retires(c, u) /\ ~Hands(c, u)
      BY <1>1 DEF Naming, Retires, Hands, LaunchSteps, LaunchedSteps
    <2>2. QED
      BY <2>1 DEF WorkOf, LetGo, OnBranch, Known
  <1>4. proc'[c].pc = "kill_unnamed" => ~Running(t)
    BY <1>2, <1>3 DEF Known, OnRecord
  <1>5. Holds(c)'
    BY <1>1, <1>2, <1>4 DEF Holds, LaunchedSteps, TeardownSteps, Running
  <1>6. ASSUME NEW u \in Task
        PROVE  LetGo(u, Naming(c, u))' /\ OnBranch(u, Retires(c, u))' /\ Known(u, Hands(c, u))'
    BY <1>1, <1>3 DEF LetGo, OnBranch, Known, OnRecord, Live, HasWindow, Running
  <1>7. QED
    BY <1>1, <1>5, <1>6 DEF WorkOf, Apart

\* Killing a window takes workers down and moves none.
LEMMA Killing ==
  ASSUME TypeOK, NEW c \in Spawner, proc[c].task \in Task, KillNamed(c)
  PROVE  /\ proc[c].pc \in {"kill", "kill_unnamed"}
         /\ \A u \in Task : window'[u] = window[u] \/ ~window'[u].up
         /\ proc[c].pc = "kill" => ~window'[proc[c].task].up
  BY DEF KillNamed, At, NoWindow, TypeOK

LEMMA TeardownReleaseWork ==
  ASSUME Typed, NEW c \in Spawner, WorkOf(c), TeardownRelease(c), NEW t \in Task, t = proc[c].task
  PROVE  WorkOf(c)'
  <1> DEFINE s == proc[c].slot
  <1>1. /\ TypeOK /\ UNCHANGED row /\ proc[c].pc \in {"kill", "kill_unnamed"}
        /\ \A u \in Task : window'[u] = window[u] \/ ~window'[u].up
        /\ proc[c].pc = "kill" => ~window'[t].up
    BY Killing DEF TeardownRelease, Typed
  <1>2. proc'[c].pc = "retire" /\ proc'[c].task = t /\ proc'[c].slot = s
    BY <1>1, Goes DEF TeardownRelease
  <1>3. \A x \in Slot : x # s => slot'[x] = slot[x]
    BY <1>1 DEF TeardownRelease, ReleaseSlot, TypeOK
  <1>4. s = row[t].worktree /\ (proc[c].pc = "kill_unnamed" => ~Running(t))
    BY <1>1 DEF WorkOf, Holds, TeardownSteps
  <1>5. ~window'[t].up
    BY <1>1, <1>4 DEF Running
  <1>6. ASSUME NEW u \in Task
        PROVE  /\ LetGo(u, FALSE) /\ OnBranch(u, FALSE) /\ Known(u, FALSE)
               /\ row[u].worktree # None => row[u].worktree \in Slot
    <2>1. ~Naming(c, u) /\ ~Retires(c, u) /\ ~Hands(c, u)
      BY <1>1 DEF Naming, Retires, Hands, LaunchSteps, LaunchedSteps
    <2>2. QED
      BY <1>1, <2>1, Tables DEF WorkOf, LetGo, OnBranch, Known, Row
  <1>7. Holds(c)'
    BY <1>1, <1>2, <1>4, <1>5 DEF Holds, LaunchedSteps, TeardownSteps, Running
  <1>8. ASSUME NEW u \in Task
        PROVE  LetGo(u, Naming(c, u))' /\ OnBranch(u, Retires(c, u))' /\ Known(u, Hands(c, u))'
    <2>1. LetGo(u, FALSE)'
      BY <1>1, <1>6 DEF LetGo
    <2>2. Known(u, FALSE)'
      BY <1>1, <1>6 DEF Known, OnRecord, Live, HasWindow, Running
    <2>3. OnBranch(u, Retires(c, u))'
      <3>1. CASE u = t
        BY <1>2, <3>1 DEF OnBranch, Retires
      <3>2. CASE u # t
        <4>1. row[u].worktree # None => row[u].worktree # s
          BY <1>4, <3>2 DEF WorkOf, Apart
        <4>2. QED
          BY <1>1, <1>3, <1>6, <4>1 DEF OnBranch
      <3>3. QED
        BY <3>1, <3>2
    <2>4. QED
      BY <2>1, <2>2, <2>3 DEF LetGo, Known
  <1>9. QED
    BY <1>1, <1>7, <1>8 DEF WorkOf, Apart

LEMMA TeardownRecordWork ==
  ASSUME Typed, NEW c \in Spawner, WorkOf(c), TeardownRecord(c), NEW t \in Task, t = proc[c].task
  PROVE  WorkOf(c)'
  <1>1. TypeOK /\ UNCHANGED <<window, slot>> /\ proc[c].pc = "retire"
    BY DEF TeardownRecord, At, Typed
  <1>2. proc'[c].pc = "idle"
    BY <1>1, Tables DEF TeardownRecord, AtRest
  <1>3. proc[c].slot = row[t].worktree /\ ~Running(t)
    BY <1>1 DEF WorkOf, Holds, TeardownSteps
  <1>4. row'[t].worktree = None /\ \A u \in Task : u # t => row'[u] = row[u]
    BY <1>1, <1>3, Tables DEF TeardownRecord, Row
  <1>5. Holds(c)'
    BY <1>2, AsideHolds DEF Aside
  <1>6. Apart'
    BY <1>4 DEF WorkOf, Apart
  <1>7. ASSUME NEW u \in Task
        PROVE  LetGo(u, Naming(c, u))' /\ OnBranch(u, Retires(c, u))' /\ Known(u, Hands(c, u))'
    <2>1. CASE u = t
      BY <1>1, <1>3, <1>4, <2>1 DEF LetGo, OnBranch, Known, Running
    <2>2. CASE u # t
      <3>1. ~Naming(c, u) /\ ~Retires(c, u) /\ ~Hands(c, u)
        BY <1>1, <2>2 DEF Naming, Retires, Hands, LaunchSteps, LaunchedSteps
      <3>2. LetGo(u, FALSE) /\ OnBranch(u, FALSE) /\ Known(u, FALSE)
        BY <3>1 DEF WorkOf, LetGo, OnBranch, Known
      <3>3. QED
        BY <1>1, <1>4, <2>2, <3>2 DEF LetGo, OnBranch, Known, OnRecord, Live, HasWindow, Running
    <2>3. QED
      BY <2>1, <2>2
  <1>8. QED
    BY <1>5, <1>6, <1>7 DEF WorkOf


\* Steps of workers and of what watches over them, while p may be at work.
LEMMA EditsWork ==
  ASSUME Typed, NEW p \in Spawner, WorkOf(p), NEW t \in Task, NEW w, WorkerEdits(t, w)
  PROVE  WorkOf(p)'
  <1>1. TypeOK /\ UNCHANGED <<row, window, proc>> /\ Running(t)
    BY DEF WorkerEdits, Typed
  <1>2. /\ \A x \in Slot : slot'[x].branch = slot[x].branch
        /\ \A x \in Slot : x # window[t].at /\ slot[x].branch = None => slot'[x] = slot[x]
    BY <1>1 DEF WorkerEdits, TypeOK
  <1>3. ASSUME NEW u \in Task
        PROVE  LetGo(u, Naming(p, u))' /\ OnBranch(u, Retires(p, u))' /\ Known(u, Hands(p, u))'
    <2>1. row[u].worktree # None => row[u].worktree \in Slot
      BY <1>1, Tables DEF Row
    <2>2. (Naming(p, u)' <=> Naming(p, u)) /\ (Retires(p, u)' <=> Retires(p, u)) /\ (Hands(p, u)' <=> Hands(p, u))
      BY <1>1 DEF Naming, Retires, Hands
    <2>3. LetGo(u, Naming(p, u)) /\ OnBranch(u, Retires(p, u)) /\ Known(u, Hands(p, u))
      BY DEF WorkOf
    <2>4. LetGo(u, Naming(p, u))' /\ Known(u, Hands(p, u))'
      BY <1>1, <2>2, <2>3 DEF LetGo, Known, OnRecord, Live, HasWindow, Running
    <2>5. OnBranch(u, Retires(p, u))'
      BY <1>1, <1>2, <2>1, <2>2, <2>3 DEF OnBranch
    <2>6. QED
      BY <2>4, <2>5
  <1>4. proc[p].pc = "branch" => window[t].at # proc[p].slot
    <2> SUFFICES ASSUME proc[p].pc = "branch"
                 PROVE  window[t].at # proc[p].slot
      OBVIOUS
    <2>1. Known(t, Hands(p, t)) /\ Nobodys(proc[p].slot) /\ ~HasWindow(proc[p].task)
      BY DEF WorkOf, Holds
    <2>2. QED
      BY <1>1, <2>1 DEF Known, Hands, OnRecord, Nobodys
  <1>5. Holds(p)'
    <2>1. proc[p].pc = "branch" => slot'[proc[p].slot] = slot[proc[p].slot]
      BY <1>2, <1>4 DEF WorkOf, Holds, Nobodys
    <2>2. proc[p].pc \in {"window", "launch", "save"} => slot'[proc[p].slot].branch = slot[proc[p].slot].branch
      BY <1>2 DEF WorkOf, Holds, Nobodys
    <2>3. Holds(p)
      BY DEF WorkOf
    <2>4. QED
      BY <1>1, <2>1, <2>2, <2>3 DEF Holds, HasWindow, Nobodys, Live, Running
  <1>6. QED
    BY <1>1, <1>3, <1>5 DEF WorkOf, Apart

\* One row is written while the spawners stand: neither what it names nor, for a
\* worker that is up, what keeps the sweep away is lost.
LEMMA StandWork ==
  ASSUME Typed, NEW p \in Spawner, WorkOf(p), UNCHANGED <<window, slot, proc>>,
         NEW t \in Task, \A u \in Task : u # t => row'[u] = row[u],
         row'[t].worktree = row[t].worktree, row'[t].named = row[t].named,
         Live(t) => Live(t)',
         row'[t].worktree = None \/ ~Live(t) => row'[t].status = row[t].status \/ Live(t)',
         Running(t) => row'[t].gone = FALSE /\ (row[t].lease # "lapsed" => row'[t].lease # "lapsed")
  PROVE  WorkOf(p)'
  <1>1. ASSUME NEW u \in Task
        PROVE  /\ Naming(p, u)' <=> Naming(p, u)
               /\ Retires(p, u)' <=> Retires(p, u)
               /\ Hands(p, u)' <=> Hands(p, u)
    BY DEF Naming, Retires, Hands
  <1>2. LetGo(t, Naming(p, t))' /\ Known(t, Hands(p, t))'
    <2>1. LetGo(t, Naming(p, t)) /\ Known(t, Hands(p, t))
      BY DEF WorkOf
    <2>2. QED
      BY <1>1, <2>1 DEF LetGo, Known, Running, HasWindow, OnRecord, Live
  <1>3. Holds(p)'
    <2>1. Holds(p)
      BY DEF WorkOf
    <2>2. \A u \in Task : row'[u].worktree = row[u].worktree /\ row'[u].named = row[u].named
      OBVIOUS
    <2>3. \A u \in Task : Live(u) => Live(u)'
      BY DEF Live
    <2>4. \A u \in Task : Running(u) /\ row[u].lease # "lapsed" => row'[u].lease # "lapsed"
      OBVIOUS
    <2>5. proc[p].pc \notin {"idle", "tick"} => proc[p].task \in Task
      BY DEF Typed, AtWork
    <2>6. QED
      BY <2>1, <2>2, <2>3, <2>4, <2>5
         DEF Holds, HasWindow, Nobodys, Running, LaunchedSteps, TeardownSteps
  <1>4. QED
    BY <1>1, <1>2, <1>3, RowWork

LEMMA ReportsWork ==
  ASSUME Typed, NEW p \in Spawner, WorkOf(p), NEW t \in Task, NEW s \in Reported,
         WorkerReports(t, s)
  PROVE  WorkOf(p)'
  <1>1. TypeOK /\ UNCHANGED <<window, slot, proc>>
    BY DEF WorkerReports, Typed
  <1>2. /\ row'[t].status = s /\ row'[t].worktree = row[t].worktree /\ row'[t].gone = FALSE
        /\ row'[t].named = row[t].named /\ row'[t].lease # "lapsed"
        /\ \A u \in Task : u # t => row'[u] = row[u]
    BY <1>1, Tables DEF WorkerReports, Row, Extended, None
  <1>3. Live(t)'
    BY <1>2 DEF Live, Reported, Terminal
  <1>4. QED
    BY <1>1, <1>2, <1>3, StandWork

LEMMA LapsesWork ==
  ASSUME TakeTurns, Typed, NEW p \in Spawner, WorkOf(p), NEW t \in Task,
         LeaseLapses(t) \/ WatchWindowGone(t)
  PROVE  WorkOf(p)'
  <1>1. TypeOK /\ UNCHANGED <<window, slot, proc>>
    BY DEF LeaseLapses, WatchWindowGone, Typed
  <1>2. ~Running(t)
    BY DEF LeaseLapses, WatchWindowGone, TakeTurns, WorkOf, Known
  <1>3. /\ row'[t].status = row[t].status /\ row'[t].worktree = row[t].worktree
        /\ row'[t].named = row[t].named /\ \A u \in Task : u # t => row'[u] = row[u]
    BY <1>1, Tables DEF LeaseLapses, WatchWindowGone, Row
  <1>4. Live(t) => Live(t)'
    BY <1>3 DEF Live
  <1>5. QED
    BY <1>1, <1>2, <1>3, <1>4, StandWork

LEMMA DiesWork ==
  ASSUME Typed, NEW p \in Spawner, WorkOf(p), NEW t \in Task, WorkerDies(t)
  PROVE  WorkOf(p)'
  <1>1. TypeOK /\ UNCHANGED <<row, slot, proc>>
    BY DEF WorkerDies, Typed
  <1>2. /\ window'[t].at = None /\ ~window'[t].up
        /\ \A u \in Task : u # t => window'[u] = window[u]
    BY <1>1 DEF WorkerDies, NoWindow, TypeOK
  <1>3. Holds(p)'
    <2>1. Holds(p)
      BY DEF WorkOf
    <2>2. \A u \in Task : /\ HasWindow(u)' => window'[u] = window[u]
                          /\ Running(u)' => window'[u] = window[u]
      BY <1>2 DEF HasWindow, Running
    <2>3. proc[p].pc \notin {"idle", "tick"} => proc[p].task \in Task
      BY DEF Typed, AtWork
    <2>4. QED
      BY <1>1, <2>1, <2>2, <2>3
         DEF Holds, HasWindow, Nobodys, Running, Live, LaunchedSteps, TeardownSteps
  <1>4. ASSUME NEW u \in Task
        PROVE  LetGo(u, Naming(p, u))' /\ OnBranch(u, Retires(p, u))' /\ Known(u, Hands(p, u))'
    <2>1. (Naming(p, u)' <=> Naming(p, u)) /\ (Retires(p, u)' <=> Retires(p, u)) /\ (Hands(p, u)' <=> Hands(p, u))
      BY <1>1 DEF Naming, Retires, Hands
    <2>2. LetGo(u, Naming(p, u)) /\ OnBranch(u, Retires(p, u)) /\ Known(u, Hands(p, u))
      BY DEF WorkOf
    <2>3. Running(u)' => window'[u] = window[u]
      BY <1>2 DEF Running
    <2>4. LetGo(u, Naming(p, u))' /\ OnBranch(u, Retires(p, u))'
      BY <1>1, <2>1, <2>2 DEF LetGo, OnBranch
    <2>5. Known(u, Hands(p, u))'
      BY <1>1, <2>1, <2>2, <2>3 DEF Known, Running, HasWindow, OnRecord, Live
    <2>6. QED
      BY <2>4, <2>5
  <1>5. QED
    BY <1>1, <1>3, <1>4 DEF WorkOf, Apart

LEMMA ReclaimWork ==
  ASSUME Typed, NEW p \in Spawner, WorkOf(p), Resting(p), NEW t \in Task,
         Reclaim(t), NoneFailed'
  PROVE  WorkOf(p)'
  <1>1. TypeOK /\ UNCHANGED <<window, slot, proc>>
    BY DEF Reclaim, Typed
  <1>2. row' = [row EXCEPT ![t].status = "pending", ![t].lease = None, ![t].retry = @ + 1]
    <2>1. row' # [row EXCEPT ![t].status = "failed", ![t].lease = None]
      BY <1>1, Tables DEF NoneFailed, Row
    <2>2. QED
      BY <2>1 DEF Reclaim
  <1>3. ~Running(t)
    <2>1. ~Hands(p, t) /\ Known(t, Hands(p, t))
      BY DEF WorkOf, Hands, Resting, LaunchSteps, LaunchedSteps
    <2>2. QED
      BY <2>1 DEF Known, OnRecord, Reclaim, Reclaimable
  <1>4. /\ row'[t].status = "pending" /\ row'[t].worktree = row[t].worktree
        /\ row'[t].named = row[t].named /\ \A u \in Task : u # t => row'[u] = row[u]
    BY <1>1, <1>2, Tables DEF Row
  <1>5. Live(t)'
    BY <1>4 DEF Live, Terminal
  <1>6. QED
    BY <1>1, <1>3, <1>4, <1>5, StandWork


\* Only the spawner that takes a step moves.
LEMMA OnlyMine ==
  ASSUME TypeOK, NEW p \in Spawner, NEW q \in Spawner, q # p,
         \/ p \in Daemon /\ DaemonTick(p)
         \/ SpawnStep(p)
         \/ p \in Console /\ ConsoleStep(p)
  PROVE  proc'[q] = proc[q]
  <1>1. CASE p \in Daemon /\ DaemonTick(p)
    BY <1>1, Tables DEF DaemonTick, BeginTick, Claim, EndTick, DispatchFailed
  <1>2. CASE SpawnStep(p)
    BY <1>2, Tables
       DEF SpawnStep, Goto, Failed, Abort, CheckWindow, ReadInUse, Acquire,
           StartBranch, OpenWindow, Launch, Save, ReportActive, GrantLease, Spawned
  <1>3. CASE p \in Console /\ ConsoleStep(p)
    BY <1>3, Tables
       DEF ConsoleStep, Goto, BeginSpawn, SpawnFailed, TeardownBegin, TeardownRelease,
           TeardownRecord
  <1>4. QED
    BY <1>1, <1>2, <1>3

\* A spawner at rest that stays at rest and touches no table disturbs nobody.
LEMMA RestsOn ==
  ASSUME WorkInv, Typed', NEW p \in Spawner, Resting(p), Resting(p)',
         \A q \in Spawner : q # p => proc'[q] = proc[q],
         UNCHANGED <<row, window, slot>>
  PROVE  WorkInv'
  <1>1. Turns'
    BY DEF WorkInv, Turns, Resting
  <1>2. ASSUME NEW q \in Spawner
        PROVE  Holds(q)'
    <2>1. CASE q = p
      BY <2>1 DEF Holds, Resting, LaunchedSteps, TeardownSteps
    <2>2. CASE q # p
      BY <2>2 DEF WorkInv, Holds, HasWindow, Nobodys, Live, Running
    <2>3. QED
      BY <2>1, <2>2
  <1>3. ASSUME NEW t \in Task
        PROVE  /\ LetGo(t, \E q \in Spawner : Naming(q, t))'
               /\ OnBranch(t, \E q \in Spawner : Retires(q, t))'
               /\ Known(t, \E q \in Spawner : Hands(q, t))'
    <2>1. ASSUME NEW q \in Spawner
          PROVE  /\ Naming(q, t) => Naming(q, t)'
                 /\ Retires(q, t) => Retires(q, t)'
                 /\ Hands(q, t) => Hands(q, t)'
      <3>1. CASE q = p
        BY <3>1 DEF Naming, Retires, Hands, Resting, LaunchSteps, LaunchedSteps
      <3>2. CASE q # p
        BY <3>2 DEF Naming, Retires, Hands
      <3>3. QED
        BY <3>1, <3>2
    <2>2. /\ (\E q \in Spawner : Naming(q, t)) => (\E q \in Spawner : Naming(q, t))'
          /\ (\E q \in Spawner : Retires(q, t)) => (\E q \in Spawner : Retires(q, t))'
          /\ (\E q \in Spawner : Hands(q, t)) => (\E q \in Spawner : Hands(q, t))'
      BY <2>1
    <2>3. /\ LetGo(t, \E q \in Spawner : Naming(q, t))
          /\ OnBranch(t, \E q \in Spawner : Retires(q, t))
          /\ Known(t, \E q \in Spawner : Hands(q, t))
      BY DEF WorkInv
    <2>4. QED
      BY <2>2, <2>3 DEF LetGo, OnBranch, Known, OnRecord, Live, HasWindow, Running
  <1>4. QED
    BY <1>1, <1>2, <1>3 DEF WorkInv, Apart

LEMMA WorkInit == Init => WorkInv
  <1> SUFFICES ASSUME Init
               PROVE  WorkInv
    OBVIOUS
  <1>1. Typed
    BY TypeInit
  <1>2. \A p \in Spawner : proc[p].pc = "idle"
    BY DEF Init, AtRest
  <1>3. \A t \in Task : row[t].worktree = None /\ row[t].status = "pending" /\ window[t].up = FALSE
    BY DEF Init, NoWindow
  <1>4. \A p \in Spawner : Holds(p)
    BY <1>2 DEF Holds, LaunchedSteps, TeardownSteps
  <1>5. Turns /\ Apart
    BY <1>2, <1>3 DEF Turns, Resting, Apart
  <1>6. ASSUME NEW t \in Task
        PROVE  /\ LetGo(t, \E p \in Spawner : Naming(p, t))
               /\ OnBranch(t, \E p \in Spawner : Retires(p, t))
               /\ Known(t, \E p \in Spawner : Hands(p, t))
    BY <1>3 DEF LetGo, OnBranch, Known, Running
  <1>7. QED
    BY <1>1, <1>4, <1>5, <1>6 DEF WorkInv

LEMMA RestAlone ==
  ASSUME TakeTurns, Undisturbed, NEW p \in Spawner
  PROVE  Alone(p) /\ Resting(p)
  BY DEF TakeTurns, Undisturbed, Alone, Resting

LEMMA BusyAlone ==
  ASSUME WorkInv, NEW p \in Spawner, ~Resting(p)
  PROVE  Alone(p)
  BY DEF WorkInv, Turns, Alone

LEMMA DaemonWork ==
  ASSUME TakeTurns, WorkInv, Typed', NEW d \in Daemon, DaemonTick(d)
  PROVE  WorkInv'
  <1>1. Typed /\ TypeOK /\ d \in Spawner
    BY DEF WorkInv, Typed, Spawner
  <1>2. \A q \in Spawner : q # d => proc'[q] = proc[q]
    BY <1>1, OnlyMine
  <1>3. Alone(d) => Alone(d)'
    BY <1>2 DEF Alone, Resting
  <1>4. CASE BeginTick(d) \/ EndTick(d)
    <2>1. Resting(d) /\ Resting(d)' /\ UNCHANGED <<row, window, slot>>
      BY <1>1, <1>4, Tables DEF BeginTick, EndTick, Resting, AtRest, Process
    <2>2. QED
      BY <1>1, <1>2, <2>1, RestsOn
  <1>5. ASSUME NEW t \in Task, Claim(d, t)
        PROVE  WorkInv'
    <2>1. Alone(d)
      BY <1>1, <1>5, RestAlone DEF Claim
    <2>2. WorkOf(d)'
      BY <1>1, <1>5, <2>1, AloneAtWork, ClaimWork
    <2>3. QED
      BY <1>1, <1>3, <2>1, <2>2, WorkAlone
  <1>6. CASE DispatchFailed(d)
    <2>1. proc[d].pc \in {"transient", "permanent"}
      BY <1>6, FailureWrites
    <2>2. Alone(d) /\ proc[d].task \in Task
      BY <1>1, <2>1, BusyAlone DEF Resting, Typed, AtWork
    <2>3. PICK t \in Task : t = proc[d].task
      BY <2>2
    <2>4. WorkOf(d)'
      BY <1>1, <1>6, <2>2, <2>3, AloneAtWork, FailedWork
    <2>5. QED
      BY <1>1, <1>3, <2>2, <2>4, WorkAlone
  <1>7. QED
    BY <1>4, <1>5, <1>6 DEF DaemonTick

LEMMA SpawnWork ==
  ASSUME TakeTurns, WorkInv, Typed', NEW p \in Spawner, SpawnStep(p)
  PROVE  WorkInv'
  <1>1. Typed /\ TypeOK /\ \A q \in Spawner : q # p => proc'[q] = proc[q]
    BY OnlyMine DEF WorkInv, Typed
  <1>2. proc[p].pc \notin {"idle", "tick"}
    BY DEF SpawnStep, At, CheckWindow, ReadInUse, Acquire, StartBranch,
           OpenWindow, Launch, Save, ReportActive, GrantLease, Spawned
  <1>3. Alone(p) /\ Alone(p)' /\ proc[p].task \in Task
    <2>1. Alone(p)
      BY <1>2, BusyAlone DEF Resting
    <2>2. QED
      BY <1>1, <1>2, <2>1 DEF Alone, Resting, Typed, AtWork
  <1>4. WorkOf(p)
    BY <1>3, AloneAtWork
  <1>5. PICK t \in Task : t = proc[p].task
    BY <1>3
  <1>6. CASE \/ CheckWindow(p) \/ ReadInUse(p) \/ Acquire(p) \/ StartBranch(p)
             \/ OpenWindow(p) \/ Launch(p) \/ Save(p)
    <2>1. WorkOf(p)'
      BY <1>1, <1>4, <1>6, CheckWork, ReadInUseWork, AcquireWork, StartBranchWork,
         OpenWindowWork, LaunchWork, SaveWork
    <2>2. QED
      BY <1>3, <2>1, WorkAlone
  <1>7. CASE ReportActive(p) \/ GrantLease(p) \/ Spawned(p)
    <2>1. WorkOf(p)'
      BY <1>1, <1>4, <1>5, <1>7, ReportWork, LeaseWork, SpawnedWork
    <2>2. QED
      BY <1>3, <2>1, WorkAlone
  <1>8. QED
    BY <1>6, <1>7 DEF SpawnStep

LEMMA ConsoleWork ==
  ASSUME TakeTurns, WorkInv, Typed', NEW c \in Console, ConsoleStep(c)
  PROVE  WorkInv'
  <1>1. Typed /\ TypeOK /\ c \in Spawner
    BY DEF WorkInv, Typed, Spawner
  <1>2. \A q \in Spawner : q # c => proc'[q] = proc[q]
    BY <1>1, OnlyMine
  <1>3. Alone(c) => Alone(c)'
    BY <1>2 DEF Alone, Resting
  <1>4. ASSUME NEW t \in Task, BeginSpawn(c, t)
        PROVE  WorkInv'
    <2>1. Alone(c)
      BY <1>1, <1>4, RestAlone DEF BeginSpawn
    <2>2. /\ proc[c].pc = "idle" /\ proc'[c].pc = "check"
          /\ UNCHANGED <<row, window, slot>>
      BY <1>1, <1>4, Tables DEF BeginSpawn, AtRest
    <2>3. WorkOf(c)'
      BY <1>1, <2>1, <2>2, AloneAtWork, KeepsTables DEF Aside
    <2>4. QED
      BY <1>1, <1>3, <2>1, <2>3, WorkAlone
  <1>5. CASE SpawnFailed(c)
    <2>1. /\ proc[c].pc \in {"transient", "permanent"} /\ proc'[c].pc = "idle"
          /\ UNCHANGED <<row, window, slot>>
      BY <1>1, <1>5, Tables DEF SpawnFailed, At, AtRest
    <2>2. Alone(c)
      BY <1>1, <2>1, BusyAlone DEF Resting
    <2>3. WorkOf(c)'
      BY <1>1, <2>1, <2>2, AloneAtWork, KeepsTables DEF Aside
    <2>4. QED
      BY <1>1, <1>3, <2>2, <2>3, WorkAlone
  <1>6. ASSUME NEW t \in Task, NEW force \in BOOLEAN, TeardownBegin(c, t, force)
        PROVE  WorkInv'
    <2>1. Alone(c)
      BY <1>1, <1>6, RestAlone DEF TeardownBegin
    <2>2. WorkOf(c)'
      BY <1>1, <1>6, <2>1, AloneAtWork, TeardownBeginWork
    <2>3. QED
      BY <1>1, <1>3, <2>1, <2>2, WorkAlone
  <1>7. CASE TeardownRelease(c) \/ TeardownRecord(c)
    <2>1. proc[c].pc \in TeardownSteps
      BY <1>7 DEF TeardownRelease, TeardownRecord, KillNamed, At, TeardownSteps
    <2>2. Alone(c) /\ proc[c].task \in Task
      BY <1>1, <2>1, BusyAlone DEF Resting, TeardownSteps, Typed, AtWork
    <2>3. PICK t \in Task : t = proc[c].task
      BY <2>2
    <2>4. WorkOf(c)
      BY <1>1, <2>2, AloneAtWork
    <2>5. WorkOf(c)'
      BY <1>1, <1>7, <2>3, <2>4, TeardownReleaseWork, TeardownRecordWork
    <2>6. QED
      BY <1>1, <1>3, <2>2, <2>5, WorkAlone
  <1>8. QED
    BY <1>4, <1>5, <1>6, <1>7 DEF ConsoleStep

LEMMA TaskWork ==
  ASSUME TakeTurns, WorkInv, Typed', Spawner # {}, NoneFailed', NEW t \in Task,
         WorkerStep(t) \/ WatchStep(t)
  PROVE  WorkInv'
  <1>1. Typed /\ UNCHANGED proc
    BY DEF WorkInv, WorkerStep, WatchStep, WorkerEdits, WorkerReports, WorkerDies,
           LeaseLapses, WatchWindowGone, Reclaim
  <1>2. PICK p \in Spawner : Alone(p)
    <2>1. CASE \A q \in Spawner : Resting(q)
      BY <2>1 DEF Alone
    <2>2. CASE \E q \in Spawner : ~Resting(q)
      BY <2>2, BusyAlone
    <2>3. QED
      BY <2>1, <2>2
  <1>3. Alone(p)' /\ WorkOf(p)
    BY <1>1, <1>2, AloneAtWork DEF Alone, Resting
  <1>4. CASE \E w \in {"edits", "commits"} : WorkerEdits(t, w)
    BY <1>1, <1>3, <1>4, EditsWork, WorkAlone
  <1>5. CASE \E s \in Reported : WorkerReports(t, s)
    BY <1>1, <1>3, <1>5, ReportsWork, WorkAlone
  <1>6. CASE WorkerDies(t)
    BY <1>1, <1>3, <1>6, DiesWork, WorkAlone
  <1>7. CASE LeaseLapses(t) \/ WatchWindowGone(t)
    BY <1>1, <1>3, <1>7, LapsesWork, WorkAlone
  <1>8. CASE Reclaim(t)
    <2>1. Resting(p)
      BY <1>8, RestAlone DEF Reclaim
    <2>2. QED
      BY <1>1, <1>3, <1>8, <2>1, ReclaimWork, WorkAlone
  <1>9. QED
    BY <1>4, <1>5, <1>6, <1>7, <1>8 DEF WorkerStep, WatchStep

LEMMA WorkNext ==
  ASSUME TakeTurns, Spawner # {}, WorkInv, NoneFailed', [Next]_vars
  PROVE  WorkInv'
  <1>1. Typed'
    BY TypeNext DEF WorkInv
  <1>2. CASE UNCHANGED vars
    <2>1. PICK p \in Spawner : TRUE
      OBVIOUS
    <2>2. PICK q \in Spawner : Alone(q)
      <3>1. CASE \A r \in Spawner : Resting(r)
        BY <2>1, <3>1 DEF Alone
      <3>2. CASE \E r \in Spawner : ~Resting(r)
        BY <3>2, BusyAlone
      <3>3. QED
        BY <3>1, <3>2
    <2>3. WorkOf(q)
      BY <2>2, AloneAtWork
    <2>4. Alone(q)' /\ WorkOf(q)'
      BY <1>2, <2>2, <2>3
         DEF vars, Alone, Resting, WorkOf, Apart, Holds, HasWindow, Nobodys, Live, Running,
             LetGo, OnBranch, Known, OnRecord, Naming, Retires, Hands
    <2>5. QED
      BY <1>1, <2>4, WorkAlone
  <1>3. ASSUME NEW d \in Daemon, DaemonTick(d)
        PROVE  WorkInv'
    BY <1>1, <1>3, DaemonWork
  <1>4. ASSUME NEW p \in Spawner, SpawnStep(p)
        PROVE  WorkInv'
    BY <1>1, <1>4, SpawnWork
  <1>5. ASSUME NEW p \in Spawner, Crash(p)
        PROVE  FALSE
    BY <1>5 DEF Crash, TakeTurns, WorkInv, Typed, TypeOK
  <1>6. ASSUME NEW c \in Console, ConsoleStep(c)
        PROVE  WorkInv'
    BY <1>1, <1>6, ConsoleWork
  <1>7. ASSUME NEW t \in Task, WorkerStep(t) \/ WatchStep(t)
        PROVE  WorkInv'
    BY <1>1, <1>7, TaskWork
  <1>8. QED
    BY <1>2, <1>3, <1>4, <1>5, <1>6, <1>7 DEF Next


LEMMA WorkRecorded == WorkInv => WorktreeRecorded
  <1> SUFFICES ASSUME WorkInv, NEW t \in Task, Running(t)
               PROVE  /\ slot[window[t].at].branch = t
                      /\ ~InFlight(t) => row[t].worktree = window[t].at
    BY DEF WorktreeRecorded
  <1>1. Known(t, \E p \in Spawner : Hands(p, t)) /\ OnBranch(t, \E p \in Spawner : Retires(p, t))
    BY DEF WorkInv
  <1>2. CASE OnRecord(t)
    <2>1. ASSUME NEW p \in Spawner
          PROVE  ~Retires(p, t)
      BY DEF WorkInv, Holds, Retires
    <2>2. row[t].worktree # None
      BY <1>1, <1>2 DEF Known, OnRecord, HasWindow
    <2>3. QED
      BY <1>1, <1>2, <2>1, <2>2 DEF OnBranch, OnRecord
  <1>3. ASSUME NEW p \in Spawner, Hands(p, t)
        PROVE  slot[window[t].at].branch = t /\ InFlight(t)
    <2>1. proc[p].task = t /\ HasWindow(t) /\ Holds(p)
      BY <1>1, <1>3 DEF Known, WorkInv, Hands
    <2>2. InFlight(t)
      BY <1>3 DEF InFlight, Spawning, Hands, LaunchSteps, LaunchedSteps, TeardownSteps
    <2>3. proc[p].pc \in {"launch", "save", "report", "lease", "event"} /\ window[t].at = proc[p].slot
      BY <1>3, <2>1 DEF Holds, Hands, LaunchSteps, LaunchedSteps
    <2>4. CASE proc[p].pc \in {"launch", "save"}
      BY <2>1, <2>2, <2>3, <2>4 DEF Holds
    <2>5. CASE proc[p].pc \in {"report", "lease", "event"}
      <3>1. row[t].worktree = proc[p].slot /\ row[t].worktree # None
        BY <2>1, <2>5, NoneIsNobody DEF Holds
      <3>2. ASSUME NEW q \in Spawner
            PROVE  ~Retires(q, t)
        BY <2>1, <2>5 DEF WorkInv, Turns, Resting, Retires
      <3>3. QED
        BY <1>1, <2>2, <2>3, <3>1, <3>2 DEF OnBranch
    <2>6. QED
      BY <2>3, <2>4, <2>5
  <1>4. QED
    BY <1>1, <1>2, <1>3 DEF Known

\* Work goes from a slot only in the hands of who releases it.
LEMMA WorkStays ==
  ASSUME WorkInv, [Next]_vars, NEW s \in Slot, slot[s].work # "none", slot'[s].work = "none"
  PROVE  \E p \in Spawner : proc[p].slot = s /\ proc[p].task = slot[s].branch
  <1>1. Typed /\ TypeOK
    BY DEF WorkInv, Typed
  <1>2. \E p \in Spawner : /\ \/ Acquire(p) \/ StartBranch(p) \/ OpenWindow(p) \/ Launch(p) \/ Save(p)
                              \/ ReportActive(p)
                              \/ p \in Console /\ TeardownRelease(p)
                           /\ slot'[s] # slot[s]
    <2>1. ASSUME NEW t \in Task, NEW w \in {"edits", "commits"}, WorkerEdits(t, w)
          PROVE  slot'[s].work # "none"
      BY <1>1, <2>1 DEF WorkerEdits, TypeOK
    <2>2. slot' # slot /\ slot'[s] # slot[s]
      OBVIOUS
    <2>3. QED
      BY <2>1, <2>2
         DEF Next, DaemonTick, SpawnStep, ConsoleStep, WorkerStep, WatchStep, vars, BeginTick, Claim,
             EndTick, DispatchFailed, CheckWindow, ReadInUse, GrantLease, Spawned, Crash, BeginSpawn,
             SpawnFailed, TeardownBegin, TeardownRecord, WorkerReports, WorkerDies, LeaseLapses,
             WatchWindowGone, Reclaim, Spawner
  <1>3. PICK p \in Spawner : /\ \/ Acquire(p) \/ StartBranch(p) \/ OpenWindow(p) \/ Launch(p) \/ Save(p)
                                \/ ReportActive(p)
                                \/ p \in Console /\ TeardownRelease(p)
                             /\ slot'[s] # slot[s]
    BY <1>2
  <1>4. Holds(p) /\ (proc[p].pc \notin {"idle", "tick"} => proc[p].task \in Task)
    BY <1>1 DEF WorkInv, Typed, AtWork
  <1>5. CASE Acquire(p)
    <2>1. PICK x \in FreeSlot(p) : slot' = [slot EXCEPT ![x].branch = None]
      BY <1>3, <1>5 DEF Acquire
    <2>2. slot'[s].work = slot[s].work
      BY <1>1, <2>1 DEF TypeOK
    <2>3. QED
      BY <2>2
  <1>6. \A x : ReleaseSlot(x) => x = s
    BY <1>1, <1>3 DEF ReleaseSlot, TypeOK
  <1>7. CASE StartBranch(p)
    <2>1. proc[p].slot = s
      <3>1. \/ slot' = [slot EXCEPT ![proc[p].slot] = [branch |-> proc[p].task, work |-> "none"]]
            \/ ReleaseSlot(proc[p].slot)
        BY <1>7 DEF StartBranch
      <3>2. QED
        BY <1>1, <1>3, <1>6, <3>1 DEF TypeOK
    <2>2. slot[s].work = "none"
      BY <1>4, <1>7, <2>1 DEF StartBranch, At, Holds
    <2>3. QED
      BY <2>2
  <1>8. CASE OpenWindow(p) \/ Launch(p) \/ Save(p) \/ ReportActive(p)
    <2>1. ReleaseSlot(proc[p].slot) /\ proc[p].pc \in {"window", "launch", "save", "report"}
      BY <1>3, <1>8 DEF OpenWindow, Launch, Save, ReportActive, Abort, At
    <2>2. proc[p].slot = s
      BY <1>6, <2>1
    <2>3. CASE proc[p].pc \in {"window", "launch", "save"}
      BY <1>4, <2>2, <2>3 DEF Holds
    <2>4. CASE proc[p].pc = "report"
      <3>1. row[proc[p].task].worktree = s /\ s # None
        BY <1>4, <2>2, <2>4, NoneIsNobody DEF Holds
      <3>2. ASSUME NEW q \in Spawner
            PROVE  ~Retires(q, proc[p].task)
        BY <2>4 DEF WorkInv, Turns, Resting, Retires
      <3>3. proc[p].task \in Task
        BY <1>4, <2>4
      <3>4. slot[s].branch = proc[p].task
        BY <3>1, <3>2, <3>3 DEF WorkInv, OnBranch
      <3>5. QED
        BY <2>2, <3>4
    <2>5. QED
      BY <2>1, <2>3, <2>4
  <1>9. CASE TeardownRelease(p)
    <2>1. ReleaseSlot(proc[p].slot) /\ proc[p].pc \in {"kill", "kill_unnamed"}
      BY <1>3, <1>9 DEF TeardownRelease, KillNamed, At
    <2>2. proc[p].slot = s
      BY <1>6, <2>1
    <2>3. row[proc[p].task].worktree = s /\ s # None /\ proc[p].task \in Task
      BY <1>4, <2>1, <2>2, NoneIsNobody DEF Holds, TeardownSteps
    <2>4. ASSUME NEW q \in Spawner
          PROVE  ~Retires(q, proc[p].task)
      BY <2>1 DEF WorkInv, Turns, Resting, Retires
    <2>5. slot[s].branch = proc[p].task
      BY <2>3, <2>4 DEF WorkInv, OnBranch
    <2>6. QED
      BY <2>2, <2>5
  <1>10. QED
    BY <1>3, <1>5, <1>7, <1>8, <1>9

\* A worker that is up is in the slot its row names, on its own task's branch,
\* for any number of daemons, consoles, tasks, slots, retries and deaths.
THEOREM WorktreeRecordedInTurn ==
  ASSUME TakeTurns, Spawner # {}
  PROVE  Spec /\ []NoneFailed => []WorktreeRecorded
  <1>1. Init => WorkInv
    BY WorkInit
  <1>2. WorkInv /\ NoneFailed' /\ [Next]_vars => WorkInv'
    BY WorkNext
  <1>3. WorkInv => WorktreeRecorded
    BY WorkRecorded
  <1>4. QED
    BY <1>1, <1>2, <1>3, PTL DEF Spec

\* And the work in a slot is let go only by the spawn or the teardown of the task
\* whose branch it is on.
THEOREM WorkKeptInTurn ==
  ASSUME TakeTurns, Spawner # {}
  PROVE  Spec /\ []NoneFailed => WorkKept
  <1>1. Init => WorkInv
    BY WorkInit
  <1>2. WorkInv /\ NoneFailed' /\ [Next]_vars => WorkInv'
    BY WorkNext
  <1>3. WorkInv /\ [Next]_vars =>
          [\A s \in Slot :
             slot[s].work # "none" /\ slot'[s].work = "none"
               => \E p \in Spawner : proc[p].slot = s /\ proc[p].task = slot[s].branch]_vars
    BY WorkStays
  <1>4. QED
    BY <1>1, <1>2, <1>3, PTL DEF Spec, WorkKept

--------------------------------------------------------------------------------
(***************************************************************************)
(* Clones: the reading of HEAD.  ttorch reads a clone's files one at a     *)
(* time while the worker's git rewrites them.  What is proved of a reading *)
(* (EyeOk) is that it never takes a commit that was not at HEAD since it   *)
(* began, and of the worker's git (Gently) is all that this rests on: a    *)
(* branch that is not HEAD's stays at its commit or goes, and packed-refs  *)
(* only takes branches as they are.                                        *)
(***************************************************************************)
F == INSTANCE CloneFiles WITH None <- NoId

FilesShape(f) ==
  /\ f = [dir |-> f.dir, head |-> f.head, loose |-> f.loose, packed |-> f.packed]
  /\ f.head \in F!Branch
  /\ f.loose = [b \in F!Branch |-> f.loose[b]]
  /\ f.packed = [b \in F!Branch |-> f.packed[b]]

\* The commit a branch is at.
Val(f, b) == IF f.loose[b] # NoId THEN f.loose[b] ELSE f.packed[b]

EyeShape(e) == e = [at |-> e.at, ref |-> e.ref, tip |-> e.tip, seen |-> e.seen]
               /\ e.at \in {"shut", "dir", "head", "loose", "packed", "done"}

\* A reading has seen HEAD's commit; from the file it is at it will take a commit it
\* has seen at HEAD, or none.
EyeOk(e, f) ==
  /\ EyeShape(e)
  /\ F!Watching(e) => F!HeadOf(f) \in e.seen
  /\ e.at \in {"loose", "packed"} => e.ref \in F!Branch /\ Val(f, e.ref) \in e.seen \cup {NoId}
  /\ e.at = "packed" => f.packed[e.ref] \in e.seen \cup {NoId}
  /\ e.at = "done" => e.tip \in e.seen \cup {NoId}

\* What git and ttorch do to the files between two reads: another branch than HEAD's
\* stays at its commit or goes, and packed-refs takes branches as they are.
Gently(f, g) ==
  \A b \in F!Branch : /\ Val(g, b) = Val(f, b) \/ b = g.head \/ Val(g, b) = NoId
                      /\ g.packed[b] \in {f.packed[b], Val(f, b), NoId}

LEMMA HeadsValue == \A f : F!HeadOf(f) = Val(f, f.head)
  BY DEF F!HeadOf, Val

LEMMA EyeFields ==
  ASSUME NEW a, NEW r, NEW t, NEW s, NEW x, NEW c
  PROVE  [[at |-> a, ref |-> r, tip |-> t, seen |-> s] EXCEPT !.at = x, !.tip = c]
           = [at |-> x, ref |-> r, tip |-> c, seen |-> s]
<1>1. [[at |-> a, ref |-> r, tip |-> t, seen |-> s] EXCEPT !.at = x] = [at |-> x, ref |-> r, tip |-> t, seen |-> s]
  OBVIOUS
<1>2. [[at |-> x, ref |-> r, tip |-> t, seen |-> s] EXCEPT !.tip = c] = [at |-> x, ref |-> r, tip |-> c, seen |-> s]
  OBVIOUS
<1> QED BY <1>1, <1>2

LEMMA FoundFields ==
  ASSUME NEW e, EyeShape(e), NEW c
  PROVE  F!Found(e, c) = [at |-> "done", ref |-> e.ref, tip |-> c, seen |-> e.seen]
<1>1. F!Found(e, c) = [e EXCEPT !.at = "done", !.tip = c]
  BY DEF F!Found
<1>2. e = [at |-> e.at, ref |-> e.ref, tip |-> e.tip, seen |-> e.seen]
  BY DEF EyeShape
<1> DEFINE a == e.at  r == e.ref  t == e.tip  s == e.seen
<1>3. e = [at |-> a, ref |-> r, tip |-> t, seen |-> s]
  BY <1>2
<1> HIDE DEF a, r, t, s
<1>4. F!Found(e, c) = [at |-> "done", ref |-> r, tip |-> c, seen |-> s]
  BY <1>1, <1>3, EyeFields, Zenon
<1> QED BY <1>4 DEF r, s

LEMMA ShutIsOk == \A f : EyeOk(F!Shut, f)
<1>1. EyeShape(F!Shut) /\ F!Shut.at = "shut"
  BY DEF F!Shut, EyeShape
<1> QED BY <1>1 DEF EyeOk, F!Watching

LEMMA OpenedIsOk == ASSUME NEW f PROVE EyeOk(F!Opened(f), f)
<1> DEFINE s == {F!HeadOf(f)}
<1>0. F!Opened(f) = [at |-> "dir", ref |-> NoId, tip |-> NoId, seen |-> s]
  <2>1. F!Opened(f) = [[at |-> "shut", ref |-> NoId, tip |-> NoId, seen |-> {}] EXCEPT !.at = "dir", !.seen = s]
    BY DEF F!Opened, F!Shut
  <2> HIDE DEF s
  <2> QED BY <2>1
<1>1. EyeShape(F!Opened(f)) /\ F!Opened(f).at = "dir" /\ F!Opened(f).seen = {F!HeadOf(f)}
  <2> HIDE DEF s
  <2>1. EyeShape(F!Opened(f)) /\ F!Opened(f).at = "dir" /\ F!Opened(f).seen = s
    BY <1>0 DEF EyeShape
  <2> QED BY <2>1 DEF s
<1> QED BY <1>1 DEF EyeOk, F!Watching

LEMMA RefusedIsOk ==
  ASSUME NEW e, NEW f, EyeOk(e, f) PROVE EyeOk(F!Refused(e), f)
<1>1. /\ EyeShape(F!Refused(e)) /\ F!Refused(e).at = "done" /\ F!Refused(e).tip = NoId
      /\ F!Refused(e).seen = e.seen
  <2>2. F!Refused(e) = [at |-> "done", ref |-> e.ref, tip |-> NoId, seen |-> e.seen]
    BY FoundFields DEF F!Refused, EyeOk
  <2> QED BY <2>2 DEF EyeShape
<1> QED BY <1>1 DEF EyeOk, F!Watching

LEMMA FoundIsOk ==
  ASSUME NEW e, NEW f, NEW c \in e.seen \cup {NoId}, EyeOk(e, f) PROVE EyeOk(F!Found(e, c), f)
<1>1. /\ EyeShape(F!Found(e, c)) /\ F!Found(e, c).at = "done" /\ F!Found(e, c).tip = c
      /\ F!Found(e, c).seen = e.seen
  <2>2. F!Found(e, c) = [at |-> "done", ref |-> e.ref, tip |-> c, seen |-> e.seen]
    BY FoundFields DEF EyeOk
  <2> QED BY <2>2 DEF EyeShape
<1> QED BY <1>1 DEF EyeOk, F!Watching

\* The next read keeps it so.
LEMMA LooksIsOk ==
  ASSUME NEW e, NEW f, FilesShape(f), EyeOk(e, f), F!Watching(e)
  PROVE  EyeOk(F!Looks(e, f), f)
<1>0. /\ e = [at |-> e.at, ref |-> e.ref, tip |-> e.tip, seen |-> e.seen]
      /\ e.at \in {"dir", "head", "loose", "packed"}
      /\ F!HeadOf(f) \in e.seen
  BY DEF EyeOk, EyeShape, F!Watching
<1>1. CASE e.at = "dir"
  <2>1. F!Looks(e, f) = F!Locates(e, f)
    BY <1>1 DEF F!Looks
  <2>2. CASE F!HasGit(f)
    <3>1. F!Looks(e, f) = [at |-> "head", ref |-> e.ref, tip |-> e.tip, seen |-> e.seen]
      BY <1>0, <2>1, <2>2 DEF F!Locates
    <3> QED BY <1>0, <3>1 DEF EyeOk, EyeShape, F!Watching
  <2> QED BY <2>1, <2>2, RefusedIsOk DEF F!Locates
<1>2. CASE e.at = "head"
  <2>1. F!Looks(e, f) = F!LooksAtHead(e, f)
    BY <1>2 DEF F!Looks
  <2>2. CASE F!HasGit(f)
    <3>1. F!Looks(e, f) = [at |-> "loose", ref |-> f.head, tip |-> e.tip, seen |-> e.seen]
      BY <1>0, <2>1, <2>2 DEF F!LooksAtHead
    <3>2. Val(f, f.head) \in e.seen /\ f.head \in F!Branch
      BY <1>0, HeadsValue DEF FilesShape
    <3> QED BY <1>0, <3>1, <3>2 DEF EyeOk, EyeShape, F!Watching
  <2> QED BY <2>1, <2>2, RefusedIsOk DEF F!LooksAtHead
<1>3. CASE e.at = "loose"
  <2>1. e.ref \in F!Branch /\ Val(f, e.ref) \in e.seen \cup {NoId}
    BY <1>3 DEF EyeOk
  <2>2. CASE f.loose[e.ref] # NoId
    <3>1. F!Looks(e, f) = F!Found(e, f.loose[e.ref]) /\ f.loose[e.ref] = Val(f, e.ref)
      BY <1>3, <2>2 DEF F!Looks, Val
    <3> QED BY <2>1, <3>1, FoundIsOk
  <2>3. CASE f.loose[e.ref] = NoId
    <3>1. F!Looks(e, f) = [at |-> "packed", ref |-> e.ref, tip |-> e.tip, seen |-> e.seen]
      BY <1>0, <1>3, <2>3 DEF F!Looks
    <3>2. f.packed[e.ref] = Val(f, e.ref)
      BY <2>3 DEF Val
    <3> QED BY <1>0, <2>1, <3>1, <3>2 DEF EyeOk, EyeShape, F!Watching
  <2> QED BY <2>2, <2>3
<1>4. CASE e.at = "packed"
  <2>1. F!Looks(e, f) = F!Found(e, f.packed[e.ref])
    BY <1>4 DEF F!Looks, F!LooksAtPacked
  <2>2. f.packed[e.ref] \in e.seen \cup {NoId}
    BY <1>4 DEF EyeOk
  <2> QED BY <2>1, <2>2, FoundIsOk
<1> QED BY <1>0, <1>1, <1>2, <1>3, <1>4

\* A read adds nothing to what was at HEAD.
LEMMA SeenStays ==
  ASSUME NEW e, NEW f, EyeShape(e)
  PROVE  F!Refused(e).seen = e.seen /\ (F!Watching(e) => F!Looks(e, f).seen = e.seen)
<1>0. e = [at |-> e.at, ref |-> e.ref, tip |-> e.tip, seen |-> e.seen]
  BY DEF EyeShape
<1>1. \A c : F!Found(e, c).seen = e.seen
  BY FoundFields
<1>2. F!Refused(e).seen = e.seen
  BY <1>1 DEF F!Refused
<1>3. \A x : [e EXCEPT !.at = x].seen = e.seen
  BY <1>0
<1>4. \A x, r : [e EXCEPT !.at = x, !.ref = r].seen = e.seen
  BY <1>0
<1>5. F!Locates(e, f).seen = e.seen /\ F!LooksAtHead(e, f).seen = e.seen /\ F!LooksAtPacked(e, f).seen = e.seen
  BY <1>1, <1>2, <1>3, <1>4 DEF F!Locates, F!LooksAtHead, F!LooksAtPacked
<1>6. ASSUME F!Watching(e) PROVE F!Looks(e, f).seen = e.seen
  <2>1. e.at \in {"dir", "head", "loose", "packed"}
    BY <1>6 DEF EyeShape, F!Watching
  <2>2. CASE e.at = "dir"
    BY <1>5, <2>2 DEF F!Looks
  <2>3. CASE e.at = "head"
    BY <1>5, <2>3 DEF F!Looks
  <2>4. CASE e.at = "loose"
    BY <1>1, <1>3, <2>4 DEF F!Looks
  <2>5. CASE e.at = "packed"
    BY <1>5, <2>5 DEF F!Looks
  <2> QED BY <2>1, <2>2, <2>3, <2>4, <2>5
<1> QED BY <1>2, <1>6

\* So does whatever happens to the files meanwhile.
LEMMA WatchedIsOk ==
  ASSUME NEW e, NEW f, NEW g, EyeOk(e, f), FilesShape(g), Gently(f, g)
  PROVE  EyeOk(F!Watched(e, g), g)
<1>0. e = [at |-> e.at, ref |-> e.ref, tip |-> e.tip, seen |-> e.seen] /\ EyeShape(e)
  BY DEF EyeOk, EyeShape
<1>1. CASE ~F!Watching(e)
  BY <1>1 DEF EyeOk, F!Watched, F!Watching
<1>2. CASE F!Watching(e)
  <2> DEFINE s == e.seen \cup {F!HeadOf(g)}
  <2>1. F!Watched(e, g) = [at |-> e.at, ref |-> e.ref, tip |-> e.tip, seen |-> s]
    BY <1>0, <1>2 DEF F!Watched
  <2>2. ASSUME e.at \in {"loose", "packed"}
        PROVE  e.ref \in F!Branch /\ Val(g, e.ref) \in s \cup {NoId}
    <3>1. e.ref \in F!Branch /\ Val(f, e.ref) \in e.seen \cup {NoId}
      BY <2>2 DEF EyeOk
    <3>2. Val(g, e.ref) = Val(f, e.ref) \/ e.ref = g.head \/ Val(g, e.ref) = NoId
      BY <3>1 DEF Gently
    <3> QED BY <3>1, <3>2, HeadsValue
  <2>3. ASSUME e.at = "packed" PROVE g.packed[e.ref] \in s \cup {NoId}
    <3>1. e.ref \in F!Branch /\ Val(f, e.ref) \in e.seen \cup {NoId} /\ f.packed[e.ref] \in e.seen \cup {NoId}
      BY <2>3 DEF EyeOk
    <3>2. g.packed[e.ref] \in {f.packed[e.ref], Val(f, e.ref), NoId}
      BY <3>1 DEF Gently
    <3> QED BY <3>1, <3>2
  <2>4. F!HeadOf(g) \in s
    OBVIOUS
  <2> HIDE DEF s
  <2>5. e.at # "done" /\ e.at # "shut"
    BY <1>2 DEF F!Watching
  <2> QED BY <1>0, <2>1, <2>2, <2>3, <2>4, <2>5 DEF EyeOk, EyeShape, F!Watching
<1> QED BY <1>1, <1>2

LEMMA CommittedGently ==
  ASSUME NEW f, FilesShape(f), NEW c
  PROVE  /\ FilesShape(F!Committed(f, c)) /\ Gently(f, F!Committed(f, c))
         /\ F!Committed(f, c).dir = f.dir /\ F!Committed(f, c).head = f.head
         /\ F!Committed(f, c).packed = f.packed
         /\ F!Committed(f, c).loose = [f.loose EXCEPT ![f.head] = c]
<1> DEFINE g == [dir |-> f.dir, head |-> f.head, loose |-> [f.loose EXCEPT ![f.head] = c], packed |-> f.packed]
<1>1. F!Committed(f, c) = g
  BY DEF F!Committed, FilesShape
<1>2. FilesShape(g)
  BY DEF FilesShape
<1>3. Gently(f, g)
  BY DEF FilesShape, Gently, Val
<1> QED BY <1>1, <1>2, <1>3

LEMMA SwitchedGently ==
  ASSUME NEW f, FilesShape(f), NEW base
  PROVE  LET g == F!Switched(f, base) IN
         /\ FilesShape(g) /\ Gently(f, g)
         /\ g.dir = f.dir /\ g.packed = f.packed
         /\ \A b \in F!Branch : g.loose[b] = f.loose[b] \/ g.loose[b] = base
         /\ F!HeadOf(g) # NoId \/ F!HeadOf(g) = base
<1> DEFINE h == CHOOSE x \in F!Branch : x # f.head
           g == [f EXCEPT !.head = h]
           k == [g EXCEPT !.loose[h] = base]
<1>1. h \in F!Branch
  BY DEF F!Branch
<1> HIDE DEF h
<1>2. g = [dir |-> f.dir, head |-> h, loose |-> f.loose, packed |-> f.packed]
  BY DEF FilesShape
<1> HIDE DEF g
<1>3. k = [dir |-> f.dir, head |-> h, loose |-> [f.loose EXCEPT ![h] = base], packed |-> f.packed]
  BY <1>2 DEF FilesShape
<1> HIDE DEF k
<1>4. F!Switched(f, base) = IF F!HeadOf(g) = NoId THEN k ELSE g
  BY DEF F!Switched, k, g, h
<1>5. /\ FilesShape(g) /\ Gently(f, g) /\ g.dir = f.dir /\ g.packed = f.packed /\ g.loose = f.loose
  BY <1>1, <1>2 DEF FilesShape, Gently, Val
<1>6. /\ FilesShape(k) /\ Gently(f, k) /\ k.dir = f.dir /\ k.packed = f.packed
  BY <1>1, <1>3 DEF FilesShape, Gently, Val
<1>7. \A b \in F!Branch : k.loose[b] = f.loose[b] \/ k.loose[b] = base
  BY <1>1, <1>3 DEF FilesShape
<1>8. F!HeadOf(g) = NoId => F!HeadOf(k) = base
  <2>1. SUFFICES ASSUME F!HeadOf(g) = NoId PROVE F!HeadOf(k) = base
    OBVIOUS
  <2>2. f.packed[h] = NoId
    BY <1>2, <2>1 DEF F!HeadOf
  <2>3. k.loose[h] = base /\ k.packed[h] = NoId /\ k.head = h
    BY <1>1, <1>3, <2>2 DEF FilesShape
  <2> QED BY <2>3 DEF F!HeadOf
<1> QED BY <1>4, <1>5, <1>6, <1>7, <1>8

LEMMA PackedGently ==
  ASSUME NEW f, FilesShape(f)
  PROVE  LET g == F!Packed(f) IN
         /\ FilesShape(g) /\ Gently(f, g)
         /\ g.dir = f.dir /\ g.head = f.head /\ g.loose = f.loose
         /\ \A b \in F!Branch : g.packed[b] = Val(f, b)
<1> DEFINE g == [dir |-> f.dir, head |-> f.head, loose |-> f.loose, packed |-> [b \in F!Branch |-> Val(f, b)]]
<1>1. F!Packed(f) = g
  BY DEF F!Packed, FilesShape, Val
<1>2. FilesShape(g)
  BY DEF FilesShape
<1>3. Gently(f, g)
  BY DEF FilesShape, Gently, Val
<1> QED BY <1>1, <1>2, <1>3

LEMMA PrunedGently ==
  ASSUME NEW f, FilesShape(f), NEW b \in F!Branch
  PROVE  LET g == F!Pruned(f, b) IN
         /\ FilesShape(g) /\ Gently(f, g)
         /\ g.dir = f.dir /\ g.head = f.head /\ g.packed = f.packed
         /\ \A d \in F!Branch : g.loose[d] = f.loose[d] \/ (g.loose[d] = NoId /\ Val(g, d) = Val(f, d))
<1> DEFINE x == IF f.loose[b] = f.packed[b] THEN NoId ELSE f.loose[b]
           g == [dir |-> f.dir, head |-> f.head, loose |-> [f.loose EXCEPT ![b] = x], packed |-> f.packed]
<1>1. F!Pruned(f, b) = g
  BY DEF F!Pruned, FilesShape
<1>2. \A d \in F!Branch : g.loose[d] = IF d = b THEN x ELSE f.loose[d]
  BY DEF FilesShape
<1>3. FilesShape(g)
  BY DEF FilesShape
<1>4. \A d \in F!Branch : Val(g, d) = Val(f, d)
  BY <1>2 DEF Val
<1>5. Gently(f, g)
  BY <1>4 DEF Gently
<1> QED BY <1>1, <1>2, <1>3, <1>4, <1>5

\* New files: nothing packed, and nothing on a branch but HEAD's.
LEMMA NewGently ==
  ASSUME NEW f, NEW g, FilesShape(g), g.packed = F!Unset,
         \A b \in F!Branch : b # g.head => g.loose[b] = NoId
  PROVE  Gently(f, g)
  BY DEF Gently, Val, F!Unset, F!Branch

--------------------------------------------------------------------------------
(***************************************************************************)
(* CloneImport.  A commit is a set of changes; what the gate goes on with  *)
(* is a ref of the project once it is imported, so gc cannot drop it, and  *)
(* it is compared with a reading that began afterwards before it is merged.*)
(***************************************************************************)
Below(n) == SUBSET (1..n)
Ids(n)   == Below(n) \cup {NoId}

FilesOk(f, n) ==
  /\ FilesShape(f)
  /\ \A b \in F!Branch : f.loose[b] \in Ids(n) /\ f.packed[b] \in Ids(n)
  /\ F!HeadOf(f) # NoId

CloneOk(c, n) ==
  /\ c = [files |-> c.files, own |-> c.own, base |-> c.base]
  /\ FilesOk(c.files, n) /\ c.base \in Below(n)

LookOk(e, c, n) == EyeOk(e, c.files) /\ e.seen \subseteq Ids(n)

ProjectOk(m, n) ==
  /\ m = [def |-> m.def, objs |-> m.objs, imported |-> m.imported, rebased |-> m.rebased]
  /\ m.def \in Below(n) /\ m.imported \subseteq m.objs \cap Below(n)

\* What the gate goes on with is a ref's of the project, or its own rebase.
GateOk(g, m, n) ==
  /\ g = [at |-> g.at, from |-> g.from, tip |-> g.tip]
  /\ g.at \in {"fetch", "pinned", "again"} =>
       g.tip \in Below(n) /\ g.from # NoId /\ g.tip \in {g.from, m.rebased}
  /\ g.at \in {"pinned", "again"} =>
       g.tip \in m.objs /\ (g.tip \in m.imported \/ g.tip = m.rebased)

ImportInv ==
  /\ changes \in Nat /\ events \in Nat /\ changes <= events /\ events <= MaxCloneActs
  /\ ProjectOk(project, changes)
  /\ CloneOk(clone, changes)
  /\ LookOk(look, clone, changes)
  /\ GateOk(gate, project, changes)

LEMMA SameFiles ==
  /\ C!Branch = F!Branch /\ C!Unset = F!Unset /\ C!Shut = F!Shut
  /\ \A f : C!HeadOf(f) = F!HeadOf(f) /\ C!Packed(f) = F!Packed(f) /\ C!Opened(f) = F!Opened(f)
  /\ \A f, c : C!Committed(f, c) = F!Committed(f, c) /\ C!Switched(f, c) = F!Switched(f, c)
               /\ C!Pruned(f, c) = F!Pruned(f, c)
  /\ \A e : C!Watching(e) = F!Watching(e) /\ C!Refused(e) = F!Refused(e)
  /\ \A e, f : C!Watched(e, f) = F!Watched(e, f) /\ C!Looks(e, f) = F!Looks(e, f)
<1>1. C!Branch = F!Branch /\ C!Unset = F!Unset /\ C!Shut = F!Shut
  BY DEF C!Branch, F!Branch, C!Unset, F!Unset, C!Shut, F!Shut
<1>2. \A f : C!HeadOf(f) = F!HeadOf(f) /\ C!Packed(f) = F!Packed(f)
  BY <1>1 DEF C!HeadOf, F!HeadOf, C!Packed, F!Packed
<1>3. \A f : C!Opened(f) = F!Opened(f)
  BY <1>1, <1>2 DEF C!Opened, F!Opened
<1>4. \A f, c : C!Committed(f, c) = F!Committed(f, c)
  BY DEF C!Committed, F!Committed
<1>5. \A f, c : C!Switched(f, c) = F!Switched(f, c)
  BY Zenon DEF C!Switched, F!Switched, C!Branch, F!Branch, C!HeadOf, F!HeadOf
<1>6. \A f, c : C!Pruned(f, c) = F!Pruned(f, c)
  BY Zenon DEF C!Pruned, F!Pruned
<1>7. \A e : C!Watching(e) = F!Watching(e) /\ C!Refused(e) = F!Refused(e)
  BY Zenon DEF C!Watching, F!Watching, C!Refused, F!Refused, C!Found, F!Found
<1>8. \A e, f : C!Watched(e, f) = F!Watched(e, f)
  BY <1>2, <1>7, Zenon DEF C!Watched, F!Watched
<1>9. \A e, f : C!Looks(e, f) = F!Looks(e, f)
  BY <1>7, Zenon DEF C!Looks, F!Looks, C!Locates, F!Locates, C!LooksAtHead, F!LooksAtHead,
     C!LooksAtPacked, F!LooksAtPacked, C!Found, F!Found, C!HasGit, F!HasGit
<1> QED BY <1>1, <1>2, <1>3, <1>4, <1>5, <1>6, <1>7, <1>8, <1>9

LEMMA CommitsHaveNames ==
  ASSUME NEW n \in Nat, NEW c \in Below(n), n <= MaxCloneActs \/ n <= MaxPoolActs PROVE c # NoId
<1>1. MaxCloneActs \in Nat /\ MaxPoolActs \in Nat
  BY CloneAssumption
<1>2. ASSUME NEW k \in {MaxPoolActs, MaxCloneActs}, n <= k PROVE c # NoId
  <2>1. c \in SUBSET (1..k)
    BY <1>1, <1>2 DEF Below
  <2> QED BY <1>2, <2>1, CloneAssumption
<1> QED BY <1>2

LEMMA Grows ==
  ASSUME NEW n \in Nat, NEW k \in Nat, n <= k
  PROVE  Below(n) \subseteq Below(k) /\ Ids(n) \subseteq Ids(k)
  BY DEF Below, Ids

LEMMA HeadsAreCommits ==
  ASSUME NEW n \in Nat, NEW f, FilesOk(f, n) PROVE F!HeadOf(f) \in Below(n)
<1>1. F!HeadOf(f) \in Ids(n)
  BY DEF FilesOk, FilesShape, F!HeadOf
<1>2. F!HeadOf(f) # NoId
  BY DEF FilesOk
<1> QED BY <1>1, <1>2 DEF Ids, Below

\* The gate and what it reads live on when more is made, or moved.
LEMMA GateStays ==
  ASSUME NEW g, NEW m, NEW d, NEW n \in Nat, NEW k \in Nat, n <= k, GateOk(g, m, n),
         m.objs \subseteq d.objs, m.imported \subseteq d.imported, m.rebased = d.rebased
  PROVE  GateOk(g, d, k)
  BY Grows DEF GateOk

LEMMA ProjectStays ==
  ASSUME NEW m, NEW n \in Nat, NEW k \in Nat, n <= k, ProjectOk(m, n) PROVE ProjectOk(m, k)
  BY Grows DEF ProjectOk

LEMMA CloneStays ==
  ASSUME NEW c, NEW n \in Nat, NEW k \in Nat, n <= k, CloneOk(c, n) PROVE CloneOk(c, k)
  BY Grows DEF CloneOk, FilesOk

LEMMA LookStays ==
  ASSUME NEW e, NEW c, NEW n \in Nat, NEW k \in Nat, n <= k, LookOk(e, c, n) PROVE LookOk(e, c, k)
  BY Grows DEF LookOk

LEMMA LookMoves ==
  ASSUME NEW e, NEW c, NEW d, NEW n \in Nat, NEW k \in Nat, n <= k, LookOk(e, c, n),
         CloneOk(d, k), Gently(c.files, d.files)
  PROVE  LookOk(F!Watched(e, d.files), d, k)
<1>1. EyeOk(F!Watched(e, d.files), d.files)
  BY WatchedIsOk DEF LookOk, CloneOk, FilesOk
<1>2. F!HeadOf(d.files) \in Ids(k)
  BY HeadsAreCommits DEF CloneOk, Ids, Below
<1>3. F!Watched(e, d.files).seen \subseteq e.seen \cup {F!HeadOf(d.files)}
  <2>1. CASE F!Watching(e)
    <3> DEFINE s == e.seen \cup {F!HeadOf(d.files)}
    <3>1. F!Watched(e, d.files) = [e EXCEPT !.seen = s]
      BY <2>1 DEF F!Watched
    <3>2. e = [at |-> e.at, ref |-> e.ref, tip |-> e.tip, seen |-> e.seen]
      BY DEF LookOk, EyeOk, EyeShape
    <3> HIDE DEF s
    <3>3. F!Watched(e, d.files).seen = s
      BY <3>1, <3>2
    <3> QED BY <3>3 DEF s
  <2>2. CASE ~F!Watching(e)
    BY <2>2 DEF F!Watched
  <2> QED BY <2>1, <2>2
<1> QED BY <1>1, <1>2, <1>3, Grows DEF LookOk

LEMMA FreshIsOk ==
  ASSUME NEW n \in Nat, n <= MaxCloneActs, NEW base \in Below(n)
  PROVE  /\ CloneOk(C!Fresh(base), n)
         /\ \A f : Gently(f, C!Fresh(base).files)
<1> DEFINE l == [F!Unset EXCEPT !["task"] = base]
           f == [dir |-> "repo", head |-> "task", packed |-> F!Unset, loose |-> l]
<1>1. C!Fresh(base) = [files |-> f, own |-> {}, base |-> base]
  BY SameFiles DEF C!Fresh
<1>2. /\ l["task"] = base /\ l["default"] = NoId /\ l = [b \in F!Branch |-> l[b]]
      /\ F!Unset = [b \in F!Branch |-> F!Unset[b]] /\ \A b \in F!Branch : F!Unset[b] = NoId
  BY DEF F!Unset, F!Branch
<1> HIDE DEF l
<1>3. FilesShape(f)
  BY <1>2 DEF FilesShape, F!Branch
<1>4. base # NoId
  BY CommitsHaveNames
<1>5. FilesOk(f, n)
  <2>1. F!HeadOf(f) = base
    BY <1>2, <1>4 DEF F!HeadOf
  <2>2. \A b \in F!Branch : f.loose[b] \in Ids(n) /\ f.packed[b] \in Ids(n)
    <3>1. base \in Ids(n) /\ NoId \in Ids(n)
      BY DEF Ids, Below
    <3>2. f.loose["task"] = base /\ f.loose["default"] = NoId /\ \A b \in F!Branch : f.packed[b] = NoId
      BY <1>2
    <3> QED BY <3>1, <3>2 DEF F!Branch
  <2> QED BY <1>3, <1>4, <2>1, <2>2 DEF FilesOk
<1>6. \A h : Gently(h, f)
  BY <1>2, <1>3, NewGently DEF F!Branch
<1> HIDE DEF f
<1> QED BY <1>1, <1>5, <1>6 DEF CloneOk

LEMMA ImportStarts == C!Init => ImportInv
<1> SUFFICES ASSUME C!Init PROVE ImportInv
  OBVIOUS
<1>1. /\ project = [def |-> {}, objs |-> {{}}, imported |-> {}, rebased |-> NoId]
      /\ clone = C!Fresh({}) /\ look = F!Shut /\ gate = [at |-> "rest", from |-> NoId, tip |-> NoId]
      /\ changes = 0 /\ events = 0
  BY SameFiles DEF C!Init, C!Free
<1>2. MaxCloneActs \in Nat /\ {} \in Below(0)
  BY CloneAssumption DEF Below
<1>3. CloneOk(clone, 0)
  BY <1>1, <1>2, FreshIsOk
<1>4. LookOk(look, clone, 0)
  <2>1. F!Shut.seen = {}
    BY DEF F!Shut
  <2> QED BY <1>1, <2>1, ShutIsOk DEF LookOk
<1>5. ProjectOk(project, 0)
  BY <1>1, <1>2 DEF ProjectOk
<1>6. GateOk(gate, project, 0)
  BY <1>1 DEF GateOk
<1> QED BY <1>1, <1>2, <1>3, <1>4, <1>5, <1>6 DEF ImportInv

LEMMA CloneFields ==
  ASSUME NEW c, c = [files |-> c.files, own |-> c.own, base |-> c.base], NEW f, NEW o
  PROVE  [c EXCEPT !.files = f, !.own = o] = [files |-> f, own |-> o, base |-> c.base]
<1> DEFINE x == c.files  w == c.own  z == c.base
<1>1. c = [files |-> x, own |-> w, base |-> z]
  OBVIOUS
<1> HIDE DEF x, w, z
<1>2. [[files |-> x, own |-> w, base |-> z] EXCEPT !.files = f, !.own = o] = [files |-> f, own |-> o, base |-> z]
  <2>1. [[files |-> x, own |-> w, base |-> z] EXCEPT !.files = f] = [files |-> f, own |-> w, base |-> z]
    OBVIOUS
  <2>2. [[files |-> f, own |-> w, base |-> z] EXCEPT !.own = o] = [files |-> f, own |-> o, base |-> z]
    OBVIOUS
  <2> QED BY <2>1, <2>2
<1>3. [c EXCEPT !.files = f, !.own = o] = [files |-> f, own |-> o, base |-> z]
  BY <1>1, <1>2, Zenon
<1> QED BY <1>3 DEF z

\* A step of the worker, or of the pool, on the clone.
LEMMA CloneStep ==
  ASSUME ImportInv, NEW d, C!Becomes(d), UNCHANGED <<project, gate>>,
         changes' \in Nat, events' \in Nat, changes <= changes', changes' <= events', events' <= MaxCloneActs,
         CloneOk(d, changes'), Gently(clone.files, d.files)
  PROVE  ImportInv'
<1>1. clone' = d /\ look' = F!Watched(look, d.files)
  BY SameFiles DEF C!Becomes
<1>2. /\ changes \in Nat /\ ProjectOk(project, changes) /\ LookOk(look, clone, changes)
      /\ GateOk(gate, project, changes)
  BY DEF ImportInv
<1>3. LookOk(look', d, changes')
  BY <1>1, <1>2, LookMoves
<1>4. ProjectOk(project, changes') /\ GateOk(gate, project, changes')
  BY <1>2, ProjectStays, GateStays
<1> QED BY <1>1, <1>3, <1>4 DEF ImportInv

LEMMA ImportStep ==
  ASSUME ImportInv, C!Next
  PROVE  ImportInv'
<1>0. /\ changes \in Nat /\ events \in Nat /\ changes <= events /\ events <= MaxCloneActs
      /\ ProjectOk(project, changes) /\ CloneOk(clone, changes) /\ LookOk(look, clone, changes)
      /\ GateOk(gate, project, changes) /\ MaxCloneActs \in Nat
  BY CloneAssumption DEF ImportInv
<1>a. C!Act => events' = events + 1 /\ events' \in Nat /\ events' <= MaxCloneActs /\ changes <= events'
               /\ changes + 1 <= events' /\ changes + 1 \in Nat
  BY <1>0 DEF C!Act
<1>b. changes + 1 \in Nat /\ Below(changes) \subseteq Below(changes + 1)
  BY <1>0, Grows
<1>c. /\ clone = [files |-> clone.files, own |-> clone.own, base |-> clone.base]
      /\ FilesOk(clone.files, changes) /\ FilesShape(clone.files) /\ clone.base \in Below(changes)
  BY <1>0 DEF CloneOk, FilesOk
<1>d. ASSUME NEW f PROVE [clone EXCEPT !.files = f] = [files |-> f, own |-> clone.own, base |-> clone.base]
  BY <1>c
<1>1. CASE C!Commits
  <2> DEFINE c == F!HeadOf(clone.files) \cup {changes + 1}
             f == F!Committed(clone.files, c)
             d == [files |-> f, own |-> clone.own \cup {c}, base |-> clone.base]
  <2>1. c \in Below(changes + 1)
    BY <1>0, <1>c, HeadsAreCommits DEF Below
  <2>2. c # NoId
    <3>1. changes + 1 \in Nat /\ changes + 1 <= MaxCloneActs
      BY <1>0, <1>1, <1>a DEF C!Commits
    <3> QED BY <2>1, <3>1, CommitsHaveNames
  <2> HIDE DEF c
  <2>3. /\ FilesShape(f) /\ Gently(clone.files, f) /\ f.head = clone.files.head
        /\ f.packed = clone.files.packed /\ f.loose = [clone.files.loose EXCEPT ![clone.files.head] = c]
    BY <1>c, CommittedGently
  <2>4. FilesOk(f, changes + 1)
    <3>1. \A b \in F!Branch : f.loose[b] = c \/ f.loose[b] = clone.files.loose[b]
      BY <1>c, <2>3 DEF FilesShape
    <3>2. \A b \in F!Branch : f.loose[b] \in Ids(changes + 1) /\ f.packed[b] \in Ids(changes + 1)
      BY <1>0, <1>b, <1>c, <2>1, <2>3, <3>1, Grows DEF FilesOk, Ids
    <3>3. f.loose[f.head] = c
      BY <1>c, <2>3 DEF FilesShape
    <3> QED BY <2>2, <2>3, <3>2, <3>3 DEF FilesOk, F!HeadOf
  <2> HIDE DEF f
  <2>5. CloneOk(d, changes + 1) /\ d.files = f
    BY <1>b, <1>c, <2>4 DEF CloneOk
  <2>6. clone' = d /\ C!Becomes(d)
    <3>1. C!Becomes([clone EXCEPT !.files = C!Committed(clone.files, C!HeadOf(clone.files) \cup {changes + 1}),
                                  !.own = clone.own \cup {C!HeadOf(clone.files) \cup {changes + 1}}])
      BY <1>1 DEF C!Commits
    <3>2. C!Becomes([clone EXCEPT !.files = f, !.own = clone.own \cup {c}])
      BY <3>1, SameFiles DEF c, f
    <3>3. [clone EXCEPT !.files = f, !.own = clone.own \cup {c}] = d
      <4> DEFINE o == clone.own \cup {c}
      <4>1. d = [files |-> f, own |-> o, base |-> clone.base]
        OBVIOUS
      <4> HIDE DEF o, d
      <4>2. [clone EXCEPT !.files = f, !.own = o] = [files |-> f, own |-> o, base |-> clone.base]
        BY <1>c, CloneFields
      <4> QED BY <4>1, <4>2 DEF o
    <3> QED BY <3>2, <3>3 DEF C!Becomes
  <2> HIDE DEF d
  <2>7. changes' = changes + 1 /\ UNCHANGED <<project, gate>> /\ C!Act
    BY <1>1 DEF C!Commits
  <2> QED BY <1>0, <1>a, <2>3, <2>5, <2>6, <2>7, CloneStep
<1>2. ASSUME NEW f, FilesOk(f, changes), Gently(clone.files, f), C!Becomes([clone EXCEPT !.files = f]),
             UNCHANGED <<project, gate, changes>>, C!Act \/ UNCHANGED events
      PROVE  ImportInv'
  <2> DEFINE d == [files |-> f, own |-> clone.own, base |-> clone.base]
  <2>1. C!Becomes(d) /\ d.files = f
    BY <1>2, <1>d
  <2>2. CloneOk(d, changes)
    BY <1>c, <1>2 DEF CloneOk
  <2> HIDE DEF d
  <2> QED BY <1>0, <1>a, <1>2, <2>1, <2>2, CloneStep
<1>3. CASE C!Moves
  <2>1. UNCHANGED <<project, gate, changes>> /\ C!Act
    BY <1>3 DEF C!Moves
  <2>2. CASE C!Becomes([clone EXCEPT !.files = F!Switched(clone.files, clone.base)])
    <3> DEFINE f == F!Switched(clone.files, clone.base)
    <3>1. /\ FilesShape(f) /\ Gently(clone.files, f) /\ f.packed = clone.files.packed
          /\ \A b \in F!Branch : f.loose[b] = clone.files.loose[b] \/ f.loose[b] = clone.base
          /\ F!HeadOf(f) # NoId \/ F!HeadOf(f) = clone.base
      BY <1>c, SwitchedGently
    <3>2. clone.base # NoId
      BY <1>0, <1>c, CommitsHaveNames
    <3> HIDE DEF f
    <3>3. FilesOk(f, changes)
      BY <1>c, <3>1, <3>2 DEF FilesOk, Ids
    <3> QED BY <1>2, <2>1, <2>2, <3>1, <3>3 DEF f
  <2>3. CASE C!Becomes([clone EXCEPT !.files = F!Packed(clone.files)])
    <3> DEFINE f == F!Packed(clone.files)
    <3>1. /\ FilesShape(f) /\ Gently(clone.files, f) /\ f.head = clone.files.head
          /\ f.loose = clone.files.loose /\ \A b \in F!Branch : f.packed[b] = Val(clone.files, b)
      BY <1>c, PackedGently
    <3> HIDE DEF f
    <3>2. FilesOk(f, changes)
      <4>1. \A b \in F!Branch : Val(clone.files, b) \in Ids(changes)
        BY <1>c DEF FilesOk, Val
      <4>2. F!HeadOf(f) # NoId
        <5>1. f.head \in F!Branch /\ Val(clone.files, f.head) # NoId
          BY <1>c, <3>1, HeadsValue DEF FilesOk, FilesShape
        <5> QED BY <3>1, <5>1 DEF F!HeadOf
      <4> QED BY <1>c, <3>1, <4>1, <4>2 DEF FilesOk
    <3> QED BY <1>2, <2>1, <2>3, <3>1, <3>2 DEF f
  <2> QED BY <1>3, <2>2, <2>3, SameFiles DEF C!Moves
<1>4. CASE C!Prunes
  <2>1. UNCHANGED <<project, gate, changes, events>>
    BY <1>4 DEF C!Prunes
  <2>2. PICK b \in F!Branch : C!Becomes([clone EXCEPT !.files = F!Pruned(clone.files, b)])
    BY <1>4, SameFiles DEF C!Prunes
  <2> DEFINE f == F!Pruned(clone.files, b)
  <2>3. /\ FilesShape(f) /\ Gently(clone.files, f) /\ f.head = clone.files.head /\ f.packed = clone.files.packed
        /\ \A d \in F!Branch : f.loose[d] = clone.files.loose[d]
                               \/ (f.loose[d] = NoId /\ Val(f, d) = Val(clone.files, d))
    BY <1>c, PrunedGently
  <2> HIDE DEF f
  <2>4. F!HeadOf(f) # NoId
    <3>1. f.head \in F!Branch
      BY <2>3 DEF FilesShape
    <3>2. Val(f, f.head) = Val(clone.files, f.head)
      BY <2>3, <3>1 DEF Val
    <3> QED BY <1>c, <2>3, <3>2, HeadsValue DEF FilesOk
  <2>5. FilesOk(f, changes)
    BY <1>c, <2>3, <2>4 DEF FilesOk, Ids
  <2> QED BY <1>2, <2>1, <2>2, <2>3, <2>5 DEF f
<1>5. CASE C!Replaced
  <2>1. C!Becomes(C!Fresh(project.def)) /\ UNCHANGED <<project, gate, changes>> /\ C!Act
    BY <1>5 DEF C!Replaced
  <2>2. project.def \in Below(changes)
    BY <1>0 DEF ProjectOk
  <2>3. CloneOk(C!Fresh(project.def), changes) /\ Gently(clone.files, C!Fresh(project.def).files)
    BY <1>0, <2>2, FreshIsOk
  <2> QED BY <1>0, <1>a, <2>1, <2>3, CloneStep
<1> DEFINE fields == project = [def |-> project.def, objs |-> project.objs, imported |-> project.imported,
                                rebased |-> project.rebased]
<1>e. fields
  BY <1>0 DEF ProjectOk
<1>f. project.def \in Below(changes) /\ project.imported \subseteq project.objs \cap Below(changes)
  BY <1>0 DEF ProjectOk
<1>6. CASE C!Moved
  <2> DEFINE new == project.def \cup {changes + 1}
  <2>1. /\ project' = [project EXCEPT !.def = new, !.objs = project.objs \cup {new}]
        /\ changes' = changes + 1 /\ UNCHANGED <<clone, look, gate>> /\ C!Act
    BY <1>6 DEF C!Moved
  <2>2. new \in Below(changes + 1)
    BY <1>0, <1>f DEF Below
  <2> HIDE DEF new
  <2>3. project' = [def |-> new, objs |-> project.objs \cup {new}, imported |-> project.imported,
                    rebased |-> project.rebased]
    BY <1>e, <2>1
  <2>4. ProjectOk(project', changes')
    BY <1>b, <1>f, <2>1, <2>2, <2>3 DEF ProjectOk
  <2>5. project.objs \subseteq project'.objs /\ project'.imported = project.imported /\ project'.rebased = project.rebased
    BY <2>3
  <2>6. GateOk(gate, project', changes')
    <3>1. changes' \in Nat /\ changes <= changes'
      BY <1>0, <2>1
    <3>2. project.imported \subseteq project'.imported
      BY <2>5
    <3> QED BY <1>0, <2>5, <3>1, <3>2, GateStays
  <2>7. CloneOk(clone, changes') /\ LookOk(look, clone, changes')
    BY <1>0, <1>b, <2>1, CloneStays, LookStays
  <2> QED BY <1>a, <2>1, <2>4, <2>6, <2>7 DEF ImportInv
<1>7. CASE C!GC
  <2> DEFINE roots == ({project.def, project.rebased} \cup project.imported) \ {NoId}
             kept == {c \in project.objs : \E r \in roots : c \subseteq r}
  <2>1. project' = [project EXCEPT !.objs = kept] /\ UNCHANGED <<clone, look, gate, changes>> /\ C!Act
    BY <1>7 DEF C!GC
  <2>2. \A c \in Below(changes) : c \in project.objs /\ (c \in project.imported \/ c = project.rebased) => c \in kept
    <3>1. SUFFICES ASSUME NEW c \in Below(changes), c \in project.objs,
                          c \in project.imported \/ c = project.rebased
                   PROVE  c \in kept
      OBVIOUS
    <3>2. c # NoId
      BY <1>0, CommitsHaveNames
    <3> QED BY <3>1, <3>2
  <2>3. kept \subseteq project.objs
    OBVIOUS
  <2> HIDE DEF kept
  <2>4. project' = [def |-> project.def, objs |-> kept, imported |-> project.imported, rebased |-> project.rebased]
    BY <1>e, <2>1
  <2>5. ProjectOk(project', changes)
    BY <1>f, <2>2, <2>4 DEF ProjectOk
  <2>6. GateOk(gate, project', changes)
    BY <1>0, <2>2, <2>4 DEF GateOk
  <2> QED BY <1>0, <1>a, <2>1, <2>5, <2>6 DEF ImportInv
<1>g. gate = [at |-> gate.at, from |-> gate.from, tip |-> gate.tip]
  BY <1>0 DEF GateOk
<1>h. ASSUME NEW s PROVE [gate EXCEPT !.at = s] = [at |-> s, from |-> gate.from, tip |-> gate.tip]
  BY <1>g
<1>8. ASSUME UNCHANGED <<project, clone, changes, events>>, LookOk(look', clone, changes), GateOk(gate', project, changes)
      PROVE  ImportInv'
  BY <1>0, <1>8 DEF ImportInv
<1>9. LookOk(F!Opened(clone.files), clone, changes)
  <2>1. F!Opened(clone.files).seen = {F!HeadOf(clone.files)}
    <3> DEFINE s == {F!HeadOf(clone.files)}
    <3>1. F!Opened(clone.files) = [[at |-> "shut", ref |-> NoId, tip |-> NoId, seen |-> {}] EXCEPT !.at = "dir", !.seen = s]
      BY DEF F!Opened, F!Shut
    <3> HIDE DEF s
    <3>2. F!Opened(clone.files).seen = s
      BY <3>1
    <3> QED BY <3>2 DEF s
  <2>2. F!HeadOf(clone.files) \in Ids(changes)
    BY <1>0, <1>c, HeadsAreCommits DEF Ids
  <2> QED BY <2>1, <2>2, OpenedIsOk DEF LookOk
<1>10. CASE C!Observes
  <2>1. gate' = [gate EXCEPT !.at = "look"] /\ look' = F!Opened(clone.files) /\ UNCHANGED <<project, clone, changes, events>>
    BY <1>10, SameFiles DEF C!Observes, C!Goes, C!Sees
  <2>2. GateOk(gate', project, changes)
    BY <1>h, <2>1 DEF GateOk
  <2> QED BY <1>8, <1>9, <2>1, <2>2
<1>11. CASE C!Reads
  <2>1. F!Watching(look) /\ look' \in {F!Looks(look, clone.files), F!Refused(look)}
        /\ UNCHANGED <<project, clone, gate, changes, events>>
    BY <1>11, SameFiles DEF C!Reads
  <2>2. EyeOk(look', clone.files)
    BY <1>0, <1>c, <2>1, LooksIsOk, RefusedIsOk DEF LookOk
  <2>3. look'.seen = look.seen
    BY <1>0, <2>1, SeenStays DEF LookOk, EyeOk
  <2> QED BY <1>0, <1>8, <2>1, <2>2, <2>3 DEF LookOk
<1>12. ASSUME look' = look \/ look' = F!Shut, UNCHANGED <<project, clone, changes, events>>, C!Quits
       PROVE  ImportInv'
  <2>1. F!Shut.seen = {}
    BY DEF F!Shut
  <2>2. LookOk(look', clone, changes)
    BY <1>0, <1>12, <2>1, ShutIsOk DEF LookOk
  <2>3. GateOk(gate', project, changes)
    BY <1>12 DEF C!Quits, C!Free, GateOk
  <2> QED BY <1>8, <1>12, <2>2, <2>3
<1>13. CASE C!Observed
  <2>1. look.at = "done" /\ UNCHANGED <<project, clone, look, changes, events>>
    BY <1>13 DEF C!Observed
  <2>2. CASE C!Quits
    BY <1>12, <2>1, <2>2
  <2>3. CASE /\ look.tip # NoId
             /\ gate' = [at |-> IF look.tip \in project.imported THEN "pinned" ELSE "fetch",
                         from |-> look.tip, tip |-> look.tip]
    <3>1. look.tip \in Below(changes)
      BY <1>0, <2>1, <2>3 DEF LookOk, EyeOk, Ids
    <3>2. GateOk(gate', project, changes)
      <4>1. CASE look.tip \in project.imported
        BY <1>f, <2>3, <3>1, <4>1 DEF GateOk
      <4>2. CASE look.tip \notin project.imported
        BY <2>3, <3>1, <4>2 DEF GateOk
      <4> QED BY <4>1, <4>2
    <3> QED BY <1>0, <1>8, <2>1, <3>2
  <2> QED BY <1>13, <2>2, <2>3 DEF C!Observed
<1>14. CASE C!ImportCommit
  <2>1. gate.at = "fetch" /\ UNCHANGED <<clone, look, changes, events>>
    BY <1>14 DEF C!ImportCommit
  <2>2. CASE C!Quits /\ UNCHANGED project
    BY <1>12, <2>1, <2>2
  <2> DEFINE new == C!History(gate.tip, changes)
  <2>3. CASE /\ project' = [project EXCEPT !.objs = project.objs \cup new, !.imported = project.imported \cup {gate.tip}]
             /\ gate' = [gate EXCEPT !.at = "pinned"]
    <3>1. gate.tip \in Below(changes) /\ gate.from # NoId /\ gate.tip \in {gate.from, project.rebased}
      BY <1>0, <2>1 DEF GateOk
    <3>2. gate.tip \in new
      <4>1. gate.tip = gate.tip \cap (1..changes) /\ changes \in 0..changes
        BY <1>0, <3>1 DEF Below
      <4> QED BY <4>1 DEF C!History
    <3> HIDE DEF new
    <3>3. project' = [def |-> project.def, objs |-> project.objs \cup new,
                      imported |-> project.imported \cup {gate.tip}, rebased |-> project.rebased]
      BY <1>e, <2>3
    <3>4. gate' = [at |-> "pinned", from |-> gate.from, tip |-> gate.tip]
      BY <1>h, <2>3
    <3>5. ProjectOk(project', changes)
      BY <1>f, <3>1, <3>2, <3>3 DEF ProjectOk
    <3>6. GateOk(gate', project', changes)
      BY <3>1, <3>2, <3>3, <3>4 DEF GateOk
    <3> QED BY <1>0, <2>1, <3>5, <3>6 DEF ImportInv
  <2> QED BY <1>14, <2>2, <2>3 DEF C!ImportCommit, C!Goes
<1>15. CASE C!Rebases
  <2> DEFINE new == project.def \cup {changes + 1}
  <2>1. gate.at = "pinned" /\ C!Act /\ changes' = changes + 1 /\ UNCHANGED <<clone, look>>
    BY <1>15 DEF C!Rebases
  <2>2. CloneOk(clone, changes') /\ LookOk(look, clone, changes')
    BY <1>0, <1>b, <2>1, CloneStays, LookStays
  <2>3. new \in Below(changes + 1)
    BY <1>0, <1>f DEF Below
  <2> HIDE DEF new
  <2>4. CASE /\ project' = [project EXCEPT !.objs = project.objs \cup {new}, !.rebased = new]
             /\ gate' = [gate EXCEPT !.tip = new]
    <3>1. project' = [def |-> project.def, objs |-> project.objs \cup {new},
                      imported |-> project.imported, rebased |-> new]
      BY <1>e, <2>4
    <3>2. gate' = [at |-> gate.at, from |-> gate.from, tip |-> new]
      BY <1>g, <2>4
    <3>3. ProjectOk(project', changes')
      BY <1>b, <1>f, <2>1, <3>1 DEF ProjectOk
    <3>4. GateOk(gate', project', changes')
      BY <1>0, <2>1, <2>3, <3>1, <3>2 DEF GateOk
    <3> QED BY <1>a, <2>1, <2>2, <3>3, <3>4 DEF ImportInv
  <2>5. CASE C!Quits /\ UNCHANGED project
    <3>1. ProjectOk(project', changes')
      BY <1>0, <1>b, <2>1, <2>5, ProjectStays
    <3>2. GateOk(gate', project', changes')
      BY <2>5 DEF C!Quits, C!Free, GateOk
    <3> QED BY <1>a, <2>1, <2>2, <3>1, <3>2 DEF ImportInv
  <2> QED BY <1>15, <2>4, <2>5 DEF C!Rebases, new
<1>16. CASE C!LooksAgain
  <2>1. gate.at = "pinned" /\ gate' = [gate EXCEPT !.at = "again"] /\ look' = F!Opened(clone.files)
        /\ UNCHANGED <<project, clone, changes, events>>
    BY <1>16, SameFiles DEF C!LooksAgain, C!Goes, C!Sees
  <2>2. GateOk(gate', project, changes)
    BY <1>0, <1>h, <2>1 DEF GateOk
  <2> QED BY <1>8, <1>9, <2>1, <2>2
<1>17. CASE C!Merges
  <2>1. /\ gate.at = "again" /\ C!Quits /\ UNCHANGED <<clone, look, changes, events>>
        /\ project' = [project EXCEPT !.def = gate.tip] \/ UNCHANGED project
    BY <1>17 DEF C!Merges
  <2>2. CASE UNCHANGED project
    BY <1>12, <2>1, <2>2
  <2>3. CASE project' = [project EXCEPT !.def = gate.tip]
    <3>1. project' = [def |-> gate.tip, objs |-> project.objs, imported |-> project.imported, rebased |-> project.rebased]
      BY <1>e, <2>3
    <3>2. gate.tip \in Below(changes)
      BY <1>0, <2>1 DEF GateOk
    <3>3. ProjectOk(project', changes)
      BY <1>f, <3>1, <3>2 DEF ProjectOk
    <3>4. GateOk(gate', project', changes)
      BY <2>1 DEF C!Quits, C!Free, GateOk
    <3> QED BY <1>0, <2>1, <3>3, <3>4 DEF ImportInv
  <2> QED BY <2>1, <2>2, <2>3
<1>18. CASE C!Leaves
  BY <1>12, <1>18, SameFiles DEF C!Leaves
<1> QED BY <1>1, <1>3, <1>4, <1>5, <1>6, <1>7, <1>10, <1>11, <1>13, <1>14, <1>15, <1>16, <1>17, <1>18 DEF C!Next

LEMMA ImportSound == SumSpec => []ImportInv
<1>1. SumInit => ImportInv
  BY ImportStarts DEF SumInit
<1>2. ASSUME ImportInv, [SumNext]_all PROVE ImportInv'
  <2>1. CASE C!Next
    BY <1>2, <2>1, ImportStep
  <2>2. CASE UNCHANGED cloneside
    BY <1>2, <2>2 DEF cloneside, ImportInv
  <2> QED BY <1>2, <2>1, <2>2 DEF SumNext, all
<1> QED BY <1>1, <1>2, PTL DEF SumSpec

\* What the gate goes on with stays in the project, whatever its gc drops and the
\* worker rewrites meanwhile (CloneImport).
THEOREM PinnedCommitStays == SumSpec => []PinnedStays
<1>1. ImportInv => PinnedStays
  BY DEF ImportInv, GateOk, PinnedStays, C!PinnedStays
<1> QED BY <1>1, ImportSound, PTL

\* A merge takes the commit that was the clone's HEAD while the read right before it
\* went on, or the land's rebase of it (CloneImport).
THEOREM MergesAreThere == SumSpec => MergesWhatIsThere
<1>1. ASSUME ImportInv, [SumNext]_all, gate.at = "again", project'.def # project.def, gate'.at = "rest"
      PROVE  gate.from \in look.seen /\ gate.tip \in {gate.from, project.rebased}
  <2>1. C!Next
    BY <1>1 DEF SumNext, all, cloneside
  <2>2. C!Merges /\ look.at = "done" /\ look.tip = gate.from
    <3>1. project' # project
      BY <1>1
    <3>2. gate' # gate
      BY <1>1
    <3>3. ~C!GC
      BY <3>2 DEF C!GC
    <3>4. C!Merges
      BY <1>1, <2>1, <3>1, <3>2, <3>3 DEF C!Next, C!Commits, C!Moves, C!Prunes, C!Replaced, C!Moved,
         C!Observes, C!Reads, C!Observed, C!ImportCommit, C!Rebases, C!LooksAgain, C!Leaves
    <3> QED BY <3>1, <3>4 DEF C!Merges
  <2>3. GateOk(gate, project, changes) /\ EyeOk(look, clone.files)
    BY <1>1 DEF ImportInv, LookOk
  <2> QED BY <1>1, <2>2, <2>3 DEF GateOk, EyeOk
<1>2. ImportInv /\ [SumNext]_all =>
        [gate.at = "again" /\ project'.def # project.def /\ gate'.at = "rest" =>
           gate.from \in look.seen /\ gate.tip \in {gate.from, project.rebased}]_cloneside
  BY <1>1
<1> QED BY <1>2, ImportSound, PTL DEF SumSpec, MergesWhatIsThere, C!MergesWhatIsThere, C!vars, cloneside

LEMMA MinIsOne ==
  ASSUME NEW S, S \subseteq Nat, S # {}
  PROVE  P!Min(S) \in S
<1>1. \E x \in S : \A y \in S : ~ (<<y, x>> \in OpToRel(<, Nat))
  BY NatLessThanWellFounded, WFMin
<1>2. \E x \in S : \A y \in S : x <= y
  <2>1. PICK x \in S : \A y \in S : ~ (<<y, x>> \in OpToRel(<, Nat))
    BY <1>1
  <2>2. ASSUME NEW y \in S PROVE x <= y
    <3>1. <<y, x>> \in Nat \X Nat /\ x \in Nat /\ y \in Nat
      OBVIOUS
    <3>2. ~ (y < x)
      BY <2>1, <3>1 DEF OpToRel
    <3> QED BY <3>1, <3>2
  <2> QED BY <2>2
<1> QED BY <1>2, Zenon DEF P!Min

--------------------------------------------------------------------------------
(***************************************************************************)
(* ClonePool, whose spawns take turns.  While one works, rows only go      *)
(* blank, so the slots it took for busy when it began are a bound on those *)
(* in use to its end; the pin of its base goes up before anything borrows  *)
(* from it and comes down only with the clone.                             *)
(***************************************************************************)
PoolPlace == 1..MaxPoolSlot

Sp(a, t, b, l, k, c) == [at |-> a, task |-> t, busy |-> b, listed |-> l, slot |-> k, base |-> c]
New(d) == [dir |-> d, head |-> "default", loose |-> F!Unset, packed |-> F!Unset]
Dir(f, t, b) == [files |-> f, task |-> t, base |-> b]

\* A directory that is a repository is its task's, cut from the spawn's base.
IsFor(d, t, b) == d.task = t /\ d.base = b

StageOk(a, t, b, l, k, c, e, ds, rows, pins, objs, n) ==
  /\ l \subseteq PoolPlace
  /\ a # "rest" => t \in PoolTask /\ rows[t] = 0 /\ \A u \in PoolTask : rows[u] # 0 => rows[u] \in b
  /\ a \in {"look", "remove"} => k \in PoolPlace /\ k \notin b
  /\ a = "look" => EyeOk(e, ds[k].files)
  /\ a \notin {"rest", "source"} => c \in Below(n)
  /\ a \in {"init", "checkout", "save"} => pins[t] = c /\ c \in objs
  /\ a = "checkout" => (k \in PoolPlace /\ F!HasGit(ds[k].files) => IsFor(ds[k], t, c))
  /\ a = "save" => (k \in PoolPlace /\ ds[k].files.dir = "repo" => IsFor(ds[k], t, c))

SpawnOk(s, e, ds, rows, pins, objs, n) ==
  /\ s = Sp(s.at, s.task, s.busy, s.listed, s.slot, s.base)
  /\ StageOk(s.at, s.task, s.busy, s.listed, s.slot, s.base, e, ds, rows, pins, objs, n)

HeldOk(d, k, rows, pins, objs, n) ==
  /\ d = Dir(d.files, d.task, d.base) /\ FilesShape(d.files)
  /\ d.files.dir = "repo" =>
       d.task \in PoolTask /\ (rows[d.task] = k => pins[d.task] = d.base /\ d.base \in objs \cap Below(n))

\* The tables are functions, on the tasks, the slots and the spawners.
PoolTables ==
  /\ pin = [t \in PoolTask |-> pin[t]] /\ named = [t \in PoolTask |-> named[t]]
  /\ dir = [k \in PoolPlace |-> dir[k]]
  /\ spawn = [p \in PoolSpawner |-> spawn[p]] /\ eye = [p \in PoolSpawner |-> eye[p]]

MainOk(m, r, n) ==
  /\ m = [def |-> m.def, fetched |-> m.fetched, objs |-> m.objs]
  /\ m.fetched \in Below(n) /\ r \in Below(n)

PoolInv ==
  /\ made \in Nat /\ acts \in Nat /\ made <= acts /\ acts <= MaxPoolActs
  /\ PoolTables
  /\ MainOk(main, remote, made)
  /\ \A k \in PoolPlace : HeldOk(dir[k], k, named, pin, main.objs, made)
  /\ \A p \in PoolSpawner : SpawnOk(spawn[p], eye[p], dir, named, pin, main.objs, made)

LEMMA SamePoolFiles ==
  /\ P!Branch = F!Branch /\ P!Unset = F!Unset /\ P!Shut = F!Shut /\ P!Files = F!Files
  /\ \A f : P!HeadOf(f) = F!HeadOf(f) /\ P!Packed(f) = F!Packed(f) /\ P!Opened(f) = F!Opened(f)
            /\ P!HasGit(f) = F!HasGit(f)
  /\ \A f, c : P!Committed(f, c) = F!Committed(f, c) /\ P!Switched(f, c) = F!Switched(f, c)
               /\ P!Pruned(f, c) = F!Pruned(f, c)
  /\ \A e : P!Watching(e) = F!Watching(e) /\ P!Refused(e) = F!Refused(e)
  /\ \A e, f : P!Watched(e, f) = F!Watched(e, f) /\ P!Looks(e, f) = F!Looks(e, f)
<1>1. P!Branch = F!Branch /\ P!Unset = F!Unset /\ P!Shut = F!Shut
  BY DEF P!Branch, F!Branch, P!Unset, F!Unset, P!Shut, F!Shut
<1>2. \A f : P!HeadOf(f) = F!HeadOf(f) /\ P!Packed(f) = F!Packed(f)
  BY <1>1 DEF P!HeadOf, F!HeadOf, P!Packed, F!Packed
<1>3. \A f : P!Opened(f) = F!Opened(f)
  BY <1>1, <1>2 DEF P!Opened, F!Opened
<1>4. \A f, c : P!Committed(f, c) = F!Committed(f, c)
  BY DEF P!Committed, F!Committed
<1>5. \A f, c : P!Switched(f, c) = F!Switched(f, c)
  BY Zenon DEF P!Switched, F!Switched, P!Branch, F!Branch, P!HeadOf, F!HeadOf
<1>6. \A f, c : P!Pruned(f, c) = F!Pruned(f, c)
  BY Zenon DEF P!Pruned, F!Pruned
<1>7. \A e : P!Watching(e) = F!Watching(e) /\ P!Refused(e) = F!Refused(e)
  BY Zenon DEF P!Watching, F!Watching, P!Refused, F!Refused, P!Found, F!Found
<1>8. \A e, f : P!Watched(e, f) = F!Watched(e, f)
  BY <1>2, <1>7, Zenon DEF P!Watched, F!Watched
<1>9. \A e, f : P!Looks(e, f) = F!Looks(e, f)
  BY <1>7, Zenon DEF P!Looks, F!Looks, P!Locates, F!Locates, P!LooksAtHead, F!LooksAtHead,
     P!LooksAtPacked, F!LooksAtPacked, P!Found, F!Found, P!HasGit, F!HasGit
<1>10. P!Files = F!Files
  BY <1>1 DEF P!Files, F!Files
<1>11. \A f : P!HasGit(f) = F!HasGit(f)
  BY DEF P!HasGit, F!HasGit
<1> QED BY <1>1, <1>2, <1>3, <1>4, <1>5, <1>6, <1>7, <1>8, <1>9, <1>10, <1>11

LEMMA SpFields ==
  ASSUME NEW a, NEW t, NEW b, NEW l, NEW k, NEW c
  PROVE  LET s == Sp(a, t, b, l, k, c) IN
         /\ s.at = a /\ s.task = t /\ s.busy = b /\ s.listed = l /\ s.slot = k /\ s.base = c
         /\ \A x : /\ [s EXCEPT !.at = x] = Sp(x, t, b, l, k, c)
                   /\ [s EXCEPT !.task = x] = Sp(a, x, b, l, k, c)
                   /\ [s EXCEPT !.busy = x] = Sp(a, t, x, l, k, c)
                   /\ [s EXCEPT !.listed = x] = Sp(a, t, b, x, k, c)
                   /\ [s EXCEPT !.slot = x] = Sp(a, t, b, l, x, c)
                   /\ [s EXCEPT !.base = x] = Sp(a, t, b, l, k, x)
  BY DEF Sp

LEMMA SpIsOk ==
  ASSUME NEW a, NEW t, NEW b, NEW l, NEW k, NEW c, NEW e, NEW ds, NEW rows, NEW pins, NEW objs, NEW n,
         StageOk(a, t, b, l, k, c, e, ds, rows, pins, objs, n)
  PROVE  SpawnOk(Sp(a, t, b, l, k, c), e, ds, rows, pins, objs, n)
<1> DEFINE s == Sp(a, t, b, l, k, c)
<1>1. s.at = a /\ s.task = t /\ s.busy = b /\ s.listed = l /\ s.slot = k /\ s.base = c
  BY DEF Sp
<1>2. s = Sp(s.at, s.task, s.busy, s.listed, s.slot, s.base)
  BY <1>1, Zenon
<1> HIDE DEF s
<1>3. SpawnOk(s, e, ds, rows, pins, objs, n)
  BY <1>1, <1>2, Zenon DEF SpawnOk
<1> QED BY <1>3 DEF s

LEMMA IdleIsOk ==
  ASSUME NEW e, NEW ds, NEW rows, NEW pins, NEW objs, NEW n
  PROVE  SpawnOk(P!Idle, e, ds, rows, pins, objs, n)
<1>1. P!Idle = Sp("rest", NoId, {}, {}, 0, NoId)
  BY DEF P!Idle, Sp
<1>2. StageOk("rest", NoId, {}, {}, 0, NoId, e, ds, rows, pins, objs, n)
  BY DEF StageOk
<1> QED BY <1>1, <1>2, SpIsOk

LEMMA NewIsGentle ==
  ASSUME NEW d PROVE FilesShape(New(d)) /\ (\A f : Gently(f, New(d))) /\ New(d).dir = d
<1>1. FilesShape(New(d)) /\ New(d).dir = d
  BY DEF New, FilesShape, F!Unset, F!Branch
<1>2. New(d).packed = F!Unset /\ \A b \in F!Branch : New(d).loose[b] = NoId
  BY DEF New, F!Unset
<1> QED BY <1>1, <1>2, NewGently

LEMMA DirFields ==
  ASSUME NEW f, NEW t, NEW b
  PROVE  /\ Dir(f, t, b).files = f /\ Dir(f, t, b).task = t /\ Dir(f, t, b).base = b
         /\ \A g : [Dir(f, t, b) EXCEPT !.files = g] = Dir(g, t, b)
  BY DEF Dir

\* What a removal leaves.
LEMMA Emptied ==
  /\ P!NoDir = Dir(New("none"), NoId, NoId)
  /\ \A s \in P!Partial : \E d \in {"init", "bare"} : s = Dir(New(d), NoId, NoId)
  /\ P!Born = New("init")
<1>1. P!NoDir = Dir(New("none"), NoId, NoId)
  BY SamePoolFiles DEF P!NoDir, Dir, New, F!Files
<1>2. P!Born = New("init")
  BY SamePoolFiles DEF P!Born, New, F!Files
<1>3. ASSUME NEW d PROVE [P!NoDir EXCEPT !.files.dir = d] = Dir(New(d), NoId, NoId)
  <2>1. P!NoDir.files = New("none") /\ [New("none") EXCEPT !.dir = d] = New(d)
    BY <1>1 DEF Dir, New
  <2>2. [P!NoDir EXCEPT !.files = New(d)] = Dir(New(d), NoId, NoId)
    BY <1>1 DEF Dir
  <2> QED BY <2>1, <2>2
<1> QED BY <1>1, <1>2, <1>3 DEF P!Partial

LEMMA OneSpawner == \A p, q \in PoolSpawner : p = q
  BY CloneAssumption

LEMMA OneGoes ==
  ASSUME PoolInv, NEW p \in PoolSpawner, NEW x
  PROVE  [spawn EXCEPT ![p].at = x] =
           [q \in PoolSpawner |-> Sp(x, spawn[p].task, spawn[p].busy, spawn[p].listed, spawn[p].slot, spawn[p].base)]
<1> DEFINE s == spawn[p]
           r == Sp(x, s.task, s.busy, s.listed, s.slot, s.base)
<1>1. s = Sp(s.at, s.task, s.busy, s.listed, s.slot, s.base)
  BY DEF PoolInv, SpawnOk
<1>2. [s EXCEPT !.at = x] = r
  BY <1>1 DEF Sp
<1>3. [spawn EXCEPT ![p] = r] = [q \in PoolSpawner |-> r]
  <2> HIDE DEF r
  <2> QED BY OneSpawner DEF PoolInv, PoolTables
<1> HIDE DEF r
<1>4. [spawn EXCEPT ![p].at = x] = [spawn EXCEPT ![p] = r]
  BY <1>2
<1> QED BY <1>3, <1>4 DEF r

LEMMA OneIs ==
  ASSUME PoolInv, NEW p \in PoolSpawner, NEW r
  PROVE  [spawn EXCEPT ![p] = r] = [q \in PoolSpawner |-> r]
  BY OneSpawner DEF PoolInv, PoolTables

\* Where a spawner stands, in its own words.
LEMMA Standing ==
  ASSUME PoolInv, NEW p \in PoolSpawner
  PROVE  /\ spawn[p] = Sp(spawn[p].at, spawn[p].task, spawn[p].busy, spawn[p].listed, spawn[p].slot, spawn[p].base)
         /\ StageOk(spawn[p].at, spawn[p].task, spawn[p].busy, spawn[p].listed, spawn[p].slot, spawn[p].base,
                    eye[p], dir, named, pin, main.objs, made)
  BY DEF PoolInv, SpawnOk

LEMMA Becoming ==
  ASSUME PoolInv, NEW k, NEW s, P!Becomes(k, s)
  PROVE  /\ dir' = [j \in PoolPlace |-> IF j = k THEN s ELSE dir[j]]
         /\ eye' = [p \in PoolSpawner |-> IF spawn[p].slot = k THEN F!Watched(eye[p], s.files) ELSE eye[p]]
<1>1. dir' = [dir EXCEPT ![k] = s] /\ eye' = P!Seen(k, s) /\ dir = [j \in PoolPlace |-> dir[j]]
  BY DEF P!Becomes, PoolInv, PoolTables
<1>2. eye' = [p \in PoolSpawner |-> IF spawn[p].slot = k THEN F!Watched(eye[p], s.files) ELSE eye[p]]
  BY <1>1, SamePoolFiles DEF P!Seen
<1>3. dir' = [j \in PoolPlace |-> IF j = k THEN s ELSE dir[j]]
  BY <1>1
<1> QED BY <1>2, <1>3

\* One bound for all that is counted.
Counted == made' \in Nat /\ acts' \in Nat /\ made <= made' /\ made' <= acts' /\ acts' <= MaxPoolActs

LEMMA Counting ==
  ASSUME PoolInv, P!Act \/ UNCHANGED acts, made' = made \/ (P!Act /\ made' = made + 1)
  PROVE  Counted
<1>1. /\ made \in Nat /\ acts \in Nat /\ made <= acts /\ acts <= MaxPoolActs /\ MaxPoolActs \in Nat
  BY CloneAssumption DEF PoolInv
<1> QED BY <1>1 DEF Counted, P!Act

\* The spawner's own steps.
LEMMA SpawnerMoves ==
  ASSUME PoolInv, NEW p \in PoolSpawner, NEW r, spawn' = [q \in PoolSpawner |-> r], PoolTables',
         MainOk(main', remote', made), made' = made, Counted,
         SpawnOk(r, eye'[p], dir', named', pin', main'.objs, made),
         \A j \in PoolPlace : HeldOk(dir'[j], j, named', pin', main'.objs, made)
  PROVE  PoolInv'
<1>1. \A q \in PoolSpawner : SpawnOk(spawn'[q], eye'[q], dir', named', pin', main'.objs, made')
  <2> SUFFICES ASSUME NEW q \in PoolSpawner PROVE SpawnOk(spawn'[q], eye'[q], dir', named', pin', main'.objs, made')
    OBVIOUS
  <2>1. q = p /\ spawn'[q] = r
    BY OneSpawner
  <2> QED BY <2>1
<1> QED BY <1>1 DEF PoolInv, Counted

\* A slot that is not the one of the step.
LEMMA SlotsKeep ==
  ASSUME PoolInv, NEW k, NEW s, dir' = [j \in PoolPlace |-> IF j = k THEN s ELSE dir[j]],
         k \in PoolPlace => HeldOk(s, k, named', pin', main'.objs, made),
         \A u \in PoolTask, j \in PoolPlace : named'[u] = j => named[u] = j /\ pin'[u] = pin[u],
         main.objs \subseteq main'.objs
  PROVE  \A j \in PoolPlace : HeldOk(dir'[j], j, named', pin', main'.objs, made)
<1> SUFFICES ASSUME NEW j \in PoolPlace PROVE HeldOk(dir'[j], j, named', pin', main'.objs, made)
  OBVIOUS
<1>1. CASE j = k
  BY <1>1
<1>2. CASE j # k
  <2>1. dir'[j] = dir[j] /\ HeldOk(dir[j], j, named, pin, main.objs, made)
    BY <1>2 DEF PoolInv
  <2> QED BY <2>1 DEF HeldOk
<1> QED BY <1>1, <1>2

LEMMA SlotsStay ==
  ASSUME PoolInv, dir' = dir,
         \A u \in PoolTask, j \in PoolPlace : named'[u] = j => named[u] = j /\ pin'[u] = pin[u],
         main.objs \subseteq main'.objs
  PROVE  \A j \in PoolPlace : HeldOk(dir'[j], j, named', pin', main'.objs, made)
<1> SUFFICES ASSUME NEW j \in PoolPlace PROVE HeldOk(dir'[j], j, named', pin', main'.objs, made)
  OBVIOUS
<1>1. HeldOk(dir[j], j, named, pin, main.objs, made)
  BY DEF PoolInv
<1> QED BY <1>1 DEF HeldOk

\* A directory with no repository in it yet is nobody's.
LEMMA BareIsHeld ==
  ASSUME NEW d \in {"none", "init", "bare"}, NEW t, NEW b, NEW k, NEW rows, NEW pins, NEW objs, NEW n
  PROVE  HeldOk(Dir(New(d), t, b), k, rows, pins, objs, n)
  BY NewIsGentle, DirFields DEF HeldOk

LEMMA EmptiedIsHeld ==
  ASSUME NEW s \in P!Partial \cup {P!NoDir}, NEW k, NEW rows, NEW pins, NEW objs, NEW n
  PROVE  HeldOk(s, k, rows, pins, objs, n)
  BY Emptied, BareIsHeld

LEMMA TablesStay ==
  ASSUME PoolInv, NEW r, spawn' = [q \in PoolSpawner |-> r],
         eye' = [q \in PoolSpawner |-> eye'[q]], dir' = [j \in PoolPlace |-> dir'[j]],
         named' = [t \in PoolTask |-> named'[t]], pin' = [t \in PoolTask |-> pin'[t]]
  PROVE  PoolTables'
  BY DEF PoolTables

\* What others do to the files of a slot, that a spawner may be looking at.
LEMMA OthersMove ==
  ASSUME PoolInv, NEW k \in PoolPlace, NEW s, P!Becomes(k, s), UNCHANGED <<main, remote, pin, named, spawn>>, Counted,
         s = Dir(s.files, s.task, s.base), FilesShape(s.files), Gently(dir[k].files, s.files),
         \/ s.files.dir = "none"
         \/ s.files.dir = dir[k].files.dir /\ s.task = dir[k].task /\ s.base = dir[k].base
  PROVE  PoolInv'
<1>1. /\ dir' = [j \in PoolPlace |-> IF j = k THEN s ELSE dir[j]]
      /\ eye' = [p \in PoolSpawner |-> IF spawn[p].slot = k THEN F!Watched(eye[p], s.files) ELSE eye[p]]
  BY Becoming
<1>2. PoolTables'
  BY <1>1 DEF PoolInv, PoolTables
<1>3. made \in Nat /\ made' \in Nat /\ made <= made'
  BY DEF PoolInv, Counted
<1>4. MainOk(main', remote', made')
  BY <1>3, Grows DEF PoolInv, MainOk
<1>5. ASSUME NEW j \in PoolPlace PROVE HeldOk(dir'[j], j, named', pin', main'.objs, made')
  <2>0. HeldOk(dir[j], j, named, pin, main.objs, made)
    BY DEF PoolInv
  <2>1. CASE j # k
    BY <1>1, <1>3, <2>0, <2>1, Grows DEF HeldOk
  <2>2. CASE j = k
    <3>1. dir'[j] = s
      BY <1>1, <2>2
    <3> QED BY <1>3, <2>0, <2>2, <3>1, Grows DEF HeldOk
  <2> QED BY <2>1, <2>2
<1>6. ASSUME NEW p \in PoolSpawner PROVE SpawnOk(spawn'[p], eye'[p], dir', named', pin', main'.objs, made')
  <2>0. SpawnOk(spawn[p], eye[p], dir, named, pin, main.objs, made)
    BY DEF PoolInv
  <2> DEFINE l == spawn[p].slot
  <2>1. ASSUME spawn[p].at = "look" PROVE EyeOk(eye'[p], dir'[l].files)
    <3>0. l \in PoolPlace /\ EyeOk(eye[p], dir[l].files)
      BY <2>0, <2>1 DEF SpawnOk, StageOk
    <3>1. CASE l # k
      BY <1>1, <3>0, <3>1
    <3>2. CASE l = k
      <4>1. eye'[p] = F!Watched(eye[p], s.files) /\ dir'[l] = s
        BY <1>1, <3>0, <3>2
      <4> QED BY <3>0, <3>2, <4>1, WatchedIsOk
    <3> QED BY <3>1, <3>2
  <2>2. ASSUME l \in PoolPlace
        PROVE  \/ dir'[l].files.dir = "none"
               \/ dir'[l].files.dir = dir[l].files.dir /\ dir'[l].task = dir[l].task /\ dir'[l].base = dir[l].base
    BY <1>1, <2>2
  <2>3. l \in PoolPlace /\ F!HasGit(dir'[l].files) /\ IsFor(dir[l], spawn[p].task, spawn[p].base) =>
          F!HasGit(dir[l].files) /\ IsFor(dir'[l], spawn[p].task, spawn[p].base)
    BY <2>2 DEF F!HasGit, IsFor
  <2>4. l \in PoolPlace /\ F!HasGit(dir'[l].files) => F!HasGit(dir[l].files)
    BY <2>2 DEF F!HasGit
  <2>5. l \in PoolPlace /\ dir'[l].files.dir = "repo" =>
          dir[l].files.dir = "repo" /\ (IsFor(dir[l], spawn[p].task, spawn[p].base) => IsFor(dir'[l], spawn[p].task, spawn[p].base))
    BY <2>2 DEF IsFor
  <2>6. Below(made) \subseteq Below(made')
    BY <1>3, Grows
  <2> HIDE DEF l
  <2> QED BY <2>0, <2>1, <2>3, <2>4, <2>5, <2>6 DEF SpawnOk, StageOk, l
<1> QED BY <1>2, <1>4, <1>5, <1>6 DEF PoolInv, Counted

\* What others do to the rows and to the project's commits.
LEMMA OthersCommit ==
  ASSUME PoolInv, UNCHANGED <<dir, eye, spawn, pin>>, Counted, MainOk(main', remote', made'),
         named' = [u \in PoolTask |-> named'[u]], \A u \in PoolTask : named'[u] \in {named[u], 0},
         \A u \in PoolTask : pin[u] \in main.objs \cap Below(made) => pin[u] \in main'.objs
  PROVE  PoolInv'
<1>1. PoolTables'
  BY DEF PoolInv, PoolTables
<1>3. Below(made) \subseteq Below(made')
  BY Grows DEF PoolInv, Counted
<1>5. ASSUME NEW j \in PoolPlace PROVE HeldOk(dir'[j], j, named', pin', main'.objs, made')
  <2>0. HeldOk(dir[j], j, named, pin, main.objs, made)
    BY DEF PoolInv
  <2>1. j # 0
    BY CloneAssumption DEF PoolPlace
  <2> QED BY <1>3, <2>0, <2>1 DEF HeldOk
<1>6. ASSUME NEW p \in PoolSpawner PROVE SpawnOk(spawn'[p], eye'[p], dir', named', pin', main'.objs, made')
  <2>0. SpawnOk(spawn[p], eye[p], dir, named, pin, main.objs, made)
    BY DEF PoolInv
  <2>1. spawn[p].at # "rest" => spawn[p].task \in PoolTask
    BY <2>0 DEF SpawnOk, StageOk
  <2> QED BY <1>3, <2>0, <2>1 DEF SpawnOk, StageOk
<1> QED BY <1>1, <1>5, <1>6 DEF PoolInv, Counted

LEMMA PoolStarts == P!Init => PoolInv
<1> SUFFICES ASSUME P!Init PROVE PoolInv
  OBVIOUS
<1>1. /\ main = [def |-> {}, fetched |-> {}, objs |-> {{}}] /\ remote = {} /\ made = 0 /\ acts = 0
      /\ pin = [t \in PoolTask |-> NoId] /\ named = [t \in PoolTask |-> 0]
      /\ dir = [k \in PoolPlace |-> P!NoDir] /\ spawn = [p \in PoolSpawner |-> P!Idle]
      /\ eye = [p \in PoolSpawner |-> P!Shut]
  BY DEF P!Init, P!Place, PoolPlace
<1>2. MaxPoolActs \in Nat
  BY CloneAssumption
<1>3. PoolTables
  BY <1>1 DEF PoolTables
<1>4. MainOk(main, remote, made)
  BY <1>1 DEF MainOk, Below
<1>5. \A k \in PoolPlace : HeldOk(dir[k], k, named, pin, main.objs, made)
  BY <1>1, EmptiedIsHeld
<1>6. \A p \in PoolSpawner : SpawnOk(spawn[p], eye[p], dir, named, pin, main.objs, made)
  BY <1>1, IdleIsOk
<1> QED BY <1>1, <1>2, <1>3, <1>4, <1>5, <1>6 DEF PoolInv

LEMMA FetchedIsOk ==
  ASSUME PoolInv, NEW m \in {main, P!Fetched}
  PROVE  /\ MainOk(m, remote, made) /\ main.objs \subseteq m.objs
         /\ MainOk([m EXCEPT !.def = remote], remote, made)
         /\ [m EXCEPT !.def = remote].objs = m.objs
<1>1. MainOk(main, remote, made)
  BY DEF PoolInv
<1>2. CASE m = main
  BY <1>1, <1>2 DEF MainOk
<1>3. CASE m = P!Fetched
  <2> DEFINE o == main.objs \cup P!History(remote, made)
  <2>1. m = [main EXCEPT !.fetched = remote, !.objs = o]
    BY <1>3 DEF P!Fetched
  <2> HIDE DEF o
  <2>2. m = [def |-> main.def, fetched |-> remote, objs |-> o]
    <3>1. [main EXCEPT !.fetched = remote] = [def |-> main.def, fetched |-> remote, objs |-> main.objs]
      BY <1>1 DEF MainOk
    <3> DEFINE d == main.def  r == main.objs
    <3> HIDE DEF d, r
    <3>2. [[def |-> d, fetched |-> remote, objs |-> r] EXCEPT !.objs = o] = [def |-> d, fetched |-> remote, objs |-> o]
      OBVIOUS
    <3>3. [main EXCEPT !.fetched = remote] = [def |-> d, fetched |-> remote, objs |-> r]
      BY <3>1 DEF d, r
    <3>4. m = [def |-> d, fetched |-> remote, objs |-> o]
      BY <2>1, <3>2, <3>3, Zenon
    <3> QED BY <3>4 DEF d
  <2>3. main.objs \subseteq o
    BY DEF o
  <2> QED BY <1>1, <2>2, <2>3 DEF MainOk
<1> QED BY <1>2, <1>3

LEMMA PoolSpawnStep ==
  ASSUME PoolInv, NEW p \in PoolSpawner,
         \/ \E t \in PoolTask : P!Locks(p, t)
         \/ P!Resolves(p) \/ P!Considers(p) \/ P!Reads(p) \/ P!Judges(p) \/ P!Removes(p) \/ P!Extends(p)
         \/ P!Pins(p) \/ P!InitsRepo(p) \/ P!ChecksOut(p) \/ P!Undoes(p) \/ P!Saves(p) \/ P!Dies(p)
  PROVE  PoolInv'
<1> DEFINE a == spawn[p].at  t == spawn[p].task  b == spawn[p].busy  l == spawn[p].listed
           k == spawn[p].slot  c == spawn[p].base
<1>0. /\ spawn[p] = Sp(a, t, b, l, k, c)
      /\ StageOk(a, t, b, l, k, c, eye[p], dir, named, pin, main.objs, made)
  BY Standing
<1>1. /\ MainOk(main, remote, made) /\ PoolTables /\ made \in Nat
      /\ \A j \in PoolPlace : HeldOk(dir[j], j, named, pin, main.objs, made)
      /\ MaxPoolSlot \in Nat /\ PoolPlace \subseteq Nat \ {0}
  BY CloneAssumption DEF PoolInv, PoolPlace
<1>2. ASSUME NEW x PROVE [spawn EXCEPT ![p].at = x] = [q \in PoolSpawner |-> Sp(x, t, b, l, k, c)]
  BY OneGoes
<1>3. [spawn EXCEPT ![p] = P!Idle] = [q \in PoolSpawner |-> P!Idle]
  BY OneIs
<1>4. ASSUME UNCHANGED <<dir, named, pin>>, main.objs \subseteq main'.objs
      PROVE  \A j \in PoolPlace : HeldOk(dir'[j], j, named', pin', main'.objs, made)
  BY <1>4, SlotsStay
<1>5. ASSUME NEW s, P!Becomes(k, s), UNCHANGED <<named, main>>,
             k \in PoolPlace => HeldOk(s, k, named, pin', main.objs, made),
             \A u \in PoolTask, j \in PoolPlace : named[u] = j => pin'[u] = pin[u]
      PROVE  \A j \in PoolPlace : HeldOk(dir'[j], j, named', pin', main'.objs, made)
  <2>1. dir' = [j \in PoolPlace |-> IF j = k THEN s ELSE dir[j]]
    BY <1>5, Becoming
  <2>2. named' = named /\ main' = main
    BY <1>5
  <2>3. SUFFICES ASSUME NEW j \in PoolPlace PROVE HeldOk(dir'[j], j, named, pin', main.objs, made)
    BY <2>2
  <2>4. HeldOk(dir[j], j, named, pin, main.objs, made)
    BY <1>1
  <2>5. CASE j = k
    BY <1>5, <2>1, <2>5
  <2>6. CASE j # k
    <3>1. dir'[j] = dir[j]
      BY <2>1, <2>6
    <3> QED BY <1>5, <2>4, <3>1 DEF HeldOk
  <2> QED BY <2>5, <2>6
\* A step that leaves the tables but for the spawner's own line, and the eye.
<1>6. ASSUME NEW x, NEW y, UNCHANGED <<remote, pin, made, dir, named>>, P!Act \/ UNCHANGED acts,
             MainOk(main', remote, made), main.objs \subseteq main'.objs,
             spawn' = [q \in PoolSpawner |-> x], SpawnOk(x, eye'[p], dir, named, pin, main'.objs, made),
             eye' = eye \/ eye' = [eye EXCEPT ![p] = y]
      PROVE  PoolInv'
  <2>1. PoolTables'
    BY <1>1, <1>6 DEF PoolTables
  <2>2. Counted
    BY <1>6, Counting
  <2> QED BY <1>4, <1>6, <2>1, <2>2, SpawnerMoves
\* A step that turns its slot into s, and the line into x.
<1>7. ASSUME NEW x, NEW s, P!Becomes(k, s), UNCHANGED <<main, remote, made, named>>, P!Act \/ UNCHANGED acts,
             spawn' = [q \in PoolSpawner |-> x], SpawnOk(x, eye'[p], dir', named, pin', main.objs, made),
             k \in PoolPlace => HeldOk(s, k, named, pin', main.objs, made),
             pin' = [u \in PoolTask |-> pin'[u]],
             \A u \in PoolTask, j \in PoolPlace : named[u] = j => pin'[u] = pin[u]
      PROVE  PoolInv'
  <2>1. PoolTables'
    <3>1. /\ dir' = [j \in PoolPlace |-> IF j = k THEN s ELSE dir[j]]
          /\ eye' = [q \in PoolSpawner |-> IF spawn[q].slot = k THEN F!Watched(eye[q], s.files) ELSE eye[q]]
      BY <1>7, Becoming
    <3>2. eye' = [q \in PoolSpawner |-> eye'[q]] /\ dir' = [j \in PoolPlace |-> dir'[j]]
      BY <3>1
    <3> QED BY <1>1, <1>7, <3>2, TablesStay DEF PoolTables
  <2>2. Counted
    BY <1>7, Counting
  <2> QED BY <1>1, <1>5, <1>7, <2>1, <2>2, SpawnerMoves
<1>8. CASE \E u \in PoolTask : P!Locks(p, u)
  <2>1. PICK u \in PoolTask : P!Locks(p, u)
    BY <1>8
  <2> DEFINE rows == {named[w] : w \in PoolTask} \ {0}
             r == Sp("source", u, rows, {}, 0, NoId)
             i == [P!Idle EXCEPT !.at = "source", !.task = u, !.busy = rows]
  <2>2. /\ spawn' = [spawn EXCEPT ![p] = i]
        /\ named[u] = 0 /\ UNCHANGED <<main, remote, pin, made, dir, eye, named, acts>>
    BY <2>1 DEF P!Locks, P!repos
  <2>3. i = r
    <3>1. P!Idle = Sp("rest", NoId, {}, {}, 0, NoId)
      BY DEF P!Idle, Sp
    <3> HIDE DEF rows
    <3>2. [P!Idle EXCEPT !.at = "source"] = Sp("source", NoId, {}, {}, 0, NoId)
      BY <3>1 DEF Sp
    <3>3. [Sp("source", NoId, {}, {}, 0, NoId) EXCEPT !.task = u] = Sp("source", u, {}, {}, 0, NoId)
      BY DEF Sp
    <3>4. [Sp("source", u, {}, {}, 0, NoId) EXCEPT !.busy = rows] = r
      BY DEF Sp
    <3> HIDE DEF r
    <3> QED BY <3>2, <3>3, <3>4, Zenon
  <2>4. StageOk("source", u, rows, {}, 0, NoId, eye'[p], dir, named, pin, main'.objs, made)
    BY <2>2 DEF StageOk
  <2> HIDE DEF rows
  <2>5. SpawnOk(r, eye'[p], dir, named, pin, main'.objs, made)
    BY <2>4, SpIsOk
  <2> HIDE DEF r, i
  <2>6. spawn' = [q \in PoolSpawner |-> r]
    BY <2>2, <2>3, OneIs
  <2> QED BY <1>1, <1>6, <2>2, <2>5, <2>6
<1>9. CASE P!Resolves(p)
  <2>1. /\ a = "source" /\ main' \in {main, P!Fetched} /\ UNCHANGED <<remote, pin, made, dir, eye, named, acts>>
        /\ \/ spawn' = [spawn EXCEPT ![p].at = "scan", ![p].base = main'.fetched, ![p].listed = P!Listed]
           \/ spawn' = [spawn EXCEPT ![p] = P!Idle]
    BY <1>9 DEF P!Resolves, P!At, P!Unlocks, P!Quits
  <2>2. MainOk(main', remote, made) /\ main.objs \subseteq main'.objs
    BY <2>1, FetchedIsOk
  <2>3. CASE spawn' = [spawn EXCEPT ![p] = P!Idle]
    BY <1>3, <1>6, <2>1, <2>2, <2>3, IdleIsOk
  <2>4. CASE spawn' = [spawn EXCEPT ![p].at = "scan", ![p].base = main'.fetched, ![p].listed = P!Listed]
    <3> DEFINE f == main'.fetched  r == Sp("scan", t, b, P!Listed, k, f)
    <3>1. spawn' = [q \in PoolSpawner |-> r]
      <4> DEFINE g == [spawn EXCEPT ![p].at = "scan"]
                 h == [g EXCEPT ![p].base = f]
                 i == [h EXCEPT ![p].listed = P!Listed]
      <4>1. spawn' = i
        BY <2>4
      <4> HIDE DEF f, t, b, l, k, c
      <4>2. g = [q \in PoolSpawner |-> Sp("scan", t, b, l, k, c)]
        BY <1>2
      <4> HIDE DEF g
      <4>3. [Sp("scan", t, b, l, k, c) EXCEPT !.base = f] = Sp("scan", t, b, l, k, f)
        BY DEF Sp
      <4>4. h = [q \in PoolSpawner |-> Sp("scan", t, b, l, k, f)]
        BY <4>2, <4>3, OneSpawner
      <4> HIDE DEF h
      <4>5. [Sp("scan", t, b, l, k, f) EXCEPT !.listed = P!Listed] = r
        BY DEF Sp
      <4>6. i = [q \in PoolSpawner |-> r]
        BY <4>4, <4>5, OneSpawner
      <4> QED BY <4>1, <4>6
    <3>2. f \in Below(made)
      BY <2>2 DEF MainOk
    <3>3. P!Listed \subseteq PoolPlace
      BY DEF P!Listed, P!Place, PoolPlace
    <3>4. StageOk("scan", t, b, P!Listed, k, f, eye'[p], dir, named, pin, main'.objs, made)
      BY <1>0, <2>1, <3>2, <3>3 DEF StageOk
    <3> HIDE DEF f, t, b, k
    <3>5. SpawnOk(r, eye'[p], dir, named, pin, main'.objs, made)
      BY <3>4, SpIsOk
    <3> QED BY <1>6, <2>1, <2>2, <3>1, <3>5
  <2> QED BY <2>1, <2>3, <2>4
<1>10. CASE P!Considers(p)
  <2> DEFINE left == {x \in l \ b : x > k}
             m == P!Min(left)
  <2>1. /\ a = "scan" /\ left # {} /\ UNCHANGED <<main, remote, pin, made, dir, named, acts>>
        /\ \/ /\ F!HasGit(dir[m].files) /\ spawn' = [spawn EXCEPT ![p].at = "look", ![p].slot = m]
              /\ eye' = [eye EXCEPT ![p] = F!Opened(dir[m].files)]
           \/ /\ ~F!HasGit(dir[m].files) /\ spawn' = [spawn EXCEPT ![p].at = "remove", ![p].slot = m]
              /\ eye' = eye
    BY <1>10, SamePoolFiles DEF P!Considers, P!At, P!repos
  <2>2. m \in left
    <3>1. left \subseteq Nat
      BY <1>0, <1>1 DEF StageOk
    <3> QED BY <2>1, <3>1, MinIsOne
  <2>3. m \in PoolPlace /\ m \notin b
    BY <1>0, <2>2 DEF StageOk
  <2> HIDE DEF m
  <2>4. ASSUME NEW x PROVE [spawn EXCEPT ![p].at = x, ![p].slot = m] = [q \in PoolSpawner |-> Sp(x, t, b, l, m, c)]
    <3> DEFINE g == [spawn EXCEPT ![p].at = x]
    <3> HIDE DEF t, b, l, k, c
    <3>1. g = [q \in PoolSpawner |-> Sp(x, t, b, l, k, c)]
      BY <1>2
    <3> HIDE DEF g
    <3>2. [Sp(x, t, b, l, k, c) EXCEPT !.slot = m] = Sp(x, t, b, l, m, c)
      BY DEF Sp
    <3>3. [g EXCEPT ![p].slot = m] = [q \in PoolSpawner |-> Sp(x, t, b, l, m, c)]
      BY <3>1, <3>2, OneSpawner
    <3> QED BY <3>3 DEF g
  <2>5. CASE spawn' = [spawn EXCEPT ![p].at = "look", ![p].slot = m] /\ eye' = [eye EXCEPT ![p] = F!Opened(dir[m].files)]
    <3>1. eye'[p] = F!Opened(dir[m].files)
      BY <1>1, <2>5 DEF PoolTables
    <3>2. EyeOk(eye'[p], dir[m].files)
      BY <3>1, OpenedIsOk
    <3>3. StageOk("look", t, b, l, m, c, eye'[p], dir, named, pin, main'.objs, made)
      BY <1>0, <2>1, <2>3, <3>2 DEF StageOk
    <3> DEFINE r == Sp("look", t, b, l, m, c)
    <3> HIDE DEF t, b, l, k, c
    <3>4. SpawnOk(r, eye'[p], dir, named, pin, main'.objs, made) /\ spawn' = [q \in PoolSpawner |-> r]
      BY <2>4, <2>5, <3>3, SpIsOk
    <3> HIDE DEF r
    <3> QED BY <1>1, <1>6, <2>1, <2>4, <2>5, <3>4
  <2>6. CASE spawn' = [spawn EXCEPT ![p].at = "remove", ![p].slot = m] /\ eye' = eye
    <3>3. StageOk("remove", t, b, l, m, c, eye'[p], dir, named, pin, main'.objs, made)
      BY <1>0, <2>1, <2>3 DEF StageOk
    <3> DEFINE r == Sp("remove", t, b, l, m, c)
    <3> HIDE DEF t, b, l, k, c
    <3>4. SpawnOk(r, eye'[p], dir, named, pin, main'.objs, made) /\ spawn' = [q \in PoolSpawner |-> r]
      BY <2>4, <2>6, <3>3, SpIsOk
    <3> HIDE DEF r
    <3> QED BY <1>1, <1>6, <2>1, <2>4, <2>6, <3>4
  <2> QED BY <2>1, <2>5, <2>6
<1>11. CASE P!Reads(p)
  <2>1. /\ a = "look" /\ F!Watching(eye[p]) /\ UNCHANGED <<main, remote, pin, made, dir, named, spawn, acts>>
        /\ \E e \in {F!Looks(eye[p], dir[k].files), F!Refused(eye[p])} : eye' = [eye EXCEPT ![p] = e]
    BY <1>11, SamePoolFiles DEF P!Reads, P!At, P!repos
  <2>2. PICK e \in {F!Looks(eye[p], dir[k].files), F!Refused(eye[p])} : eye' = [eye EXCEPT ![p] = e]
    BY <2>1
  <2>3. eye'[p] = e
    BY <1>1, <2>2 DEF PoolTables
  <2>4. EyeOk(e, dir[k].files)
    <3>1. k \in PoolPlace /\ EyeOk(eye[p], dir[k].files)
      BY <1>0, <2>1 DEF StageOk
    <3>2. FilesShape(dir[k].files)
      BY <1>1, <3>1 DEF HeldOk
    <3> QED BY <2>1, <2>2, <3>1, <3>2, LooksIsOk, RefusedIsOk
  <2>5. StageOk(a, t, b, l, k, c, eye'[p], dir, named, pin, main'.objs, made)
    BY <1>0, <2>1, <2>3, <2>4 DEF StageOk
  <2>6. SpawnOk(spawn[p], eye'[p], dir, named, pin, main'.objs, made)
    BY <1>0, <2>5 DEF SpawnOk
  <2>7. spawn' = [q \in PoolSpawner |-> spawn[p]]
    BY <1>1, <2>1, OneSpawner DEF PoolTables
  <2> QED BY <1>1, <1>6, <2>1, <2>2, <2>6, <2>7
<1>12. CASE P!Judges(p)
  <2>1. /\ a = "look" /\ UNCHANGED <<main, remote, pin, made, dir, named, acts>>
        /\ eye' = [eye EXCEPT ![p] = F!Shut]
        /\ \E x \in {"remove", "scan"} : spawn' = [spawn EXCEPT ![p].at = x]
    BY <1>12, SamePoolFiles DEF P!Judges, P!At, P!Goes, P!repos
  <2>2. PICK x \in {"remove", "scan"} : spawn' = [spawn EXCEPT ![p].at = x]
    BY <2>1
  <2>3. StageOk(x, t, b, l, k, c, eye'[p], dir, named, pin, main'.objs, made)
    BY <1>0, <2>1 DEF StageOk
  <2> DEFINE r == Sp(x, t, b, l, k, c)
  <2> HIDE DEF t, b, l, k, c
  <2>4. SpawnOk(r, eye'[p], dir, named, pin, main'.objs, made) /\ spawn' = [q \in PoolSpawner |-> r]
    BY <1>2, <2>2, <2>3, SpIsOk
  <2> HIDE DEF r
  <2> QED BY <1>1, <1>2, <1>6, <2>1, <2>2, <2>4
<1>13. CASE P!Removes(p)
  <2>1. /\ a = "remove" /\ UNCHANGED <<main, remote, pin, made, named>>
        /\ \E x \in {"pin", "scan"}, s \in P!Partial \cup {P!NoDir} :
             spawn' = [spawn EXCEPT ![p].at = x] /\ P!Becomes(k, s)
        /\ P!Act \/ UNCHANGED acts
    BY <1>13 DEF P!Removes, P!At, P!Goes, P!repos
  <2>2. PICK x \in {"pin", "scan"}, s \in P!Partial \cup {P!NoDir} :
          spawn' = [spawn EXCEPT ![p].at = x] /\ P!Becomes(k, s)
    BY <2>1
  <2>3. StageOk(x, t, b, l, k, c, eye'[p], dir', named, pin, main.objs, made)
    BY <1>0, <2>1 DEF StageOk
  <2>4. HeldOk(s, k, named, pin', main.objs, made)
    BY EmptiedIsHeld
  <2>5. pin' = pin /\ pin' = [u \in PoolTask |-> pin'[u]]
    BY <1>1, <2>1 DEF PoolTables
  <2> DEFINE r == Sp(x, t, b, l, k, c)
  <2>6. SpawnOk(r, eye'[p], dir', named, pin, main.objs, made) /\ spawn' = [q \in PoolSpawner |-> r]
    <3> HIDE DEF t, b, l, k, c
    <3> QED BY <1>2, <2>2, <2>3, SpIsOk
  <2> HIDE DEF r
  <2> QED BY <1>7, <2>1, <2>2, <2>4, <2>5, <2>6
<1>14. CASE P!Extends(p)
  <2> DEFINE new == P!NextIndex(l)
  <2>1. /\ a = "scan" /\ UNCHANGED <<main, remote, pin, made, dir, eye, named, acts>>
        /\ \/ spawn' = [spawn EXCEPT ![p] = P!Idle]
           \/ spawn' = [spawn EXCEPT ![p].at = "pin", ![p].slot = new]
    BY <1>14 DEF P!Extends, P!At, P!repos, P!Unlocks, P!Quits
  <2> HIDE DEF new
  <2>2. CASE spawn' = [spawn EXCEPT ![p] = P!Idle]
    BY <1>1, <1>3, <1>6, <2>1, <2>2, IdleIsOk
  <2>3. CASE spawn' = [spawn EXCEPT ![p].at = "pin", ![p].slot = new]
    <3>1. StageOk("pin", t, b, l, new, c, eye'[p], dir, named, pin, main'.objs, made)
      BY <1>0, <2>1 DEF StageOk
    <3> DEFINE g == [spawn EXCEPT ![p].at = "pin"]  r == Sp("pin", t, b, l, new, c)
    <3> HIDE DEF t, b, l, k, c
    <3>2. g = [q \in PoolSpawner |-> Sp("pin", t, b, l, k, c)]
      BY <1>2
    <3>3. spawn' = [g EXCEPT ![p].slot = new]
      BY <2>3
    <3> HIDE DEF g
    <3>4. [Sp("pin", t, b, l, k, c) EXCEPT !.slot = new] = r
      BY DEF Sp
    <3>5. spawn' = [q \in PoolSpawner |-> r]
      BY <3>2, <3>3, <3>4, OneSpawner
    <3>6. SpawnOk(r, eye'[p], dir, named, pin, main'.objs, made)
      BY <3>1, SpIsOk
    <3> QED BY <1>1, <1>6, <2>1, <3>5, <3>6
  <2> QED BY <2>1, <2>2, <2>3
<1>15. CASE P!Pins(p)
  <2>1. /\ a = "pin" /\ UNCHANGED <<main, remote, made, dir, eye, named, acts>>
        /\ \/ c \in main.objs /\ pin' = [pin EXCEPT ![t] = c] /\ spawn' = [spawn EXCEPT ![p].at = "init"]
           \/ spawn' = [spawn EXCEPT ![p] = P!Idle] /\ pin' = pin
    BY <1>15 DEF P!Pins, P!At, P!Goes, P!Unlocks, P!Quits
  <2>2. CASE spawn' = [spawn EXCEPT ![p] = P!Idle] /\ pin' = pin
    BY <1>1, <1>3, <1>6, <2>1, <2>2, IdleIsOk
  <2>3. CASE c \in main.objs /\ pin' = [pin EXCEPT ![t] = c] /\ spawn' = [spawn EXCEPT ![p].at = "init"]
    <3>1. t \in PoolTask /\ named[t] = 0
      BY <1>0, <2>1 DEF StageOk
    <3>2. pin'[t] = c /\ pin' = [u \in PoolTask |-> pin'[u]] /\ \A u \in PoolTask : u # t => pin'[u] = pin[u]
      BY <1>1, <2>3, <3>1 DEF PoolTables
    <3>3. StageOk("init", t, b, l, k, c, eye'[p], dir', named', pin', main'.objs, made)
      BY <1>0, <2>1, <2>3, <3>2 DEF StageOk
    <3>4. \A j \in PoolPlace : HeldOk(dir'[j], j, named', pin', main'.objs, made)
      <4>1. \A u \in PoolTask, j \in PoolPlace : named'[u] = j => named[u] = j /\ pin'[u] = pin[u]
        BY <1>1, <2>1, <3>1, <3>2
      <4> QED BY <2>1, <4>1, SlotsStay
    <3> DEFINE r == Sp("init", t, b, l, k, c)
    <3>5. SpawnOk(r, eye'[p], dir', named', pin', main'.objs, made) /\ spawn' = [q \in PoolSpawner |-> r]
      <4> HIDE DEF t, b, l, k, c
      <4> QED BY <1>2, <2>3, <3>3, SpIsOk
    <3> HIDE DEF r
    <3>6. PoolTables'
      BY <1>1, <2>1, <3>2, <3>5 DEF PoolTables
    <3>7. Counted
      BY <2>1, Counting
    <3> QED BY <1>1, <2>1, <3>4, <3>5, <3>6, <3>7, SpawnerMoves
  <2> QED BY <2>1, <2>2, <2>3
<1>16. CASE P!InitsRepo(p)
  <2> DEFINE s == Dir(New("init"), t, c)
  <2>1. /\ a = "init" /\ spawn' = [spawn EXCEPT ![p].at = "checkout"] /\ P!Becomes(k, s)
        /\ UNCHANGED <<main, remote, pin, made, named, acts>>
    BY <1>16, Emptied DEF P!InitsRepo, P!At, P!Goes, P!repos, Dir
  <2>2. k \in PoolPlace => dir'[k] = s
    BY <2>1, Becoming
  <2>3. IsFor(s, t, c)
    BY DirFields DEF IsFor
  <2>4. HeldOk(s, k, named, pin', main.objs, made)
    BY BareIsHeld
  <2> HIDE DEF s
  <2>5. StageOk("checkout", t, b, l, k, c, eye'[p], dir', named, pin', main.objs, made)
    BY <1>0, <2>1, <2>2, <2>3 DEF StageOk
  <2> DEFINE r == Sp("checkout", t, b, l, k, c)
  <2>6. SpawnOk(r, eye'[p], dir', named, pin', main.objs, made) /\ spawn' = [q \in PoolSpawner |-> r]
    <3> HIDE DEF t, b, l, k, c
    <3> QED BY <1>2, <2>1, <2>5, SpIsOk
  <2> HIDE DEF r
  <2>7. pin' = [u \in PoolTask |-> pin'[u]]
    BY <1>1, <2>1 DEF PoolTables
  <2> QED BY <1>7, <2>1, <2>4, <2>6, <2>7
<1>17. CASE P!ChecksOut(p)
  <2> DEFINE s == [dir[k] EXCEPT !.files = P!Seeded(c)]
  <2>1. /\ a = "checkout" /\ spawn' = [spawn EXCEPT ![p].at = "save"] /\ P!Becomes(k, s)
        /\ F!HasGit(dir[k].files) /\ UNCHANGED <<main, remote, pin, made, named, acts>>
    BY <1>17, SamePoolFiles DEF P!ChecksOut, P!At, P!Goes, P!repos
  <2>2. k \in PoolPlace => dir'[k] = s
    BY <2>1, Becoming
  <2>3. ASSUME k \in PoolPlace PROVE s = Dir(P!Seeded(c), t, c)
    <3>1. dir[k] = Dir(dir[k].files, t, c)
      BY <1>0, <1>1, <2>1, <2>3 DEF StageOk, HeldOk, IsFor
    <3> QED BY <3>1, DirFields
  <2>4. FilesShape(P!Seeded(c))
    <3> DEFINE o == [F!Unset EXCEPT !["task"] = c]
    <3>1. o = [x \in F!Branch |-> o[x]] /\ F!Unset = [x \in F!Branch |-> F!Unset[x]]
      BY DEF F!Unset, F!Branch
    <3>2. P!Seeded(c) = [dir |-> "repo", head |-> "task", packed |-> F!Unset, loose |-> o]
      BY SamePoolFiles DEF P!Seeded
    <3> HIDE DEF o
    <3> QED BY <3>1, <3>2 DEF FilesShape, F!Branch
  <2> HIDE DEF s
  <2>5. ASSUME k \in PoolPlace PROVE HeldOk(s, k, named, pin', main.objs, made)
    <3>1. s = Dir(P!Seeded(c), t, c)
      BY <2>3, <2>5
    <3>2. s.files = P!Seeded(c) /\ s.task = t /\ s.base = c
      BY <3>1, DirFields
    <3>3. t \in PoolTask /\ named[t] = 0 /\ k # 0
      BY <1>0, <1>1, <2>1, <2>5 DEF StageOk
    <3> QED BY <2>4, <3>1, <3>2, <3>3 DEF HeldOk
  <2>6. k \in PoolPlace => IsFor(dir'[k], t, c)
    BY <2>2, <2>3, DirFields DEF IsFor
  <2>7. StageOk("save", t, b, l, k, c, eye'[p], dir', named, pin', main.objs, made)
    BY <1>0, <2>1, <2>6 DEF StageOk
  <2> DEFINE r == Sp("save", t, b, l, k, c)
  <2>8. SpawnOk(r, eye'[p], dir', named, pin', main.objs, made) /\ spawn' = [q \in PoolSpawner |-> r]
    <3> HIDE DEF t, b, l, k, c
    <3> QED BY <1>2, <2>1, <2>7, SpIsOk
  <2> HIDE DEF r
  <2>9. pin' = [u \in PoolTask |-> pin'[u]]
    BY <1>1, <2>1 DEF PoolTables
  <2> QED BY <1>7, <2>1, <2>5, <2>8, <2>9
<1>18. CASE P!Undoes(p)
  <2>1. /\ a \in {"init", "checkout"} /\ spawn' = [spawn EXCEPT ![p] = P!Idle] /\ P!Becomes(k, P!NoDir)
        /\ pin' = [pin EXCEPT ![t] = NoId] /\ UNCHANGED <<main, remote, made, named, acts>>
    BY <1>18 DEF P!Undoes, P!At, P!Unlocks, P!Quits
  <2>2. named[t] = 0
    BY <1>0, <2>1 DEF StageOk
  <2>3. pin' = [u \in PoolTask |-> pin'[u]] /\ \A u \in PoolTask : u # t => pin'[u] = pin[u]
    BY <1>1, <2>1 DEF PoolTables
  <2>4. \A u \in PoolTask, j \in PoolPlace : named[u] = j => pin'[u] = pin[u]
    BY <1>1, <2>2, <2>3
  <2>5. HeldOk(P!NoDir, k, named, pin', main.objs, made)
    BY EmptiedIsHeld
  <2>6. SpawnOk(P!Idle, eye'[p], dir', named, pin', main.objs, made)
    BY IdleIsOk
  <2> QED BY <1>3, <1>7, <2>1, <2>3, <2>4, <2>5, <2>6
<1>19. CASE P!Saves(p)
  <2>1. /\ a = "save" /\ spawn' = [spawn EXCEPT ![p] = P!Idle] /\ UNCHANGED <<main, remote, pin, made>>
        /\ \/ named' = [named EXCEPT ![t] = k] /\ UNCHANGED <<dir, eye, acts>>
           \/ P!Act /\ P!Becomes(k, P!NoDir) /\ named' = named
    BY <1>19 DEF P!Saves, P!At, P!Quits, P!repos
  <2>2. SpawnOk(P!Idle, eye'[p], dir', named', pin', main.objs, made)
    BY IdleIsOk
  <2>3. CASE P!Act /\ P!Becomes(k, P!NoDir) /\ named' = named
    <3>1. HeldOk(P!NoDir, k, named, pin', main.objs, made)
      BY EmptiedIsHeld
    <3>2. pin' = pin /\ pin' = [u \in PoolTask |-> pin'[u]]
      BY <1>1, <2>1 DEF PoolTables
    <3> QED BY <1>3, <1>7, <2>1, <2>2, <2>3, <3>1, <3>2
  <2>4. CASE named' = [named EXCEPT ![t] = k] /\ UNCHANGED <<dir, eye, acts>>
    <3>1. /\ named' = [u \in PoolTask |-> named'[u]] /\ \A u \in PoolTask : u # t => named'[u] = named[u]
          /\ t \in PoolTask /\ named'[t] = k
      BY <1>0, <1>1, <2>1, <2>4 DEF PoolTables, StageOk
    <3>2. ASSUME NEW j \in PoolPlace PROVE HeldOk(dir'[j], j, named', pin', main'.objs, made)
      <4>1. HeldOk(dir[j], j, named, pin, main.objs, made)
        BY <1>1
      <4>2. ASSUME dir[j].files.dir = "repo", dir[j].task = t, k = j
            PROVE  dir[j].base = c /\ pin[t] = c /\ c \in main.objs /\ c \in Below(made)
        BY <1>0, <2>1, <4>2 DEF StageOk, IsFor
      <4> QED BY <2>1, <2>4, <3>1, <4>1, <4>2 DEF HeldOk
    <3>3. PoolTables'
      BY <1>1, <1>3, <2>1, <2>4, <3>1 DEF PoolTables
    <3>4. Counted
      BY <2>1, <2>4, Counting
    <3> QED BY <1>1, <1>3, <2>1, <2>2, <3>2, <3>3, <3>4, SpawnerMoves
  <2> QED BY <2>1, <2>3, <2>4
<1>20. CASE P!Dies(p)
  <2>1. /\ P!Act /\ spawn' = [spawn EXCEPT ![p] = P!Idle] /\ UNCHANGED <<main, remote, pin, made, named>>
        /\ \/ dir' = dir /\ eye' = [eye EXCEPT ![p] = F!Shut]
           \/ \E s \in P!Partial : dir' = [dir EXCEPT ![k] = s] /\ eye' = [P!Seen(k, s) EXCEPT ![p] = F!Shut]
    BY <1>20, SamePoolFiles DEF P!Dies, P!At, P!Quits, P!repos
  <2>2. CASE dir' = dir /\ eye' = [eye EXCEPT ![p] = F!Shut]
    BY <1>1, <1>3, <1>6, <2>1, <2>2, IdleIsOk
  <2>3. CASE \E s \in P!Partial : dir' = [dir EXCEPT ![k] = s] /\ eye' = [P!Seen(k, s) EXCEPT ![p] = F!Shut]
    <3>1. PICK s \in P!Partial : dir' = [dir EXCEPT ![k] = s] /\ eye' = [P!Seen(k, s) EXCEPT ![p] = F!Shut]
      BY <2>3
    <3>2. dir' = [j \in PoolPlace |-> IF j = k THEN s ELSE dir[j]]
      BY <1>1, <3>1 DEF PoolTables
    <3>3. eye' = [q \in PoolSpawner |-> eye'[q]]
      BY <3>1 DEF P!Seen
    <3>4. \A j \in PoolPlace : HeldOk(dir'[j], j, named', pin', main'.objs, made)
      <4>1. HeldOk(s, k, named', pin', main'.objs, made)
        BY EmptiedIsHeld
      <4> QED BY <2>1, <3>2, <4>1, SlotsKeep
    <3>5. dir' = [j \in PoolPlace |-> dir'[j]]
      BY <3>2
    <3>6. PoolTables'
      BY <1>1, <1>3, <2>1, <3>3, <3>5 DEF PoolTables
    <3>7. Counted
      BY <2>1, Counting
    <3>8. SpawnOk(P!Idle, eye'[p], dir', named', pin', main'.objs, made)
      BY IdleIsOk
    <3> QED BY <1>1, <1>3, <2>1, <3>4, <3>6, <3>7, <3>8, SpawnerMoves
  <2> QED BY <2>1, <2>2, <2>3
<1> QED BY <1>8, <1>9, <1>10, <1>11, <1>12, <1>13, <1>14, <1>15, <1>16, <1>17, <1>18, <1>19, <1>20

LEMMA PoolOtherStep ==
  ASSUME PoolInv,
         \/ \E t \in PoolTask : P!Tears(t)
         \/ P!Blanks
         \/ \E k \in PoolPlace : P!Commits(k) \/ P!Moves(k) \/ P!Prunes(k) \/ P!Lands(k)
         \/ P!Pushed \/ P!Fetches \/ P!GC
  PROVE  PoolInv'
<1>1. /\ MainOk(main, remote, made) /\ PoolTables /\ made \in Nat /\ acts \in Nat /\ made <= acts /\ acts <= MaxPoolActs
      /\ \A j \in PoolPlace : HeldOk(dir[j], j, named, pin, main.objs, made)
      /\ MaxPoolSlot \in Nat /\ MaxPoolActs \in Nat /\ Below(made) \subseteq Below(made + 1)
  BY CloneAssumption, Grows DEF PoolInv
<1>2. \A u \in PoolTask : pin[u] \in main.objs \cap Below(made) => pin[u] # NoId
  BY <1>1, CommitsHaveNames
\* A worker's git makes files g of those of slot k.
<1>3. ASSUME NEW k \in PoolPlace, NEW g, P!Worker(k, g), FilesShape(g), Gently(dir[k].files, g),
             g.dir = dir[k].files.dir, P!Act \/ UNCHANGED acts, made' = made \/ (P!Act /\ made' = made + 1)
      PROVE  PoolInv'
  <2> DEFINE d == dir[k]  s == Dir(g, d.task, d.base)
  <2>1. d = Dir(d.files, d.task, d.base)
    BY <1>1 DEF HeldOk
  <2>2. [d EXCEPT !.files = g] = s
    BY <2>1, DirFields
  <2>3. P!Becomes(k, s) /\ UNCHANGED <<main, remote, pin, named, spawn>>
    BY <1>3, <2>2 DEF P!Worker
  <2>4. s.files = g /\ s.task = d.task /\ s.base = d.base
    BY DEF Dir
  <2>5. s = Dir(s.files, s.task, s.base)
    BY <2>4
  <2>6. Counted
    BY <1>3, Counting
  <2> HIDE DEF s
  <2> QED BY <1>3, <2>3, <2>4, <2>5, <2>6, OthersMove
\* The project goes on to m; what it drops is reached by no ref of the project.
<1>4. ASSUME UNCHANGED <<dir, eye, spawn, pin, named>>, P!Act, made' = made \/ (P!Act /\ made' = made + 1),
             MainOk(main', remote', made'),
             \A u \in PoolTask : pin[u] \in main.objs /\ pin[u] # NoId => pin[u] \in main'.objs
      PROVE  PoolInv'
  <2>1. Counted
    BY <1>4, Counting
  <2>2. named' = [u \in PoolTask |-> named'[u]]
    BY <1>1, <1>4 DEF PoolTables
  <2> QED BY <1>2, <1>4, <2>1, <2>2, OthersCommit
<1>5. ASSUME NEW t \in PoolTask, P!Tears(t) PROVE PoolInv'
  <2>1. /\ named[t] # 0 /\ UNCHANGED <<main, remote, pin, made, named, spawn>>
        /\ \/ P!Becomes(named[t], P!NoDir) /\ UNCHANGED acts
           \/ P!Act /\ UNCHANGED <<dir, eye>>
    BY <1>5 DEF P!Tears, P!repos
  <2>2. CASE P!Act /\ UNCHANGED <<dir, eye>>
    BY <1>1, <1>4, <2>1, <2>2
  <2>3. CASE P!Becomes(named[t], P!NoDir) /\ UNCHANGED acts
    <3> DEFINE k == named[t]  s == P!NoDir
    <3>1. Counted
      BY <2>1, <2>3, Counting
    <3>2. /\ s = Dir(s.files, s.task, s.base) /\ FilesShape(s.files) /\ s.files.dir = "none"
          /\ \A f : Gently(f, s.files)
      <4>1. s.files = New("none")
        BY Emptied DEF Dir
      <4>2. s = Dir(s.files, s.task, s.base)
        BY Emptied DEF Dir
      <4> QED BY <4>1, <4>2, NewIsGentle
    <3> HIDE DEF s
    <3>3. CASE k \in PoolPlace
      BY <2>1, <2>3, <3>1, <3>2, <3>3, OthersMove DEF s
    <3>4. CASE k \notin PoolPlace
      <4>1. /\ dir' = [j \in PoolPlace |-> IF j = k THEN s ELSE dir[j]]
            /\ eye' = [p \in PoolSpawner |-> IF spawn[p].slot = k THEN F!Watched(eye[p], s.files) ELSE eye[p]]
        BY <2>3, Becoming DEF s
      <4>2. dir' = dir
        BY <1>1, <3>4, <4>1 DEF PoolTables
      <4>3. PoolTables'
        BY <1>1, <2>1, <4>1, <4>2 DEF PoolTables
      <4>4. ASSUME NEW p \in PoolSpawner PROVE SpawnOk(spawn'[p], eye'[p], dir', named', pin', main'.objs, made)
        <5>1. SpawnOk(spawn[p], eye[p], dir, named, pin, main.objs, made)
          BY DEF PoolInv
        <5>2. spawn[p].at = "look" => eye'[p] = eye[p]
          BY <3>4, <4>1, <5>1 DEF SpawnOk, StageOk
        <5> QED BY <2>1, <4>2, <5>1, <5>2 DEF SpawnOk, StageOk
      <4> QED BY <1>1, <2>1, <3>1, <4>2, <4>3, <4>4 DEF PoolInv, Counted
    <3> QED BY <3>3, <3>4
  <2> QED BY <2>1, <2>2, <2>3
<1>6. CASE P!Blanks
  <2>1. /\ UNCHANGED <<main, remote, pin, made, dir, eye, spawn>>
        /\ \/ named' = [named EXCEPT ![tear] = 0] /\ UNCHANGED acts
           \/ P!Act /\ UNCHANGED named
    BY <1>6 DEF P!Blanks, P!repos
  <2>2. named' = [u \in PoolTask |-> named'[u]] /\ \A u \in PoolTask : named'[u] \in {named[u], 0}
    BY <1>1, <2>1 DEF PoolTables
  <2>3. Counted
    BY <2>1, Counting
  <2> QED BY <1>1, <2>1, <2>2, <2>3, OthersCommit
<1>7. ASSUME NEW k \in PoolPlace, P!Commits(k) PROVE PoolInv'
  <2> DEFINE f == dir[k].files  x == F!HeadOf(f) \cup {made + 1}
  <2>1. P!Act /\ made' = made + 1 /\ P!Worker(k, F!Committed(f, x))
    BY <1>7, SamePoolFiles DEF P!Commits
  <2>2. FilesShape(f)
    BY <1>1 DEF HeldOk
  <2>3. FilesShape(F!Committed(f, x)) /\ Gently(f, F!Committed(f, x)) /\ F!Committed(f, x).dir = f.dir
    BY <2>2, CommittedGently
  <2> QED BY <1>3, <2>1, <2>3
<1>8. ASSUME NEW k \in PoolPlace, P!Moves(k) PROVE PoolInv'
  <2> DEFINE f == dir[k].files
  <2>1. P!Act /\ made' = made /\ (P!Worker(k, F!Switched(f, dir[k].base)) \/ P!Worker(k, F!Packed(f)))
    BY <1>8, SamePoolFiles DEF P!Moves
  <2>2. FilesShape(f)
    BY <1>1 DEF HeldOk
  <2>3. \A g \in {F!Switched(f, dir[k].base), F!Packed(f)} : FilesShape(g) /\ Gently(f, g) /\ g.dir = f.dir
    BY <2>2, SwitchedGently, PackedGently
  <2> QED BY <1>3, <2>1, <2>3
<1>9. ASSUME NEW k \in PoolPlace, P!Prunes(k) PROVE PoolInv'
  <2> DEFINE f == dir[k].files
  <2>1. UNCHANGED <<made, acts>> /\ \E b \in F!Branch : P!Worker(k, F!Pruned(f, b))
    BY <1>9, SamePoolFiles DEF P!Prunes
  <2>2. FilesShape(f)
    BY <1>1 DEF HeldOk
  <2>3. \A b \in F!Branch : FilesShape(F!Pruned(f, b)) /\ Gently(f, F!Pruned(f, b)) /\ F!Pruned(f, b).dir = f.dir
    BY <2>2, PrunedGently
  <2> QED BY <1>3, <2>1, <2>3
<1>10. ASSUME NEW k \in PoolPlace, P!Lands(k) PROVE PoolInv'
  <2> DEFINE x == P!HeadOf(dir[k].files)  o == main.objs \cup P!History(x, made)
  <2>1. /\ P!Act /\ main' = [main EXCEPT !.def = x, !.objs = o]
        /\ UNCHANGED <<remote, pin, made, dir, eye, named, spawn>>
    BY <1>10 DEF P!Lands, P!pool
  <2> HIDE DEF x, o
  <2>2. main' = [def |-> x, fetched |-> main.fetched, objs |-> o]
    <3> DEFINE f == main.fetched  r == main.objs  e == main.def
    <3>1. main = [def |-> e, fetched |-> f, objs |-> r]
      BY <1>1 DEF MainOk
    <3> HIDE DEF e, f, r
    <3>2. [[def |-> e, fetched |-> f, objs |-> r] EXCEPT !.def = x] = [def |-> x, fetched |-> f, objs |-> r]
      OBVIOUS
    <3>3. [[def |-> x, fetched |-> f, objs |-> r] EXCEPT !.objs = o] = [def |-> x, fetched |-> f, objs |-> o]
      OBVIOUS
    <3>4. main' = [def |-> x, fetched |-> f, objs |-> o]
      BY <2>1, <3>1, <3>2, <3>3, Zenon
    <3> QED BY <3>4 DEF f
  <2>3. MainOk(main', remote', made') /\ main.objs \subseteq main'.objs
    BY <1>1, <2>1, <2>2 DEF MainOk, o
  <2> QED BY <1>4, <2>1, <2>3
<1>11. CASE P!Pushed
  <2>1. /\ P!Act /\ made' = made + 1 /\ remote' \in {remote \cup {made + 1}, {made + 1}}
        /\ UNCHANGED <<main, pin, dir, eye, named, spawn>>
    BY <1>11 DEF P!Pushed, P!pool
  <2>2. remote \cup {made + 1} \in Below(made + 1) /\ {made + 1} \in Below(made + 1)
    BY <1>1 DEF MainOk, Below
  <2>3. MainOk(main', remote', made')
    BY <1>1, <2>1, <2>2 DEF MainOk
  <2> QED BY <1>4, <2>1, <2>3
<1>12. CASE P!Fetches
  <2>1. /\ P!Act /\ main' \in {P!Fetched, [P!Fetched EXCEPT !.def = remote]}
        /\ UNCHANGED <<remote, pin, made, dir, eye, named, spawn>>
    BY <1>12 DEF P!Fetches, P!pool
  <2>2. MainOk(main', remote', made') /\ main.objs \subseteq main'.objs
    BY <2>1, FetchedIsOk
  <2> QED BY <1>4, <2>1, <2>2
<1>13. CASE P!GC
  <2> DEFINE roots == ({main.def, main.fetched} \cup {pin[t] : t \in PoolTask}) \ {NoId}
             kept == {x \in main.objs : \E r \in roots : x \subseteq r}
  <2>1. P!Act /\ main' = [main EXCEPT !.objs = kept] /\ UNCHANGED <<remote, pin, made, dir, eye, named, spawn>>
    BY <1>13 DEF P!GC, P!pool
  <2>2. \A u \in PoolTask : pin[u] \in main.objs /\ pin[u] # NoId => pin[u] \in kept
    OBVIOUS
  <2> HIDE DEF kept
  <2>3. MainOk(main', remote', made') /\ main'.objs = kept
    BY <1>1, <2>1 DEF MainOk
  <2> QED BY <1>4, <2>1, <2>2, <2>3
<1> QED BY <1>5, <1>6, <1>7, <1>8, <1>9, <1>10, <1>11, <1>12, <1>13

LEMMA PoolStep == ASSUME PoolInv, P!Next PROVE PoolInv'
<1>1. P!Place = PoolPlace
  BY DEF P!Place, PoolPlace
<1>2. \/ \E p \in PoolSpawner :
           \/ \E t \in PoolTask : P!Locks(p, t)
           \/ P!Resolves(p) \/ P!Considers(p) \/ P!Reads(p) \/ P!Judges(p) \/ P!Removes(p) \/ P!Extends(p)
           \/ P!Pins(p) \/ P!InitsRepo(p) \/ P!ChecksOut(p) \/ P!Undoes(p) \/ P!Saves(p) \/ P!Dies(p)
      \/ \E t \in PoolTask : P!Tears(t)
      \/ P!Blanks
      \/ \E k \in PoolPlace : P!Commits(k) \/ P!Moves(k) \/ P!Prunes(k) \/ P!Lands(k)
      \/ P!Pushed \/ P!Fetches \/ P!GC
  BY <1>1, Zenon DEF P!Next
<1> QED BY <1>2, PoolSpawnStep, PoolOtherStep

LEMMA PoolSound == SumSpec => []PoolInv
<1>1. SumInit => PoolInv
  BY PoolStarts DEF SumInit
<1>2. ASSUME PoolInv, [SumNext]_all PROVE PoolInv'
  <2>1. CASE P!Next
    BY <1>2, <2>1, PoolStep
  <2>2. CASE UNCHANGED poolside
    BY <1>2, <2>2 DEF poolside, PoolInv, PoolTables
  <2> QED BY <1>2, <2>1, <2>2 DEF SumNext, all
<1> QED BY <1>1, <1>2, PTL DEF SumSpec

\* A clone in use can read the commit it was cut from, whatever origin rewrites and
\* the project's gc drops, as long as spawns take turns (ClonePool).
THEOREM BaseStays == SumSpec => []BaseKept
<1>1. PoolInv => BaseKept
  <2> SUFFICES ASSUME PoolInv PROVE P!BaseKept
    BY DEF BaseKept
  <2> SUFFICES ASSUME NEW k \in PoolPlace, dir[k].files.dir = "repo",
                      named[dir[k].task] = k \/ \E p \in PoolSpawner : spawn[p].at = "save" /\ spawn[p].slot = k
               PROVE  dir[k].base \in main.objs
    BY DEF P!BaseKept, P!Place, PoolPlace, P!At
  <2>1. CASE named[dir[k].task] = k
    BY <2>1 DEF PoolInv, HeldOk
  <2>2. CASE \E p \in PoolSpawner : spawn[p].at = "save" /\ spawn[p].slot = k
    <3>1. PICK p \in PoolSpawner : spawn[p].at = "save" /\ spawn[p].slot = k
      BY <2>2
    <3> QED BY <3>1, Standing DEF StageOk, IsFor
  <2> QED BY <2>1, <2>2
<1> QED BY <1>1, PoolSound, PTL

\* The pool condemns a slot only when no live row names it and, unless it has no
\* .git, a commit the project's branches reach was its HEAD while the pool read it
\* (ClonePool).  This too needs spawns that take turns.
THEOREM CondemnsSoundly == SumSpec => CondemnedSoundly
<1>1. ASSUME PoolInv, [SumNext]_all, NEW p \in PoolSpawner, ~ P!At(p, "remove"), spawn'[p].at = "remove"
      PROVE  LET k == spawn'[p].slot IN
             /\ \A t \in PoolTask : named[t] # k
             /\ P!HasGit(dir[k].files) => \E c \in eye[p].seen \ {NoId} : P!Landed(c)
  <2> DEFINE a == spawn[p].at  t == spawn[p].task  b == spawn[p].busy  l == spawn[p].listed
             k == spawn[p].slot  c == spawn[p].base
  <2>0. /\ spawn[p] = Sp(a, t, b, l, k, c)
        /\ StageOk(a, t, b, l, k, c, eye[p], dir, named, pin, main.objs, made)
        /\ spawn = [q \in PoolSpawner |-> spawn[q]] /\ spawn[p].at # "remove"
        /\ MaxPoolSlot \in Nat
    BY <1>1, Standing, CloneAssumption DEF P!At, PoolInv, PoolTables
  <2>a. ASSUME NEW x PROVE [spawn EXCEPT ![p].at = x][p] = Sp(x, t, b, l, k, c)
    <3> DEFINE r == Sp(x, t, b, l, k, c)
    <3>1. [spawn EXCEPT ![p].at = x] = [q \in PoolSpawner |-> r]
      BY <1>1, OneGoes
    <3> HIDE DEF r
    <3>2. [spawn EXCEPT ![p].at = x][p] = r
      BY <3>1
    <3> QED BY <3>2 DEF r
  <2>b. \A q \in PoolSpawner : q = p
    BY OneSpawner
  <2>c. P!Idle.at = "rest"
    BY DEF P!Idle
  <2>1. P!Next
    <3>1. spawn' # spawn
      BY <1>1, <2>0
    <3> QED BY <1>1, <3>1 DEF SumNext, all, poolside
  <2>2. spawn'[p] # spawn[p] /\ spawn' # spawn
    BY <1>1, <2>0
  <2>3. P!Considers(p) \/ P!Judges(p)
    <3>1. \E q \in PoolSpawner :
           \/ \E u \in PoolTask : P!Locks(q, u)
           \/ P!Resolves(q) \/ P!Considers(q) \/ P!Reads(q) \/ P!Judges(q) \/ P!Removes(q) \/ P!Extends(q)
           \/ P!Pins(q) \/ P!InitsRepo(q) \/ P!ChecksOut(q) \/ P!Undoes(q) \/ P!Saves(q) \/ P!Dies(q)
      BY <2>1, <2>2 DEF P!Next, P!Tears, P!Blanks, P!Commits, P!Moves, P!Prunes, P!Lands, P!Pushed, P!Fetches,
         P!GC, P!Worker
    <3>2. \/ \E u \in PoolTask : P!Locks(p, u)
          \/ P!Resolves(p) \/ P!Considers(p) \/ P!Reads(p) \/ P!Judges(p) \/ P!Removes(p) \/ P!Extends(p)
          \/ P!Pins(p) \/ P!InitsRepo(p) \/ P!ChecksOut(p) \/ P!Undoes(p) \/ P!Saves(p) \/ P!Dies(p)
      BY <2>b, <3>1
    <3>3. ASSUME NEW x, spawn' = [spawn EXCEPT ![p].at = x] PROVE x = "remove"
      <4>1. spawn'[p] = Sp(x, t, b, l, k, c)
        BY <2>a, <3>3
      <4>2. Sp(x, t, b, l, k, c).at = x
        BY DEF Sp
      <4> QED BY <1>1, <4>1, <4>2
    <3>4. ~ P!Quits(p)
      BY <1>1, <2>0, <2>c DEF P!Quits
    <3>5. ~ P!Reads(p) /\ ~ P!Removes(p) /\ ~ P!Undoes(p) /\ ~ P!Saves(p) /\ ~ P!Dies(p)
      BY <2>0, <2>2, <3>4 DEF P!Reads, P!Removes, P!At, P!Undoes, P!Unlocks, P!Saves, P!Dies
    <3>6. ~ P!Pins(p) /\ ~ P!InitsRepo(p) /\ ~ P!ChecksOut(p)
      BY <3>3, <3>4 DEF P!Pins, P!InitsRepo, P!ChecksOut, P!Goes, P!Unlocks
    <3>7. ASSUME NEW x, NEW y, NEW z, spawn' = [spawn EXCEPT ![p].at = x, ![p].base = y, ![p].listed = z] PROVE x = "remove"
      <4>1. spawn'[p].at = x
        BY <2>0, <3>7 DEF Sp
      <4> QED BY <1>1, <4>1
    <3>8. ASSUME NEW x, NEW y, spawn' = [spawn EXCEPT ![p].at = x, ![p].slot = y] PROVE x = "remove"
      <4>1. spawn'[p].at = x
        BY <2>0, <3>8 DEF Sp
      <4> QED BY <1>1, <4>1
    <3>9. ~ P!Resolves(p) /\ ~ P!Extends(p)
      BY <3>4, <3>7, <3>8 DEF P!Resolves, P!Extends, P!Unlocks
    <3>10. \A u \in PoolTask : ~ P!Locks(p, u)
      <4> SUFFICES ASSUME NEW u \in PoolTask, P!Locks(p, u) PROVE FALSE
        OBVIOUS
      <4> DEFINE rows == {named[w] : w \in PoolTask} \ {0}
                 i == [P!Idle EXCEPT !.at = "source", !.task = u, !.busy = rows]
      <4>1. spawn' = [spawn EXCEPT ![p] = i]
        BY DEF P!Locks
      <4> HIDE DEF rows
      <4>2. i.at = "source"
        BY DEF P!Idle
      <4> HIDE DEF i
      <4> QED BY <1>1, <2>0, <4>1, <4>2
    <3> QED BY <3>2, <3>5, <3>6, <3>9, <3>10
  <2>4. CASE P!Considers(p)
    <3> DEFINE left == {x \in l \ b : x > k}
               m == P!Min(left)
    <3>1. /\ a = "scan" /\ left # {}
          /\ \/ spawn' = [spawn EXCEPT ![p].at = "look", ![p].slot = m]
             \/ ~P!HasGit(dir[m].files) /\ spawn' = [spawn EXCEPT ![p].at = "remove", ![p].slot = m]
      BY <2>4 DEF P!Considers, P!At
    <3>2. m \in left
      <4>1. left \subseteq Nat
        BY <2>0 DEF StageOk, PoolPlace
      <4> QED BY <3>1, <4>1, MinIsOne
    <3> HIDE DEF m
    <3>3. spawn'[p].slot = m
      BY <2>0, <3>1 DEF Sp
    <3>4. spawn' # [spawn EXCEPT ![p].at = "look", ![p].slot = m]
      <4>1. [spawn EXCEPT ![p].at = "look", ![p].slot = m][p].at = "look"
        BY <2>0 DEF Sp
      <4> QED BY <1>1, <4>1
    <3>5. \A u \in PoolTask : named[u] # m
      BY <2>0, <3>1, <3>2 DEF StageOk, PoolPlace
    <3> QED BY <3>1, <3>3, <3>4, <3>5
  <2>5. CASE P!Judges(p)
    <3> DEFINE tip == eye[p].tip
               x == IF tip # NoId /\ tip \in main.objs /\ P!Landed(tip) THEN "remove" ELSE "scan"
    <3>1. a = "look" /\ eye[p].at = "done" /\ spawn' = [spawn EXCEPT ![p].at = x]
      BY <2>5 DEF P!Judges, P!At, P!Goes
    <3>2. spawn'[p] = Sp(x, t, b, l, k, c)
      BY <2>a, <3>1
    <3>3. x = "remove" /\ spawn'[p].slot = k
      <4>1. Sp(x, t, b, l, k, c).at = x /\ Sp(x, t, b, l, k, c).slot = k
        BY DEF Sp
      <4> QED BY <1>1, <3>2, <4>1
    <3>4. tip # NoId /\ P!Landed(tip)
      BY <3>3
    <3>5. k \in PoolPlace /\ k \notin b /\ EyeOk(eye[p], dir[k].files) /\ \A u \in PoolTask : named[u] # 0 => named[u] \in b
      BY <2>0, <3>1 DEF StageOk
    <3>6. tip \in eye[p].seen
      BY <3>1, <3>4, <3>5 DEF EyeOk
    <3>7. \A u \in PoolTask : named[u] # k
      BY <2>0, <3>5 DEF PoolPlace
    <3> QED BY <3>3, <3>4, <3>6, <3>7
  <2> QED BY <2>3, <2>4, <2>5
<1>2. PoolInv /\ [SumNext]_all =>
        [\A p \in PoolSpawner :
           ~ P!At(p, "remove") /\ spawn'[p].at = "remove" =>
             LET k == spawn'[p].slot IN
             /\ \A t \in PoolTask : named[t] # k
             /\ P!HasGit(dir[k].files) => \E c \in eye[p].seen \ {NoId} : P!Landed(c)]_(P!vars)
  BY <1>1
<1> QED BY <1>2, PoolSound, PTL DEF SumSpec, CondemnedSoundly, P!CondemnedSoundly

================================================================================
