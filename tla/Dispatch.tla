------------------------------- MODULE Dispatch -------------------------------
(***************************************************************************)
(* The dispatch path: how backlog tasks become live workers.               *)
(*                                                                         *)
(* Daemons (internal/scheduler, RunOnce) read the fleet once per tick,     *)
(* claim ready tasks and spawn a worker for each; consoles are people or   *)
(* the manager running `ttorch spawn`, which does not claim.  Both go      *)
(* through orchestrator.spawnWorker, a long sequence of reads and effects  *)
(* over three stores nobody locks together: the task rows, the worktree    *)
(* pool and the tmux windows.  Every step below is one such read or        *)
(* effect; spawners interleave, and may be killed, between any two.        *)
(*                                                                         *)
(* Task rows keep the columns dispatch reads.  A lease is "none", "live"   *)
(* or "lapsed": module TaskStore has the clock, and its ReclaimJustified   *)
(* is why a reclaim sweep is a single step here.                           *)
(***************************************************************************)
EXTENDS Naturals, FiniteSets

CONSTANTS
  Task,              \* ids of the tasks in the backlog
  Slot,              \* worktree pool slots of the one repository
  Daemon,            \* scheduler instances
  Console,           \* callers of an interactive spawn
  MaxRetries,        \* tasks.max_retries
  MaxFailures,       \* maxTransientDispatchRetries
  MaxFaults,         \* bound on killed spawners and lost park or release writes
  MaxDeaths,         \* bound on workers that die or are killed for another
  Overlap,           \* pairs of tasks with conflicting footprints
  SerializeOverlap,  \* TTORCH_SERIALIZE_OVERLAP
  HungWorkers,       \* whether a worker may outlive its lease in silence
  OneAtATime,        \* whether spawns, teardowns and sweeps never overlap
  StoreFails         \* whether a row write of a spawn may fail

ASSUME ConstantsAssumption ==
  /\ MaxRetries \in Nat /\ MaxFailures \in Nat \ {0} /\ MaxFaults \in Nat
  /\ MaxDeaths \in Nat
  /\ IsFiniteSet(Slot)
  /\ Daemon \cap Console = {}
  /\ "none" \notin Task \cup Slot
  /\ \A pair \in Overlap : pair \subseteq Task
  /\ SerializeOverlap \in BOOLEAN /\ HungWorkers \in BOOLEAN
  /\ OneAtATime \in BOOLEAN /\ StoreFails \in BOOLEAN

VARIABLES
  row,      \* the task table
  window,   \* the tmux window wk-<id> of each task and the worker in it
  slot,     \* what each pool slot has checked out
  proc,     \* where each spawner is
  tick,     \* what each daemon read at the start of its tick
  fails,    \* Scheduler.dispatchFailures, in memory of each daemon
  faults,   \* spawners killed and park or release writes lost so far
  deaths    \* workers that have died so far

vars == <<row, window, slot, proc, tick, fails, faults, deaths>>

Spawner == Daemon \cup Console
None    == "none"

\* 'done' stands for every status a worker reports besides active: dispatch
\* treats them alike.  'blocked' is a dispatch the scheduler has parked.
Status    == {"pending", "active", "done", "blocked", "torn_down", "failed"}
Reported  == {"active", "done"}
Terminal  == {"torn_down", "failed"}
Work      == {"none", "edits", "commits"}

\* The steps of a spawn, each named for what comes next.
LaunchSteps   == {"inuse", "acquire", "branch", "window", "launch"}
LaunchedSteps == {"save", "report", "lease", "event"}
SpawnSteps    == {"check"} \cup LaunchSteps \cup LaunchedSteps
TeardownSteps == {"kill", "kill_unnamed", "retire"}
Steps == SpawnSteps \cup TeardownSteps \cup {"idle", "tick", "transient", "permanent"}

NoWindow == [at |-> None, up |-> FALSE]
AtRest   == [pc |-> "idle", task |-> None, slot |-> None, prior |-> None, busy |-> {}]
NoTick   == [ready |-> {}, occupied |-> {}, free |-> 0]

Live(t)      == row[t].status \notin Terminal
HasWindow(t) == window[t].at # None

\* What a reader of the row finds, which names its window only once it was saved.
SeenUp(t) == Live(t) /\ row[t].named /\ HasWindow(t)

\* Mutant: only active tasks count.
HeldByActive == {row[t].worktree : t \in {u \in Task : row[u].status = "active"}} \ {None}

HeldSlots == {row[t].worktree : t \in {u \in Task : Live(u)}} \ {None}
Conflicts(t, others) == \E u \in others : u # t /\ {t, u} \in Overlap

\* Whether p is between two steps of a spawn of t.
Spawning(p, t) == proc[p].task = t /\ proc[p].pc \notin TeardownSteps
InFlight(t)      == \E p \in Spawner : Spawning(p, t)
UnderDispatch(t) == \E d \in Daemon : Spawning(d, t)

Init ==
  /\ row = [t \in Task |-> [status |-> "pending", lease |-> None, retry |-> 0,
                            gone |-> FALSE, named |-> FALSE, worktree |-> None]]
  /\ window = [t \in Task |-> NoWindow]
  /\ slot = [s \in Slot |-> [branch |-> None, work |-> "none"]]
  /\ proc = [p \in Spawner |-> AtRest]
  /\ tick = [d \in Daemon |-> NoTick]
  /\ fails = [d \in Daemon |-> [t \in Task |-> 0]]
  /\ faults = 0
  /\ deaths = 0

-----------------------------------------------------------------------------
(* The dispatch tick of a daemon.                                          *)

Ready == {t \in Task : row[t].status = "pending"}

\* Backoff of tasks no longer ready is forgotten.
PruneFailures(d) == fails' = [fails EXCEPT ![d] = [t \in Task |-> IF t \in Ready THEN @[t] ELSE 0]]

\* The ready list and the fleet snapshot; every decision of the tick uses them.
BeginTick(d) ==
  /\ proc[d].pc = "idle"
  /\ PruneFailures(d)
  /\ IF Ready = {}
     THEN UNCHANGED <<tick, proc>>
     ELSE /\ tick' = [tick EXCEPT ![d] =
               [ready |-> Ready,
                occupied |-> {t \in Task : row[t].status = "active" \/ SeenUp(t)},
                free |-> Cardinality(Slot) - Cardinality(HeldSlots)]]
          /\ proc' = [proc EXCEPT ![d].pc = "tick"]
  /\ UNCHANGED <<row, window, slot, faults, deaths>>

Dispatchable(d, t) ==
  /\ proc[d].pc = "tick"
  /\ t \in tick[d].ready
  /\ tick[d].free > 0
  /\ SerializeOverlap => ~Conflicts(t, tick[d].occupied)

\* Nothing in the code serialises spawners: OneAtATime is an assumption about
\* when they run, made by some runs and not by others.
Undisturbed == OneAtATime => \A q \in Spawner : proc[q].pc \in {"idle", "tick"}

\* Mutants: the claim trusts the tick's ready list; arms no lease; plants no
\* 'spawned' marker.
ReadyOnce(t)       == TRUE
ClaimUnleased(r)   == [r EXCEPT !.status = "active", !.gone = FALSE]
ClaimUnmarked(r)   == [r EXCEPT !.status = "active", !.lease = "live"]

\* ClaimTask re-checks the status under the write lock, and writes the status,
\* the lease and the marker in one transaction.
Claimable(t) == row[t].status = "pending"
Claimed(r)   == [r EXCEPT !.status = "active", !.lease = "live", !.gone = FALSE]

\* A claim that is lost to another daemon is skipped.
Claim(d, t) ==
  /\ Undisturbed
  /\ Dispatchable(d, t)
  /\ tick' = [tick EXCEPT ![d].ready = @ \ {t}]
  /\ IF Claimable(t)
     THEN /\ row' = [row EXCEPT ![t] = Claimed(@)]
          /\ proc' = [proc EXCEPT ![d] = [AtRest EXCEPT !.pc = "check", !.task = t]]
     ELSE UNCHANGED <<row, proc>>
  /\ UNCHANGED <<window, slot, fails, faults, deaths>>

\* The tick ends when the ready list is used up, and earlier on backoff, on the
\* governor's budget, on MaxClaimsPerTick or on an error.
EndTick(d) ==
  /\ proc[d].pc = "tick"
  /\ proc' = [proc EXCEPT ![d] = AtRest]
  /\ tick' = [tick EXCEPT ![d] = NoTick]
  /\ UNCHANGED <<row, window, slot, fails, faults, deaths>>

\* An interactive spawn takes any task, claimed or not, retired or not.
BeginSpawn(c, t) ==
  /\ Undisturbed
  /\ proc[c].pc = "idle"
  /\ proc' = [proc EXCEPT ![c] = [AtRest EXCEPT !.pc = "check", !.task = t]]
  /\ UNCHANGED <<row, window, slot, tick, fails, faults, deaths>>

-----------------------------------------------------------------------------
(* spawnWorker, one action per read or effect.                             *)

Goto(p, step) == proc' = [proc EXCEPT ![p].pc = step]
At(p, step)   == proc[p].pc = step

\* Every step may fail; whether a retry could help is read off the error's text.
Failed(p) == \E kind \in {"transient", "permanent"} : Goto(p, kind)

\* Releasing a slot parks it detached and clean, whoever works in it.
ReleaseSlot(s) == slot' = [slot EXCEPT ![s] = [branch |-> None, work |-> "none"]]

\* abortSpawn: the window is killed by name and the slot goes back to the pool.
Abort(p) ==
  /\ window' = [window EXCEPT ![proc[p].task] = NoWindow]
  /\ ReleaseSlot(proc[p].slot)
  /\ Failed(p)
  /\ UNCHANGED <<tick, fails, faults, deaths>>

\* The window must not exist, and the footprint must be free of live workers
\* unless the daemon saw the conflict in its snapshot and forced it.
Refused(p) ==
  LET t == proc[p].task
      forced == p \in Daemon /\ Conflicts(t, tick[p].occupied)
  IN \/ HasWindow(t)
     \/ ~forced /\ Conflicts(t, {u \in Task : SeenUp(u)})

CheckWindow(p) ==
  /\ At(p, "check")
  /\ (~Refused(p) /\ Goto(p, "inuse")) \/ Failed(p)
  /\ UNCHANGED <<row, window, slot, tick, fails, faults, deaths>>

\* The worktrees in use are what the rows say before the pool is locked.
ReadInUse(p) ==
  /\ At(p, "inuse")
  /\ \/ proc' = [proc EXCEPT ![p].busy = HeldSlots, ![p].pc = "acquire"]
     \/ Failed(p)
  /\ UNCHANGED <<row, window, slot, tick, fails, faults, deaths>>

\* Mutant: the pool ignores what a slot still holds.
UnheldSlot(p)  == {s \in Slot : s \notin proc[p].busy}

FreeSlot(p) == {s \in Slot : s \notin proc[p].busy /\ slot[s].work = "none"}

\* Pool.Acquire, under the pool's lock: a slot that is not in use and holds no
\* work is detached and reset; with none left the pool is full.
Acquire(p) ==
  /\ At(p, "acquire")
  /\ \/ \E s \in FreeSlot(p) :
          /\ slot' = [slot EXCEPT ![s].branch = None]
          /\ proc' = [proc EXCEPT ![p].slot = s, ![p].pc = "branch", ![p].busy = {}]
     \/ Failed(p) /\ UNCHANGED slot
  /\ UNCHANGED <<row, window, tick, fails, faults, deaths>>

\* The task branch has commits of its own.
BranchAhead(t)        == \E s \in Slot : slot[s] = [branch |-> t, work |-> "commits"]

\* StartBranch refuses a branch with commits, and git itself, depending on its
\* version, one that another slot has checked out.  A refusal gives the slot back.
StartBranch(p) ==
  LET t == proc[p].task
      s == proc[p].slot
  IN /\ At(p, "branch")
     /\ \/ /\ ~BranchAhead(t)
           /\ slot' = [slot EXCEPT ![s] = [branch |-> t, work |-> "none"]]
           /\ Goto(p, "window")
        \/ /\ ReleaseSlot(s)
           /\ Failed(p)
     /\ UNCHANGED <<row, window, tick, fails, faults, deaths>>

\* tmux.NewWindow first kills every window of the same name.
OpenWindow(p) ==
  LET t == proc[p].task IN
  /\ At(p, "window")
  /\ \/ /\ window' = [window EXCEPT ![t] = [at |-> proc[p].slot, up |-> FALSE]]
        /\ Goto(p, "launch")
        /\ UNCHANGED slot
     \/ /\ window' = [window EXCEPT ![t] = NoWindow]
        /\ ReleaseSlot(proc[p].slot)
        /\ Failed(p)
  /\ UNCHANGED <<row, tick, fails, faults, deaths>>

\* SendLine and waitForLaunch: the command takes over the pane, or never does.
Launch(p) ==
  LET t == proc[p].task IN
  /\ At(p, "launch")
  /\ \/ /\ HasWindow(t)
        /\ window' = [window EXCEPT ![t].up = TRUE]
        /\ Goto(p, "save")
        /\ UNCHANGED <<row, slot, tick, fails, faults, deaths>>
     \/ Abort(p) /\ UNCHANGED row

\* Mutant: a worktree the row already names is kept.
SavedOnce(r, s) == [r EXCEPT !.named = TRUE, !.worktree = IF @ = None THEN s ELSE @]

Saved(r, s) == [r EXCEPT !.named = TRUE, !.worktree = s]

\* GetTask, then UpsertTask: only now does the row name its window and slot.
Save(p) ==
  LET t == proc[p].task IN
  /\ At(p, "save")
  /\ \/ /\ row' = [row EXCEPT ![t] = Saved(@, proc[p].slot)]
        /\ proc' = [proc EXCEPT ![p].prior = row[t].status, ![p].pc = "report"]
        /\ UNCHANGED <<window, slot, tick, fails, faults, deaths>>
     \/ StoreFails /\ Abort(p) /\ UNCHANGED row

\* A report extends a lease that is held; it never grants one.
Extended(lease) == IF lease = None THEN None ELSE "live"

\* Only a row that was not active is set active, by what was read before the
\* save.  When that write fails the row's window and worktree are blanked, if that
\* succeeds; when only reading the row back fails they stay.
ReportActive(p) ==
  LET t == proc[p].task
      reported == [row EXCEPT ![t].status = "active", ![t].lease = Extended(@)]
      blanked  == [row EXCEPT ![t].named = FALSE, ![t].worktree = None]
  IN /\ At(p, "report")
     /\ \/ /\ row' = IF proc[p].prior = "active" THEN row ELSE reported
           /\ Goto(p, "lease")
           /\ UNCHANGED <<window, slot, tick, fails, faults, deaths>>
        \/ /\ StoreFails
           /\ proc[p].prior # "active"
           /\ row' \in {row, reported, blanked}
           /\ Abort(p)

\* The lease and the 'spawned' event are best effort.
BestEffort(written) == {written} \cup (IF StoreFails THEN {row} ELSE {})

GrantLease(p) ==
  LET t == proc[p].task IN
  /\ At(p, "lease")
  /\ row' \in BestEffort([row EXCEPT ![t].lease = "live"])
  /\ Goto(p, "event")
  /\ UNCHANGED <<window, slot, tick, fails, faults, deaths>>

\* Back in its tick the daemon counts the slot and the footprint as taken.
Spawned(p) ==
  LET t == proc[p].task IN
  /\ At(p, "event")
  /\ row' \in BestEffort([row EXCEPT ![t].gone = FALSE])
  /\ proc' = [proc EXCEPT ![p] = [AtRest EXCEPT !.pc = IF p \in Daemon THEN "tick" ELSE "idle"]]
  /\ IF p \in Daemon
     THEN /\ tick' = [tick EXCEPT ![p].free = @ - 1, ![p].occupied = @ \cup {t}]
          /\ fails' = [fails EXCEPT ![p][t] = 0]
     ELSE UNCHANGED <<tick, fails>>
  /\ UNCHANGED <<window, slot, faults, deaths>>

-----------------------------------------------------------------------------
(* handleDispatchFailure.                                                  *)

GivesUp(d) == At(d, "permanent") \/ (At(d, "transient") /\ fails[d][proc[d].task] + 1 >= MaxFailures)
Retries(d) == At(d, "transient") /\ fails[d][proc[d].task] + 1 < MaxFailures

\* Mutant: a released claim overwrites what the worker has reported.
StillLeased(t) == row[t].lease # None

\* The claim is released only if the row is still under it.
UnderClaim(t) == row[t].status = "active" /\ row[t].lease # None

Unclaim(t) == row' = IF UnderClaim(t)
                     THEN [row EXCEPT ![t].status = "pending", ![t].lease = None]
                     ELSE row

\* A write that fails is logged and left at that.
LoseWrite == faults < MaxFaults /\ faults' = faults + 1

\* A permanent failure, or one transient failure too many, parks the task
\* whatever its status; the lease stays.  A park that fails releases the claim.
Park(d) ==
  /\ GivesUp(d)
  /\ \/ row' = [row EXCEPT ![proc[d].task].status = "blocked"] /\ UNCHANGED faults
     \/ LoseWrite /\ (Unclaim(proc[d].task) \/ UNCHANGED row)

Release(d) ==
  /\ Retries(d)
  /\ \/ Unclaim(proc[d].task) /\ UNCHANGED faults
     \/ LoseWrite /\ UNCHANGED row

DispatchFailed(d) ==
  /\ Park(d) \/ Release(d)
  /\ fails' = [fails EXCEPT ![d][proc[d].task] = IF @ = MaxFailures THEN @ ELSE @ + 1]
  /\ proc' = [proc EXCEPT ![d] = [AtRest EXCEPT !.pc = "tick"]]
  /\ UNCHANGED <<window, slot, tick, deaths>>

\* An interactive spawn only reports the error.
SpawnFailed(c) ==
  /\ At(c, "transient") \/ At(c, "permanent")
  /\ proc' = [proc EXCEPT ![c] = AtRest]
  /\ UNCHANGED <<row, window, slot, tick, fails, faults, deaths>>

\* A killed process loses its tick and its backoff and cleans nothing up.
Crash(p) ==
  /\ proc[p].pc # "idle"
  /\ faults < MaxFaults
  /\ faults' = faults + 1
  /\ proc' = [proc EXCEPT ![p] = AtRest]
  /\ IF p \in Daemon
     THEN /\ tick' = [tick EXCEPT ![p] = NoTick]
          /\ fails' = [fails EXCEPT ![p] = [t \in Task |-> 0]]
     ELSE UNCHANGED <<tick, fails>>
  /\ UNCHANGED <<row, window, slot, deaths>>

-----------------------------------------------------------------------------
(* Teardown, by a console: the row is read, then the window and the slot   *)
(* are let go, then the row is retired.                                    *)

Landed(t) ==
  /\ row[t].worktree # None => slot[row[t].worktree].work # "edits"
  /\ ~BranchAhead(t)

\* Without force a task with unlanded work is refused; with force the commits
\* are stashed under a recovery ref first.
TeardownBegin(c, t, force) ==
  /\ Undisturbed
  /\ At(c, "idle")
  /\ force \/ Landed(t)
  /\ proc' = [proc EXCEPT ![c].task = t, ![c].slot = row[t].worktree,
                          ![c].pc = IF row[t].named THEN "kill" ELSE "kill_unnamed"]
  /\ UNCHANGED <<row, window, slot, tick, fails, faults, deaths>>

\* The window is killed by the name on the row.  An unnamed one is what tmux takes
\* an empty name for, the session's current window: a worker's or none of them.
KillNamed(c) ==
  \/ /\ At(c, "kill")
     /\ window' = [window EXCEPT ![proc[c].task] = NoWindow]
     /\ UNCHANGED deaths
  \/ /\ At(c, "kill_unnamed")
     /\ UNCHANGED <<window, deaths>>
  \/ /\ At(c, "kill_unnamed")
     /\ deaths < MaxDeaths
     /\ deaths' = deaths + 1
     /\ \E u \in Task : window' = [window EXCEPT ![u] = NoWindow]

TeardownRelease(c) ==
  /\ KillNamed(c)
  /\ IF proc[c].slot = None THEN UNCHANGED slot ELSE ReleaseSlot(proc[c].slot)
  /\ Goto(c, "retire")
  /\ UNCHANGED <<row, tick, fails, faults>>

\* The worktree is blanked if there was one to release.
TeardownRecord(c) ==
  LET t == proc[c].task IN
  /\ At(c, "retire")
  /\ row' = [row EXCEPT ![t].status = "torn_down",
                        ![t].worktree = IF proc[c].slot = None THEN @ ELSE None]
  /\ proc' = [proc EXCEPT ![c] = AtRest]
  /\ UNCHANGED <<window, slot, tick, fails, faults, deaths>>

-----------------------------------------------------------------------------
(* Workers, and what watches over them.                                    *)

Running(t) == window[t].up

\* A commit moves the branch the slot has checked out, in every slot that has
\* it checked out.
WorkerEdits(t, w) ==
  LET s == window[t].at
      b == slot[s].branch
      shares(x) == x = s \/ (w = "commits" /\ b # None /\ slot[x].branch = b)
  IN /\ Running(t)
     /\ slot' = [x \in Slot |-> IF shares(x) THEN [slot[x] EXCEPT !.work = w] ELSE slot[x]]
     /\ UNCHANGED <<row, window, proc, tick, fails, faults, deaths>>

WorkerReports(t, s) ==
  /\ Running(t)
  /\ row' = [row EXCEPT ![t].status = s, ![t].gone = FALSE,
                        ![t].lease = Extended(@)]
  /\ UNCHANGED <<window, slot, proc, tick, fails, faults, deaths>>

WorkerDies(t) ==
  /\ Running(t)
  /\ deaths < MaxDeaths
  /\ deaths' = deaths + 1
  /\ window' = [window EXCEPT ![t] = NoWindow]
  /\ UNCHANGED <<row, slot, proc, tick, fails, faults>>

\* The lease armed by a claim outlives the spawn; that of a live worker lapses only
\* if it stays silent for DefaultLeaseDuration.
LeaseLapses(t) ==
  /\ row[t].lease = "live"
  /\ ~UnderDispatch(t)
  /\ Running(t) => HungWorkers
  /\ row' = [row EXCEPT ![t].lease = "lapsed"]
  /\ UNCHANGED <<window, slot, proc, tick, fails, faults, deaths>>

\* The watcher looks at active tasks whose row names a window, once they have been
\* quiet for longer than a spawn takes; the claim counts as progress.
WatchWindowGone(t) ==
  /\ row[t].status = "active"
  /\ row[t].named
  /\ ~HasWindow(t)
  /\ ~UnderDispatch(t)
  /\ row' = [row EXCEPT ![t].gone = TRUE]
  /\ UNCHANGED <<window, slot, proc, tick, fails, faults, deaths>>

\* Mutant: only a lost window is ever noticed.
WindowLost(t) == row[t].status = "active" /\ row[t].gone

Reclaimable(t) == row[t].status = "active" /\ (row[t].lease = "lapsed" \/ row[t].gone)

\* Back to the backlog while retries are left; the worktree stays on the row.
Reclaim(t) ==
  /\ Undisturbed
  /\ Reclaimable(t)
  /\ row' = IF row[t].retry >= MaxRetries
            THEN [row EXCEPT ![t].status = "failed", ![t].lease = None]
            ELSE [row EXCEPT ![t].status = "pending", ![t].lease = None, ![t].retry = @ + 1]
  /\ UNCHANGED <<window, slot, proc, tick, fails, faults, deaths>>

-----------------------------------------------------------------------------

DaemonTick(d) ==
  \/ BeginTick(d)
  \/ \E t \in Task : Claim(d, t)
  \/ EndTick(d)
  \/ DispatchFailed(d)

SpawnStep(p) ==
  \/ CheckWindow(p) \/ ReadInUse(p) \/ Acquire(p) \/ StartBranch(p)
  \/ OpenWindow(p) \/ Launch(p) \/ Save(p) \/ ReportActive(p)
  \/ GrantLease(p) \/ Spawned(p)

ConsoleStep(c) ==
  \/ \E t \in Task : BeginSpawn(c, t)
  \/ SpawnFailed(c)
  \/ \E t \in Task, force \in BOOLEAN : TeardownBegin(c, t, force)
  \/ TeardownRelease(c)
  \/ TeardownRecord(c)

WorkerStep(t) ==
  \/ \E w \in {"edits", "commits"} : WorkerEdits(t, w)
  \/ \E s \in Reported : WorkerReports(t, s)
  \/ WorkerDies(t)

WatchStep(t) == LeaseLapses(t) \/ WatchWindowGone(t) \/ Reclaim(t)

Next ==
  \/ \E d \in Daemon : DaemonTick(d)
  \/ \E p \in Spawner : SpawnStep(p) \/ Crash(p)
  \/ \E c \in Console : ConsoleStep(c)
  \/ \E t \in Task : WorkerStep(t) \/ WatchStep(t)

Spec == Init /\ [][Next]_vars

\* The daemon runs, a spawn or teardown once begun ends (every wait in it has a
\* deadline), a backoff elapses, the clock advances, the sweep and the watcher
\* poll.  That a worker works or reports, or that a console does anything, is
\* not promised.
Fairness ==
  /\ \A p \in Spawner : WF_vars(SpawnStep(p))
  /\ \A c \in Console :
       /\ WF_vars(SpawnFailed(c))
       /\ WF_vars(TeardownRelease(c) \/ TeardownRecord(c))
  /\ \A d \in Daemon :
       /\ WF_vars(BeginTick(d))
       /\ WF_vars(EndTick(d))
       /\ WF_vars(DispatchFailed(d))
       /\ \A t \in Task : SF_vars(Claim(d, t))
  /\ \A t \in Task :
       /\ WF_vars(LeaseLapses(t))
       /\ WF_vars(WatchWindowGone(t))
       /\ WF_vars(Reclaim(t))

FairSpec == Spec /\ Fairness

-----------------------------------------------------------------------------
(* Properties.                                                             *)

Row == [status : Status, lease : {None, "live", "lapsed"}, retry : 0..MaxRetries,
        gone : BOOLEAN, named : BOOLEAN, worktree : Slot \cup {None}]

Process == [pc : Steps, task : Task \cup {None}, slot : Slot \cup {None},
            prior : Status \cup {None}, busy : SUBSET Slot]

TickRead == [ready : SUBSET Task, occupied : SUBSET Task, free : 0..Cardinality(Slot)]

\* Every variable has its type; in particular a daemon never dispatches past
\* the free slots it counted, and no task is retried past its ceiling.
TypeOK ==
  /\ row \in [Task -> Row]
  /\ window \in [Task -> [at : Slot \cup {None}, up : BOOLEAN]]
  /\ slot \in [Slot -> [branch : Task \cup {None}, work : Work]]
  /\ proc \in [Spawner -> Process]
  /\ tick \in [Daemon -> TickRead]
  /\ fails \in [Daemon -> [Task -> 0..MaxFailures]]
  /\ faults \in 0..MaxFaults
  /\ deaths \in 0..MaxDeaths

\* Never two workers in the same worktree: neither the row of a live worker
\* nor the pool lets a second spawn have its slot.
NoSharedWorktree ==
  \A t, u \in Task : t # u /\ HasWindow(t) => window[t].at # window[u].at

\* A live worker is in a slot on its own task's branch, whatever other spawns,
\* releases and failed dispatches do to slots; and once its spawn is over that is
\* the slot its row names, which every later inUse read, teardown and land
\* relies on.
WorktreeRecorded ==
  \A t \in Task : Running(t) =>
    /\ slot[window[t].at].branch = t
    /\ ~InFlight(t) => row[t].worktree = window[t].at

\* A spawn that has seen no window for its task never comes upon a live worker
\* of it, which opening the window would kill.
NoWorkerReplaced ==
  \A p \in Spawner : proc[p].pc \in LaunchSteps => ~Running(proc[p].task)

\* Of two spawns of one task at most one gets its command up: the other fails
\* loudly, at the latest on the window's name.
OneSpawnLaunches ==
  \A p, q \in Spawner :
    p # q /\ proc[p].task = proc[q].task
      => ~(proc[p].pc \in LaunchedSteps /\ proc[q].pc \in LaunchedSteps)

\* The atomic claim makes double dispatch impossible: no two daemons are ever
\* spawning the same task.
OneClaimant ==
  \A d, e \in Daemon : d # e /\ proc[d].task # None => proc[d].task # proc[e].task

\* A live worker of an active task holds a lease the sweep can later judge.
WorkerLeased ==
  \A t \in Task : Running(t) /\ row[t].status = "active" /\ ~InFlight(t)
                   => row[t].lease # None

\* Work in a slot, committed or not, is discarded only by the teardown of the
\* task whose branch it is on, or when the spawn that started its worker fails
\* after all; never by another task's spawn.
WorkKept ==
  [][\A s \in Slot :
       slot[s].work # "none" /\ slot'[s].work = "none"
         => \E p \in Spawner : proc[p].slot = s /\ proc[p].task = slot[s].branch]_vars

\* A teardown takes down no worker but its own.
OwnWindowOnly ==
  [][\A c \in Console, t \in Task :
       At(c, "retire")' /\ ~At(c, "retire") /\ Running(t) /\ ~Running(t)'
         => proc[c].task = t]_vars

Settled(t) == Running(t) \/ row[t].status \in {"done", "blocked", "torn_down", "failed"}

\* No task is stranded: whatever fails on the way, each is again and again in
\* the hands of a live worker or in a status the manager acts on.
NeverStranded == \A t \in Task : []<>Settled(t)

PhaseOf(s) ==
  CASE s = "pending" -> "offered"
    [] s = "active"  -> "underway"
    [] s = "failed"  -> "dead"
    [] OTHER         -> "managed"

Lifecycle == INSTANCE TaskLifecycle WITH
  Lives <- MaxRetries,
  phase <- [t \in Task |-> PhaseOf(row[t].status)],
  lives <- [t \in Task |-> MaxRetries - row[t].retry]

\* Seen from the task rows, racing spawners and sweeps are a TaskLifecycle: a
\* failed dispatch only ever undoes a claim, and never takes back a task that
\* has gone on to the manager.
ImplementsLifecycle == Lifecycle!LifecycleSpec
=============================================================================
