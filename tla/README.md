# ttorch in TLA+

ttorch runs a fleet of coding agents ("workers") for one lead. A backlog of
tasks lives in a SQLite store; a scheduler daemon claims ready tasks and spawns
for each a worker in a git worktree and a tmux window; workers report progress
through a CLI that writes the store; a watcher turns what happens into events
for a manager; finished work passes a review gate and is landed on the default
branch. Several processes (daemons, the watcher, boards, every CLI call) share
the store, the worktree pool and the tmux session, and no lock spans all three.

This directory holds specifications of that system, their TLC configurations,
and proofs about them. Every definition is translated from the Go source; the
table of source lines is `map` in `PROJECT.json`, the list of what is hard to
test there is `hazards`.

## 1. Inventory

| Component (source) | State it keeps | Operations | Hard behaviour |
|---|---|---|---|
| Task table (`internal/db`: `task.go`, `lease.go`, `claim.go`, `landclaim.go`, `windowgone.go`) | rows: status, lease owner and expiry, retry count, worktree, window; events | create, upsert, report, stage, record a transition, grant/extend a lease, claim and release for dispatch and for landing, two reclaim sweeps | sweeps scan first and judge later; late reports; a retry ceiling that late reports cross |
| Scheduler (`internal/scheduler`) | per-daemon memory: dispatch failures, idle and stall observations | dispatch pass, gate pass, land pass, supervise pass, idle nudges, peer pass | one snapshot per tick, stale by the time of the claim; several instances; kills; backoff held in memory |
| Spawn and teardown (`internal/orchestrator`: `spawn.go`, `orchestrator.go`) | none of its own | `spawnWorker`, `abortSpawn`, `Teardown`, `restore` | a long chain of reads and effects over three stores; partial failure at each link |
| Worktree pool (`internal/worktree`) | slots, their checked-out branch and contents; a file lock | acquire, release, start a branch | the in-use set is read outside the lock; work left in a slot |
| Clone pool (`internal/clonepool`, `worktree/import.go`) | clones that borrow objects from the project, a pin of each clone's base, imported refs | acquire and recycle, provision, import a commit, delete | an idle clone is read file by file while things move; what is borrowed must stay; gc |
| tmux (`internal/tmux`, `internal/backend`) | windows by name | create (kills namesakes), kill, send, list | names, not identities; an empty name is the current window |
| Land queue and merge (`internal/orchestrator`: `landqueue.go`, `merge.go`, `landscratch.go`) | verdicts, approvals, refs | prepare a rebase, fast-forward under a lock or publish through an origin, consume the verdict | base moves between preparation and commit; verdicts pinned to a commit; crash between merge and consume |
| Trust gate (`internal/orchestrator`: `gate.go`, `validate.go`, `validatecache.go`, `defaultbranch.go`; `internal/review`) | gate episodes, review reports on disk, grants, a cache of green runs, the branch the gate reads | prep, fan out reviewers per commit, time out, record a verdict, approve | a new commit during the review, late reports, a branch that changes the gate |
| Watcher and inbox (`internal/watch`, `db/inbox.go`) | durable watermark, wake marks, liveness counters | poll liveness and pull requests, coalesce and print a batch, consume; wake the manager | crash between consuming and printing; stale observation; typing into a prompt the lead types into |
| Singleton locks (`internal/singleton`, `watch/flock.go`) | lock files | acquire, reap an orphan, release | replaced lock files, reused pids |
| Escalations (`db/escalation.go`, `db/peerrequest.go`) | escalations, stored requests | open, answer by request id, approval sync | retried and conflicting answers |
| Idle nudges (`db/idlenudge.go`, `scheduler/stallrecovery.go`) | nudge claims per idle episode | claim a nudge | several instances, a budget per episode |
| Peers (`db/peerpoll.go`, `scheduler/peerpass.go`, `internal/peer`, `cli/peer*.go`) | a cursor per peer, delegation records, keys | poll, delegate, serve, provision | pages late or repeated, a peer that was recreated, retried requests |
| Board (`internal/board`) | pages, a mutex per task | answer, dispatch, prep | pages drawn long ago, several boards |
| Opening of the store (`db/open.go`, `migrate.go`, `import.go`) | schema ledger, legacy directory | open, migrate, import, reset | processes of several versions |
| Installer (`internal/installer`, `internal/manifest`) | manifest, block in AGENTS.md, leaves in settings.json and their ledger | install, update, uninstall | the lead edits the same files; runs overlap or end in between |
| Rest | - | brief linter, CI parity, doctor, harness set-up, self-update | none shared; pure I/O or text analysis |

What makes them correct, and is stated as a property below: the claim admits one
claimant; a reclaim rests on ground truth at the moment it commits; live workers
and worktrees are one to one, on the task's own branch, and recorded on the row;
work is never discarded by somebody else; what a clone borrows or a gate reads
stays in the project; the default branch gains only reviewed, green work, once,
and nothing that changes the gate unnamed; no task is stranded and no head is
stuck in review; each event reaches one reader and none is skipped; the manager
is woken once and in the end; a request acts once; what a peer raises is raised
once; nudges are bounded and a silent worker is reported; whoever has the store
has its whole schema; and what is the lead's in a shared file stays the lead's.

## 2. Modules

Abstract specifications: `TaskLifecycle`, `Delivery`, `Mailbox`, `Singleton`.
Component modules come in groups, one `MC` module to a group, which `EXTENDS` the
main component and instantiates the others beside it (see *sums* in section 3).

| group | components | implements | proofs |
|---|---|---|---|
| `MCTaskStore` | `TaskStore`; `Delegation`, `Opening` | `TaskLifecycle` | `TaskStoreProofs` |
| `MCDispatch`, `MCDaemons` | `Dispatch`; `CloneFiles`, `ClonePool`, `CloneImport` | `TaskLifecycle` | `DispatchProofs` |
| `MCLanding`, `MCLandConsole` | `Commits`, `Landing`; `Board` | `Delivery` | `LandingProofs` |
| `MCMerge` | `WatchLock`; `GateTree`, `GateChange`, `GateBranch`, `Publish` | `Singleton` | `MergeProofs` |
| `MCGateEpisode` | `GateEpisode` | | `GateProofs` |
| `MCInbox` | `Inbox`; `ManagedFiles`, `SharedFiles` | `Mailbox` | `InboxProofs` |
| `MCWake` | `IdleWorker`; `Wake` | | `WakeProofs` |
| `MCRelay` | `Relay`; `Provision` | | `RelayProofs` |

### The task table and dispatch

`TaskLifecycle` is the abstract specification: a task is *offered*, *underway*,
*managed* or *dead*, has a number of lives, returns to the backlog only from
underway (undone, or at the price of a life), and dies only from underway
without a life left.

`TaskStore` is the task table under every operation of `internal/db` that
changes status, lease, retry count or the window-gone evidence, in any order:
its callers are unconstrained. One action is one write transaction; the store
has one connection and begins with `BEGIN IMMEDIATE`, so transactions are
atomic (`db/open.go`). The sweeps are not: `BeginLeaseSweep`/`BeginGoneSweep`
are the scan with the clock read before it, `ReclaimExpired`/`ReclaimWindowGone`
judge one candidate again under the write lock, with the scan's clock. The
event log is abstracted to what the sweeps read off it: `gone[t]` says that the
newest `window_gone` of `t` has a higher id than every `spawned` event and every
event of its worker.

`Dispatch` is the dispatch path over the three stores:

| state | code |
|---|---|
| `row` | the task row: status, lease (`none`, `live`, `lapsed`), retry count, window-gone evidence, whether a window is named, worktree |
| `window` | the tmux window `wk-<id>`, the slot it was opened in, whether the agent runs in it |
| `slot` | the branch a pool slot has checked out and the work in it |
| `proc` | where a daemon or console is in `RunOnce`, `spawnWorker`, `Teardown`, and the locals it carries: slot, prior status, the in-use set it read |
| `tick` | the locals of `RunOnce`: ready list, occupied footprints, free slots |
| `fails` | `Scheduler.dispatchFailures` |

The actions `CheckWindow`, `ReadInUse`, `Acquire`, `StartBranch`, `OpenWindow`,
`Launch`, `Save`, `ReportActive`, `GrantLease`, `Spawned` are the steps of
`spawnWorker` in their order; each has its failure outcome, which undoes what
the code undoes at that place. `Claim`, `Park`, `Release` are the claim and the
two endings of a failed dispatch, `TeardownBegin`, `TeardownRelease`,
`TeardownRecord` the read and the effects of `Teardown`, the `Worker*` actions a
worker (edits, commits, reports, dies), `WatchWindowGone`, `LeaseLapses` and
`Reclaim` the watcher, the clock and the sweep. `Crash` kills a spawner between
any two steps. `Dispatch` abstracts `TaskStore` where `TaskStore` justifies it:
that a reclaim is judged in its own transaction (`ReclaimJustified`) is why
`Reclaim` is one step here. Both refine `TaskLifecycle`.

`ClonePool` is the pool whose slots are private clones: `Acquire` under its
`mkdir` lock, the in-use set read before it, the reading of an idle slot's HEAD
file by file (`CloneFiles`: HEAD, loose refs, packed refs, `.git` itself), what
is recycled and what is condemned, the pin of the base in the project, the
provisioning of a new clone, the teardown that deletes it, git gc in the
project, force-pushes of its origin, kills. `CloneImport` is the way of a
commit out of one clone: the gate's and the land's reads of its head, the fetch
into the project under a ref, the rebase and the merge, while the worker goes
on and gc runs.

`Delegation` is what a parent coordinator hands a peer: the commands (task add,
goal, answer) with their record, retry and drop, and the server's reads and
transactions on the ledger of request ids. `Opening` is the opening of the
store: open, read the version, migrate step by step, read-only open, the import
of the legacy files record by record, and `ttorch reset`.

### Landing and the gate

`Landing` is the way of a finished task to the default branch, for one trusted
repository without a remote: the gate pass and the land pass of `RunOnce`, the
pipeline that `LandSet` runs for each task, `ttorch land` and the gated local
merge.

| state | code |
|---|---|
| `main`, `head` | the default branch; HEAD of each task's worktree |
| `status`, `claim` | the row: done or delivered, and the land lease by its owner (`gater`, `lander`) |
| `verdict` | the verdict row: pass, commit, base, identity of the diff, approver and approved commit |
| `token` | the approval token of `internal/approval`: who gave it, for which commit |
| `episode`, `reports` | the gate episode of a head, with the base it was prepped on; what its reviewers answered |
| `told` | the actionable events `gate_blocked` and `land_rebase_conflict` |
| `proc` | where a daemon or console is in its passes: the list it goes through, the claims it won, whether it has spent its gate budget, and the verdict `TrustRecord` holds in memory |
| `job` | `landPrep` and `landCommitLocked` of one task: base, head before and after the rebase, the branch it read in the merge, the verdict it is carrying |
| `lock` | `LandSet`'s commit lock, one per repository and call |

The gate pass is `StartGate`, `GateRead`/`GateClaim` per listed task,
`GateBegin`, then per claimed task one of `GateSkips`, `GatePrep`, `GateBlocks`,
or `TrustRecord` in its five parts: `GatePasses` checks the head against the
episode, `GateValidate` runs the suite and decides on an automatic approval,
`GrantToken`, `SaveVerdict` and `EndEpisode` are its writes, to three stores.
`GateBudgetSpent` and `EndGate` end the pass. The land pass is
`LandRead`/`LandClaim`, `LandBegin`, the pipelines side by side, `EndLanding`.
A pipeline is `LandRebase`, `LandValidate`, `CarryRead`, `CarrySave`,
`GateCoversRebased` off the lock, `LandCommitLocked`, `MergeRead`, `MergeCheck`,
`FastForward`, `ConsumeApproval`, `ConsumeVerdict`, `RecordDelivered` under it.
Around them the worker commits or rebases, the lead pushes, the manager
approves, tokens and claims run out, and a lander is killed between any two
steps.

`Commits` says what a commit is to that code: as the branch only takes
fast-forwards and pushes, a commit is the sequence of the changes in its
history, and ancestry is the prefix order. `Patch` is the three-dot diff together
with what shows of the surrounding tree in its text (`Drift`), the identity
`carryVerdictForward` compares; `Rebased` replays what follows the fork point;
`Conflict` and `Red` say which changes do not rebase or are not green together.

`Delivery` is the abstract specification of landing: the branch moves by pushes
of the lead and by patches of tasks that the reviewers cleared, onto green
commits, never taking a change twice; a task is delivered once a cleared patch of
it is on the branch.

`GateEpisode` is one review episode in detail: the tick read by read, prep and
its stamp, reports carried past a prep, reviewers launched within a budget, the
three anchors of the stall clock, the fold, a record that fails (`RecordFails`, as
often as it likes), `trust prep` and `trust record` by hand. `Landing` takes its outcome as `Report`.

`GateTree` says what of a tree the gate is made of; `GateChange` is the gated
merge of a branch that may change it: grants and approved commit (read at
different moments), the recorded verdict and what it mints, the cache of green
runs and the process's own memo, the re-reads of a merge before its
fast-forward. `GateBranch` is how the branch the gate reads is recorded, seeded,
set and shown. `Publish` is a land with an origin, call by call (fetch, rebase,
suite, push, pull request, verify), in pr or local mode.

`Board` is any number of local boards on one store: its three actions read by
read under the claims they take, from pages drawn at any earlier moment.

### Watching, waking and nudging

`WatchLock` is the watch lock, system call by system call: open, flock, look at
the path, read and write the record, unlink, close; arming with its self-heal
past an orphan, `--reset`, the scheduler's sweep; kills and reused pids.
`Singleton` is what it promises, and the scheduler's own lock directly.

`Inbox` is the log above the watermark with its readers: the armed watcher (which
coalesces, prints and consumes), `--since` with any id, below the mark or above
it, `ttorch inbox`, the merged-PR poll. `Mailbox` is the promise: each reader is
handed everything nobody was handed before, in one piece; a replay reads again,
and one that was told to begin above the mark passes over what is below.

`Wake` is the scheduler's wake-up loop over the manager's prompt, which the lead
types into as well: the reads of the row, of the events, of the pane and of the
clock, then type, confirm, enter and record are steps. `decided` is the age of the
`now` of the decision: the recorded wake and `retryAt` count from it, as in
`daemon.go:278`, however long typing and confirming take.
`IdleWorker` is one worker at its prompt: the idle pass with its budget in the
store, the stall pass with its budget in memory, the watcher's auto-resume and
its ladder of raises. Every line typed, by any of the three, may change the pane
or leave it, each time anew and without a bound; what the worker does of itself,
restarts and failing captures share `MaxActs`.

### Peers and files

`Relay` is a peer's table of escalations with the approval sync and the answers,
and the parent's poll of it in three steps (asked, listed, recorded), cursor,
open rows, caps, resets, refusals. `Provision` is how a coordinator becomes a
peer: add, adopt, retire, init over ssh, and `authorized_keys`, which others edit, also
between the last check of a forced install (`CheckKeys`) and its rename
(`ReplaceKeys`).

`ManagedFiles` is install, update and uninstall of the files ttorch owns, under
the manifest; `SharedFiles` of those it shares with the lead: the block in
`AGENTS.md`, the link `CLAUDE.md` (look, remove, link and copy are calls of their
own, and the lead writes the file too), the leaves in `settings.json` and their
ledger. Both end a run wherever it is killed or fails.

## 3. Runs

| run | instance | shows |
|---|---|---|
| `task_store` | 1 task, 2 sweepers, 1 retry, clock to 4; 2 parents, 2 commands, 2 servers, 2 request ids; 3 processes of versions 2, 3, 3, 2 legacy records of which one is readable | `ReclaimJustified`, refinement of `TaskLifecycle`; `ActedOnce`, `OnRecord`; `SchemaWhole` |
| `dispatch_single` | 2 overlapping tasks, 2 slots, a daemon and a console that take turns, 1 death | `WorktreeRecorded`, `WorkKept` |
| `dispatch_daemons` | 1 task, 2 slots, 2 daemons interleaved, 1 kill or lost write, failing row writes; a clone pool of 2 slots for 2 tasks, 3 acts; one clone and its gate, 4 acts | `OneClaimant`, `NoWorkerReplaced`, refinement of `TaskLifecycle`; `BaseKept`, `CondemnedSoundly`; `PinnedStays` |
| `dispatch_recovery` | 1 task, 2 slots, 1 daemon, 3 deaths, 1 kill or lost write, fairness | `NeverStranded` |
| `land_console` | 1 task whose work conflicts with the lead's, a daemon and a console, 2 commits, 1 push, 1 fault; 2 boards | `ApprovalSound`, refinement of `Delivery`; `AnsweredOnce`, `PreppedOnce` |
| `land_pair` | 2 tasks in one repository, one drifting on the lead's push and one red with it, a daemon, 1 push, 1 fault, fairness | `VerdictSound`, `Settles` |
| `merge_and_lock` | 2 watchers, a sweep, 3 inodes; a merging and a recording process over 4 kinds of gate edits; 2 branches, 2 commands of the lead, 1 of a worker; 2 landers with an origin | refinement of `Singleton`; `GateChangeNamed`; `BranchSeen`; `PublishedIsValidated`, `LandedWhole` |
| `inbox` | 2 watchers (one with any `--since`), `ttorch inbox`, the sweep, 2 events, 1 kill; 2 files or 2 leaves, 2 releases, 2 runs, 3 acts | `NothingSkipped`, refinement of `Mailbox`; `FilesKept`; `LeadsOwnKept` |
| `wake` | 2 events, 1 draft of the lead's, 1 kill, a rewake of 2 ticks, fairness | `OneWake`, `Heard` |
| `gate` | 2 commits (one needs one reviewer, one two), a daemon and a manager, 1 attempt, 1 fault, records that fail, fairness | `PassIsReviewed`, `NoFindingLost`, `HeadSettles` |
| `relay` | 2 request ids, 1 scheduler, 2 episodes, 3 stamps; 3 coordinators, 3 commands | `RaisedOnce`; `DepthOne`, `OthersKept` |
| `idle_worker` | 1 scheduler, a pane that is busy, idle under an old error, or stalled, answers without a bound; budgets of 1, 1 act, fairness | `NudgesBounded`, `IdleIsNudged`, `SilentIsTold` |

Each passes within five minutes, on 35 thousand to 1.8 million distinct states.

**Sums.** A group with more than one component is checked by one run. Its `MC`
module has a variable `part` that the initial state sets and nothing changes:
`SumSpec` takes the steps of the component that `part` names, the other
components stand still, in one fixed initial state, so that the states add and do not
multiply. No component sees the others; the components of a sum do not interact
in the code beyond what each one's own comment says. Where the properties are about fairness
the components have specifications of their own: `LandingSpec` in `MCLandConsole`
for `land_pair`; `WakeSpec` in `MCWake`, which extends `IdleWorker` and lets it stand
still beside an instance of `Wake`; `idle_worker` runs `IdleWorker` by itself.
`WakeProofs` proves about both.

**Bounds.** No operation of the task table relates two tasks, so one task is
enough for `task_store`; two sweepers race for it, a lease of one tick can be
armed and lapse twice before the clock ends. In `Dispatch` two slots are the
least in which a slot can be the wrong one and two tasks the least in which a
slot can be somebody else's; properties of one task are checked with one task
and more spawners or faults. `MaxRetries` and `MaxFailures` are 1 or 2 instead
of 3 and 5: below, at and above the ceiling are all reached. `MaxFaults` bounds
kills and lost writes, `MaxDeaths` workers that die. `dispatch_single` has
`MaxFailures = 1` (every failure parks) and no faults, to keep two tasks with
two slots exhaustive.

In `Landing`, `land_console` has what races for one task: a daemon's pipeline
under a claim, a console's pipeline without one, a worker that commits or
rebases in between, one conflicting push. `land_pair` has what two tasks do to
each other: the first to merge makes the second prepare again, the push makes
one diff change its text and the other red. One fault is a kill, a suite that
fails by chance, a failing read in the merge, or a token or claim that runs out
in use. Between them the two runs take every action. Two daemons over one task
(with a push, a fault and two commits) were explored once for the safety
properties, without an error, and are too large to keep as a run.

Of the other components: two of each actor are enough to race, and `MaxActs`
(commands, edits, pushes, kills, moves of a branch) is the largest that keeps a
run short. Beyond the runs, without an error: `Provision` with four coordinators
and four events, under symmetry (6,195,637 states), `ClonePool` with four acts
(506 thousand), `GateChange` with five moves and fewer edits (1.3 million),
`Opening` alone (173,660), `Board` with `MaxLog = 5` (2,986,566), `Inbox` with three
events (3,186,414), `ManagedFiles` with four acts (1,069,605), `SharedFiles` with
one leaf, three releases and four acts (8,302,855), and with both leaves the lead's
to start with (1,145,689; the run starts with at most the one that both releases
manage, and lets the lead set the other later), `SilentIsTold` with two
screens of a broken-off stream (1,639,514).
In `idle_worker` one act is enough, as what matters repeats without being one:
every nudge, revive and resume may change the pane again, and a HEAD that
cannot be read is free. With two acts it passes too (1,831,111 states).
`GateChange` has one merging process: with two, a fast-forward of the one may
land an intermediate commit between the other's check and merge.
`CHECK_DEADLOCK FALSE` is set in `gate` alone: a head that is recorded or blocked
needs no further step.

**Assumptions that runs make, and what happens without them.**

- `OneAtATime` (`dispatch_single`): spawns, teardowns and sweeps do not overlap.
  Nothing in the code ensures it; without it both properties fail as soon as two
  spawns overlap (section 4).
- `HungWorkers = FALSE`: a live worker reports within the two hours of its lease.
  With silent workers a task can be poison-pilled under a live worker, and its
  slot, no longer held by a live row, goes to another task.
- A lease does not lapse, and the watcher does not look, while a daemon's spawn
  of that task is in progress: a spawn takes seconds to minutes, and the claim
  restarts both the two-hour lease and the quiet period. An interactive spawn
  does neither, and no such assumption is made about it.
- `LandCap` is not reached in `land_pair` (two tasks, cap 2) and is 0, no cap, in
  `land_console`. Both the list (`db/task.go:334`) and the claims
  (`scheduler.go:1067`) go by age, and a task that cannot land is claimed again
  on every tick: with a cap of 1 and an elder task that is stranded, the younger
  is never landed and `Settles` fails.
- `StoreFails` admits failing writes in a spawn. It is off where `OneAtATime` is
  on.
- One `PoolSpawner` (`CloneAssumption`): with two, a clone is condemned or reused
  under a spawn that has not saved its row yet, and `BaseKept` and
  `CondemnedSoundly` fail, as in the worktree pool.
- One scheduler in `relay`: with two, `RaisedOnce` fails (section 4).
- `ResetAlone`: `ttorch reset` has the store for itself. Without it `SchemaWhole`
  fails.
- `Damage = FALSE` in `inbox`: nobody deletes one of the two markers of ttorch's
  block in `AGENTS.md`. With `Damage = TRUE`, one leaf, one run and five acts
  `LeadsOwnKept` fails.
- `MaxTaken` in `land_console`: how often somebody else's claim overwrites a gate
  claim; `PreppedOnce` speaks of the behaviours where none did.

**Fairness.** `Dispatch!Fairness` (`dispatch_recovery`): the daemon keeps ticking
and a spawn or teardown once begun ends, as every wait
in it has a deadline; a sweep and the watcher keep polling and the clock
advances. `Claim` is strongly fair: while a task is ready and there is a slot,
each tick would claim it, but a tick may end early on backoff or on the
governor's budget, both of which pass. Nothing is assumed of workers or
consoles: that a worker works, reports or survives is not promised.

`Landing!Fairness` (`land_pair`): the daemon's loop goes on,
as every wait in it has a deadline; each task of a set has a pipeline of its own
(`LandSet` starts a goroutine for each); reviewers report, or the
gate pass gives them up; leases run out with the clock. All of it is weak: a
pipeline waiting for the lock stays enabled once the lock is free, and only as
many others precede it as the set has tasks. Nothing is assumed of consoles, of
workers, of the lead or of the manager.

`Wake!Fairness`: the sweep loop and the clock go on, turns of the manager end,
the lead does not leave a draft at the prompt for ever and does answer what is
awaited. Strong fairness is asked of what an armed watcher or the lead can take
away for a moment again and again: that a sweep that may type finally does, and
that a manager who was woken reads its inbox. `GateEpisode!Fairness`: the
daemon's tick and the clock, no more: reviewers, windows and the manager's own
commands are free to hang, and a record is free to fail. `IdleWorker!Fairness`:
each scheduler's two passes go on, the watcher's poll goes on, and so does the
clock; a HEAD that has moved is not unreadable every time the sweep reads it
(strong fairness of that one read, as it may fail any number of times). Nothing is
assumed of the worker, nor of sends and captures succeeding.

## 4. Where the code and what is said of it part

These came up while modelling. A definition named here that no run lists stays in
its module; giving it to TLC with the constants mentioned shows the behaviour.

*Dispatch* (`MCDispatch`)

1. `NoSharedWorktree`, two daemons and two tasks: the in-use set is read before
   the pool is locked (`spawn.go:152`), and a row names its worktree only after
   the launch (`spawn.go:243`), so two spawns acquire one slot.
   `docs/ARCHITECTURE.md:129` holds this impossible.
2. `OneSpawnLaunches`, a daemon and a console: the window check is an acquisition
   away from the opening of the window, which kills a namesake.
   `scheduler.go:47-52` says "never a silent double-dispatch".
3. `WorkKept`, two tasks without retries: a poison-pilled row keeps naming a slot
   that the pool hands out again; its teardown resets the other worker's slot.
4. `OwnWindowOnly`, two tasks: the teardown of a task without a window kills the
   session's current one (`orchestrator.go:352`, tmux's empty target).
5. `NeverStranded`, two tasks, two slots, two deaths: a reclaimed row keeps its
   worktree, which still counts as occupied; a pool full of those is stuck.
6. Two daemons over one task can keep each other in backoff for ever, and with
   `SerializeOverlap` two daemons can run overlapping tasks side by side.

*Clones* (`ClonePool`)

7. `Teardown` looks for `ttorch/<id>` in the project, where a clone's branch never
   is: unlanded commits go without `--force` (`orchestrator.go:301` says not).
   The directory is deleted before the row is blanked, and its number can be
   handed out in between. A provision that died after `git init` leaves a slot
   that is never recycled and counts; new numbers are the highest plus one, so
   they pass the pool's size. Only HEAD's tip is looked at before a clone is
   recycled. `DropImports` is called from nowhere.
8. The pools' `mkdir` locks (`worktree.go:1178`, `clonepool.go:307`) survive a kill
   of their holder; every later acquire then times out.

*Landing, publishing, gate changes*

9. `RetriedUntilSettled` (`Landing`, one stop of the daemon): only the land that
   rebases a worktree carries the verdict over; stopped in between, or red by
   chance, every later land is refused, nobody gates the task again and nobody
   is told (`merge.go:1222`; `scheduler.go:1114` says "a later tick can retry").
10. `ClaimForLand` refuses only a claim of the same owner (`db/landclaim.go:32`), so
    a gate pass and a land pass of two daemons take a task from each other, though
    `scheduler.go:1007` has the claim keep them apart. The safety of landing does
    not rest on it. A second rebase conflict of a task is never surfaced
    (`scheduler.go:1425`). A lander that dies between the fast-forward and the
    row leaves a task whose verdict is spent (`Stranded`).
11. An approval's grants come from one read of the token and its commit from a
    later one (`merge.go:250`, `442`). A path that already is hostile on the branch
    can never be removed by a gated merge.
12. `Push` is not forced: a pull request that GitHub blocks and a later land
    rebases is refused at every later push. `integratePR` records `delivered`
    before `verifyLanded`.

*The gate*

13. `SettledIsKnown` (`GateEpisode`): the tick ignores what `TrustRecord` answers
    (`gate.go`, near 1893), so a head can be done without the manager being told,
    against `scheduler/gate.go:42`. And a record that keeps failing for another
    reason than a moved head (a base or a diff that cannot be read, the approval's
    file, the store: `gate.go:943-1015`) leaves the tick waiting for ever without
    the stall clock, behind the check that "every route out of an unfinished
    episode passes through" (`gate.go:1793`): `HeadSettles` without its first
    disjunct is violated. Findings filed while the suite of a prep runs
    are superseded. The append of `gate_blocked` is best effort.

*Watching and nudging*

14. `SilentWhileAwaiting` (`Wake`): a wake is typed although the manager awaits the
    lead, when the wait begins after the read. A wake is dated at its decision, so
    after a slow send the next one can be typed less than a `Rewake` after it, while
    it is unread, although `daemon.go:66` has an unanswered one repeated "no faster
    than this": `OneWake` counts from the decision. A `--since` replay sets the
    watermark back, and a `--since` above the mark passes over every unread update
    up to it (`watch.go:324`, `413`). A reader killed between consuming and printing
    loses what it consumed; `NothingSkipped` says that nobody else does.
15. The watcher's resume is typed before it is recorded and has no budget, while
    `idlenudge.go:30-33` speaks of one for both, and `watch.go:582-589` of one resume
    per episode with `idle_unreported` as the net below it. A resume that changes
    the pane ends the episode: the sweep count and the stall clock start over
    (`watch.go:629`, `stall.go:146`), so a worker that shows something new after
    every resume and is as stuck as before is never put to the manager:
    `SilentIsTold` without its first disjunct is violated. The revives of the stall
    pass, on a budget per episode in memory, do not have this effect by themselves.

*Peers*

16. `RaisedOnce` with two schedulers: a list recorded after a newer one makes an
    escalation be raised twice and the cursor seem reset; `peerpoll.go:11-15` says
    the update is idempotent. An id more than `MaxJump` above the cursor is
    refused for ever.
17. A refused retry whose first attempt acted drops the delegation record
    (`cli/peerclient.go:482-515`). An answer names an escalation by its id alone,
    which a recreated store gives out again.
18. A forced install checks that `authorized_keys` is as it was read and then renames
    (`authkeys.go:595`, `602`): an entry that another program adds between the two
    calls is lost, against `authkeys.go:417-419` ("if anything wrote it meanwhile, the
    new file is discarded and the install refused, so that write is not lost").
    `OthersKept` is about every other entry. Two forced inits that race can leave the coordinator row naming one parent and
    `authorized_keys` holding the other's line. A kill while `peer.env` is written
    leaves a part that every later init keeps. A failed commit leaves a brief file
    that a later spawn without a brief launches on.

*Board, store, installer*

19. A failed Enter gives a question back, and the retry types the text twice into
    one line (`SendLine`). A land pass overwrites the gater's claim, and with it
    `PreppedOnce`'s subject: a board then preps over a daemon
    (`actions.go:240` says never).
20. A killed import strands its remaining records, as the store is no longer
    pristine. An import started beside a poster seeds the watermark past what was
    posted (`SeedSkipsNothing`, violated). `ttorch reset` beside another open can
    leave a gap in `schema_migrations` that nothing fills, as only the maximum is
    read.
21. An update re-adds a leaf the lead deleted and overwrites an edited
    `.ttorch-new`; a kill between `settings.json` and its ledger leaves a leaf that
    no uninstall removes; a kill between a managed file and the manifest leaves a
    file the next release takes for the lead's and only parks its version beside
    (`adrift`); a lonely `BEGIN` marker in `AGENTS.md` costs the lead what follows it
    (`Damage`). "An existing real (non-symlink) file is left untouched"
    (`installer.go:246`), but a `CLAUDE.md` written between the look and the removal
    or the copy is lost, and of two installs at once one may leave a copy where the
    other put the link.

## 5. Proofs

Sixty theorems, over some six hundred lemmas, in eight modules, one to a group.
Each holds for every value of the constants under the named assumptions of its
modules (`ConstantsAssumption`, `LandingAssumption`, `CommitsAssumption`,
`LockAssumption`, `MergeAssumption`, `GateAssumption`, `InboxAssumption`,
`ManagedFilesAssumption`, `SharedFilesAssumption`, `WakeAssumption`,
`IdleAssumption`, `RelayAssumption`, `DelegationAssumption`, `OpeningAssumption`,
`CloneAssumption`), which the runs evaluate, and under the hypotheses of its
statement, which the tables name. All are of the form "the specification implies
always P", "... implies the action property P", or "... implies the abstract
specification", from an inductive invariant. Every safety property a run checks
has its theorem; those marked ° are theorems only: no run checks them any more,
they were checked by TLC before they were proved.

A component of a sum is proved about through the sum: its invariant is inductive
under the component's steps, and the other parts leave its variables alone.

**Task store** (`TaskStoreProofs`)

| theorem | property | argument |
|---|---|---|
| `TypeCorrect`° | types | inductive as it stands |
| `LeaseShapeCorrect`° | owner and expiry together | the clock is a natural number, so an armed expiry is never `NoExpiry` |
| `RetriesCorrect`° | retries bounded | a reclaim is the only step to `failed`, and no step lowers a count |
| `ReclaimNeverInference` | `ReclaimJustified` | the sweep judges with the clock of its scan, and an expiry before that is past only because the scan's clock is never ahead |
| `StoreImplementsLifecycle` | `ImplementsLifecycle` | step by step under types and bounded retries: dying without lives left needs the count to have stopped exactly at the ceiling |
| `RequestsActOnce` | `ActedOnce` | the ledger is tied to the answers in hand; a server answers at most one waiting command (`ForInv`) |
| `BriefsKept`° | a task has the brief it was added with | the file is written inside the transaction that creates the row, and no other add of the id gets that far once it exists |
| `DelegationsOnRecord` | `OnRecord` | one clause per carrier of a request: the command, the server, the ledger |
| `SchemaIsWhole` | `SchemaWhole` | under `ResetAlone`: versions on record are always 1..n; whoever migrates has reached at most n; while a reset runs nobody else is past the opening |
| `LegacyIsKept`° | legacy records filed or warned of | each record is still to do, in hand, filed or warned of, in every importer's hands |

**Dispatch** (`DispatchProofs`)

| theorem | property | argument |
|---|---|---|
| `TypeCorrect`° | types | a daemon inside a spawn has a slot to spend, else `free - 1` leaves the naturals |
| `OneClaimantCorrect` | `OneClaimant` | `ClaimHeld`: while a daemon spawns a task its row is not pending, its lease not lapsed, its window not reported gone, so neither a sweep nor a claim can touch it; the status alone is not inductive |
| `DispatchImplementsLifecycle` | `ImplementsLifecycle` | each row write is one lifecycle step of one task |
| `NoWorkerReplacedByDaemons` | `NoWorkerReplaced` | without consoles: nothing is up before the launch (`NotYetUp`), and a claim outranks old evidence of a lost window |
| `WorkerLeasedByDaemons`° | a live worker has a lease | without consoles and hung workers: who is up was launched, and its claim or its lease is kept by every failed write (`ClaimKept`, `LeaseKept`) |
| `WorktreeRecordedInTurn` | `WorktreeRecorded` | under `OneAtATime` without kills, failing writes or hung workers (`TakeTurns`) and while no task has been poison-pilled (`NoneFailed`, see 3 above): rows name slots apart, a row that names a slot keeps it from the pool, and each spawner relies on what nobody else changes between its steps (`Holds`) |
| `WorkKeptInTurn` | `WorkKept` | the same invariant `WorkInv` |
| `BaseStays` | `BaseKept` | the pin of a base goes up before anything borrows and comes down only with the clone |
| `CondemnsSoundly` | `CondemnedSoundly` | while one spawn works rows only go blank, so the in-use set it read bounds the slots in use |
| `PinnedCommitStays` | `PinnedStays` | refs name commits that are there; a reading only takes commits seen at HEAD (`EyeOk`, `Gently`) |
| `MergesAreThere`° | a merge takes what the read before it saw | the same invariant |

**Landing** (`LandingProofs`)

| theorem | property | argument |
|---|---|---|
| `TypeCorrect`° | types | one lemma per group of actions, on lemmas about rebases, patches and new commits |
| `ReviewedCorrect`° | `Reviewed` | the inductive core: `RowSound`, `HeldSound`, `JobSound`, `EpisodeSound`, since each store is filled from another while others act; lemmas on who writes what leave each part a handful of steps |
| `VerdictSoundCorrect` | `VerdictSound` | from `Reviewed` |
| `ApprovalSoundCorrect` | `ApprovalSound` | `Reviewed`, and the base of a sound verdict is an ancestor of a branch that only grows: what a commit still brings is part of its diff (`BringsItsDiff`) |
| `DeliveryImplemented` | `ImplementsDelivery` | `Shape`: no change twice, a worktree has own or shared changes, and what the branch has of a task sits in place in its worktree, so a rebase never replays what landed; `Merging`: a merge under way brings what was cleared, and its commit stays an ancestor of the worktree's head until it is on the branch |
| `OneAnswer` | `AnsweredOnce` | who has the claim on a question has it alone and unanswered, and the log says so (`AnswerInv`) |
| `OnePrep` | `PreppedOnce` | who preps holds the lease (`LeaseInv`); who has prepped left its trace or is on record as having lost it (`TraceInv`); for behaviours in which nobody else took the claim |

**Merge and lock** (`MergeProofs`)

| theorem | property | argument |
|---|---|---|
| `TypeCorrect`°, `OwnFileAlways`° | types; who is past the check has the file at the path | about inodes: who passed the liveness check has the lock of the inode at the path, and only it unlinks that path |
| `ReapSparesOwnAlways`° | no watcher of one's own session is signalled | the record read is the record of its session or an orphan's |
| `WatchLockRefines` | `ImplementsSingleton` | the holder is who owns the inode at the path |
| `OnlyValidatedLeaves`, `SuccessIsLanded` | `PublishedIsValidated`, `LandedWhole` | what is out is part of a validated commit, as a land carries nothing but what it validated; branches only grow |
| `NoBranchUnseen` | `BranchSeen` | what is printed is the branch on record, or the lead has chosen one over it since |
| `GateChangesNamed`, `SuitesOwnGreen`° | `GateChangeNamed`; a suite of its own process | a lead's commit is never ahead of the branch; an approval by the gate vouches only from its base |

**Gate** (`GateProofs`): `TypeCorrect`°; `PassesReviewed` (`PassIsReviewed`): a report the
fold accepts is fresh, either filed after the stamp, or carried past it, and then
it blocked when prep looked, so if it is clean now it was filed meanwhile;
`FindingsStand` (`NoFindingLost`): a finding is carried by every prep that looks after
it, and none that looked before is under way.

**Inbox and files** (`InboxProofs`)

| theorem | property | argument |
|---|---|---|
| `TypeCorrect`° | types | the mark never passes the last event |
| `NothingIsSkipped` | `NothingSkipped` | only the lock's holder moves the mark back, so what a watcher read from stays at or below the mark until it prints (`HoldInv`, `BatchInv`); a replay knows how far it has read, and what it was told to begin above is set down as passed over (`SinceInv`, `ReplayInv`) |
| `MergedRecordedOnce`° | a merge is recorded once | the poll runs under the lock |
| `InboxRefines` | `ImplementsMailbox` | one consuming transaction is one hand-over; a lemma on the maximum of a set makes the coalesced batch one piece |
| `FilesStayKept` | `FilesKept` | what is the lead's: the ledger lists only what was shipped (`ClobberedIsShipped`). What is ttorch's, whatever is killed or overlaps: an untouched file is a shipped one (`PlainInv`). And per file that is not `adrift` (`TidyInv`): at most one run is over it; a pending file against the ledger, a finished one against the release; what was read is what is found but for edits. A run that breaks off sets adrift only files that are not as the ledger has them, and a run by itself brings back those it leaves as shipped |
| `ClobberedIsShipped`° | what a run replaces was shipped | the ledger lists only what was shipped |
| `OwnedLeavesTold`° | the ledger claims only what ttorch wrote; unbroken, it tells of every leaf of ttorch's | `WroteInv`: what is claimed, or will be, was written; a leaf by ttorch has the value in the ledger or the one about to be saved (`Told`) |
| `LeadsOwnStays` | `LeadsOwnKept` | under `~Damage`. The lines: the file, and what every run has read of it, has at most one block and that whole (`TextInv`), so that putting in or taking out a block maps the lead's lines one to one in order. The leaves: what is claimed, or will be, was written (`WroteInv`). The link: what a run goes on to replace or remove, it has seen to be a link or nothing (`LookInv`) |

**Wake and nudges** (`WakeProofs`): `TypeCorrect`°; `OneWakePending` (`OneWake`): the mark
goes back only under an armed watcher, so not during a sweep; a wake whose
record was lost is remembered by `retryAt` for as long as the record would have
counted, as both count from the decision (`SentInv`); and from the decision to the
key nothing but time passes, which makes no wake pending again (`PendingInv`);
`NudgesWithinBudget` (`NudgesBounded`), for any number of schedulers: every nudge
typed or about to be is on record as `nudged` (`NudgeInv`), the record is
within the budget because the claim decides and records in one transaction, a
nudge that a sign of life overtakes is in neither count, and what gives up or
resumes records events of another kind.

**Peers** (`RelayProofs`)

| theorem | property | argument |
|---|---|---|
| `TypeCorrect`° | types | an id is open under one stamp and never above the cursor |
| `LedgerCorrect`°, `OncePerEpisodeCorrect`°, `WaitingIsListedCorrect`° | ledger and table agree; one question per episode; who waits is listed | in the peer's own table, for any requests (`EscInv`, `LedgerInv`, `ResolvedInv`) |
| `RaisedOnceCorrect` | `RaisedOnce` | one scheduler: what was raised and is open is known (`Raised`), a list under way is not older than what was recorded (`Fresh`, `Steady`) |
| `ResetJustifiedCorrect`°, `NoPollInVainCorrect`° | ids go back only with the store; the cap delays and never starves | one scheduler, the same invariant |
| `NoChains`, `OtherEntriesKept` | `DepthOne`, `OthersKept` | from its registration on, what a command adds is in use, so nobody becomes a peer beside it (`DepthInv`); what an init may yet rename over the file has every entry there is but those added between its check and its rename (`OthersInv`) |

**Left to TLC.** The liveness properties: `NeverStranded`, `Settles`, `Heard`,
`HeadSettles`, `IdleIsNudged`, `SilentIsTold` (fairness and `ENABLED` are out of the
provers' reach). Nothing else a run checks.

The invariants were checked on the runs' constants before they were proved where
that is feasible: `DeliveryInv` on `land_console` (427,686 states) and `land_pair`
(35,079), `WorkInv`'s parts on `dispatch_single` (1,783,186) and with two daemons,
`IInv` of `GateProofs` with two faults (4,181,425), `PoolInv` (1,550,392).

## 6. Not modelled, and why

In `Dispatch`: a failing `Pool.Release` (it runs git commands on a slot that
exists); the set-up of the harness in a worktree and the native terminal tabs
(best effort, no state that is read back); tmux's prefix matching of window
names; `restore` and `Resume`; the repository a task belongs to (one is modelled:
pools and windows of different repositories share nothing but the session). The
watcher's capture and its append of `window_gone` are one step. In `TaskStore`:
columns nothing decides on, the text of events, `cc` sessions (excluded from
every pass). In `Landing`: dirty worktrees and the scratch worktree of the suite,
the size and age limits of automatic approval (`NeedsHuman` stands for all of
them), a failing audit write, the bounded attempts, the reviewers (in
`GateEpisode`), a remote (in `Publish`), changes to the gate (in `GateChange`).
`ttorch approve` and the opening of an episode are one step each. In the clone
modules: refusals of unsupported repositories, detached HEADs. In `GateBranch`,
`ttorch project add` prints in the step that records. In `Relay` and `Delegation`:
the wire format, summaries, ensure-up. In `Board`: HTTP, drawing. In `Opening`:
`manager.json` (it may overwrite a row set meanwhile; nothing else depends on
it). In `ManagedFiles` and `SharedFiles`: parked copies, the order of files,
profiles.

Components without a module (`not_modelled` in `PROJECT.json`): process
fingerprints and the harness, which are reads of `/proc` and of settings, and the
brief linter, CI parity and learnings, which analyse text and share no state.

One hazard has neither a property nor a theorem: `spawn.go:258`, where a spawn
sets the row active by what it read before its save, so the report of a worker
that is done within the launch is overwritten; to state it, a report would have to be
tied to the incarnation of the worker, which the row does not hold either.

## 7. What is left

In order of weight.

1. The slot properties without `NoneFailed`: they need the row of a poison-pilled
   task to stop naming its slot, which is a change to the code, not to the model.
2. `RaisedOnce` for several schedulers, once a list carries its order.
3. `restore` after a reboot, and the hooks as a second source of liveness.
4. The sums keep the number of TLC runs small; a component that grows should get
   a run of its own again.
