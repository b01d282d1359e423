------------------------------ MODULE IdleWorker ------------------------------
(***************************************************************************)
(* What happens around one worker that has stopped at its prompt: the      *)
(* scheduler nudges it, from an ordinary prompt (idlenudge.go, on a budget *)
(* kept in the store) or from a broken-off stream (stallrecovery.go, on a  *)
(* budget in memory); the watcher's sweep resumes it as well, and tells    *)
(* the manager, once when it has been idle for long and again and again on *)
(* the stall ladder.                                                       *)
(*                                                                         *)
(* A pane is seen through the classes its readers sort it into, and stands *)
(* for its own hash.  The lease, two hours against their minutes, holds,   *)
(* the window is there and a harness without hooks is running.             *)
(***************************************************************************)
EXTENDS Naturals, Sequences, FiniteSets

CONSTANTS
  Scheduler,
  Screen,            \* what the pane may show, one of them
  Busy,              \*   a turn under way,
  AtPrompt,          \*   these the prompt with the caret (livestate.Idle):
  Hopeless,          \*     below an error that no nudge cures,
  ApiStalled,        \*     right below a broken-off stream (livestate.APIStalled),
  StallText,         \*     with the text of one somewhere (livestate.Stalled)
  None,
  MaxIdleNudges, IdleConfirmations, IdleNudgeGrace,
  MaxStallNudges, StallNudgeGrace,
  StaleHold, Dwell, IdleStaleSweeps,
  StallAfter, StallRepeat, StallReraises,
  Horizon,           \* ages are not counted beyond it
  MaxActs            \* bound on what the worker does of itself, kills and failing
                     \* captures, together

\* What a prompt shows is told apart from a turn under way, no grace is zero or
\* longer than ages are counted, and no budget is empty.
IdleConstants ==
  /\ Busy \in Screen /\ AtPrompt \subseteq Screen \ {Busy} /\ None \notin Screen
  /\ Hopeless \cup ApiStalled \cup StallText \subseteq AtPrompt
  /\ {IdleNudgeGrace, StallNudgeGrace, StaleHold, Dwell, StallAfter, StallRepeat}
       \subseteq 1..Horizon
  /\ {MaxIdleNudges, IdleConfirmations, MaxStallNudges, IdleStaleSweeps} \subseteq Nat \ {0}
  /\ {StallReraises, Horizon, MaxActs} \subseteq Nat

ASSUME IdleAssumption == IdleConstants

VARIABLES
  pane,
  active,     \* tasks.status is active
  progress,   \* age of last_progress_at
  spine,      \* idle_nudged and auto_resumed events since the last sign of life
  lastAt,     \* age of the last of them
  live,       \* tasks.last_pane_hash and idle_sweeps
  clock,      \* the latest stall_clock: what the sweep saw, its age
  alive,      \* a sign of life is newer than it
  moved,      \* HEAD is not the one it names
  raises,     \* stalled events since it, and the age of the last
  surfaced,   \* an actionable event since last_progress_at
  seen,       \* a scheduler's idleSeen
  stall,      \* a scheduler's stallSeen
  tick,       \* where each scheduler is
  sweep,      \* where the watcher is
  typed,      \* history: nudges of the idle pass since the last sign of life
  acts        \* how many of MaxActs have happened

row    == <<active, progress, live>>
events == <<spine, lastAt, clock, alive, raises, surfaced>>
memory == <<seen, stall>>
vars   == <<pane, row, events, moved, memory, tick, sweep, typed, acts>>

Age == 0..Horizon

NoObs    == [text |-> None, count |-> 0]
NoStall  == [on |-> FALSE, nudges |-> 0, age |-> 0]
Resting  == [at |-> "idle", text |-> None, late |-> FALSE]
NoSweep  == [at |-> "rest", pane |-> None, dwelled |-> FALSE, shown |-> FALSE]

Init ==
  /\ pane \in Screen /\ active = TRUE /\ progress = 0
  /\ spine = <<>> /\ lastAt = 0
  /\ live = NoObs
  /\ clock = [pane |-> None, age |-> 0] /\ alive = TRUE /\ moved = FALSE
  /\ raises = [n |-> 0, age |-> 0] /\ surfaced = FALSE
  /\ seen = [s \in Scheduler |-> NoObs] /\ stall = [s \in Scheduler |-> NoStall]
  /\ tick = [s \in Scheduler |-> Resting] /\ sweep = NoSweep
  /\ typed = 0 /\ acts = 0

--------------------------------------------------------------------------------
(* The worker.                                                             *)

Act == acts < MaxActs /\ acts' = acts + 1

\* It works, stops, prints, or is typed to by the lead.
PaneChanges ==
  /\ Act /\ \E x \in Screen \ {pane} : pane' = x
  /\ UNCHANGED <<row, events, moved, memory, tick, sweep, typed>>

Commits ==
  /\ Act /\ moved' = TRUE
  /\ UNCHANGED <<pane, row, events, memory, tick, sweep, typed>>

\* A report, a stage, or a new dispatch: a sign of life, and progress.
Reports ==
  /\ Act
  /\ active' \in BOOLEAN /\ progress' = 0
  /\ spine' = <<>> /\ lastAt' = 0 /\ alive' = TRUE /\ surfaced' = FALSE
  /\ typed' = 0
  /\ tick' = [s \in Scheduler |-> [tick[s] EXCEPT !.late = tick[s].at = "send"]]
  /\ UNCHANGED <<pane, live, clock, raises, moved, memory, sweep>>

\* "continue" at the prompt: nothing, or whatever the harness makes of it, every time.
Answer == pane' \in Screen

Older(a) == IF a < Horizon THEN a + 1 ELSE a

\* A spent budget is not asked when it was last drawn on.
Clock ==
  /\ progress' = Older(progress)
  /\ lastAt' = IF Len(spine) \in 1..MaxIdleNudges - 1 THEN Older(lastAt) ELSE 0
  /\ clock' = [clock EXCEPT !.age = Older(@)]
  /\ raises' = IF raises.n = 0 THEN raises ELSE [raises EXCEPT !.age = Older(@)]
  /\ stall' = [s \in Scheduler |->
                 IF stall[s].on /\ stall[s].nudges < MaxStallNudges
                 THEN [stall[s] EXCEPT !.age = Older(@)] ELSE stall[s]]
  /\ <<progress, lastAt, clock, raises, stall>>' # <<progress, lastAt, clock, raises, stall>>
  /\ UNCHANGED <<pane, active, live, spine, alive, surfaced, moved, seen, tick, sweep, typed, acts>>

--------------------------------------------------------------------------------
(* The idle pass of a scheduler's tick.                                    *)

Goto(s, l) == tick' = [tick EXCEPT ![s] = [Resting EXCEPT !.at = l]]

Nudgeable == AtPrompt \ (Hopeless \cup ApiStalled)

\* Mutant: one look tells nothing of the next.
ObservedOnce(s) == [text |-> pane, count |-> 1]

Observed(s) ==
  IF seen[s].text = pane
  THEN [seen[s] EXCEPT !.count = IF @ < IdleConfirmations THEN @ + 1 ELSE @]
  ELSE [text |-> pane, count |-> 1]

\* Not active, no capture, or not a prompt to nudge: stability starts over.
ForgetIdle(s) ==
  /\ tick[s].at = "idle"
  /\ IF active /\ pane \in Nudgeable THEN Act ELSE UNCHANGED acts
  /\ seen' = [seen EXCEPT ![s] = NoObs]
  /\ Goto(s, "stall")
  /\ UNCHANGED <<pane, row, events, moved, stall, sweep, typed>>

ObserveIdle(s) ==
  /\ tick[s].at = "idle" /\ active /\ pane \in Nudgeable
  /\ seen' = [seen EXCEPT ![s] = Observed(s)]
  /\ IF Observed(s).count >= IdleConfirmations
     THEN tick' = [tick EXCEPT ![s] = [Resting EXCEPT !.at = "claim", !.text = pane]]
     ELSE Goto(s, "stall")
  /\ UNCHANGED <<pane, row, events, moved, stall, sweep, typed, acts>>

\* idleNudgeInfoTx, over the events since the last sign of life.
Count == Cardinality({i \in DOMAIN spine : spine[i].type # "capped"})

Capped == \E i \in DOMAIN spine : spine[i].type = "capped"

LastHash ==
  LET real == SelectSeq(spine, LAMBDA e : e.type # "capped")
  IN  IF real = <<>> THEN None ELSE real[Len(real)].text

Spent(s) == Count >= MaxIdleNudges

Record(type, text) == spine' = Append(spine, [type |-> type, text |-> text])

\* ClaimIdleNudge: read, decide and record in one transaction; then send.
GiveUp(s) ==
  /\ tick[s].at = "claim" /\ active /\ ~Capped /\ Spent(s)
  /\ Record("capped", None)
  /\ Goto(s, "stall")
  /\ UNCHANGED <<pane, row, lastAt, clock, alive, raises, surfaced, moved, memory, sweep,
                 typed, acts>>

Wins(s) ==
  /\ active /\ ~Capped /\ ~Spent(s)
  /\ LastHash # tick[s].text
  /\ progress >= IdleNudgeGrace
  /\ Count > 0 => lastAt >= IdleNudgeGrace

\* Mutant: nothing is recorded ahead of the send, which may fail.
ClaimUnrecorded(s) ==
  /\ tick[s].at = "claim" /\ Wins(s)
  /\ tick' = [tick EXCEPT ![s].at = "send"]
  /\ UNCHANGED <<pane, row, events, moved, memory, sweep, typed, acts>>

ClaimIdleNudge(s) ==
  /\ tick[s].at = "claim" /\ Wins(s)
  /\ Record("nudged", tick[s].text) /\ lastAt' = 0
  /\ tick' = [tick EXCEPT ![s].at = "send"]
  /\ UNCHANGED <<pane, row, clock, alive, raises, surfaced, moved, memory, sweep, typed, acts>>

SkipNudge(s) ==
  /\ tick[s].at = "claim" /\ ~Wins(s) /\ ~(active /\ ~Capped /\ Spent(s))
  /\ Goto(s, "stall")
  /\ UNCHANGED <<pane, row, events, moved, memory, sweep, typed, acts>>

\* A send that fails is not repeated.
SendNudge(s) ==
  /\ tick[s].at = "send"
  /\ Answer
  /\ typed' = IF tick[s].late THEN typed ELSE typed + 1
  /\ Goto(s, "stall")
  /\ UNCHANGED <<row, events, moved, memory, sweep, acts>>

--------------------------------------------------------------------------------
(* The stall pass: recoverStall, with its episode in memory.               *)

EndStall(s) ==
  /\ tick[s].at = "stall"
  /\ IF active /\ pane \in ApiStalled THEN Act ELSE UNCHANGED acts
  /\ stall' = [stall EXCEPT ![s] = NoStall]
  /\ Goto(s, "idle")
  /\ UNCHANGED <<pane, row, events, moved, seen, sweep, typed>>

\* The first sight of the episode starts its grace; a spent budget ends it (capped only
\* keeps that from being logged twice).
ObserveStall(s) ==
  LET obs  == IF stall[s].on THEN stall[s] ELSE [NoStall EXCEPT !.on = TRUE]
      over == obs.nudges >= MaxStallNudges
      due  == ~over /\ obs.age >= StallNudgeGrace
  IN
  /\ tick[s].at = "stall" /\ active /\ pane \in ApiStalled
  /\ stall' = [stall EXCEPT ![s] =
       IF due THEN [obs EXCEPT !.nudges = @ + 1, !.age = 0]
              ELSE obs]
  /\ Goto(s, IF due THEN "revive" ELSE "idle")
  /\ UNCHANGED <<pane, row, events, moved, seen, sweep, typed, acts>>

SendRevive(s) ==
  /\ tick[s].at = "revive"
  /\ Answer
  /\ Goto(s, "idle")
  /\ UNCHANGED <<row, events, moved, memory, sweep, typed, acts>>

\* The scheduler is restarted.
Restart(s) ==
  /\ Act
  /\ seen' = [seen EXCEPT ![s] = NoObs] /\ stall' = [stall EXCEPT ![s] = NoStall]
  /\ Goto(s, "idle")
  /\ UNCHANGED <<pane, row, events, moved, sweep, typed>>

--------------------------------------------------------------------------------
(* The watcher's sweep over the worker: pollLiveness, trackStall.          *)

Looks(l) == sweep' = [sweep EXCEPT !.at = l]

Capture ==
  /\ sweep.at = "rest" /\ active /\ progress >= StaleHold
  /\ sweep' = [at |-> "track", pane |-> pane,
               dwelled |-> progress >= Dwell, shown |-> surfaced]
  /\ UNCHANGED <<pane, row, events, moved, memory, tick, typed, acts>>

PaneKey(x) == IF x = Busy THEN None ELSE x

Progressed == clock.pane # PaneKey(sweep.pane) \/ alive

\* A restart within stallClockGap of the last is left to a later sweep; a HEAD
\* that cannot be read stays the one of the last.
RestartStallClock ==
  \/ /\ clock.age = 0
     /\ UNCHANGED <<clock, alive, raises, moved>>
  \/ /\ clock' = [pane |-> PaneKey(sweep.pane), age |-> 0]
     /\ alive' = FALSE /\ raises' = [n |-> 0, age |-> 0]
     /\ moved' \in {FALSE, moved}

Due == IF raises.n = 0 THEN clock.age >= StallAfter ELSE raises.age >= StallRepeat

\* The raise after StallReraises + 1 is the first that asks for an inspection;
\* those past it are not told apart.
Inspect == StallReraises + 2

Raise ==
  /\ raises' = [n |-> IF raises.n = Inspect THEN Inspect ELSE raises.n + 1, age |-> 0]
  /\ surfaced' = TRUE

\* Mutant: a worker the manager has been told about is not raised again.
TrackUntold ==
  /\ sweep.at = "track"
  /\ \/ Progressed /\ RestartStallClock /\ UNCHANGED surfaced
     \/ ~Progressed /\ sweep.pane # Busy /\ Due /\ ~surfaced
        /\ Raise /\ UNCHANGED <<clock, alive, moved>>
     \/ ~Progressed /\ ~(sweep.pane # Busy /\ Due /\ ~surfaced)
        /\ UNCHANGED <<clock, alive, raises, surfaced, moved>>
  /\ Looks("judge")
  /\ UNCHANGED <<pane, row, spine, lastAt, memory, tick, typed, acts>>

\* Ahead of the gate for what is surfaced already.
TrackStall ==
  /\ sweep.at = "track"
  /\ \/ Progressed /\ RestartStallClock /\ UNCHANGED surfaced
     \/ ~Progressed /\ sweep.pane # Busy /\ Due
        /\ \/ moved /\ RestartStallClock /\ UNCHANGED surfaced
           \/ Raise /\ UNCHANGED <<clock, alive, moved>>
     \/ ~Progressed /\ ~(sweep.pane # Busy /\ Due)
        /\ UNCHANGED <<clock, alive, raises, surfaced, moved>>
  /\ Looks("judge")
  /\ UNCHANGED <<pane, row, spine, lastAt, memory, tick, typed, acts>>

EndSweep == sweep' = NoSweep
SetLiveness(n) == live' = [text |-> sweep.pane, count |-> n]

Told  == sweep.shown \/ surfaced
Still == live.text = sweep.pane
Times == live.count + 1
Reached == IF Times > IdleStaleSweeps THEN IdleStaleSweeps + 1 ELSE Times

\* What is surfaced is not flagged again.
LeaveTold ==
  /\ sweep.at = "judge" /\ Told
  /\ EndSweep
  /\ UNCHANGED <<pane, row, events, moved, memory, tick, typed, acts>>

ResetLiveness ==
  /\ sweep.at = "judge" /\ ~Told /\ (sweep.pane = Busy \/ ~Still)
  /\ SetLiveness(0) /\ EndSweep
  /\ UNCHANGED <<pane, active, progress, events, moved, memory, tick, typed, acts>>

Resumable == Times = IdleStaleSweeps /\ sweep.pane \in StallText

\* The nudge is typed, and recorded if it was sent.  Nothing counts the episodes: a worker
\* that answers with another broken-off stream is resumed again, without bound.
AutoResume ==
  /\ sweep.at = "judge" /\ ~Told /\ sweep.pane # Busy /\ Still /\ Resumable
  /\ Answer
  /\ Looks("resumed")
  /\ UNCHANGED <<row, events, moved, memory, tick, typed, acts>>

\* Past a spent budget one event more is not told apart.
RecordResumed ==
  /\ sweep.at = "resumed"
  /\ \/ Count < MaxIdleNudges /\ Record("resumed", None) /\ lastAt' = 0
     \/ UNCHANGED <<spine, lastAt>>
  /\ Looks("counted")
  /\ UNCHANGED <<pane, row, clock, alive, raises, surfaced, moved, memory, tick, typed, acts>>

CountResumed ==
  /\ sweep.at = "counted"
  /\ SetLiveness(Reached) /\ EndSweep
  /\ UNCHANGED <<pane, active, progress, events, moved, memory, tick, typed, acts>>

FlagIdle ==
  /\ sweep.at = "judge" /\ ~Told /\ sweep.pane # Busy /\ Still /\ ~Resumable
  /\ surfaced' = (Times >= IdleStaleSweeps /\ sweep.dwelled)
  /\ SetLiveness(Reached) /\ EndSweep
  /\ UNCHANGED <<pane, active, progress, spine, lastAt, clock, alive, raises, moved, memory,
                 tick, typed, acts>>

\* The watcher is killed, or returns and is armed again.
StopSweep ==
  /\ sweep # NoSweep /\ Act
  /\ EndSweep
  /\ UNCHANGED <<pane, row, events, moved, memory, tick, typed>>

--------------------------------------------------------------------------------
IdlePass(s) ==
  \/ ObserveIdle(s) \/ ForgetIdle(s)
  \/ GiveUp(s) \/ ClaimIdleNudge(s) \/ SkipNudge(s) \/ SendNudge(s)

StallPass(s) == EndStall(s) \/ ObserveStall(s) \/ SendRevive(s)

PollLiveness ==
  \/ Capture \/ TrackStall \/ LeaveTold \/ ResetLiveness
  \/ AutoResume \/ RecordResumed \/ CountResumed \/ FlagIdle

Next ==
  \/ PaneChanges \/ Commits \/ Reports \/ Clock
  \/ \E s \in Scheduler : IdlePass(s) \/ StallPass(s) \/ Restart(s)
  \/ PollLiveness \/ StopSweep

\* The scheduler ticks and sweeps, and time passes.  A read of HEAD may fail again and
\* again, but not each time that it matters: it is tried anew on each sweep.
Fairness ==
  /\ \A s \in Scheduler : WF_tick(IdlePass(s) \/ StallPass(s))
  /\ WF_sweep(PollLiveness) /\ WF_vars(Clock)
  /\ SF_vars(TrackStall /\ moved /\ ~moved')

Spec == Init /\ [][Next]_vars /\ Fairness

--------------------------------------------------------------------------------
(* Properties.                                                             *)

Event == [type : {"nudged", "resumed", "capped"}, text : Screen \cup {None}]

\* Types; a sweep never forgets how far a count has come, and at most one give-up
\* is recorded between two signs of life (idlenudge.go, IdleNudgeCappedMarker).
TypeOK ==
  /\ pane \in Screen /\ {active, alive, moved, surfaced} \subseteq BOOLEAN
  /\ {progress, lastAt, clock.age, raises.age} \subseteq Age
  /\ spine \in Seq(Event)
  /\ Cardinality({i \in DOMAIN spine : spine[i].type = "capped"}) <= 1
  /\ live \in [text : Screen \cup {None}, count : 0..IdleStaleSweeps + 1]
  /\ clock.pane \in Screen \cup {None} /\ raises.n \in 0..Inspect
  /\ seen \in [Scheduler -> [text : Screen \cup {None}, count : 0..IdleConfirmations]]
  /\ stall \in [Scheduler -> [on : BOOLEAN, nudges : 0..MaxStallNudges, age : Age]]

\* The idle pass types at most MaxIdleNudges times between two signs of life, from
\* however many schedulers and over their restarts (idlenudge.go: "two scheduler
\* instances (or two ticks) can never both nudge the same idle episode"); the run has one
\* scheduler, the theorem any number.  A nudge on its way when a sign of life comes is
\* counted neither before it nor after.
NudgesBounded ==
  typed + Cardinality({s \in Scheduler : tick[s].at = "send" /\ ~tick[s].late})
    <= MaxIdleNudges

NudgedOrCapped(x) == Capped \/ LastHash = x

\* A worker left at a prompt is nudged there, or given up on, or moves by itself, again
\* and again: no reset of the stability count and no nudge of another kind starves it
\* (scheduler.go, RunNudgeIdleOnce).
IdleIsNudged ==
  \A x \in Nudgeable : []<>(NudgedOrCapped(x) \/ pane # x \/ ~active)

\* A resume by the watcher, which no budget counts, changes the screen.
ResumeShows == pane' # pane /\ AutoResume

\* A worker does not stay away from its work for ever without the manager being told of
\* it, and told again until it is asked to inspect it (watch/stall.go: "keep re-raising a
\* worker the manager has already been told about"), although every nudge, revive and
\* resume may change the screen and so start clock and counts anew, nudges and the first
\* resumes count as progress, sweeps end early and what is surfaced is not flagged again;
\* unless resumes go on changing the screen for ever, which nothing in watch.go prevents.
SilentIsTold ==
  \/ []<><<ResumeShows>>_vars
  \/ []<>(raises.n = Inspect \/ pane = Busy \/ ~active)
================================================================================
