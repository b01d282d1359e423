------------------------------- MODULE Wake -------------------------------
(***************************************************************************)
(* The scheduler's watch loop (internal/watch/daemon.go): each sweep takes *)
(* the watch lock, reads the inbox and, when something is unread and the   *)
(* manager is idle at an empty prompt, types one line there and presses    *)
(* Enter.  The prompt is the one the lead types into, the loop learns of a *)
(* read only through the watermark, and a restart forgets what was in      *)
(* memory.  The inbox is seen as in Mailbox, by its two numbers; the lock  *)
(* as a Singleton between the loop and armed watchers.  Reads of the       *)
(* store, captures of the pane and keys sent to it are steps of their own. *)
(* Time passes between them, and all that a sweep puts down is dated at    *)
(* its decision, not at the key.                                           *)
(***************************************************************************)
EXTENDS Naturals

CONSTANTS
  Daemon, Armed,       \* holders of the watch lock: this loop, `ttorch watch`
  Nobody,
  Rewake, SendRetry,   \* defaultRewake and defaultSendRetry
  MaxEvents,           \* bound on what is recorded
  MaxDrafts,           \* bound on lines the lead types
  MaxKills             \* bound on kills

WakeConstants ==
  /\ Nobody \notin {Daemon, Armed} /\ Daemon # Armed
  /\ Rewake \in Nat /\ SendRetry \in 1 .. Rewake
  /\ MaxEvents \in Nat /\ MaxDrafts \in Nat /\ MaxKills \in Nat

VARIABLES
  posted,     \* highest actionable event id
  mark,       \* manager.watch_watermark
  awaiting,   \* manager.awaiting_lead
  lock,       \* holder of the watch lock
  pc,         \* where the sweep is
  view,       \* the manager row as the sweep read it
  top,        \* the id that the wake in hand announces
  decided,    \* the age of the decision to type it
  woken,      \* the last manager_woken event: id announced, age
  sent,       \* the last wake entered, recorded or not, dated alike (for OneWake)
  retry,      \* time until retryAt
  input,      \* what the manager's prompt holds
  busy,       \* the manager is in a turn
  drafts, kills

vars == <<posted, mark, awaiting, lock, pc, view, top, decided, woken, sent, retry, input, busy,
          drafts, kills>>
inbox == <<posted, mark, awaiting>>
wake == <<view, top, decided, woken, sent, retry>>
prompt == <<input, busy, drafts>>

Lock == INSTANCE Singleton WITH Proc <- {Daemon, Armed}, holder <- lock

\* GetManager: the two columns that the sweep looks at.
ManagerRow == [mark |-> mark, awaiting |-> awaiting]
NoView == [mark |-> 0, awaiting |-> FALSE]
Id == 0 .. MaxEvents

\* Where a sweep is that has decided to wake the manager.
Waking == {"type", "confirm", "enter", "record"}

TypeOK ==
  /\ posted \in Id /\ mark \in 0 .. posted /\ top \in Id
  /\ awaiting \in BOOLEAN /\ busy \in BOOLEAN
  /\ lock \in {Daemon, Armed, Nobody}
  /\ pc \in {"idle", "manager", "unread", "look", "decide"} \cup Waking
  /\ view \in [mark : Id, awaiting : BOOLEAN]
  /\ woken \in [id : Id, age : 0 .. Rewake] /\ sent \in [id : Id, age : 0 .. Rewake]
  /\ decided \in 0 .. Rewake /\ retry \in 0 .. Rewake
  /\ input \in {"empty", "wake", "draft"}
  /\ drafts \in 0 .. MaxDrafts /\ kills \in 0 .. MaxKills

Init ==
  /\ posted = 0 /\ mark = 0 /\ awaiting = FALSE
  /\ lock = Nobody /\ pc = "idle"
  /\ view = NoView /\ top = 0 /\ decided = 0
  /\ woken = [id |-> 0, age |-> 0] /\ sent = woken /\ retry = 0
  /\ input = "empty" /\ busy = FALSE
  /\ drafts = 0 /\ kills = 0

-----------------------------------------------------------------------------
(* One sweep *)

EndSweep ==
  /\ pc' = "idle" /\ Lock!Release(Daemon)
  /\ view' = NoView /\ top' = 0 /\ decided' = 0

\* Tick takes the lock, or stands by; the polls come first (Inbox).
Tick ==
  /\ pc = "idle" /\ pc' = "manager"
  /\ Lock!Acquire(Daemon)
  /\ UNCHANGED <<inbox, wake, prompt, kills>>

ReadRow ==
  /\ pc = "manager" /\ pc' = "unread"
  /\ view' = ManagerRow
  /\ UNCHANGED <<inbox, lock, top, decided, woken, sent, retry, prompt, kills>>

Unread == posted > view.mark /\ ~view.awaiting

\* The events are read after the row: news, and no lead awaited.
ReadUnread ==
  /\ pc = "unread" /\ pc' = "look"
  /\ Unread
  /\ top' = posted
  /\ UNCHANGED <<inbox, lock, view, decided, woken, sent, retry, prompt, kills>>

\* managerNotWakeable: the manager is idle at an empty prompt.
Reachable == ~busy /\ input = "empty"

LookAtManager ==
  /\ pc = "look" /\ pc' = "decide"
  /\ Reachable
  /\ UNCHANGED <<inbox, lock, wake, prompt, kills>>

\* Mutant: only a wake of this very top is pending.
DueOnNews == ~(woken.id = top /\ woken.age < Rewake) /\ retry = 0

\* By the clock read here: no wake is pending, and no failed one is to be waited out.
Due == ~(woken.id > view.mark /\ woken.age < Rewake) /\ retry = 0

DecideWake ==
  /\ pc = "decide" /\ pc' = "type"
  /\ Due
  /\ UNCHANGED <<inbox, lock, wake, prompt, kills>>

DecideNot ==
  /\ \/ pc = "unread" /\ ~Unread
     \/ pc = "look" /\ ~Reachable
     \/ pc = "decide" /\ ~Due
  /\ EndSweep
  /\ UNCHANGED <<inbox, woken, sent, retry, prompt, kills>>

\* What is left of a delay that counts from the decision.
Left(delay) == IF decided < delay THEN delay - decided ELSE 0

\* The line goes behind whatever the prompt holds by now.
TypeWake ==
  /\ pc = "type" /\ pc' = "confirm"
  /\ input' = IF input = "empty" THEN "wake" ELSE "draft"
  /\ UNCHANGED <<inbox, lock, wake, busy, drafts, kills>>

\* confirmTypedWake, and the last look in submitWakeIfConfirmed: exactly the
\* wake line, at an idle prompt.
ConfirmWake ==
  /\ pc = "confirm" /\ pc' = "enter"
  /\ ~busy /\ input = "wake"
  /\ UNCHANGED <<inbox, lock, wake, prompt, kills>>

\* A send that fails, or anything else in the prompt: try again later.
GiveUp ==
  /\ \/ pc \in {"type", "enter"}
     \/ pc = "confirm" /\ (busy \/ input # "wake")
  /\ retry' = Left(SendRetry)
  /\ EndSweep
  /\ UNCHANGED <<inbox, woken, sent, prompt, kills>>

\* The key submits what the prompt holds when it arrives.
Enter ==
  /\ pc = "enter" /\ pc' = "record"
  /\ input' = "empty" /\ busy' = (busy \/ input # "empty")
  /\ sent' = [id |-> top, age |-> decided]
  /\ UNCHANGED <<inbox, lock, view, top, decided, woken, retry, drafts, kills>>

\* The manager_woken event; if it cannot be written, retryAt holds for a Rewake.
\* Both count from the decision.
RecordWake ==
  /\ pc = "record"
  /\ \/ woken' = [id |-> top, age |-> decided] /\ UNCHANGED retry
     \/ retry' = Left(Rewake) /\ UNCHANGED woken
  /\ EndSweep
  /\ UNCHANGED <<inbox, sent, prompt, kills>>

SweepStep ==
  \/ Tick \/ ReadRow \/ ReadUnread \/ LookAtManager \/ DecideWake \/ DecideNot
  \/ TypeWake \/ ConfirmWake \/ GiveUp \/ Enter \/ RecordWake

-----------------------------------------------------------------------------
(* Events, readers, the manager and the lead *)

\* A worker, a poll, a peer or the watchdog records an actionable event.
Post ==
  /\ posted < MaxEvents /\ posted' = posted + 1
  /\ UNCHANGED <<mark, awaiting, lock, pc, wake, prompt, kills>>

\* `ttorch inbox`: clears awaiting-lead and takes what is unread.
ReadInbox ==
  /\ awaiting' = FALSE /\ mark' = posted
  /\ UNCHANGED <<posted, lock, pc, wake, prompt, kills>>

\* `ttorch watch`: clears awaiting-lead, and has the lock until it fires.
Arm ==
  /\ Lock!Acquire(Armed)
  /\ awaiting' = FALSE
  /\ UNCHANGED <<posted, mark, pc, wake, prompt, kills>>

\* It prints what is unread and exits, which re-invokes the manager; with
\* --since the mark is set to where its own reading ended.
Fire ==
  /\ Lock!Release(Armed) /\ ~awaiting
  /\ mark < posted
  /\ mark' = posted /\ busy' = TRUE
  /\ UNCHANGED <<posted, awaiting, pc, wake, input, drafts, kills>>

FireSince ==
  /\ Lock!Release(Armed) /\ ~awaiting
  /\ mark' \in 1 .. posted /\ busy' = TRUE
  /\ UNCHANGED <<posted, awaiting, pc, wake, input, drafts, kills>>

\* It times out with nothing to read, or is gone with its manager window.
Disarm ==
  /\ Lock!Release(Armed)
  /\ mark = posted \/ awaiting
  /\ UNCHANGED <<inbox, pc, wake, prompt, kills>>

\* Run by the manager in a turn, when it has put a decision to the lead.
AwaitLead ==
  /\ busy /\ awaiting' = TRUE
  /\ UNCHANGED <<posted, mark, lock, pc, wake, prompt, kills>>

\* await-lead --clear, once the lead has answered.
ClearAwaiting ==
  /\ awaiting /\ awaiting' = FALSE
  /\ UNCHANGED <<posted, mark, lock, pc, wake, prompt, kills>>

EndTurn ==
  /\ busy /\ busy' = FALSE
  /\ UNCHANGED <<inbox, lock, pc, wake, input, drafts, kills>>

LeadTypes ==
  /\ drafts < MaxDrafts /\ drafts' = drafts + 1
  /\ input' = "draft"
  /\ UNCHANGED <<inbox, lock, pc, wake, busy, kills>>

\* The lead clears the line or sends it.
LeadClears ==
  /\ input # "empty" /\ input' = "empty"
  /\ busy' \in {busy, TRUE}
  /\ UNCHANGED <<inbox, lock, pc, wake, drafts, kills>>

Later(age) == IF age < Rewake THEN age + 1 ELSE age
Older(e) == [e EXCEPT !.age = Later(@)]

\* Mutant: an unanswered wake does not age.
ClockUnaged ==
  /\ retry' = IF retry > 0 THEN retry - 1 ELSE 0
  /\ UNCHANGED <<inbox, lock, pc, view, top, decided, woken, sent, prompt, kills>>

Clock ==
  /\ woken' = Older(woken) /\ sent' = Older(sent)
  /\ decided' = IF pc \in Waking THEN Later(decided) ELSE decided
  /\ retry' = IF retry > 0 THEN retry - 1 ELSE 0
  /\ UNCHANGED <<inbox, lock, pc, view, top, prompt, kills>>

\* The watcher is killed or cancelled.
KillArmed ==
  /\ kills < MaxKills /\ kills' = kills + 1
  /\ Lock!Release(Armed)
  /\ UNCHANGED <<inbox, pc, wake, prompt>>

\* The scheduler is restarted: retryAt was in memory, and a wake whose record
\* was not written is forgotten.
RestartDaemon ==
  /\ kills < MaxKills /\ kills' = kills + 1
  /\ IF pc = "idle" THEN UNCHANGED <<pc, lock, view, top, decided>> ELSE EndSweep
  /\ retry' = 0
  /\ sent' = woken
  /\ UNCHANGED <<inbox, woken, prompt>>

Next ==
  \/ SweepStep
  \/ Post \/ ReadInbox \/ Arm \/ Fire \/ FireSince \/ Disarm
  \/ AwaitLead \/ ClearAwaiting \/ EndTurn \/ LeadTypes \/ LeadClears \/ Clock
  \/ KillArmed \/ RestartDaemon

\* The loop keeps running, a turn ends, the lead does not leave a line in the
\* prompt nor the manager waiting for ever.  What may fail or be in the way
\* again and again does not do so every time: the look at the prompt, the typing,
\* the look at the line, the key while the line is there, the reading of an armed watcher, the reading
\* of the inbox in a turn.
Fairness ==
  /\ WF_vars(SweepStep) /\ WF_vars(Clock) /\ WF_vars(EndTurn)
  /\ WF_vars(LeadClears) /\ WF_vars(ClearAwaiting)
  /\ SF_vars(LookAtManager) /\ SF_vars(TypeWake) /\ SF_vars(ConfirmWake)
  /\ SF_vars(input = "wake" /\ Enter)
  /\ SF_vars(Fire) /\ SF_vars(busy /\ ReadInbox)

Spec == Init /\ [][Next]_vars /\ Fairness

-----------------------------------------------------------------------------
(* Properties *)

\* At most one wake is outstanding: no second one is entered within Rewake of the
\* decision to send one that announced something still unread, also if its record
\* could not be written (daemon.go, "a wake is already pending"; a restart between
\* the key and its record forgets the wake).  Between the two keys themselves it is
\* less by what the first took from its decision to its key.
OneWake ==
  [][pc = "enter" /\ pc' = "record" => ~(sent.id > mark /\ sent.age < Rewake)]_vars

\* Every event that is recorded is read in the end, although wakes fail, are
\* typed over, go unanswered, or are forgotten by a restart.
Heard == \A n \in 1 .. MaxEvents : posted >= n ~> mark >= n

\* The manager is left alone while it awaits the lead: no wake is entered.
SilentWhileAwaiting ==
  [][pc = "enter" /\ pc' = "record" => ~awaiting]_vars
=============================================================================
