------------------------------- MODULE Inbox -------------------------------
(***************************************************************************)
(* The manager's inbox: the actionable events above manager.watch_watermark *)
(* (internal/watch/inbox.go, internal/db/inbox.go) and its readers.        *)
(*                                                                         *)
(* `ttorch inbox` claims what is unread.  An armed `ttorch watch` holds    *)
(* the watch lock (WatchLock) while it waits, and claims what arrives;     *)
(* with --since it prints from a given id, and then sets the watermark:    *)
(* an id above it passes over what is unread.                              *)
(* The scheduler's watch loop holds the lock for a sweep and claims        *)
(* nothing.  Whoever has the lock polls for merged PRs.  Events that are   *)
(* not actionable are not in the log here: only the order of ids matters.  *)
(***************************************************************************)
EXTENDS Naturals, Sequences

CONSTANTS
  Watcher,             \* runs of `ttorch watch`, each armed once
  Replaying,           \* those given --since
  Daemon, Console,     \* the scheduler's watch loop; `ttorch inbox`
  Nobody,              \* the watch lock is free
  Task, NoTask, Manager,
  MaxEvents,           \* bound on what is recorded
  MaxKills             \* bound on kills

ASSUME InboxAssumption ==
  /\ Replaying \subseteq Watcher
  /\ {Daemon, Console, Nobody} \cap Watcher = {}
  /\ Daemon # Console /\ Nobody \notin {Daemon, Console}
  /\ NoTask \notin Task /\ Manager \notin Task
  /\ MaxEvents \in Nat /\ MaxKills \in Nat

Poller == Watcher \cup {Daemon}
Reader == Watcher \cup {Console}

VARIABLES
  log,        \* the actionable events
  mark,       \* manager.watch_watermark
  awaiting,   \* manager.awaiting_lead
  merged,     \* tasks whose PR is merged, seen by gh only
  shown,      \* events printed to the manager
  lost,       \* claimed by a reader that was killed before it printed
  passed,     \* passed over by a watcher that was told to read from above them
  batch,      \* claimed, or read, and not yet printed
  lock,       \* holder of the watch lock
  pc,
  since,      \* where a watcher reads from
  upto,       \* the last event a watcher with --since has printed
  todo,       \* the task a poller found merged and not yet recorded
  kills

store == <<log, mark, awaiting>>
vars == <<store, merged, shown, lost, passed, batch, lock, pc, since, upto, todo, kills>>

Kind == {"status", "exited", "merged", "stalled", "decision"}
Event == [of : Task \cup {Manager}, kind : Kind]
Id == 1 .. MaxEvents
PC == {"new", "acquire", "loop", "poll", "read", "coalesce", "print", "mark", "gone", "idle"}

TypeOK ==
  /\ log \in Seq(Event) /\ Len(log) <= MaxEvents
  /\ mark \in 0 .. Len(log)
  /\ awaiting \in BOOLEAN
  /\ merged \in SUBSET Task
  /\ shown \in SUBSET Id /\ lost \in SUBSET Id /\ passed \in SUBSET Id
  /\ batch \in [Reader -> SUBSET Id]
  /\ lock \in Poller \cup {Nobody}
  /\ pc \in [Poller \cup {Console} -> PC]
  /\ since \in [Watcher -> 0 .. MaxEvents] /\ upto \in [Watcher -> 0 .. MaxEvents]
  /\ todo \in [Poller -> Task \cup {NoTask}]
  /\ kills \in 0 .. MaxKills

Init ==
  /\ log = <<>> /\ mark = 0 /\ awaiting = FALSE
  /\ merged = {} /\ shown = {} /\ lost = {} /\ passed = {}
  /\ batch = [r \in Reader |-> {}]
  /\ lock = Nobody
  /\ pc = [p \in Poller \cup {Console} |-> IF p \in Watcher THEN "new" ELSE "idle"]
  /\ since = [w \in Watcher |-> 0] /\ upto = [w \in Watcher |-> 0]
  /\ todo = [p \in Poller |-> NoTask]
  /\ kills = 0

-----------------------------------------------------------------------------
(* The log *)

Top == Len(log)
Above(n) == {i \in 1 .. Top : i > n}

Append1(e) == Top < MaxEvents /\ log' = Append(log, e)

\* dedupeByEntity: the newest event of an entity stands for the older ones;
\* agent_exited only for older ones of its own, and a decision (an answer, a
\* goal, an event of a peer) for none.
Key(i) ==
  LET e == log[i] IN
  CASE e.kind = "exited"   -> <<e.of, "exited", 0>>
    [] e.kind = "decision" -> <<e.of, "decision", i>>
    [] OTHER               -> <<e.of, "state", 0>>

Supersedes(j, i) == j >= i /\ Key(j) = Key(i)

\* Mutant: decisions about one entity hide each other.
NewestOf(rows) == {i \in rows : \A j \in rows : log[j].of = log[i].of => j <= i}

dedupeByEntity(rows) == {i \in rows : \A j \in rows : Supersedes(j, i) => j = i}

Goto(p, l) == pc' = [pc EXCEPT ![p] = l]

\* The lock is released by a deferred call, on whatever path a run returns.
Leave(p, l) ==
  /\ Goto(p, l)
  /\ lock' = IF lock = p THEN Nobody ELSE lock

EndWatch(w) ==
  /\ Leave(w, "gone")
  /\ since' = [since EXCEPT ![w] = 0] /\ upto' = [upto EXCEPT ![w] = 0]

-----------------------------------------------------------------------------
(* Who records *)

\* A worker reports into an actionable status, or is found idle or gone.
Report(t) ==
  /\ \E k \in {"status", "exited"} : Append1([of |-> t, kind |-> k])
  /\ UNCHANGED <<mark, awaiting, merged, shown, lost, passed, batch, lock, pc, since, upto, todo, kills>>

\* An answer of the lead or of the parent, or a peer's escalation, arrives.
Decision ==
  /\ Append1([of |-> Manager, kind |-> "decision"])
  /\ UNCHANGED <<mark, awaiting, merged, shown, lost, passed, batch, lock, pc, since, upto, todo, kills>>

MergePR(t) ==
  /\ merged' = merged \cup {t}
  /\ UNCHANGED <<store, shown, lost, passed, batch, lock, pc, since, upto, todo, kills>>

\* Watchdog.Check re-pokes a manager that seems stalled.  Its gates (no lead
\* awaited, nothing unread, work outstanding, no action for a while) are read
\* one by one before it appends, so any of them may have changed by then.
Check ==
  /\ Append1([of |-> Manager, kind |-> "stalled"])
  /\ UNCHANGED <<mark, awaiting, merged, shown, lost, passed, batch, lock, pc, since, upto, todo, kills>>

-----------------------------------------------------------------------------
(* pollArmedPRs, under the watch lock *)

\* Mutant: only an unread one counts.
UnreadMerged(t) == \E i \in Above(mark) : log[i] = [of |-> t, kind |-> "merged"]

HasMerged(t) == \E i \in 1 .. Top : log[i] = [of |-> t, kind |-> "merged"]

\* One task: not recorded yet, and gh says that it is merged.
FindMerged(p) ==
  /\ pc[p] = "poll" /\ todo[p] = NoTask
  /\ \E t \in merged : ~HasMerged(t) /\ todo' = [todo EXCEPT ![p] = t]
  /\ UNCHANGED <<store, merged, shown, lost, passed, batch, lock, pc, since, upto, kills>>

RecordMerged(p) ==
  /\ pc[p] = "poll" /\ todo[p] # NoTask
  /\ Append1([of |-> todo[p], kind |-> "merged"])
  /\ todo' = [todo EXCEPT ![p] = NoTask]
  /\ UNCHANGED <<mark, awaiting, merged, shown, lost, passed, batch, lock, pc, since, upto, kills>>

\* All tasks seen, the poll not due, or a read of gh failed.
EndPoll(p) ==
  /\ pc[p] = "poll" /\ todo[p] = NoTask
  /\ Goto(p, "read")
  /\ UNCHANGED <<store, merged, shown, lost, passed, batch, lock, since, upto, todo, kills>>

-----------------------------------------------------------------------------
(* ttorch inbox *)

\* Mutant: the rows are printed and the mark is left where it is.
InboxUnclaimed ==
  /\ pc[Console] = "idle" /\ Above(mark) # {}
  /\ awaiting' = FALSE
  /\ batch' = [batch EXCEPT ![Console] = Above(mark)]
  /\ Goto(Console, "print")
  /\ UNCHANGED <<log, mark, merged, shown, lost, passed, lock, since, upto, todo, kills>>

\* cmdInbox: clears awaiting-lead, then ConsumeActionable(0).
Inbox ==
  /\ pc[Console] = "idle"
  /\ awaiting' = FALSE
  /\ \/ /\ Above(mark) # {}
        /\ batch' = [batch EXCEPT ![Console] = Above(mark)]
        /\ mark' = Top
        /\ Goto(Console, "print")
     \/ /\ Above(mark) = {}
        /\ UNCHANGED <<batch, mark, pc>>
  /\ UNCHANGED <<log, merged, shown, lost, passed, lock, since, upto, todo, kills>>

PrintInbox ==
  /\ pc[Console] = "print"
  /\ shown' = shown \cup dedupeByEntity(batch[Console])
  /\ batch' = [batch EXCEPT ![Console] = {}]
  /\ Goto(Console, "idle")
  /\ UNCHANGED <<store, merged, lost, passed, lock, since, upto, todo, kills>>

-----------------------------------------------------------------------------
(* ttorch watch *)

\* cmdWatch clears awaiting-lead before it asks for the lock.
Arm(w) ==
  /\ pc[w] = "new"
  /\ awaiting' = FALSE
  /\ Goto(w, "acquire")
  /\ UNCHANGED <<log, mark, merged, shown, lost, passed, batch, lock, since, upto, todo, kills>>

\* Run: refused while another watcher holds the lock, waiting out a sweep.  --since
\* takes any id, below the watermark or above it.
Acquire(w) ==
  /\ pc[w] = "acquire"
  /\ \/ /\ lock = Nobody
        /\ lock' = w
        /\ Goto(w, "loop")
        /\ \E n \in IF w \in Replaying THEN 0 .. MaxEvents ELSE {mark} :
             since' = [since EXCEPT ![w] = n]
     \/ /\ lock \in Watcher
        /\ Goto(w, "gone")
        /\ UNCHANGED <<lock, since>>
  /\ UNCHANGED <<store, merged, shown, lost, passed, batch, upto, todo, kills>>

\* The backstop: while the manager awaits the lead the loop only waits.
ReadManager(w) ==
  /\ pc[w] = "loop" /\ ~awaiting
  /\ Goto(w, "poll")
  /\ UNCHANGED <<store, merged, shown, lost, passed, batch, lock, since, upto, todo, kills>>

\* Nothing new: round again.
ReadNothing(w) ==
  /\ pc[w] = "read" /\ Above(since[w]) = {}
  /\ Goto(w, "loop")
  /\ UNCHANGED <<store, merged, shown, lost, passed, batch, lock, since, upto, todo, kills>>

\* Something new: wait for a burst to end.
ReadRows(w) ==
  /\ pc[w] = "read" /\ Above(since[w]) # {}
  /\ Goto(w, "coalesce")
  /\ UNCHANGED <<store, merged, shown, lost, passed, batch, lock, since, upto, todo, kills>>

\* ConsumeActionable from the newer of the two marks; another reader may have
\* been first.
Consume(w) ==
  /\ pc[w] = "coalesce" /\ w \notin Replaying
  /\ LET from == IF since[w] > mark THEN since[w] ELSE mark IN
     \/ /\ Above(from) # {}
        /\ batch' = [batch EXCEPT ![w] = Above(from)]
        /\ mark' = Top
        /\ Goto(w, "print")
        /\ UNCHANGED since
     \/ /\ Above(from) = {}
        /\ since' = [since EXCEPT ![w] = from]
        /\ Goto(w, "loop")
        /\ UNCHANGED <<batch, mark>>
  /\ UNCHANGED <<log, awaiting, merged, shown, lost, passed, lock, upto, todo, kills>>

\* With --since: the rows are read and printed ...
PrintRows(w) ==
  /\ pc[w] = "coalesce" /\ w \in Replaying
  /\ shown' = shown \cup dedupeByEntity(Above(since[w]))
  /\ upto' = [upto EXCEPT ![w] = Top]
  /\ Goto(w, "mark")
  /\ UNCHANGED <<store, merged, lost, passed, batch, lock, since, todo, kills>>

\* ... and then the watermark is set, wherever it is by now: what is unread and at
\* or below the given id is passed over.
SetWatermark(w) ==
  /\ pc[w] = "mark"
  /\ mark' = upto[w]
  /\ passed' = passed \cup (Above(mark) \ Above(since[w]))
  /\ EndWatch(w)
  /\ UNCHANGED <<log, awaiting, merged, shown, lost, batch, todo, kills>>

\* The output of a watcher that exits re-invokes the manager.
PrintBatch(w) ==
  /\ pc[w] = "print"
  /\ shown' = shown \cup dedupeByEntity(batch[w])
  /\ batch' = [batch EXCEPT ![w] = {}]
  /\ EndWatch(w)
  /\ UNCHANGED <<store, merged, lost, passed, todo, kills>>

\* Time out, manager window gone, or cancelled.
Exit(w) ==
  /\ pc[w] \in {"loop", "coalesce"}
  /\ EndWatch(w)
  /\ UNCHANGED <<store, merged, shown, lost, passed, batch, todo, kills>>

-----------------------------------------------------------------------------
(* The sweeps of the scheduler, the lead, and kills *)

\* Tick takes the lock, or stands by; what it does when it has polled is the
\* subject of Wake.
Tick ==
  /\ pc[Daemon] = "idle" /\ lock = Nobody
  /\ lock' = Daemon
  /\ Goto(Daemon, "poll")
  /\ UNCHANGED <<store, merged, shown, lost, passed, batch, since, upto, todo, kills>>

EndSweep ==
  /\ pc[Daemon] = "read"
  /\ Leave(Daemon, "idle")
  /\ UNCHANGED <<store, merged, shown, lost, passed, batch, since, upto, todo, kills>>

\* `ttorch await-lead`, and --clear once the lead has answered.
AwaitLead ==
  /\ awaiting' = ~awaiting
  /\ UNCHANGED <<log, mark, merged, shown, lost, passed, batch, lock, pc, since, upto, todo, kills>>

\* A watcher, `ttorch inbox` or the scheduler is killed: what a reader had
\* claimed is gone.
Kill(p) ==
  /\ kills < MaxKills /\ kills' = kills + 1
  /\ pc[p] \notin {"new", "gone", "idle"}
  /\ lost' = IF p \in Reader THEN lost \cup batch[p] ELSE lost
  /\ batch' = [q \in Reader |-> IF q = p THEN {} ELSE batch[q]]
  /\ todo' = [q \in Poller |-> IF q = p THEN NoTask ELSE todo[q]]
  /\ since' = [w \in Watcher |-> IF w = p THEN 0 ELSE since[w]]
  /\ upto' = [w \in Watcher |-> IF w = p THEN 0 ELSE upto[w]]
  /\ Leave(p, IF p \in Watcher THEN "gone" ELSE "idle")
  /\ UNCHANGED <<store, merged, shown, passed>>

WatcherStep(w) ==
  \/ Acquire(w) \/ ReadManager(w) \/ ReadNothing(w) \/ ReadRows(w)
  \/ Consume(w) \/ PrintRows(w) \/ SetWatermark(w) \/ PrintBatch(w)

Next ==
  \/ \E t \in Task : Report(t) \/ MergePR(t)
  \/ Decision \/ Check
  \/ Inbox \/ PrintInbox
  \/ \E w \in Watcher : Arm(w) \/ WatcherStep(w) \/ Exit(w)
  \/ \E p \in Poller : FindMerged(p) \/ RecordMerged(p) \/ EndPoll(p)
  \/ Tick \/ EndSweep \/ AwaitLead
  \/ \E p \in Poller \cup Reader : Kill(p)

Spec == Init /\ [][Next]_vars

-----------------------------------------------------------------------------
(* Properties *)

\* Nothing is skipped: whatever is at or below the watermark was printed, or a
\* newer event of its entity was, or a reader has it in hand, or a reader was
\* killed with it, or a watcher was told, by --since, to read from above it.
NothingSkipped ==
  \A i \in 1 .. mark :
    \/ i \in lost \cup passed
    \/ \E j \in shown : Supersedes(j, i)
    \/ \E r \in Reader : i \in batch[r]

\* Each update is handed to one reader, in one piece, except for a replay.
Box == INSTANCE Mailbox WITH posted <- Top, hands <- batch

ImplementsMailbox == Box!Spec

\* A merged PR is recorded once, whoever polls.
MergedOnce ==
  \A i, j \in 1 .. Top : log[i].kind = "merged" /\ log[i] = log[j] => i = j

\* Nothing is surfaced by an armed watcher while the manager awaits the lead
\* (§4.6).
SilentWhileAwaiting ==
  [][\A w \in Watcher : pc[w] = "coalesce" /\ pc'[w] \in {"print", "mark"} => ~awaiting]_vars
=============================================================================
