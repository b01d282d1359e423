------------------------------ MODULE GateEpisode ------------------------------
(***************************************************************************)
(* One review episode of the trust gate in detail: the scheduler's tick    *)
(* over one finished task of a trusted repository, trust prep and trust    *)
(* record (which a manager may also run by hand), the reviewers, and the   *)
(* files and rows they meet in.  Landing has the same gate in outline and  *)
(* goes on from the verdict to the merge.                                  *)
(*                                                                         *)
(* Reports and inputs are files, the episode and its marker are rows, the  *)
(* first sighting of an episode is memory of the daemon.  A report's mtime *)
(* matters only against the prep stamp's, so it is one bit, `fresh'; times *)
(* matter only against the reviewers' timeout, so an anchor of the stall   *)
(* clock is an age that stops growing once it has run out.                 *)
(***************************************************************************)
EXTENDS Integers, FiniteSets

CONSTANTS
  Commit,      \* commits the worker's HEAD is on, in some order
  Dimension,   \* the built-in review dimensions
  Floor,       \* what review.Classify asks for on the diff of each commit
  Green,       \* commits on which the suite passes
  Daemon,      \* the scheduler
  Manager,     \* people or agents who run trust prep and trust record
  None,        \* no commit
  MaxAttempts, \* defaultMaxReviewerAttempts
  Timeout,     \* defaultReviewerTimeout, in steps of the clock
  MaxEvents    \* bound on moves of HEAD, preps by hand, kills, tmux hangs and git
               \* failures, together

ASSUME GateAssumption ==
  /\ None \notin Commit /\ Daemon \notin Manager
  /\ Floor \in [Commit -> SUBSET Dimension] /\ \A c \in Commit : Floor[c] # {}
  /\ Green \subseteq Commit
  /\ MaxAttempts \in Nat \ {0} /\ Timeout \in Nat /\ MaxEvents \in Nat

VARIABLES
  head,     \* HEAD of the worktree
  row,      \* the gate_episodes row
  marker,   \* gate_episode_opened: the current run of a head, and its age
  sight,    \* the daemon's first sighting of an episode, lost with the process
  stamp,    \* prep.json
  listed,   \* reviewers.json
  report,   \* the report files, one per dimension
  window,   \* reviewer windows, one per dimension
  hand,     \* reviewers the manager has sent out: the commit each reviews
  verdict,  \* the verdict row
  told,     \* heads a gate_blocked event was written for
  proc,     \* what the daemon and each manager are doing
  wedged,   \* the tmux server does not answer
  recent,   \* history: clean reports filed since each process's prep began
  cleared,  \* history: those filed since the prep of the present stamp began
  found,    \* history: blocking reports of this run of HEAD that stand
  events    \* how many of MaxEvents have happened

disk == <<stamp, listed, report>>
rows == <<row, marker, verdict, told>>
past == <<recent, cleared, found>>
vars == <<head, rows, sight, disk, window, hand, proc, wedged, past, events>>

Proc == {Daemon} \cup Manager
Head == Commit \cup {None}
Age  == 0..Timeout + 1

Anchor   == [head : Head, age : Age]
NoAnchor == [head |-> None, age |-> 0]

\* An outcome of "none" is the code's empty one: the episode is open.
Row   == [head : Head, dims : SUBSET Dimension, attempts : [Dimension -> 0..MaxAttempts],
          age : Age, outcome : {"none", "recorded", "blocked"}]
NoRow == [head |-> None, dims |-> {}, attempts |-> [d \in Dimension |-> 0],
          age |-> 0, outcome |-> "none"]

PrepStamp == [head : Head, green : BOOLEAN, dims : SUBSET Dimension]
NoStamp   == [head |-> None, green |-> FALSE, dims |-> {}]

ReportType == [sha : Head, blocks : BOOLEAN, fresh : BOOLEAN]
NoReport   == [sha |-> None, blocks |-> FALSE, fresh |-> FALSE]

Window   == [sha : Head, busy : BOOLEAN]
NoWindow == [sha |-> None, busy |-> FALSE]

Verdict   == [sha : Head, pass : BOOLEAN]
NoVerdict == [sha |-> None, pass |-> FALSE]

\* sha is the head the tick observed or the record covers, staged the one prep
\* reads for itself.
Stage == {"rest", "prep", "stamp", "open", "mark", "poll",
          "launch", "charge", "fold", "record", "save", "block", "close"}
Local  == [at : Stage, sha : Head, staged : Head, dims : SUBSET Dimension,
           some : SUBSET Dimension, pass : BOOLEAN]
AtRest == [at |-> "rest", sha |-> None, staged |-> None, dims |-> {}, some |-> {},
           pass |-> FALSE]

\* The gate finds the task untouched, or after a prep that was run by hand and whose
\* one reviewer has filed a finding.
Untouched ==
  /\ stamp = NoStamp /\ listed = Dimension
  /\ report = [d \in Dimension |-> NoReport]
  /\ found = {}

Prepared ==
  \E d \in Dimension :
    /\ Floor[head] = {d} /\ listed = {d}
    /\ stamp = [head |-> head, green |-> head \in Green, dims |-> {d}]
    /\ report = [e \in Dimension |->
                   IF e = d THEN [sha |-> head, blocks |-> TRUE, fresh |-> TRUE] ELSE NoReport]
    /\ found = {<<d, head>>}

Init ==
  /\ head \in Commit
  /\ Untouched \/ Prepared
  /\ row = NoRow /\ marker = NoAnchor /\ sight = NoAnchor
  /\ window = [d \in Dimension |-> NoWindow] /\ hand = [d \in Dimension |-> None]
  /\ verdict = NoVerdict /\ told = {}
  /\ proc = [p \in Proc |-> AtRest]
  /\ wedged = FALSE
  /\ recent = [p \in Proc |-> {}] /\ cleared = {}
  /\ events = 0

Event == events < MaxEvents /\ events' = events + 1

--------------------------------------------------------------------------------
(* What the gate reads off the disk.                                       *)

Covers(c) == stamp.head = c /\ c # None

\* Mutant: the commit pin alone.
ReportPinned(d, c) == report[d].sha = c /\ Covers(c)

\* The report the fold will accept: pinned to c, and of this episode.
ReportCurrent(d, c) == report[d].sha = c /\ Covers(c) /\ report[d].fresh

\* Mutant: a prep that supersedes every report.
NoneCarried(c) == {}

\* Blocking reports on c, of whatever episode: prep carries these.
BlockingReportsPinnedTo(c) == {d \in Dimension : report[d].sha = c /\ report[d].blocks}

\* The set re-derived from the committed diff; all of it when git fails.
DerivedFloor(c, fails) == IF fails THEN Dimension ELSE Floor[c]

\* The stamp decides, the file and the floor may add; without a stamp, all.
RequiredDimensions(c, fails) ==
  IF Covers(c) THEN DerivedFloor(c, fails) \cup stamp.dims \cup listed ELSE Dimension

Dropped(c) == IF Covers(c) THEN stamp.dims \ listed ELSE {}

DispatchedDimensions == row.dims \cup {d \in Dimension : row.attempts[d] > 0}

\* The required set and every other dimension with a report on c.
FoldDimensions(S, c) == S \cup {d \in Dimension : ReportCurrent(d, c)}

\* A report of another commit makes the fold an error; otherwise one that is
\* missing, superseded or blocking, or a staged validate that is not green, blocks.
FoldFails(S, c) == \E d \in S : report[d].sha \notin {None, c}
FoldPasses(S, c) ==
  /\ S # {} /\ Covers(c) /\ stamp.green
  /\ \A d \in S : ReportCurrent(d, c) /\ ~report[d].blocks

GitMayFail(fails) == IF fails THEN Event ELSE UNCHANGED events

--------------------------------------------------------------------------------
(* Around the gate: the worker, the reviewers, tmux, the clock.            *)

WorkerMoves(c) ==
  /\ c # head /\ Event
  /\ head' = c /\ found' = {}
  /\ UNCHANGED <<rows, sight, disk, window, hand, proc, wedged, recent, cleared>>

\* The file is written over: a later report of the dimension, of whichever commit,
\* takes the place of a finding.
PrepUnderWay == \E p \in Proc : proc[p].at = "stamp"
Files(d, c, blocks) ==
  LET clean == IF blocks THEN {} ELSE {<<d, c>>}
      kept  == found \ {<<d, report[d].sha>>}
  IN
  /\ report' = [report EXCEPT ![d] = [sha |-> c, blocks |-> blocks, fresh |-> TRUE]]
  /\ cleared' = cleared \cup clean
  /\ recent' = [p \in Proc |-> IF proc[p].at = "stamp" THEN recent[p] \cup clean ELSE {}]
  /\ found' = IF blocks /\ c = head /\ ~PrepUnderWay THEN kept \cup {<<d, c>>} ELSE kept
  /\ UNCHANGED <<stamp, listed>>

\* A reviewer the gate launched reports once; its window stays.
Reports(d) ==
  /\ window[d].busy
  /\ \E blocks \in BOOLEAN : Files(d, window[d].sha, blocks)
  /\ window' = [window EXCEPT ![d].busy = FALSE]
  /\ UNCHANGED <<head, rows, sight, hand, proc, wedged, events>>

\* It may also end without a word, or never end at all.
WindowCloses(d) ==
  /\ window[d].busy
  /\ window' = [window EXCEPT ![d] = NoWindow]
  /\ UNCHANGED <<head, rows, sight, disk, hand, proc, wedged, past, events>>

HandReports(d) ==
  /\ hand[d] # None
  /\ \E blocks \in BOOLEAN : Files(d, hand[d], blocks)
  /\ hand' = [hand EXCEPT ![d] = None]
  /\ UNCHANGED <<head, rows, sight, window, proc, wedged, events>>

Wedge ==
  /\ \/ ~wedged /\ Event
     \/ wedged /\ UNCHANGED events
  /\ wedged' = ~wedged
  /\ UNCHANGED <<head, rows, sight, disk, window, hand, proc, past>>

Older(a) == IF a.head # None /\ a.age <= Timeout THEN [a EXCEPT !.age = @ + 1] ELSE a
Clock ==
  /\ row' = Older(row) /\ marker' = Older(marker) /\ sight' = Older(sight)
  /\ <<row', marker', sight'>> # <<row, marker, sight>>
  /\ UNCHANGED <<head, verdict, told, disk, window, hand, proc, wedged, past, events>>

\* The daemon is restarted, or a manager's command interrupted.
Kill(p) ==
  /\ Event
  /\ proc' = [proc EXCEPT ![p] = AtRest]
  /\ sight' = IF p = Daemon THEN NoAnchor ELSE sight
  /\ recent' = [recent EXCEPT ![p] = {}]
  /\ UNCHANGED <<head, rows, disk, window, hand, wedged, cleared, found>>

--------------------------------------------------------------------------------
(* Trust prep, run by the daemon at an episode boundary or by a manager.   *)

At(p, stage) == proc[p].at = stage
Becomes(p, l) == proc' = [proc EXCEPT ![p] = l]

PrepByHand(p) ==
  /\ p \in Manager /\ At(p, "rest") /\ Event
  /\ Becomes(p, [AtRest EXCEPT !.at = "prep"])
  /\ UNCHANGED <<head, rows, sight, disk, window, hand, wedged, past>>

\* A dirty worktree or a stale base: nothing is staged.
PrepRefused(p) ==
  /\ At(p, "prep")
  /\ Becomes(p, IF p = Daemon THEN [proc[p] EXCEPT !.at = "block"] ELSE AtRest)
  /\ UNCHANGED <<head, rows, sight, disk, window, hand, wedged, past, events>>

\* Sees which blocking reports on this head to carry, moves the others away as far
\* as it can, and stages the diff and the reviewer set; the suite runs next.
PrepStages(p) ==
  LET carried == BlockingReportsPinnedTo(head) IN
  /\ At(p, "prep")
  /\ \E fails \in BOOLEAN, stays \in SUBSET Dimension :
       /\ GitMayFail(fails)
       /\ listed' = DerivedFloor(head, fails)
       /\ report' = [d \in Dimension |->
                       IF d \in carried \cup stays THEN report[d] ELSE NoReport]
  /\ recent' = [recent EXCEPT ![p] = {}]
  /\ Becomes(p, [proc[p] EXCEPT !.at = "stamp", !.staged = head, !.dims = listed',
                                !.some = carried])
  /\ UNCHANGED <<head, rows, sight, stamp, window, hand, wedged, cleared, found>>

\* The reports of the episode before are superseded, except the carried ones, which
\* get the stamp's own mtime; one that is gone withdraws the stamp.
CarryReportsPastStamp(p) ==
  [d \in Dimension |-> [report[d] EXCEPT !.fresh = d \in proc[p].some]]
Stamp(p) ==
  [head |-> proc[p].staged, green |-> proc[p].staged \in Green, dims |-> proc[p].dims]

WritePrepStamp(p) ==
  LET l == proc[p]  gone == \E d \in l.some : report[d] = NoReport IN
  /\ At(p, "stamp")
  /\ stamp' = IF gone THEN NoStamp ELSE Stamp(p)
  /\ report' = CarryReportsPastStamp(p)
  /\ cleared' = recent[p] /\ recent' = [recent EXCEPT ![p] = {}]
  /\ Becomes(p, CASE p = Daemon /\ gone  -> [l EXCEPT !.at = "block"]
                  [] p = Daemon /\ ~gone -> [AtRest EXCEPT !.at = "open", !.sha = l.sha]
                  [] p # Daemon          -> AtRest)
  /\ hand' = IF p = Daemon \/ gone THEN hand
             ELSE [d \in Dimension |-> IF d \in l.dims THEN l.staged ELSE hand[d]]
  /\ UNCHANGED <<head, rows, sight, listed, window, wedged, found, events>>

\* Killed between the stamp and the carry.
KilledInStamp(p) ==
  /\ At(p, "stamp") /\ proc[p].some # {} /\ Event
  /\ stamp' = Stamp(p)
  /\ report' = [d \in Dimension |-> [report[d] EXCEPT !.fresh = FALSE]]
  /\ cleared' = recent[p] /\ recent' = [recent EXCEPT ![p] = {}] /\ found' = {}
  /\ Becomes(p, AtRest)
  /\ sight' = IF p = Daemon THEN NoAnchor ELSE sight
  /\ UNCHANGED <<head, rows, listed, window, hand, wedged>>

--------------------------------------------------------------------------------
(* The daemon's tick over the task.                                        *)

TornDown(S) ==
  IF wedged THEN window
  ELSE [d \in Dimension |-> IF d \in S THEN NoWindow ELSE window[d]]

\* A verdict on this head, whatever it says, ends the gate's business with it,
\* and a passing one on any head is the land pass's.
Gateable == ~verdict.pass /\ verdict.sha # head

GateBegin ==
  /\ At(Daemon, "rest") /\ Gateable
  /\ \/ /\ row.head # head
        /\ window' = TornDown(DispatchedDimensions)
        /\ Becomes(Daemon, [AtRest EXCEPT !.at = "prep", !.sha = head])
     \/ /\ row.head = head /\ row.outcome = "none"
        /\ Becomes(Daemon, [AtRest EXCEPT !.at = "poll", !.sha = head])
        /\ UNCHANGED window
  /\ UNCHANGED <<head, rows, sight, disk, hand, wedged, past, events>>

Opened(c, S, outcome) == [NoRow EXCEPT !.head = c, !.dims = S, !.outcome = outcome]

OpenEpisode ==
  LET c == proc[Daemon].sha IN
  /\ At(Daemon, "open")
  /\ \E fails \in BOOLEAN : GitMayFail(fails) /\ row' = Opened(c, RequiredDimensions(c, fails), "none")
  /\ Becomes(Daemon, [proc[Daemon] EXCEPT !.at = "mark"])
  /\ UNCHANGED <<head, marker, verdict, told, sight, disk, window, hand, wedged, past>>

MarkEpisode ==
  LET c == proc[Daemon].sha IN
  /\ At(Daemon, "mark")
  /\ marker' = IF marker.head = c THEN marker ELSE [head |-> c, age |-> 0]
  /\ Becomes(Daemon, [proc[Daemon] EXCEPT !.at = "poll"])
  /\ UNCHANGED <<head, row, verdict, told, sight, disk, window, hand, wedged, past,
                 events>>

\* A probe that times out reads as a window that is there.
ReviewerWindowAlive(d) == wedged \/ window[d] # NoWindow

FirstSeen(c) == IF sight.head = c THEN sight ELSE [head |-> c, age |-> 0]

\* Mutant: no clock runs until a launch has been charged.
LaunchLate(c) == row.age > Timeout /\ \E d \in Dimension : row.attempts[d] > 0

\* The stall clock runs from the earliest of three anchors.
EpisodeLate(c) ==
  \/ FirstSeen(c).age > Timeout
  \/ row.age > Timeout
  \/ marker.head = c /\ marker.age > Timeout

\* A reviewer that left without a report has used up its launches.
Spent(S) == \E d \in S : row.attempts[d] >= MaxAttempts

\* Reads the reports, the windows and the attempts, and decides what to do: the
\* set required is what is required now and what was dispatched before.
Poll ==
  LET c == proc[Daemon].sha IN
  /\ At(Daemon, "poll")
  /\ \E fails \in BOOLEAN :
     LET dims    == RequiredDimensions(c, fails) \cup DispatchedDimensions
         missing == {d \in dims : ~ReportCurrent(d, c)}
         idle    == {d \in missing : ~ReviewerWindowAlive(d)}
         quits   == Dropped(c) # {} \/ Spent(idle)
         next    == CASE quits                           -> "block"
                      [] ~quits /\ missing = {}          -> "fold"
                      [] ~quits /\ missing # {} /\ EpisodeLate(c) -> "block"
                      [] ~quits /\ idle # {} /\ ~EpisodeLate(c)   -> "launch"
                      [] OTHER                           -> "rest"
     IN /\ GitMayFail(fails)
        /\ sight' = IF quits \/ missing = {} THEN sight ELSE FirstSeen(c)
        /\ Becomes(Daemon, IF next = "rest" THEN AtRest
                           ELSE [proc[Daemon] EXCEPT !.at = next, !.dims = dims, !.some = idle])
  /\ UNCHANGED <<head, rows, disk, window, hand, wedged, past>>

\* A launch that could not be tried, because tmux does not answer, is not charged;
\* one that fails for a standing reason is.
SpawnReviewers ==
  LET l == proc[Daemon] IN
  /\ At(Daemon, "launch")
  /\ IF wedged
     THEN UNCHANGED window /\ Becomes(Daemon, [l EXCEPT !.at = "charge", !.some = {}])
     ELSE /\ \E launched \in SUBSET l.some :
               window' = [d \in Dimension |->
                            IF d \in launched /\ window[d] = NoWindow
                            THEN [sha |-> l.sha, busy |-> TRUE] ELSE window[d]]
          /\ Becomes(Daemon, [l EXCEPT !.at = "charge"])
  /\ UNCHANGED <<head, rows, sight, disk, hand, wedged, past, events>>

ChargeAttempts ==
  /\ At(Daemon, "charge")
  /\ row' = [row EXCEPT !.attempts = [d \in Dimension |->
               IF d \in proc[Daemon].some THEN @[d] + 1 ELSE @[d]]]
  /\ Becomes(Daemon, AtRest)
  /\ UNCHANGED <<head, marker, verdict, told, sight, disk, window, hand, wedged, past,
                 events>>

Fold ==
  LET l == proc[Daemon]  S == FoldDimensions(l.dims, l.sha) IN
  /\ At(Daemon, "fold")
  /\ Becomes(Daemon, CASE FoldFails(S, l.sha)  -> AtRest
                       [] ~FoldFails(S, l.sha) /\ FoldPasses(S, l.sha)
                            -> [l EXCEPT !.at = "record", !.dims = S, !.some = {}]
                       [] OTHER -> [l EXCEPT !.at = "block", !.dims = S])
  /\ UNCHANGED <<head, rows, sight, disk, window, hand, wedged, past, events>>

SurfaceGateBlocked ==
  /\ At(Daemon, "block")
  /\ told' = told \cup {proc[Daemon].sha}
  /\ Becomes(Daemon, [proc[Daemon] EXCEPT !.at = "close", !.pass = FALSE])
  /\ UNCHANGED <<head, row, marker, verdict, sight, disk, window, hand, wedged, past,
                 events>>

\* Saves the outcome and tears the reviewers down; a refused prep saves a row of
\* its own.
EndEpisode ==
  LET l == proc[Daemon]
      outcome == IF l.pass THEN "recorded" ELSE "blocked"
  IN
  /\ At(Daemon, "close")
  /\ row' = IF row.head = l.sha THEN [row EXCEPT !.outcome = outcome]
                                ELSE Opened(l.sha, {}, outcome)
  /\ window' = IF row.head = l.sha THEN TornDown(l.dims \cup DispatchedDimensions) ELSE window
  /\ Becomes(Daemon, AtRest)
  /\ UNCHANGED <<head, marker, verdict, told, sight, disk, hand, wedged, past, events>>

--------------------------------------------------------------------------------
(* Trust record, the last step of a passing tick or a manager's command.   *)

RecordByHand(p) ==
  /\ p \in Manager /\ At(p, "rest")
  /\ Becomes(p, [AtRest EXCEPT !.at = "record", !.sha = head])
  /\ UNCHANGED <<head, rows, sight, disk, window, hand, wedged, past, events>>

\* Folds again, over the set required now; refuses a head that has moved.
TrustRecord(p) ==
  LET l == proc[p] IN
  /\ At(p, "record")
  /\ \E fails \in BOOLEAN :
     LET S == FoldDimensions(RequiredDimensions(l.sha, fails), l.sha) IN
     /\ GitMayFail(fails)
     /\ Becomes(p, IF l.sha # head \/ FoldFails(S, l.sha) THEN AtRest
                   ELSE [l EXCEPT !.at = "save",
                           !.pass = FoldPasses(S, l.sha) /\ Dropped(l.sha) = {}])
  /\ UNCHANGED <<head, rows, sight, disk, window, hand, wedged, past>>

\* The daemon closes its episode as recorded, whatever the verdict says.
SaveVerdict(p) ==
  /\ At(p, "save")
  /\ verdict' = [sha |-> proc[p].sha, pass |-> proc[p].pass]
  /\ Becomes(p, IF p = Daemon THEN [proc[p] EXCEPT !.at = "close", !.pass = TRUE] ELSE AtRest)
  /\ UNCHANGED <<head, row, marker, told, sight, disk, window, hand, wedged, past, events>>

\* What else a record needs may fail, and for as long as it likes: the base and the
\* diff the verdict is of, the approval's file, the transaction.  Nothing is saved, the
\* tick waits, and no clock runs over it.
RecordFails(p) ==
  /\ proc[p].at \in {"record", "save"}
  /\ Becomes(p, AtRest)
  /\ UNCHANGED <<head, rows, sight, disk, window, hand, wedged, past, events>>

--------------------------------------------------------------------------------
TrustPrep(p) ==
  PrepStages(p) \/ WritePrepStamp(p)

GateOnce ==
  \/ GateBegin \/ TrustPrep(Daemon) \/ OpenEpisode \/ MarkEpisode \/ Poll
  \/ SpawnReviewers \/ ChargeAttempts \/ Fold \/ SurfaceGateBlocked
  \/ TrustRecord(Daemon) \/ SaveVerdict(Daemon) \/ EndEpisode

ByHand(p) ==
  PrepByHand(p) \/ TrustPrep(p) \/ RecordByHand(p) \/ TrustRecord(p) \/ SaveVerdict(p)

Next ==
  \/ GateOnce \/ Clock \/ Wedge
  \/ \E p \in Manager : ByHand(p)
  \/ \E p \in Proc : PrepRefused(p) \/ RecordFails(p) \/ Kill(p) \/ KilledInStamp(p)
  \/ \E c \in Commit : WorkerMoves(c)
  \/ \E d \in Dimension : Reports(d) \/ WindowCloses(d) \/ HandReports(d)

\* The scheduler ticks for as long as it is left to, and time passes.  Reviewers,
\* managers and tmux promise nothing.
Fairness == WF_vars(GateOnce) /\ WF_vars(Clock)
Spec == Init /\ [][Next]_vars /\ Fairness

--------------------------------------------------------------------------------
(* Properties.                                                             *)

\* Types, and a budget of launches that is never overdrawn (gate.go, gateOnceAt).
TypeOK ==
  /\ head \in Commit /\ row \in Row /\ marker \in Anchor /\ sight \in Anchor
  /\ stamp \in PrepStamp /\ listed \subseteq Dimension
  /\ report \in [Dimension -> ReportType] /\ window \in [Dimension -> Window]
  /\ hand \in [Dimension -> Head] /\ verdict \in Verdict /\ told \subseteq Commit
  /\ proc \in [Proc -> Local] /\ wedged \in BOOLEAN
  /\ recent \in [Proc -> SUBSET (Dimension \X Commit)]
  /\ cleared \subseteq Dimension \X Commit /\ found \subseteq Dimension \X Commit
  /\ events \in 0..MaxEvents

\* p decides on a passing verdict over commit c.
Passes(p, c) == At(p, "record") /\ proc'[p].at = "save" /\ proc'[p].pass /\ proc[p].sha = c

\* A verdict passes only over a commit whose suite was green at its prep and which
\* every reviewer its diff calls for has cleared since that prep: no review of an
\* earlier episode, of another commit or of a reduced set stands in for one
\* (gate.go, TrustPrep: "stale clean reviews must never form a pass").
PassIsReviewed ==
  [][\A p \in Proc, c \in Commit :
       Passes(p, c) => c \in Green /\ \A d \in Floor[c] : <<d, c>> \in cleared]_vars

\* A verdict never passes over a blocking finding that a reviewer has filed on the
\* head since the worker moved there and not taken back, whatever was re-prepped,
\* restarted, re-dispatched or recomputed in between (gate.go, foldDimensions: "a
\* blocking finding already on disk is never discarded").  Findings filed while the
\* suite of a prep runs, and those under a prep killed in its last step, are lost.
NoFindingLost ==
  [][\A p \in Proc, c \in Commit :
       Passes(p, c) => \A d \in Dimension : <<d, c>> \notin found]_vars

\* A head is never left in the gate for ever: with reviewers that hang, windows that
\* close and a tmux server that does not answer, it is recorded or blocked in the
\* end, or the worker moves on, unless the record itself keeps failing (gate.go,
\* gateOnceAt: "every route out of an unfinished episode passes through this check";
\* the one past it is a record that fails, which is tried again for ever).
Settled(c) ==
  \/ verdict.sha = c \/ verdict.pass
  \/ row.head = c /\ row.outcome # "none"
HeadSettles ==
  \/ []<><<RecordFails(Daemon)>>_vars
  \/ \A c \in Commit : head = c ~> Settled(c) \/ head # c

\* When the daemon is done with a head, either it passed or the manager was told
\* (scheduler/gate.go: "it records ONLY an all-pass verdict", "a blocking finding, a
\* prep refusal, a missing/mismatched report, or a stalled reviewer is never recorded
\* and instead surfaces an actionable gate_blocked event").
SettledIsKnown ==
  row.outcome # "none" => row.head \in told \/ verdict = [sha |-> row.head, pass |-> TRUE]
================================================================================
