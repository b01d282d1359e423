------------------------------- MODULE Board -------------------------------
(***************************************************************************)
(* `ttorch board': any number of local pages on one store, the lead        *)
(* clicking on all of them, and one task the pages show.                   *)
(*                                                                         *)
(* A page lists the question a waiting worker asked, the gate the daemon   *)
(* escalated and the backlog (Snapshot), and has three actions: Answer,    *)
(* Dispatch and GatePrep.  Each reads the task and then its events again,  *)
(* without a transaction around the two reads, and then takes a claim in   *)
(* the store before it does anything outside it.  Within one board a mutex *)
(* per task makes the actions on it follow one another; between boards,    *)
(* the scheduler and the daemon's gate pass only the claims do.            *)
(*                                                                         *)
(* A board is one process: it may be killed at any step and a restart is   *)
(* another element of Boards.  Leases outlive what they cover (two hours   *)
(* against minutes), so one lapses only when nobody works under it; but    *)
(* anyone else's claim may overwrite a gate claim, MaxTaken times.         *)
(***************************************************************************)
EXTENDS Naturals, Sequences, FiniteSets

CONSTANTS
  Boards,    \* the board processes
  MaxLog,    \* bound on the task's events
  MaxTaken   \* bound on the gate claims another owner overwrites

VARIABLES
  status,    \* the row's status
  window,    \* whether the worker's window lives
  lease,     \* whose lease the row carries
  log,       \* the task's events, in id order: an event's id is its index
  began,     \* the status the task had before its first event here
  acted,     \* per board, the escalations it remembers it prepared
  job,       \* per board, the action it is in
  daemon,    \* whether the daemon's gate pass is working on the task
  told,      \* per question, how many answers reached the worker
  preps,     \* the preps that ran: the board and the escalation, in order
  unmarked,  \* the escalations a board prepared without a durable mark
  taken      \* the gate claims overwritten so far

vars == <<status, window, lease, log, began, acted, job, daemon, told, preps,
          unmarked, taken>>

Waiting  == {"needs_input", "blocked"}
Statuses == Waiting \cup {"pending", "active", "done"}
Ids      == 1..MaxLog

\* An event, and the status it moves to or the event it refers to.
Event(kind, ref) == [kind |-> kind, ref |-> ref]
Moved(to)        == Event("status_changed", to)

Room == Len(log) < MaxLog

Idle == [at |-> "idle", id |-> 0, seen |-> "done", again |-> FALSE]

At(b, steps) == job[b].at \in steps
Go(b, step)  == job' = [job EXCEPT ![b].at = step]
Stop(b)      == job' = [job EXCEPT ![b] = Idle]

\* The action ends; under the gate claim, by releasing it.
NothingToDo(b) == IF job[b].again THEN Go(b, "release") ELSE Stop(b)

-----------------------------------------------------------------------------
(* What a page, and an action, make of the events `l'                      *)

\* The newest event among `of', 0 when there is none.
Newest(of) == IF of = {} THEN 0 ELSE CHOOSE i \in of : \A j \in of : j <= i

\* The status change that moved the task to the status that was read.
LatestQuestion(s, l) == Newest({i \in DOMAIN l : l[i] = Moved(s)})

\* Whether the newest claim or release of an event is a claim.
ClaimHeld(claim, release, id, l) ==
  LET marks == {i \in DOMAIN l : l[i] \in {Event(claim, id), Event(release, id)}}
  IN  marks # {} /\ l[Newest(marks)].kind = claim

Answered(q, l) == ClaimHeld("board_answer", "board_answer_failed", q, l)
Prepared(g, l) == ClaimHeld("board_gate_prep", "never", g, l)

\* The newest escalation no recorded verdict has settled.
LatestGateBlocked(l) ==
  LET i == Newest({j \in DOMAIN l : l[j].kind \in {"gate_blocked", "review_recorded"}})
  IN  IF i # 0 /\ l[i].kind = "gate_blocked" THEN i ELSE 0

QuestionFor(s, l) == [asks |-> LatestQuestion(s, l), answered |-> Answered(LatestQuestion(s, l), l)]
GateFor(l)        == [blocked |-> LatestGateBlocked(l), reprep |-> Prepared(LatestGateBlocked(l), l)]
Nothing           == [asks |-> 0, answered |-> FALSE, blocked |-> 0, reprep |-> FALSE]

\* The status the events up to now left: every change of it is one.
StatusAt(l) ==
  LET i == Newest({j \in DOMAIN l : l[j].kind = "status_changed"})
  IN  IF i = 0 THEN began ELSE l[i].ref

\* What a page lists of the task.
Snapshot(l) ==
  LET s == StatusAt(l)
  IN  [backlog  |-> s = "pending",
       question |-> IF s \in Waiting THEN QuestionFor(s, l) ELSE Nothing,
       gate     |-> IF s = "done" THEN GateFor(l) ELSE Nothing]

\* The pages a click can come from: one drawn at any moment so far.
Pages == {Snapshot(SubSeq(log, 1, n)) : n \in 0..Len(log)}

\* The task is in the backlog or its worker works on it; events of an earlier
\* life are left out of the log, no action here refers to one.
Init ==
  /\ \/ status = "pending" /\ window = FALSE /\ lease = "none"
     \/ status = "active" /\ window = TRUE /\ lease = "worker"
  /\ began = status
  /\ log = << >>
  /\ acted = [b \in Boards |-> {}]
  /\ job = [b \in Boards |-> Idle]
  /\ daemon = FALSE
  /\ told = [i \in Ids |-> 0]
  /\ preps = << >>
  /\ unmarked = {}
  /\ taken = 0

unchangedLedger == UNCHANGED <<began, daemon, told, preps, unmarked, taken>>

-----------------------------------------------------------------------------
(* The store's claims                                                      *)

\* Mutant: the claim is appended unread.
ClaimUnread(claim, release, id) == Room /\ log' = Append(log, Event(claim, id))

\* ClaimMarker reads the newest claim or release and appends the claim under
\* the write lock.
ClaimMarker(claim, release, id) ==
  /\ ~ClaimHeld(claim, release, id, log)
  /\ Room
  /\ log' = Append(log, Event(claim, id))

\* ClaimForLand, as every caller here uses it: only a live lease of the same
\* owner refuses it.
ClaimForLand == status = "done" /\ lease # "gater" /\ lease' = "gater"

ReleaseLandClaim ==
  lease' = IF status = "done" /\ lease = "gater" THEN "none" ELSE lease

-----------------------------------------------------------------------------
(* The page                                                                *)

\* Clicks: a request that names this board's host and carries its token, so it
\* comes from a page this very process drew, however long ago it did.
Clicks(b) ==
  /\ At(b, {"idle"})
  /\ \E p \in Pages :
       \/ /\ p.question.asks # 0
          /\ job' = [job EXCEPT ![b] = [Idle EXCEPT !.at = "answer", !.id = p.question.asks]]
       \/ p.backlog /\ Go(b, "dispatch")
       \/ /\ p.gate.blocked # 0
          /\ job' = [job EXCEPT ![b] = [Idle EXCEPT !.at = "gate", !.id = p.gate.blocked]]
  /\ UNCHANGED <<status, window, lease, log, acted>>
  /\ unchangedLedger

\* ReadsTask: the first of the two reads; an answer goes on for a waiting task
\* and a prep for one that is done.
ReadsTask(b) ==
  /\ At(b, {"answer", "gate"})
  /\ LET wants == IF job[b].at = "answer" THEN Waiting ELSE {"done"}
     IN  IF status \in wants
         THEN job' = [job EXCEPT ![b].seen = status,
                                 ![b].at = IF job[b].at = "answer" THEN "asked" ELSE "escalated"]
         ELSE NothingToDo(b)
  /\ UNCHANGED <<status, window, lease, log, acted>>
  /\ unchangedLedger

-----------------------------------------------------------------------------
(* Answer                                                                  *)

\* ReadsQuestion: the events are read; the question must be the newest one of
\* the status read before, and unclaimed.
ReadsQuestion(b) ==
  /\ At(b, {"asked"})
  /\ LET q == job[b].id
     IN  IF LatestQuestion(job[b].seen, log) = q /\ ~Answered(q, log)
         THEN Go(b, "claim")
         ELSE Stop(b)
  /\ UNCHANGED <<status, window, lease, log, acted>>
  /\ unchangedLedger

\* ClaimsQuestion: of any number of claimants one wins.
ClaimsQuestion(b) ==
  /\ At(b, {"claim"})
  /\ \/ ClaimMarker("board_answer", "board_answer_failed", job[b].id) /\ Go(b, "type")
     \/ Stop(b) /\ UNCHANGED log
  /\ UNCHANGED <<status, window, lease, acted>>
  /\ unchangedLedger

\* Types: Send refuses a worker without a window, and a pane in copy-mode;
\* otherwise the text is in the pane.
Types(b) ==
  /\ At(b, {"type"})
  /\ \/ window /\ Go(b, "enter")
     \/ Go(b, "give_back")
  /\ UNCHANGED <<status, window, lease, log, acted>>
  /\ unchangedLedger

\* Enters: a moment later Enter follows, and may fail where the text did not.
Enters(b) ==
  /\ At(b, {"enter"})
  /\ \/ /\ window
        /\ told' = [told EXCEPT ![job[b].id] = @ + 1]
        /\ Stop(b)
     \/ Go(b, "give_back") /\ UNCHANGED told
  /\ UNCHANGED <<status, window, lease, log, began, acted, daemon, preps, unmarked, taken>>

\* GivesBack: the question becomes claimable again, unless this write fails too.
GivesBack(b) ==
  /\ At(b, {"give_back"})
  /\ \/ Room /\ log' = Append(log, Event("board_answer_failed", job[b].id))
     \/ UNCHANGED log
  /\ Stop(b)
  /\ UNCHANGED <<status, window, lease, acted>>
  /\ unchangedLedger

-----------------------------------------------------------------------------
(* Dispatch                                                                *)

\* ClaimsTask: the pending task becomes active under the worker's lease and an
\* event says so; a read of the fleet that fails, or a footprint in use under
\* TTORCH_SERIALIZE_OVERLAP, leaves it alone, and so does losing the claim.
ClaimsTask(b) ==
  /\ At(b, {"dispatch"})
  /\ \/ /\ status = "pending"
        /\ Room
        /\ status' = "active"
        /\ lease' = "worker"
        /\ log' = Append(log, Moved("active"))
        /\ Go(b, "launch")
     \/ Stop(b) /\ UNCHANGED <<status, lease, log>>
  /\ UNCHANGED <<window, acted>>
  /\ unchangedLedger

\* Launches: the autonomous spawn brings the worker's window up, or fails.
Launches(b) ==
  /\ At(b, {"launch"})
  /\ \/ window' = TRUE /\ Stop(b)
     \/ UNCHANGED window /\ Go(b, "unclaim")
  /\ UNCHANGED <<status, lease, log, acted>>
  /\ unchangedLedger

\* Unclaims: ReleaseClaim returns a task still active under the lease; when the
\* write fails the lease has to run out.
Unclaims(b) ==
  /\ At(b, {"unclaim"})
  /\ \/ /\ status = "active" /\ lease = "worker" /\ Room
        /\ status' = "pending"
        /\ lease' = "none"
        /\ log' = Append(log, Moved("pending"))
     \/ UNCHANGED <<status, lease, log>>
  /\ Stop(b)
  /\ UNCHANGED <<window, acted>>
  /\ unchangedLedger

-----------------------------------------------------------------------------
(* GatePrep                                                                *)

\* Mutant: what the first look found still holds under the claim.
OpenAtFirst(b, g) ==
  job[b].again \/ (LatestGateBlocked(log) = g /\ ~Prepared(g, log) /\ g \notin acted[b])

\* gatePrepCheck's second half: the escalation is still the newest, no durable mark
\* names it and this board does not remember it.
StillOpen(b, g) == LatestGateBlocked(log) = g /\ ~Prepared(g, log) /\ g \notin acted[b]

\* ReadsGate: before the claim, and again under it.
ReadsGate(b) ==
  /\ At(b, {"escalated"})
  /\ IF StillOpen(b, job[b].id) THEN Go(b, IF job[b].again THEN "prep" ELSE "lock")
     ELSE NothingToDo(b)
  /\ UNCHANGED <<status, window, lease, log, acted>>
  /\ unchangedLedger

\* ClaimsGate: the claim the daemon's gate pass takes; then the checks repeat.
ClaimsGate(b) ==
  /\ At(b, {"lock"})
  /\ \/ ClaimForLand /\ job' = [job EXCEPT ![b].at = "gate", ![b].again = TRUE]
     \/ Stop(b) /\ UNCHANGED lease
  /\ UNCHANGED <<status, window, log, acted>>
  /\ unchangedLedger

\* Preps: TrustPrep stages the review inputs, or refuses.
Preps(b) ==
  /\ At(b, {"prep"})
  /\ \/ preps' = Append(preps, <<b, job[b].id>>) /\ Go(b, "remember")
     \/ UNCHANGED preps /\ Go(b, "release")
  /\ UNCHANGED <<status, window, lease, log, began, acted, daemon, told, unmarked, taken>>

\* RecordActed: first in memory, ...
Remembers(b) ==
  /\ At(b, {"remember"})
  /\ acted' = [acted EXCEPT ![b] = @ \cup {job[b].id}]
  /\ Go(b, "mark")
  /\ UNCHANGED <<status, window, lease, log>>
  /\ unchangedLedger

\* ... then as an event, which may fail.
Marks(b) ==
  /\ At(b, {"mark"})
  /\ \/ Room /\ log' = Append(log, Event("board_gate_prep", job[b].id)) /\ UNCHANGED unmarked
     \/ UNCHANGED log /\ unmarked' = unmarked \cup {job[b].id}
  /\ Go(b, "release")
  /\ UNCHANGED <<began, status, window, lease, acted, daemon, told, preps, taken>>

\* Releases: deferred, so it follows every outcome once the claim was won.
Releases(b) ==
  /\ At(b, {"release"})
  /\ ReleaseLandClaim
  /\ Stop(b)
  /\ UNCHANGED <<status, window, log, acted>>
  /\ unchangedLedger

\* Killed: the process ends at any step; what it held in the store stays.
Killed(b) ==
  /\ ~At(b, {"dead"})
  /\ job' = [job EXCEPT ![b] = [Idle EXCEPT !.at = "dead"]]
  /\ acted' = [acted EXCEPT ![b] = {}]
  /\ unmarked' = IF At(b, {"remember", "mark"}) THEN unmarked \cup {job[b].id} ELSE unmarked
  /\ UNCHANGED <<began, status, window, lease, log, daemon, told, preps, taken>>

-----------------------------------------------------------------------------
(* The rest of the fleet, as far as a board meets it                       *)

\* The worker, or the lead for it, reports another status.
Reports ==
  /\ window /\ Room
  /\ \E s \in Waiting \cup {"active", "done"} :
       s # status /\ status' = s /\ log' = Append(log, Moved(s))
  /\ UNCHANGED <<window, lease, acted, job>>
  /\ unchangedLedger

\* The worker's window goes.
Vanishes ==
  /\ window /\ window' = FALSE
  /\ UNCHANGED <<status, lease, log, acted, job>>
  /\ unchangedLedger

\* A lease lapses when nobody works under it; a worker's returns the task.
Lapses ==
  /\ \/ /\ lease = "worker" /\ ~window /\ status = "active" /\ Room
        /\ \A b \in Boards : ~At(b, {"launch", "unclaim"})
        /\ status' = "pending"
        /\ log' = Append(log, Moved("pending"))
     \/ /\ lease = "gater" /\ ~daemon /\ \A b \in Boards : ~job[b].again
        /\ UNCHANGED <<status, log>>
  /\ lease' = "none"
  /\ UNCHANGED <<window, acted, job>>
  /\ unchangedLedger

\* The daemon's gate pass claims the task, and ends by escalating it or by
\* recording a verdict.
GateTakes ==
  /\ ~daemon /\ ClaimForLand /\ daemon' = TRUE
  /\ UNCHANGED <<began, status, window, log, acted, job, told, preps, unmarked, taken>>

GateEnds ==
  /\ daemon /\ daemon' = FALSE
  /\ \/ Room /\ \E kind \in {"gate_blocked", "review_recorded"} :
          log' = Append(log, Event(kind, "gate"))
     \/ UNCHANGED log
  /\ ReleaseLandClaim
  /\ UNCHANGED <<began, status, window, acted, job, told, preps, unmarked, taken>>

\* A land pass or a re-spawn takes the row's one lease, whoever holds it.
Taken ==
  /\ taken < MaxTaken /\ lease = "gater"
  /\ lease' \in {"none", "worker"}
  /\ taken' = taken + 1
  /\ UNCHANGED <<began, status, window, log, acted, job, daemon, told, preps, unmarked>>

Next ==
  \/ \E b \in Boards :
       \/ Clicks(b) \/ ReadsTask(b)
       \/ ReadsQuestion(b) \/ ClaimsQuestion(b) \/ Types(b) \/ Enters(b) \/ GivesBack(b)
       \/ ClaimsTask(b) \/ Launches(b) \/ Unclaims(b)
       \/ ReadsGate(b) \/ ClaimsGate(b) \/ Preps(b) \/ Remembers(b) \/ Marks(b) \/ Releases(b)
       \/ Killed(b)
  \/ Reports \/ Vanishes \/ Lapses \/ GateTakes \/ GateEnds \/ Taken

Spec == Init /\ [][Next]_vars

-----------------------------------------------------------------------------
TypeOK ==
  /\ status \in Statuses /\ window \in BOOLEAN /\ lease \in {"none", "worker", "gater"}
  /\ Len(log) <= MaxLog
  /\ \A b \in Boards : acted[b] \subseteq Ids /\ job[b].id \in 0..MaxLog
  /\ unmarked \subseteq Ids /\ taken \in 0..MaxTaken

\* Answering a question: between the claim and what comes of it.
Answering(q) == {b \in Boards : At(b, {"type", "enter"}) /\ job[b].id = q}

\* Each question is answered at most once, by any number of boards and clicks:
\* nobody types an answer to a question that was answered, and never do two
\* boards type answers to one question together.
AnsweredOnce == \A q \in Ids : told[q] + Cardinality(Answering(q)) <= 1

\* Nobody else takes the gate's claim, and then: each escalation is prepared at
\* most once from the boards, over retries, two pages and a daemon escalating
\* again (another board repeats it only when the first one's mark was lost, and
\* the board that lost it does not), and review inputs are staged by one at a
\* time, a board's prep or the daemon's gate pass.
NeverPreppedAgain ==
  \A i, j \in DOMAIN preps : i < j /\ preps[i][2] = preps[j][2] =>
    preps[i][1] # preps[j][1] /\ preps[i][2] \in unmarked

StagedAlone ==
  Cardinality({b \in Boards : At(b, {"prep"})}) + (IF daemon THEN 1 ELSE 0) <= 1

PreppedOnce == taken = 0 => NeverPreppedAgain /\ StagedAlone
============================================================================
