--------------------------------- MODULE Relay ---------------------------------
(***************************************************************************)
(* Decisions between two coordinators: a peer's table of escalations, with *)
(* the sync that makes approvals follow their task and the ledger that     *)
(* makes a repeated request harmless, and the scheduler of the parent that *)
(* polls the table and raises what is new.                                 *)
(*                                                                         *)
(* A store transaction is one step.  A poll is three: it starts, the peer  *)
(* answers, the answer is recorded; it may fail at either of the last two. *)
(* The parent resends a request until it has a response, and ssh promises  *)
(* nothing about a request it gave up on, so a request may reach the peer  *)
(* at any time and any number of times.  An id and a creation stamp name   *)
(* an escalation; stamps are numbers, in the order of creation.            *)
(***************************************************************************)
EXTENDS Integers, Sequences, FiniteSets

CONSTANTS
  Scheduler,   \* schedulers of the parent, of which the singleton lock admits one
  Rid,         \* request ids
  None,        \* no request
  MaxRaise,    \* maxPeerRaisesPerPoll
  MaxJump,     \* maxPeerEscalationJump
  After,       \* peerUnreachableAfter
  MaxStamp,    \* bound on escalations ever opened
  MaxEpisode,  \* bound on returns of the task to done
  MaxEvents    \* bound on stores recreated, registrations and kills, together

ASSUME RelayAssumption ==
  /\ None \notin Rid
  /\ MaxRaise \in Nat \ {0} /\ MaxJump \in Nat \ {0} /\ After \in Nat \ {0}
  /\ MaxStamp \in Nat /\ MaxEpisode \in Nat /\ MaxEvents \in Nat

VARIABLES
  \* of the peer
  task,     \* its one task
  esc,      \* escalations: the id of one is its place
  ledger,   \* peer_requests: what each request id did
  woken,    \* events appended for the manager, per request id
  stamp,    \* creation stamps given out
  \* of the parent
  row,      \* the peers row
  open,     \* peer_open_escalations: ids and stamps raised and still open
  poll,     \* the poll each scheduler has in flight
  told,     \* history: stamps raised as peer_escalation since the registration
  back,     \* history: the peer's store has been recreated
  events    \* how many of MaxEvents have happened

peer   == <<task, esc, ledger, woken, stamp>>
parent == <<row, open, told, back>>
vars   == <<peer, parent, poll, events>>

Stamp == 1..MaxStamp
Id    == 1..MaxStamp

Task    == [state : {"work", "done", "gone"}, episode : 0..MaxEpisode,
            required : BOOLEAN, approved : BOOLEAN]
NewTask == [state |-> "work", episode |-> 0, required |-> FALSE, approved |-> FALSE]

\* episode is 0 on an escalation a manager raised by hand.
Escalation == [episode : 0..MaxEpisode, stamp : Stamp,
               status : {"open", "answered", "resolved"}, by : Rid \cup {None}]

Request   == [verb : {"answer", "goal"}, id : 0..MaxStamp]
NoRequest == [verb |-> "none", id |-> 0]

Row    == [status : {"provisioning", "live", "unreachable", "retired"}, cursor : 0..MaxStamp,
           fails : 0..After, reset : BOOLEAN, bad : BOOLEAN]
NewRow == [status |-> "provisioning", cursor |-> 0, fails |-> 0, reset |-> FALSE, bad |-> FALSE]

Idle == [at |-> "idle", list |-> {}]

Init ==
  /\ task = NewTask /\ esc = <<>> /\ stamp = 0
  /\ ledger = [r \in Rid |-> NoRequest] /\ woken = [r \in Rid |-> 0]
  /\ row = [NewRow EXCEPT !.status = "live"] /\ open = {}
  /\ poll = [s \in Scheduler |-> Idle]
  /\ told = {} /\ back = FALSE /\ events = 0

Event == events < MaxEvents /\ events' = events + 1

--------------------------------------------------------------------------------
(* The peer: its task and its escalations.                                 *)

EnterDone ==
  /\ task.state = "work" /\ task.episode < MaxEpisode
  /\ task' = [task EXCEPT !.state = "done", !.episode = @ + 1]
  /\ UNCHANGED <<esc, ledger, woken, stamp, parent, poll, events>>

LeaveDone ==
  /\ task.state = "done"
  /\ task' = [task EXCEPT !.state = "work"]
  /\ UNCHANGED <<esc, ledger, woken, stamp, parent, poll, events>>

\* The gate asks once per task; a person approves once.
ApprovalRequired ==
  /\ task.state = "done" /\ ~task.required
  /\ task' = [task EXCEPT !.required = TRUE]
  /\ UNCHANGED <<esc, ledger, woken, stamp, parent, poll, events>>

Approve ==
  /\ task.required /\ task.state # "gone" /\ ~task.approved
  /\ task' = [task EXCEPT !.approved = TRUE]
  /\ UNCHANGED <<esc, ledger, woken, stamp, parent, poll, events>>

DeleteTask ==
  /\ task.state # "gone"
  /\ task' = [task EXCEPT !.state = "gone"]
  /\ UNCHANGED <<esc, ledger, woken, stamp, parent, poll, events>>

New(episode) == [episode |-> episode, stamp |-> stamp + 1, status |-> "open", by |-> None]

OpenEscalation ==
  /\ task.state # "gone" /\ stamp < MaxStamp
  /\ esc' = Append(esc, New(0)) /\ stamp' = stamp + 1
  /\ UNCHANGED <<task, ledger, woken, parent, poll, events>>

Waiting == task.state = "done" /\ task.required /\ ~task.approved
Approval(e) == e.episode > 0

\* Mutant: one escalation per approval_required event, not per episode.
AskedEver(table) == \E i \in DOMAIN table : Approval(table[i])

\* Mutant: only an open escalation counts.
AskedNow(table) == \E i \in DOMAIN table : Approval(table[i]) /\ table[i].status = "open"

\* An escalation is open, or this episode had one.
Asked(table) ==
  \E i \in DOMAIN table :
    Approval(table[i]) /\ (table[i].status = "open" \/ table[i].episode = task.episode)

\* Closes the approvals nobody waits for and opens the one somebody does.
Resolved ==
  [i \in DOMAIN esc |->
     IF Approval(esc[i]) /\ esc[i].status = "open" /\ (task.state # "done" \/ task.approved)
     THEN [esc[i] EXCEPT !.status = "resolved"] ELSE esc[i]]
SyncApprovalEscalations ==
  IF Waiting /\ ~Asked(Resolved) /\ stamp < MaxStamp
  THEN esc' = Append(Resolved, New(task.episode)) /\ stamp' = stamp + 1
  ELSE esc' = Resolved /\ stamp' = stamp

\* A list of the open ones, by a person on the peer.
ReadDecisions ==
  /\ SyncApprovalEscalations
  /\ UNCHANGED <<task, ledger, woken, parent, poll, events>>

\* Mutant: an answer to an escalation that is no longer open is taken.
Exists(id) == id \in DOMAIN esc

Answerable(id) == id \in DOMAIN esc /\ esc[id].status = "open"

\* A repeat of a request id returns what it stored, or is refused if it stored
\* something else; either way nothing is written.  An answer gives the escalation its
\* text and the manager one event.
AnswerEscalation(r, id) ==
  /\ ledger[r] = NoRequest /\ Answerable(id)
  /\ esc' = [esc EXCEPT ![id].status = "answered", ![id].by = r]
  /\ woken' = [woken EXCEPT ![r] = @ + 1]
  /\ ledger' = [ledger EXCEPT ![r] = [verb |-> "answer", id |-> id]]
  /\ UNCHANGED <<task, stamp, parent, poll, events>>

RecordGoal(r) ==
  /\ ledger[r] = NoRequest
  /\ woken' = [woken EXCEPT ![r] = @ + 1]
  /\ ledger' = [ledger EXCEPT ![r] = [verb |-> "goal", id |-> 0]]
  /\ UNCHANGED <<task, esc, stamp, parent, poll, events>>

\* The store is lost and made anew: its ids start from 1 again.
Recreated ==
  /\ Event
  /\ task' = NewTask /\ esc' = <<>>
  /\ ledger' = [r \in Rid |-> NoRequest] /\ woken' = [r \in Rid |-> 0]
  /\ back' = TRUE
  /\ UNCHANGED <<stamp, row, open, told, poll>>

--------------------------------------------------------------------------------
(* The parent: registration and polls.                                     *)

RetirePeer ==
  /\ Event /\ row.status # "retired"
  /\ row' = [row EXCEPT !.status = "retired"]
  /\ UNCHANGED <<peer, open, told, back, poll>>

\* Registering again starts the state of the poll over.
RegisterPeer ==
  /\ row.status \in {"retired", "provisioning"} \/ Event
  /\ row.status \in {"retired", "provisioning"} => UNCHANGED events
  /\ row' = NewRow /\ open' = {} /\ told' = {}
  /\ UNCHANGED <<peer, back, poll>>

MarkPeerLive ==
  /\ row.status # "retired"
  /\ row' = [row EXCEPT !.status = "live", !.fails = 0]
  /\ UNCHANGED <<peer, open, told, back, poll, events>>

Polled == row.status \in {"live", "unreachable"}

\* A poll still in flight is not doubled by the next pass.
PollPeer(s) ==
  /\ Polled /\ poll[s] = Idle
  /\ poll' = [poll EXCEPT ![s].at = "asked"]
  /\ UNCHANGED <<peer, parent, events>>

OpenList == {<<i, esc'[i].stamp>> : i \in {j \in DOMAIN esc' : esc'[j].status = "open"}}

\* The decisions verb syncs, then lists.
ServeDecisions(s) ==
  /\ poll[s].at = "asked"
  /\ SyncApprovalEscalations
  /\ poll' = [poll EXCEPT ![s] = [at |-> "listed", list |-> OpenList]]
  /\ UNCHANGED <<task, ledger, woken, parent, events>>

IdsOf(S)     == {e[1] : e \in S}
Highest(S)   == CHOOSE n \in S \cup {0} : \A m \in S : m <= n

Lowest(S, n) == {e \in S : Cardinality({f \in S : f[1] < e[1]}) < n}

\* Mutant: the rows are those of the last poll that raised something.
KeepNone(list) == {}

\* A row goes when its id is no longer listed, or under another stamp.
StillOpen(list) == open \cap list

\* New is what was not raised, whatever its id.
Unseen(list) == list \ open

\* The cursor only says where ids went back, and how far ahead one may be.
RecordPeerPoll(s) ==
  LET list      == poll[s].list
      kept      == StillOpen(list)
      unseen    == Unseen(list)
      regressed == \E e \in unseen : e[1] <= row.cursor
      refused   == IF regressed \/ row.cursor = 0 THEN {}
                   ELSE {e \in unseen : e[1] - row.cursor > MaxJump}
      new       == Lowest(unseen \ refused, MaxRaise)
      base      == IF regressed THEN Highest(IdsOf(kept)) ELSE row.cursor
  IN
  /\ poll[s].at = "listed"
  /\ poll' = [poll EXCEPT ![s] = Idle]
  /\ IF Polled
     THEN /\ open' = kept \cup new
          /\ told' = told \cup {e[2] : e \in new}
          /\ row' = [status |-> "live", cursor |-> Highest({base} \cup IdsOf(new)), fails |-> 0,
                     reset |-> regressed, bad |-> refused # {}]
     ELSE UNCHANGED <<open, told, row>>
  /\ UNCHANGED <<peer, back, events>>

\* A call times out or is refused; what the peer did with it stands.
RecordPeerFailure(s) ==
  /\ poll[s] # Idle
  /\ poll' = [poll EXCEPT ![s] = Idle]
  /\ IF ~Polled THEN UNCHANGED row
     ELSE row' = [row EXCEPT
            !.fails  = IF @ < After THEN @ + 1 ELSE @,
            !.status = IF @ = "live" /\ row.fails + 1 >= After THEN "unreachable" ELSE @]
  /\ UNCHANGED <<peer, open, told, back, events>>

\* The scheduler stops with its poll in flight; the poll is not recorded.
Stop(s) ==
  /\ Event /\ poll[s] # Idle
  /\ poll' = [poll EXCEPT ![s] = Idle]
  /\ UNCHANGED <<peer, parent>>

--------------------------------------------------------------------------------
Peer ==
  \/ EnterDone \/ LeaveDone \/ ApprovalRequired \/ Approve \/ DeleteTask
  \/ OpenEscalation \/ ReadDecisions \/ Recreated
  \/ \E r \in Rid : RecordGoal(r) \/ \E id \in Id : AnswerEscalation(r, id)

Next ==
  \/ Peer \/ RetirePeer \/ RegisterPeer \/ MarkPeerLive
  \/ \E s \in Scheduler :
       \/ PollPeer(s) \/ ServeDecisions(s) \/ RecordPeerPoll(s)
       \/ RecordPeerFailure(s) \/ Stop(s)

Spec == Init /\ [][Next]_vars

--------------------------------------------------------------------------------
(* Properties.                                                             *)

\* Types, one row per id of a peer, and a cursor at or above every id raised and
\* still open, also after ids went back (peerpoll.go, RecordPeerPoll).
TypeOK ==
  /\ task \in Task /\ stamp \in 0..MaxStamp
  /\ esc \in Seq(Escalation) /\ Len(esc) <= MaxStamp
  /\ ledger \in [Rid -> Request \cup {NoRequest}] /\ woken \in [Rid -> Nat]
  /\ row \in Row /\ told \subseteq Stamp /\ back \in BOOLEAN /\ events \in 0..MaxEvents
  /\ open \subseteq Id \X Stamp /\ \A e, f \in open : e[1] = f[1] => e = f
  /\ \A e \in open : e[1] <= row.cursor
  /\ poll \in [Scheduler -> [at : {"idle", "asked", "listed"}, list : SUBSET (Id \X Stamp)]]

\* However often a request arrives, its manager is woken once, what the ledger stores
\* is what the escalation says, and no second answer takes the place of the first
\* (escalation.go, AnswerEscalation: "a retry after a timeout can never append a
\* second event").
LedgerAgrees ==
  /\ \A r \in Rid :
       /\ woken[r] = IF ledger[r] = NoRequest THEN 0 ELSE 1
       /\ ledger[r].verb = "answer" => esc[ledger[r].id].by = r
  /\ \A i \in DOMAIN esc :
       esc[i].status = "answered" <=> \E r \in Rid : ledger[r] = [verb |-> "answer", id |-> i]

\* A done episode of a task asks for approval at most once, whatever was answered, left
\* or re-entered between two syncs, and at most one such question is open
\* (escalation.go, SyncApprovalEscalations: "keeps that exactly-once").
OncePerEpisode ==
  \A i, j \in DOMAIN esc :
    i # j /\ Approval(esc[i]) /\ Approval(esc[j]) =>
      /\ esc[i].episode # esc[j].episode
      /\ {esc[i].status, esc[j].status} # {"open"}

\* An escalation is raised once per registration, across lost answers, restarts of the
\* scheduler, caps, and a store whose ids began again (peerpoll.go: "a crash between
\* the two can neither lose an event nor raise it twice").  It takes one scheduler: two
\* that record their lists in the other order raise one twice.
RaisedOnce == [][\A e \in open' \ open : e[2] \notin told]_vars

\* Ids are said to have gone back only if they have (peerpoll.go, RecordPeerPoll: "its
\* store was recreated or restored").
ResetJustified == row.reset => back

\* A poll that lists something never raised raises something, or reports ids out of
\* range: so all that stays open is raised within as many polls, by one scheduler
\* (peerpoll.go: "the rest stay new and are raised by the next polls").
NoPollInVain ==
  [][\A s \in Scheduler :
       RecordPeerPoll(s) /\ Polled /\ (\E e \in poll[s].list : e[2] \notin told) =>
         told' # told \/ row'.bad]_vars

\* Whenever the peer lists its escalations, a done task that waits for its approval is
\* among them, or has been answered since it was last done (escalation.go: "Keying on the
\* episode reopens it once per return to done").
WaitingIsListed ==
  [][\A s \in Scheduler :
       poll[s].at = "asked" /\ poll'[s].at = "listed" /\ Waiting /\ stamp' < MaxStamp =>
         \E i \in DOMAIN esc' :
           /\ Approval(esc'[i])
           /\ \/ <<i, esc'[i].stamp>> \in poll'[s].list
              \/ esc'[i].status = "answered" /\ esc'[i].episode = task.episode]_vars
================================================================================
