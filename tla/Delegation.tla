------------------------------ MODULE Delegation ------------------------------
(***************************************************************************)
(* Work that a parent coordinator hands a peer: `ttorch peer task-add',    *)
(* `goal' and `answer' on the parent, `peer serve' and the ledger of       *)
(* requests on the peer.                                                   *)
(*                                                                         *)
(* A command of the parent may be killed, and gives up after a timeout; the *)
(* process that serves it on the peer knows nothing of that and goes on.   *)
(* A retry passes the request id of the first attempt, so attempts of one  *)
(* request run side by side.  Steps are as fine as the stores make them: a *)
(* transaction is one step, what is read outside of one may be stale when  *)
(* it is used.                                                             *)
(***************************************************************************)
EXTENDS Integers, FiniteSets

CONSTANTS
  Parent,      \* coordinators that hold a control key of the peer
  Shell,       \* commands of the parents, one at a time each
  Home,        \* the parent each of them runs at
  Server,      \* processes of `peer serve'
  Rid,         \* request ids
  Task,        \* task ids
  Escalation,  \* escalations of the peer, all open at first
  Text,        \* briefs
  None,
  MaxEvents    \* bound on attempts, local adds, adoptions, kills and failed commits,
               \* together

VARIABLES
  \* of the parents
  record,   \* peer_delegations
  shell,    \* what each command is doing
  refused,  \* history: request ids each parent has had refused
  told,     \* history: results reported, by request id
  \* of the peer
  master,   \* the parent its coordinator row names
  ledger,   \* peer_requests: what was done under each id
  task,     \* the task table
  brief,    \* the brief files
  open,     \* escalations still open
  server,   \* what each server is doing
  acted,    \* history: how often something was done under each id, and for whom
  events    \* how many of MaxEvents have happened

parents == <<record, shell, refused, told>>
peer    == <<master, ledger, task, brief, open>>
vars    == <<parents, peer, server, acted, events>>

Goal  == "goal"
NoAsk == [on |-> None, text |-> None]

NoTask == [exists |-> FALSE, brief |-> None]

\* A command: what it asks, under which id.
Resting == [at |-> "rest", rid |-> None, ask |-> NoAsk]
\* A server: for whom it works, through whose key the request came, its result.
Free == [at |-> "free", for |-> None, key |-> None, rid |-> None, ask |-> NoAsk,
         result |-> NoAsk]

Init ==
  /\ record = [p \in Parent |-> [r \in Rid |-> NoAsk]]
  /\ shell = [c \in Shell |-> Resting]
  /\ refused = [p \in Parent |-> {}] /\ told = {}
  /\ master \in Parent
  /\ ledger = [r \in Rid |-> NoAsk]
  /\ task = [t \in Task |-> NoTask] /\ brief = [t \in Task |-> None]
  /\ open = Escalation
  /\ server = [s \in Server |-> Free]
  /\ acted = [r \in Rid |-> [times |-> 0, for |-> None]]
  /\ events = 0

Event == events < MaxEvents /\ events' = events + 1

Delegated(ask) == ask.on \in Task \cup {Goal}
\* One verb, and one task or escalation: the text may differ.
SameRequest(a, b) == a.on = b.on

--------------------------------------------------------------------------------
(* The parent.                                                             *)

ShellAt(c, pc)    == shell[c].at = pc
ShellDoes(c, pc) == shell' = [shell EXCEPT ![c].at = pc]

\* The record is written before anything is sent; the same id for anything else is
\* refused here.
RecordDelegation(p, r, ask) ==
  /\ record[p][r] \in {NoAsk, ask}
  /\ record' = [record EXCEPT ![p][r] = ask]

Begins(c, r, ask) ==
  /\ ShellAt(c, "rest") /\ Event
  /\ shell' = [shell EXCEPT ![c] = [at |-> "call", rid |-> r, ask |-> ask]]
  /\ UNCHANGED <<refused, told, peer, server, acted>>

PeerTaskAdd(c, r, t, text) ==
  /\ RecordDelegation(Home[c], r, [on |-> t, text |-> text])
  /\ Begins(c, r, [on |-> t, text |-> text])

\* The texts of goals and answers do not matter.
PeerGoal(c, r) ==
  /\ RecordDelegation(Home[c], r, [on |-> Goal, text |-> None])
  /\ Begins(c, r, [on |-> Goal, text |-> None])

\* An answer leaves no record.
PeerAnswer(c, r, e) ==
  /\ Begins(c, r, [on |-> e, text |-> None])
  /\ UNCHANGED record

\* ssh reaches the peer, which starts a server for the call.
Call(c, s) ==
  /\ ShellAt(c, "call") /\ server[s] = Free
  /\ server' = [server EXCEPT ![s] =
                  [Free EXCEPT !.at = "begin", !.for = c, !.key = Home[c],
                               !.rid = shell[c].rid, !.ask = shell[c].ask]]
  /\ ShellDoes(c, "wait")
  /\ UNCHANGED <<record, refused, told, peer, acted, events>>

Orphaned(c) == [s \in Server |-> IF server[s].for = c THEN [server[s] EXCEPT !.for = None]
                                                      ELSE server[s]]

\* Mutant: whatever went wrong, the record goes.
GivesUpForgetting(c) ==
  /\ shell[c].at \in {"call", "wait", "refused"}
  /\ shell' = [shell EXCEPT ![c] = Resting]
  /\ record' = [record EXCEPT ![Home[c]][shell[c].rid] = NoAsk]
  /\ server' = Orphaned(c)
  /\ UNCHANGED <<refused, told, peer, acted, events>>

\* A timeout, a transport error or a kill: nothing is known, the record stays.
GivesUp(c) ==
  /\ shell[c].at \in {"call", "wait", "refused"}
  /\ shell' = [shell EXCEPT ![c] = Resting]
  /\ server' = Orphaned(c)
  /\ UNCHANGED <<record, refused, told, peer, acted, events>>

\* Only a refusal drops the record.
ForgetDelegation(c) ==
  /\ ShellAt(c, "refused")
  /\ record' = IF Delegated(shell[c].ask)
               THEN [record EXCEPT ![Home[c]][shell[c].rid] = NoAsk] ELSE record
  /\ shell' = [shell EXCEPT ![c] = Resting]
  /\ UNCHANGED <<refused, told, peer, server, acted, events>>

--------------------------------------------------------------------------------
(* The peer.                                                               *)

ServerAt(s, pc)   == server[s].at = pc
ServerDoes(s, pc) == server' = [server EXCEPT ![s].at = pc]
Answers(s, pc, result) == server' = [server EXCEPT ![s].at = pc, ![s].result = result]

\* Read before the transaction that acts, and not again in it.
CheckParent(s, pc) == ServerDoes(s, IF server[s].key = master THEN pc ELSE "refuse")

Begun(s, ons) ==
  /\ ServerAt(s, "begin") /\ server[s].ask.on \in ons
  /\ UNCHANGED <<parents, peer, acted, events>>

ServeTaskAdd(s) == Begun(s, Task) /\ CheckParent(s, "look")
ServeGoal(s)    == Begun(s, {Goal}) /\ CheckParent(s, "act")
ServeAnswer(s)  == Begun(s, Escalation) /\ CheckParent(s, "act")

\* A repeat is answered before the lint, which takes time and the network.
StoredTaskAdd(s) ==
  LET done == ledger[server[s].rid] IN
  /\ ServerAt(s, "look")
  /\ IF done = NoAsk THEN ServerDoes(s, "lint")
     ELSE Answers(s, IF SameRequest(done, server[s].ask) THEN "reply" ELSE "refuse", done)
  /\ UNCHANGED <<parents, peer, acted, events>>

\* Everything that is checked of a task before its transaction; it may refuse.
AddBacklogTask(s) ==
  /\ ServerAt(s, "lint")
  /\ \E verdict \in {"act", "refuse"} : ServerDoes(s, verdict)
  /\ UNCHANGED <<parents, peer, acted, events>>

Taken(ask) ==
  \/ ask.on \in Task /\ task[ask.on].exists
  \/ ask.on \in Escalation /\ ask.on \notin open

\* Mutant: only the look before the lint asks the ledger for a task.
StoredFor(s) == IF server[s].ask.on \in Task THEN NoAsk ELSE ledger[server[s].rid]

\* What the ledger says, in the transaction that acts.
StoredRequest(s) == ledger[server[s].rid]

\* AddTask, RecordGoal and AnswerEscalation: one transaction each.
Replays(s) ==
  /\ ServerAt(s, "act") /\ StoredRequest(s) # NoAsk
  /\ Answers(s, IF SameRequest(StoredRequest(s), server[s].ask) THEN "reply" ELSE "refuse", StoredRequest(s))
  /\ UNCHANGED <<parents, peer, acted, events>>

Conflicts(s) ==
  /\ ServerAt(s, "act") /\ StoredRequest(s) = NoAsk /\ Taken(server[s].ask)
  /\ ServerDoes(s, "refuse")
  /\ UNCHANGED <<parents, peer, acted, events>>

Acts(s) ==
  LET l == server[s]  ask == l.ask IN
  /\ ServerAt(s, "act") /\ StoredRequest(s) = NoAsk /\ ~Taken(ask)
  /\ ledger' = [ledger EXCEPT ![l.rid] = ask]
  /\ IF ask.on \in Task
     THEN /\ task' = [task EXCEPT ![ask.on] = [exists |-> TRUE, brief |-> ask.text]]
          /\ brief' = [brief EXCEPT ![ask.on] = ask.text]
     ELSE UNCHANGED <<task, brief>>
  /\ open' = open \ {ask.on}
  /\ acted' = [acted EXCEPT ![l.rid] = [times |-> @.times + 1, for |-> l.key]]
  /\ Answers(s, "reply", ask)
  /\ UNCHANGED <<parents, master, events>>

\* Mutant: the brief is written first, whoever has the task.
WritesBriefFirst(s) ==
  LET ask == server[s].ask IN
  /\ ServerAt(s, "act") /\ StoredRequest(s) = NoAsk /\ Event
  /\ brief' = IF ask.on \in Task THEN [brief EXCEPT ![ask.on] = ask.text] ELSE brief
  /\ ServerDoes(s, "refuse")
  /\ UNCHANGED <<parents, master, ledger, task, open, acted>>

\* The transaction is rolled back; a brief it has written stays.
CommitFails(s) ==
  LET ask == server[s].ask IN
  /\ ServerAt(s, "act") /\ StoredRequest(s) = NoAsk /\ ~Taken(ask) /\ Event
  /\ brief' = IF ask.on \in Task THEN [brief EXCEPT ![ask.on] = ask.text] ELSE brief
  /\ ServerDoes(s, "refuse")
  /\ UNCHANGED <<parents, master, ledger, task, open, acted>>

\* The response, if the command still waits for it.
Reply(s) ==
  LET l == server[s]  c == l.for IN
  /\ l.at \in {"reply", "refuse"}
  /\ server' = [server EXCEPT ![s] = Free]
  /\ CASE c = None -> UNCHANGED <<shell, refused, told>>
       [] c # None /\ l.at = "reply" ->
            /\ shell' = [shell EXCEPT ![c] = Resting]
            /\ told' = told \cup {[rid |-> l.rid, on |-> l.ask.on, result |-> l.result]}
            /\ UNCHANGED refused
       [] c # None /\ l.at = "refuse" ->
            /\ ShellDoes(c, "refused")
            /\ refused' = [refused EXCEPT ![Home[c]] = @ \cup {l.rid}]
            /\ UNCHANGED told
  /\ UNCHANGED <<record, peer, acted, events>>

ServerDies(s) ==
  /\ server[s] # Free /\ Event
  /\ server' = [server EXCEPT ![s] = Free]
  /\ UNCHANGED <<parents, peer, acted>>

\* `ttorch task add' at the peer itself, with a brief or without.
AddLocally(t, text) ==
  /\ ~task[t].exists /\ Event
  /\ task' = [task EXCEPT ![t] = [exists |-> TRUE, brief |-> text]]
  /\ brief' = IF text = None THEN brief ELSE [brief EXCEPT ![t] = text]
  /\ UNCHANGED <<parents, master, ledger, open, server, acted>>

\* `ttorch peer adopt --force' by another parent.
Adopt(p) ==
  /\ master # p /\ Event
  /\ master' = p
  /\ UNCHANGED <<parents, ledger, task, brief, open, server, acted>>

--------------------------------------------------------------------------------
Serve(s) ==
  \/ ServeTaskAdd(s) \/ ServeGoal(s) \/ ServeAnswer(s) \/ StoredTaskAdd(s)
  \/ AddBacklogTask(s)
  \/ Replays(s) \/ Conflicts(s) \/ Acts(s) \/ CommitFails(s)
  \/ Reply(s) \/ ServerDies(s)

Next ==
  \/ \E c \in Shell, r \in Rid :
       \/ \E t \in Task, text \in Text : PeerTaskAdd(c, r, t, text)
       \/ PeerGoal(c, r)
       \/ \E e \in Escalation : PeerAnswer(c, r, e)
  \/ \E c \in Shell, s \in Server : Call(c, s)
  \/ \E c \in Shell : GivesUp(c) \/ ForgetDelegation(c)
  \/ \E s \in Server : Serve(s)
  \/ \E t \in Task, text \in Text \cup {None} : AddLocally(t, text)
  \/ \E p \in Parent : Adopt(p)

Spec == Init /\ [][Next]_vars

--------------------------------------------------------------------------------
(* Properties.                                                             *)

\* However often a request is sent, retried, raced by its own retry or abandoned, the
\* peer acts on it once, and whoever is told of a result is told of that act, and of
\* one on the task, goal or escalation it asked about (db/peerrequest.go: "a retry
\* after a timeout, whose first attempt did succeed, can then never add a second task,
\* append a second goal or record a second answer").
ActedOnce ==
  /\ \A r \in Rid : acted[r].times <= 1
  /\ \A x \in told : ledger[x.rid] = x.result /\ acted[x.rid].times = 1 /\ x.result.on = x.on

\* A task that was added with a brief has that brief on disk, whichever adds failed,
\* lost to it or were rolled back (db/peerrequest.go, TaskAdd: "a task never exists
\* without the brief it was added with").
BriefKept ==
  \A t \in Task : task[t].brief # None => brief[t] = task[t].brief

\* A parent knows of everything the peer did for it, or may still do, also after its
\* command was killed or gave up, until the peer refuses a repeat of it (db/peer.go,
\* RecordDelegation: "a parent that stops mid-call still knows what it may have asked
\* for").  A refused repeat of a request that was acted on takes the record away.
OnRecord ==
  \A p \in Parent, r \in Rid : r \notin refused[p] =>
    /\ acted[r].for = p /\ Delegated(ledger[r]) => record[p][r] = ledger[r]
    /\ \A s \in Server : server[s].key = p /\ server[s].rid = r /\ Delegated(server[s].ask)
                           => record[p][r] = server[s].ask
================================================================================
