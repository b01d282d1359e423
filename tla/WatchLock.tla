----------------------------- MODULE WatchLock -----------------------------
(***************************************************************************)
(* The watch singleton of internal/watch/flock.go: an advisory lock on a   *)
(* file that every holder unlinks when it leaves.  The lock belongs to an  *)
(* inode and not to the path, so a process may lock a file that is no      *)
(* longer there; and the pid and token written into the file decide who    *)
(* may be signalled.  Processes: runs of `ttorch watch`, armed (and then   *)
(* healing themselves past an orphan holder) or with --reset; and the      *)
(* watch loop of a scheduler, which takes the lock for each sweep.         *)
(*                                                                         *)
(* Every system call is a step.  Processes are used once (a pid is not     *)
(* given to a second watcher), but the pid of one that is gone may come    *)
(* to belong to a stranger.  A signal is a request to end: a watcher traps *)
(* SIGTERM, cancels its loop and releases the lock.                        *)
(***************************************************************************)
EXTENDS Naturals

CONSTANTS
  Watcher, Sweeper,            \* disjoint sets of processes
  Mortal,                      \* bound on kills: those that may be killed
  Inode, NoInode,              \* inodes of the file; nothing at the path
  Nobody, Empty,               \* an unlocked inode; a file without a record
  MaxUnlinkRetries,            \* maxUnlinkRetries
  MaxSessions                  \* bound on restarts of the manager

Proc == Watcher \cup Sweeper

\* Tokens: the manager pane of the n-th session, none, or the sweep's own.
NoToken == 0
Session == 1 .. MaxSessions
SweepToken == MaxSessions + 1
Token == 0 .. MaxSessions + 1

Record == [pid : Proc, token : Token]

ASSUME LockAssumption ==
  /\ NoInode \notin Inode
  /\ Nobody \notin Proc
  /\ Empty \notin Record
  /\ MaxUnlinkRetries \in Nat \ {0}
  /\ MaxSessions \in Nat \ {0}
  /\ Watcher \cap Sweeper = {}

VARIABLES
  path,      \* the inode the pid file's path names
  locker,    \* who holds the advisory lock of an inode
  content,   \* the record in an inode
  fd,        \* the inode a process has open
  pc,
  phase,     \* which deadline retryAcquire runs under
  attempt,   \* files found unlinked so far in this acquireFlock
  token,     \* the token a process took when it started
  seen,      \* the record a watcher has classified as an orphan's
  term,      \* processes with SIGTERM pending
  session    \* the manager session that is alive

vars == <<path, locker, content, fd, pc, phase, attempt, token, seen, term, session>>

Outside  == {"new", "open", "contended", "inspect", "reap", "gone", "stranger"}
Owning   == {"truncate", "write", "held", "unlink"}
Locked   == Owning \cup {"check", "close"}
PC == Outside \cup Locked \cup {"flock"}

TypeOK ==
  /\ path \in Inode \cup {NoInode}
  /\ locker \in [Inode -> Proc \cup {Nobody}]
  /\ content \in [Inode -> Record \cup {Empty}]
  /\ fd \in [Proc -> Inode \cup {NoInode}]
  /\ pc \in [Proc -> PC]
  /\ phase \in [Proc -> {"brief", "reset"}]
  /\ attempt \in [Proc -> 0 .. MaxUnlinkRetries]
  /\ token \in [Proc -> Token]
  /\ seen \in [Proc -> Record \cup {Empty}]
  /\ term \in SUBSET Proc
  /\ session \in Session

Init ==
  /\ path = NoInode
  /\ locker = [i \in Inode |-> Nobody]
  /\ content = [i \in Inode |-> Empty]
  /\ fd = [p \in Proc |-> NoInode]
  /\ pc = [p \in Proc |-> "new"]
  /\ phase = [p \in Proc |-> "brief"]
  /\ attempt = [p \in Proc |-> 0]
  /\ token = [p \in Proc |-> IF p \in Sweeper THEN SweepToken ELSE NoToken]
  /\ seen = [p \in Proc |-> Empty]
  /\ term = {}
  /\ session = 1

-----------------------------------------------------------------------------
(* What a process can see of others *)

\* readWatchRecord: what the path's file says, if anything.
Recorded == IF path = NoInode THEN Empty ELSE content[path]

\* A signal-0 probe answers for strangers as well, and for a scheduler between
\* two sweeps.
procAlive(q) == pc[q] # "gone" /\ (pc[q] = "new" => q \in Sweeper)

\* ps shows `ttorch watch`, armed or resetting, and never the scheduler.
isWatchProcess(q) ==
  /\ q \in Watcher
  /\ pc[q] \notin {"new", "gone", "stranger"}

Goto(p, l) == pc' = [pc EXCEPT ![p] = l]

\* A sweep ends and the loop comes round; any other process exits.
Leave(p) == Goto(p, IF p \in Sweeper THEN "new" ELSE "gone")

\* Closing a descriptor drops the lock it holds.
CloseFile(p) ==
  /\ locker' = [i \in Inode |-> IF locker[i] = p THEN Nobody ELSE locker[i]]
  /\ fd' = [fd EXCEPT ![p] = NoInode]

\* The reap signal, behind the guards of reapHolder: alive, not oneself and
\* still a watch process.
Signal(p, r) ==
  term' = IF r # Empty /\ r.pid # p /\ procAlive(r.pid) /\ isWatchProcess(r.pid)
          THEN term \cup {r.pid} ELSE term

-----------------------------------------------------------------------------
(* Starting *)

\* acquire: the token is read once, before the brief grace.  It is
\* indeterminate when tmux or ps cannot be read.
Arm(p) ==
  /\ p \in Watcher /\ pc[p] = "new"
  /\ \E t \in {session, NoToken} : token' = [token EXCEPT ![p] = t]
  /\ Goto(p, "open")
  /\ UNCHANGED <<path, locker, content, fd, phase, attempt, seen, term, session>>

\* Reset: signals whoever is recorded, whatever the token, then waits for
\* the lock to prove that it is free.
Reset(p) ==
  /\ p \in Watcher /\ pc[p] = "new"
  /\ Signal(p, Recorded)
  /\ phase' = [phase EXCEPT ![p] = "reset"]
  /\ Goto(p, "open")
  /\ UNCHANGED <<path, locker, content, fd, attempt, token, seen, session>>

\* Tick: one acquireFlock, no waiting.
Sweep(p) ==
  /\ p \in Sweeper /\ pc[p] = "new"
  /\ Goto(p, "open")
  /\ UNCHANGED <<path, locker, content, fd, phase, attempt, token, seen, term, session>>

-----------------------------------------------------------------------------
(* acquireFlock *)

\* OpenFile with O_CREATE: the file at the path, or a new one.  The number of
\* an inode that nothing refers to any more is used again.
OpenFile(p) ==
  /\ pc[p] = "open"
  /\ \/ /\ path # NoInode
        /\ fd' = [fd EXCEPT ![p] = path]
        /\ UNCHANGED <<path, content>>
     \/ /\ path = NoInode
        /\ \E i \in Inode :
             /\ \A q \in Proc : fd[q] # i
             /\ path' = i
             /\ content' = [content EXCEPT ![i] = Empty]
             /\ fd' = [fd EXCEPT ![p] = i]
  /\ Goto(p, "flock")
  /\ UNCHANGED <<locker, phase, attempt, token, seen, term, session>>

\* Flock: granted, or contended and the descriptor closed; a sweep then
\* stands by instead of waiting.
Flock(p) ==
  /\ pc[p] = "flock"
  /\ \/ /\ locker[fd[p]] = Nobody
        /\ locker' = [locker EXCEPT ![fd[p]] = p]
        /\ Goto(p, "check")
        /\ UNCHANGED <<fd, attempt>>
     \/ /\ locker[fd[p]] # Nobody
        /\ CloseFile(p)
        /\ attempt' = [attempt EXCEPT ![p] = 0]
        /\ Goto(p, IF p \in Sweeper THEN "new" ELSE "contended")
  /\ UNCHANGED <<path, content, phase, token, seen, term, session>>

\* lockedLiveFile: the locked inode must still be the one at the path.
CheckLive(p) ==
  /\ pc[p] = "check"
  /\ \/ /\ path = fd[p]
        /\ Goto(p, "truncate")
        /\ UNCHANGED <<locker, fd, attempt>>
     \/ /\ path # fd[p]
        /\ CloseFile(p)
        /\ IF attempt[p] + 1 < MaxUnlinkRetries
           THEN attempt' = [attempt EXCEPT ![p] = @ + 1] /\ Goto(p, "open")
           ELSE attempt' = [attempt EXCEPT ![p] = 0] /\ Leave(p)
  /\ UNCHANGED <<path, content, phase, token, seen, term, session>>

Truncate(p) ==
  /\ pc[p] = "truncate"
  /\ content' = [content EXCEPT ![fd[p]] = Empty]
  /\ Goto(p, "write")
  /\ UNCHANGED <<path, locker, fd, phase, attempt, token, seen, term, session>>

WriteRecord(p) ==
  /\ pc[p] = "write"
  /\ content' = [content EXCEPT ![fd[p]] = [pid |-> p, token |-> token[p]]]
  /\ Goto(p, "held")
  /\ UNCHANGED <<path, locker, fd, phase, attempt, token, seen, term, session>>

\* Either write failing closes the file and leaves it, without a record.
RecordFails(p) ==
  /\ pc[p] \in {"truncate", "write"}
  /\ CloseFile(p)
  /\ Leave(p)
  /\ UNCHANGED <<path, content, phase, attempt, token, seen, term, session>>

-----------------------------------------------------------------------------
(* Waiting, and healing past an orphan *)

\* retryAcquire: another acquireFlock after the interval ...
Retry(p) ==
  /\ pc[p] = "contended"
  /\ Goto(p, "open")
  /\ UNCHANGED <<path, locker, content, fd, phase, attempt, token, seen, term, session>>

\* ... until the deadline: a watcher looks at the holder once, and gives up
\* the second time.
Deadline(p) ==
  /\ pc[p] = "contended"
  /\ IF p \in Watcher /\ phase[p] = "brief" THEN Goto(p, "inspect") ELSE Goto(p, "gone")
  /\ UNCHANGED <<path, locker, content, fd, phase, attempt, token, seen, term, session>>

\* A cancelled context ends the wait: whoever ran the watcher interrupts it.
Cancelled(p) ==
  /\ pc[p] = "contended" /\ p \in Watcher
  /\ Goto(p, "gone")
  /\ UNCHANGED <<path, locker, content, fd, phase, attempt, token, seen, term, session>>

holderIsOrphan(p, r) ==
  /\ r # Empty
  /\ r.pid # p
  /\ \/ ~procAlive(r.pid)
     \/ NoToken \notin {r.token, token[p]} /\ r.token # token[p]

\* A refused arm ends; an orphan's record is kept for the reap.
Inspect(p) ==
  /\ pc[p] = "inspect"
  /\ \/ /\ holderIsOrphan(p, Recorded)
        /\ seen' = [seen EXCEPT ![p] = Recorded]
        /\ Goto(p, "reap")
     \/ /\ ~holderIsOrphan(p, Recorded)
        /\ Goto(p, "gone")
        /\ UNCHANGED seen
  /\ UNCHANGED <<path, locker, content, fd, phase, attempt, token, term, session>>

\* Mutant: whoever the file names by now is signalled.
ReapRecorded(p) ==
  /\ pc[p] = "reap"
  /\ Signal(p, Recorded)
  /\ phase' = [phase EXCEPT ![p] = "reset"]
  /\ seen' = [seen EXCEPT ![p] = Empty]
  /\ Goto(p, "open")
  /\ UNCHANGED <<path, locker, content, fd, attempt, token, session>>

\* reapHolderIfMatches: only while the file still says what was classified.
Reap(p) ==
  /\ pc[p] = "reap"
  /\ Signal(p, IF Recorded = seen[p] THEN seen[p] ELSE Empty)
  /\ phase' = [phase EXCEPT ![p] = "reset"]
  /\ seen' = [seen EXCEPT ![p] = Empty]
  /\ Goto(p, "open")
  /\ UNCHANGED <<path, locker, content, fd, attempt, token, session>>

-----------------------------------------------------------------------------
(* releaseFlock *)

\* Mutant: the file is closed first and unlinked then.
CloseThenUnlink(p) ==
  /\ pc[p] = "held"
  /\ CloseFile(p)
  /\ Goto(p, "unlink")
  /\ UNCHANGED <<path, content, phase, attempt, token, seen, term, session>>

\* The holder is done (a reset at once), or its context was cancelled.  The
\* file is removed while it names this process, or names nobody.
Finish(p) ==
  /\ pc[p] = "held"
  /\ IF Recorded = Empty \/ Recorded.pid = p THEN Goto(p, "unlink") ELSE Goto(p, "close")
  /\ UNCHANGED <<path, locker, content, fd, phase, attempt, token, seen, term, session>>

Unlink(p) ==
  /\ pc[p] = "unlink"
  /\ path' = NoInode
  /\ Goto(p, "close")
  /\ UNCHANGED <<locker, content, fd, phase, attempt, token, seen, term, session>>

Close(p) ==
  /\ pc[p] = "close"
  /\ CloseFile(p)
  /\ Leave(p)
  /\ UNCHANGED <<path, content, phase, attempt, token, seen, term, session>>

-----------------------------------------------------------------------------
(* Environment *)

\* A process is killed: the kernel closes its descriptor, the file stays.
Crash(p) ==
  /\ p \in Mortal /\ pc[p] \notin {"new", "gone", "stranger"}
  /\ CloseFile(p)
  /\ Goto(p, "gone")
  /\ UNCHANGED <<path, content, phase, attempt, token, seen, term, session>>

\* The pid of a process that is gone is given to something else.
ReusePid(p) ==
  /\ p \in Mortal /\ pc[p] = "gone"
  /\ Goto(p, "stranger")
  /\ UNCHANGED <<path, locker, content, fd, phase, attempt, token, seen, term, session>>

\* The manager is restarted: another pane, another token.
RestartManager ==
  /\ session < MaxSessions
  /\ session' = session + 1
  /\ UNCHANGED <<path, locker, content, fd, pc, phase, attempt, token, seen, term>>

Next ==
  \/ \E p \in Proc :
       \/ Arm(p) \/ Reset(p) \/ Sweep(p)
       \/ OpenFile(p) \/ Flock(p) \/ CheckLive(p)
       \/ Truncate(p) \/ WriteRecord(p) \/ RecordFails(p)
       \/ Retry(p) \/ Deadline(p) \/ Cancelled(p) \/ Inspect(p) \/ Reap(p)
       \/ Finish(p) \/ Unlink(p) \/ Close(p)
       \/ Crash(p) \/ ReusePid(p)
  \/ RestartManager

Spec == Init /\ [][Next]_vars

-----------------------------------------------------------------------------
(* Properties *)

\* Whoever has passed the liveness check holds the one lock that counts.
Owner(p) == pc[p] \in Owning

\* The file at the path is the holder's own, and what others read in it
\* (standby, reap, watchdog) names the holder: nobody unlinks or rewrites a
\* file that is not its own, in any order of opens, locks and unlinks.
OwnFile ==
  \A p \in Proc :
    /\ Owner(p) => path = fd[p]
    /\ pc[p] \in {"held", "unlink"} => Recorded = [pid |-> p, token |-> token[p]]

\* The lock is a singleton over all inodes: it changes hands only through a
\* release, although the file is unlinked and made again each time.
holder == IF \E p \in Proc : Owner(p) THEN CHOOSE p \in Proc : Owner(p) ELSE Nobody

Lock == INSTANCE Singleton

ImplementsSingleton == Lock!Spec

\* The self-healing arm signals only a running watch process, and never one
\* that serves the same session as itself: neither a successor that took the
\* lock between the classification and the signal, nor a stranger that has
\* the dead holder's pid.
ReapSparesOwn ==
  [][\A p, q \in Proc :
       pc[p] = "reap" /\ pc'[p] # "reap" /\ q \in term' \ term
         => isWatchProcess(q) /\ token[q] # token[p]]_vars

\* What the comment of acquire promises without the reaper's own session in
\* the sentence: the self-heal never signals the watcher of the session that
\* is alive.
NeverReapsLive ==
  [][\A p, q \in Proc :
       pc[p] = "reap" /\ pc'[p] # "reap" /\ q \in term' \ term
         => token[q] # session]_vars
=============================================================================
