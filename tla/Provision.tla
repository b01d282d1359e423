------------------------------- MODULE Provision -------------------------------
(***************************************************************************)
(* How a coordinator becomes the peer of another: `ttorch peer add', `adopt *)
(* --force' and `retire' on the parent, `ttorch peer init' on the peer, and *)
(* the peer's authorized_keys, which people and other programs edit too.   *)
(*                                                                         *)
(* A coordinator runs one such command at a time; the init it started over *)
(* ssh outlives it when it is killed.  A store transaction is one step.    *)
(* Inits take turns at the file by a lock, which an editor knows nothing   *)
(* of; the check before a rewrite and the rename behind it are two calls.  *)
(* The control key of a parent for a peer is a number, new when generated. *)
(***************************************************************************)
EXTENDS Integers, FiniteSets

CONSTANTS
  Coordinator,
  None,
  MaxEvents    \* bound on commands, kills and edits, together

VARIABLES
  parent,   \* the parent a coordinator's row names, None for a root
  peers,    \* the peers table of each: the status of every other
  key,      \* the control key each holds for every other, 0 for none
  made,     \* keys generated so far
  lines,    \* control lines of each authorized_keys
  other,    \* entries of other programs in it
  lock,     \* the init that holds the lock on the directory
  shell,    \* what the command of each is doing
  init,     \* what the init each has started is doing
  entered,  \* history: entries others have put there, but between those two calls
  events    \* how many of MaxEvents have happened

stores == <<parent, peers>>
files  == <<key, made, lines, other, lock>>
vars   == <<stores, files, shell, init, entered, events>>

Status == {"none", "provisioning", "live", "retired"}
InUse  == {"provisioning", "live"}

Resting == [at |-> "rest", peer |-> None, force |-> FALSE]
Ended   == [at |-> "rest", peer |-> None, force |-> FALSE, line |-> <<None, 0>>,
            lines |-> {}, other |-> {}, edit |-> "none"]

Init ==
  /\ parent = [c \in Coordinator |-> None]
  /\ peers = [c \in Coordinator |-> [d \in Coordinator |-> "none"]]
  /\ key = [c \in Coordinator |-> [d \in Coordinator |-> 0]] /\ made = 0
  /\ lines = [c \in Coordinator |-> {}] /\ other = [c \in Coordinator |-> {}]
  /\ lock = [c \in Coordinator |-> None]
  /\ shell = [c \in Coordinator |-> Resting] /\ init = [c \in Coordinator |-> Ended]
  /\ entered = [c \in Coordinator |-> {}]
  /\ events = 0

Event == events < MaxEvents /\ events' = events + 1

--------------------------------------------------------------------------------
(* The parent.                                                             *)

ShellAt(c, pc)   == shell[c].at = pc
ShellDoes(c, pc) == shell' = [shell EXCEPT ![c].at = pc]
ShellEnds(c)     == shell' = [shell EXCEPT ![c] = Resting]

\* The role is read here for the message; RegisterPeer decides.
Add(c, d, force) ==
  /\ c # d /\ ShellAt(c, "rest") /\ Event
  /\ parent[c] = None
  /\ force \/ peers[c][d] # "live"
  /\ shell' = [shell EXCEPT ![c] = [at |-> "key", peer |-> d, force |-> force]]
  /\ UNCHANGED <<stores, files, init, entered>>

ControlKey(c) ==
  LET d == shell[c].peer  new == key[c][d] = 0 IN
  /\ ShellAt(c, "key")
  /\ key' = IF new THEN [key EXCEPT ![c][d] = made + 1] ELSE key
  /\ made' = IF new THEN made + 1 ELSE made
  /\ ShellDoes(c, "register")
  /\ UNCHANGED <<stores, lines, other, lock, init, entered, events>>

\* Mutant: the role that was read when the command began.
RegistersUnchecked(c) ==
  LET d == shell[c].peer IN
  /\ ShellAt(c, "register")
  /\ peers' = [peers EXCEPT ![c][d] = "provisioning"]
  /\ ShellDoes(c, "init")
  /\ UNCHANGED <<parent, files, init, entered, events>>

\* A peer registers no peers.
RegisterPeer(c) ==
  LET d == shell[c].peer
      admitted == parent[c] = None /\ (shell[c].force \/ peers[c][d] # "live")
  IN
  /\ ShellAt(c, "register")
  /\ peers' = IF admitted THEN [peers EXCEPT ![c][d] = "provisioning"] ELSE peers
  /\ IF admitted THEN ShellDoes(c, "init") ELSE ShellEnds(c)
  /\ UNCHANGED <<parent, files, init, entered, events>>

RunInit(c) ==
  LET d == shell[c].peer IN
  /\ ShellAt(c, "init") /\ init[c] = Ended
  /\ init' = [init EXCEPT ![c] = [Ended EXCEPT !.at = "row", !.peer = d,
                                    !.force = shell[c].force, !.line = <<c, key[c][d]>>]]
  /\ ShellDoes(c, "wait")
  /\ UNCHANGED <<stores, files, entered, events>>

\* A call over the new key alone: it must be admitted, bound to this parent, and
\* reach a store that names it.
CheckVersion(c) ==
  LET d == shell[c].peer IN
  /\ ShellAt(c, "version")
  /\ IF <<c, key[c][d]>> \in lines[d] /\ parent[d] = c THEN ShellDoes(c, "mark") ELSE ShellEnds(c)
  /\ UNCHANGED <<stores, files, init, entered, events>>

MarkPeerLive(c) ==
  LET d == shell[c].peer IN
  /\ ShellAt(c, "mark")
  /\ peers' = IF peers[c][d] = "retired" THEN peers ELSE [peers EXCEPT ![c][d] = "live"]
  /\ ShellEnds(c)
  /\ UNCHANGED <<parent, files, init, entered, events>>

\* The row first, then the key.
RetirePeer(c, d) ==
  /\ ShellAt(c, "rest") /\ peers[c][d] # "none" /\ Event
  /\ peers' = [peers EXCEPT ![c][d] = "retired"]
  /\ shell' = [shell EXCEPT ![c] = [Resting EXCEPT !.at = "delete", !.peer = d]]
  /\ UNCHANGED <<parent, files, init, entered>>

DeleteKey(c) ==
  /\ ShellAt(c, "delete")
  /\ key' = [key EXCEPT ![c][shell[c].peer] = 0]
  /\ ShellEnds(c)
  /\ UNCHANGED <<stores, made, lines, other, lock, init, entered, events>>

KillShell(c) ==
  /\ ~ShellAt(c, "rest") /\ Event
  /\ ShellEnds(c)
  /\ UNCHANGED <<stores, files, init, entered>>

--------------------------------------------------------------------------------
(* Init, on the peer.                                                      *)

InitAt(c, pc)   == init[c].at = pc
InitDoes(c, pc) == init' = [init EXCEPT ![c].at = pc]

\* The command that started it has its result, unless it is gone.
Returns(c, pc) ==
  /\ init' = [init EXCEPT ![c] = Ended]
  /\ IF ShellAt(c, "wait") THEN IF pc = "rest" THEN ShellEnds(c) ELSE ShellDoes(c, pc)
                           ELSE UNCHANGED shell

\* Another parent is refused unless forced, a coordinator with peers always.
Provisionable(c, d, force) ==
  /\ parent[d] \in {None, c} \/ force
  /\ \A e \in Coordinator : peers[d][e] \notin InUse

ProvisionAsPeer(c) ==
  LET d == init[c].peer IN
  /\ InitAt(c, "row")
  /\ IF Provisionable(c, d, init[c].force)
     THEN parent' = [parent EXCEPT ![d] = c] /\ InitDoes(c, "lock") /\ UNCHANGED shell
     ELSE UNCHANGED parent /\ Returns(c, "rest")
  /\ UNCHANGED <<peers, files, entered, events>>

\* It waits for the lock, and not for ever.
LockDir(c) ==
  LET d == init[c].peer IN
  /\ InitAt(c, "lock")
  /\ IF lock[d] = None THEN lock' = [lock EXCEPT ![d] = c] /\ InitDoes(c, "read") /\ UNCHANGED shell
                       ELSE UNCHANGED lock /\ Returns(c, "rest")
  /\ UNCHANGED <<stores, key, made, lines, other, entered, events>>

ReadKeys(c) ==
  LET d == init[c].peer IN
  /\ InitAt(c, "read")
  /\ init' = [init EXCEPT ![c] = [@ EXCEPT !.at = "write", !.lines = lines[d],
                                           !.other = other[d], !.edit = "none"]]
  /\ UNCHANGED <<stores, files, shell, entered, events>>

\* The file, or another line for the same key, may be refused.
RefuseKeys(c) ==
  /\ InitAt(c, "read")
  /\ Returns(c, "rest")
  /\ lock' = [lock EXCEPT ![init[c].peer] = None]
  /\ UNCHANGED <<stores, key, made, lines, other, entered, events>>

\* With force, every other control line goes.
Removed(i) == IF i.force THEN i.lines \ {i.line} ELSE {}

Unlocks(c) == lock' = [lock EXCEPT ![init[c].peer] = None]

\* Mutant: what was read goes over whatever is there now.
Unedited(i) == TRUE

\* Same file, size and modification time as were read.
Unchanged(i) == i.edit = "none"

\* The new file is written, and the old one is checked, or the install refused.
CheckKeys(c) ==
  LET i == init[c] IN
  /\ InitAt(c, "write") /\ Removed(i) # {}
  /\ IF Unchanged(i) THEN InitDoes(c, "rename") /\ UNCHANGED <<lock, shell>>
                     ELSE Returns(c, "rest") /\ Unlocks(c)
  /\ UNCHANGED <<stores, key, made, lines, other, entered, events>>

\* The new file is renamed over whatever is there by then.
ReplaceKeys(c) ==
  LET i == init[c]  d == i.peer IN
  /\ InitAt(c, "rename")
  /\ lines' = [lines EXCEPT ![d] = {i.line}]
  /\ other' = [other EXCEPT ![d] = i.other]
  /\ Returns(c, "version") /\ Unlocks(c)
  /\ UNCHANGED <<stores, key, made, entered, events>>

\* A line is appended to the file that was opened, which may no longer be the one there.
AppendKey(c) ==
  LET i == init[c]  d == i.peer IN
  /\ InitAt(c, "write") /\ Removed(i) = {}
  /\ lines' = IF i.line \in i.lines \/ i.edit = "replaced" THEN lines
              ELSE [lines EXCEPT ![d] = @ \cup {i.line}]
  /\ Returns(c, "version")
  /\ Unlocks(c)
  /\ UNCHANGED <<stores, key, made, other, entered, events>>

KillInit(c) ==
  /\ init[c] # Ended /\ Event
  /\ init' = [init EXCEPT ![c] = Ended]
  /\ lock' = [d \in Coordinator |-> IF lock[d] = c THEN None ELSE lock[d]]
  /\ IF ShellAt(c, "wait") THEN ShellEnds(c) ELSE UNCHANGED shell
  /\ UNCHANGED <<stores, key, made, lines, other, entered>>

\* Between the check of an init and its rename.
Exposed(d) == \E c \in Coordinator : init[c].peer = d /\ InitAt(c, "rename")

\* Another program writes the file, in place or by a rename of its own, and may drop
\* control lines as it does.
Edit(d, how, dropped) ==
  /\ Event
  /\ other' = [other EXCEPT ![d] = @ \cup {events}]
  /\ entered' = IF Exposed(d) THEN entered ELSE [entered EXCEPT ![d] = @ \cup {events}]
  /\ lines' = [lines EXCEPT ![d] = @ \ dropped]
  /\ init' = [c \in Coordinator |->
                IF init[c].peer = d /\ init[c].edit # "replaced"
                THEN [init[c] EXCEPT !.edit = how] ELSE init[c]]
  /\ UNCHANGED <<stores, key, made, lock, shell>>

--------------------------------------------------------------------------------
Parental(c) ==
  \/ ControlKey(c) \/ RegisterPeer(c) \/ RunInit(c) \/ CheckVersion(c) \/ MarkPeerLive(c)
  \/ DeleteKey(c) \/ KillShell(c)

Initial(c) ==
  \/ ProvisionAsPeer(c) \/ LockDir(c) \/ ReadKeys(c) \/ RefuseKeys(c)
  \/ CheckKeys(c) \/ ReplaceKeys(c) \/ AppendKey(c) \/ KillInit(c)

Next ==
  \/ \E c, d \in Coordinator, force \in BOOLEAN : Add(c, d, force)
  \/ \E c, d \in Coordinator : RetirePeer(c, d)
  \/ \E c \in Coordinator : Parental(c) \/ Initial(c)
  \/ \E d \in Coordinator, how \in {"written", "replaced"} :
       \E dropped \in {{}, lines[d]} : Edit(d, how, dropped)

Spec == Init /\ [][Next]_vars

--------------------------------------------------------------------------------
(* Properties.                                                             *)

\* No chains: a coordinator that is a peer has no peer of its own in use, however
\* commands that would make it one or the other race (db/coordinator.go: "Either
\* would put a peer below a peer").
DepthOne ==
  \A c, d \in Coordinator : parent[c] # None => peers[c][d] \notin InUse

\* What other programs put in authorized_keys stays there, whatever installs, forced
\* installs, kills and edits come together, unless it is put there between the check of
\* a forced install and its rename (peer/authkeys.go, installControlKey: "if anything
\* wrote it meanwhile, the new file is discarded and the install refused, so that write
\* is not lost").
OthersKept == \A c \in Coordinator : entered[c] \subseteq other[c]
================================================================================
