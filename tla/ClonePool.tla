-------------------------------- MODULE ClonePool --------------------------------
(***************************************************************************)
(* The pool of private clones: Acquire and its lock, the recycling of an   *)
(* idle slot, the pin of a clone's base, provisioning, and the teardown    *)
(* that deletes a clone.                                                   *)
(*                                                                         *)
(* A clone borrows from the project every commit that was not made in it,  *)
(* and git gc drops what no ref of the project reaches.  A worker acts in  *)
(* any clone that was finished, also when the row of its task is lost.     *)
(***************************************************************************)
EXTENDS CloneFiles, FiniteSetsExt

CONSTANTS
  Task,
  Spawner,     \* processes that spawn workers
  PoolMax,     \* the cap of the pool
  MaxSlot,     \* bound on the number of a slot
  MaxActs      \* bound on what workers, the lead, origin and kills do

VARIABLES
  main,     \* the project: its default branch, origin's as fetched, its commits
  remote,   \* the default branch of origin itself
  pin,      \* refs/ttorch/clones/<task>/base
  slot,     \* the directory of each slot
  row,      \* the slot the row of each live task names, 0 for none
  lock,     \* whether the pool's lock directory exists
  spawn,    \* what each spawner is doing
  eye,      \* each spawner's reading of a slot's HEAD
  tear,     \* the teardown under way, None for none
  made,     \* changes made so far
  acts      \* how many of MaxActs have happened

repos == <<main, remote, pin, made>>
pool  == <<slot, eye, row, lock>>
vars  == <<repos, pool, spawn, tear, acts>>

Place  == 1..MaxSlot
NoDir == [files |-> Files, task |-> None, base |-> None]
Idle  == [at |-> "rest", task |-> None, busy |-> {}, listed |-> {}, slot |-> 0,
          base |-> None]

Init ==
  /\ main = [def |-> {}, fetched |-> {}, objs |-> {{}}]
  /\ remote = {} /\ made = 0 /\ pin = [t \in Task |-> None]
  /\ slot = [k \in Place |-> NoDir] /\ row = [t \in Task |-> 0] /\ lock = FALSE
  /\ spawn = [p \in Spawner |-> Idle] /\ eye = [p \in Spawner |-> Shut]
  /\ tear = None /\ acts = 0

Act == acts < MaxActs /\ acts' = acts + 1

\* Slot k becomes s, under the eyes of whoever is reading it.
Seen(k, s) == [p \in Spawner |-> IF spawn[p].slot = k THEN Watched(eye[p], s.files) ELSE eye[p]]
Becomes(k, s) == slot' = [slot EXCEPT ![k] = s] /\ eye' = Seen(k, s)

\* What the safe bases reach.
Landed(c) == c \subseteq main.def \/ c \subseteq main.fetched

--------------------------------------------------------------------------------
(* Acquire.                                                                *)

At(p, pc)  == spawn[p].at = pc
Goes(p, pc) == spawn' = [spawn EXCEPT ![p].at = pc]
Quits(p)   == spawn' = [spawn EXCEPT ![p] = Idle]

\* The slots in use, from the rows of the live tasks; then fifty tries at the lock
\* directory, 100 ms apart.
Locks(p, t) ==
  /\ At(p, "rest") /\ row[t] = 0 /\ ~ lock
  /\ lock' = TRUE
  /\ spawn' = [spawn EXCEPT ![p] = [Idle EXCEPT !.at = "source", !.task = t,
                                     !.busy = {row[u] : u \in Task} \ {0}]]
  /\ UNCHANGED <<repos, slot, eye, row, tear, acts>>

\* The numbered directories, and the number after the highest.
Listed    == {k \in Place : slot[k].files.dir # "none"}
NextIndex(listed) == IF listed = {} THEN 1 ELSE Max(listed) + 1

Fetched == [main EXCEPT !.fetched = remote, !.objs = @ \cup History(remote, made)]

Unlocks(p) == lock' = FALSE /\ Quits(p)

\* resolveSource, where a failed fetch only warns, and refuseUnsupported.
Resolves(p) ==
  /\ At(p, "source")
  /\ main' \in {main, Fetched}
  /\ \/ /\ spawn' = [spawn EXCEPT ![p].at = "scan", ![p].base = main'.fetched,
                       ![p].listed = Listed]
        /\ UNCHANGED lock
     \/ Unlocks(p)
  /\ UNCHANGED <<remote, pin, made, slot, eye, row, tear, acts>>

\* The next idle slot of the list; without .git it holds no commit.
Considers(p) ==
  LET left == {k \in spawn[p].listed \ spawn[p].busy : k > spawn[p].slot} IN
  /\ At(p, "scan") /\ left # {}
  /\ LET k == Min(left) IN
     IF HasGit(slot[k].files)
     THEN /\ spawn' = [spawn EXCEPT ![p].at = "look", ![p].slot = k]
          /\ eye' = [eye EXCEPT ![p] = Opened(slot[k].files)]
     ELSE /\ spawn' = [spawn EXCEPT ![p].at = "remove", ![p].slot = k]
          /\ UNCHANGED eye
  /\ UNCHANGED <<repos, slot, row, lock, tear, acts>>

Reads(p) ==
  /\ At(p, "look") /\ Watching(eye[p])
  /\ \E e \in {Looks(eye[p], slot[spawn[p].slot].files), Refused(eye[p])} :
       eye' = [eye EXCEPT ![p] = e]
  /\ UNCHANGED <<repos, slot, row, lock, spawn, tear, acts>>

\* recyclable: a tip that the project has and reaches from a safe base.
Judges(p) ==
  LET tip == eye[p].tip IN
  /\ At(p, "look") /\ eye[p].at = "done"
  /\ Goes(p, IF tip # None /\ tip \in main.objs /\ Landed(tip) THEN "remove" ELSE "scan")
  /\ eye' = [eye EXCEPT ![p] = Shut]
  /\ UNCHANGED <<repos, slot, row, lock, tear, acts>>

\* What a removal that stopped leaves: with .git, or without.
Partial == {[NoDir EXCEPT !.files.dir = d] : d \in {"init", "bare"}}

\* RemoveAll, which can fail.
Removes(p) ==
  LET k == spawn[p].slot IN
  /\ At(p, "remove")
  /\ \/ Becomes(k, NoDir) /\ Goes(p, "pin") /\ UNCHANGED acts
     \/ /\ Act /\ Goes(p, "scan")
        /\ \E s \in Partial : Becomes(k, s)
  /\ UNCHANGED <<repos, row, lock, tear>>

\* No slot to reuse: the next number, when the pool has room.
Extends(p) ==
  LET s == spawn[p]  new == NextIndex(s.listed) IN
  /\ At(p, "scan") /\ {k \in s.listed \ s.busy : k > s.slot} = {}
  /\ IF Cardinality(s.listed) >= PoolMax \/ Cardinality(s.busy) >= PoolMax
     THEN Unlocks(p)
     ELSE /\ new <= MaxSlot
          /\ spawn' = [spawn EXCEPT ![p].at = "pin", ![p].slot = new] /\ UNCHANGED lock
  /\ UNCHANGED <<repos, slot, eye, row, tear, acts>>

\* Mutant: the base is left to the default branch to hold.
PinsNothing(p) ==
  /\ At(p, "pin") /\ Goes(p, "init")
  /\ UNCHANGED <<repos, pool, tear, acts>>

\* update-ref of the base, refused when the project has lost it.
Pins(p) ==
  LET s == spawn[p] IN
  /\ At(p, "pin")
  /\ IF s.base \in main.objs
     THEN pin' = [pin EXCEPT ![s.task] = s.base] /\ Goes(p, "init") /\ UNCHANGED lock
     ELSE Unlocks(p) /\ UNCHANGED pin
  /\ UNCHANGED <<main, remote, made, slot, eye, row, tear, acts>>

\* HEAD on a default branch that does not exist; origin's url, the copied config.
Born == [Files EXCEPT !.dir = "init"]

\* git init with no template, the alternates file, origin's refs at the base.
InitsRepo(p) ==
  LET k == spawn[p].slot IN
  /\ At(p, "init") /\ Goes(p, "checkout")
  /\ spawn[p].base \in main.objs
  /\ Becomes(k, [files |-> Born, task |-> spawn[p].task, base |-> spawn[p].base])
  /\ UNCHANGED <<repos, row, lock, tear, acts>>

\* With the hooks, and the tags in a packed-refs of their own.
Seeded(base) == [dir |-> "repo", head |-> "task", packed |-> Unset,
                 loose |-> [Unset EXCEPT !["task"] = base]]

\* The task's branch at the base, checked out without hooks.
ChecksOut(p) ==
  LET k == spawn[p].slot IN
  /\ At(p, "checkout") /\ Goes(p, "save") /\ lock' = FALSE
  /\ HasGit(slot[k].files) /\ spawn[p].base \in main.objs
  /\ Becomes(k, [slot[k] EXCEPT !.files = Seeded(spawn[p].base)])
  /\ UNCHANGED <<repos, row, tear, acts>>

\* A step of provisioning failed.
Undoes(p) ==
  /\ At(p, "init") \/ At(p, "checkout")
  /\ Unlocks(p)
  /\ Becomes(spawn[p].slot, NoDir)
  /\ pin' = [pin EXCEPT ![spawn[p].task] = None]
  /\ UNCHANGED <<main, remote, made, row, tear, acts>>

\* The spawn goes on and records the slot, or fails and hands it back.
Saves(p) ==
  LET s == spawn[p] IN
  /\ At(p, "save") /\ Quits(p)
  /\ \/ row' = [row EXCEPT ![s.task] = s.slot] /\ UNCHANGED <<slot, eye, acts>>
     \/ Act /\ Becomes(s.slot, NoDir) /\ UNCHANGED row
  /\ UNCHANGED <<repos, lock, tear>>

\* Killed; the lock directory stays, and a half-removed slot.
Dies(p) ==
  LET k == spawn[p].slot IN
  /\ ~ At(p, "rest") /\ Act /\ Quits(p)
  /\ \/ UNCHANGED slot /\ eye' = [eye EXCEPT ![p] = Shut]
     \/ /\ At(p, "remove")
        /\ \E s \in Partial : /\ slot' = [slot EXCEPT ![k] = s]
                              /\ eye' = [Seen(k, s) EXCEPT ![p] = Shut]
  /\ UNCHANGED <<repos, row, lock, tear>>


--------------------------------------------------------------------------------
(* Teardown: one at a time, by the lead.  The clone's branch is no ref of   *)
(* the project, so nothing of it is asked for.                             *)

Tears(t) ==
  /\ tear = None /\ row[t] # 0 /\ tear' = t
  /\ \/ Becomes(row[t], NoDir) /\ UNCHANGED acts
     \/ Act /\ UNCHANGED <<slot, eye>>
  /\ UNCHANGED <<repos, row, lock, spawn>>

\* The row's worktree goes blank, unless the store refuses or the lead is killed.
Blanks ==
  /\ tear # None /\ tear' = None
  /\ \/ row' = [row EXCEPT ![tear] = 0] /\ UNCHANGED acts
     \/ Act /\ UNCHANGED row
  /\ UNCHANGED <<repos, slot, eye, lock, spawn>>

--------------------------------------------------------------------------------
(* Workers, origin and the lead's own git.                                 *)

Works(k) ==
  /\ slot[k].files.dir = "repo"
  /\ \A p \in Spawner : ~ (At(p, "save") /\ spawn[p].slot = k)

Worker(k, f) ==
  /\ Becomes(k, [slot[k] EXCEPT !.files = f])
  /\ UNCHANGED <<main, remote, pin, row, lock, spawn, tear>>

Commits(k) ==
  LET f == slot[k].files IN
  /\ Works(k) /\ Act /\ made' = made + 1
  /\ Worker(k, Committed(f, HeadOf(f) \cup {made + 1}))

Moves(k) ==
  LET f == slot[k].files IN
  /\ Works(k) /\ Act /\ UNCHANGED made
  /\ Worker(k, Switched(f, slot[k].base)) \/ Worker(k, Packed(f))

Prunes(k) ==
  LET f == slot[k].files IN
  /\ Works(k) /\ UNCHANGED <<made, acts>>
  /\ \E b \in Branch : Pruned(f, b) # f /\ Worker(k, Pruned(f, b))

\* Somebody else pushes, onto what is there or over it.
Pushed ==
  /\ Act /\ made' = made + 1
  /\ remote' \in {remote \cup {made + 1}, {made + 1}}
  /\ UNCHANGED <<main, pin, pool, spawn, tear>>

Fetches ==
  /\ Act /\ main' \in {Fetched, [Fetched EXCEPT !.def = remote]}
  /\ UNCHANGED <<remote, pin, made, pool, spawn, tear>>

\* A worker's head lands on the default branch.
Lands(k) ==
  LET c == HeadOf(slot[k].files) IN
  /\ Works(k) /\ Act /\ main.def \subseteq c /\ c # main.def
  /\ main' = [main EXCEPT !.def = c, !.objs = @ \cup History(c, made)]
  /\ UNCHANGED <<remote, pin, made, pool, spawn, tear>>

\* git gc in the project, past every grace period.
GC ==
  /\ Act
  /\ LET roots == ({main.def, main.fetched} \cup {pin[t] : t \in Task}) \ {None} IN
     main' = [main EXCEPT !.objs = {c \in @ : \E r \in roots : c \subseteq r}]
  /\ UNCHANGED <<remote, pin, made, pool, spawn, tear>>

Next ==
  \/ \E p \in Spawner :
       \/ \E t \in Task : Locks(p, t)
       \/ Resolves(p) \/ Considers(p) \/ Reads(p) \/ Judges(p) \/ Removes(p) \/ Extends(p)
       \/ Pins(p) \/ InitsRepo(p) \/ ChecksOut(p) \/ Undoes(p) \/ Saves(p) \/ Dies(p)
  \/ \E t \in Task : Tears(t)
  \/ Blanks
  \/ \E k \in Place : Commits(k) \/ Moves(k) \/ Prunes(k) \/ Lands(k)
  \/ Pushed \/ Fetches \/ GC

Spec == Init /\ [][Next]_vars

--------------------------------------------------------------------------------

\* A clone in use can read the commit it was cut from, whatever origin rewrites and
\* the project's gc drops: clonepool/provision.go:162-165.
BaseKept ==
  \A k \in Place :
    LET t == slot[k].task IN
    slot[k].files.dir = "repo" /\ (row[t] = k \/ \E p \in Spawner : At(p, "save") /\ spawn[p].slot = k)
      => slot[k].base \in main.objs

\* The pool condemns a slot only when no live row names it and, unless it has no
\* .git, a commit the project's branches reach was its HEAD while the pool read
\* it: clonepool.go:95-101.
CondemnedSoundly ==
  [][\A p \in Spawner :
       ~ At(p, "remove") /\ spawn'[p].at = "remove" =>
         LET k == spawn'[p].slot IN
         /\ \A t \in Task : row[t] # k
         /\ HasGit(slot[k].files) => \E c \in eye[p].seen \ {None} : Landed(c)]_vars

================================================================================
