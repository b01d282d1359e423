------------------------------- MODULE CloneImport -------------------------------
(***************************************************************************)
(* How a commit gets from a worker's clone to the default branch: head,    *)
(* ImportCommit, the rebase in a scratch worktree and the merge, of one    *)
(* clone at one path, while its worker goes on and the slot may be given   *)
(* to the next task.                                                       *)
(*                                                                         *)
(* Left out: the deletion of a task's refs (DropImports), which nothing    *)
(* calls.  An id that names no commit is an import that brings nothing.    *)
(***************************************************************************)
EXTENDS CloneFiles

CONSTANT MaxActs  \* bound on what the worker, the lead and the land do

VARIABLES
  main,   \* the project: its default branch, its commits, the task's refs in it
  clone,  \* the files, the commits made in it, the commit it was cut from
  eye,    \* the gate's reading of its HEAD
  gate,   \* what the gate is doing: the id it read, the commit it goes on with
  made,   \* changes made so far
  acts    \* how many of MaxActs have happened

vars == <<main, clone, eye, gate, made, acts>>

Free == [at |-> "rest", from |-> None, tip |-> None]

Fresh(base) ==
  [files |-> [dir |-> "repo", head |-> "task", packed |-> Unset,
              loose |-> [Unset EXCEPT !["task"] = base]],
   own |-> {}, base |-> base]

Init ==
  /\ main = [def |-> {}, objs |-> {{}}, imported |-> {}, rebased |-> None]
  /\ clone = Fresh({}) /\ eye = Shut /\ gate = Free /\ made = 0 /\ acts = 0

Act == acts < MaxActs /\ acts' = acts + 1

--------------------------------------------------------------------------------
(* The worker, the next task, and the lead's git.                          *)

Becomes(c) == clone' = c /\ eye' = Watched(eye, c.files)

Commits ==
  LET c == HeadOf(clone.files) \cup {made + 1} IN
  /\ Act /\ made' = made + 1
  /\ Becomes([clone EXCEPT !.files = Committed(@, c), !.own = @ \cup {c}])
  /\ UNCHANGED <<main, gate>>

Moves ==
  /\ Act
  /\ \/ Becomes([clone EXCEPT !.files = Switched(@, clone.base)])
     \/ Becomes([clone EXCEPT !.files = Packed(@)])
  /\ UNCHANGED <<main, gate, made>>

Prunes ==
  /\ \E b \in Branch : /\ Pruned(clone.files, b) # clone.files
                       /\ Becomes([clone EXCEPT !.files = Pruned(@, b)])
  /\ UNCHANGED <<main, gate, made, acts>>

\* Another task's clone at the path.
Replaced ==
  /\ Act /\ Becomes(Fresh(main.def))
  /\ UNCHANGED <<main, gate, made>>

\* Another land moves the default branch.
Moved ==
  /\ Act /\ made' = made + 1
  /\ main' = [main EXCEPT !.def = @ \cup {made + 1}, !.objs = @ \cup {main.def \cup {made + 1}}]
  /\ UNCHANGED <<clone, eye, gate>>

\* git gc in the project, past every grace period.
GC ==
  /\ Act
  /\ LET roots == ({main.def, main.rebased} \cup main.imported) \ {None} IN
     main' = [main EXCEPT !.objs = {c \in @ : \E r \in roots : c \subseteq r}]
  /\ UNCHANGED <<clone, eye, gate, made>>

--------------------------------------------------------------------------------
(* The gate and the land.                                                  *)

Goes(pc)  == gate' = [gate EXCEPT !.at = pc]
Quits     == gate' = Free
Sees(f)   == eye' = Opened(f)

Observes ==
  /\ gate.at = "rest" /\ Goes("look") /\ Sees(clone.files)
  /\ UNCHANGED <<main, clone, made, acts>>

Reads ==
  /\ Watching(eye) /\ eye' \in {Looks(eye, clone.files), Refused(eye)}
  /\ UNCHANGED <<main, clone, gate, made, acts>>

\* head: an id that a ref of the task names already needs no fetch.
Observed ==
  /\ gate.at = "look" /\ eye.at = "done"
  /\ IF eye.tip = None THEN Quits
     ELSE gate' = [at |-> IF eye.tip \in main.imported THEN "pinned" ELSE "fetch",
                   from |-> eye.tip, tip |-> eye.tip]
  /\ UNCHANGED <<main, clone, eye, made, acts>>

\* What the clone's upload-pack can serve: a commit it has, or borrows, whole.
Served == gate.tip \in clone.own \cup main.objs /\ clone.base \in main.objs

\* Mutant: the objects, and no ref that holds them.
FetchesNoRef ==
  /\ gate.at = "fetch"
  /\ \/ /\ Served /\ main' = [main EXCEPT !.objs = @ \cup History(gate.tip, made)]
        /\ Goes("pinned")
     \/ Quits /\ UNCHANGED main
  /\ UNCHANGED <<clone, eye, made, acts>>

\* The fetch of the id by its name, and the ref read back: a clone that lacks the
\* commit fails, one that is shallow warns and leaves no ref.
ImportCommit ==
  /\ gate.at = "fetch"
  /\ \/ /\ Served
        /\ main' = [main EXCEPT !.objs = @ \cup History(gate.tip, made),
                                !.imported = @ \cup {gate.tip}]
        /\ Goes("pinned")
     \/ Quits /\ UNCHANGED main
  /\ UNCHANGED <<clone, eye, made, acts>>

\* rebaseInScratch: the clone is not touched, and a conflict leaves nothing.
Rebases ==
  LET new == main.def \cup {made + 1} IN
  /\ gate.at = "pinned" /\ ~ main.def \subseteq gate.tip
  /\ Act /\ made' = made + 1
  /\ \/ /\ main' = [main EXCEPT !.objs = @ \cup {new}, !.rebased = new]
        /\ gate' = [gate EXCEPT !.tip = new]
     \/ Quits /\ UNCHANGED main
  /\ UNCHANGED <<clone, eye>>

\* The read right before the merge.
LooksAgain ==
  /\ gate.at = "pinned" /\ Goes("again") /\ Sees(clone.files)
  /\ UNCHANGED <<main, clone, made, acts>>

\* Mutant: whatever the clone is at by now.
MergesUnread ==
  /\ gate.at = "again" /\ eye.at = "done" /\ Quits
  /\ IF main.def \subseteq gate.tip
     THEN main' = [main EXCEPT !.def = gate.tip] ELSE UNCHANGED main
  /\ UNCHANGED <<clone, eye, made, acts>>

Merges ==
  /\ gate.at = "again" /\ eye.at = "done" /\ Quits
  /\ IF eye.tip = gate.from /\ main.def \subseteq gate.tip
     THEN main' = [main EXCEPT !.def = gate.tip] ELSE UNCHANGED main
  /\ UNCHANGED <<clone, eye, made, acts>>

\* A verdict against it, an error, the end of the process.
Leaves ==
  /\ gate.at # "rest" /\ Quits /\ eye' = Shut
  /\ UNCHANGED <<main, clone, made, acts>>

Next ==
  \/ Commits \/ Moves \/ Prunes \/ Replaced \/ Moved \/ GC
  \/ Observes \/ Reads \/ Observed \/ ImportCommit \/ Rebases \/ LooksAgain \/ Merges \/ Leaves

Spec == Init /\ [][Next]_vars

--------------------------------------------------------------------------------

\* What the gate goes on with stays in the project, whatever its gc drops and the
\* worker rewrites meanwhile: worktree/import.go:18-22.
PinnedStays == gate.at \in {"pinned", "again"} => gate.tip \in main.objs

\* A merge takes the commit that was the clone's HEAD while the read right before it
\* went on, or the land's rebase of that commit: workdir.go:107-111.
MergesWhatIsThere ==
  [][gate.at = "again" /\ main'.def # main.def /\ gate'.at = "rest" =>
       gate.from \in eye.seen /\ gate.tip \in {gate.from, main.rebased}]_vars

================================================================================
