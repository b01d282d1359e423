------------------------------- MODULE GateBranch -------------------------------
(***************************************************************************)
(* Which branch the trust gate reads for a project: its row records one    *)
(* when the project is registered, at a spawn, or by the seed that follows *)
(* the migration which added the column; `ttorch project set-branch' is the*)
(* only way to change it.  A branch nobody has shown to the lead is under  *)
(* notice until `ttorch doctor' or `update' has printed it.                *)
(*                                                                         *)
(* Refs are shared with the workers and move at any time.  A process reads *)
(* the row, asks git and writes in separate steps, and may die between.    *)
(***************************************************************************)
EXTENDS Naturals

CONSTANTS
  Branch,     \* branch names
  None,       \* no branch
  Process,    \* ttorch processes of the lead and of workers
  Lead,       \* those outside any worker's context
  MaxActs     \* bound on what happens besides the steps of processes under way

VARIABLES
  row,        \* the project's row: registered or not, branch, seed state
  refs,       \* the repository: origin's HEAD, its own HEAD, the local branches
  working,    \* some task row of the project names a worktree
  proc,       \* what each process is doing, with the row it has read
  shown,      \* history: branches the lead has been shown or has chosen
  acts

vars == <<row, refs, working, proc, shown, acts>>

MaybeBranch == Branch \cup {None}
Row  == [known : BOOLEAN, branch : MaybeBranch, seed : {"none", "pending", "notice"}]
Idle == [at |-> "rest", branch |-> None, seed |-> "none", prints |-> FALSE]

Init ==
  /\ row \in [known : BOOLEAN, branch : {None}, seed : {"none", "pending"}]
  /\ ~row.known => row.seed = "none"
  /\ refs \in [remote : MaybeBranch, head : Branch, local : {Branch}]
  /\ working = FALSE
  /\ proc = [p \in Process |-> Idle]
  /\ shown = {}
  /\ acts = 0

Act == acts < MaxActs /\ acts' = acts + 1

\* Origin's HEAD where it names a local branch, else the branch checked out.
Detect ==
  IF refs.remote \in refs.local THEN refs.remote
  ELSE IF refs.head \in refs.local THEN refs.head ELSE None

--------------------------------------------------------------------------------
(* Writes of the row.                                                      *)

\* A recorded branch is never replaced by a detected one.
Fill(b, seed) ==
  row' = IF row.branch = None
         THEN [row EXCEPT !.known = TRUE, !.branch = b, !.seed = seed]
         ELSE [row EXCEPT !.known = TRUE]

\* A mutant of the next: it clears whatever is there.
ClearSeed == row' = [row EXCEPT !.seed = "none"]

\* The seed has been tried: whatever a registration set meanwhile stays.
ClearPending == row' = IF row.seed = "pending" THEN [row EXCEPT !.seed = "none"] ELSE row

SetSeed(s) == row' = [row EXCEPT !.seed = s]

--------------------------------------------------------------------------------
(* Seeding, at the start of any command of the lead and in doctor.         *)

Goto(p, at) == proc' = [proc EXCEPT ![p].at = at]
Listed(p)   == IF proc[p].prints THEN Goto(p, "list") ELSE proc' = [proc EXCEPT ![p] = Idle]

Start(p) ==
  /\ proc[p].at = "rest" /\ row.known /\ Act
  /\ \E prints \in BOOLEAN :
       proc' = [proc EXCEPT ![p] =
         [at |-> IF p \in Lead /\ row.seed = "pending" THEN "seed"
                 ELSE IF prints THEN "list" ELSE "rest",
          branch |-> row.branch, seed |-> row.seed, prints |-> prints]]
  /\ UNCHANGED <<row, refs, working, shown>>

\* No branch on record when listed: detect one and write it, under notice.
SeedFill(p) ==
  /\ proc[p].at = "seed" /\ proc[p].branch = None /\ Detect # None
  /\ Fill(Detect, "notice")
  /\ IF row.branch = None THEN Listed(p) ELSE Goto(p, "clear")
  /\ UNCHANGED <<refs, working, shown, acts>>

SeedGivesUp(p) ==
  /\ proc[p].at = "seed" /\ (proc[p].branch # None \/ Detect = None)
  /\ Goto(p, "clear")
  /\ UNCHANGED <<row, refs, working, shown, acts>>

SeedDone(p) ==
  /\ proc[p].at = "clear"
  /\ ClearPending
  /\ Listed(p)
  /\ UNCHANGED <<refs, working, shown, acts>>

--------------------------------------------------------------------------------
(* Notices.                                                                *)

List(p) ==
  /\ proc[p].at = "list"
  /\ proc' = [proc EXCEPT ![p].at = "print", ![p].branch = row.branch, ![p].seed = row.seed]
  /\ UNCHANGED <<row, refs, working, shown, acts>>

\* A worker's doctor prints the line too, to the worker.
Show(p) ==
  /\ proc[p].at = "print"
  /\ IF proc[p].seed = "notice" /\ proc[p].branch # None /\ p \in Lead
     THEN shown' = shown \cup {proc[p].branch} /\ Goto(p, "told")
     ELSE proc' = [proc EXCEPT ![p] = Idle] /\ UNCHANGED shown
  /\ UNCHANGED <<row, refs, working, acts>>

ClearNotice(p) ==
  /\ proc[p].at = "told"
  /\ SetSeed("none")
  /\ proc' = [proc EXCEPT ![p] = Idle]
  /\ UNCHANGED <<refs, working, shown, acts>>

--------------------------------------------------------------------------------
(* Registration.                                                           *)

\* A spawn, before it takes a worktree: not where a task's row names one already.
Spawn(p) ==
  /\ proc[p].at = "rest" /\ Act
  /\ proc' = [proc EXCEPT ![p].at = IF row.branch = None /\ ~working THEN "register" ELSE "acquire"]
  /\ UNCHANGED <<row, refs, working, shown>>

Register(p) ==
  /\ proc[p].at = "register"
  /\ IF Detect = None THEN UNCHANGED row ELSE Fill(Detect, "notice")
  /\ Goto(p, "acquire")
  /\ UNCHANGED <<refs, working, shown, acts>>

Acquire(p) ==
  /\ proc[p].at = "acquire"
  /\ working' = TRUE
  /\ row' = [row EXCEPT !.known = TRUE]
  /\ proc' = [proc EXCEPT ![p] = Idle]
  /\ UNCHANGED <<refs, shown, acts>>

Teardown ==
  /\ working /\ Act
  /\ working' = FALSE
  /\ UNCHANGED <<row, refs, proc, shown>>

\* `ttorch project add' of the lead prints the branch it leaves on record; a worker's
\* records none.
ProjectAdd ==
  /\ Act
  /\ \/ row' = [row EXCEPT !.known = TRUE] /\ UNCHANGED shown
     \/ /\ row.branch # None \/ Detect # None
        /\ Fill(Detect, "none")
        /\ shown' = shown \cup {row'.branch}
  /\ UNCHANGED <<refs, working, proc>>

SetBranch(b) ==
  /\ row.known /\ b \in refs.local /\ Act
  /\ row' = [row EXCEPT !.branch = b, !.seed = "none"]
  /\ shown' = shown \cup {b}
  /\ UNCHANGED <<refs, working, proc>>

--------------------------------------------------------------------------------
(* The repository moves, processes die.                                    *)

Refs ==
  /\ Act
  /\ \E b \in MaybeBranch : \/ refs' = [refs EXCEPT !.remote = b]
                            \/ refs' = [refs EXCEPT !.head = b]
  /\ UNCHANGED <<row, working, proc, shown>>

Dies(p) ==
  /\ proc[p].at # "rest" /\ Act
  /\ proc' = [proc EXCEPT ![p] = Idle]
  /\ UNCHANGED <<row, refs, working, shown>>

Next ==
  \/ Teardown \/ ProjectAdd \/ Refs
  \/ \E b \in Branch : SetBranch(b)
  \/ \E p \in Process : \/ Start(p) \/ SeedFill(p) \/ SeedGivesUp(p) \/ SeedDone(p)
                        \/ List(p) \/ Show(p) \/ ClearNotice(p)
                        \/ Spawn(p) \/ Register(p) \/ Acquire(p) \/ Dies(p)

--------------------------------------------------------------------------------
(* Properties.                                                             *)

\* The branch the gate reads is one the lead has been shown or has chosen, or it is
\* still under notice: whoever registers, seeds, prints or dies at the same time.
BranchSeen == row.branch # None => row.branch \in shown \/ row.seed = "notice"
================================================================================
