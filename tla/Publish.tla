--------------------------------- MODULE Publish ---------------------------------
(***************************************************************************)
(* A land where the repository has an origin: which commit it is rebased   *)
(* onto, and how it is integrated, by a fast-forward of the local default  *)
(* branch or by a pull request that GitHub merges.                         *)
(*                                                                         *)
(* Origin, its default branch and the task's branch there belong to others *)
(* as well; each git or gh call is a step, may fail, and the lander may be *)
(* killed before the next.  Verdicts and approvals are in Landing.         *)
(*                                                                         *)
(* A commit is the set of the changes in its history.  A change has an     *)
(* author and a number, and what it was rebased onto.                      *)
(***************************************************************************)
EXTENDS Naturals, FiniteSets

CONSTANTS
  Mode,        \* delivery modes a project may have: "pr", "local"
  Lander,      \* the scheduler and consoles that land this task
  MaxCommits,  \* bound on the changes of the worker
  MaxActs      \* bound on what happens besides steps of landers

VARIABLES
  mode,       \* the project's delivery mode
  clone,      \* the worker's directory is a clone of the project, not a worktree
  origin,     \* the default branch at origin
  tracking,   \* refs/remotes/origin/<default>
  main,       \* the local default branch
  branch,     \* ttorch/<task> at origin: a commit, or none
  pr,         \* its pull request
  head,       \* HEAD of the worker's directory
  delivered,  \* the task's row
  job,        \* the land each lander runs
  validated,  \* history: commits whose suite was green in a land
  acts

vars == <<mode, clone, origin, tracking, main, branch, pr, head, delivered, job,
          validated, acts>>
task   == <<mode, clone>>
remote == <<origin, branch, pr>>
local  == <<tracking, main>>

Change(who, no, onto) == [by |-> who, no |-> no, onto |-> onto]
Own(c)   == {x \in c : x.by = "worker"}
Nos(c)   == {x.no : x \in Own(c)}
Ancestor(c, d) == c \subseteq d
Unpushed == {Change("nobody", 0, {})}
NoJob    == [at |-> "rest", base |-> {}, pre |-> {}, sha |-> {}]

Init ==
  /\ mode \in Mode /\ clone \in BOOLEAN
  /\ origin = {} /\ tracking = {} /\ main = {}
  /\ branch = Unpushed /\ pr = "none"
  /\ head = {Change("worker", 1, {})}
  /\ delivered = FALSE
  /\ job = [p \in Lander |-> NoJob]
  /\ validated = {}
  /\ acts = 0

Act == acts < MaxActs /\ acts' = acts + 1

--------------------------------------------------------------------------------
(* Others.                                                                 *)

Commit ==
  /\ Act /\ Cardinality(Nos(head)) < MaxCommits
  /\ head' = head \cup {Change("worker", Cardinality(Nos(head)) + 1, head \ Own(head))}
  /\ UNCHANGED <<task, remote, local, delivered, job, validated>>

\* Somebody else's work reaches origin, or the local default branch; the lead pulls
\* or pushes.
Others == {x.no : x \in {y \in origin \cup main : y.by = "other"}}
Arrives ==
  LET c == {Change("other", Cardinality(Others) + 1, {})} IN
  /\ Act
  /\ \/ origin' = origin \cup c /\ UNCHANGED <<main, tracking>>
     \/ main' = main \cup c /\ UNCHANGED <<origin, tracking>>
     \/ Ancestor(main, origin) /\ main' = origin /\ tracking' = origin /\ UNCHANGED origin
     \/ Ancestor(origin, main) /\ origin' = main /\ tracking' = main /\ UNCHANGED main
  /\ UNCHANGED <<task, branch, pr, head, delivered, job, validated>>

Killed(p) ==
  /\ job[p].at \notin {"rest", "landed"} /\ Act
  /\ job' = [job EXCEPT ![p] = NoJob]
  /\ UNCHANGED <<task, remote, local, head, delivered, validated>>

--------------------------------------------------------------------------------
(* Preparing.                                                              *)

Goto(p, at) == job' = [job EXCEPT ![p].at = at]
Fails(p)    == job' = [job EXCEPT ![p] = NoJob]

Fetch(p) ==
  /\ job[p].at = "rest" /\ Act
  /\ tracking' = origin
  /\ Goto(p, "base")
  /\ UNCHANGED <<task, remote, main, head, delivered, validated>>

\* Origin's branch where the local one has not gone beyond it.
LandBase == IF Ancestor(main, tracking) THEN tracking ELSE main

\* What the remote-tracking ref says is asked of origin again.
BaseStands == LandBase = tracking /\ tracking # main => origin = tracking

\* Changes the base has already are dropped; the others are new commits.
Rebased(c, onto) ==
  IF Ancestor(onto, c) THEN c
  ELSE onto \cup {Change("worker", n, onto) : n \in Nos(c) \ Nos(onto)}

\* In the worker's worktree; for a clone, in a scratch worktree of the project.  The
\* changes may conflict.
Rebase(p) ==
  LET sha == Rebased(head, LandBase) IN
  /\ job[p].at = "base"
  /\ \/ /\ BaseStands
        /\ job' = [job EXCEPT ![p] = [at |-> "validate", base |-> LandBase, pre |-> head,
                                      sha |-> sha]]
        /\ head' = IF clone THEN head ELSE sha
     \/ Fails(p) /\ UNCHANGED head
  /\ UNCHANGED <<task, remote, local, delivered, validated, acts>>

Validate(p) ==
  /\ job[p].at = "validate"
  /\ \/ validated' = validated \cup {job[p].sha} /\ Goto(p, "check")
     \/ Fails(p) /\ UNCHANGED validated
  /\ UNCHANGED <<task, remote, local, head, delivered, acts>>

--------------------------------------------------------------------------------
(* Integrating.                                                            *)

\* The worker has not moved off the commit its land has read or made.
Stays(p) == head = IF clone THEN job[p].pre ELSE job[p].sha

Check(p) ==
  /\ job[p].at = "check"
  /\ IF Stays(p) THEN Goto(p, IF mode = "pr" THEN "push" ELSE "forward") ELSE Fails(p)
  /\ UNCHANGED <<task, remote, local, head, delivered, validated, acts>>

\* A mutant of the next: what is pushed is whatever the worker has by now.
PushesHead(p) == head

\* The commit that was validated is pushed, by its name.
Pushed(p) == job[p].sha

\* A push that is not a fast-forward of the task's branch is refused.
Push(p) ==
  /\ job[p].at = "push"
  /\ \/ /\ branch = Unpushed \/ Ancestor(branch, Pushed(p))
        /\ branch' = Pushed(p) /\ Goto(p, "open")
     \/ Fails(p) /\ UNCHANGED branch
  /\ UNCHANGED <<task, origin, pr, local, head, delivered, validated, acts>>

\* A pull request of this branch, whatever its state, is taken for the one to merge.
EnsurePR(p) ==
  /\ job[p].at = "open"
  /\ \/ pr # "none" /\ Goto(p, "merge") /\ UNCHANGED pr
     \/ pr = "none" /\ branch # Unpushed /\ pr' = "open" /\ Goto(p, "merge")
     \/ pr = "none" /\ Fails(p) /\ UNCHANGED pr
  /\ UNCHANGED <<task, origin, branch, local, head, delivered, validated, acts>>

\* GitHub merges what the branch holds, or refuses; a merged request it calls merged.
MergePR(p) ==
  /\ job[p].at = "merge"
  /\ \/ /\ pr = "open" /\ branch # Unpushed
        /\ origin' = origin \cup branch \cup {Change("merge", 0, branch)}
        /\ branch' = Unpushed /\ pr' = "merged" /\ Goto(p, "fetch")
     \/ pr = "merged" /\ Goto(p, "fetch") /\ UNCHANGED remote
     \/ Fails(p) /\ UNCHANGED remote
  /\ UNCHANGED <<task, local, head, delivered, validated, acts>>

FetchMerged(p) ==
  /\ job[p].at = "fetch"
  /\ \/ tracking' = origin /\ Goto(p, "forward")
     \/ Fails(p) /\ UNCHANGED tracking
  /\ UNCHANGED <<task, remote, main, head, delivered, validated, acts>>

\* The local default branch moves and the delivery is recorded.
Forward(p) ==
  LET tip == IF mode = "pr" THEN tracking ELSE job[p].sha IN
  /\ job[p].at = "forward"
  /\ \/ /\ Ancestor(main, tip)
        /\ main' = tip /\ delivered' = TRUE /\ Goto(p, "verify")
     \/ Fails(p) /\ UNCHANGED <<main, delivered>>
  /\ UNCHANGED <<task, remote, tracking, head, validated, acts>>

\* A mutant of the next: it looks only at what was on the base already.
BlindLoss(base, sha, tip, strict) == base \ tip

\* What the worker changed since the base and the landed tip lacks: of the whole tree
\* in a local land, of the worker's own files after a pull request.
Lost(base, sha, tip, strict) ==
  IF strict THEN (sha \ tip) \cup (tip \ sha) ELSE (sha \ base) \ tip

Verify(p) ==
  LET lost == Lost(job[p].base, job[p].sha, main, mode # "pr") IN
  /\ job[p].at = "verify"
  /\ IF lost = {} THEN Goto(p, "landed") ELSE Fails(p)
  /\ UNCHANGED <<task, remote, local, head, delivered, validated, acts>>

Next ==
  \/ Commit \/ Arrives
  \/ \E p \in Lander : \/ Fetch(p) \/ Rebase(p) \/ Validate(p) \/ Check(p) \/ Push(p)
                       \/ EnsurePR(p) \/ MergePR(p) \/ FetchMerged(p) \/ Forward(p)
                       \/ Verify(p) \/ Killed(p)

--------------------------------------------------------------------------------
(* Properties.                                                             *)

\* Every commit of the worker that has left its directory was in a commit some land has
\* validated: none rides along that was made while the suite ran or the push began.
PublishedIsValidated ==
  \A x \in Own(origin \cup main \cup (branch \ Unpushed)) : \E v \in validated : x \in v

\* A land that reports success has its work on the local default branch: every change it
\* validated, through whatever pull request it took for its own.
LandedWhole ==
  \A p \in Lander : job[p].at = "landed" => Nos(job[p].sha) \subseteq Nos(main)
================================================================================
