------------------------------- MODULE GateChange -------------------------------
(***************************************************************************)
(* The gated merge of one task whose branch may change the gate itself, in *)
(* a trusted repository: what the lead's approval covers, what a recorded  *)
(* verdict mints, which suite runs count, and what the merge reads again.  *)
(*                                                                         *)
(* Reviews and rebases are in Landing; here a verdict is recorded at will. *)
(* A merge takes minutes (its suite), so it is a step per read: the lead,  *)
(* the worker, a recording pass and pushes to the default branch come in   *)
(* between.  The suite may pass or fail on any tree at any time.           *)
(***************************************************************************)
EXTENDS GateTree, Sequences, SequencesExt

CONSTANTS
  Proc,      \* ttorch processes: each has a memo of the suites it ran
  Merger,    \* the processes that merge this task: one at a time in the scheduler
  Edits,     \* the changes a commit may make: sets of <<path, content>>
  MaxLen,    \* bound on the length of a branch
  MaxMoves   \* bound on what happens besides merging

VARIABLES
  main,     \* the default branch: a sequence of commits, each with its whole tree
  head,     \* HEAD of the task's worktree
  token,    \* the approval token: a file with a lifetime
  verdict,  \* the durable verdict row
  cache,    \* the on-disk validate cache: <<tree, script>> seen green
  memo,     \* what each process itself saw green
  proc,     \* the merge each process is in
  granted,  \* history: paths the lead ever named in a gate-change approval
  cleared,  \* history: commits the lead ever approved
  moves

gateVars == <<token, verdict>>
runVars  == <<cache, memo>>
seen     == <<granted, cleared>>
vars == <<main, head, token, verdict, cache, memo, proc, granted, cleared, moves>>

Tip(c) == Last(c).tree

NoToken   == [by |-> "none", sha |-> <<>>, grants |-> {}]
NoVerdict == [pass |-> FALSE, sha |-> <<>>, by |-> "none", asha |-> <<>>]
NoMerge   == [at |-> "rest", sha |-> <<>>, base |-> <<>>, by |-> "none", grants |-> {}]

First == [p \in Path |-> IF p \in {"agents", "script", "source", "code"} THEN "v1" ELSE "none"]
Roots == {First, [First EXCEPT !["agents"] = "v2"]}

Init ==
  /\ \E t \in Roots : main = <<[tree |-> t, by |-> "lead"]>>
  /\ head = main
  /\ token = NoToken
  /\ verdict = NoVerdict
  /\ cache = {}
  /\ memo = [p \in Proc |-> {}]
  /\ proc = [p \in Proc |-> NoMerge]
  /\ granted = {} /\ cleared = {}
  /\ moves = 0

Move == moves < MaxMoves /\ moves' = moves + 1

--------------------------------------------------------------------------------
(* Branches.                                                               *)

Edited(t, e) == [p \in Path |-> IF \E x \in e : x[1] = p
                                THEN (CHOOSE x \in e : x[1] = p)[2] ELSE t[p]]
Commit(c, e, who) == Append(c, [tree |-> Edited(Tip(c), e), by |-> who])

\* The worker commits, starts over from the default branch, or drops a commit.
Work ==
  /\ Move
  /\ \/ \E e \in Edits, c \in {head, main} :
          Len(c) < MaxLen /\ head' = Commit(c, e, "worker")
     \/ head # main /\ Len(head) > 1 /\ head' = Front(head)
  /\ UNCHANGED <<main, gateVars, runVars, proc, seen>>

Push ==
  /\ Move /\ Len(main) < MaxLen
  /\ \E e \in Edits : main' = Commit(main, e, "lead")
  /\ UNCHANGED <<head, gateVars, runVars, proc, seen>>

--------------------------------------------------------------------------------
(* Suites.                                                                 *)

\* A run is kept under the tree's hash and the script's text; one without a script
\* of the default branch runs what the tree itself declares and is kept nowhere.
Key(c, base) == <<Tip(c), Script(Tip(base))>>
Keyed(base)  == HasScript(Tip(base))

Record(p, k) == memo' = [memo EXCEPT ![p] = @ \cup {k}] /\ cache' = cache \cup {k}

\* A mutant of the next: a green from the disk cache would do.
SeenAnywhere(p, c, base) == Keyed(base) /\ Key(c, base) \in cache

\* validateForAuthority: only what this process ran itself spares it the run.
Reused(p, c, base) == Keyed(base) /\ Key(c, base) \in memo[p]

\* The steps of a suite, each tried again on a lost connection, may end either way.
Outcomes == {"green", "red"}

RunsGreen(p, c, base) ==
  IF Keyed(base) /\ ~Reused(p, c, base) THEN Record(p, Key(c, base)) ELSE UNCHANGED runVars

\* validateCommitted, for a review's inputs: the cache of any process will do.
Prep(p) ==
  /\ Move /\ Keyed(main) /\ Key(head, main) \notin cache
  /\ Record(p, Key(head, main))
  /\ UNCHANGED <<main, head, gateVars, proc, seen>>

--------------------------------------------------------------------------------
(* Approvals and verdicts.                                                 *)

\* Without the flag an approval names no file; with it, every one the diff touches.
Approve(flag) ==
  LET base == Tip(main)
      rev  == Tip(head)
      names == IF flag THEN Touched(base, rev) ELSE {}
  IN
  /\ Move
  /\ flag => ~Blocking(base, rev) /\ names # {}
  /\ token' = [by |-> "human", sha |-> head, grants |-> names]
  /\ verdict' = IF verdict.pass THEN [verdict EXCEPT !.by = "human", !.asha = head] ELSE verdict
  /\ granted' = granted \cup names
  /\ cleared' = cleared \cup {head}
  /\ UNCHANGED <<main, head, runVars, proc>>

TokenExpires ==
  /\ token # NoToken /\ Move
  /\ token' = NoToken
  /\ UNCHANGED <<main, head, verdict, runVars, proc, seen>>

\* A gate change may be approved by the gate itself: the policy of the default
\* branch says so and nothing in the diff is refused outright.
MayMint(base, rev) ==
  /\ HasScript(base) /\ ~Blocking(base, rev)
  /\ Touched(base, rev) = {} \/ Waives(base)

\* A passing verdict is recorded; a green suite mints an approval where it may.
TrustRecord(p) ==
  LET save(by, asha) == verdict' = [pass |-> TRUE, sha |-> head, by |-> by, asha |-> asha] IN
  /\ Move /\ proc[p].at = "rest"
  /\ \/ /\ MayMint(Tip(main), Tip(head))
        /\ RunsGreen(p, head, main)
        /\ token' = [by |-> "auto", sha |-> head, grants |-> {}]
        /\ save("auto", head)
     \/ save("none", <<>>) /\ UNCHANGED <<token, runVars>>
  /\ UNCHANGED <<main, head, proc, seen>>

--------------------------------------------------------------------------------
(* The merge.                                                              *)

\* The verdict authorizes this commit: an approval that ran out is minted again
\* from it, naming no file.
Authorizes(v, c) == v.pass /\ v.sha = c /\ v.asha = c /\ v.by # "none"

Reminted(c) ==
  IF Authorizes(verdict, c) /\ ~(token.sha = c /\ token.by = verdict.by)
  THEN [by |-> verdict.by, sha |-> c, grants |-> {}]
  ELSE token

\* What the merge will hold the diff against is what the token says now.
MergeBegin(p) ==
  LET t == Reminted(head) IN
  /\ p \in Merger /\ proc[p].at = "rest" /\ t # NoToken
  /\ token' = t
  /\ proc' = [proc EXCEPT ![p] = [NoMerge EXCEPT !.at = "base", !.sha = head,
                                                 !.by = t.by, !.grants = t.grants]]
  /\ UNCHANGED <<main, head, verdict, runVars, seen, moves>>

Refuse(p) == proc' = [proc EXCEPT ![p] = NoMerge]

\* A mutant of the next: any approval of a person carries any gate change.
NoneUngranted(touched, grants) == {}

Ungranted(touched, grants) == touched \ grants

\* The default branch is read once: its script, its policy and the diff against it.
MayChange(p) ==
  LET base == Tip(main)
      rev  == Tip(proc[p].sha)
  IN
  /\ verdict.pass
  /\ proc[p].by = "auto" => HasScript(base)
  /\ ~Blocking(base, rev)
  /\ \/ proc[p].by = "human" /\ Ungranted(Touched(base, rev), proc[p].grants) = {}
     \/ Touched(base, rev) = {}
     \/ Waives(base)

MergeBase(p) ==
  /\ proc[p].at = "base"
  /\ IF MayChange(p)
     THEN proc' = [proc EXCEPT ![p].at = "suite", ![p].base = main]
     ELSE Refuse(p)
  /\ UNCHANGED <<main, head, gateVars, runVars, seen, moves>>

MergeSuite(p) ==
  LET m == proc[p] IN
  /\ m.at = "suite"
  /\ \E end \in IF Reused(p, m.sha, m.base) THEN {"green"} ELSE Outcomes :
       IF end = "green"
       THEN RunsGreen(p, m.sha, m.base) /\ proc' = [proc EXCEPT ![p].at = "check"]
       ELSE Refuse(p) /\ UNCHANGED runVars
  /\ UNCHANGED <<main, head, gateVars, seen, moves>>

Unmoved(p) == head = proc[p].sha /\ main = proc[p].base /\ IsPrefix(main, proc[p].sha)

\* The worker, the default branch, the approval and the verdict are read again; an
\* approval of another commit is dead and removed.
MergeCheck(p) ==
  LET m == proc[p]
      pinned == token.sha = m.sha /\ token.by # "none"
  IN
  /\ m.at = "check"
  /\ token' = IF Unmoved(p) /\ ~pinned THEN NoToken ELSE token
  /\ IF Unmoved(p) /\ pinned /\ verdict.pass /\ verdict.sha = m.sha
     THEN proc' = [proc EXCEPT ![p].at = "forward"]
     ELSE Refuse(p)
  /\ UNCHANGED <<main, head, verdict, runVars, seen, moves>>

FastForward(p) ==
  LET c == proc[p].sha IN
  /\ proc[p].at = "forward"
  /\ IF IsPrefix(main, c)
     THEN main' = c /\ token' = NoToken /\ verdict' = NoVerdict
     ELSE UNCHANGED <<main, gateVars>>
  /\ Refuse(p)
  /\ UNCHANGED <<head, runVars, seen, moves>>

\* A process that starts again has run nothing.
Restart(p) ==
  /\ Move /\ (proc[p] # NoMerge \/ memo[p] # {})
  /\ Refuse(p) /\ memo' = [memo EXCEPT ![p] = {}]
  /\ UNCHANGED <<main, head, gateVars, cache, seen>>

Next ==
  \/ Work \/ Push \/ TokenExpires
  \/ \E flag \in BOOLEAN : Approve(flag)
  \/ \E p \in Proc : \/ Prep(p) \/ TrustRecord(p) \/ Restart(p)
                     \/ MergeBegin(p) \/ MergeBase(p) \/ MergeSuite(p)
                     \/ MergeCheck(p) \/ FastForward(p)

Spec == Init /\ [][Next]_vars

--------------------------------------------------------------------------------
(* Properties.                                                             *)

Merges(p) == proc[p].at = "forward" /\ main' # main /\ main' = proc[p].sha

\* No merge changes the gate behind the lead's back: what the default branch it
\* starts from covers is changed only where that branch waives the approval, or by
\* a commit the lead approved and to paths the lead has named; and what no approval
\* clears never arrives.
GateChangeNamed ==
  [][\A p \in Proc : Merges(p) =>
       LET base == Tip(main)
           rev  == Tip(main')
       IN /\ ~Blocking(base, rev)
          /\ Waives(base) \/ Touched(base, rev) \subseteq granted
          /\ Waives(base) \/ Touched(base, rev) = {} \/ main' \in cleared]_vars

\* A merge stands on a suite this very process has run green, since it started,
\* on the merged tree with the script of the default branch it starts from: never on
\* a file another process left.
OwnGreen ==
  [][\A p \in Proc : Merges(p) /\ Keyed(main) =>
       <<Tip(main'), Script(Tip(main))>> \in memo[p]]_vars
================================================================================
