-------------------------------- MODULE Commits --------------------------------
(***************************************************************************)
(* Commits of one repository as the landing code sees them.  The default   *)
(* branch is linear (only fast-forwards and pushes move it), so a commit   *)
(* is the sequence of the changes in its history and two commits have the  *)
(* same sha exactly when they are the same sequence.                       *)
(***************************************************************************)
EXTENDS Naturals, Sequences, FiniteSets

CONSTANTS
  Task,      \* tasks whose work lands in the repository
  Lead,      \* author of the commits pushed to the default branch by hand
  Conflict,  \* pairs of authors whose changes cannot be rebased on each other
  Drift,     \* pairs of authors whose changes rebase cleanly on each other but
             \* touch the same files, so that the text of the patch changes
  Red        \* pairs of authors whose changes are red together

ASSUME CommitsAssumption == Lead \notin Task

Author == Task \cup {Lead}
Change == [by : Author, no : Nat]
Commit == Seq(Change)

Changes(c)  == {c[i] : i \in 1..Len(c)}
Authors(cs) == {x.by : x \in cs}

IsAncestor(b, c) == Len(b) <= Len(c) /\ SubSeq(c, 1, Len(b)) = b

\* `git log b..c`: the changes of c that are not in the history of b.
Ahead(b, c) ==
  {c[i] : i \in {j \in 1..Len(c) : ~IsAncestor(SubSeq(c, 1, j), b)}}

Pairs(rel, S, T) == \E a \in S, b \in T : a # b /\ {a, b} \in rel

\* The three-dot diff b...c and the identity taken over its bytes: the changes,
\* and whatever of the tree they start from shows in their text.
Patch(b, c) ==
  LET new  == Ahead(b, c)
      tree == Authors(Changes(c) \ new)
  IN [changes |-> new,
      context |-> {a \in tree : Pairs(Drift, {a}, Authors(new))}]

\* `git rebase onto` with c checked out: replays what follows the fork point.
Fork(onto, c) == Cardinality({j \in 1..Len(c) : IsAncestor(SubSeq(c, 1, j), onto)})
Rebased(onto, c) == onto \o SubSeq(c, Fork(onto, c) + 1, Len(c))

RebaseConflicts(onto, c) ==
  Pairs(Conflict, Authors(Ahead(c, onto)), Authors(Ahead(onto, c)))

\* The suite of the default branch, run on a detached checkout of c.
Green(c) == ~Pairs(Red, Authors(Changes(c)), Authors(Changes(c)))
================================================================================
