------------------------------- MODULE Delivery -------------------------------
(***************************************************************************)
(* What landing promises.  The default branch moves by pushes of the lead  *)
(* and by reviewed patches of tasks, onto commits that are green; a task   *)
(* is delivered when a patch of it that the reviewers cleared is on the    *)
(* branch, and stays delivered.                                            *)
(***************************************************************************)
EXTENDS Commits

VARIABLES
  main,       \* the default branch
  cleared,    \* patches of tasks that the reviewers have cleared
  delivered   \* tasks recorded as delivered

vars == <<main, cleared, delivered>>

Init == main = <<>> /\ cleared = {} /\ delivered = {}

Clear ==
  /\ cleared \subseteq cleared'
  /\ UNCHANGED <<main, delivered>>

Push ==
  /\ Len(main') = Len(main) + 1
  /\ IsAncestor(main, main')
  /\ main'[Len(main')].by = Lead
  /\ UNCHANGED <<cleared, delivered>>

\* All that the branch gains is new to it and was cleared, as one patch.
Merge ==
  /\ IsAncestor(main, main')
  /\ \E r \in cleared : Ahead(main, main') \subseteq r.patch.changes
  /\ Cardinality(Changes(main')) = Len(main')
  /\ Green(main')
  /\ UNCHANGED <<cleared, delivered>>

Deliver(t) ==
  /\ \E r \in cleared : r.task = t /\ r.patch.changes \subseteq Changes(main)
  /\ delivered' = delivered \cup {t}
  /\ UNCHANGED <<main, cleared>>

Next == Clear \/ Push \/ Merge \/ \E t \in Task : Deliver(t)

Spec == Init /\ [][Next]_vars
================================================================================
