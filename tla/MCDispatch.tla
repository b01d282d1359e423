----------------------------- MODULE MCDispatch -----------------------------
(***************************************************************************)
(* Dispatch on small instances: one or two tasks, a pool of two slots so   *)
(* that a slot can be the wrong one, and up to two spawners.               *)
(***************************************************************************)
EXTENDS Dispatch, TLC

CONSTANTS t1, t2, s1, s2, d1, d2, c1

Disjoint == {}
Overlapping == {{t1, t2}}

Symmetry == Permutations(Task) \cup Permutations(Slot) \cup Permutations(Daemon)
=============================================================================
