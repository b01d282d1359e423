---------------------------- MODULE TaskLifecycle ----------------------------
(***************************************************************************)
(* What the store promises about the life of a task, whoever calls it and  *)
(* in whatever order.  A task is offered in the backlog, underway with a   *)
(* worker, in the manager's hands, or dead (poison-pilled).  It comes back *)
(* to the backlog only from underway: either undone, as if it had never    *)
(* been taken, or as a retry that uses up one of its lives.  It dies only  *)
(* from underway and only without a life left.                             *)
(***************************************************************************)
EXTENDS Naturals

CONSTANTS
  Task,   \* ids of the tasks
  Lives   \* how many times a task may be retried, a natural number

VARIABLES
  phase,  \* where each task is
  lives   \* how many retries it has left

lifecycleVars == <<phase, lives>>

Phase == {"offered", "underway", "managed", "dead"}

LifecycleInit ==
  /\ phase = [t \in Task |-> "offered"]
  /\ lives = [t \in Task |-> Lives]

\* A dispatch, a report or a recorded outcome; also a task's return from the
\* dead when someone works on it after all.
Proceed(t) ==
  /\ \E ph \in {"underway", "managed"} : phase' = [phase EXCEPT ![t] = ph]
  /\ UNCHANGED lives

\* A dispatch that came to nothing.
Undo(t) ==
  /\ phase[t] = "underway"
  /\ phase' = [phase EXCEPT ![t] = "offered"]
  /\ UNCHANGED lives

Retry(t) ==
  /\ phase[t] = "underway"
  /\ lives[t] > 0
  /\ phase' = [phase EXCEPT ![t] = "offered"]
  /\ lives' = [lives EXCEPT ![t] = @ - 1]

Die(t) ==
  /\ phase[t] = "underway"
  /\ lives[t] = 0
  /\ phase' = [phase EXCEPT ![t] = "dead"]
  /\ UNCHANGED lives

LifecycleNext == \E t \in Task : Proceed(t) \/ Undo(t) \/ Retry(t) \/ Die(t)

LifecycleSpec == LifecycleInit /\ [][LifecycleNext]_lifecycleVars
=============================================================================
