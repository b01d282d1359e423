------------------------------ MODULE MCWake ------------------------------
(***************************************************************************)
(* Wake on a small instance, beside IdleWorker, which stands still here:   *)
(* what the same daemon and the watcher do about one worker that has       *)
(* stopped.  MCIdleWorker.cfg runs that by itself, WakeProofs proves about *)
(* both.                                                                   *)
(***************************************************************************)
EXTENDS IdleWorker

CONSTANTS
  Daemon, Armed, Nobody, Rewake, SendRetry,
  MaxEvents, MaxDrafts, MaxKills                   \* see Wake

VARIABLES
  posted, mark, awaiting, lock, pc, view, top, decided, woken, sent, retry, input,
  busy, drafts, kills                              \* see Wake

W == INSTANCE Wake

\* See Wake.
ASSUME WakeAssumption == W!WakeConstants

wakeVars == <<posted, mark, awaiting, lock, pc, view, top, decided, woken, sent, retry,
              input, busy, drafts, kills>>

WakeInit == W!Init /\ Init /\ pane = Busy

WakeSpec ==
  /\ WakeInit
  /\ [][W!Next /\ UNCHANGED vars]_<<wakeVars, vars>>
  /\ W!Fairness

\* See Wake: no second wake while one is outstanding, and every event is read.
OneWake == W!OneWake
Heard == W!Heard
=============================================================================
