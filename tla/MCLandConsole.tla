---------------------------- MODULE MCLandConsole ----------------------------
(***************************************************************************)
(* Landing on small instances: a daemon and a console on one task.         *)
(*                                                                         *)
(* Beside it, and apart from it, Board: two boards and the task they show. *)
(* `part' says which of the two a behaviour is of; under LandingSpec, which*)
(* is for two tasks and a fair daemon, it is the first.                    *)
(***************************************************************************)
EXTENDS MCLanding

CONSTANTS Boards, MaxLog, MaxTaken

VARIABLES part, row, window, lease, log, began, acted, action, daemon, answers, preps,
          unmarked, taken

B == INSTANCE Board WITH status <- row, job <- action, told <- answers

board == <<row, window, lease, log, began, acted, action, daemon, answers, preps,
           unmarked, taken>>
both  == <<vars, board, part>>

SumInit ==
  /\ Init /\ B!Init
  /\ part \in {"landing", "board"}
  /\ part = "landing" => row = "pending"

SumNext ==
  \/ part = "landing" /\ Next /\ UNCHANGED <<board, part>>
  \/ part = "board" /\ [B!Next]_board /\ UNCHANGED <<vars, part>>

SumSpec == SumInit /\ [][SumNext]_both

\* Landing alone, under its fairness.
LandingInit == SumInit /\ part = "landing"

LandingSpec == LandingInit /\ [][SumNext]_both /\ Fairness

Pages == Permutations(Boards)

\* See Board: a question is answered once.
AnsweredOnce == B!AnsweredOnce

\* See Board: an escalation is prepared once, by one at a time.
PreppedOnce == B!PreppedOnce
================================================================================
