------------------------------ MODULE Mailbox ------------------------------
(***************************************************************************)
(* What the manager's inbox promises (internal/watch/inbox.go): updates    *)
(* are numbered as they are recorded, and a reader is handed everything    *)
(* that nobody was handed before it, in one piece, so that no two readers  *)
(* share an update.  The exception is a replay: `ttorch watch --since`     *)
(* reads from where it is told to, again or further on, and leaves the     *)
(* mark where its own reading ended.                                       *)
(***************************************************************************)
EXTENDS Naturals

CONSTANT Reader

VARIABLES
  posted,    \* updates recorded
  mark,      \* those at or below it have been handed out
  hands      \* what a reader has been handed and has not put down

vars == <<posted, mark, hands>>

Init ==
  /\ posted = 0
  /\ mark = 0
  /\ hands = [r \in Reader |-> {}]

Post ==
  /\ posted' = posted + 1
  /\ UNCHANGED <<mark, hands>>

\* All that is unread, at once, and no part of it to anybody else.
Take(r) ==
  /\ mark < posted
  /\ hands' = [hands EXCEPT ![r] = mark + 1 .. posted]
  /\ mark' = posted
  /\ UNCHANGED posted

\* Printed, or dropped by a reader that was killed.
PutDown(r) ==
  /\ hands' = [hands EXCEPT ![r] = {}]
  /\ UNCHANGED <<posted, mark>>

Replay ==
  /\ mark' \in 1 .. posted
  /\ UNCHANGED <<posted, hands>>

Next ==
  \/ Post
  \/ Replay
  \/ \E r \in Reader : Take(r) \/ PutDown(r)

Spec == Init /\ [][Next]_vars
=============================================================================
