-------------------------------- MODULE MCRelay --------------------------------
(***************************************************************************)
(* Relay on a small instance: two request ids of one peer, whose ids may   *)
(* come back once.                                                         *)
(*                                                                         *)
(* Beside it, and apart from it, Provision: how coordinators become peers. *)
(* `part' says which of the two a behaviour is of.                         *)
(***************************************************************************)
EXTENDS Relay, TLC

CONSTANTS r1, r2, Coordinator, MaxCommands

VARIABLES part, master, peers, key, made, lines, other, lock, shell, init, entered, commands

P == INSTANCE Provision WITH parent <- master, events <- commands, MaxEvents <- MaxCommands

provision == <<master, peers, key, made, lines, other, lock, shell, init, entered, commands>>
both      == <<vars, provision, part>>

SumInit == Init /\ P!Init /\ part \in {"relay", "provision"}

SumNext ==
  \/ part = "relay" /\ Next /\ UNCHANGED <<provision, part>>
  \/ part = "provision" /\ [P!Next]_provision /\ UNCHANGED <<vars, part>>

SumSpec == SumInit /\ [][SumNext]_both

Requests == Permutations(Rid)

\* See Provision: no chains of peers.
DepthOne == P!DepthOne

\* See Provision: entries of other programs stay.
OthersKept == P!OthersKept
================================================================================
