--------------------------------- MODULE MCMerge ---------------------------------
(***************************************************************************)
(* What a merge rests on once the gate has passed: GateChange, whose first *)
(* process merges while the second only preps and records; GateBranch, with*)
(* two processes of the lead and one of a worker; and Publish, with two    *)
(* landers.  The watcher's lock, short as they are, is checked in the same *)
(* run.  `part' says which of the four a behaviour is of.                  *)
(***************************************************************************)
EXTENDS WatchLock, TLC

CONSTANTS w1, w2, d1, i1, i2, i3, g1, g2, g3, b1, b2

CONSTANTS
  Gater, Merger, Edits, MaxLen, MaxMoves,         \* see GateChange
  Branch, NoBranch, Process, Lead, MaxActs,       \* see GateBranch
  Mode, Lander, MaxCommits, MaxCalls              \* see Publish

VARIABLES
  part,
  trunk, tip, approval, reviewed, cache, memo, merge, granted, approved, moves,
  row, refs, working, command, shown, acts,
  mode, clone, origin, tracking, local, branch, pr, work, delivered, land, green, calls

\* A new gate script, ttorch no longer its own source, another spelling of the
\* script's path, a link above covered ground; the policy moves with the second.
SomeEdits == {{<<"script", "v2">>}, {<<"agents", "v1">>, <<"source", "v2">>},
              {<<"SCRIPT", "v1">>}, {<<"top", "link">>}}

G == INSTANCE GateChange WITH
       Proc <- Gater, main <- trunk, head <- tip, token <- approval, verdict <- reviewed,
       proc <- merge, cleared <- approved

B == INSTANCE GateBranch WITH None <- NoBranch, proc <- command

P == INSTANCE Publish WITH
       MaxActs <- MaxCalls,
       main <- local, head <- work, job <- land, validated <- green, acts <- calls

\* A task's merges take turns, and commits change the content of paths.
ASSUME MergeAssumption ==
  /\ \A p, q \in Merger : p = q
  /\ NoBranch \notin Branch
  /\ Edits \subseteq SUBSET (G!Path \X G!Content)

changeSide == <<trunk, tip, approval, reviewed, cache, memo, merge, granted, approved, moves>>
branchSide == <<row, refs, working, command, shown, acts>>
publishSide ==
  <<mode, clone, origin, tracking, local, branch, pr, work, delivered, land, green, calls>>
all        == <<vars, changeSide, branchSide, publishSide, part>>

\* A part that stands still has one initial state only.
SumInit ==
  /\ Init /\ G!Init /\ B!Init /\ P!Init
  /\ part \in {"lock", "change", "branch", "publish"}
  /\ part # "change" => G!Tip(trunk) = G!First
  /\ part # "branch" => /\ row.seed = "pending" /\ refs.remote = refs.head
                         /\ refs.head = CHOOSE b \in Branch : TRUE
  /\ part # "publish" => mode = (CHOOSE m \in Mode : TRUE) /\ ~clone

SumNext ==
  \/ part = "lock" /\ Next /\ UNCHANGED <<changeSide, branchSide, publishSide, part>>
  \/ part = "change" /\ [G!Next]_changeSide /\ UNCHANGED <<vars, branchSide, publishSide, part>>
  \/ part = "branch" /\ [B!Next]_branchSide /\ UNCHANGED <<vars, changeSide, publishSide, part>>
  \/ part = "publish" /\ [P!Next]_publishSide /\ UNCHANGED <<vars, changeSide, branchSide, part>>

Inodes == Permutations({i1, i2, i3})

SumSpec == SumInit /\ [][SumNext]_all

\* See GateChange: no merge changes the gate behind the lead's back.
GateChangeNamed == G!GateChangeNamed

\* See GateChange: a merge stands on a suite this process has run.
OwnGreen == G!OwnGreen

\* See GateBranch: no branch decides unseen.
BranchSeen == B!BranchSeen

\* See Publish: nothing leaves the worker's directory that no land has validated.
PublishedIsValidated == P!PublishedIsValidated

\* See Publish: a land that reports success has landed its work.
LandedWhole == P!LandedWhole
================================================================================
