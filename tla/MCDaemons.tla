-------------------------------- MODULE MCDaemons --------------------------------
(***************************************************************************)
(* Dispatch with two daemons and one task.                                 *)
(*                                                                         *)
(* Beside it, and apart from it, what a spawn draws from when workers get  *)
(* private clones: ClonePool, whose spawns take turns, and CloneImport.    *)
(* `part' says which of the three a behaviour is of.                       *)
(***************************************************************************)
EXTENDS MCDispatch

CONSTANTS u1, u2, p1

CONSTANTS
  NoId,                                                       \* see CloneFiles
  PoolTask, PoolSpawner, PoolMax, MaxPoolSlot, MaxPoolActs,   \* see ClonePool
  MaxCloneActs                                                \* see CloneImport

VARIABLES
  part,
  main, remote, pin, dir, named, lock, spawn, eye, tear, made, acts,
  project, clone, look, gate, changes, events

P == INSTANCE ClonePool WITH
       Task <- PoolTask, Spawner <- PoolSpawner, None <- NoId, MaxSlot <- MaxPoolSlot,
       MaxActs <- MaxPoolActs, slot <- dir, row <- named

C == INSTANCE CloneImport WITH
       None <- NoId, MaxActs <- MaxCloneActs, main <- project, eye <- look,
       made <- changes, acts <- events

\* Spawns take turns, and no commit is called NoId.
ASSUME CloneAssumption ==
  /\ \A p, q \in PoolSpawner : p = q
  /\ {MaxPoolSlot, MaxPoolActs, MaxCloneActs} \subseteq Nat
  /\ \A n \in {MaxPoolActs, MaxCloneActs} : \A c \in SUBSET (1..n) : c # NoId

dispatch == <<row, window, slot, proc, tick, fails, faults, deaths>>
poolside == <<main, remote, pin, dir, named, lock, spawn, eye, tear, made, acts>>
cloneside == <<project, clone, look, gate, changes, events>>
all       == <<dispatch, poolside, cloneside, part>>

SumInit == Init /\ P!Init /\ C!Init /\ part \in {"dispatch", "pool", "import"}

SumNext ==
  \/ part = "dispatch" /\ Next /\ UNCHANGED <<poolside, cloneside, part>>
  \/ part = "pool" /\ [P!Next]_poolside /\ UNCHANGED <<dispatch, cloneside, part>>
  \/ part = "import" /\ [C!Next]_cloneside /\ UNCHANGED <<dispatch, poolside, part>>

SumSpec == SumInit /\ [][SumNext]_all

Alike == Permutations(Task) \cup Permutations(Slot) \cup Permutations(Daemon)
         \cup Permutations(PoolTask)

\* See ClonePool: a clone in use can read the commit it was cut from.
BaseKept == P!BaseKept

\* See ClonePool: an idle slot is deleted only when its head has landed.
CondemnedSoundly == P!CondemnedSoundly

\* See CloneImport: what the gate has pinned stays in the project.
PinnedStays == C!PinnedStays

\* See CloneImport: a merge takes what the clone was at.
MergesWhatIsThere == C!MergesWhatIsThere
================================================================================
