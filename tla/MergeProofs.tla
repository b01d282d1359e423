---------------------------- MODULE MergeProofs ----------------------------
(***************************************************************************)
(* For any bounds: what a merge rests on, part by part of MCMerge's sum.   *)
(*                                                                         *)
(* Publish: the worker's changes that are out are in a commit a land has   *)
(* seen green, because a land carries nothing but what it validated; and   *)
(* the branches only grow, so what a land compared itself with is there    *)
(* when it verifies.                                                       *)
(*                                                                         *)
(* GateBranch: what a process prints is the branch on record, or one the   *)
(* lead has chosen over it since, so the notice it clears is never the     *)
(* notice of a branch nobody saw.                                          *)
(*                                                                         *)
(* GateChange: a commit of the lead is never ahead of the default branch,  *)
(* so a branch that has moved away from a merge's base cannot be fast-     *)
(* forwarded to its commit; an approval by the gate vouches for its commit *)
(* only from the base it was given for, or from none.                      *)
(*                                                                         *)
(* WatchLock, for any number of processes, inodes and restarts: the watch  *)
(* lock is a singleton, its file is the holder's, and the self-heal spares *)
(* the watchers of its own session.  The argument is about inodes: who has *)
(* passed the liveness check has the lock of the inode at the path, an     *)
(* inode has one lock, and only that process unlinks the path.             *)
(***************************************************************************)
EXTENDS MCMerge, Sequences, TLAPS

--------------------------------------------------------------------------------
(* Publish.                                                                *)

\* What one step of a land leaves of it, whatever a commit is made of.
JobShape ==
  /\ land = [p \in Lander |-> land[p]]
  /\ \A p \in Lander : land[p] = [at |-> land[p].at, base |-> land[p].base, pre |-> land[p].pre,
                                 sha |-> land[p].sha]

\* The worker's changes that are out are in a commit some land has seen green, and so is
\* everything a land takes along.
PublishedInv ==
  /\ \A x \in origin \cup local \cup tracking \cup branch : x.by = "worker" => \E v \in green : x \in v
  /\ \A p \in Lander : land[p].at \notin {"rest", "base", "validate"} => land[p].sha \in green

\* The branches only grow, and a land's base is in one of them.
LandedInv ==
  /\ tracking \subseteq origin
  /\ \A p \in Lander :
       /\ land[p].at \notin {"rest", "base"} => land[p].base \subseteq tracking \/ land[p].base \subseteq local
       /\ land[p].at = "verify" /\ mode = "pr" => land[p].base \subseteq local
       /\ land[p].at = "landed" => P!Nos(land[p].sha) \subseteq P!Nos(local)

PublishInv == JobShape /\ PublishedInv /\ LandedInv

LEMMA GotoMoves ==
  ASSUME JobShape, NEW p \in Lander, NEW next, P!Goto(p, next)
  PROVE  /\ JobShape'
         /\ land'[p].at = next /\ land'[p].base = land[p].base /\ land'[p].pre = land[p].pre
         /\ land'[p].sha = land[p].sha
         /\ \A q \in Lander : q # p => land'[q] = land[q]
<1>1. land' = [land EXCEPT ![p] = [land[p] EXCEPT !.at = next]]
  BY DEF P!Goto
<1>2. land'[p] = [land[p] EXCEPT !.at = next] /\ \A q \in Lander : q # p => land'[q] = land[q]
  BY <1>1 DEF JobShape
<1>3. land' = [q \in Lander |-> land'[q]]
  BY <1>1 DEF JobShape
<1>4. land'[p] = [at |-> next, base |-> land[p].base, pre |-> land[p].pre, sha |-> land[p].sha]
  BY <1>2 DEF JobShape
<1> QED BY <1>2, <1>3, <1>4 DEF JobShape

LEMMA FailsMoves ==
  ASSUME JobShape, NEW p \in Lander, P!Fails(p)
  PROVE  /\ JobShape' /\ land'[p].at = "rest"
         /\ \A q \in Lander : q # p => land'[q] = land[q]
<1>1. land' = [land EXCEPT ![p] = P!NoJob]
  BY DEF P!Fails
<1>2. land'[p] = P!NoJob /\ \A q \in Lander : q # p => land'[q] = land[q]
  BY <1>1 DEF JobShape
<1>3. land' = [q \in Lander |-> land'[q]]
  BY <1>1 DEF JobShape
<1> QED BY <1>2, <1>3 DEF JobShape, P!NoJob

LEMMA NosGrow == \A c, d : c \subseteq d => P!Nos(c) \subseteq P!Nos(d)
  BY DEF P!Nos, P!Own

LEMMA PublishStarts == P!Init => PublishInv
<1> SUFFICES ASSUME P!Init PROVE PublishInv
  OBVIOUS
<1>1. \A p \in Lander : land[p] = P!NoJob
  BY DEF P!Init
<1>2. JobShape
  BY <1>1 DEF P!Init, JobShape, P!NoJob
<1>3. PublishedInv
  BY <1>1 DEF P!Init, PublishedInv, P!NoJob, P!Unpushed, P!Change
<1>4. LandedInv
  BY <1>1 DEF P!Init, LandedInv, P!NoJob
<1> QED BY <1>2, <1>3, <1>4 DEF PublishInv

\* A step of one land in which nothing is taken back.
LEMMA LandKeeps ==
  ASSUME PublishInv, NEW p \in Lander, JobShape', \A q \in Lander : q # p => land'[q] = land[q],
         UNCHANGED mode, green \subseteq green', local \subseteq local', tracking \subseteq tracking',
         tracking' \subseteq origin',
         \A x \in origin' \cup local' \cup tracking' \cup branch' :
           x.by = "worker" => \E v \in green' : x \in v,
         land'[p].at \notin {"rest", "base", "validate"} => land'[p].sha \in green',
         land'[p].at \notin {"rest", "base"} => land'[p].base \subseteq tracking' \/ land'[p].base \subseteq local',
         land'[p].at = "verify" /\ mode = "pr" => land'[p].base \subseteq local',
         land'[p].at = "landed" => P!Nos(land'[p].sha) \subseteq P!Nos(local')
  PROVE  PublishInv'
<1>1. PublishedInv'
  BY DEF PublishInv, PublishedInv
<1>2. LandedInv'
  <2>1. P!Nos(local) \subseteq P!Nos(local')
    BY NosGrow
  <2>2. P!Nos(local)' = P!Nos(local')
    BY DEF P!Nos, P!Own
  <2>3. ASSUME NEW q \in Lander PROVE P!Nos(land[q].sha)' = P!Nos(land'[q].sha)
    BY DEF P!Nos, P!Own
  <2>4. ASSUME NEW q \in Lander, land'[q].at = "landed" PROVE (P!Nos(land[q].sha) \subseteq P!Nos(local))'
    <3>1. CASE q = p
      BY <2>2, <2>3, <2>4, <3>1
    <3>2. CASE q # p
      <4>1. P!Nos(land[q].sha) \subseteq P!Nos(local) /\ land'[q].sha = land[q].sha
        BY <2>4, <3>2 DEF PublishInv, LandedInv
      <4> QED BY <2>1, <2>2, <2>3, <4>1
    <3> QED BY <3>1, <3>2
  <2>5. ASSUME NEW q \in Lander
        PROVE  /\ land'[q].at \notin {"rest", "base"} => land'[q].base \subseteq tracking' \/ land'[q].base \subseteq local'
               /\ land'[q].at = "verify" /\ mode' = "pr" => land'[q].base \subseteq local'
    <3>1. CASE q = p
      BY <3>1
    <3>2. CASE q # p
      BY <3>2 DEF PublishInv, LandedInv
    <3> QED BY <3>1, <3>2
  <2> QED BY <2>4, <2>5 DEF LandedInv
<1> QED BY <1>1, <1>2 DEF PublishInv

LEMMA LanderSteps ==
  ASSUME PublishInv, NEW p \in Lander,
         \/ P!Fetch(p) \/ P!Rebase(p) \/ P!Validate(p) \/ P!Check(p) \/ P!Push(p)
         \/ P!EnsurePR(p) \/ P!MergePR(p) \/ P!FetchMerged(p) \/ P!Forward(p)
         \/ P!Verify(p) \/ P!Killed(p)
  PROVE  PublishInv'
<1> DEFINE Out == \A x \in origin' \cup local' \cup tracking' \cup branch' :
                    x.by = "worker" => \E v \in green' : x \in v
<1>0. JobShape /\ tracking \subseteq origin /\ mode' = mode
  BY DEF PublishInv, LandedInv, P!Fetch, P!Rebase, P!Validate, P!Check, P!Push, P!EnsurePR, P!MergePR,
         P!FetchMerged, P!Forward, P!Verify, P!Killed, P!task
<1>1. ASSUME P!Fails(p), UNCHANGED <<green, local, tracking, origin, branch>> PROVE PublishInv'
  <2>1. JobShape' /\ land'[p].at = "rest" /\ \A q \in Lander : q # p => land'[q] = land[q]
    BY <1>0, <1>1, FailsMoves
  <2>2. Out
    BY <1>1 DEF PublishInv, PublishedInv
  <2> QED BY <1>0, <1>1, <2>1, <2>2, LandKeeps
<1>2. CASE P!Fetch(p)
  <2>1. P!Goto(p, "base") /\ tracking' = origin /\ UNCHANGED <<green, local, origin, branch>>
    BY <1>2 DEF P!Fetch, P!remote
  <2>2. JobShape' /\ land'[p].at = "base" /\ \A q \in Lander : q # p => land'[q] = land[q]
    BY <1>0, <2>1, GotoMoves
  <2>3. Out
    BY <2>1 DEF PublishInv, PublishedInv
  <2> QED BY <1>0, <2>1, <2>2, <2>3, LandKeeps
<1>3. CASE P!Rebase(p)
  <2>1. UNCHANGED <<green, local, tracking, origin, branch>>
    BY <1>3 DEF P!Rebase, P!remote, P!local
  <2>2. CASE P!Fails(p)
    BY <1>1, <2>1, <2>2
  <2>3. CASE land' = [land EXCEPT ![p] = [at |-> "validate", base |-> P!LandBase, pre |-> work,
                                          sha |-> P!Rebased(work, P!LandBase)]]
    <3>1. /\ land'[p] = [at |-> "validate", base |-> P!LandBase, pre |-> work,
                         sha |-> P!Rebased(work, P!LandBase)]
          /\ \A q \in Lander : q # p => land'[q] = land[q]
      BY <1>0, <2>3 DEF JobShape
    <3>2. land' = [q \in Lander |-> land'[q]]
      BY <1>0, <2>3 DEF JobShape
    <3>3. JobShape' /\ land'[p].at = "validate" /\ land'[p].base = P!LandBase
      BY <1>0, <3>1, <3>2 DEF JobShape
    <3>4. P!LandBase \in {tracking, local}
      BY DEF P!LandBase
    <3>5. Out
      BY <2>1 DEF PublishInv, PublishedInv
    <3> QED BY <1>0, <2>1, <3>1, <3>3, <3>4, <3>5, LandKeeps
  <2> QED BY <1>3, <2>2, <2>3 DEF P!Rebase
<1>4. CASE P!Validate(p)
  <2>1. UNCHANGED <<local, tracking, origin, branch>> /\ land[p].at = "validate"
    BY <1>4 DEF P!Validate, P!remote, P!local
  <2>2. CASE P!Fails(p) /\ UNCHANGED green
    BY <1>1, <2>1, <2>2
  <2>3. CASE green' = green \cup {land[p].sha} /\ P!Goto(p, "check")
    <3>1. /\ JobShape' /\ land'[p].at = "check" /\ land'[p].base = land[p].base
          /\ land'[p].sha = land[p].sha /\ \A q \in Lander : q # p => land'[q] = land[q]
      BY <1>0, <2>3, GotoMoves
    <3>2. Out
      BY <2>1, <2>3 DEF PublishInv, PublishedInv
    <3>3. land[p].base \subseteq tracking \/ land[p].base \subseteq local
      BY <2>1 DEF PublishInv, LandedInv
    <3> QED BY <1>0, <2>1, <2>3, <3>1, <3>2, <3>3, LandKeeps
  <2> QED BY <1>4, <2>2, <2>3 DEF P!Validate
<1>5. ASSUME land[p].at \notin {"rest", "base", "validate"}, NEW next, P!Goto(p, next), next # "verify", next # "landed",
             Out, green' = green, local' = local, tracking \subseteq tracking', tracking' \subseteq origin'
      PROVE  PublishInv'
  <2>1. /\ JobShape' /\ land'[p].at = next /\ land'[p].base = land[p].base
        /\ land'[p].sha = land[p].sha /\ \A q \in Lander : q # p => land'[q] = land[q]
    BY <1>0, <1>5, GotoMoves
  <2>2. land[p].sha \in green
    BY <1>5 DEF PublishInv, PublishedInv
  <2>3. land[p].base \subseteq tracking \/ land[p].base \subseteq local
    BY <1>5 DEF PublishInv, LandedInv
  <2> QED BY <1>0, <1>5, <2>1, <2>2, <2>3, LandKeeps
<1>6. CASE P!Check(p)
  <2>1. UNCHANGED <<green, local, tracking, origin, branch>> /\ land[p].at = "check"
    BY <1>6 DEF P!Check, P!remote, P!local
  <2>2. Out
    BY <2>1 DEF PublishInv, PublishedInv
  <2>3. P!Fails(p) \/ P!Goto(p, "push") \/ P!Goto(p, "forward")
    BY <1>6 DEF P!Check
  <2> QED BY <1>0, <1>1, <1>5, <2>1, <2>2, <2>3
<1>7. CASE P!Push(p)
  <2>1. UNCHANGED <<green, local, tracking, origin>> /\ land[p].at = "push"
    BY <1>7 DEF P!Push, P!local
  <2>2. CASE P!Fails(p) /\ UNCHANGED branch
    BY <1>1, <2>1, <2>2
  <2>3. CASE P!Goto(p, "open") /\ branch' = land[p].sha
    <3>1. land[p].sha \in green
      BY <2>1 DEF PublishInv, PublishedInv
    <3>2. Out
      BY <2>1, <2>3, <3>1 DEF PublishInv, PublishedInv
    <3> QED BY <1>0, <1>5, <2>1, <2>3, <3>2
  <2> QED BY <1>7, <2>2, <2>3 DEF P!Push, P!Pushed
<1>8. CASE P!EnsurePR(p)
  <2>1. UNCHANGED <<green, local, tracking, origin, branch>> /\ land[p].at = "open"
    BY <1>8 DEF P!EnsurePR, P!local
  <2>2. Out
    BY <2>1 DEF PublishInv, PublishedInv
  <2>3. P!Fails(p) \/ P!Goto(p, "merge")
    BY <1>8 DEF P!EnsurePR
  <2> QED BY <1>0, <1>1, <1>5, <2>1, <2>2, <2>3
<1>9. CASE P!MergePR(p)
  <2>1. UNCHANGED <<green, local, tracking>> /\ land[p].at = "merge"
    BY <1>9 DEF P!MergePR, P!local
  <2>2. CASE P!Goto(p, "fetch") /\ UNCHANGED <<origin, branch>>
    <3>1. Out
      BY <2>1, <2>2 DEF PublishInv, PublishedInv
    <3> QED BY <1>0, <1>5, <2>1, <2>2, <3>1
  <2>3. CASE P!Fails(p) /\ UNCHANGED <<origin, branch>>
    BY <1>1, <2>1, <2>3
  <2>4. CASE /\ origin' = origin \cup branch \cup {P!Change("merge", 0, branch)}
             /\ branch' = P!Unpushed /\ P!Goto(p, "fetch")
    <3>1. P!Change("merge", 0, branch).by # "worker" /\ \A x \in P!Unpushed : x.by # "worker"
      BY DEF P!Change, P!Unpushed
    <3>2. Out
      BY <2>1, <2>4, <3>1 DEF PublishInv, PublishedInv
    <3>3. tracking' \subseteq origin'
      BY <1>0, <2>1, <2>4
    <3> QED BY <1>5, <2>1, <2>4, <3>2, <3>3
  <2> QED BY <1>9, <2>2, <2>3, <2>4 DEF P!MergePR, P!remote
<1>10. CASE P!FetchMerged(p)
  <2>1. UNCHANGED <<green, local, origin, branch>> /\ land[p].at = "fetch"
    BY <1>10 DEF P!FetchMerged, P!remote
  <2>2. CASE P!Fails(p) /\ UNCHANGED tracking
    BY <1>1, <2>1, <2>2
  <2>3. CASE P!Goto(p, "forward") /\ tracking' = origin
    <3>1. Out
      BY <2>1, <2>3 DEF PublishInv, PublishedInv
    <3> QED BY <1>0, <1>5, <2>1, <2>3, <3>1
  <2> QED BY <1>10, <2>2, <2>3 DEF P!FetchMerged
<1>11. CASE P!Forward(p)
  <2>1. UNCHANGED <<green, tracking, origin, branch>> /\ land[p].at = "forward"
    BY <1>11 DEF P!Forward, P!remote
  <2>2. CASE P!Fails(p) /\ UNCHANGED local
    BY <1>1, <2>1, <2>2
  <2>3. CASE /\ local' = (IF mode = "pr" THEN tracking ELSE land[p].sha) /\ local \subseteq local'
             /\ P!Goto(p, "verify")
    <3>1. /\ JobShape' /\ land'[p].at = "verify" /\ land'[p].base = land[p].base
          /\ land'[p].sha = land[p].sha /\ \A q \in Lander : q # p => land'[q] = land[q]
      BY <1>0, <2>3, GotoMoves
    <3>2. land[p].sha \in green
      BY <2>1 DEF PublishInv, PublishedInv
    <3>3. land[p].base \subseteq tracking \/ land[p].base \subseteq local
      BY <2>1 DEF PublishInv, LandedInv
    <3>4. Out
      BY <2>1, <2>3, <3>2 DEF PublishInv, PublishedInv
    <3>5. mode = "pr" => land[p].base \subseteq local'
      BY <2>3, <3>3
    <3> QED BY <1>0, <2>1, <2>3, <3>1, <3>2, <3>3, <3>4, <3>5, LandKeeps
  <2> QED BY <1>11, <2>2, <2>3 DEF P!Forward, P!Ancestor
<1>12. CASE P!Verify(p)
  <2> DEFINE lost == P!Lost(land[p].base, land[p].sha, local, mode # "pr")
  <2>1. UNCHANGED <<green, local, tracking, origin, branch>> /\ land[p].at = "verify"
    BY <1>12 DEF P!Verify, P!remote, P!local
  <2>2. CASE P!Fails(p)
    BY <1>1, <2>1, <2>2
  <2>3. CASE lost = {} /\ P!Goto(p, "landed")
    <3>1. /\ JobShape' /\ land'[p].at = "landed" /\ land'[p].base = land[p].base
          /\ land'[p].sha = land[p].sha /\ \A q \in Lander : q # p => land'[q] = land[q]
      BY <1>0, <2>3, GotoMoves
    <3>2. land[p].sha \in green
      BY <2>1 DEF PublishInv, PublishedInv
    <3>3. land[p].base \subseteq tracking \/ land[p].base \subseteq local
      BY <2>1 DEF PublishInv, LandedInv
    <3>4. Out
      BY <2>1 DEF PublishInv, PublishedInv
    <3>5. land[p].sha \subseteq local
      <4>1. CASE mode = "pr"
        BY <2>1, <2>3, <4>1 DEF P!Lost, PublishInv, LandedInv
      <4>2. CASE mode # "pr"
        BY <2>3, <4>2 DEF P!Lost
      <4> QED BY <4>1, <4>2
    <3>6. P!Nos(land[p].sha) \subseteq P!Nos(local)
      BY <3>5, NosGrow
    <3> QED BY <1>0, <2>1, <3>1, <3>2, <3>3, <3>4, <3>6, LandKeeps
  <2> QED BY <1>12, <2>2, <2>3 DEF P!Verify
<1>13. CASE P!Killed(p)
  <2>1. UNCHANGED <<green, local, tracking, origin, branch>> /\ P!Fails(p)
    BY <1>13 DEF P!Killed, P!remote, P!local, P!Fails
  <2> QED BY <1>1, <2>1
<1> QED BY <1>2, <1>3, <1>4, <1>6, <1>7, <1>8, <1>9, <1>10, <1>11, <1>12, <1>13

LEMMA PublishStep ==
  ASSUME PublishInv, P!Next
  PROVE  PublishInv'
<1>1. CASE P!Commit
  <2>1. UNCHANGED <<mode, origin, local, tracking, branch, land, green>>
    BY <1>1 DEF P!Commit, P!task, P!remote, P!local
  <2> QED BY <2>1 DEF PublishInv, JobShape, PublishedInv, LandedInv, P!Nos, P!Own
<1>2. CASE P!Arrives
  <2>0. UNCHANGED <<mode, branch, land, green>>
    BY <1>2 DEF P!Arrives, P!task
  <2>1. PICK n : LET c == {P!Change("other", n, {})} IN
           \/ origin' = origin \cup c /\ UNCHANGED <<local, tracking>>
           \/ local' = local \cup c /\ UNCHANGED <<origin, tracking>>
           \/ local \subseteq origin /\ local' = origin /\ tracking' = origin /\ UNCHANGED origin
           \/ origin \subseteq local /\ origin' = local /\ tracking' = local /\ UNCHANGED local
    BY <1>2, Zenon DEF P!Arrives, P!Ancestor
  <2>2. \A x \in {P!Change("other", n, {})} : x.by # "worker"
    BY DEF P!Change
  <2>3. /\ local \subseteq local' /\ tracking \subseteq tracking' /\ tracking' \subseteq origin'
    BY <2>1 DEF PublishInv, LandedInv
  <2>4. PublishedInv'
    BY <2>0, <2>1, <2>2 DEF PublishInv, PublishedInv
  <2>5. P!Nos(local) \subseteq P!Nos(local')
    BY <2>3, NosGrow
  <2>6. LandedInv'
    <3>1. P!Nos(local)' = P!Nos(local')
      BY DEF P!Nos, P!Own
    <3>2. ASSUME NEW q \in Lander PROVE P!Nos(land[q].sha)' = P!Nos(land[q].sha)
      BY <2>0 DEF P!Nos, P!Own
    <3>3. ASSUME NEW q \in Lander, land'[q].at = "landed" PROVE (P!Nos(land[q].sha) \subseteq P!Nos(local))'
      <4>1. P!Nos(land[q].sha) \subseteq P!Nos(local)
        BY <2>0, <3>3 DEF PublishInv, LandedInv
      <4> QED BY <2>5, <3>1, <3>2, <4>1
    <3>4. ASSUME NEW q \in Lander
          PROVE  /\ land'[q].at \notin {"rest", "base"} => land'[q].base \subseteq tracking' \/ land'[q].base \subseteq local'
                 /\ land'[q].at = "verify" /\ mode' = "pr" => land'[q].base \subseteq local'
      BY <2>0, <2>3 DEF PublishInv, LandedInv
    <3> QED BY <2>3, <3>3, <3>4 DEF LandedInv
  <2>7. JobShape'
    BY <2>0 DEF PublishInv, JobShape
  <2> QED BY <2>4, <2>6, <2>7 DEF PublishInv
<1> QED BY <1>1, <1>2, LanderSteps DEF P!Next

LEMMA PublishSound == SumSpec => []PublishInv
<1>1. SumInit => PublishInv
  BY PublishStarts DEF SumInit
<1>2. ASSUME PublishInv, [SumNext]_all PROVE PublishInv'
  <2>1. CASE P!Next
    BY <1>2, <2>1, PublishStep
  <2>2. CASE UNCHANGED publishSide
    BY <1>2, <2>2 DEF publishSide, PublishInv, JobShape, PublishedInv, LandedInv, P!Nos, P!Own
  <2> QED BY <1>2, <2>1, <2>2 DEF SumNext, all
<1> QED BY <1>1, <1>2, PTL DEF SumSpec

\* Nothing of the worker's is out that no land has validated (Publish; orchestrator/merge.go).
THEOREM OnlyValidatedLeaves == SumSpec => []PublishedIsValidated
<1>1. PublishInv => PublishedIsValidated
  BY DEF PublishInv, PublishedInv, PublishedIsValidated, P!PublishedIsValidated, P!Own
<1> QED BY <1>1, PublishSound, PTL

\* A land that reports success has its work on the local default branch.
THEOREM SuccessIsLanded == SumSpec => []LandedWhole
<1>1. PublishInv => LandedWhole
  BY DEF PublishInv, LandedInv, LandedWhole, P!LandedWhole
<1> QED BY <1>1, PublishSound, PTL

--------------------------------------------------------------------------------
(* GateBranch.                                                             *)

Rows  == [known : BOOLEAN, branch : Branch \cup {NoBranch}, seed : {"none", "pending", "notice"}]
Steps == {"rest", "seed", "clear", "list", "print", "told", "register", "acquire"}
Tasks == [at : Steps, branch : Branch \cup {NoBranch}, seed : {"none", "pending", "notice"}, prints : BOOLEAN]

BranchType ==
  /\ row \in Rows
  /\ refs \in [remote : Branch \cup {NoBranch}, head : Branch \cup {NoBranch}, local : SUBSET (Branch \cup {NoBranch})]
  /\ command \in [Process -> Tasks]

\* What a process is about to print, or has printed, is still the branch on record, or
\* the lead has chosen another since.
SeenInv ==
  /\ row.branch # NoBranch => row.branch \in shown \/ row.seed = "notice"
  /\ \A p \in Process : command[p].at = "print" /\ command[p].branch # NoBranch =>
       row.branch # NoBranch /\ (row.branch = command[p].branch \/ row.branch \in shown)
  /\ \A p \in Process : command[p].at = "told" => row.branch # NoBranch /\ row.branch \in shown

BranchInv == BranchType /\ SeenInv

LEMMA IdleIsATask == B!Idle \in Tasks /\ B!Idle.at = "rest"
<1>1. "rest" \in Steps /\ NoBranch \in Branch \cup {NoBranch} /\ "none" \in {"none", "pending", "notice"} /\ FALSE \in BOOLEAN
  BY DEF Steps
<1> QED BY <1>1, Zenon DEF B!Idle, Tasks

LEMMA BranchStarts == B!Init => BranchInv
<1> SUFFICES ASSUME B!Init PROVE BranchInv
  OBVIOUS
<1>1. /\ row \in [known : BOOLEAN, branch : {NoBranch}, seed : {"none", "pending"}]
      /\ refs \in [remote : Branch \cup {NoBranch}, head : Branch, local : {Branch}]
      /\ command = [p \in Process |-> B!Idle]
  BY DEF B!Init, B!MaybeBranch
<1>2. row.branch = NoBranch /\ row \in Rows
  BY <1>1 DEF Rows
<1>3. \A p \in Process : command[p].at = "rest"
  BY <1>1, IdleIsATask
<1> QED BY <1>1, <1>2, <1>3, IdleIsATask DEF BranchInv, BranchType, SeenInv

LEMMA GotoGoes ==
  ASSUME BranchType, NEW p \in Process, NEW step \in Steps, B!Goto(p, step)
  PROVE  /\ command' \in [Process -> Tasks] /\ command'[p].at = step
         /\ command'[p].branch = command[p].branch
         /\ \A q \in Process : q # p => command'[q] = command[q]
<1>1. command[p] \in Tasks /\ [command[p] EXCEPT !.at = step] \in Tasks
  BY DEF BranchType, Tasks
<1>2. command' = [command EXCEPT ![p] = [command[p] EXCEPT !.at = step]]
  BY DEF B!Goto
<1>3. command' \in [Process -> Tasks] /\ command'[p] = [command[p] EXCEPT !.at = step]
      /\ \A q \in Process : q # p => command'[q] = command[q]
  BY <1>1, <1>2 DEF BranchType
<1> QED BY <1>1, <1>3 DEF Tasks

LEMMA Rests ==
  ASSUME BranchType, NEW p \in Process, command' = [command EXCEPT ![p] = B!Idle]
  PROVE  /\ command' \in [Process -> Tasks] /\ command'[p].at = "rest"
         /\ \A q \in Process : q # p => command'[q] = command[q]
  BY IdleIsATask DEF BranchType

LEMMA DetectsABranch == BranchType => B!Detect \in Branch \cup {NoBranch}
  BY DEF BranchType, B!Detect

LEMMA Fills ==
  ASSUME BranchType, NEW b \in Branch \cup {NoBranch}, NEW seed \in {"none", "notice"}, B!Fill(b, seed)
  PROVE  /\ row' \in Rows
         /\ row.branch = NoBranch => row'.branch = b /\ row'.seed = seed
         /\ row.branch # NoBranch => row'.branch = row.branch /\ row'.seed = row.seed
<1>1. row \in Rows
  BY DEF BranchType
<1>2. CASE row.branch = NoBranch
  <2>1. row' = [row EXCEPT !.known = TRUE, !.branch = b, !.seed = seed]
    BY <1>2 DEF B!Fill
  <2>2. row' \in Rows
    BY <1>1, <2>1, Zenon DEF Rows
  <2>3. row'.branch = b /\ row'.seed = seed
    BY <1>1, <2>1, Zenon DEF Rows
  <2> QED BY <1>2, <2>2, <2>3
<1>3. CASE row.branch # NoBranch
  <2>1. row' = [row EXCEPT !.known = TRUE]
    BY <1>3 DEF B!Fill
  <2> QED BY <1>1, <1>3, <2>1 DEF Rows
<1> QED BY <1>2, <1>3

\* A step of one process that keeps the branch on record.
LEMMA StepKeeps ==
  ASSUME BranchInv, NEW p \in Process, row' \in Rows, refs' = refs, command' \in [Process -> Tasks],
         \A q \in Process : q # p => command'[q] = command[q],
         shown \subseteq shown',
         row'.branch # NoBranch => row'.branch \in shown' \/ row'.seed = "notice",
         row.branch # NoBranch => row'.branch = row.branch,
         command'[p].at = "print" /\ command'[p].branch # NoBranch =>
           row'.branch # NoBranch /\ (row'.branch = command'[p].branch \/ row'.branch \in shown'),
         command'[p].at = "told" => row'.branch # NoBranch /\ row'.branch \in shown'
  PROVE  BranchInv'
<1>1. BranchType'
  BY DEF BranchInv, BranchType
<1>2. ASSUME NEW q \in Process, command'[q].at = "print", command'[q].branch # NoBranch
      PROVE  row'.branch # NoBranch /\ (row'.branch = command'[q].branch \/ row'.branch \in shown')
  <2>1. CASE q = p
    BY <1>2, <2>1
  <2>2. CASE q # p
    <3>1. command[q].at = "print" /\ command[q].branch # NoBranch /\ command'[q].branch = command[q].branch
      BY <1>2, <2>2
    <3> QED BY <3>1 DEF BranchInv, SeenInv
  <2> QED BY <2>1, <2>2
<1>3. ASSUME NEW q \in Process, command'[q].at = "told" PROVE row'.branch # NoBranch /\ row'.branch \in shown'
  <2>1. CASE q = p
    BY <1>3, <2>1
  <2>2. CASE q # p
    <3>1. command[q].at = "told"
      BY <1>3, <2>2
    <3> QED BY <3>1 DEF BranchInv, SeenInv
  <2> QED BY <2>1, <2>2
<1> QED BY <1>1, <1>2, <1>3 DEF BranchInv, SeenInv

LEMMA BranchStep ==
  ASSUME BranchInv, B!Next
  PROVE  BranchInv'
<1>0. BranchType /\ row \in Rows
  BY DEF BranchInv, BranchType
<1>00. row.branch # NoBranch => row.branch \in shown \/ row.seed = "notice"
  BY DEF BranchInv, SeenInv
<1>1. ASSUME NEW p \in Process, UNCHANGED <<row, refs, shown>>, command' \in [Process -> Tasks],
             \A q \in Process : q # p => command'[q] = command[q],
             command'[p].at \notin {"print", "told"}
      PROVE  BranchInv'
  BY <1>0, <1>00, <1>1, StepKeeps
<1>2. CASE B!Teardown \/ B!Refs
  <2>1. UNCHANGED <<row, command, shown>>
    BY <1>2 DEF B!Teardown, B!Refs
  <2>2. refs' \in [remote : Branch \cup {NoBranch}, head : Branch \cup {NoBranch}, local : SUBSET (Branch \cup {NoBranch})]
    BY <1>0, <1>2 DEF B!Teardown, B!Refs, BranchType, B!MaybeBranch
  <2> QED BY <1>0, <2>1, <2>2 DEF BranchInv, BranchType, SeenInv
<1>3. CASE B!ProjectAdd
  <2>1. UNCHANGED <<refs, command>>
    BY <1>3 DEF B!ProjectAdd
  <2>2. CASE row' = [row EXCEPT !.known = TRUE] /\ UNCHANGED shown
    <3>1. row' \in Rows /\ row'.branch = row.branch /\ row'.seed = row.seed
      BY <1>0, <2>2 DEF Rows
    <3> QED BY <2>1, <2>2, <3>1 DEF BranchInv, BranchType, SeenInv
  <2>3. CASE /\ row.branch # NoBranch \/ B!Detect # NoBranch
             /\ B!Fill(B!Detect, "none") /\ shown' = shown \cup {row'.branch}
    <3>1. /\ row' \in Rows
          /\ row.branch # NoBranch => row'.branch = row.branch
          /\ row'.branch \in shown' /\ shown \subseteq shown'
      BY <1>0, <2>3, DetectsABranch, Fills
    <3>2. BranchType'
      BY <1>0, <2>1, <3>1 DEF BranchType
    <3>3. ASSUME NEW p \in Process, command'[p].at = "print", command'[p].branch # NoBranch
          PROVE  row'.branch # NoBranch /\ (row'.branch = command'[p].branch \/ row'.branch \in shown')
      <4>1. row.branch # NoBranch
        BY <2>1, <3>3 DEF BranchInv, SeenInv
      <4> QED BY <3>1, <4>1
    <3>4. ASSUME NEW p \in Process, command'[p].at = "told"
          PROVE  row'.branch # NoBranch /\ row'.branch \in shown'
      <4>1. row.branch # NoBranch
        BY <2>1, <3>4 DEF BranchInv, SeenInv
      <4> QED BY <3>1, <4>1
    <3> QED BY <3>1, <3>2, <3>3, <3>4 DEF BranchInv, SeenInv
  <2> QED BY <1>3, <2>2, <2>3 DEF B!ProjectAdd
<1>4. ASSUME NEW b \in Branch, B!SetBranch(b) PROVE BranchInv'
  <2>1. /\ row' = [row EXCEPT !.branch = b, !.seed = "none"] /\ shown' = shown \cup {b} /\ UNCHANGED <<refs, command>>
    BY <1>4 DEF B!SetBranch
  <2>2. row' \in Rows /\ row'.branch = b
    BY <1>0, <2>1 DEF Rows
  <2>3. b # NoBranch /\ row'.branch \in shown'
    BY <2>1, <2>2, MergeAssumption
  <2>4. BranchType'
    BY <1>0, <2>1, <2>2 DEF BranchType
  <2> QED BY <2>1, <2>2, <2>3, <2>4 DEF BranchInv, SeenInv
<1>5. ASSUME NEW p \in Process, B!Start(p) PROVE BranchInv'
  <2>1. UNCHANGED <<row, refs, shown>>
    BY <1>5 DEF B!Start
  <2>2. PICK prints \in BOOLEAN :
          command' = [command EXCEPT ![p] =
            [at |-> IF p \in Lead /\ row.seed = "pending" THEN "seed" ELSE IF prints THEN "list" ELSE "rest",
             branch |-> row.branch, seed |-> row.seed, prints |-> prints]]
    BY <1>5 DEF B!Start
  <2> DEFINE step == IF p \in Lead /\ row.seed = "pending" THEN "seed" ELSE IF prints THEN "list" ELSE "rest"
             new  == [at |-> step, branch |-> row.branch, seed |-> row.seed, prints |-> prints]
  <2>3. step \in Steps /\ step \notin {"print", "told"}
    BY DEF Steps
  <2>4. row.branch \in Branch \cup {NoBranch} /\ row.seed \in {"none", "pending", "notice"}
    BY <1>0 DEF Rows
  <2>5. command' = [command EXCEPT ![p] = new]
    BY <2>2
  <2> HIDE DEF step
  <2>6. new \in Tasks /\ new.at = step
    BY <2>3, <2>4, Zenon DEF Tasks
  <2> HIDE DEF new
  <2>7. /\ command' \in [Process -> Tasks] /\ command'[p] = new
        /\ \A q \in Process : q # p => command'[q] = command[q]
    BY <1>0, <2>5, <2>6 DEF BranchType
  <2> QED BY <1>1, <2>1, <2>3, <2>6, <2>7
<1>6. ASSUME NEW p \in Process, B!Listed(p)
      PROVE  /\ command' \in [Process -> Tasks] /\ command'[p].at \notin {"print", "told"}
             /\ \A q \in Process : q # p => command'[q] = command[q]
  <2>1. CASE B!Goto(p, "list")
    BY <1>0, <2>1, GotoGoes DEF Steps
  <2>2. CASE command' = [command EXCEPT ![p] = B!Idle]
    BY <1>0, <2>2, Rests
  <2> QED BY <1>6, <2>1, <2>2 DEF B!Listed
<1>7. ASSUME NEW p \in Process, B!SeedFill(p) PROVE BranchInv'
  <2>1. B!Detect # NoBranch /\ B!Fill(B!Detect, "notice") /\ UNCHANGED <<refs, shown>>
    BY <1>7 DEF B!SeedFill
  <2>2. /\ row' \in Rows
        /\ row.branch = NoBranch => row'.seed = "notice"
        /\ row.branch # NoBranch => row'.branch = row.branch /\ row'.seed = row.seed
    BY <1>0, <2>1, DetectsABranch, Fills
  <2>3. /\ command' \in [Process -> Tasks] /\ command'[p].at \notin {"print", "told"}
        /\ \A q \in Process : q # p => command'[q] = command[q]
    <3>1. CASE B!Listed(p)
      BY <1>6, <3>1
    <3>2. CASE B!Goto(p, "clear")
      BY <1>0, <3>2, GotoGoes DEF Steps
    <3> QED BY <1>7, <3>1, <3>2 DEF B!SeedFill
  <2> QED BY <1>00, <2>1, <2>2, <2>3, StepKeeps
<1>8. ASSUME NEW p \in Process, B!SeedGivesUp(p) PROVE BranchInv'
  <2>1. B!Goto(p, "clear") /\ UNCHANGED <<row, refs, shown>>
    BY <1>8 DEF B!SeedGivesUp
  <2>2. /\ command' \in [Process -> Tasks] /\ command'[p].at = "clear"
        /\ \A q \in Process : q # p => command'[q] = command[q]
    BY <1>0, <2>1, GotoGoes DEF Steps
  <2> QED BY <1>1, <2>1, <2>2
<1>9. ASSUME NEW p \in Process, B!SeedDone(p) PROVE BranchInv'
  <2>1. B!ClearPending /\ B!Listed(p) /\ UNCHANGED <<refs, shown>>
    BY <1>9 DEF B!SeedDone
  <2>2. row' \in Rows /\ row'.branch = row.branch /\ (row.seed = "notice" => row'.seed = "notice")
    BY <1>0, <2>1 DEF B!ClearPending, Rows
  <2>3. row.seed = "pending" /\ row.branch # NoBranch => row.branch \in shown
    BY <1>00
  <2>4. row'.branch # NoBranch => row'.branch \in shown' \/ row'.seed = "notice"
    BY <1>00, <2>1, <2>2
  <2> QED BY <1>6, <2>1, <2>2, <2>4, StepKeeps
<1>10. ASSUME NEW p \in Process, B!List(p) PROVE BranchInv'
  <2>1. /\ command' = [command EXCEPT ![p] = [command[p] EXCEPT !.at = "print", !.branch = row.branch, !.seed = row.seed]]
        /\ UNCHANGED <<row, refs, shown>>
    BY <1>10 DEF B!List
  <2> DEFINE new == [command[p] EXCEPT !.at = "print", !.branch = row.branch, !.seed = row.seed]
  <2>2. new \in Tasks /\ new.at = "print" /\ new.branch = row.branch
    <3>1. command[p] \in Tasks
      BY <1>0 DEF BranchType
    <3> QED BY <1>0, <3>1 DEF Tasks, Rows, Steps
  <2> HIDE DEF new
  <2>3. /\ command' \in [Process -> Tasks] /\ command'[p] = new
        /\ \A q \in Process : q # p => command'[q] = command[q]
    BY <1>0, <2>1, <2>2 DEF BranchType, new
  <2> QED BY <1>0, <1>00, <2>1, <2>2, <2>3, StepKeeps
<1>11. ASSUME NEW p \in Process, B!Show(p) PROVE BranchInv'
  <2>1. command[p].at = "print" /\ UNCHANGED <<row, refs>>
    BY <1>11 DEF B!Show
  <2>2. CASE command' = [command EXCEPT ![p] = B!Idle] /\ UNCHANGED shown
    <3>1. /\ command' \in [Process -> Tasks] /\ command'[p].at = "rest"
          /\ \A q \in Process : q # p => command'[q] = command[q]
      BY <1>0, <2>2, Rests
    <3> QED BY <1>1, <2>1, <2>2, <3>1
  <2>3. CASE command[p].branch # NoBranch /\ shown' = shown \cup {command[p].branch} /\ B!Goto(p, "told")
    <3>1. /\ command' \in [Process -> Tasks] /\ command'[p].at = "told"
          /\ \A q \in Process : q # p => command'[q] = command[q]
      BY <1>0, <2>3, GotoGoes DEF Steps
    <3>2. row.branch # NoBranch /\ (row.branch = command[p].branch \/ row.branch \in shown)
      BY <2>1, <2>3 DEF BranchInv, SeenInv
    <3> QED BY <1>0, <1>00, <2>1, <2>3, <3>1, <3>2, StepKeeps
  <2> QED BY <1>11, <2>2, <2>3 DEF B!Show
<1>12. ASSUME NEW p \in Process, B!ClearNotice(p) PROVE BranchInv'
  <2>1. /\ command[p].at = "told" /\ row' = [row EXCEPT !.seed = "none"]
        /\ command' = [command EXCEPT ![p] = B!Idle] /\ UNCHANGED <<refs, shown>>
    BY <1>12 DEF B!ClearNotice, B!SetSeed
  <2>2. row' \in Rows /\ row'.branch = row.branch
    BY <1>0, <2>1 DEF Rows
  <2>3. /\ command' \in [Process -> Tasks] /\ command'[p].at = "rest"
        /\ \A q \in Process : q # p => command'[q] = command[q]
    BY <1>0, <2>1, Rests
  <2>4. row.branch \in shown
    BY <2>1 DEF BranchInv, SeenInv
  <2> QED BY <2>1, <2>2, <2>3, <2>4, StepKeeps
<1>13. ASSUME NEW p \in Process, B!Spawn(p) PROVE BranchInv'
  <2>1. (B!Goto(p, "register") \/ B!Goto(p, "acquire")) /\ UNCHANGED <<row, refs, shown>>
    BY <1>13 DEF B!Spawn, B!Goto
  <2>2. /\ command' \in [Process -> Tasks] /\ command'[p].at \in {"register", "acquire"}
        /\ \A q \in Process : q # p => command'[q] = command[q]
    BY <1>0, <2>1, GotoGoes DEF Steps
  <2> QED BY <1>1, <2>1, <2>2
<1>14. ASSUME NEW p \in Process, B!Register(p) PROVE BranchInv'
  <2>1. B!Goto(p, "acquire") /\ UNCHANGED <<refs, shown>>
    BY <1>14 DEF B!Register
  <2>2. /\ command' \in [Process -> Tasks] /\ command'[p].at = "acquire"
        /\ \A q \in Process : q # p => command'[q] = command[q]
    BY <1>0, <2>1, GotoGoes DEF Steps
  <2>3. CASE UNCHANGED row
    BY <1>1, <2>1, <2>2, <2>3
  <2>4. CASE B!Fill(B!Detect, "notice")
    <3>1. /\ row' \in Rows
          /\ row.branch = NoBranch => row'.seed = "notice"
          /\ row.branch # NoBranch => row'.branch = row.branch /\ row'.seed = row.seed
      BY <1>0, <2>4, DetectsABranch, Fills
    <3>2. command'[p].at \notin {"print", "told"}
      BY <2>2
    <3> QED BY <1>00, <2>1, <2>2, <3>1, <3>2, StepKeeps
  <2> QED BY <1>14, <2>3, <2>4 DEF B!Register
<1>15. ASSUME NEW p \in Process, B!Acquire(p) PROVE BranchInv'
  <2>1. /\ row' = [row EXCEPT !.known = TRUE] /\ command' = [command EXCEPT ![p] = B!Idle] /\ UNCHANGED <<refs, shown>>
    BY <1>15 DEF B!Acquire
  <2>2. row' \in Rows /\ row'.branch = row.branch /\ row'.seed = row.seed
    BY <1>0, <2>1 DEF Rows
  <2>3. /\ command' \in [Process -> Tasks] /\ command'[p].at = "rest"
        /\ \A q \in Process : q # p => command'[q] = command[q]
    BY <1>0, <2>1, Rests
  <2>4. command'[p].at \notin {"print", "told"} /\ shown \subseteq shown' /\ refs' = refs
    BY <2>1, <2>3
  <2>5. row'.branch # NoBranch => row'.branch \in shown' \/ row'.seed = "notice"
    BY <1>00, <2>1, <2>2
  <2> QED BY <2>2, <2>3, <2>4, <2>5, StepKeeps
<1>16. ASSUME NEW p \in Process, B!Dies(p) PROVE BranchInv'
  <2>1. command' = [command EXCEPT ![p] = B!Idle] /\ UNCHANGED <<row, refs, shown>>
    BY <1>16 DEF B!Dies
  <2>2. /\ command' \in [Process -> Tasks] /\ command'[p].at = "rest"
        /\ \A q \in Process : q # p => command'[q] = command[q]
    BY <1>0, <2>1, Rests
  <2> QED BY <1>1, <2>1, <2>2
<1> QED BY <1>2, <1>3, <1>4, <1>5, <1>7, <1>8, <1>9, <1>10, <1>11, <1>12, <1>13, <1>14, <1>15, <1>16 DEF B!Next

LEMMA BranchSound == SumSpec => []BranchInv
<1>1. SumInit => BranchInv
  BY BranchStarts DEF SumInit
<1>2. ASSUME BranchInv, [SumNext]_all PROVE BranchInv'
  <2>1. CASE B!Next
    BY <1>2, <2>1, BranchStep
  <2>2. CASE UNCHANGED branchSide
    BY <1>2, <2>2 DEF branchSide, BranchInv, BranchType, SeenInv
  <2> QED BY <1>2, <2>1, <2>2 DEF SumNext, all
<1> QED BY <1>1, <1>2, PTL DEF SumSpec

\* The branch the gate reads is one the lead has seen, or under notice (GateBranch).
THEOREM NoBranchUnseen == SumSpec => []BranchSeen
<1>1. BranchInv => BranchSeen
  BY DEF BranchInv, SeenInv, BranchSeen, B!BranchSeen
<1> QED BY <1>1, BranchSound, PTL

--------------------------------------------------------------------------------
(* GateChange: branches, approvals, merges.                                *)

Commits  == [tree : G!Tree, by : {"lead", "worker"}]
Stages   == {"rest", "base", "suite", "check", "forward"}
Givers   == {"none", "human", "auto"}
Tokens   == [by : Givers, sha : Seq(Commits), grants : SUBSET G!Path]
Verdicts == [pass : BOOLEAN, sha : Seq(Commits), by : Givers, asha : Seq(Commits)]
Merging  == [at : Stages, sha : Seq(Commits), base : Seq(Commits), by : Givers, grants : SUBSET G!Path]

ChangeType ==
  /\ trunk \in Seq(Commits) /\ trunk # << >>
  /\ tip \in Seq(Commits) /\ tip # << >>
  /\ approval \in Tokens
  /\ reviewed \in Verdicts
  /\ memo = [p \in Gater |-> memo[p]]
  /\ merge \in [Gater -> Merging]

\* The lead's commits of a branch are among its first n.
LedWithin(c, n) == \A i \in 1..Len(c) : c[i].by = "lead" => i <= n

Harmless(b, c) == G!Touched(G!Tip(b), G!Tip(c)) = {} \/ G!Waives(G!Tip(b))

\* What an approval of the gate itself, and of a person, says of its commit: to be
\* merged into b, with ap the commits a person has approved.
Vouched(by, c, b, ap) ==
  /\ LedWithin(c, Len(b))
  /\ by = "human" => c \in ap
  /\ by = "auto" /\ G!IsPrefix(b, c) => Harmless(b, c)

\* A merge: past its base, past its suite and past its check.
MergeOk(m, mem, b, gr, ap) ==
  /\ m.grants \subseteq gr
  /\ LedWithin(m.sha, Len(b))
  /\ m.at \in {"suite", "check", "forward"} =>
       /\ ~G!Blocking(G!Tip(m.base), G!Tip(m.sha))
       /\ G!Waives(G!Tip(m.base)) \/ G!Touched(G!Tip(m.base), G!Tip(m.sha)) \subseteq gr
  /\ m.at \in {"check", "forward"} /\ G!Keyed(m.base) => G!Key(m.sha, m.base) \in mem
  /\ m.at = "forward" =>
       /\ LedWithin(m.sha, Len(m.base))
       /\ b = m.base \/ (Len(m.base) < Len(b) /\ b[Len(m.base) + 1].by = "lead")
       /\ Harmless(m.base, m.sha) \/ m.sha \in ap

ChangeInv ==
  /\ ChangeType
  /\ LedWithin(tip, Len(trunk))
  /\ approval.grants \subseteq granted
  /\ Vouched(approval.by, approval.sha, trunk, approved)
  /\ Vouched(reviewed.by, reviewed.asha, trunk, approved)
  /\ \A p \in Gater : /\ merge[p].at # "rest" => p \in Merger
                      /\ MergeOk(merge[p], memo[p], trunk, granted, approved)

LEMMA PrefixAgrees ==
  ASSUME NEW b \in Seq(Commits), NEW c \in Seq(Commits), G!IsPrefix(b, c)
  PROVE  Len(b) <= Len(c) /\ \A i \in 1..Len(b) : c[i] = b[i]
<1>1. Len(b) <= Len(c) /\ SubSeq(b, 1, Len(b)) = SubSeq(c, 1, Len(b))
  BY DEF G!IsPrefix
<1>2. ASSUME NEW i \in 1..Len(b) PROVE c[i] = b[i]
  <2>1. SubSeq(b, 1, Len(b))[i] = b[i] /\ SubSeq(c, 1, Len(b))[i] = c[i]
    BY <1>1
  <2> QED BY <1>1, <2>1
<1> QED BY <1>1, <1>2

LEMMA EditsKeepTrees ==
  ASSUME NEW t \in G!Tree, NEW e \in Edits PROVE G!Edited(t, e) \in G!Tree
<1>1. \A x \in e : x[2] \in G!Content
  BY MergeAssumption
<1>2. ASSUME NEW f \in G!Path
      PROVE  (IF \E x \in e : x[1] = f THEN (CHOOSE x \in e : x[1] = f)[2] ELSE t[f]) \in G!Content
  <2>1. CASE \E x \in e : x[1] = f
    <3>1. (CHOOSE x \in e : x[1] = f) \in e
      BY <2>1, Zenon
    <3> QED BY <1>1, <2>1, <3>1
  <2>2. CASE ~ \E x \in e : x[1] = f
    BY <2>2 DEF G!Tree
  <2> QED BY <2>1, <2>2
<1> QED BY <1>2 DEF G!Edited, G!Tree

LEMMA CommitsAppend ==
  ASSUME NEW c \in Seq(Commits), c # << >>, NEW e \in Edits, NEW who \in {"lead", "worker"}
  PROVE  /\ G!Commit(c, e, who) \in Seq(Commits)
         /\ Len(G!Commit(c, e, who)) = Len(c) + 1
         /\ G!Commit(c, e, who)[Len(c) + 1].by = who
         /\ \A i \in 1..Len(c) : G!Commit(c, e, who)[i] = c[i]
<1> DEFINE x == [tree |-> G!Edited(G!Tip(c), e), by |-> who]
<1>1. G!Tip(c) \in G!Tree
  <2>1. Len(c) \in 1..Len(c)
    OBVIOUS
  <2>2. c[Len(c)] \in Commits
    BY <2>1
  <2>3. c[Len(c)].tree \in G!Tree
    BY <2>2 DEF Commits
  <2> QED BY <2>3 DEF G!Tip, G!Last
<1>2. x \in Commits /\ x.by = who
  BY <1>1, EditsKeepTrees DEF Commits
<1>3. G!Commit(c, e, who) = Append(c, x)
  BY DEF G!Commit
<1> HIDE DEF x
<1> QED BY <1>2, <1>3

\* A push of the lead: what was vouched for is no longer ahead of the branch.
LEMMA PushKeepsVouched ==
  ASSUME NEW b \in Seq(Commits), NEW d \in Seq(Commits), NEW c \in Seq(Commits), NEW by, NEW ap,
         Len(d) = Len(b) + 1, d[Len(d)].by = "lead", Vouched(by, c, b, ap)
  PROVE  Vouched(by, c, d, ap)
<1>1. LedWithin(c, Len(b)) /\ LedWithin(c, Len(d))
  BY DEF Vouched, LedWithin
<1>2. ~G!IsPrefix(d, c)
  <2>1. SUFFICES ASSUME G!IsPrefix(d, c) PROVE FALSE
    OBVIOUS
  <2>2. Len(d) <= Len(c) /\ c[Len(d)] = d[Len(d)]
    BY <2>1, PrefixAgrees
  <2> QED BY <1>1, <2>2 DEF LedWithin
<1> QED BY <1>1, <1>2 DEF Vouched

LEMMA PushKeepsMerge ==
  ASSUME NEW b \in Seq(Commits), NEW d \in Seq(Commits), NEW m \in Merging, NEW mem, NEW gr, NEW ap,
         Len(d) = Len(b) + 1, d[Len(d)].by = "lead", \A i \in 1..Len(b) : d[i] = b[i],
         MergeOk(m, mem, b, gr, ap)
  PROVE  MergeOk(m, mem, d, gr, ap)
<1>1. LedWithin(m.sha, Len(d))
  BY DEF MergeOk, LedWithin
<1>2. ASSUME m.at = "forward" PROVE Len(m.base) < Len(d) /\ d[Len(m.base) + 1].by = "lead"
  <2>1. m.base \in Seq(Commits)
    BY DEF Merging
  <2>2. CASE b = m.base
    BY <2>2
  <2>3. CASE Len(m.base) < Len(b) /\ b[Len(m.base) + 1].by = "lead"
    BY <2>1, <2>3
  <2> QED BY <1>2, <2>2, <2>3 DEF MergeOk
<1> QED BY <1>1, <1>2 DEF MergeOk

LEMMA MoreIsKnown ==
  ASSUME NEW m, NEW mem, NEW mem2, NEW b, NEW gr, NEW gr2, NEW ap, NEW ap2,
         mem \subseteq mem2, gr \subseteq gr2, ap \subseteq ap2, MergeOk(m, mem, b, gr, ap)
  PROVE  MergeOk(m, mem2, b, gr2, ap2)
  BY DEF MergeOk

LEMMA NoMergeIsOk ==
  /\ G!NoMerge \in Merging /\ G!NoMerge.at = "rest"
  /\ \A mem, b, gr, ap : MergeOk(G!NoMerge, mem, b, gr, ap)
<1>1. /\ G!NoMerge.at = "rest" /\ G!NoMerge.sha = << >> /\ G!NoMerge.grants = {}
      /\ G!NoMerge \in Merging
  BY DEF G!NoMerge, Merging, Stages, Givers
<1>2. \A n : LedWithin(<< >>, n)
  BY DEF LedWithin
<1> QED BY <1>1, <1>2 DEF MergeOk

LEMMA NothingIsVouched ==
  /\ G!NoToken \in Tokens /\ G!NoVerdict \in Verdicts
  /\ G!NoToken.grants = {}
  /\ \A b, ap : Vouched(G!NoToken.by, G!NoToken.sha, b, ap)
  /\ \A b, ap : Vouched(G!NoVerdict.by, G!NoVerdict.asha, b, ap)
<1>1. /\ G!NoToken \in Tokens /\ G!NoToken.by = "none" /\ G!NoToken.sha = << >> /\ G!NoToken.grants = {}
  BY DEF G!NoToken, Tokens, Givers
<1>2. G!NoVerdict.by = "none" /\ G!NoVerdict.asha = << >>
  BY DEF G!NoVerdict
<1>3. G!NoVerdict \in Verdicts
  <2>1. FALSE \in BOOLEAN /\ << >> \in Seq(Commits) /\ "none" \in Givers
    BY DEF Givers
  <2> QED BY <2>1, Zenon DEF G!NoVerdict, Verdicts
<1>4. \A n : LedWithin(<< >>, n)
  BY DEF LedWithin
<1> QED BY <1>1, <1>2, <1>3, <1>4 DEF Vouched

LEMMA TokensHold ==
  ASSUME NEW by \in Givers, NEW c \in Seq(Commits), NEW gs \in SUBSET G!Path
  PROVE  /\ [by |-> by, sha |-> c, grants |-> gs] \in Tokens
         /\ [by |-> by, sha |-> c, grants |-> gs].by = by
         /\ [by |-> by, sha |-> c, grants |-> gs].sha = c
         /\ [by |-> by, sha |-> c, grants |-> gs].grants = gs
  BY DEF Tokens

LEMMA ChangeStarts == G!Init => ChangeInv
<1> SUFFICES ASSUME G!Init PROVE ChangeInv
  OBVIOUS
<1>1. PICK t \in G!Roots : trunk = <<[tree |-> t, by |-> "lead"]>>
  BY DEF G!Init
<1>2. /\ tip = trunk /\ approval = G!NoToken /\ reviewed = G!NoVerdict
      /\ memo = [p \in Gater |-> {}] /\ merge = [p \in Gater |-> G!NoMerge]
      /\ granted = {} /\ approved = {}
  BY DEF G!Init
<1>3. G!First \in G!Tree
  BY DEF G!First, G!Tree, G!Path, G!Content
<1>4. t \in G!Tree
  BY <1>3 DEF G!Roots, G!Tree, G!Content
<1>5. [tree |-> t, by |-> "lead"] \in Commits
  BY <1>4 DEF Commits
<1>6. trunk \in Seq(Commits) /\ Len(trunk) = 1 /\ trunk # << >>
  BY <1>1, <1>5
<1>7. ChangeType
  BY <1>2, <1>6, NoMergeIsOk, NothingIsVouched DEF ChangeType
<1>8. LedWithin(tip, Len(trunk))
  BY <1>2, <1>6 DEF LedWithin
<1> QED BY <1>2, <1>7, <1>8, NoMergeIsOk, NothingIsVouched DEF ChangeInv

--------------------------------------------------------------------------------
(* Steps.                                                                  *)

\* A step that leaves the default branch and what is under way alone.
LEMMA MergesKept ==
  ASSUME ChangeInv, UNCHANGED <<trunk, merge>>, \A p \in Gater : memo[p] \subseteq memo'[p], granted \subseteq granted', approved \subseteq approved'
  PROVE  \A p \in Gater : /\ merge'[p].at # "rest" => p \in Merger
                          /\ MergeOk(merge'[p], memo'[p], trunk', granted', approved')
<1> SUFFICES ASSUME NEW p \in Gater
             PROVE  /\ merge'[p].at # "rest" => p \in Merger
                    /\ MergeOk(merge'[p], memo'[p], trunk', granted', approved')
  OBVIOUS
<1>1. MergeOk(merge[p], memo[p], trunk, granted, approved) /\ (merge[p].at # "rest" => p \in Merger)
  BY DEF ChangeInv
<1>2. memo[p] \subseteq memo'[p]
  OBVIOUS
<1> QED BY <1>1, <1>2, MoreIsKnown

\* A step of one merge, which leaves the default branch alone.
LEMMA MergeMoves ==
  ASSUME ChangeInv, NEW p \in Gater, NEW m \in Merging, merge' = [merge EXCEPT ![p] = m],
         UNCHANGED <<trunk, granted, approved>>,
         \A q \in Gater : q # p => memo[q] \subseteq memo'[q],
         m.at # "rest" => p \in Merger,
         MergeOk(m, memo'[p], trunk, granted, approved)
  PROVE  /\ merge' \in [Gater -> Merging]
         /\ \A q \in Gater : /\ merge'[q].at # "rest" => q \in Merger
                             /\ MergeOk(merge'[q], memo'[q], trunk', granted', approved')
<1>1. /\ merge' \in [Gater -> Merging] /\ merge'[p] = m
      /\ \A q \in Gater : q # p => merge'[q] = merge[q]
  BY DEF ChangeInv, ChangeType
<1>2. ASSUME NEW q \in Gater, q # p
      PROVE  /\ merge'[q].at # "rest" => q \in Merger
             /\ MergeOk(merge'[q], memo'[q], trunk', granted', approved')
  <2>1. MergeOk(merge[q], memo[q], trunk, granted, approved) /\ (merge[q].at # "rest" => q \in Merger)
    BY DEF ChangeInv
  <2>2. memo[q] \subseteq memo'[q]
    BY <1>2
  <2> QED BY <1>1, <1>2, <2>1, <2>2, MoreIsKnown
<1> QED BY <1>1, <1>2

\* What a suite puts on record.
LEMMA KeptGreen ==
  ASSUME ChangeType, NEW p \in Gater, NEW k, G!Record(p, k)
  PROVE  /\ memo' = [q \in Gater |-> memo'[q]] /\ k \in memo'[p]
         /\ \A q \in Gater : memo[q] \subseteq memo'[q]
<1>1. memo = [q \in Gater |-> memo[q]] /\ memo' = [memo EXCEPT ![p] = memo[p] \cup {k}]
  BY DEF G!Record, ChangeType
<1>2. memo' = [q \in Gater |-> IF q = p THEN memo[p] \cup {k} ELSE memo[q]]
  BY <1>1
<1> QED BY <1>2

LEMMA RunKept ==
  ASSUME ChangeType, NEW p \in Gater, NEW c, NEW b, G!RunsGreen(p, c, b)
  PROVE  /\ memo' = [q \in Gater |-> memo'[q]]
         /\ \A q \in Gater : memo[q] \subseteq memo'[q]
         /\ G!Keyed(b) => G!Key(c, b) \in memo'[p]
<1>1. CASE G!Keyed(b) /\ ~G!Reused(p, c, b)
  BY <1>1, KeptGreen DEF G!RunsGreen
<1>2. CASE ~(G!Keyed(b) /\ ~G!Reused(p, c, b))
  <2>1. memo' = memo
    BY <1>2 DEF G!RunsGreen, G!runVars
  <2> QED BY <1>2, <2>1 DEF ChangeType, G!Reused
<1> QED BY <1>1, <1>2

LEMMA ForwardIsPlain ==
  ASSUME ChangeInv, NEW p \in Gater, merge[p].at = "forward",
         trunk' \in Seq(Commits), trunk' = merge[p].sha, trunk' # trunk,
         Len(trunk) < Len(trunk') /\ \A i \in 1..Len(trunk) : trunk'[i] = trunk[i]
  PROVE  trunk = merge[p].base /\ LedWithin(trunk', Len(trunk))
<1>1. merge[p] \in Merging /\ MergeOk(merge[p], memo[p], trunk, granted, approved) /\ trunk \in Seq(Commits)
  BY DEF ChangeInv, ChangeType
<1>2. merge[p].base \in Seq(Commits) /\ merge[p].sha \in Seq(Commits)
  BY <1>1 DEF Merging
<1>3. LedWithin(merge[p].sha, Len(merge[p].base))
  BY <1>1 DEF MergeOk
<1>4. CASE Len(merge[p].base) < Len(trunk) /\ trunk[Len(merge[p].base) + 1].by = "lead"
  <2>1. Len(merge[p].base) + 1 \in 1..Len(merge[p].sha)
    BY <1>2, <1>4
  <2>2. merge[p].sha[Len(merge[p].base) + 1].by = "lead"
    BY <1>2, <1>4
  <2>3. Len(merge[p].base) + 1 <= Len(merge[p].base)
    BY <1>3, <2>1, <2>2 DEF LedWithin
  <2> QED BY <1>2, <2>3
<1>5. CASE trunk = merge[p].base
  BY <1>3, <1>5
<1> QED BY <1>1, <1>4, <1>5 DEF MergeOk

LEMMA OneMerger == ASSUME ChangeInv, NEW p \in Gater, NEW q \in Gater, merge[p].at # "rest", merge[q].at # "rest"
                   PROVE  p = q
  BY MergeAssumption DEF ChangeInv

LEMMA ChangeStep ==
  ASSUME ChangeInv, G!Next
  PROVE  ChangeInv'
<1>0. ChangeType
  BY DEF ChangeInv
<1>00. /\ trunk \in Seq(Commits) /\ trunk # << >> /\ tip \in Seq(Commits) /\ tip # << >>
       /\ approval \in Tokens /\ reviewed \in Verdicts
       /\ \A p \in Gater : merge[p] \in Merging
  BY <1>0 DEF ChangeType
<1>01. /\ LedWithin(tip, Len(trunk)) /\ approval.grants \subseteq granted
       /\ Vouched(approval.by, approval.sha, trunk, approved)
       /\ Vouched(reviewed.by, reviewed.asha, trunk, approved)
       /\ \A p \in Gater : /\ merge[p].at # "rest" => p \in Merger
                           /\ MergeOk(merge[p], memo[p], trunk, granted, approved)
  BY DEF ChangeInv
<1>1. CASE G!Work
  <2>1. /\ UNCHANGED <<trunk, approval, reviewed, memo, merge, granted, approved>>
        /\ \/ \E e \in Edits, c \in {tip, trunk} : tip' = G!Commit(c, e, "worker")
           \/ Len(tip) > 1 /\ tip' = G!Front(tip)
    BY <1>1 DEF G!Work, G!gateVars, G!runVars, G!seen
  <2>2. tip' \in Seq(Commits) /\ tip' # << >> /\ LedWithin(tip', Len(trunk))
    <3>1. ASSUME NEW e \in Edits, NEW c \in {tip, trunk}, tip' = G!Commit(c, e, "worker")
          PROVE  tip' \in Seq(Commits) /\ tip' # << >> /\ LedWithin(tip', Len(trunk))
      <4>1. c \in Seq(Commits) /\ c # << >> /\ LedWithin(c, Len(trunk))
        BY <1>00, <1>01 DEF LedWithin
      <4>2. /\ tip' \in Seq(Commits) /\ Len(tip') = Len(c) + 1 /\ tip'[Len(c) + 1].by = "worker"
            /\ \A i \in 1..Len(c) : tip'[i] = c[i]
        BY <3>1, <4>1, CommitsAppend
      <4>3. LedWithin(tip', Len(trunk))
        BY <4>1, <4>2 DEF LedWithin
      <4> QED BY <4>1, <4>2, <4>3
    <3>2. CASE Len(tip) > 1 /\ tip' = G!Front(tip)
      <4>1. tip' = SubSeq(tip, 1, Len(tip) - 1)
        BY <3>2 DEF G!Front
      <4>2. /\ tip' \in Seq(Commits) /\ Len(tip') = Len(tip) - 1
            /\ \A i \in 1..Len(tip') : tip'[i] = tip[i]
        BY <1>00, <3>2, <4>1
      <4> QED BY <1>00, <1>01, <3>2, <4>2 DEF LedWithin
    <3> QED BY <2>1, <3>1, <3>2
  <2>3. ChangeType'
    BY <1>0, <2>1, <2>2 DEF ChangeType
  <2> QED BY <1>01, <2>1, <2>2, <2>3 DEF ChangeInv
<1>2. CASE G!Push
  <2>1. UNCHANGED <<tip, approval, reviewed, memo, merge, granted, approved>>
    BY <1>2 DEF G!Push, G!gateVars, G!runVars, G!seen
  <2>2. PICK e \in Edits : trunk' = G!Commit(trunk, e, "lead")
    BY <1>2 DEF G!Push
  <2>3. /\ trunk' \in Seq(Commits) /\ Len(trunk') = Len(trunk) + 1 /\ trunk'[Len(trunk')].by = "lead"
        /\ \A i \in 1..Len(trunk) : trunk'[i] = trunk[i]
    <3>1. trunk \in Seq(Commits) /\ trunk # << >>
      BY <1>00
    <3>2. /\ trunk' \in Seq(Commits) /\ Len(trunk') = Len(trunk) + 1 /\ trunk'[Len(trunk) + 1].by = "lead"
          /\ \A i \in 1..Len(trunk) : trunk'[i] = trunk[i]
      BY <2>2, <3>1, CommitsAppend
    <3> QED BY <3>2
  <2>4. ChangeType'
    BY <1>0, <1>00, <2>1, <2>3 DEF ChangeType
  <2>5. LedWithin(tip', Len(trunk'))
    BY <1>00, <1>01, <2>1, <2>3 DEF LedWithin
  <2>6. approval.sha \in Seq(Commits) /\ reviewed.asha \in Seq(Commits)
    BY <1>00 DEF Tokens, Verdicts
  <2>7. /\ Vouched(approval.by, approval.sha, trunk', approved)
        /\ Vouched(reviewed.by, reviewed.asha, trunk', approved)
    BY <1>00, <1>01, <2>3, <2>6, PushKeepsVouched
  <2>8. \A p \in Gater : MergeOk(merge[p], memo[p], trunk', granted, approved)
    BY <1>00, <1>01, <2>3, PushKeepsMerge
  <2> QED BY <1>01, <2>1, <2>4, <2>5, <2>7, <2>8 DEF ChangeInv
<1>3. CASE G!TokenExpires
  <2>1. approval' = G!NoToken /\ UNCHANGED <<trunk, tip, reviewed, memo, merge, granted, approved>>
    BY <1>3 DEF G!TokenExpires, G!runVars, G!seen
  <2>2. ChangeType'
    BY <1>0, <2>1, NothingIsVouched DEF ChangeType
  <2> QED BY <1>01, <2>1, <2>2, NothingIsVouched DEF ChangeInv
<1>4. ASSUME NEW flag \in BOOLEAN, G!Approve(flag) PROVE ChangeInv'
  <2> DEFINE names == IF flag THEN G!Touched(G!Tip(trunk), G!Tip(tip)) ELSE {}
  <2>1. /\ approval' = [by |-> "human", sha |-> tip, grants |-> names]
        /\ reviewed' = IF reviewed.pass THEN [reviewed EXCEPT !.by = "human", !.asha = tip] ELSE reviewed
        /\ granted' = granted \cup names /\ approved' = approved \cup {tip}
        /\ UNCHANGED <<trunk, tip, memo, merge>>
    BY <1>4 DEF G!Approve, G!runVars
  <2>2. names \in SUBSET G!Path
    BY DEF G!Touched, G!Changed
  <2> HIDE DEF names
  <2>3. "human" \in Givers
    BY DEF Givers
  <2>4. approval' \in Tokens /\ approval'.by = "human" /\ approval'.sha = tip /\ approval'.grants = names
    BY <1>00, <2>1, <2>2, <2>3, TokensHold
  <2>5. /\ reviewed' \in Verdicts
        /\ (reviewed'.by = "human" /\ reviewed'.asha = tip) \/ reviewed' = reviewed
    BY <1>00, <2>1, <2>3 DEF Verdicts
  <2>6. Vouched("human", tip, trunk, approved')
    BY <1>01, <2>1 DEF Vouched
  <2>7. Vouched(reviewed.by, reviewed.asha, trunk, approved')
    BY <1>01, <2>1 DEF Vouched
  <2>8. ChangeType'
    BY <1>0, <2>1, <2>4, <2>5 DEF ChangeType
  <2>9. \A p \in Gater : /\ merge'[p].at # "rest" => p \in Merger
                         /\ MergeOk(merge'[p], memo'[p], trunk', granted', approved')
    BY <2>1, MergesKept
  <2>10. Vouched(reviewed'.by, reviewed'.asha, trunk, approved')
    BY <2>5, <2>6, <2>7
  <2> QED BY <1>01, <2>1, <2>4, <2>6, <2>8, <2>9, <2>10 DEF ChangeInv
<1>5. ASSUME NEW p \in Gater, G!Prep(p) PROVE ChangeInv'
  <2>1. G!Record(p, G!Key(tip, trunk)) /\ UNCHANGED <<trunk, tip, approval, reviewed, merge, granted, approved>>
    BY <1>5 DEF G!Prep, G!gateVars, G!seen
  <2>2. memo' = [q \in Gater |-> memo'[q]] /\ \A q \in Gater : memo[q] \subseteq memo'[q]
    BY <1>0, <2>1, KeptGreen
  <2>3. ChangeType'
    BY <1>0, <2>1, <2>2 DEF ChangeType
  <2>4. \A q \in Gater : /\ merge'[q].at # "rest" => q \in Merger
                         /\ MergeOk(merge'[q], memo'[q], trunk', granted', approved')
    BY <2>1, <2>2, MergesKept
  <2> QED BY <1>01, <2>1, <2>3, <2>4 DEF ChangeInv
<1>6. ASSUME NEW p \in Gater, G!TrustRecord(p) PROVE ChangeInv'
  <2>1. UNCHANGED <<trunk, tip, merge, granted, approved>>
    BY <1>6 DEF G!TrustRecord, G!seen
  <2>2. \A by \in Givers, c \in Seq(Commits) :
          LET v == [pass |-> TRUE, sha |-> tip, by |-> by, asha |-> c]
          IN  v \in Verdicts /\ v.by = by /\ v.asha = c
    <3> SUFFICES ASSUME NEW by \in Givers, NEW c \in Seq(Commits)
                 PROVE  LET v == [pass |-> TRUE, sha |-> tip, by |-> by, asha |-> c]
                        IN  v \in Verdicts /\ v.by = by /\ v.asha = c
      OBVIOUS
    <3>1. TRUE \in BOOLEAN
      OBVIOUS
    <3> QED BY <1>00, <3>1, Zenon DEF Verdicts
  <2>3. "auto" \in Givers /\ "none" \in Givers /\ << >> \in Seq(Commits)
    BY DEF Givers
  <2>4. CASE /\ G!MayMint(G!Tip(trunk), G!Tip(tip)) /\ G!RunsGreen(p, tip, trunk)
             /\ approval' = [by |-> "auto", sha |-> tip, grants |-> {}]
             /\ reviewed' = [pass |-> TRUE, sha |-> tip, by |-> "auto", asha |-> tip]
    <3>1. Vouched("auto", tip, trunk, approved)
      BY <1>01, <2>4 DEF G!MayMint, Vouched, Harmless
    <3>2. approval' \in Tokens /\ approval'.by = "auto" /\ approval'.sha = tip /\ approval'.grants = {}
      BY <1>00, <2>3, <2>4, TokensHold
    <3>3. reviewed' \in Verdicts /\ reviewed'.by = "auto" /\ reviewed'.asha = tip
      BY <1>00, <2>2, <2>3, <2>4
    <3>4. memo' = [q \in Gater |-> memo'[q]] /\ \A q \in Gater : memo[q] \subseteq memo'[q]
      BY <1>0, <2>4, RunKept
    <3>5. ChangeType'
      BY <1>0, <2>1, <3>2, <3>3, <3>4 DEF ChangeType
    <3>6. \A q \in Gater : /\ merge'[q].at # "rest" => q \in Merger
                           /\ MergeOk(merge'[q], memo'[q], trunk', granted', approved')
      BY <2>1, <3>4, MergesKept
    <3> QED BY <1>01, <2>1, <3>1, <3>2, <3>3, <3>5, <3>6 DEF ChangeInv
  <2>5. CASE /\ reviewed' = [pass |-> TRUE, sha |-> tip, by |-> "none", asha |-> << >>]
             /\ UNCHANGED <<approval, memo>>
    <3>1. reviewed' \in Verdicts /\ reviewed'.by = "none" /\ reviewed'.asha = << >>
      BY <1>00, <2>2, <2>3, <2>5
    <3>2. Vouched(reviewed'.by, reviewed'.asha, trunk', approved')
      BY <3>1 DEF Vouched, LedWithin
    <3>3. ChangeType'
      BY <1>0, <2>1, <2>5, <3>1 DEF ChangeType
    <3> QED BY <1>01, <2>1, <2>5, <3>2, <3>3 DEF ChangeInv
  <2> QED BY <1>6, <2>4, <2>5 DEF G!TrustRecord, G!runVars
<1>7. ASSUME NEW p \in Gater, G!Restart(p) PROVE ChangeInv'
  <2>1. /\ merge' = [merge EXCEPT ![p] = G!NoMerge] /\ memo' = [memo EXCEPT ![p] = {}]
        /\ UNCHANGED <<trunk, tip, approval, reviewed, granted, approved>>
    BY <1>7 DEF G!Restart, G!Refuse, G!gateVars, G!seen
  <2>2. memo' = [q \in Gater |-> memo'[q]] /\ \A q \in Gater : q # p => memo'[q] = memo[q]
    <3>1. memo = [q \in Gater |-> memo[q]]
      BY <1>0 DEF ChangeType
    <3>2. memo' = [q \in Gater |-> IF q = p THEN {} ELSE memo[q]]
      BY <2>1, <3>1
    <3> QED BY <3>2
  <2>3. /\ merge' \in [Gater -> Merging]
        /\ \A q \in Gater : /\ merge'[q].at # "rest" => q \in Merger
                            /\ MergeOk(merge'[q], memo'[q], trunk', granted', approved')
    BY <2>1, <2>2, NoMergeIsOk, MergeMoves
  <2>4. ChangeType'
    BY <1>0, <2>1, <2>2, <2>3 DEF ChangeType
  <2> QED BY <1>01, <2>1, <2>3, <2>4 DEF ChangeInv
<1>8. ASSUME NEW p \in Gater, G!MergeBegin(p) PROVE ChangeInv'
  <2> DEFINE t == G!Reminted(tip)
             m == [G!NoMerge EXCEPT !.at = "base", !.sha = tip, !.by = t.by, !.grants = t.grants]
  <2>1. /\ p \in Merger /\ approval' = t /\ merge' = [merge EXCEPT ![p] = m]
        /\ UNCHANGED <<trunk, tip, reviewed, memo, granted, approved>>
    BY <1>8 DEF G!MergeBegin, G!runVars, G!seen
  <2>2. t \in Tokens /\ t.grants \subseteq granted /\ Vouched(t.by, t.sha, trunk, approved)
    <3>1. CASE /\ G!Authorizes(reviewed, tip)
               /\ t = [by |-> reviewed.by, sha |-> tip, grants |-> {}]
      <4>1. reviewed.asha = tip /\ reviewed.by \in Givers
        BY <1>00, <3>1 DEF G!Authorizes, Verdicts
      <4>2. t \in Tokens /\ t.by = reviewed.by /\ t.sha = tip /\ t.grants = {}
        BY <1>00, <3>1, <4>1, TokensHold
      <4> QED BY <1>01, <4>1, <4>2
    <3>2. CASE t = approval
      BY <1>00, <1>01, <3>2
    <3> QED BY <3>1, <3>2 DEF G!Reminted
  <2> HIDE DEF t
  <2>3. m \in Merging /\ m.at = "base" /\ m.sha = tip /\ m.grants = t.grants
    <3>1. t.by \in Givers /\ t.grants \in SUBSET G!Path
      BY <2>2 DEF Tokens
    <3> QED BY <1>00, <3>1, NoMergeIsOk DEF Merging, Stages
  <2> HIDE DEF m
  <2>4. MergeOk(m, memo'[p], trunk, granted, approved)
    BY <1>01, <2>2, <2>3 DEF MergeOk
  <2>5. /\ merge' \in [Gater -> Merging]
        /\ \A q \in Gater : /\ merge'[q].at # "rest" => q \in Merger
                            /\ MergeOk(merge'[q], memo'[q], trunk', granted', approved')
    BY <2>1, <2>3, <2>4, MergeMoves
  <2>6. ChangeType'
    BY <1>0, <2>1, <2>2, <2>5 DEF ChangeType
  <2> QED BY <1>01, <2>1, <2>2, <2>5, <2>6 DEF ChangeInv
<1>9. ASSUME NEW p \in Gater, merge' = [merge EXCEPT ![p] = G!NoMerge],
             approval' \in Tokens, approval'.grants \subseteq granted,
             Vouched(approval'.by, approval'.sha, trunk, approved),
             UNCHANGED <<trunk, tip, reviewed, memo, granted, approved>>
      PROVE  ChangeInv'
  <2>1. /\ merge' \in [Gater -> Merging]
        /\ \A q \in Gater : /\ merge'[q].at # "rest" => q \in Merger
                            /\ MergeOk(merge'[q], memo'[q], trunk', granted', approved')
    BY <1>9, NoMergeIsOk, MergeMoves
  <2>2. ChangeType'
    BY <1>0, <1>9, <2>1 DEF ChangeType
  <2> QED BY <1>01, <1>9, <2>1, <2>2 DEF ChangeInv
<1>10. ASSUME NEW p \in Gater, G!MergeBase(p) PROVE ChangeInv'
  <2>1. merge[p].at = "base" /\ UNCHANGED <<trunk, tip, approval, reviewed, memo, granted, approved>>
    BY <1>10 DEF G!MergeBase, G!gateVars, G!runVars, G!seen
  <2>2. CASE G!Refuse(p)
    BY <1>00, <1>01, <1>9, <2>1, <2>2 DEF G!Refuse
  <2> DEFINE m == [merge[p] EXCEPT !.at = "suite", !.base = trunk]
  <2>3. CASE G!MayChange(p) /\ merge' = [merge EXCEPT ![p] = m]
    <3>1. m \in Merging /\ m.at = "suite" /\ m.sha = merge[p].sha /\ m.base = trunk /\ m.grants = merge[p].grants
      <4>1. merge[p] \in Merging
        BY <1>00
      <4> QED BY <1>00, <4>1 DEF Merging, Stages
    <3> HIDE DEF m
    <3>2. MergeOk(merge[p], memo[p], trunk, granted, approved) /\ p \in Merger
      BY <1>01, <2>1
    <3>3. ~G!Blocking(G!Tip(trunk), G!Tip(m.sha))
      BY <2>3, <3>1 DEF G!MayChange
    <3>4. G!Waives(G!Tip(trunk)) \/ G!Touched(G!Tip(trunk), G!Tip(m.sha)) \subseteq granted
      BY <2>3, <3>1, <3>2 DEF G!MayChange, G!Ungranted, MergeOk
    <3>5. MergeOk(m, memo'[p], trunk, granted, approved)
      BY <3>1, <3>2, <3>3, <3>4 DEF MergeOk
    <3>6. /\ merge' \in [Gater -> Merging]
          /\ \A q \in Gater : /\ merge'[q].at # "rest" => q \in Merger
                              /\ MergeOk(merge'[q], memo'[q], trunk', granted', approved')
      BY <2>1, <2>3, <3>1, <3>2, <3>5, MergeMoves
    <3>7. ChangeType'
      BY <1>0, <2>1, <3>6 DEF ChangeType
    <3> QED BY <1>01, <2>1, <3>6, <3>7 DEF ChangeInv
  <2>4. [merge EXCEPT ![p].at = "suite", ![p].base = trunk] = [merge EXCEPT ![p] = m]
    BY <1>0 DEF ChangeType
  <2> QED BY <1>10, <2>2, <2>3, <2>4 DEF G!MergeBase
<1>11. ASSUME NEW p \in Gater, G!MergeSuite(p) PROVE ChangeInv'
  <2>1. merge[p].at = "suite" /\ UNCHANGED <<trunk, tip, approval, reviewed, granted, approved>>
    BY <1>11 DEF G!MergeSuite, G!gateVars, G!seen
  <2> DEFINE m == [merge[p] EXCEPT !.at = "check"]
  <2>2. CASE G!RunsGreen(p, merge[p].sha, merge[p].base) /\ merge' = [merge EXCEPT ![p] = m]
    <3>1. /\ m \in Merging /\ m.at = "check" /\ m.sha = merge[p].sha
          /\ m.base = merge[p].base /\ m.grants = merge[p].grants
      <4>1. merge[p] \in Merging
        BY <1>00
      <4> QED BY <1>00, <4>1 DEF Merging, Stages
    <3> HIDE DEF m
    <3>2. MergeOk(merge[p], memo[p], trunk, granted, approved) /\ p \in Merger
      BY <1>01, <2>1
    <3>3. /\ memo' = [q \in Gater |-> memo'[q]] /\ \A q \in Gater : memo[q] \subseteq memo'[q]
          /\ G!Keyed(m.base) => G!Key(m.sha, m.base) \in memo'[p]
      BY <1>0, <2>2, <3>1, RunKept
    <3>4. MergeOk(m, memo'[p], trunk, granted, approved)
      BY <2>1, <3>1, <3>2, <3>3 DEF MergeOk
    <3>5. /\ merge' \in [Gater -> Merging]
          /\ \A q \in Gater : /\ merge'[q].at # "rest" => q \in Merger
                              /\ MergeOk(merge'[q], memo'[q], trunk', granted', approved')
      BY <2>1, <2>2, <3>1, <3>2, <3>3, <3>4, MergeMoves
    <3>6. ChangeType'
      BY <1>0, <2>1, <3>3, <3>5 DEF ChangeType
    <3> QED BY <1>01, <2>1, <3>5, <3>6 DEF ChangeInv
  <2>3. CASE G!Refuse(p) /\ UNCHANGED memo
    BY <1>00, <1>01, <1>9, <2>1, <2>3 DEF G!Refuse
  <2>4. [merge EXCEPT ![p].at = "check"] = [merge EXCEPT ![p] = m]
    BY <1>0 DEF ChangeType
  <2> QED BY <1>11, <2>2, <2>3, <2>4 DEF G!MergeSuite, G!runVars
<1>12. ASSUME NEW p \in Gater, G!MergeCheck(p) PROVE ChangeInv'
  <2>1. /\ merge[p].at = "check" /\ UNCHANGED <<trunk, tip, reviewed, memo, granted, approved>>
        /\ approval' = approval \/ approval' = G!NoToken
    BY <1>12 DEF G!MergeCheck, G!runVars, G!seen
  <2>2. approval' \in Tokens /\ approval'.grants \subseteq granted
        /\ Vouched(approval'.by, approval'.sha, trunk, approved)
    BY <1>00, <1>01, <2>1, NothingIsVouched
  <2>3. CASE G!Refuse(p)
    BY <1>9, <2>1, <2>2, <2>3 DEF G!Refuse
  <2> DEFINE m == [merge[p] EXCEPT !.at = "forward"]
  <2>4. CASE /\ G!Unmoved(p) /\ approval.sha = merge[p].sha /\ approval.by # "none"
             /\ merge' = [merge EXCEPT ![p] = m]
    <3>1. /\ m \in Merging /\ m.at = "forward" /\ m.sha = merge[p].sha
          /\ m.base = merge[p].base /\ m.grants = merge[p].grants
      <4>1. merge[p] \in Merging
        BY <1>00
      <4> QED BY <1>00, <4>1 DEF Merging, Stages
    <3> HIDE DEF m
    <3>2. MergeOk(merge[p], memo[p], trunk, granted, approved) /\ p \in Merger
      BY <1>01, <2>1
    <3>3. trunk = m.base /\ G!IsPrefix(trunk, m.sha)
      BY <2>4, <3>1 DEF G!Unmoved
    <3>4. approval.by \in {"human", "auto"} /\ approval.sha = m.sha
      BY <1>00, <2>4, <3>1 DEF Tokens, Givers
    <3>5. Harmless(m.base, m.sha) \/ m.sha \in approved
      BY <1>01, <3>3, <3>4 DEF Vouched
    <3>6. MergeOk(m, memo'[p], trunk, granted, approved)
      BY <2>1, <3>1, <3>2, <3>3, <3>5 DEF MergeOk
    <3>7. /\ merge' \in [Gater -> Merging]
          /\ \A q \in Gater : /\ merge'[q].at # "rest" => q \in Merger
                              /\ MergeOk(merge'[q], memo'[q], trunk', granted', approved')
      BY <2>1, <2>4, <3>1, <3>2, <3>6, MergeMoves
    <3>8. ChangeType'
      BY <1>0, <2>1, <2>2, <3>7 DEF ChangeType
    <3> QED BY <1>01, <2>1, <2>2, <3>7, <3>8 DEF ChangeInv
  <2>5. [merge EXCEPT ![p].at = "forward"] = [merge EXCEPT ![p] = m]
    BY <1>0 DEF ChangeType
  <2> QED BY <1>12, <2>3, <2>4, <2>5 DEF G!MergeCheck
<1>13. ASSUME NEW p \in Gater, G!FastForward(p) PROVE ChangeInv'
  <2>1. merge[p].at = "forward" /\ merge' = [merge EXCEPT ![p] = G!NoMerge]
        /\ UNCHANGED <<tip, memo, granted, approved>>
    BY <1>13 DEF G!FastForward, G!Refuse, G!runVars, G!seen
  <2>2. CASE UNCHANGED <<trunk, approval, reviewed>>
    BY <1>00, <1>01, <1>9, <2>1, <2>2
  <2>3. CASE /\ G!IsPrefix(trunk, merge[p].sha)
             /\ trunk' = merge[p].sha /\ approval' = G!NoToken /\ reviewed' = G!NoVerdict
    <3>1. merge[p].sha \in Seq(Commits)
      BY <1>00 DEF Merging
    <3>2. trunk' \in Seq(Commits) /\ trunk' # << >> /\ Len(trunk) <= Len(trunk')
      BY <1>00, <2>3, <3>1, PrefixAgrees
    <3>3. \A q \in Gater : merge'[q] = G!NoMerge \/ (merge'[q] = merge[q] /\ merge[q].at = "rest")
      <4>1. \A q \in Gater : q = p => merge'[q] = G!NoMerge
        BY <1>0, <2>1 DEF ChangeType
      <4>2. \A q \in Gater : q # p => merge'[q] = merge[q]
        BY <1>0, <2>1 DEF ChangeType
      <4>3. \A q \in Gater : q # p => merge[q].at = "rest"
        BY <2>1, OneMerger
      <4> QED BY <4>1, <4>2, <4>3
    <3>4. ASSUME NEW q \in Gater
          PROVE  /\ merge'[q].at # "rest" => q \in Merger
                 /\ MergeOk(merge'[q], memo'[q], trunk', granted', approved')
      <4>1. CASE merge'[q] = G!NoMerge
        BY <4>1, NoMergeIsOk
      <4>2. CASE merge'[q] = merge[q] /\ merge[q].at = "rest"
        <5>1. merge[q].grants \subseteq granted /\ LedWithin(merge[q].sha, Len(trunk)) /\ merge[q].sha \in Seq(Commits)
          BY <1>00, <1>01 DEF MergeOk, Merging
        <5>2. LedWithin(merge[q].sha, Len(trunk'))
          BY <1>00, <3>2, <5>1 DEF LedWithin
        <5> QED BY <2>1, <4>2, <5>1, <5>2 DEF MergeOk
      <4> QED BY <3>3, <4>1, <4>2
    <3>5. merge' \in [Gater -> Merging]
      BY <1>0, <2>1, NoMergeIsOk DEF ChangeType
    <3>6. ChangeType'
      BY <1>0, <2>1, <2>3, <3>2, <3>5, NothingIsVouched DEF ChangeType
    <3>7. LedWithin(tip', Len(trunk'))
      BY <1>00, <1>01, <2>1, <3>2 DEF LedWithin
    <3> QED BY <2>3, <3>4, <3>6, <3>7, NothingIsVouched DEF ChangeInv
  <2> QED BY <1>13, <2>2, <2>3 DEF G!FastForward, G!gateVars
<1> QED BY <1>1, <1>2, <1>3, <1>4, <1>5, <1>6, <1>7, <1>8, <1>10, <1>11, <1>12, <1>13 DEF G!Next

LEMMA ChangeSound == SumSpec => []ChangeInv
<1>1. SumInit => ChangeInv
  BY ChangeStarts DEF SumInit
<1>2. ASSUME ChangeInv, [SumNext]_all PROVE ChangeInv'
  <2>1. CASE G!Next
    BY <1>2, <2>1, ChangeStep
  <2>2. CASE UNCHANGED changeSide
    BY <1>2, <2>2 DEF changeSide, ChangeInv, ChangeType
  <2> QED BY <1>2, <2>1, <2>2 DEF SumNext, all
<1> QED BY <1>1, <1>2, PTL DEF SumSpec

\* A merge arrives from the base it was checked against, and adds none of the lead's
\* commits.
LEMMA ArrivesFromBase ==
  ASSUME ChangeInv, G!Next, NEW p \in Gater, G!Merges(p)
  PROVE  trunk = merge[p].base
<1>1. merge[p].at = "forward" /\ trunk' # trunk /\ trunk' = merge[p].sha
  BY DEF G!Merges
<1>2. trunk \in Seq(Commits) /\ trunk # << >> /\ merge[p].sha \in Seq(Commits)
  BY DEF ChangeInv, ChangeType, Merging
<1>3. CASE G!Push
  <2>1. PICK e \in Edits : trunk' = G!Commit(trunk, e, "lead")
    BY <1>3 DEF G!Push
  <2>2. /\ Len(trunk') = Len(trunk) + 1
        /\ \A i \in 1..Len(trunk) : trunk'[i] = trunk[i]
    BY <1>2, <2>1, CommitsAppend
  <2> QED BY <1>1, <1>2, <2>2, ForwardIsPlain
<1>4. ASSUME NEW q \in Gater, G!FastForward(q) PROVE trunk = merge[p].base
  <2>1. G!IsPrefix(trunk, merge[q].sha) /\ trunk' = merge[q].sha /\ merge[q].at = "forward"
    BY <1>1, <1>4 DEF G!FastForward
  <2>2. merge[q].sha = merge[p].sha
    BY <1>1, <2>1
  <2>3. Len(trunk) <= Len(trunk') /\ \A i \in 1..Len(trunk) : trunk'[i] = trunk[i]
    BY <1>1, <1>2, <2>1, <2>2, PrefixAgrees
  <2>4. Len(trunk) # Len(trunk')
    BY <1>1, <1>2, <2>3
  <2> QED BY <1>1, <1>2, <2>3, <2>4, ForwardIsPlain
<1>5. G!Push \/ \E q \in Gater : G!FastForward(q)
  BY <1>1 DEF G!Next, G!Work, G!TokenExpires, G!Approve, G!Prep, G!TrustRecord, G!Restart,
              G!MergeBegin, G!MergeBase, G!MergeSuite, G!MergeCheck
<1> QED BY <1>3, <1>4, <1>5

\* The gate is changed by no merge the lead has not approved: the files it touches are
\* named by an approval, unless the default branch waives that (GateChange).
THEOREM GateChangesNamed == SumSpec => GateChangeNamed
<1>1. ASSUME ChangeInv, [SumNext]_all, NEW p \in Gater, G!Merges(p)
      PROVE  /\ ~G!Blocking(G!Tip(trunk), G!Tip(trunk'))
             /\ G!Waives(G!Tip(trunk)) \/ G!Touched(G!Tip(trunk), G!Tip(trunk')) \subseteq granted
             /\ G!Waives(G!Tip(trunk)) \/ G!Touched(G!Tip(trunk), G!Tip(trunk')) = {} \/ trunk' \in approved
  <2>1. merge[p].at = "forward" /\ trunk' # trunk /\ trunk' = merge[p].sha
    BY <1>1 DEF G!Merges
  <2>2. G!Next
    BY <1>1, <2>1 DEF SumNext, all, changeSide
  <2>3. trunk = merge[p].base
    BY <1>1, <2>2, ArrivesFromBase
  <2>4. MergeOk(merge[p], memo[p], trunk, granted, approved)
    BY <1>1 DEF ChangeInv
  <2> QED BY <2>1, <2>3, <2>4 DEF MergeOk, Harmless
<1>2. ChangeInv /\ [SumNext]_all => [\A p \in Gater : G!Merges(p) =>
        LET base == G!Tip(trunk)
            rev  == G!Tip(trunk')
        IN /\ ~G!Blocking(base, rev)
           /\ G!Waives(base) \/ G!Touched(base, rev) \subseteq granted
           /\ G!Waives(base) \/ G!Touched(base, rev) = {} \/ trunk' \in approved]_changeSide
  BY <1>1
<1> QED BY <1>2, ChangeSound, PTL DEF SumSpec, GateChangeNamed, G!GateChangeNamed, G!vars, changeSide

\* A merge stands on a suite its own process has run green on the merged tree
\* (GateChange).
THEOREM SuitesOwnGreen == SumSpec => OwnGreen
<1>1. ASSUME ChangeInv, [SumNext]_all, NEW p \in Gater, G!Merges(p), G!Keyed(trunk)
      PROVE  <<G!Tip(trunk'), G!Script(G!Tip(trunk))>> \in memo[p]
  <2>1. merge[p].at = "forward" /\ trunk' # trunk /\ trunk' = merge[p].sha
    BY <1>1 DEF G!Merges
  <2>2. G!Next
    BY <1>1, <2>1 DEF SumNext, all, changeSide
  <2>3. trunk = merge[p].base
    BY <1>1, <2>2, ArrivesFromBase
  <2>4. MergeOk(merge[p], memo[p], trunk, granted, approved)
    BY <1>1 DEF ChangeInv
  <2> QED BY <1>1, <2>1, <2>3, <2>4 DEF MergeOk, G!Key
<1>2. ChangeInv /\ [SumNext]_all => [\A p \in Gater : G!Merges(p) /\ G!Keyed(trunk) =>
        <<G!Tip(trunk'), G!Script(G!Tip(trunk))>> \in memo[p]]_changeSide
  BY <1>1
<1> QED BY <1>2, ChangeSound, PTL DEF SumSpec, OwnGreen, G!OwnGreen, G!vars, changeSide

--------------------------------------------------------------------------------
(* WatchLock.                                                               *)

\* A lock is held by the process that has its inode open, and by no other.
LockerInv ==
  /\ \A p \in Proc : pc[p] \in Locked => fd[p] \in Inode /\ locker[fd[p]] = p
  /\ \A p \in Proc : pc[p] = "flock" => fd[p] \in Inode
  /\ \A p \in Proc : pc[p] \in Outside => fd[p] = NoInode
  /\ \A i \in Inode : locker[i] # Nobody =>
       pc[locker[i]] \in Locked /\ fd[locker[i]] = i

\* The path names the inode of whoever owns the lock.
PathInv == \A p \in Proc : Owner(p) => path = fd[p]

\* Between its write and its unlink the holder's inode has its record.
RecordInv ==
  \A p \in Proc :
    pc[p] \in {"held", "unlink"} => content[fd[p]] = [pid |-> p, token |-> token[p]]

\* A record, in a file or kept by a watcher, is that of a process that had
\* started, with the token it still has.
TrueRecord(r) ==
  r # Empty => token[r.pid] = r.token /\ (r.pid \in Watcher => pc[r.pid] # "new")

TruthInv ==
  /\ \A i \in Inode : TrueRecord(content[i])
  /\ \A p \in Proc : TrueRecord(seen[p])

\* What a watcher has classified stays an orphan's: dead, or of another
\* session.
OrphanInv ==
  /\ \A p \in Proc : pc[p] \in {"inspect", "reap"} => p \in Watcher
  /\ \A p \in Proc : pc[p] = "reap" =>
       /\ seen[p] # Empty
       /\ pc[seen[p].pid] \in {"gone", "stranger"} \/ seen[p].token # token[p]

IInv == TypeOK /\ LockerInv /\ PathInv /\ RecordInv /\ TruthInv /\ OrphanInv

-----------------------------------------------------------------------------
(* Facts about one step *)

LEMMA Disjoint ==
  /\ Owning \subseteq Locked
  /\ Outside \cap Locked = {}
  /\ "flock" \notin Outside \cup Locked
BY DEF Owning, Locked, Outside

\* Two processes never own the lock: both would have the lock of the inode at
\* the path.
LEMMA OneOwner ==
  ASSUME TypeOK, LockerInv, PathInv, NEW p \in Proc, NEW q \in Proc, Owner(p), Owner(q)
  PROVE  p = q
<1>1. pc[p] \in Locked /\ pc[q] \in Locked
  BY Disjoint DEF Owner
<1>2. locker[fd[p]] = p /\ locker[fd[q]] = q
  BY <1>1 DEF LockerInv
<1>3. fd[p] = fd[q]
  BY DEF PathInv
<1> QED BY <1>2, <1>3

LEMMA InitTypeOK == Init => TypeOK
BY LockAssumption DEF Init, TypeOK, Token, Session, NoToken, SweepToken, PC, Outside

LEMMA NextTypeOK ==
  ASSUME TypeOK, [Next]_vars
  PROVE  TypeOK'
<1> USE LockAssumption DEF TypeOK, PC, Outside, Owning, Locked, Goto
<1>1. ASSUME NEW p \in Proc, Arm(p) PROVE TypeOK'
  BY <1>1 DEF Arm, Token, Session, NoToken
<1>2. ASSUME NEW p \in Proc, Reset(p) PROVE TypeOK'
  BY <1>2 DEF Reset, Signal, isWatchProcess, Proc
<1>3. ASSUME NEW p \in Proc, Sweep(p) PROVE TypeOK'
  BY <1>3 DEF Sweep
<1>4. ASSUME NEW p \in Proc, OpenFile(p) PROVE TypeOK'
  BY <1>4 DEF OpenFile
<1>5. ASSUME NEW p \in Proc, Flock(p) PROVE TypeOK'
  BY <1>5 DEF Flock, CloseFile
<1>6. ASSUME NEW p \in Proc, CheckLive(p) PROVE TypeOK'
  BY <1>6 DEF CheckLive, CloseFile, Leave
<1>7. ASSUME NEW p \in Proc, Truncate(p) PROVE TypeOK'
  BY <1>7 DEF Truncate
<1>8. ASSUME NEW p \in Proc, WriteRecord(p) PROVE TypeOK'
  <2>1. [pid |-> p, token |-> token[p]] \in Record
    BY DEF Record
  <2> QED BY <1>8, <2>1 DEF WriteRecord
<1>9. ASSUME NEW p \in Proc, RecordFails(p) PROVE TypeOK'
  BY <1>9 DEF RecordFails, CloseFile, Leave
<1>10. ASSUME NEW p \in Proc, Retry(p) PROVE TypeOK'
  BY <1>10 DEF Retry
<1>11. ASSUME NEW p \in Proc, Deadline(p) PROVE TypeOK'
  BY <1>11 DEF Deadline
<1>12. ASSUME NEW p \in Proc, Cancelled(p) PROVE TypeOK'
  BY <1>12 DEF Cancelled
<1>13. ASSUME NEW p \in Proc, Inspect(p) PROVE TypeOK'
  <2>1. Recorded \in Record \cup {Empty}
    BY DEF Recorded
  <2> QED BY <1>13, <2>1 DEF Inspect
<1>14. ASSUME NEW p \in Proc, Reap(p) PROVE TypeOK'
  BY <1>14 DEF Reap, Signal, isWatchProcess, Proc
<1>15. ASSUME NEW p \in Proc, Finish(p) PROVE TypeOK'
  BY <1>15 DEF Finish
<1>16. ASSUME NEW p \in Proc, Unlink(p) PROVE TypeOK'
  BY <1>16 DEF Unlink
<1>17. ASSUME NEW p \in Proc, Close(p) PROVE TypeOK'
  BY <1>17 DEF Close, CloseFile, Leave
<1>18. ASSUME NEW p \in Proc, Crash(p) PROVE TypeOK'
  BY <1>18 DEF Crash, CloseFile
<1>19. ASSUME NEW p \in Proc, ReusePid(p) PROVE TypeOK'
  BY <1>19 DEF ReusePid
<1>20. CASE RestartManager
  BY <1>20 DEF RestartManager, Session
<1>21. CASE UNCHANGED vars
  BY <1>21 DEF vars
<1> QED
  BY <1>1, <1>2, <1>3, <1>4, <1>5, <1>6, <1>7, <1>8, <1>9, <1>10, <1>11, <1>12,
     <1>13, <1>14, <1>15, <1>16, <1>17, <1>18, <1>19, <1>20, <1>21 DEF Next

\* Every variable keeps its type.
THEOREM TypeCorrect == Spec => []TypeOK
BY InitTypeOK, NextTypeOK, PTL DEF Spec

-----------------------------------------------------------------------------
(* What a step does to the files: a process without a file stays without    *)
(* one, a process closes its file, or one of the calls on an open file.     *)

Stay(p) ==
  /\ pc[p] \in Outside
  /\ \E l \in Outside : pc' = [pc EXCEPT ![p] = l]
  /\ UNCHANGED <<path, locker, content, fd>>

Drop(p) ==
  /\ \E l \in Outside : pc' = [pc EXCEPT ![p] = l]
  /\ CloseFile(p)
  /\ UNCHANGED <<path, content>>

Grant(p) ==
  /\ pc[p] = "flock" /\ locker[fd[p]] = Nobody
  /\ pc' = [pc EXCEPT ![p] = "check"]
  /\ locker' = [locker EXCEPT ![fd[p]] = p]
  /\ UNCHANGED <<path, content, fd>>

Pass(p) ==
  /\ pc[p] = "check" /\ path = fd[p]
  /\ pc' = [pc EXCEPT ![p] = "truncate"]
  /\ UNCHANGED <<path, locker, content, fd>>

FileStep(p) ==
  \/ Stay(p) \/ Drop(p) \/ OpenFile(p) \/ Grant(p) \/ Pass(p)
  \/ Truncate(p) \/ WriteRecord(p) \/ Finish(p) \/ Unlink(p)

LEMMA FileSteps ==
  ASSUME TypeOK, [Next]_vars
  PROVE  \/ \E p \in Proc : FileStep(p)
         \/ UNCHANGED <<path, locker, content, fd, pc>>
<1> USE DEF Goto, Outside, FileStep
<1>1. ASSUME NEW p \in Proc,
             Arm(p) \/ Reset(p) \/ Sweep(p) \/ Retry(p) \/ Deadline(p) \/ Cancelled(p)
      PROVE  Stay(p)
  BY <1>1 DEF Stay, Arm, Reset, Sweep, Retry, Deadline, Cancelled
<1>2. ASSUME NEW p \in Proc, Inspect(p) \/ Reap(p) \/ ReusePid(p)
      PROVE  Stay(p)
  BY <1>2 DEF Stay, Inspect, Reap, ReusePid
<1>3. ASSUME NEW p \in Proc, RecordFails(p) \/ Close(p) \/ Crash(p)
      PROVE  Drop(p)
  BY <1>3 DEF Drop, RecordFails, Close, Crash, Leave
<1>4. ASSUME NEW p \in Proc, Flock(p)
      PROVE  Grant(p) \/ Drop(p)
  BY <1>4 DEF Grant, Drop, Flock
<1>5. ASSUME NEW p \in Proc, CheckLive(p)
      PROVE  Pass(p) \/ Drop(p)
  BY <1>5 DEF Pass, Drop, CheckLive, Leave
<1>6. RestartManager \/ UNCHANGED vars => UNCHANGED <<path, locker, content, fd, pc>>
  BY DEF RestartManager, vars
<1> QED BY <1>1, <1>2, <1>3, <1>4, <1>5, <1>6 DEF Next

LEMMA LockerStep ==
  ASSUME TypeOK, LockerInv, NEW p \in Proc, FileStep(p)
  PROVE  LockerInv'
<1> USE LockAssumption DEF TypeOK, LockerInv, Outside, Owning, Locked
<1>1. CASE Stay(p)
  BY <1>1 DEF Stay
<1>2. CASE Drop(p)
  BY <1>2 DEF Drop, CloseFile
<1>3. CASE OpenFile(p)
  BY <1>3 DEF OpenFile, Goto
<1>4. CASE Grant(p)
  BY <1>4 DEF Grant
<1>5. CASE Pass(p)
  BY <1>5 DEF Pass
<1>6. CASE Truncate(p)
  BY <1>6 DEF Truncate, Goto
<1>7. CASE WriteRecord(p)
  BY <1>7 DEF WriteRecord, Goto
<1>8. CASE Finish(p)
  BY <1>8 DEF Finish, Goto
<1>9. CASE Unlink(p)
  BY <1>9 DEF Unlink, Goto
<1> QED BY <1>1, <1>2, <1>3, <1>4, <1>5, <1>6, <1>7, <1>8, <1>9 DEF FileStep

LEMMA PathStep ==
  ASSUME TypeOK, LockerInv, PathInv, NEW p \in Proc, FileStep(p)
  PROVE  PathInv'
<1> SUFFICES ASSUME NEW q \in Proc, Owner(q)' PROVE (path = fd[q])'
  BY DEF PathInv
<1> USE LockAssumption DEF TypeOK, PathInv, Owner, Outside, Owning
<1>1. CASE Stay(p)
  BY <1>1 DEF Stay
<1>2. CASE Drop(p)
  BY <1>2 DEF Drop, CloseFile
<1>3. CASE OpenFile(p)
  \* An owner's inode is at the path, so no new one is made.
  <2>1. Owner(q) /\ q # p
    BY <1>3 DEF OpenFile, Goto
  <2>2. path \in Inode
    BY <2>1, Disjoint DEF LockerInv
  <2> QED BY <1>3, <2>1, <2>2 DEF OpenFile
<1>4. CASE Grant(p)
  BY <1>4 DEF Grant
<1>5. CASE Pass(p)
  BY <1>5 DEF Pass
<1>6. CASE Truncate(p)
  BY <1>6 DEF Truncate, Goto
<1>7. CASE WriteRecord(p)
  BY <1>7 DEF WriteRecord, Goto
<1>8. CASE Finish(p)
  BY <1>8 DEF Finish, Goto
<1>9. CASE Unlink(p)
  \* The path is unlinked by its one owner, who stops being one.
  <2>1. Owner(p) /\ Owner(q) /\ q # p
    BY <1>9 DEF Unlink, Goto
  <2> QED BY <2>1, OneOwner
<1> QED BY <1>1, <1>2, <1>3, <1>4, <1>5, <1>6, <1>7, <1>8, <1>9 DEF FileStep

\* Tokens are taken once, before anything is written.
LEMMA TokenStep ==
  ASSUME TypeOK, [Next]_vars, NEW p \in Proc, pc[p] # "new" \/ p \in Sweeper
  PROVE  token'[p] = token[p]
<1> USE DEF TypeOK
<1>1. ASSUME NEW q \in Proc, Arm(q) PROVE token'[p] = token[p]
  BY <1>1, LockAssumption DEF Arm
<1>2. (\A q \in Proc : ~Arm(q)) => UNCHANGED token
  BY DEF Next, vars, Reset, Sweep, OpenFile, Flock, CheckLive, Truncate, WriteRecord,
     RecordFails, Retry, Deadline, Cancelled, Inspect, Reap, Finish, Unlink, Close,
     Crash, ReusePid, RestartManager
<1> QED BY <1>1, <1>2

LEMMA RecordStep ==
  ASSUME TypeOK, LockerInv, PathInv, RecordInv, [Next]_vars, NEW p \in Proc, FileStep(p)
  PROVE  RecordInv'
<1> SUFFICES ASSUME NEW q \in Proc, pc'[q] \in {"held", "unlink"}
             PROVE  content'[fd'[q]] = [pid |-> q, token |-> token'[q]]
  BY DEF RecordInv
<1> USE LockAssumption DEF TypeOK, RecordInv, Owner, Outside, Owning
<1>1. CASE Stay(p)
  BY <1>1, TokenStep DEF Stay
<1>2. CASE Drop(p)
  BY <1>2, TokenStep DEF Drop, CloseFile
<1>3. CASE OpenFile(p)
  \* A file that a holder has open is not a new one.
  <2>1. Owner(q) /\ q # p /\ pc[q] \in {"held", "unlink"}
    BY <1>3 DEF OpenFile, Goto
  <2>2. fd[q] \in Inode /\ path = fd[q]
    BY <2>1, Disjoint DEF LockerInv, PathInv
  <2>3. content' = content /\ fd'[q] = fd[q]
    BY <1>3, <2>1, <2>2 DEF OpenFile
  <2>4. token'[q] = token[q]
    BY <2>1, TokenStep
  <2> QED BY <2>1, <2>3, <2>4
<1>4. CASE Grant(p)
  BY <1>4, TokenStep DEF Grant
<1>5. CASE Pass(p)
  BY <1>5, TokenStep DEF Pass
<1>6. CASE Truncate(p)
  \* Whoever truncates is an owner, and there is no other.
  <2>1. Owner(p) /\ Owner(q) /\ q # p
    BY <1>6 DEF Truncate, Goto
  <2> QED BY <2>1, OneOwner
<1>7. CASE WriteRecord(p)
  <2>1. CASE q = p
    <3>1. fd[p] \in Inode
      BY <1>7, Disjoint DEF WriteRecord, LockerInv
    <3> QED BY <1>7, <2>1, <3>1, TokenStep DEF WriteRecord, Goto
  <2>2. CASE q # p
    <3>1. Owner(p) /\ Owner(q)
      BY <1>7, <2>2 DEF WriteRecord, Goto
    <3> QED BY <2>2, <3>1, OneOwner
  <2> QED BY <2>1, <2>2
<1>8. CASE Finish(p)
  BY <1>8, TokenStep DEF Finish, Goto
<1>9. CASE Unlink(p)
  BY <1>9, TokenStep DEF Unlink, Goto
<1> QED BY <1>1, <1>2, <1>3, <1>4, <1>5, <1>6, <1>7, <1>8, <1>9 DEF FileStep

\* A watcher that has started is never new again.
LEMMA StartedStep ==
  ASSUME TypeOK, [Next]_vars, NEW p \in Watcher, pc[p] # "new"
  PROVE  pc'[p] # "new"
<1> USE LockAssumption DEF TypeOK, Goto, Proc
<1>1. ASSUME NEW q \in Proc, Arm(q) \/ Reset(q) \/ Sweep(q) \/ OpenFile(q) \/ Truncate(q)
                             \/ WriteRecord(q) \/ Retry(q) \/ Deadline(q) \/ Cancelled(q)
      PROVE  pc'[p] # "new"
  BY <1>1 DEF Arm, Reset, Sweep, OpenFile, Truncate, WriteRecord, Retry, Deadline, Cancelled
<1>2. ASSUME NEW q \in Proc, Inspect(q) \/ Reap(q) \/ Finish(q) \/ Unlink(q) \/ Crash(q)
                             \/ ReusePid(q)
      PROVE  pc'[p] # "new"
  BY <1>2 DEF Inspect, Reap, Finish, Unlink, Crash, ReusePid
<1>3. ASSUME NEW q \in Proc, Flock(q) PROVE pc'[p] # "new"
  BY <1>3 DEF Flock
<1>4. ASSUME NEW q \in Proc, CheckLive(q) PROVE pc'[p] # "new"
  BY <1>4 DEF CheckLive, Leave
<1>5. ASSUME NEW q \in Proc, RecordFails(q) \/ Close(q) PROVE pc'[p] # "new"
  BY <1>5 DEF RecordFails, Close, Leave
<1>6. RestartManager \/ UNCHANGED vars => UNCHANGED pc
  BY DEF RestartManager, vars
<1> QED BY <1>1, <1>2, <1>3, <1>4, <1>5, <1>6 DEF Next

LEMMA TrueRecordStep ==
  ASSUME TypeOK, [Next]_vars, NEW r \in Record \cup {Empty}, TrueRecord(r)
  PROVE  TrueRecord(r)'
<1> SUFFICES ASSUME r # Empty
             PROVE  token'[r.pid] = r.token /\ (r.pid \in Watcher => pc'[r.pid] # "new")
  BY DEF TrueRecord
<1>1. r.pid \in Proc /\ (r.pid \in Watcher \/ r.pid \in Sweeper)
  BY DEF Record, Proc
<1>2. token[r.pid] = r.token /\ (r.pid \in Watcher => pc[r.pid] # "new")
  BY DEF TrueRecord
<1> QED BY <1>1, <1>2, TokenStep, StartedStep

LEMMA TruthStep ==
  ASSUME TypeOK, TruthInv, [Next]_vars
  PROVE  TruthInv'
<1> USE DEF TypeOK
<1> DEFINE Written(i) ==
      \/ content'[i] = content[i]
      \/ content'[i] = Empty
      \/ \E p \in Proc : /\ pc'[p] = "held" /\ token'[p] = token[p]
                        /\ content'[i] = [pid |-> p, token |-> token[p]]
<1> DEFINE Kept(p) ==
      seen'[p] = seen[p] \/ seen'[p] = Empty \/ \E i \in Inode : seen'[p] = content[i]
<1>1. ASSUME NEW i \in Inode PROVE Written(i)
  <2>1. ASSUME NEW p \in Proc, OpenFile(p) \/ Truncate(p) \/ WriteRecord(p)
        PROVE  Written(i)
    BY <2>1 DEF OpenFile, Truncate, WriteRecord, Goto
  <2>2. (\A p \in Proc : ~OpenFile(p) /\ ~Truncate(p) /\ ~WriteRecord(p)) => UNCHANGED content
    BY DEF Next, vars, Arm, Reset, Sweep, Flock, CheckLive, RecordFails, Retry, Deadline,
       Cancelled, Inspect, Reap, Finish, Unlink, Close, Crash, ReusePid, RestartManager
  <2> QED BY <2>1, <2>2
<1>2. ASSUME NEW i \in Inode PROVE TrueRecord(content[i])'
  <2>1. CASE content'[i] = content[i]
    BY <2>1, TrueRecordStep DEF TruthInv, TrueRecord
  <2>2. CASE content'[i] = Empty
    BY <2>2 DEF TrueRecord
  <2>3. ASSUME NEW p \in Proc, pc'[p] = "held", token'[p] = token[p],
               content'[i] = [pid |-> p, token |-> token[p]]
        PROVE  TrueRecord(content[i])'
    BY <2>3 DEF TrueRecord
  <2> QED BY <1>1, <2>1, <2>2, <2>3
<1>3. ASSUME NEW p \in Proc PROVE Kept(p)
  <2>1. ASSUME NEW q \in Proc, Inspect(q) \/ Reap(q)
        PROVE  Kept(p)
    BY <2>1 DEF Inspect, Reap, Recorded
  <2>2. (\A q \in Proc : ~Inspect(q) /\ ~Reap(q)) => UNCHANGED seen
    BY DEF Next, vars, Arm, Reset, Sweep, OpenFile, Flock, CheckLive, Truncate, WriteRecord,
       RecordFails, Retry, Deadline, Cancelled, Finish, Unlink, Close, Crash, ReusePid,
       RestartManager
  <2> QED BY <2>1, <2>2
<1>4. ASSUME NEW p \in Proc PROVE TrueRecord(seen[p])'
  <2>1. CASE seen'[p] = seen[p]
    BY <2>1, TrueRecordStep DEF TruthInv, TrueRecord
  <2>2. CASE seen'[p] = Empty
    BY <2>2 DEF TrueRecord
  <2>3. ASSUME NEW i \in Inode, seen'[p] = content[i]
        PROVE  TrueRecord(seen[p])'
    BY <2>3, TrueRecordStep DEF TruthInv, TrueRecord
  <2> QED BY <1>3, <2>1, <2>2, <2>3
<1> QED BY <1>2, <1>4 DEF TruthInv

\* The dead stay dead.
LEMMA DeadStep ==
  ASSUME TypeOK, [Next]_vars, NEW p \in Proc, pc[p] \in {"gone", "stranger"}
  PROVE  pc'[p] \in {"gone", "stranger"}
<1> USE LockAssumption DEF TypeOK, Goto, Proc
<1>1. ASSUME NEW q \in Proc, Arm(q) \/ Reset(q) \/ Sweep(q) \/ OpenFile(q) \/ Truncate(q)
                             \/ WriteRecord(q) \/ Retry(q) \/ Deadline(q) \/ Cancelled(q)
      PROVE  pc'[p] \in {"gone", "stranger"}
  BY <1>1 DEF Arm, Reset, Sweep, OpenFile, Truncate, WriteRecord, Retry, Deadline, Cancelled
<1>2. ASSUME NEW q \in Proc, Inspect(q) \/ Reap(q) \/ Finish(q) \/ Unlink(q) \/ Crash(q)
                             \/ ReusePid(q)
      PROVE  pc'[p] \in {"gone", "stranger"}
  BY <1>2 DEF Inspect, Reap, Finish, Unlink, Crash, ReusePid
<1>3. ASSUME NEW q \in Proc, Flock(q) PROVE pc'[p] \in {"gone", "stranger"}
  BY <1>3 DEF Flock
<1>4. ASSUME NEW q \in Proc, CheckLive(q) PROVE pc'[p] \in {"gone", "stranger"}
  BY <1>4 DEF CheckLive, Leave
<1>5. ASSUME NEW q \in Proc, RecordFails(q) \/ Close(q) PROVE pc'[p] \in {"gone", "stranger"}
  BY <1>5 DEF RecordFails, Close, Leave
<1>6. RestartManager \/ UNCHANGED vars => UNCHANGED pc
  BY DEF RestartManager, vars
<1> QED BY <1>1, <1>2, <1>3, <1>4, <1>5, <1>6 DEF Next

\* Where a process about to inspect or to reap comes from.
LEMMA ReapFrom ==
  ASSUME TypeOK, [Next]_vars, NEW p \in Proc, pc'[p] \in {"inspect", "reap"}
  PROVE  \/ pc'[p] = pc[p] /\ seen'[p] = seen[p]
         \/ pc'[p] = "inspect" /\ p \in Watcher
         \/ pc[p] = "inspect" /\ Inspect(p)
<1> DEFINE Came == \/ pc'[p] = pc[p] /\ seen'[p] = seen[p]
                   \/ pc'[p] = "inspect" /\ p \in Watcher
                   \/ pc[p] = "inspect" /\ Inspect(p)
<1> USE LockAssumption DEF TypeOK, Goto, Proc
<1>1. ASSUME NEW q \in Proc, Arm(q) \/ Reset(q) \/ Sweep(q) \/ OpenFile(q) \/ Truncate(q)
                             \/ WriteRecord(q) \/ Retry(q) \/ Deadline(q) \/ Cancelled(q)
      PROVE  Came
  BY <1>1 DEF Arm, Reset, Sweep, OpenFile, Truncate, WriteRecord, Retry, Deadline, Cancelled
<1>2. ASSUME NEW q \in Proc, Inspect(q) PROVE Came
  BY <1>2 DEF Inspect
<1>3. ASSUME NEW q \in Proc, Reap(q) \/ Finish(q) \/ Unlink(q) \/ Crash(q) \/ ReusePid(q)
      PROVE  Came
  BY <1>3 DEF Reap, Finish, Unlink, Crash, ReusePid
<1>4. ASSUME NEW q \in Proc, Flock(q) PROVE Came
  BY <1>4 DEF Flock
<1>5. ASSUME NEW q \in Proc, CheckLive(q) PROVE Came
  BY <1>5 DEF CheckLive, Leave
<1>6. ASSUME NEW q \in Proc, RecordFails(q) \/ Close(q) PROVE Came
  BY <1>6 DEF RecordFails, Close, Leave
<1>7. RestartManager \/ UNCHANGED vars => UNCHANGED <<pc, seen>>
  BY DEF RestartManager, vars
<1> QED BY <1>1, <1>2, <1>3, <1>4, <1>5, <1>6, <1>7 DEF Next

\* An orphan's record is of a process that is gone or of another session.
LEMMA OrphanRecord ==
  ASSUME TypeOK, NEW p \in Proc, NEW r \in Record \cup {Empty},
         TrueRecord(r), holderIsOrphan(p, r)
  PROVE  /\ r # Empty /\ r.pid \in Proc /\ r.pid # p
         /\ pc[r.pid] = "gone" \/ r.token # token[p]
<1>1. r # Empty /\ r.pid \in Proc /\ r.pid # p
  BY DEF holderIsOrphan, Record
<1>2. CASE ~procAlive(r.pid)
  BY <1>1, <1>2 DEF procAlive, TrueRecord, Proc
<1>3. CASE r.token # token[p]
  BY <1>1, <1>3
<1> QED BY <1>1, <1>2, <1>3 DEF holderIsOrphan

LEMMA OrphanStep ==
  ASSUME TypeOK, TruthInv, OrphanInv, [Next]_vars
  PROVE  OrphanInv'
<1> USE LockAssumption
<1>1. ASSUME NEW p \in Proc, pc'[p] \in {"inspect", "reap"} PROVE p \in Watcher
  BY <1>1, ReapFrom DEF OrphanInv
<1>2. ASSUME NEW p \in Proc, pc'[p] = "reap"
      PROVE  /\ seen'[p] # Empty
             /\ \/ pc'[seen'[p].pid] \in {"gone", "stranger"}
                \/ seen'[p].token # token'[p]
  <2>1. token'[p] = token[p]
    <3>1. pc[p] # "new"
      BY <1>2, ReapFrom
    <3> QED BY <3>1, TokenStep
  <2>2. \/ pc[p] = "reap" /\ seen'[p] = seen[p]
        \/ Inspect(p)
    BY <1>2, ReapFrom
  <2>3. CASE pc[p] = "reap" /\ seen'[p] = seen[p]
    <3>1. seen[p] \in Record /\ seen[p].pid \in Proc
      BY <2>3 DEF OrphanInv, TypeOK, Record
    <3> QED BY <2>1, <2>3, <3>1, DeadStep DEF OrphanInv
  <2>4. CASE Inspect(p)
    <3>1. holderIsOrphan(p, Recorded) /\ seen'[p] = Recorded
      BY <1>2, <2>4 DEF Inspect, Goto, TypeOK
    <3>2. Recorded \in Record \cup {Empty} /\ TrueRecord(Recorded)
      BY DEF Recorded, TypeOK, TruthInv, TrueRecord
    <3>3. /\ Recorded # Empty /\ Recorded.pid \in Proc
          /\ pc[Recorded.pid] = "gone" \/ Recorded.token # token[p]
      BY <3>1, <3>2, OrphanRecord
    <3> QED BY <2>1, <3>1, <3>3, DeadStep
  <2> QED BY <2>2, <2>3, <2>4
<1> QED BY <1>1, <1>2 DEF OrphanInv

-----------------------------------------------------------------------------
(* The theorems *)

\* The invariants of the files, the records and the classifications together.
THEOREM Inductive == Spec => []IInv
<1>1. Init => IInv
  <2> SUFFICES ASSUME Init PROVE LockerInv /\ PathInv /\ RecordInv /\ TruthInv /\ OrphanInv
    BY InitTypeOK DEF IInv
  <2> QED
    BY LockAssumption DEF Init, LockerInv, PathInv, RecordInv, TruthInv, OrphanInv, Owner,
       TrueRecord, Outside, Owning, Locked
<1>2. IInv /\ [Next]_vars => IInv'
  <2> SUFFICES ASSUME IInv, [Next]_vars PROVE IInv'
    OBVIOUS
  <2> USE DEF IInv
  <2>1. TypeOK' /\ TruthInv' /\ OrphanInv'
    BY NextTypeOK, TruthStep, OrphanStep
  <2>2. CASE \E p \in Proc : FileStep(p)
    BY <2>1, <2>2, LockerStep, PathStep, RecordStep
  <2>3. CASE UNCHANGED <<path, locker, content, fd, pc>>
    <3>1. LockerInv' /\ PathInv'
      BY <2>3 DEF LockerInv, PathInv, Owner
    <3>2. RecordInv'
      BY <2>3, TokenStep DEF RecordInv
    <3> QED BY <2>1, <3>1, <3>2
  <2> QED BY <2>2, <2>3, FileSteps
<1> QED BY <1>1, <1>2, PTL DEF Spec

\* The file at the path is the holder's own and names it.
THEOREM OwnFileAlways == Spec => []OwnFile
<1>1. IInv => OwnFile
  <2> SUFFICES ASSUME IInv, NEW p \in Proc
               PROVE  /\ Owner(p) => path = fd[p]
                      /\ pc[p] \in {"held", "unlink"} =>
                           Recorded = [pid |-> p, token |-> token[p]]
    BY DEF OwnFile
  <2>1. Owner(p) => path = fd[p]
    BY DEF IInv, PathInv
  <2>2. ASSUME pc[p] \in {"held", "unlink"}
        PROVE  Recorded = [pid |-> p, token |-> token[p]]
    <3>1. Owner(p) /\ fd[p] \in Inode
      BY <2>2 DEF Owner, Owning, Locked, IInv, LockerInv
    <3>2. path = fd[p] /\ path # NoInode
      BY <2>1, <3>1, LockAssumption
    <3> QED BY <2>2, <3>2 DEF IInv, RecordInv, Recorded
  <2> QED BY <2>1, <2>2
<1> QED BY <1>1, Inductive, PTL

\* The self-heal signals a running watcher of another session or nobody.
THEOREM ReapSparesOwnAlways == Spec => ReapSparesOwn
<1> DEFINE Spares(p, q) == isWatchProcess(q) /\ token[q] # token[p]
<1>1. ASSUME IInv, [Next]_vars, NEW p \in Proc, NEW q \in Proc,
             pc[p] = "reap", pc'[p] # "reap", q \in term' \ term
      PROVE  Spares(p, q)
  <2>1. \E x \in Proc : Reset(x) \/ Reap(x)
    BY <1>1 DEF Next, vars, Arm, Sweep, OpenFile, Flock, CheckLive, Truncate, WriteRecord,
       RecordFails, Retry, Deadline, Cancelled, Inspect, Finish, Unlink, Close, Crash,
       ReusePid, RestartManager
  <2>2. Reap(p)
    BY <1>1, <2>1 DEF Reset, Reap, Goto, IInv, TypeOK
  <2>3. /\ Recorded = seen[p] /\ seen[p] # Empty
        /\ q = seen[p].pid /\ isWatchProcess(q) /\ procAlive(q)
    BY <1>1, <2>2 DEF Reap, Signal, IInv, TypeOK
  <2>4. token[q] = seen[p].token
    <3>1. TrueRecord(seen[p])
      BY <1>1 DEF IInv, TruthInv
    <3> QED BY <2>3, <3>1 DEF TrueRecord
  <2>5. pc[q] \notin {"gone", "stranger"}
    BY <2>3 DEF isWatchProcess
  <2> QED BY <1>1, <2>3, <2>4, <2>5 DEF IInv, OrphanInv
<1>2. IInv /\ [Next]_vars =>
        [\A p, q \in Proc : pc[p] = "reap" /\ pc'[p] # "reap" /\ q \in term' \ term
           => isWatchProcess(q) /\ token[q] # token[p]]_vars
  BY <1>1
<1> QED BY <1>2, Inductive, PTL DEF Spec, ReapSparesOwn

\* The holder of the refinement mapping, in a state and in the next one.
LEMMA HolderIs ==
  ASSUME IInv
  PROVE  /\ \A p \in Proc : Owner(p) => holder = p
         /\ (\A p \in Proc : ~Owner(p)) => holder = Nobody
<1>1. ASSUME NEW p \in Proc, Owner(p) PROVE holder = p
  <2> DEFINE c == CHOOSE q \in Proc : Owner(q)
  <2>1. c \in Proc /\ Owner(c)
    BY <1>1
  <2>2. c = p
    BY <1>1, <2>1, OneOwner DEF IInv
  <2> QED BY <1>1, <2>2 DEF holder
<1>2. ASSUME \A p \in Proc : ~Owner(p) PROVE holder = Nobody
  BY <1>2 DEF holder
<1> QED BY <1>1, <1>2

\* A step changes at most one process's ownership.
LEMMA OwnerStep ==
  ASSUME IInv, NEW p \in Proc, FileStep(p)
  PROVE  /\ \A q \in Proc : q # p => (Owner(q)' <=> Owner(q))
         /\ Owner(p)' /\ ~Owner(p) => \A q \in Proc : ~Owner(q)
<1> USE DEF IInv, TypeOK, Owner, Goto
<1>1. ASSUME NEW q \in Proc, q # p PROVE Owner(q)' <=> Owner(q)
  BY <1>1 DEF FileStep, Stay, Drop, OpenFile, Grant, Pass, Truncate, WriteRecord, Finish, Unlink
<1>2. ASSUME Owner(p)', ~Owner(p), NEW q \in Proc, Owner(q) PROVE FALSE
  <2>1. Pass(p)
    BY <1>2 DEF FileStep, Stay, Drop, OpenFile, Grant, Pass, Truncate, WriteRecord, Finish,
       Unlink, Owning, Outside
  <2>2. fd[p] = fd[q] /\ pc[p] \in Locked /\ pc[q] \in Locked
    BY <1>2, <2>1, Disjoint DEF Pass, PathInv, Locked
  <2>3. p = q
    BY <2>2 DEF LockerInv
  <2> QED BY <1>2, <2>3
<1> QED BY <1>1, <1>2

LEMMA HolderStep ==
  ASSUME IInv, IInv', [Next]_vars
  PROVE  Lock!Next \/ holder' = holder
<1>1. /\ \A p \in Proc : Owner(p) => holder = p
      /\ (\A p \in Proc : ~Owner(p)) => holder = Nobody
  BY HolderIs
<1>2. /\ \A p \in Proc : Owner(p)' => holder' = p
      /\ (\A p \in Proc : ~Owner(p)') => holder' = Nobody
  <2>1. (IInv => /\ \A p \in Proc : Owner(p) => holder = p
                 /\ (\A p \in Proc : ~Owner(p)) => holder = Nobody)'
    BY HolderIs, PTL
  <2> QED BY <2>1
<1>3. CASE \E p \in Proc : FileStep(p)
  <2>1. PICK p \in Proc : FileStep(p)
    BY <1>3
  <2>2. /\ \A q \in Proc : q # p => (Owner(q)' <=> Owner(q))
        /\ Owner(p)' /\ ~Owner(p) => \A q \in Proc : ~Owner(q)
    BY <2>1, OwnerStep
  <2>3. CASE Owner(p) /\ ~Owner(p)'
    \* The one owner leaves.
    <3>1. \A q \in Proc : ~Owner(q)'
      BY <2>2, <2>3, OneOwner DEF IInv
    <3> QED BY <1>1, <1>2, <2>3, <3>1 DEF Lock!Next, Lock!Release
  <2>4. CASE ~Owner(p) /\ Owner(p)'
    BY <1>1, <1>2, <2>2, <2>4 DEF Lock!Next, Lock!Acquire
  <2>5. CASE Owner(p) <=> Owner(p)'
    BY <1>1, <1>2, <2>2, <2>5
  <2> QED BY <2>3, <2>4, <2>5
<1>4. CASE UNCHANGED <<path, locker, content, fd, pc>>
  <2>1. \A q \in Proc : Owner(q)' <=> Owner(q)
    BY <1>4 DEF Owner
  <2> QED BY <1>1, <1>2, <2>1
<1> QED BY <1>3, <1>4, FileSteps DEF IInv

\* The lock over all the inodes is one lock, handed on through releases only.
THEOREM WatchLockRefines == Spec => ImplementsSingleton
<1>1. Init => Lock!Init
  BY DEF Init, Lock!Init, holder, Owner, Owning
<1>2. IInv /\ IInv' /\ [Next]_vars => [Lock!Next]_holder
  BY HolderStep
<1> QED BY <1>1, <1>2, Inductive, PTL DEF Spec, ImplementsSingleton, Lock!Spec
================================================================================
