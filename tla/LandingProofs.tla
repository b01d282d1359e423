----------------------------- MODULE LandingProofs -----------------------------
(***************************************************************************)
(* Proofs about Landing for any tasks, daemons and consoles, any relation  *)
(* between their changes and any bounds; and about Board, the part beside  *)
(* it, for any number of boards, at the end.                               *)
(***************************************************************************)
EXTENDS MCLandConsole, FiniteSetTheorems, SequenceTheorems, WellFoundedInduction, TLAPS

(***************************************************************************)
(* Commits: what the operators on them return.                             *)
(***************************************************************************)
LEMMA ChangesTyped ==
  ASSUME NEW c \in Commit
  PROVE  Changes(c) \subseteq Change
  BY ElementOfSeq DEF Commit, Changes

LEMMA AheadTyped ==
  ASSUME NEW b, NEW c \in Commit
  PROVE  Ahead(b, c) \subseteq Changes(c)
  BY DEF Ahead, Changes

LEMMA AuthorsTyped ==
  ASSUME NEW cs, cs \subseteq Change
  PROVE  Authors(cs) \subseteq Author
  BY DEF Authors, Change

LEMMA PatchTyped ==
  ASSUME NEW b \in Commit, NEW c \in Commit
  PROVE  Patch(b, c) \in PatchType
  <1> DEFINE new == Ahead(b, c)
  <1>1. new \subseteq Change
    BY AheadTyped, ChangesTyped
  <1>2. Authors(Changes(c) \ new) \subseteq Author
    BY ChangesTyped, AuthorsTyped
  <1>3. QED
    BY <1>1, <1>2 DEF Patch, PatchType

LEMMA RebasedTyped ==
  ASSUME NEW onto \in Commit, NEW c \in Commit
  PROVE  Rebased(onto, c) \in Commit
  <1> DEFINE S == {j \in 1..Len(c) : IsAncestor(SubSeq(c, 1, j), onto)}
  <1>1. Len(c) \in Nat
    BY DEF Commit
  <1>2. IsFiniteSet(1..Len(c))
    BY <1>1, FS_Interval
  <1>3. IsFiniteSet(S)
    BY <1>2, FS_Subset
  <1>4. Fork(onto, c) \in Nat
    BY <1>3, FS_CardinalityType DEF Fork
  <1>5. \A i \in Fork(onto, c) + 1 .. Len(c) : c[i] \in Change
    BY <1>1, <1>4, ElementOfSeq DEF Commit
  <1>6. SubSeq(c, Fork(onto, c) + 1, Len(c)) \in Seq(Change)
    BY <1>1, <1>4, <1>5, SubSeqProperties
  <1>7. QED
    BY <1>6, ConcatProperties DEF Commit, Rebased

LEMMA AppendTyped ==
  ASSUME NEW c \in Commit, NEW a \in Author, NEW n \in Nat
  PROVE  Append(c, [by |-> a, no |-> n]) \in Commit
  <1>1. [by |-> a, no |-> n] \in Change
    BY DEF Change
  <1>2. QED
    BY <1>1, AppendProperties DEF Commit

LEMMA EmptyTyped == <<>> \in Commit
  BY EmptySeq DEF Commit

\* A history of the lead's pushes can be counted.
LEMMA PushedTyped ==
  ASSUME main \in Commit
  PROVE  Cardinality(Pushed) \in Nat
  <1>1. Len(main) \in Nat /\ main \in [1..Len(main) -> Change]
    BY LenProperties DEF Commit
  <1>2. IsFiniteSet(1..Len(main))
    BY <1>1, FS_Interval
  <1>3. main \in Surjection(1..Len(main), Changes(main))
    BY <1>1 DEF Surjection, Changes
  <1>4. IsFiniteSet(Changes(main))
    BY <1>2, <1>3, FS_Surjection
  <1>5. IsFiniteSet(Pushed)
    BY <1>4, FS_Subset DEF Pushed
  <1>6. QED
    BY <1>5, FS_CardinalityType

\* The number of a new commit exists while the worker may still commit.
LEMMA NextNoTyped ==
  ASSUME NEW t \in Task, MayCommit(t)
  PROVE  NextNo(t) \in Nat
  <1>1. MaxCommits \in 1..MaxCommits
    BY LandingAssumption
  <1>2. \E n \in 1..MaxCommits : \A m \in Own(t) : m < n
    BY <1>1 DEF MayCommit
  <1>3. NextNo(t) \in 1..MaxCommits
    BY <1>2 DEF NextNo
  <1>4. QED
    BY <1>3, LandingAssumption

(***************************************************************************)
(* Type correctness.                                                       *)
(***************************************************************************)
LEMMA Blanks ==
  /\ NoPatch \in PatchType /\ NoVerdict \in Verdict /\ NoToken \in Token
  /\ NoEpisode \in Episode /\ NoJob \in Job /\ AtRest \in ProcState
  <1>1. NoPatch \in PatchType
    BY DEF NoPatch, PatchType
  <1>2. NoVerdict \in Verdict
    BY <1>1, EmptyTyped DEF NoVerdict, Verdict
  <1>3. NoToken \in Token /\ NoEpisode \in Episode
    BY EmptyTyped DEF NoToken, Token, NoEpisode, Episode
  <1>4. NoJob \in Job
    BY <1>2, EmptyTyped DEF NoJob, Job, Stage
  <1>5. AtRest \in ProcState
    BY <1>2 DEF AtRest, ProcState
  <1>6. QED
    BY <1>1, <1>2, <1>3, <1>4, <1>5

LEMMA TypeInit == Init => TypeOK
  <1> SUFFICES ASSUME Init
               PROVE  TypeOK
    OBVIOUS
  <1>1. main \in Commit
    BY EmptyTyped DEF Init
  <1>2. \A t \in Task : <<First(t)>> \in Commit
    <2>1. SUFFICES ASSUME NEW t \in Task
                   PROVE  <<First(t)>> \in Seq(Change)
      BY DEF Commit
    <2>2. First(t) \in Change
      BY DEF First, Change, Author
    <2>3. QED
      BY <2>2
  <1>3. head \in [Task -> Commit]
    BY <1>2 DEF Init
  <1>4. /\ verdict \in [Task -> Verdict] /\ token \in [Task -> Token]
        /\ episode \in [Task -> Episode]
    BY Blanks DEF Init
  <1>5. proc \in [Proc -> ProcState] /\ job \in [Proc -> [Task -> Job]]
    BY Blanks DEF Init
  <1>6. QED
    BY <1>1, <1>3, <1>4, <1>5, LandingAssumption DEF Init, TypeOK

LEMMA FaultTyped ==
  ASSUME TypeOK, Faulty
  PROVE  faults' \in 0..MaxFaults
  BY LandingAssumption DEF TypeOK, Faulty

LEMMA WorkerTyped ==
  ASSUME TypeOK, NEW t \in Task, WorkerCommit(t) \/ WorkerRebase(t)
  PROVE  TypeOK'
  <1>1. NextNo(t) \in Nat /\ t \in Author
    BY NextNoTyped DEF WorkerCommit, WorkerRebase, Author
  <1>2. main \in Commit /\ head \in [Task -> Commit]
    BY DEF TypeOK
  <1> DEFINE change == [by |-> t, no |-> NextNo(t)]
  <1>3. Append(head[t], change) \in Commit /\ Append(main, change) \in Commit
    BY <1>1, <1>2, AppendTyped
  <1>4. head' \in [Task -> Commit]
    BY <1>2, <1>3 DEF WorkerCommit, WorkerRebase
  <1>5. QED
    BY <1>4 DEF TypeOK, WorkerCommit, WorkerRebase, rowVars, gateVars

LEMMA PushTyped ==
  ASSUME TypeOK, Push
  PROVE  TypeOK'
  <1>1. Cardinality(Pushed) + 1 \in Nat /\ Lead \in Author
    BY PushedTyped DEF TypeOK, Author
  <1>2. main' \in Commit
    BY <1>1, AppendTyped DEF TypeOK, Push
  <1>3. QED
    BY <1>2 DEF TypeOK, Push, rowVars, gateVars

LEMMA ReviewTyped ==
  ASSUME TypeOK, NEW t \in Task,
         Report(t) \/ Approve(t) \/ TokenExpires(t) \/ Lapse(t)
  PROVE  TypeOK'
  <1>1. CASE Report(t)
    <2>1. episode[t].base \in Commit /\ episode[t].head \in Commit
      BY DEF TypeOK, Episode
    <2>2. Patch(episode[t].base, episode[t].head) \in PatchType
      BY <2>1, PatchTyped
    <2>3. cleared' \subseteq [task : Task, patch : PatchType]
      BY <1>1, <2>2 DEF TypeOK, Report
    <2>4. reports' \in [Task -> {"none", "pass", "block"}]
      BY <1>1 DEF TypeOK, Report
    <2>5. QED
      BY <1>1, <2>3, <2>4 DEF TypeOK, Report, branchVars, rowVars
  <1>2. CASE Approve(t)
    <2>1. token' \in [Task -> Token]
      BY <1>2 DEF TypeOK, Approve, Token
    <2>2. verdict[t] \in Verdict /\ head[t] \in Commit
      BY DEF TypeOK
    <2>3. [verdict[t] EXCEPT !.by = "human", !.asha = head[t]] \in Verdict
      BY <2>2 DEF Verdict
    <2>4. verdict' \in [Task -> Verdict]
      BY <1>2, <2>3 DEF TypeOK, Approve
    <2>5. QED
      BY <1>2, <2>1, <2>4 DEF TypeOK, Approve, branchVars, rowVars
  <1>3. CASE TokenExpires(t)
    <2>1. token' \in [Task -> Token]
      BY <1>3, Blanks DEF TypeOK, TokenExpires
    <2>2. faults' \in 0..MaxFaults
      BY <1>3, FaultTyped DEF TokenExpires
    <2>3. QED
      BY <1>3, <2>1, <2>2 DEF TypeOK, TokenExpires, branchVars, rowVars
  <1>4. CASE Lapse(t)
    <2>1. faults' \in 0..MaxFaults
      BY <1>4, FaultTyped DEF Lapse, TypeOK
    <2>2. claim' \in [Task -> {"free", "gater", "lander"}]
      BY <1>4 DEF TypeOK, Lapse
    <2>3. QED
      BY <1>4, <2>1, <2>2 DEF TypeOK, Lapse, branchVars, gateVars
  <1>5. QED
    BY <1>1, <1>2, <1>3, <1>4

\* What a pass remembers, to cite without the rest of TypeOK.
LEMMA Memory == TypeOK => proc \in [Proc -> ProcState]
  BY DEF TypeOK

\* Where a pass writes nothing but its own memory, that memory is all there is
\* to type.
LEMMA OwnMemoryTyped ==
  ASSUME TypeOK, proc' \in [Proc -> ProcState],
         UNCHANGED <<branchVars, rowVars, gateVars, job, lock, faults>>
  PROVE  TypeOK'
  BY DEF TypeOK, branchVars, rowVars, gateVars

LEMMA ReleasedTyped ==
  ASSUME TypeOK, NEW S, NEW owner
  PROVE  Released(S, owner) \in [Task -> {"free", "gater", "lander"}]
  BY DEF TypeOK, Released

LEMMA SurfaceTyped ==
  ASSUME TypeOK, NEW t \in Task, NEW kind \in {"gate_blocked", "land_rebase_conflict"},
         NEW sha \in Commit, Surface(t, kind, sha)
  PROVE  told' \in [Task -> SUBSET Note]
  BY DEF TypeOK, Surface, Note

LEMMA TakeClaimTyped ==
  ASSUME TypeOK, NEW p \in Proc, NEW t \in Task, NEW owner \in {"gater", "lander"},
         NEW listing \in {"gate", "land"}, TakeClaim(p, t, owner, listing)
  PROVE  TypeOK'
  <1>1. claim' \in [Task -> {"free", "gater", "lander"}]
    BY DEF TypeOK, TakeClaim
  <1>2. proc' \in [Proc -> ProcState]
    <2>1. proc[p].todo \ {t} \in SUBSET Task /\ proc[p].won \cup {t} \in SUBSET Task
      BY Memory DEF ProcState
    <2> DEFINE todo == proc[p].todo \ {t}
               passed == [proc[p] EXCEPT !.at = listing, !.todo = todo]
               won    == [proc[p] EXCEPT !.at = listing, !.todo = todo, !.won = @ \cup {t}]
    <2>2. passed \in ProcState /\ won \in ProcState
      BY <2>1, Memory DEF ProcState
    <2>3. proc' = [proc EXCEPT ![p] = passed] \/ proc' = [proc EXCEPT ![p] = won]
      BY DEF TakeClaim
    <2>4. QED
      BY <2>2, <2>3, Memory
  <1>3. QED
    BY <1>1, <1>2 DEF TypeOK, TakeClaim, branchVars, gateVars

LEMMA GateTaskTyped ==
  ASSUME TypeOK, NEW p \in Proc, NEW t \in Task, GateTask(p, t)
  PROVE  TypeOK'
  <1> USE DEF Gating
  <1>1. CASE GateRead(p, t) \/ GateSkips(p, t)
    <2>1. proc' \in [Proc -> ProcState]
      BY <1>1, Memory DEF GateRead, GateSkips, ProcState
    <2>2. QED
      BY <1>1, <2>1, OwnMemoryTyped DEF GateRead, GateSkips
  <1>2. CASE GateClaim(p, t)
    BY <1>2, TakeClaimTyped DEF GateClaim
  <1>3. CASE GatePrep(p, t)
    <2>1. head[t] \in Commit /\ main \in Commit
      BY DEF TypeOK
    <2> DEFINE prepped == [outcome |-> "open", head |-> head[t], base |-> main]
               stale   == [episode[t] EXCEPT !.outcome = "blocked", !.head = head[t]]
    <2>2. episode' \in [Task -> Episode]
      <3>1. episode \in [Task -> Episode]
        BY DEF TypeOK
      <3>2. prepped \in Episode /\ stale \in Episode
        BY <2>1, <3>1 DEF Episode
      <3>3. \/ episode' = [episode EXCEPT ![t] = prepped]
            \/ episode' = [episode EXCEPT ![t] = stale]
        BY <1>3 DEF GatePrep
      <3>4. QED
        BY <3>1, <3>2, <3>3
    <2>3. told' \in [Task -> SUBSET Note]
      BY <1>3, <2>1, SurfaceTyped DEF TypeOK, GatePrep
    <2>4. proc' \in [Proc -> ProcState]
      <3>1. [proc[p] EXCEPT !.todo = @ \ {t}, !.busy = TRUE] \in ProcState
        BY Memory DEF ProcState
      <3>2. QED
        BY <1>3, <3>1, Memory DEF GatePrep
    <2>5. reports' \in [Task -> {"none", "pass", "block"}]
      BY <1>3 DEF TypeOK, GatePrep
    <2>6. QED
      BY <1>3, <2>2, <2>3, <2>4, <2>5 DEF TypeOK, GatePrep, branchVars
  <1>4. CASE GateBlocks(p, t)
    <2>1. episode' \in [Task -> Episode]
      BY <1>4 DEF TypeOK, GateBlocks, Episode
    <2>2. told' \in [Task -> SUBSET Note]
      BY <1>4, SurfaceTyped DEF TypeOK, GateBlocks
    <2>3. proc' \in [Proc -> ProcState]
      BY <1>4, Memory DEF GateBlocks, ProcState
    <2>4. QED
      BY <1>4, <2>1, <2>2, <2>3 DEF TypeOK, GateBlocks, branchVars
  <1>5. CASE GatePasses(p, t)
    <2> DEFINE base == episode[t].base
               v == [NoVerdict EXCEPT !.pass = TRUE, !.sha = head[t], !.base = base,
                                      !.diff = Patch(base, head[t])]
    <2>1. head[t] \in Commit /\ base \in Commit
      BY DEF TypeOK, Episode
    <2>2. v \in Verdict
      BY <2>1, Blanks, PatchTyped DEF Verdict
    <2>3. proc' = [proc EXCEPT ![p].at = "recording", ![p].busy = TRUE, ![p].held = v]
      BY <1>5 DEF GatePasses
    <2> HIDE DEF v
    <2>4. [proc[p] EXCEPT !.at = "recording", !.busy = TRUE, !.held = v] \in ProcState
      BY <2>2, Memory DEF ProcState
    <2>5. proc' \in [Proc -> ProcState]
      BY <2>3, <2>4, Memory
    <2>6. QED
      BY <1>5, <2>5, OwnMemoryTyped DEF GatePasses
  <1>6. CASE GateValidate(p, t)
    <2>1. proc[p] \in ProcState /\ proc[p].held \in Verdict
      BY DEF TypeOK, ProcState
    <2>2. [proc[p].held EXCEPT !.by = "auto", !.asha = proc[p].held.sha] \in Verdict
      BY <2>1 DEF Verdict
    <2>3. proc' \in [Proc -> ProcState]
      BY <1>6, <2>1, <2>2, Memory DEF GateValidate, ProcState
    <2>4. faults' \in 0..MaxFaults
      BY <1>6, FaultTyped DEF GateValidate, TypeOK
    <2>5. QED
      BY <1>6, <2>3, <2>4 DEF TypeOK, GateValidate, branchVars, rowVars, gateVars
  <1>7. CASE GrantToken(p, t)
    <2>1. proc[p].held \in Verdict
      BY DEF TypeOK, ProcState
    <2>2. [by |-> proc[p].held.by, sha |-> proc[p].held.asha] \in Token
      BY <2>1 DEF Verdict, Token
    <2>3. token' \in [Task -> Token]
      BY <1>7, <2>2 DEF TypeOK, GrantToken
    <2>4. proc' \in [Proc -> ProcState]
      BY <1>7, Memory DEF GrantToken, ProcState
    <2>5. QED
      BY <1>7, <2>3, <2>4 DEF TypeOK, GrantToken, branchVars, rowVars
  <1>8. CASE SaveVerdict(p, t)
    <2>1. proc[p].held \in Verdict
      BY DEF TypeOK, ProcState
    <2>2. verdict' \in [Task -> Verdict]
      BY <1>8, <2>1 DEF TypeOK, SaveVerdict
    <2>3. proc' \in [Proc -> ProcState]
      BY <1>8, Memory DEF SaveVerdict, ProcState
    <2>4. QED
      BY <1>8, <2>2, <2>3 DEF TypeOK, SaveVerdict, branchVars, rowVars
  <1>9. CASE EndEpisode(p, t)
    <2>1. proc[p].held.sha \in Commit
      BY DEF TypeOK, ProcState, Verdict
    <2>2. episode' \in [Task -> Episode]
      BY <1>9, <2>1 DEF TypeOK, EndEpisode, Episode
    <2>3. proc' \in [Proc -> ProcState]
      <3>1. [proc[p] EXCEPT !.at = "gating", !.todo = @ \ {t}, !.held = NoVerdict]
              \in ProcState
        BY Blanks, Memory DEF ProcState
      <3>2. QED
        BY <1>9, <3>1, Memory DEF EndEpisode
    <2>4. QED
      BY <1>9, <2>2, <2>3 DEF TypeOK, EndEpisode, branchVars, rowVars
  <1>10. QED
    BY <1>1, <1>2, <1>3, <1>4, <1>5, <1>6, <1>7, <1>8, <1>9 DEF GateTask

LEMMA GatePassTyped ==
  ASSUME TypeOK, NEW p \in Proc, GatePass(p)
  PROVE  TypeOK'
  <1>1. CASE StartGate(p) \/ GateBegin(p) \/ GateBudgetSpent(p)
    <2>1. proc' \in [Proc -> ProcState]
      BY <1>1, Memory DEF StartGate, GateBegin, GateBudgetSpent, ProcState, DoneTasks
    <2>2. QED
      BY <1>1, <2>1, OwnMemoryTyped DEF StartGate, GateBegin, GateBudgetSpent
  <1>2. CASE EndGate(p)
    <2>1. [AtRest EXCEPT !.at = "land", !.todo = DoneTasks] \in ProcState
      BY Blanks DEF ProcState, DoneTasks
    <2>2. proc' \in [Proc -> ProcState]
      BY <1>2, <2>1, Memory DEF EndGate
    <2>3. claim' \in [Task -> {"free", "gater", "lander"}]
      BY <1>2, ReleasedTyped DEF EndGate
    <2>4. QED
      BY <1>2, <2>2, <2>3 DEF TypeOK, EndGate, branchVars, gateVars
  <1>3. CASE \E t \in Task : GateTask(p, t)
    BY <1>3, GateTaskTyped
  <1>4. QED
    BY <1>1, <1>2, <1>3 DEF GatePass

(***************************************************************************)
(* The land pass and the pipeline.  A job is typed field by field.         *)
(***************************************************************************)
LEMMA Jobs == TypeOK => job \in [Proc -> [Task -> Job]]
  BY DEF TypeOK

LEMMA JobTyped ==
  ASSUME TypeOK, NEW p \in Proc, NEW t \in Task, NEW j \in Job,
         job' = [job EXCEPT ![p][t] = j]
  PROVE  job' \in [Proc -> [Task -> Job]]
  BY Jobs

LEMMA GotoTyped ==
  ASSUME TypeOK, NEW p \in Proc, NEW t \in Task, NEW stage \in Stage, Goto(p, t, stage)
  PROVE  job' \in [Proc -> [Task -> Job]]
  <1>1. [job[p][t] EXCEPT !.at = stage] \in Job
    BY Jobs DEF Job
  <1>2. job' = [job EXCEPT ![p][t] = [job[p][t] EXCEPT !.at = stage]]
    BY DEF Goto
  <1>3. QED
    BY <1>1, <1>2, JobTyped

LEMMA EndsTyped ==
  ASSUME TypeOK, NEW p \in Proc, NEW t \in Task, NEW how \in Ended, Ends(p, t, how)
  PROVE  /\ job' \in [Proc -> [Task -> Job]]
         /\ lock' \in [Proc -> {{}} \cup {{u} : u \in Task}]
  <1>1. [NoJob EXCEPT !.at = how] \in Job
    BY Blanks DEF Job, Ended, Stage
  <1>2. job' \in [Proc -> [Task -> Job]]
    BY <1>1, JobTyped DEF Ends
  <1>3. \A u \in Task : {u} \ {t} = {} \/ {u} \ {t} = {u}
    OBVIOUS
  <1>4. lock[p] \ {t} \in {{}} \cup {{u} : u \in Task}
    <2>1. lock[p] = {} \/ \E u \in Task : lock[p] = {u}
      BY DEF TypeOK
    <2>2. QED
      BY <1>3, <2>1
  <1>5. lock' \in [Proc -> {{}} \cup {{u} : u \in Task}]
    BY <1>4 DEF TypeOK, Ends
  <1>6. QED
    BY <1>2, <1>5

LEMMA StartJobsTyped ==
  ASSUME TypeOK, NEW p \in Proc, NEW S, StartJobs(p, S)
  PROVE  job' \in [Proc -> [Task -> Job]]
  <1>1. [NoJob EXCEPT !.at = "rebase"] \in Job
    BY Blanks DEF Job, Stage
  <1>2. QED
    BY <1>1, Blanks, Jobs DEF StartJobs

LEMMA RemintedTyped ==
  ASSUME TypeOK, NEW t \in Task, NEW sha \in Commit
  PROVE  Reminted(t, sha) \in Token
  BY DEF TypeOK, Reminted, Verdict, Token

LEMMA LandPassTyped ==
  ASSUME TypeOK, NEW p \in Proc, NEW t \in Task,
         LandRead(p, t) \/ LandClaim(p, t) \/ ConsoleLand(p, t)
  PROVE  TypeOK'
  <1>1. CASE LandRead(p, t)
    <2>1. proc' \in [Proc -> ProcState]
      <3>1. PICK todo \in SUBSET Task, at \in {"land", "landClaim"} :
              proc' = [proc EXCEPT ![p].todo = todo, ![p].at = at]
        BY <1>1, Memory DEF LandRead, ProcState
      <3>2. QED
        BY <3>1, Memory DEF ProcState
    <2>2. QED
      BY <1>1, <2>1, OwnMemoryTyped DEF LandRead
  <1>2. CASE LandClaim(p, t)
    BY <1>2, TakeClaimTyped DEF LandClaim
  <1>3. CASE ConsoleLand(p, t)
    <2>1. proc' \in [Proc -> ProcState]
      <3>1. {t} \in SUBSET Task
        OBVIOUS
      <3>2. proc' = [proc EXCEPT ![p].at = "landing", ![p].won = {t}]
        BY <1>3 DEF ConsoleLand
      <3>3. QED
        BY <3>1, <3>2, Memory DEF ProcState
    <2>2. job' \in [Proc -> [Task -> Job]]
      BY <1>3, StartJobsTyped DEF ConsoleLand
    <2>3. QED
      BY <1>3, <2>1, <2>2 DEF TypeOK, ConsoleLand, branchVars, rowVars, gateVars
  <1>4. QED
    BY <1>1, <1>2, <1>3

LEMMA LandSetTyped ==
  ASSUME TypeOK, NEW p \in Proc, LandBegin(p) \/ EndLanding(p) \/ Crash(p)
  PROVE  TypeOK'
  <1>1. CASE LandBegin(p)
    <2>1. proc' \in [Proc -> ProcState]
      <3>1. [proc[p] EXCEPT !.at = "landing"] \in ProcState
        BY Memory DEF ProcState
      <3>2. QED
        BY <1>1, <3>1, Memory, Blanks DEF LandBegin
    <2>2. job' \in [Proc -> [Task -> Job]]
      BY <1>1, Jobs, StartJobsTyped DEF LandBegin
    <2>3. QED
      BY <1>1, <2>1, <2>2 DEF TypeOK, LandBegin, branchVars, rowVars, gateVars
  <1>2. CASE EndLanding(p)
    <2>1. proc' \in [Proc -> ProcState] /\ job' \in [Proc -> [Task -> Job]]
      BY <1>2, Memory, Jobs, Blanks DEF EndLanding
    <2>2. claim' \in [Task -> {"free", "gater", "lander"}]
      BY <1>2, ReleasedTyped DEF EndLanding, TypeOK
    <2>3. \A t \in Task : [kind |-> "land_rebase_conflict", sha |-> head[t]] \in Note
      BY DEF TypeOK, Note
    <2>4. told \in [Task -> SUBSET Note]
      BY DEF TypeOK
    <2>5. told' \in [Task -> SUBSET Note]
      BY <1>2, <2>3, <2>4 DEF EndLanding
    <2>6. QED
      BY <1>2, <2>1, <2>2, <2>5 DEF TypeOK, EndLanding, branchVars, gateVars
  <1>3. CASE Crash(p)
    <2>1. proc' \in [Proc -> ProcState] /\ job' \in [Proc -> [Task -> Job]]
      BY <1>3, Memory, Jobs, Blanks DEF Crash
    <2>2. lock' \in [Proc -> {{}} \cup {{u} : u \in Task}]
      BY <1>3 DEF TypeOK, Crash
    <2>3. faults' \in 0..MaxFaults
      BY <1>3, FaultTyped DEF Crash
    <2>4. QED
      BY <1>3, <2>1, <2>2, <2>3 DEF TypeOK, Crash, branchVars, rowVars, gateVars
  <1>4. QED
    BY <1>1, <1>2, <1>3

LEMMA PrepareTyped ==
  ASSUME TypeOK, NEW p \in Proc, NEW t \in Task, Prepare(p, t)
  PROVE  TypeOK'
  <1> DEFINE j == job[p][t]
             Jobs1 == job' \in [Proc -> [Task -> Job]]
             Locks1 == lock' \in [Proc -> {{}} \cup {{u} : u \in Task}]
  <1>1. j \in Job /\ verdict[t] \in Verdict /\ head[t] \in Commit /\ main \in Commit
    BY DEF TypeOK
  <1>2. lock \in [Proc -> {{}} \cup {{u} : u \in Task}]
    BY DEF TypeOK
  <1>3. {"conflict", "failed", "landed"} \subseteq Ended
    BY DEF Ended
  <1>4. {"validate", "carry", "repin", "cover", "lock", "merge"} \subseteq Stage
    BY DEF Stage
  <1>5. CASE LandRebase(p, t)
    <2> DEFINE prepped(sha) == [j EXCEPT !.at = "validate", !.base = main,
                                        !.pre = head[t], !.sha = sha]
               Rebases == /\ head' = [head EXCEPT ![t] = Rebased(main, @)]
                          /\ job' = [job EXCEPT ![p][t] = prepped(head'[t])]
                          /\ lock' = lock
    <2>1. Rebased(main, head[t]) \in Commit
      BY <1>1, RebasedTyped
    <2>2. \A sha \in Commit : prepped(sha) \in Job
      BY <1>1, <1>4 DEF Job
    <2>3. \/ Ends(p, t, "conflict") /\ head' = head
          \/ /\ job' = [job EXCEPT ![p][t] = prepped(head[t])]
             /\ head' = head /\ lock' = lock
          \/ Rebases
      <3>1. \A sha : [job EXCEPT ![p][t].at = "validate", ![p][t].base = main,
                                ![p][t].pre = head[t], ![p][t].sha = sha]
                      = [job EXCEPT ![p][t] = prepped(sha)]
        BY Jobs DEF Job
      <3>2. QED
        BY <1>5, <3>1 DEF LandRebase
    <2> HIDE DEF prepped
    <2>4. Jobs1 /\ Locks1 /\ head' \in [Task -> Commit]
      <3>1. CASE Ends(p, t, "conflict") /\ head' = head
        BY <1>3, <3>1, EndsTyped DEF TypeOK
      <3>2. CASE /\ job' = [job EXCEPT ![p][t] = prepped(head[t])]
                 /\ head' = head /\ lock' = lock
        BY <1>1, <1>2, <2>2, <3>2, JobTyped DEF TypeOK
      <3>3. CASE Rebases
        <4>1. head' \in [Task -> Commit] /\ head'[t] \in Commit
          BY <2>1, <3>3 DEF TypeOK
        <4>2. QED
          BY <1>2, <2>2, <3>3, <4>1, JobTyped
      <3>4. QED
        BY <2>3, <3>1, <3>2, <3>3
    <2>5. QED
      BY <1>5, <2>4 DEF TypeOK, LandRebase, rowVars, gateVars
  <1>6. CASE LandValidate(p, t)
    <2>1. Jobs1 /\ Locks1
      BY <1>2, <1>3, <1>4, <1>6, GotoTyped, EndsTyped DEF LandValidate
    <2>2. faults' \in 0..MaxFaults
      BY <1>6, FaultTyped DEF LandValidate, TypeOK
    <2>3. QED
      BY <1>6, <2>1, <2>2 DEF TypeOK, LandValidate, branchVars, rowVars, gateVars
  <1>7. CASE CarryRead(p, t)
    <2> DEFINE held == [j EXCEPT !.at = "repin", !.held = verdict[t]]
    <2>1. held \in Job
      BY <1>1, <1>4 DEF Job
    <2>2. \/ Goto(p, t, "cover") /\ lock' = lock
          \/ Ends(p, t, "failed")
          \/ job' = [job EXCEPT ![p][t] = held] /\ lock' = lock
      <3>1. [job EXCEPT ![p][t].at = "repin", ![p][t].held = verdict[t]]
              = [job EXCEPT ![p][t] = held]
        BY Jobs DEF Job
      <3>2. QED
        BY <1>7, <3>1 DEF CarryRead
    <2> HIDE DEF held
    <2>3. Jobs1 /\ Locks1
      BY <1>2, <1>3, <1>4, <2>1, <2>2, GotoTyped, EndsTyped, JobTyped
    <2>4. QED
      BY <1>7, <2>3 DEF TypeOK, CarryRead, branchVars, rowVars, gateVars
  <1>8. CASE CarrySave(p, t)
    <2> DEFINE v == [j.held EXCEPT !.sha = j.sha, !.base = j.base,
                                   !.asha = IF j.held.by = "none" THEN @ ELSE j.sha]
    <2>1. v \in Verdict
      BY <1>1 DEF Job, Verdict
    <2>2. verdict' = [verdict EXCEPT ![t] = v]
      BY <1>8 DEF CarrySave
    <2> HIDE DEF v
    <2>3. verdict' \in [Task -> Verdict]
      BY <2>1, <2>2 DEF TypeOK
    <2>4. Jobs1
      BY <1>4, <1>8, GotoTyped DEF CarrySave
    <2>5. QED
      BY <1>8, <2>3, <2>4 DEF TypeOK, CarrySave, branchVars, rowVars
  <1>9. CASE GateCoversRebased(p, t)
    <2>1. token' \in [Task -> Token]
      BY <1>1, <1>9, RemintedTyped DEF TypeOK, GateCoversRebased, Job
    <2>2. Jobs1 /\ Locks1
      BY <1>2, <1>3, <1>4, <1>9, GotoTyped, EndsTyped DEF GateCoversRebased
    <2>3. QED
      BY <1>9, <2>1, <2>2 DEF TypeOK, GateCoversRebased, branchVars, rowVars
  <1>10. QED
    BY <1>5, <1>6, <1>7, <1>8, <1>9 DEF Prepare

LEMMA CommitsTyped ==
  ASSUME TypeOK, NEW p \in Proc, NEW t \in Task, Commits(p, t)
  PROVE  TypeOK'
  <1> DEFINE j == job[p][t]
             Jobs1 == job' \in [Proc -> [Task -> Job]]
             Locks1 == lock' \in [Proc -> {{}} \cup {{u} : u \in Task}]
  <1>1. j \in Job /\ verdict[t] \in Verdict /\ head[t] \in Commit /\ main \in Commit
    BY DEF TypeOK
  <1>2. lock \in [Proc -> {{}} \cup {{u} : u \in Task}]
    BY DEF TypeOK
  <1>3. {"conflict", "failed", "landed"} \subseteq Ended
    BY DEF Ended
  <1>4. {"rebase", "merge", "check", "ff", "approval", "verdict", "deliver"} \subseteq Stage
    BY DEF Stage
  <1>5. CASE LandCommitLocked(p, t)
    <2>1. [NoJob EXCEPT !.at = "rebase"] \in Job
      BY <1>4, Blanks DEF Job
    <2>2. Jobs1
      BY <1>4, <1>5, <2>1, GotoTyped, JobTyped DEF LandCommitLocked
    <2>3. Locks1
      BY <1>2, <1>5 DEF LandCommitLocked, Unlocked
    <2>4. QED
      BY <1>5, <2>2, <2>3 DEF TypeOK, LandCommitLocked, branchVars, rowVars, gateVars
  <1>6. CASE MergeRead(p, t)
    <2> DEFINE read == [j EXCEPT !.at = "check", !.sha = head[t], !.from = main]
    <2>1. read \in Job
      BY <1>1, <1>4 DEF Job
    <2>2. \/ job' = [job EXCEPT ![p][t] = read] /\ lock' = lock
          \/ Ends(p, t, "failed")
      BY <1>6, Jobs DEF MergeRead, Job
    <2> HIDE DEF read
    <2>3. Jobs1 /\ Locks1
      BY <1>2, <1>3, <2>1, <2>2, EndsTyped, JobTyped
    <2>4. token' \in [Task -> Token]
      BY <1>1, <1>6, RemintedTyped DEF TypeOK, MergeRead
    <2>5. QED
      BY <1>6, <2>3, <2>4 DEF TypeOK, MergeRead, branchVars, rowVars
  <1>7. CASE MergeCheck(p, t)
    <2>1. Jobs1 /\ Locks1
      BY <1>2, <1>3, <1>4, <1>7, GotoTyped, EndsTyped DEF MergeCheck
    <2>2. token' \in [Task -> Token]
      BY <1>7, Blanks DEF TypeOK, MergeCheck
    <2>3. faults' \in 0..MaxFaults
      BY <1>7, FaultTyped DEF MergeCheck, TypeOK
    <2>4. QED
      BY <1>7, <2>1, <2>2, <2>3 DEF TypeOK, MergeCheck, branchVars, rowVars
  <1>8. CASE FastForward(p, t)
    <2>1. Jobs1 /\ Locks1
      BY <1>2, <1>3, <1>4, <1>8, GotoTyped, EndsTyped DEF FastForward
    <2>2. main' \in Commit
      BY <1>1, <1>8 DEF FastForward, Job
    <2>3. QED
      BY <1>8, <2>1, <2>2 DEF TypeOK, FastForward, rowVars, gateVars
  <1>9. CASE ConsumeApproval(p, t) \/ ConsumeVerdict(p, t)
    <2>1. Jobs1
      BY <1>4, <1>9, GotoTyped DEF ConsumeApproval, ConsumeVerdict
    <2>2. token' \in [Task -> Token] /\ verdict' \in [Task -> Verdict]
      BY <1>9, Blanks DEF TypeOK, ConsumeApproval, ConsumeVerdict
    <2>3. QED
      BY <1>9, <2>1, <2>2 DEF TypeOK, ConsumeApproval, ConsumeVerdict, branchVars, rowVars
  <1>10. CASE RecordDelivered(p, t)
    <2>1. Jobs1 /\ Locks1
      BY <1>3, <1>10, EndsTyped DEF RecordDelivered
    <2>2. status' \in [Task -> {"done", "delivered"}]
      BY <1>10 DEF TypeOK, RecordDelivered
    <2>3. QED
      BY <1>10, <2>1, <2>2 DEF TypeOK, RecordDelivered, branchVars, gateVars
  <1>11. QED
    BY <1>5, <1>6, <1>7, <1>8, <1>9, <1>10 DEF Commits

LEMMA TypeStutter == TypeOK /\ UNCHANGED vars => TypeOK'
  BY DEF TypeOK, vars

\* What every step keeps, stated once for the invariants that follow: each of
\* them is preserved by a step of one of these kinds.
LEMMA StepKinds ==
  ASSUME Next
  PROVE  \/ \E p \in Proc :
              GatePass(p) \/ LandBegin(p) \/ EndLanding(p) \/ Crash(p)
         \/ \E p \in Proc, t \in Task :
              LandRead(p, t) \/ LandClaim(p, t) \/ ConsoleLand(p, t)
                \/ Prepare(p, t) \/ Commits(p, t)
         \/ \E t \in Task : Around(t)
         \/ Push
  BY DEF Next, DaemonStep, ConsoleStep, LandTask, Proc

LEMMA TypeStep == TypeOK /\ [Next]_vars => TypeOK'
  <1> SUFFICES ASSUME TypeOK, [Next]_vars
               PROVE  TypeOK'
    OBVIOUS
  <1>1. CASE Next
    BY <1>1, StepKinds, GatePassTyped, LandSetTyped, LandPassTyped, PrepareTyped,
       CommitsTyped, WorkerTyped, ReviewTyped, PushTyped DEF Around
  <1>2. CASE UNCHANGED vars
    BY <1>2, TypeStutter
  <1>3. QED
    BY <1>1, <1>2

\* Landing is type correct: whatever the relation between the changes, a rebase,
\* a carried verdict and a minted token are commits, verdicts and tokens.
THEOREM TypeCorrect == Spec => []TypeOK
  BY TypeInit, TypeStep, PTL DEF Spec

(***************************************************************************)
(* Who writes what.  The invariants below relate a few variables; these    *)
(* lemmas say which steps they have to be checked against.                 *)
(***************************************************************************)
LEMMA EpisodeWriters ==
  ASSUME Next
  PROVE  \/ UNCHANGED <<episode, reports>>
         \/ \E t \in Task : Report(t)
         \/ \E p \in Proc, t \in Task :
              GatePrep(p, t) \/ GateBlocks(p, t) \/ EndEpisode(p, t)
  <1>1. ASSUME NEW p \in Proc, NEW t \in Task, GateTask(p, t)
        PROVE  \/ UNCHANGED <<episode, reports>>
               \/ GatePrep(p, t) \/ GateBlocks(p, t) \/ EndEpisode(p, t)
    BY <1>1 DEF GateTask, GateRead, GateClaim, TakeClaim, GateSkips, GatePasses,
       GateValidate, GrantToken, SaveVerdict, gateVars
  <1>2. ASSUME NEW p \in Proc,
               GatePass(p) \/ LandBegin(p) \/ EndLanding(p) \/ Crash(p)
        PROVE  UNCHANGED <<episode, reports>> \/ \E t \in Task : GateTask(p, t)
    BY <1>2 DEF GatePass, StartGate, GateBegin, GateBudgetSpent, EndGate, LandBegin,
       EndLanding, Crash, gateVars
  <1>3. ASSUME NEW p \in Proc, NEW t \in Task,
               LandRead(p, t) \/ LandClaim(p, t) \/ ConsoleLand(p, t)
        PROVE  UNCHANGED <<episode, reports>>
    BY <1>3 DEF LandRead, LandClaim, TakeClaim, ConsoleLand, gateVars
  <1>4. ASSUME NEW p \in Proc, NEW t \in Task, Prepare(p, t)
        PROVE  UNCHANGED <<episode, reports>>
    BY <1>4 DEF Prepare, LandRebase, LandValidate, CarryRead, CarrySave,
       GateCoversRebased, gateVars
  <1>5. ASSUME NEW p \in Proc, NEW t \in Task, Commits(p, t)
        PROVE  UNCHANGED <<episode, reports>>
    BY <1>5 DEF Commits, LandCommitLocked, MergeRead, MergeCheck, FastForward,
       ConsumeApproval, ConsumeVerdict, RecordDelivered, gateVars
  <1>6. ASSUME NEW t \in Task, Around(t)
        PROVE  UNCHANGED <<episode, reports>> \/ Report(t)
    BY <1>6 DEF Around, WorkerCommit, WorkerRebase, Approve, TokenExpires, Lapse, gateVars
  <1>7. Push => UNCHANGED <<episode, reports>>
    BY DEF Push, gateVars
  <1>8. QED
    BY <1>1, <1>2, <1>3, <1>4, <1>5, <1>6, <1>7, StepKinds

LEMMA BranchWriters ==
  ASSUME Next
  PROVE  /\ main' = main \/ Push \/ \E p \in Proc, t \in Task : FastForward(p, t)
         /\ cleared' = cleared \/ \E t \in Task : Report(t)
  <1>1. ASSUME NEW p \in Proc, NEW t \in Task, GateTask(p, t)
        PROVE  UNCHANGED <<main, cleared>>
    BY <1>1 DEF GateTask, GateRead, GateClaim, TakeClaim, GateSkips, GatePrep, GateBlocks,
       GatePasses, GateValidate, GrantToken, SaveVerdict, EndEpisode, gateVars, branchVars
  <1>2. ASSUME NEW p \in Proc,
               GatePass(p) \/ LandBegin(p) \/ EndLanding(p) \/ Crash(p)
        PROVE  UNCHANGED <<main, cleared>>
    BY <1>1, <1>2 DEF GatePass, StartGate, GateBegin, GateBudgetSpent, EndGate, LandBegin,
       EndLanding, Crash, gateVars, branchVars
  <1>3. ASSUME NEW p \in Proc, NEW t \in Task,
               LandRead(p, t) \/ LandClaim(p, t) \/ ConsoleLand(p, t)
        PROVE  UNCHANGED <<main, cleared>>
    BY <1>3 DEF LandRead, LandClaim, TakeClaim, ConsoleLand, gateVars, branchVars
  <1>4. ASSUME NEW p \in Proc, NEW t \in Task, Prepare(p, t)
        PROVE  UNCHANGED <<main, cleared>>
    BY <1>4 DEF Prepare, LandRebase, LandValidate, CarryRead, CarrySave,
       GateCoversRebased, gateVars, branchVars
  <1>5. ASSUME NEW p \in Proc, NEW t \in Task, Commits(p, t)
        PROVE  UNCHANGED cleared /\ (main' = main \/ FastForward(p, t))
    BY <1>5 DEF Commits, LandCommitLocked, MergeRead, MergeCheck, FastForward,
       ConsumeApproval, ConsumeVerdict, RecordDelivered, gateVars, branchVars
  <1>6. ASSUME NEW t \in Task, Around(t)
        PROVE  main' = main /\ (cleared' = cleared \/ Report(t))
    BY <1>6 DEF Around, WorkerCommit, WorkerRebase, Report, Approve, TokenExpires, Lapse,
       gateVars, branchVars
  <1>7. Push => UNCHANGED cleared
    BY DEF Push, gateVars
  <1>8. QED
    BY <1>2, <1>3, <1>4, <1>5, <1>6, <1>7, StepKinds

LEMMA VerdictWriters ==
  ASSUME Next
  PROVE  /\ \/ UNCHANGED verdict
            \/ \E t \in Task : Approve(t)
            \/ \E p \in Proc, t \in Task :
                 SaveVerdict(p, t) \/ CarrySave(p, t) \/ ConsumeVerdict(p, t)
         /\ \/ UNCHANGED token
            \/ \E t \in Task : Approve(t) \/ TokenExpires(t)
            \/ \E p \in Proc, t \in Task :
                 \/ GrantToken(p, t) \/ GateCoversRebased(p, t)
                 \/ MergeRead(p, t) \/ MergeCheck(p, t) \/ ConsumeApproval(p, t)
  <1>1. ASSUME NEW p \in Proc, NEW t \in Task, GateTask(p, t)
        PROVE  /\ UNCHANGED verdict \/ SaveVerdict(p, t)
               /\ UNCHANGED token \/ GrantToken(p, t)
    BY <1>1 DEF GateTask, GateRead, GateClaim, TakeClaim, GateSkips, GatePrep, GateBlocks,
       GatePasses, GateValidate, GrantToken, SaveVerdict, EndEpisode, gateVars
  <1>2. ASSUME NEW p \in Proc,
               GatePass(p) \/ LandBegin(p) \/ EndLanding(p) \/ Crash(p)
        PROVE  UNCHANGED <<verdict, token>> \/ \E t \in Task : GateTask(p, t)
    BY <1>2 DEF GatePass, StartGate, GateBegin, GateBudgetSpent, EndGate, LandBegin,
       EndLanding, Crash, gateVars
  <1>3. ASSUME NEW p \in Proc, NEW t \in Task,
               LandRead(p, t) \/ LandClaim(p, t) \/ ConsoleLand(p, t)
        PROVE  UNCHANGED <<verdict, token>>
    BY <1>3 DEF LandRead, LandClaim, TakeClaim, ConsoleLand, gateVars
  <1>4. ASSUME NEW p \in Proc, NEW t \in Task, Prepare(p, t)
        PROVE  /\ UNCHANGED verdict \/ CarrySave(p, t)
               /\ UNCHANGED token \/ GateCoversRebased(p, t)
    BY <1>4 DEF Prepare, LandRebase, LandValidate, CarryRead, CarrySave,
       GateCoversRebased, gateVars
  <1>5. ASSUME NEW p \in Proc, NEW t \in Task, Commits(p, t)
        PROVE  /\ UNCHANGED verdict \/ ConsumeVerdict(p, t)
               /\ \/ UNCHANGED token
                  \/ MergeRead(p, t) \/ MergeCheck(p, t) \/ ConsumeApproval(p, t)
    BY <1>5 DEF Commits, LandCommitLocked, MergeRead, MergeCheck, FastForward,
       ConsumeApproval, ConsumeVerdict, RecordDelivered, gateVars
  <1>6. ASSUME NEW t \in Task, Around(t)
        PROVE  UNCHANGED <<verdict, token>> \/ Approve(t)
                 \/ (UNCHANGED verdict /\ TokenExpires(t))
    BY <1>6 DEF Around, WorkerCommit, WorkerRebase, Report, TokenExpires, Lapse, gateVars
  <1>7. Push => UNCHANGED <<verdict, token>>
    BY DEF Push, gateVars
  <1>8. QED
    BY <1>1, <1>2, <1>3, <1>4, <1>5, <1>6, <1>7, StepKinds

Recording == {"recording", "minting", "saving"}

\* A lander enters TrustRecord through GatePasses alone, and leaves it by
\* SaveVerdict or by dying.
LEMMA HeldWriters ==
  ASSUME TypeOK, Next, NEW q \in Proc
  PROVE  \/ proc'[q] = proc[q]
         \/ proc'[q].at \notin Recording
         \/ \E t \in Task : GatePasses(q, t) \/ GateValidate(q, t) \/ GrantToken(q, t)
  <1> USE DEF Recording
  <1>1. ASSUME NEW p \in Proc, NEW t \in Task, GateTask(p, t)
        PROVE  \/ proc'[q] = proc[q]
               \/ proc'[q].at \notin Recording
               \/ q = p /\ (GatePasses(q, t) \/ GateValidate(q, t) \/ GrantToken(q, t))
    <2>1. CASE GateRead(p, t) \/ GateClaim(p, t)
      BY <2>1, Memory DEF GateRead, GateClaim, TakeClaim, ProcState
    <2>2. CASE GateSkips(p, t) \/ GatePrep(p, t) \/ GateBlocks(p, t)
      BY <2>2, Memory DEF GateSkips, GatePrep, GateBlocks, Gating, ProcState
    <2>3. CASE SaveVerdict(p, t) \/ EndEpisode(p, t)
      BY <2>3, Memory DEF SaveVerdict, EndEpisode, ProcState
    <2>4. CASE GatePasses(p, t) \/ GateValidate(p, t) \/ GrantToken(p, t)
      BY <2>4, Memory DEF GatePasses, GateValidate, GrantToken
    <2>5. QED
      BY <1>1, <2>1, <2>2, <2>3, <2>4 DEF GateTask
  <1>2. ASSUME NEW p \in Proc,
               GatePass(p) \/ LandBegin(p) \/ EndLanding(p) \/ Crash(p)
        PROVE  \/ proc'[q] = proc[q]
               \/ proc'[q].at \notin Recording
               \/ \E t \in Task : GateTask(p, t)
    <2>1. CASE StartGate(p) \/ GateBegin(p) \/ GateBudgetSpent(p) \/ EndGate(p)
      BY <2>1, Memory DEF StartGate, GateBegin, GateBudgetSpent, EndGate, AtRest, ProcState
    <2>2. CASE LandBegin(p) \/ EndLanding(p) \/ Crash(p)
      BY <2>2, Memory DEF LandBegin, EndLanding, Crash, AtRest, ProcState
    <2>3. QED
      BY <1>2, <2>1, <2>2 DEF GatePass
  <1>3. ASSUME NEW p \in Proc, NEW t \in Task,
               LandRead(p, t) \/ LandClaim(p, t) \/ ConsoleLand(p, t)
        PROVE  proc'[q] = proc[q] \/ proc'[q].at \notin Recording
    BY <1>3, Memory DEF LandRead, LandClaim, TakeClaim, ConsoleLand, ProcState
  <1>4. ASSUME NEW p \in Proc, NEW t \in Task, Prepare(p, t) \/ Commits(p, t)
        PROVE  UNCHANGED proc
    BY <1>4 DEF Prepare, LandRebase, LandValidate, CarryRead, CarrySave,
       GateCoversRebased, Commits, LandCommitLocked, MergeRead, MergeCheck, FastForward,
       ConsumeApproval, ConsumeVerdict, RecordDelivered
  <1>5. ASSUME NEW t \in Task, Around(t)
        PROVE  UNCHANGED proc
    BY <1>5 DEF Around, WorkerCommit, WorkerRebase, Report, Approve, TokenExpires, Lapse
  <1>6. Push => UNCHANGED proc
    BY DEF Push
  <1>7. QED
    BY <1>1, <1>2, <1>3, <1>4, <1>5, <1>6, StepKinds

\* A pipeline re-pins a verdict only after CarryRead, and the base it lands on
\* is a state of the branch.
LEMMA JobWriters ==
  ASSUME TypeOK, Next, NEW q \in Proc, NEW u \in Task
  PROVE  \/ job'[q][u] = job[q][u]
         \/ /\ job'[q][u].at # "repin"
            /\ job'[q][u].base \in {job[q][u].base, main, <<>>}
         \/ CarryRead(q, u)
  <1> DEFINE Kept == job'[q][u] = job[q][u]
             Moved == /\ job'[q][u].at # "repin"
                      /\ job'[q][u].base \in {job[q][u].base, main, <<>>}
  <1>1. NoJob.base = <<>> /\ NoJob.at = "none"
    BY DEF NoJob
  <1>2. ASSUME NEW p \in Proc, NEW t \in Task, NEW how \in Ended, Ends(p, t, how)
        PROVE  Kept \/ Moved
    BY <1>2, Jobs DEF Ends, Ended, Job, NoJob
  <1>3. ASSUME NEW p \in Proc, NEW t \in Task, NEW stage \in Stage \ {"repin"},
               Goto(p, t, stage)
        PROVE  Kept \/ Moved
    BY <1>3, Jobs DEF Goto, Job
  <1>4. {"conflict", "failed", "landed"} \subseteq Ended
    BY DEF Ended
  <1>5. {"carry", "cover", "lock", "merge", "ff", "approval", "verdict", "deliver"}
          \subseteq Stage \ {"repin"}
    BY DEF Stage
  <1>6. ASSUME NEW p \in Proc, NEW t \in Task, Prepare(p, t)
        PROVE  Kept \/ Moved \/ CarryRead(q, u)
    <2>1. CASE LandRebase(p, t)
      <3>1. \/ Ends(p, t, "conflict")
            \/ \E sha : job' = [job EXCEPT ![p][t].at = "validate", ![p][t].base = main,
                                         ![p][t].pre = head[t], ![p][t].sha = sha]
        BY <2>1 DEF LandRebase
      <3>2. ASSUME NEW sha,
                   job' = [job EXCEPT ![p][t].at = "validate", ![p][t].base = main,
                                      ![p][t].pre = head[t], ![p][t].sha = sha]
            PROVE  Kept \/ Moved
        <4>1. CASE p = q /\ t = u
          <5>1. job'[p][t] = [job[p][t] EXCEPT !.at = "validate", !.base = main,
                                              !.pre = head[t], !.sha = sha]
            BY <3>2, Jobs
          <5>2. QED
            BY <4>1, <5>1, Jobs DEF Job
        <4>2. CASE ~(p = q /\ t = u)
          BY <3>2, <4>2, Jobs
        <4>3. QED
          BY <4>1, <4>2
      <3>3. QED
        BY <1>2, <1>4, <3>1, <3>2
    <2>2. CASE LandValidate(p, t) \/ CarrySave(p, t) \/ GateCoversRebased(p, t)
      BY <1>2, <1>3, <1>4, <1>5, <2>2 DEF LandValidate, CarrySave, GateCoversRebased
    <2>3. CASE CarryRead(p, t)
      <3>1. (p = q /\ t = u) \/ Kept
        BY <2>3, Jobs DEF CarryRead, Goto, Ends
      <3>2. QED
        BY <2>3, <3>1
    <2>4. QED
      BY <1>6, <2>1, <2>2, <2>3 DEF Prepare
  <1>7. ASSUME NEW p \in Proc, NEW t \in Task, Commits(p, t)
        PROVE  Kept \/ Moved
    <2>1. CASE LandCommitLocked(p, t)
      BY <1>3, <1>5, <2>1, Jobs DEF LandCommitLocked, NoJob, Job
    <2>2. CASE MergeRead(p, t)
      <3>1. \/ Ends(p, t, "failed")
            \/ job' = [job EXCEPT ![p][t].at = "check", ![p][t].sha = head[t],
                                  ![p][t].from = main]
        BY <2>2 DEF MergeRead
      <3>2. CASE Ends(p, t, "failed")
        BY <1>2, <1>4, <3>2
      <3>3. CASE job' = [job EXCEPT ![p][t].at = "check", ![p][t].sha = head[t],
                                    ![p][t].from = main]
        <4>1. CASE p = q /\ t = u
          <5>1. job'[p][t] = [job[p][t] EXCEPT !.at = "check", !.sha = head[t],
                                              !.from = main]
            BY <3>3, Jobs
          <5>2. QED
            BY <4>1, <5>1, Jobs DEF Job
        <4>2. CASE ~(p = q /\ t = u)
          BY <3>3, <4>2, Jobs
        <4>3. QED
          BY <4>1, <4>2
      <3>4. QED
        BY <3>1, <3>2, <3>3
    <2>3. CASE MergeCheck(p, t) \/ FastForward(p, t) \/ RecordDelivered(p, t)
      BY <1>2, <1>3, <1>4, <1>5, <2>3 DEF MergeCheck, FastForward, RecordDelivered
    <2>4. CASE ConsumeApproval(p, t) \/ ConsumeVerdict(p, t)
      BY <1>3, <1>5, <2>4 DEF ConsumeApproval, ConsumeVerdict
    <2>5. QED
      BY <1>7, <2>1, <2>2, <2>3, <2>4 DEF Commits
  <1>8. ASSUME NEW p \in Proc, NEW S, StartJobs(p, S)
        PROVE  Kept \/ Moved
    BY <1>8, Jobs DEF StartJobs, NoJob
  <1>9. ASSUME NEW p \in Proc, NEW t \in Task,
               LandRead(p, t) \/ LandClaim(p, t) \/ ConsoleLand(p, t)
        PROVE  Kept \/ Moved
    BY <1>8, <1>9 DEF LandRead, LandClaim, TakeClaim, ConsoleLand
  <1>10. ASSUME NEW p \in Proc,
                GatePass(p) \/ LandBegin(p) \/ EndLanding(p) \/ Crash(p)
         PROVE  Kept \/ Moved
    <2>1. CASE LandBegin(p) \/ EndLanding(p) \/ Crash(p)
      BY <1>1, <1>8, <2>1, Jobs DEF LandBegin, EndLanding, Crash
    <2>2. ASSUME NEW t \in Task, GateTask(p, t)
          PROVE  UNCHANGED job
      BY <2>2 DEF GateTask, GateRead, GateClaim, TakeClaim, GateSkips, GatePrep,
         GateBlocks, GatePasses, GateValidate, GrantToken, SaveVerdict, EndEpisode
    <2>3. CASE GatePass(p)
      BY <2>2, <2>3 DEF GatePass, StartGate, GateBegin, GateBudgetSpent, EndGate
    <2>4. QED
      BY <1>10, <2>1, <2>3
  <1>11. ASSUME NEW t \in Task, Around(t)
         PROVE  UNCHANGED job
    BY <1>11 DEF Around, WorkerCommit, WorkerRebase, Report, Approve, TokenExpires, Lapse
  <1>12. Push => UNCHANGED job
    BY DEF Push
  <1>13. QED
    BY <1>6, <1>7, <1>9, <1>10, <1>11, <1>12, StepKinds

(***************************************************************************)
(* The branch only grows.                                                  *)
(***************************************************************************)
LEMMA AncestorPointwise ==
  ASSUME NEW b \in Commit, NEW c \in Commit
  PROVE  IsAncestor(b, c) <=>
           Len(b) <= Len(c) /\ \A i \in 1..Len(b) : b[i] = c[i]
  <1>1. Len(b) \in Nat /\ Len(c) \in Nat
    BY LenProperties DEF Commit
  <1>2. ASSUME Len(b) <= Len(c)
        PROVE  /\ SubSeq(c, 1, Len(b)) \in Seq(Change)
               /\ Len(SubSeq(c, 1, Len(b))) = Len(b)
               /\ \A i \in 1..Len(b) : SubSeq(c, 1, Len(b))[i] = c[i]
    <2>1. \A i \in 1..Len(b) : c[i] \in Change
      BY <1>1, <1>2, ElementOfSeq DEF Commit
    <2>2. QED
      BY <1>1, <2>1, SubSeqProperties
  <1>3. ASSUME Len(b) <= Len(c), \A i \in 1..Len(b) : b[i] = c[i]
        PROVE  SubSeq(c, 1, Len(b)) = b
    BY <1>2, <1>3, SeqEqual DEF Commit
  <1>4. QED
    BY <1>2, <1>3 DEF IsAncestor

LEMMA AncestorTransitive ==
  ASSUME NEW a \in Commit, NEW b \in Commit, NEW c \in Commit,
         IsAncestor(a, b), IsAncestor(b, c)
  PROVE  IsAncestor(a, c)
  <1>1. Len(a) \in Nat /\ Len(b) \in Nat /\ Len(c) \in Nat
    BY LenProperties DEF Commit
  <1>2. QED
    BY <1>1, AncestorPointwise

LEMMA AncestorReflexive ==
  ASSUME NEW c \in Commit
  PROVE  IsAncestor(c, c) /\ IsAncestor(<<>>, c)
  <1>1. Len(c) \in Nat /\ <<>> \in Commit /\ Len(<<>>) = 0
    BY EmptySeq, LenProperties DEF Commit
  <1>2. QED
    BY <1>1, AncestorPointwise

LEMMA AncestorChanges ==
  ASSUME NEW b \in Commit, NEW c \in Commit, IsAncestor(b, c)
  PROVE  Changes(b) \subseteq Changes(c)
  <1>1. Len(b) \in Nat /\ Len(c) \in Nat
    BY LenProperties DEF Commit
  <1>2. QED
    BY <1>1, AncestorPointwise DEF Changes

LEMMA Growth ==
  ASSUME TypeOK, [Next]_vars
  PROVE  IsAncestor(main, main') /\ cleared \subseteq cleared'
  <1>1. main \in Commit /\ main' \in Commit
    BY TypeStep DEF TypeOK
  <1>2. CASE UNCHANGED <<main, cleared>>
    BY <1>1, <1>2, AncestorReflexive
  <1>3. CASE Next
    <2>1. cleared \subseteq cleared'
      BY <1>3, BranchWriters DEF Report
    <2>2. CASE main' = main
      BY <1>1, <2>1, <2>2, AncestorReflexive
    <2>3. CASE Push
      <3> DEFINE push == [by |-> Lead, no |-> Cardinality(Pushed) + 1]
      <3>1. push \in Change
        BY PushedTyped DEF TypeOK, Change, Author
      <3>2. /\ Len(main') = Len(main) + 1
            /\ \A i \in 1..Len(main) : main'[i] = main[i]
        BY <1>1, <2>3, <3>1, AppendProperties DEF Push, Commit
      <3>3. Len(main) \in Nat
        BY <1>1 DEF Commit
      <3>4. QED
        BY <1>1, <2>1, <3>2, <3>3, AncestorPointwise
    <2>4. ASSUME NEW p \in Proc, NEW t \in Task, FastForward(p, t)
          PROVE  IsAncestor(main, main')
      BY <1>1, <2>4, AncestorReflexive DEF FastForward
    <2>5. QED
      BY <1>3, <2>1, <2>2, <2>3, <2>4, BranchWriters
  <1>4. QED
    BY <1>2, <1>3 DEF vars

(***************************************************************************)
(* What a recorded verdict says.  A verdict is sound for a task when its   *)
(* diff is that of the commit it names, the reviewers cleared that diff,   *)
(* and the base it was taken against is a state of the branch.  Soundness  *)
(* of the row is not inductive: TrustRecord and carryVerdictForward hold a *)
(* verdict while others act, and save it later.                            *)
(***************************************************************************)
Cleared(t, base, sha) == [task |-> t, patch |-> Patch(base, sha)] \in cleared

SoundFor(t, v, done, branch) ==
  /\ v.diff = Patch(v.base, v.sha)
  /\ [task |-> t, patch |-> v.diff] \in done
  /\ IsAncestor(v.base, branch)

Sound(t, v) == SoundFor(t, v, cleared, main)
SoundNext(t, v) == SoundFor(t, v, cleared', main')

EpisodeSound == \A t \in Task :
  /\ IsAncestor(episode[t].base, main)
  /\ episode[t].outcome = "open" /\ reports[t] = "pass" =>
       Cleared(t, episode[t].base, episode[t].head)

HeldSound == \A p \in Proc : proc[p].at \in Recording =>
  /\ \A t \in Task : Eldest(t, proc[p].todo) => Sound(t, proc[p].held)
  /\ proc[p].at = "minting" => proc[p].held.asha = proc[p].held.sha

RowSound == \A t \in Task : verdict[t].pass => Sound(t, verdict[t])

JobSound == \A p \in Proc, t \in Task :
  LET j == job[p][t] IN
  /\ IsAncestor(j.base, main)
  /\ j.at = "repin" => Sound(t, [j.held EXCEPT !.sha = j.sha, !.base = j.base])

Reviewed == TypeOK /\ EpisodeSound /\ HeldSound /\ RowSound /\ JobSound

LEMMA EldestUnique ==
  ASSUME TypeOK, NEW S \in SUBSET Task, NEW t, NEW u, Eldest(t, S), Eldest(u, S)
  PROVE  t = u
  <1>1. Age[t] \in Nat /\ Age[u] \in Nat
    BY LandingAssumption DEF Eldest
  <1>2. QED
    BY <1>1, LandingAssumption DEF Eldest

\* Soundness of a verdict outlasts every step.
LEMMA SoundLasts ==
  ASSUME TypeOK, [Next]_vars, NEW base \in Commit
  PROVE  /\ IsAncestor(base, main) => IsAncestor(base, main')
         /\ \A r : r \in cleared => r \in cleared'
  <1>1. main \in Commit /\ main' \in Commit
    BY TypeStep DEF TypeOK
  <1>2. QED
    BY <1>1, Growth, AncestorTransitive

LEMMA ReviewedInit == Init => Reviewed
  <1> SUFFICES ASSUME Init
               PROVE  Reviewed
    OBVIOUS
  <1>1. TypeOK
    BY TypeInit
  <1>2. IsAncestor(<<>>, main)
    BY <1>1, AncestorReflexive DEF TypeOK
  <1>3. EpisodeSound
    BY <1>2 DEF Init, EpisodeSound, NoEpisode
  <1>4. HeldSound
    BY DEF Init, HeldSound, AtRest, Recording
  <1>5. RowSound
    BY DEF Init, RowSound, NoVerdict
  <1>6. JobSound
    BY <1>2 DEF Init, JobSound, NoJob
  <1>7. QED
    BY <1>1, <1>3, <1>4, <1>5, <1>6 DEF Reviewed

LEMMA EpisodeSoundStep ==
  ASSUME Reviewed, Next
  PROVE  EpisodeSound'
  <1>1. TypeOK /\ TypeOK' /\ EpisodeSound
    BY TypeStep DEF Reviewed
  <1>2. main \in Commit /\ main' \in Commit
    BY <1>1 DEF TypeOK
  <1>3. \A u \in Task : episode[u].base \in Commit
    BY <1>1 DEF TypeOK, Episode
  <1>4. \A u \in Task : IsAncestor(episode[u].base, main')
    BY <1>1, <1>3, SoundLasts DEF EpisodeSound
  <1>5. \A r : r \in cleared => r \in cleared'
    BY <1>1, Growth
  <1>6. episode \in [Task -> Episode] /\ reports \in [Task -> {"none", "pass", "block"}]
    BY <1>1 DEF TypeOK
  <1>7. CASE UNCHANGED <<episode, reports>>
    BY <1>1, <1>4, <1>5, <1>7 DEF EpisodeSound, Cleared
  <1>8. ASSUME NEW t \in Task, Report(t)
        PROVE  EpisodeSound'
    <2>1. reports'[t] = "pass" => Cleared(t, episode[t].base, episode[t].head)'
      BY <1>6, <1>8 DEF Report, Cleared
    <2>2. episode' = episode /\ \A u \in Task : u # t => reports'[u] = reports[u]
      BY <1>6, <1>8 DEF Report
    <2>3. QED
      BY <1>1, <1>4, <1>5, <2>1, <2>2 DEF EpisodeSound, Cleared
  <1>9. ASSUME NEW p \in Proc, NEW t \in Task,
               GatePrep(p, t) \/ GateBlocks(p, t) \/ EndEpisode(p, t)
        PROVE  EpisodeSound'
    <2>1. /\ episode'[t].outcome # "open" \/ reports'[t] # "pass"
          /\ episode'[t].base \in {episode[t].base, main}
      BY <1>6, <1>9 DEF GatePrep, GateBlocks, EndEpisode, Episode
    <2>2. \A u \in Task : u # t => episode'[u] = episode[u] /\ reports'[u] = reports[u]
      BY <1>6, <1>9 DEF GatePrep, GateBlocks, EndEpisode
    <2>3. IsAncestor(main, main')
      BY <1>1, Growth
    <2>4. QED
      BY <1>1, <1>4, <1>5, <2>1, <2>2, <2>3 DEF EpisodeSound, Cleared
  <1>10. QED
    BY <1>7, <1>8, <1>9, EpisodeWriters

LEMMA HeldSoundStep ==
  ASSUME Reviewed, Next
  PROVE  HeldSound'
  <1>1. TypeOK /\ TypeOK' /\ EpisodeSound /\ HeldSound
    BY TypeStep DEF Reviewed
  <1>2. main \in Commit /\ main' \in Commit
    BY <1>1 DEF TypeOK
  <1>3. \A r : r \in cleared => r \in cleared'
    BY <1>1, Growth
  <1>4. SUFFICES ASSUME NEW q \in Proc, proc'[q].at \in Recording
                 PROVE  /\ \A t \in Task : Eldest(t, proc'[q].todo) => SoundNext(t, proc'[q].held)
                        /\ proc'[q].at = "minting" =>
                             proc'[q].held.asha = proc'[q].held.sha
    BY DEF HeldSound, Sound, SoundNext
  <1>5. proc[q] \in ProcState /\ proc[q].held \in Verdict /\ proc[q].todo \subseteq Task
    BY <1>1, Memory DEF ProcState
  <1>6. proc[q].held.base \in Commit
    BY <1>5 DEF Verdict
  <1>7. IsAncestor(proc[q].held.base, main) => IsAncestor(proc[q].held.base, main')
    BY <1>1, <1>6, SoundLasts
  <1>8. CASE proc'[q] = proc[q]
    BY <1>1, <1>3, <1>4, <1>7, <1>8 DEF HeldSound, Sound, SoundNext, SoundFor
  <1>9. ASSUME NEW t \in Task, GatePasses(q, t)
        PROVE  /\ \A u \in Task : Eldest(u, proc'[q].todo) => SoundNext(u, proc'[q].held)
               /\ proc'[q].at = "recording"
    <2> DEFINE base == episode[t].base
               v == [NoVerdict EXCEPT !.pass = TRUE, !.sha = head[t], !.base = base,
                                      !.diff = Patch(base, head[t])]
    <2>1. proc'[q] = [proc[q] EXCEPT !.at = "recording", !.busy = TRUE, !.held = v]
      BY <1>1, <1>9, Memory DEF GatePasses
    <2>2. proc'[q].todo = proc[q].todo /\ proc'[q].held = v /\ proc'[q].at = "recording"
      BY <1>5, <2>1 DEF ProcState
    <2>3. v.sha = head[t] /\ v.base = base /\ v.diff = Patch(base, head[t])
      BY DEF NoVerdict
    <2>4. Cleared(t, base, head[t]) /\ IsAncestor(base, main) /\ base \in Commit
      BY <1>1, <1>9 DEF GatePasses, InEpisode, EpisodeSound, TypeOK, Episode
    <2>5. IsAncestor(base, main')
      BY <1>1, <2>4, SoundLasts
    <2> HIDE DEF v
    <2>6. SoundNext(t, v)
      BY <1>3, <2>3, <2>4, <2>5 DEF SoundNext, SoundFor, Cleared
    <2>7. \A u \in Task : Eldest(u, proc[q].todo) => u = t
      BY <1>1, <1>5, <1>9, EldestUnique DEF GatePasses, Gating
    <2>8. QED
      BY <2>2, <2>6, <2>7
  <1>10. ASSUME NEW t \in Task, GateValidate(q, t) \/ GrantToken(q, t)
        PROVE  /\ \A u \in Task : Eldest(u, proc'[q].todo) => SoundNext(u, proc'[q].held)
               /\ proc'[q].at = "minting" =>
                    proc'[q].held.asha = proc'[q].held.sha
    <2>1. /\ proc'[q].todo = proc[q].todo
          /\ proc'[q].held.base = proc[q].held.base
          /\ proc'[q].held.sha = proc[q].held.sha
          /\ proc'[q].held.diff = proc[q].held.diff
          /\ proc'[q].at = "minting" => proc'[q].held.asha = proc'[q].held.sha
          /\ proc[q].at \in Recording
      <3>1. CASE GrantToken(q, t)
        BY <1>1, <1>5, <3>1, Memory DEF GrantToken, ProcState, Recording
      <3>2. CASE GateValidate(q, t)
        <4> DEFINE held == proc[q].held
        <4>1. proc[q].at = "recording"
          BY <3>2 DEF GateValidate
        <4>2. CASE proc' = [proc EXCEPT ![q].at = "saving"]
          BY <1>1, <1>5, <4>1, <4>2, Memory DEF ProcState, Recording
        <4>3. CASE proc' = [proc EXCEPT ![q].at = "minting", ![q].held.by = "auto",
                                        ![q].held.asha = held.sha]
          <5>1. proc'[q] = [proc[q] EXCEPT !.at = "minting",
                              !.held = [held EXCEPT !.by = "auto", !.asha = held.sha]]
            BY <1>1, <1>5, <4>3, Memory DEF ProcState
          <5>2. proc'[q].held = [held EXCEPT !.by = "auto", !.asha = held.sha]
                  /\ proc'[q].todo = proc[q].todo
            BY <1>5, <5>1 DEF ProcState
          <5>3. QED
            BY <1>5, <4>1, <5>2 DEF Verdict, Recording
        <4>4. QED
          BY <3>2, <4>2, <4>3 DEF GateValidate
      <3>3. QED
        BY <1>10, <3>1, <3>2
    <2>2. QED
      BY <1>1, <1>3, <1>7, <2>1 DEF HeldSound, Sound, SoundNext, SoundFor
  <1>11. QED
    BY <1>1, <1>4, <1>8, <1>9, <1>10, HeldWriters

LEMMA RowSoundStep ==
  ASSUME Reviewed, Next
  PROVE  RowSound'
  <1>1. TypeOK /\ TypeOK' /\ RowSound /\ HeldSound /\ JobSound
    BY TypeStep DEF Reviewed
  <1>2. \A r : r \in cleared => r \in cleared'
    BY <1>1, Growth
  <1>3. verdict \in [Task -> Verdict]
    BY <1>1 DEF TypeOK
  <1>4. ASSUME NEW t \in Task, NEW v \in Verdict, Sound(t, v)
        PROVE  SoundNext(t, v)
    <2>1. IsAncestor(v.base, main')
      BY <1>1, <1>4, SoundLasts DEF Sound, SoundFor, Verdict
    <2>2. QED
      BY <1>2, <1>4, <2>1 DEF Sound, SoundNext, SoundFor
  <1>5. \A u \in Task : verdict[u].pass => SoundNext(u, verdict[u])
    BY <1>1, <1>3, <1>4 DEF RowSound
  <1>6. SUFFICES ASSUME NEW u \in Task, verdict'[u].pass
                 PROVE  SoundNext(u, verdict'[u])
    BY DEF RowSound, Sound, SoundNext
  <1>7. CASE verdict'[u] = verdict[u]
    BY <1>5, <1>6, <1>7
  <1>8. CASE Approve(u)
    <2>1. /\ verdict'[u].pass = verdict[u].pass /\ verdict'[u].diff = verdict[u].diff
          /\ verdict'[u].base = verdict[u].base /\ verdict'[u].sha = verdict[u].sha
      BY <1>3, <1>8 DEF Approve, Verdict
    <2>2. QED
      BY <1>5, <1>6, <2>1 DEF SoundNext, SoundFor
  <1>9. ASSUME NEW p \in Proc, SaveVerdict(p, u)
        PROVE  SoundNext(u, verdict'[u])
    <2>1. verdict'[u] = proc[p].held /\ proc[p].held \in Verdict
      BY <1>1, <1>3, <1>9, Memory DEF SaveVerdict, ProcState
    <2>2. Sound(u, proc[p].held)
      BY <1>1, <1>9 DEF SaveVerdict, HeldSound, Recording
    <2>3. QED
      BY <1>4, <2>1, <2>2
  <1>10. ASSUME NEW p \in Proc, CarrySave(p, u)
         PROVE  SoundNext(u, verdict'[u])
    <2> DEFINE j == job[p][u]
               v == [j.held EXCEPT !.sha = j.sha, !.base = j.base]
    <2>1. j \in Job /\ j.held \in Verdict
      BY <1>1, Jobs DEF Job
    <2>2. v \in Verdict
      BY <2>1 DEF Verdict, Job
    <2>3. SoundNext(u, v)
      BY <1>1, <1>4, <1>10, <2>2 DEF CarrySave, At, JobSound
    <2>4. /\ verdict'[u].diff = v.diff /\ verdict'[u].base = v.base
          /\ verdict'[u].sha = v.sha
      BY <1>3, <1>10, <2>1 DEF CarrySave, Verdict
    <2>5. QED
      BY <2>3, <2>4 DEF SoundNext, SoundFor
  <1>11. ASSUME NEW p \in Proc, ConsumeVerdict(p, u)
         PROVE  FALSE
    BY <1>3, <1>6, <1>11 DEF ConsumeVerdict, NoVerdict
  <1>12. \A t \in Task : u # t =>
           /\ Approve(t) => verdict'[u] = verdict[u]
           /\ \A p \in Proc : SaveVerdict(p, t) \/ CarrySave(p, t) \/ ConsumeVerdict(p, t)
                => verdict'[u] = verdict[u]
    BY <1>3 DEF Approve, SaveVerdict, CarrySave, ConsumeVerdict
  <1>13. QED
    BY <1>7, <1>8, <1>9, <1>10, <1>11, <1>12, VerdictWriters

LEMMA JobSoundStep ==
  ASSUME Reviewed, Next
  PROVE  JobSound'
  <1>1. TypeOK /\ TypeOK' /\ RowSound /\ JobSound
    BY TypeStep DEF Reviewed
  <1>2. \A r : r \in cleared => r \in cleared'
    BY <1>1, Growth
  <1>3. main \in Commit /\ main' \in Commit
    BY <1>1 DEF TypeOK
  <1>4. IsAncestor(main, main') /\ IsAncestor(<<>>, main')
    BY <1>1, <1>3, Growth, AncestorReflexive
  <1> DEFINE Rebuilt(j) == [j.held EXCEPT !.sha = j.sha, !.base = j.base]
  <1>5. SUFFICES ASSUME NEW q \in Proc, NEW u \in Task
                 PROVE  /\ IsAncestor(job'[q][u].base, main')
                        /\ job'[q][u].at = "repin" => SoundNext(u, Rebuilt(job'[q][u]))
    BY DEF JobSound, Sound, SoundNext
  <1> DEFINE j == job[q][u]
  <1>6. j \in Job /\ j.base \in Commit /\ j.held \in Verdict
    BY <1>1, Jobs DEF Job
  <1>7. IsAncestor(j.base, main')
    BY <1>1, <1>6, SoundLasts DEF JobSound
  <1>8. CASE job'[q][u] = job[q][u]
    <2>1. j.at = "repin" => Sound(u, Rebuilt(j))
      BY <1>1 DEF JobSound
    <2>2. Rebuilt(j).base = j.base
      BY <1>6 DEF Verdict
    <2> HIDE DEF Rebuilt
    <2>3. QED
      BY <1>2, <1>7, <1>8, <2>1, <2>2 DEF Sound, SoundNext, SoundFor
  <1>9. CASE /\ job'[q][u].at # "repin"
             /\ job'[q][u].base \in {job[q][u].base, main, <<>>}
    BY <1>4, <1>7, <1>9
  <1>10. CASE CarryRead(q, u)
    <2> DEFINE v == verdict[u]
    <2>1. CASE job' = [job EXCEPT ![q][u].at = "repin", ![q][u].held = v]
      <3>1. v.pass /\ Patch(j.base, j.sha) = v.diff
        <4>1. ~(Goto(q, u, "cover") \/ Ends(q, u, "failed"))
          <5>1. job'[q][u].at = "repin"
            BY <1>6, <2>1, <1>1, Jobs DEF Job
          <5>2. QED
            BY <1>1, <5>1, Jobs DEF Goto, Ends, Job, NoJob
        <4>2. QED
          BY <1>10, <4>1 DEF CarryRead, SameDiff
      <3>2. /\ job'[q][u].base = j.base /\ job'[q][u].sha = j.sha
            /\ job'[q][u].held = v
        BY <1>1, <1>6, <2>1, Jobs DEF Job
      <3>3. v \in Verdict
        BY <1>1 DEF TypeOK
      <3>4. [task |-> u, patch |-> v.diff] \in cleared'
        BY <1>1, <1>2, <3>1 DEF RowSound, Sound, SoundFor
      <3>5. /\ Rebuilt(job'[q][u]).diff = v.diff /\ Rebuilt(job'[q][u]).sha = j.sha
            /\ Rebuilt(job'[q][u]).base = j.base
        BY <3>2, <3>3 DEF Verdict
      <3> HIDE DEF Rebuilt
      <3>6. QED
        BY <1>7, <3>1, <3>2, <3>4, <3>5 DEF SoundNext, SoundFor
    <2>2. CASE Goto(q, u, "cover") \/ Ends(q, u, "failed")
      <3>1. /\ job'[q][u].at # "repin"
            /\ job'[q][u].base \in {job[q][u].base, main, <<>>}
        BY <1>1, <1>6, <2>2, Jobs DEF Goto, Ends, Job, NoJob
      <3>2. QED
        BY <1>9, <3>1
    <2>3. QED
      BY <1>10, <2>1, <2>2 DEF CarryRead
  <1>11. QED
    BY <1>1, <1>8, <1>9, <1>10, JobWriters

LEMMA ReviewedStep == Reviewed /\ [Next]_vars => Reviewed'
  <1> SUFFICES ASSUME Reviewed, [Next]_vars
               PROVE  Reviewed'
    OBVIOUS
  <1>1. TypeOK'
    BY TypeStep DEF Reviewed
  <1>2. CASE Next
    BY <1>1, <1>2, EpisodeSoundStep, HeldSoundStep, RowSoundStep, JobSoundStep DEF Reviewed
  <1>3. CASE UNCHANGED vars
    BY <1>1, <1>3 DEF vars, Reviewed, EpisodeSound, HeldSound, RowSound, JobSound,
       Sound, SoundFor, Cleared
  <1>4. QED
    BY <1>2, <1>3

\* Every verdict that is on record, held in memory by a recorder or about to be
\* saved again by a land is sound (TrustRecord, carryVerdictForward).
THEOREM ReviewedCorrect == Spec => []Reviewed
  BY ReviewedInit, ReviewedStep, PTL DEF Spec

\* A recorded verdict always speaks of the commit it is pinned to, and its diff
\* is one the reviewers cleared: through a commit during the review, a rebase by
\* a land, concurrent lands of the same task and landers that die.
THEOREM VerdictSoundCorrect == Spec => []VerdictSound
  <1>1. Reviewed => VerdictSound
    BY DEF Reviewed, RowSound, Sound, SoundFor, VerdictSound
  <1>2. QED
    BY <1>1, ReviewedCorrect, PTL

(***************************************************************************)
(* Approvals given by the gate.                                            *)
(***************************************************************************)
\* What a commit still brings to the branch is part of its diff against any
\* state the branch was in.
LEMMA BringsItsDiff ==
  ASSUME NEW base \in Commit, NEW sha \in Commit, NEW branch \in Commit,
         IsAncestor(base, branch)
  PROVE  Changes(sha) \ Changes(branch) \subseteq Patch(base, sha).changes
  <1>1. Len(base) \in Nat /\ Len(sha) \in Nat /\ Len(branch) \in Nat
    BY LenProperties DEF Commit
  <1>2. SUFFICES ASSUME NEW i \in 1..Len(sha), sha[i] \notin Changes(branch),
                        IsAncestor(SubSeq(sha, 1, i), base)
                 PROVE  FALSE
    BY DEF Patch, Ahead, Changes
  <1>3. \A k \in 1..i : sha[k] \in Change
    BY <1>1, ElementOfSeq DEF Commit
  <1>4. /\ SubSeq(sha, 1, i) \in Commit /\ Len(SubSeq(sha, 1, i)) = i
        /\ SubSeq(sha, 1, i)[i] = sha[i]
    BY <1>1, <1>3, SubSeqProperties DEF Commit
  <1>5. i <= Len(base) /\ base[i] = sha[i]
    <2> DEFINE upto == SubSeq(sha, 1, i)
    <2>1. upto \in Commit /\ Len(upto) = i /\ upto[i] = sha[i] /\ IsAncestor(upto, base)
      BY <1>2, <1>4
    <2> HIDE DEF upto
    <2>2. Len(upto) <= Len(base) /\ \A k \in 1..Len(upto) : upto[k] = base[k]
      BY <2>1, AncestorPointwise
    <2>3. QED
      BY <1>1, <2>1, <2>2
  <1>6. sha[i] \in Changes(base)
    BY <1>1, <1>5 DEF Changes
  <1>7. QED
    BY <1>2, <1>6, AncestorChanges

Brings(t, sha, done, branch) ==
  \E r \in done :
    r.task = t /\ Changes(sha) \ Changes(branch) \subseteq r.patch.changes

LEMMA SoundBrings ==
  ASSUME Reviewed, NEW t \in Task, NEW v \in Verdict, Sound(t, v)
  PROVE  Brings(t, v.sha, cleared, main)
  <1>1. main \in Commit /\ v.base \in Commit /\ v.sha \in Commit
    BY DEF Reviewed, TypeOK, Verdict
  <1>2. Changes(v.sha) \ Changes(main) \subseteq v.diff.changes
    BY <1>1, BringsItsDiff DEF Sound, SoundFor
  <1>3. QED
    BY <1>2 DEF Sound, SoundFor, Brings

LEMMA BringsLasts ==
  ASSUME Reviewed, [Next]_vars, NEW t \in Task, NEW sha, Brings(t, sha, cleared, main)
  PROVE  Brings(t, sha, cleared', main')
  <1>1. main \in Commit /\ main' \in Commit
    BY TypeStep DEF Reviewed, TypeOK
  <1>2. cleared \subseteq cleared' /\ Changes(main) \subseteq Changes(main')
    BY <1>1, Growth, AncestorChanges DEF Reviewed
  <1>3. QED
    BY <1>2 DEF Brings

LEMMA RemintedBrings ==
  ASSUME Reviewed, NEW t \in Task, NEW sha, Reminted(t, sha).by = "auto"
  PROVE  Reminted(t, sha) = token[t] \/ Brings(t, Reminted(t, sha).sha, cleared, main)
  <1>1. CASE Reminted(t, sha) = token[t]
    BY <1>1
  <1>2. CASE Reminted(t, sha) # token[t]
    <2>1. /\ verdict[t].pass /\ verdict[t].sha = sha
          /\ Reminted(t, sha) = [by |-> verdict[t].by, sha |-> sha]
      BY <1>2 DEF Reminted
    <2>2. Sound(t, verdict[t]) /\ verdict[t] \in Verdict
      BY <2>1 DEF Reviewed, RowSound, TypeOK
    <2>3. QED
      BY <2>1, <2>2, SoundBrings
  <1>3. QED
    BY <1>1, <1>2

LEMMA ApprovalStep == Reviewed /\ ApprovalSound /\ [Next]_vars => ApprovalSound'
  <1> SUFFICES ASSUME Reviewed, ApprovalSound, [Next]_vars
               PROVE  ApprovalSound'
    OBVIOUS
  <1>1. SUFFICES ASSUME NEW u \in Task, token'[u].by = "auto"
                 PROVE  Brings(u, token'[u].sha, cleared', main')
    BY DEF ApprovalSound, Brings
  <1>2. token \in [Task -> Token]
    BY DEF Reviewed, TypeOK
  <1>3. token[u].by = "auto" => Brings(u, token[u].sha, cleared, main)
    BY DEF ApprovalSound, Brings
  <1>4. SUFFICES token'[u] = token[u] \/ Brings(u, token'[u].sha, cleared, main)
    BY <1>1, <1>3, BringsLasts
  <1>5. CASE UNCHANGED token
    BY <1>5
  <1>6. ASSUME NEW t \in Task, Approve(t) \/ TokenExpires(t)
        PROVE  token'[u] = token[u]
    BY <1>1, <1>2, <1>6 DEF Approve, TokenExpires, NoToken
  <1>7. ASSUME NEW p \in Proc, NEW t \in Task, GrantToken(p, t)
        PROVE  token'[u] = token[u] \/ Brings(u, token'[u].sha, cleared, main)
    <2>1. CASE t = u
      <3>1. Sound(u, proc[p].held) /\ proc[p].held.asha = proc[p].held.sha
        BY <1>7, <2>1 DEF GrantToken, Reviewed, HeldSound, Recording
      <3>2. proc[p].held \in Verdict
        BY Memory DEF Reviewed, ProcState
      <3>3. token'[u].sha = proc[p].held.asha
        BY <1>2, <1>7, <2>1 DEF GrantToken
      <3>4. QED
        BY <3>1, <3>2, <3>3, SoundBrings
    <2>2. CASE t # u
      BY <1>2, <1>7, <2>2 DEF GrantToken
    <2>3. QED
      BY <2>1, <2>2
  <1>8. ASSUME NEW p \in Proc, NEW t \in Task, GateCoversRebased(p, t) \/ MergeRead(p, t)
        PROVE  token'[u] = token[u] \/ Brings(u, token'[u].sha, cleared, main)
    <2>1. PICK sha : token' = [token EXCEPT ![t] = Reminted(t, sha)]
      BY <1>8 DEF GateCoversRebased, MergeRead
    <2>2. QED
      BY <1>1, <1>2, <2>1, RemintedBrings
  <1>9. ASSUME NEW p \in Proc, NEW t \in Task, MergeCheck(p, t) \/ ConsumeApproval(p, t)
        PROVE  token'[u] = token[u]
    BY <1>1, <1>2, <1>9 DEF MergeCheck, ConsumeApproval, NoToken
  <1>10. QED
    BY <1>5, <1>6, <1>7, <1>8, <1>9, VerdictWriters DEF vars

\* An approval the gate gave by itself never lets a commit onto the branch that
\* brings more than one cleared patch of that task, however often the token is
\* minted again.
THEOREM ApprovalSoundCorrect == Spec => []ApprovalSound
  <1>1. Init => ApprovalSound
    BY DEF Init, ApprovalSound, NoToken
  <1>2. QED
    BY <1>1, ReviewedCorrect, ApprovalStep, PTL DEF Spec

(***************************************************************************)
(* Delivery.  The branch and the worktrees keep a shape: no change is in a *)
(* history twice, a worktree has nothing of others that the branch has not,*)
(* and what the branch has of a task its worktree has in the same place.   *)
(* That is why a land that rebases never brings a change again.  A merge   *)
(* under way brings what its reviewers cleared, whatever happened since it *)
(* looked.                                                                 *)
(***************************************************************************)
Distinct(c) == \A i, k \in 1..Len(c) : c[i] = c[k] => i = k

\* b and c have the same first i changes.
Shared(b, c, i) == i <= Len(c) /\ \A k \in 1..i : b[k] = c[k]

OwnOrShared(t, c, branch) ==
  \A i \in 1..Len(c) : c[i].by = t \/ Shared(c, branch, i)

InPlace(t, branch, c) ==
  \A i \in 1..Len(branch) : branch[i].by = t => Shared(branch, c, i)

Numbered == \A x \in Pushed : x.no \in 1..Cardinality(Pushed)

Shape ==
  /\ Distinct(main) /\ Numbered
  /\ \A t \in Task :
       Distinct(head[t]) /\ OwnOrShared(t, head[t], main) /\ InPlace(t, main, head[t])

\* What a merge of sha still owes to the reviewers, and that it is paid.
Due(t, sha, done, branch) ==
  \E r \in done :
    r.task = t /\ Ahead(branch, sha) \subseteq r.patch.changes
      /\ r.patch.changes \subseteq Changes(sha)

Paid(t, done, branch) ==
  \E r \in done : r.task = t /\ r.patch.changes \subseteq Changes(branch)

Merging == \A p \in Proc, t \in Task :
  LET j == job[p][t] IN
  /\ j.at = "ff" =>
       /\ Green(j.sha) /\ Due(t, j.sha, cleared, main)
       /\ IsAncestor(main, j.sha) => IsAncestor(j.sha, head[t])
  /\ j.at \in {"approval", "verdict", "deliver"} => Paid(t, cleared, main)

DeliveryInv == Reviewed /\ Shape /\ Merging

LEMMA PrefixShared ==
  ASSUME NEW b \in Commit, NEW c \in Commit, NEW i \in 1..Len(b)
  PROVE  IsAncestor(SubSeq(b, 1, i), c) <=> Shared(b, c, i)
  <1>1. Len(b) \in Nat /\ Len(c) \in Nat
    BY LenProperties DEF Commit
  <1>2. \A k \in 1..i : b[k] \in Change
    BY <1>1, ElementOfSeq DEF Commit
  <1> DEFINE upto == SubSeq(b, 1, i)
  <1>3. upto \in Commit /\ Len(upto) = i /\ \A k \in 1..i : upto[k] = b[k]
    BY <1>1, <1>2, SubSeqProperties DEF Commit
  <1> HIDE DEF upto
  <1>4. IsAncestor(upto, c) <=> Len(upto) <= Len(c) /\ \A k \in 1..Len(upto) : upto[k] = c[k]
    BY <1>3, AncestorPointwise
  <1>5. QED
    BY <1>3, <1>4 DEF Shared, upto

LEMMA AheadShared ==
  ASSUME NEW b \in Commit, NEW c \in Commit
  PROVE  Ahead(b, c) = {c[i] : i \in {j \in 1..Len(c) : ~Shared(c, b, j)}}
  BY PrefixShared DEF Ahead

LEMMA SharedGrows ==
  ASSUME NEW a \in Commit, NEW b \in Commit, IsAncestor(a, b), NEW c, NEW j \in Nat, Shared(c, a, j)
  PROVE  Shared(c, b, j)
  <1>1. Len(a) \in Nat /\ Len(b) \in Nat
    BY LenProperties DEF Commit
  <1>2. Len(a) <= Len(b) /\ \A i \in 1..Len(a) : a[i] = b[i]
    BY AncestorPointwise
  <1>3. QED
    BY <1>1, <1>2 DEF Shared

LEMMA AheadShrinks ==
  ASSUME NEW a \in Commit, NEW b \in Commit, NEW c \in Commit, IsAncestor(a, b)
  PROVE  Ahead(b, c) \subseteq Ahead(a, c)
  <1>1. \A j \in 1..Len(c) : Shared(c, a, j) => Shared(c, b, j)
    BY SharedGrows
  <1>2. QED
    BY <1>1, AheadShared

LEMMA Furthest ==
  ASSUME NEW n \in Nat, NEW S \in SUBSET (1..n), S # {}
  PROVE  \E m \in S : \A j \in S : j <= m
  <1> DEFINE Depth == {n - j : j \in S}
  <1>1. Depth \subseteq Nat /\ Depth # {}
    <2>1. \A j \in S : n - j \in Nat
      OBVIOUS
    <2>2. PICK j \in S : TRUE
      OBVIOUS
    <2>3. QED
      BY <2>1, <2>2
  <1>2. PICK d \in Depth : \A e \in Depth : ~(<<e, d>> \in OpToRel(<, Nat))
    BY <1>1, NatLessThanWellFounded, WFMin
  <1>3. \A e \in Depth : ~(e < d)
    BY <1>1, <1>2 DEF OpToRel
  <1>4. PICK m \in S : d = n - m
    BY <1>2
  <1>5. \A j \in S : n - j \in Depth
    OBVIOUS
  <1>6. \A j \in S : ~(n - j < n - m)
    BY <1>3, <1>4, <1>5
  <1>7. QED
    BY <1>6

\* The fork point is the last change the two have in the same place.
LEMMA ForkIs ==
  ASSUME NEW onto \in Commit, NEW c \in Commit
  PROVE  /\ Fork(onto, c) \in 0..Len(c)
         /\ \A j \in 1..Len(c) : Shared(c, onto, j) <=> j <= Fork(onto, c)
  <1> DEFINE S == {j \in 1..Len(c) : Shared(c, onto, j)}
  <1>1. Len(c) \in Nat /\ Len(onto) \in Nat
    BY LenProperties DEF Commit
  <1>2. Fork(onto, c) = Cardinality(S)
    <2>1. {j \in 1..Len(c) : IsAncestor(SubSeq(c, 1, j), onto)} = S
      BY PrefixShared
    <2>2. QED
      BY <2>1 DEF Fork
  <1>3. CASE S = {}
    <2>1. Fork(onto, c) = 0
      BY <1>2, <1>3, FS_EmptySet
    <2>2. QED
      BY <1>1, <1>3, <2>1
  <1>4. CASE S # {}
    <2>1. PICK m \in S : \A j \in S : j <= m
      BY <1>1, <1>4, Furthest
    <2>2. S = 1..m
      BY <1>1, <2>1 DEF Shared
    <2>3. m \in Nat /\ Cardinality(1..m) = m
      BY <1>1, <2>1, FS_Interval
    <2>4. Fork(onto, c) = m
      BY <1>2, <2>2, <2>3
    <2>5. QED
      BY <1>1, <2>1, <2>2, <2>4
  <1>5. QED
    BY <1>3, <1>4

\* A rebased commit is the base and then what followed the fork point.
LEMMA RebasedIs ==
  ASSUME NEW onto \in Commit, NEW c \in Commit
  PROVE  LET r == Rebased(onto, c)  f == Fork(onto, c) IN
         /\ r \in Commit /\ Len(r) = Len(onto) + (Len(c) - f) /\ IsAncestor(onto, r)
         /\ \A i \in 1..Len(onto) : r[i] = onto[i]
         /\ \A i \in Len(onto) + 1 .. Len(r) :
              i - Len(onto) + f \in f + 1 .. Len(c) /\ r[i] = c[i - Len(onto) + f]
  <1> DEFINE f == Fork(onto, c)
             r == Rebased(onto, c)
             rest == SubSeq(c, f + 1, Len(c))
  <1>1. Len(c) \in Nat /\ Len(onto) \in Nat /\ f \in 0..Len(c)
    BY LenProperties, ForkIs DEF Commit
  <1>2. \A i \in f + 1 .. Len(c) : c[i] \in Change
    BY <1>1, ElementOfSeq DEF Commit
  <1> HIDE DEF f
  <1>3. /\ rest \in Seq(Change) /\ Len(rest) = Len(c) - f
        /\ \A i \in 1 .. Len(c) - f : rest[i] = c[f + i]
    <2>1. /\ rest \in Seq(Change)
          /\ Len(rest) = IF f + 1 <= Len(c) THEN Len(c) - (f + 1) + 1 ELSE 0
          /\ \A i \in 1 .. Len(c) - (f + 1) + 1 : rest[i] = c[(f + 1) + i - 1]
      BY <1>1, <1>2, SubSeqProperties
    <2>2. QED
      BY <1>1, <2>1
  <1> HIDE DEF rest
  <1>4. /\ onto \o rest \in Seq(Change) /\ Len(onto \o rest) = Len(onto) + Len(rest)
        /\ \A i \in 1 .. Len(onto) + Len(rest) :
             (onto \o rest)[i] = IF i <= Len(onto) THEN onto[i] ELSE rest[i - Len(onto)]
    BY <1>3, ConcatProperties DEF Commit
  <1>5. r = onto \o rest
    BY DEF Rebased, rest, f
  <1> HIDE DEF r
  <1>6. /\ r \in Commit /\ Len(r) = Len(onto) + (Len(c) - f)
        /\ \A i \in 1..Len(onto) : r[i] = onto[i]
        /\ \A i \in Len(onto) + 1 .. Len(r) :
              i - Len(onto) + f \in f + 1 .. Len(c) /\ r[i] = c[i - Len(onto) + f]
    <2>1. \A i \in Len(onto) + 1 .. Len(r) :
            /\ i - Len(onto) \in 1 .. Len(c) - f /\ r[i] = rest[i - Len(onto)]
            /\ i - Len(onto) + f \in f + 1 .. Len(c) /\ f + (i - Len(onto)) = i - Len(onto) + f
      BY <1>1, <1>3, <1>4, <1>5
    <2>2. r \in Commit /\ Len(r) = Len(onto) + (Len(c) - f)
      BY <1>3, <1>4, <1>5 DEF Commit
    <2>3. \A i \in 1..Len(onto) : r[i] = onto[i]
      BY <1>1, <1>3, <1>4, <1>5
    <2>4. \A i \in Len(onto) + 1 .. Len(r) : r[i] = c[i - Len(onto) + f]
      <3>1. TAKE i \in Len(onto) + 1 .. Len(r)
      <3>2. r[i] = rest[i - Len(onto)] /\ rest[i - Len(onto)] = c[f + (i - Len(onto))]
        BY <1>3, <2>1
      <3>3. QED
        BY <2>1, <3>2
    <2>5. QED
      BY <2>1, <2>2, <2>3, <2>4
  <1>7. IsAncestor(onto, r)
    BY <1>1, <1>6, AncestorPointwise
  <1>8. QED
    BY <1>6, <1>7 DEF r, f

LEMMA AppendIs ==
  ASSUME NEW c \in Commit, NEW x \in Change
  PROVE  /\ Append(c, x) \in Commit /\ Len(Append(c, x)) = Len(c) + 1 /\ Len(c) \in Nat
         /\ \A i \in 1..Len(c) : Append(c, x)[i] = c[i]
         /\ Append(c, x)[Len(c) + 1] = x /\ IsAncestor(c, Append(c, x))
  <1> DEFINE a == Append(c, x)
  <1>1. /\ a \in Commit /\ Len(a) = Len(c) + 1 /\ Len(c) \in Nat /\ a[Len(c) + 1] = x
        /\ \A i \in 1..Len(c) : a[i] = c[i]
    BY AppendProperties, LenProperties DEF Commit
  <1> HIDE DEF a
  <1>2. IsAncestor(c, a)
    BY <1>1, AncestorPointwise
  <1>3. QED
    BY <1>1, <1>2 DEF a

LEMMA DistinctAppend ==
  ASSUME NEW c \in Commit, NEW x \in Change, Distinct(c), x \notin Changes(c)
  PROVE  Distinct(Append(c, x))
  <1> DEFINE a == Append(c, x)
  <1>1. /\ Len(a) = Len(c) + 1 /\ Len(c) \in Nat /\ a[Len(c) + 1] = x
        /\ \A i \in 1..Len(c) : a[i] = c[i] /\ a[i] # x
    BY AppendIs DEF Changes
  <1> HIDE DEF a
  <1>2. QED
    BY <1>1 DEF Distinct, a

LEMMA CountDistinct ==
  ASSUME NEW c \in Commit, Distinct(c)
  PROVE  Cardinality(Changes(c)) = Len(c)
  <1>1. Len(c) \in Nat /\ c \in [1..Len(c) -> Change]
    BY LenProperties DEF Commit
  <1>2. IsFiniteSet(1..Len(c)) /\ Cardinality(1..Len(c)) = Len(c)
    BY <1>1, FS_Interval
  <1>3. c \in Surjection(1..Len(c), Changes(c))
    BY <1>1 DEF Surjection, Changes
  <1>4. c \in Injection(1..Len(c), Changes(c))
    <2>1. \A i, k \in 1..Len(c) : c[i] = c[k] => i = k
      BY DEF Distinct
    <2>2. c \in [1..Len(c) -> Changes(c)]
      BY <1>1 DEF Changes
    <2>3. QED
      BY <2>1, <2>2 DEF Injection, IsInjective
  <1>5. QED
    BY <1>2, <1>3, <1>4, FS_Surjection

LEMMA PrefixDistinct ==
  ASSUME NEW b \in Commit, NEW c \in Commit, IsAncestor(b, c), Distinct(c)
  PROVE  Distinct(b)
  <1>1. Len(b) \in Nat /\ Len(c) \in Nat /\ Len(b) <= Len(c) /\ \A i \in 1..Len(b) : b[i] = c[i]
    BY AncestorPointwise, LenProperties DEF Commit
  <1>2. QED
    BY <1>1 DEF Distinct

LEMMA HeadWriters ==
  ASSUME Next
  PROVE  /\ \/ head' = head
            \/ \E t \in Task : WorkerCommit(t) \/ WorkerRebase(t)
            \/ \E p \in Proc, t \in Task : LandRebase(p, t)
         /\ status' = status \/ \E p \in Proc, t \in Task : RecordDelivered(p, t)
  <1>1. ASSUME NEW p \in Proc, NEW t \in Task, GateTask(p, t)
        PROVE  UNCHANGED <<head, status>>
    BY <1>1 DEF GateTask, GateRead, GateClaim, TakeClaim, GateSkips, GatePrep, GateBlocks,
       GatePasses, GateValidate, GrantToken, SaveVerdict, EndEpisode, rowVars, branchVars
  <1>2. ASSUME NEW p \in Proc,
               GatePass(p) \/ LandBegin(p) \/ EndLanding(p) \/ Crash(p)
        PROVE  UNCHANGED <<head, status>>
    BY <1>1, <1>2 DEF GatePass, StartGate, GateBegin, GateBudgetSpent, EndGate, LandBegin,
       EndLanding, Crash, rowVars, branchVars
  <1>3. ASSUME NEW p \in Proc, NEW t \in Task,
               LandRead(p, t) \/ LandClaim(p, t) \/ ConsoleLand(p, t)
        PROVE  UNCHANGED <<head, status>>
    BY <1>3 DEF LandRead, LandClaim, TakeClaim, ConsoleLand, rowVars, branchVars
  <1>4. ASSUME NEW p \in Proc, NEW t \in Task, Prepare(p, t)
        PROVE  UNCHANGED status /\ (head' = head \/ LandRebase(p, t))
    BY <1>4 DEF Prepare, LandRebase, LandValidate, CarryRead, CarrySave,
       GateCoversRebased, rowVars, branchVars
  <1>5. ASSUME NEW p \in Proc, NEW t \in Task, Commits(p, t)
        PROVE  UNCHANGED head /\ (status' = status \/ RecordDelivered(p, t))
    BY <1>5 DEF Commits, LandCommitLocked, MergeRead, MergeCheck, FastForward,
       ConsumeApproval, ConsumeVerdict, RecordDelivered, rowVars, branchVars
  <1>6. ASSUME NEW t \in Task, Around(t)
        PROVE  UNCHANGED status /\ (head' = head \/ WorkerCommit(t) \/ WorkerRebase(t))
    BY <1>6 DEF Around, WorkerCommit, WorkerRebase, Report, Approve, TokenExpires, Lapse,
       rowVars, branchVars
  <1>7. Push => UNCHANGED <<head, status>>
    BY DEF Push, rowVars
  <1>8. QED
    BY <1>2, <1>3, <1>4, <1>5, <1>6, <1>7, StepKinds

Late == {"ff", "approval", "verdict", "deliver"}

\* How a pipeline comes to its last steps.
LEMMA LateJobs ==
  ASSUME TypeOK, Next, NEW q \in Proc, NEW u \in Task
  PROVE  \/ job'[q][u] = job[q][u]
         \/ job'[q][u].at \notin Late
         \/ /\ MergeCheck(q, u) /\ Goto(q, u, "ff")
            /\ job'[q][u].at = "ff" /\ job'[q][u].sha = job[q][u].sha
         \/ FastForward(q, u) /\ job[q][u].at = "ff" /\ job'[q][u].at = "approval"
         \/ job[q][u].at \in {"approval", "verdict"} /\ job'[q][u].at \in {"verdict", "deliver"}
  <1> DEFINE Kept == job'[q][u] = job[q][u]
             Early == job'[q][u].at \notin Late
  <1>1. NoJob.at = "none"
    BY DEF NoJob
  <1>2. ASSUME NEW p \in Proc, NEW t \in Task, NEW how \in Ended, Ends(p, t, how)
        PROVE  Kept \/ Early
    BY <1>2, Jobs DEF Ends, Ended, Job, NoJob, Late
  <1>3. ASSUME NEW p \in Proc, NEW t \in Task, NEW stage \in Stage, Goto(p, t, stage)
        PROVE  Kept \/ (p = q /\ t = u /\ job'[q][u].at = stage /\ job'[q][u].sha = job[q][u].sha)
    BY <1>3, Jobs DEF Goto, Job
  <1>4. {"conflict", "failed", "landed"} \subseteq Ended
    BY DEF Ended
  <1>5. {"carry", "cover", "lock", "merge"} \subseteq Stage \ Late /\ Late \subseteq Stage
    BY DEF Stage, Late
  <1>6. ASSUME NEW p \in Proc, NEW t \in Task, NEW l \in Job, l.at \notin Late,
               job' = [job EXCEPT ![p][t] = l]
        PROVE  Kept \/ Early
    BY <1>6, Jobs
  <1>7. ASSUME NEW p \in Proc, NEW t \in Task, Prepare(p, t)
        PROVE  Kept \/ Early
    <2>1. CASE LandRebase(p, t)
      <3>1. \/ Ends(p, t, "conflict")
            \/ \E sha : job' = [job EXCEPT ![p][t].at = "validate", ![p][t].base = main,
                                         ![p][t].pre = head[t], ![p][t].sha = sha]
        BY <2>1 DEF LandRebase
      <3>2. ASSUME NEW sha,
                   job' = [job EXCEPT ![p][t].at = "validate", ![p][t].base = main,
                                      ![p][t].pre = head[t], ![p][t].sha = sha]
            PROVE  Kept \/ Early
        <4>1. CASE p = q /\ t = u
          <5>1. job'[p][t] = [job[p][t] EXCEPT !.at = "validate", !.base = main,
                                              !.pre = head[t], !.sha = sha]
            BY <3>2, Jobs
          <5>2. QED
            BY <4>1, <5>1, Jobs DEF Job, Late
        <4>2. CASE ~(p = q /\ t = u)
          BY <3>2, <4>2, Jobs
        <4>3. QED
          BY <4>1, <4>2
      <3>3. QED
        BY <1>2, <1>4, <3>1, <3>2
    <2>2. CASE LandValidate(p, t) \/ CarrySave(p, t) \/ GateCoversRebased(p, t)
      BY <1>2, <1>3, <1>4, <1>5, <2>2 DEF LandValidate, CarrySave, GateCoversRebased
    <2>3. CASE CarryRead(p, t)
      <3>1. \/ Goto(p, t, "cover") \/ Ends(p, t, "failed")
            \/ job' = [job EXCEPT ![p][t].at = "repin", ![p][t].held = verdict[t]]
        BY <2>3 DEF CarryRead
      <3>2. CASE job' = [job EXCEPT ![p][t].at = "repin", ![p][t].held = verdict[t]]
        <4>1. CASE p = q /\ t = u
          <5>1. job'[p][t] = [job[p][t] EXCEPT !.at = "repin", !.held = verdict[t]]
            BY <3>2, Jobs
          <5>2. QED
            BY <4>1, <5>1, Jobs DEF Job, Late
        <4>2. CASE ~(p = q /\ t = u)
          BY <3>2, <4>2, Jobs
        <4>3. QED
          BY <4>1, <4>2
      <3>3. QED
        BY <1>2, <1>3, <1>4, <1>5, <3>1, <3>2
    <2>4. QED
      BY <1>7, <2>1, <2>2, <2>3 DEF Prepare
  <1>8. ASSUME NEW p \in Proc, NEW t \in Task,
               LandCommitLocked(p, t) \/ MergeRead(p, t) \/ RecordDelivered(p, t)
        PROVE  Kept \/ Early
    <2>1. CASE LandCommitLocked(p, t)
      <3>1. Goto(p, t, "merge") \/ job' = [job EXCEPT ![p][t] = [NoJob EXCEPT !.at = "rebase"]]
        BY <2>1 DEF LandCommitLocked
      <3>2. [NoJob EXCEPT !.at = "rebase"] \in Job /\ [NoJob EXCEPT !.at = "rebase"].at \notin Late
        BY Blanks DEF Job, Stage, Late
      <3>3. QED
        BY <1>3, <1>5, <1>6, <3>1, <3>2
    <2>2. CASE MergeRead(p, t)
      <3>1. \/ Ends(p, t, "failed")
            \/ job' = [job EXCEPT ![p][t].at = "check", ![p][t].sha = head[t],
                                  ![p][t].from = main]
        BY <2>2 DEF MergeRead
      <3>2. CASE job' = [job EXCEPT ![p][t].at = "check", ![p][t].sha = head[t],
                                    ![p][t].from = main]
        <4>1. CASE p = q /\ t = u
          <5>1. job'[p][t] = [job[p][t] EXCEPT !.at = "check", !.sha = head[t],
                                              !.from = main]
            BY <3>2, Jobs
          <5>2. QED
            BY <4>1, <5>1, Jobs DEF Job, Late
        <4>2. CASE ~(p = q /\ t = u)
          BY <3>2, <4>2, Jobs
        <4>3. QED
          BY <4>1, <4>2
      <3>3. QED
        BY <1>2, <1>4, <3>1, <3>2
    <2>3. CASE RecordDelivered(p, t)
      BY <1>2, <1>4, <2>3 DEF RecordDelivered
    <2>4. QED
      BY <1>8, <2>1, <2>2, <2>3
  <1>9. ASSUME NEW p \in Proc, NEW t \in Task, MergeCheck(p, t)
        PROVE  \/ Kept \/ Early
               \/ /\ MergeCheck(q, u) /\ Goto(q, u, "ff")
                  /\ job'[q][u].at = "ff" /\ job'[q][u].sha = job[q][u].sha
    BY <1>2, <1>3, <1>4, <1>5, <1>9 DEF MergeCheck, Late
  <1>10. ASSUME NEW p \in Proc, NEW t \in Task, FastForward(p, t)
         PROVE  \/ Kept \/ Early
                \/ FastForward(q, u) /\ job[q][u].at = "ff" /\ job'[q][u].at = "approval"
    BY <1>2, <1>3, <1>4, <1>5, <1>10 DEF FastForward, At, Late
  <1>11. ASSUME NEW p \in Proc, NEW t \in Task, ConsumeApproval(p, t) \/ ConsumeVerdict(p, t)
         PROVE  \/ Kept
                \/ job[q][u].at \in {"approval", "verdict"} /\ job'[q][u].at \in {"verdict", "deliver"}
    BY <1>3, <1>5, <1>11 DEF ConsumeApproval, ConsumeVerdict, At, Late
  <1>12. ASSUME NEW p \in Proc, NEW S, StartJobs(p, S)
         PROVE  Kept \/ Early
    BY <1>12, Jobs DEF StartJobs, NoJob, Late
  <1>13. ASSUME NEW p \in Proc, NEW t \in Task,
               LandRead(p, t) \/ LandClaim(p, t) \/ ConsoleLand(p, t)
         PROVE  Kept \/ Early
    BY <1>12, <1>13 DEF LandRead, LandClaim, TakeClaim, ConsoleLand
  <1>14. ASSUME NEW p \in Proc,
                GatePass(p) \/ LandBegin(p) \/ EndLanding(p) \/ Crash(p)
         PROVE  Kept \/ Early
    <2>1. CASE LandBegin(p) \/ EndLanding(p) \/ Crash(p)
      BY <1>1, <1>12, <2>1, Jobs DEF LandBegin, EndLanding, Crash, Late
    <2>2. ASSUME NEW t \in Task, GateTask(p, t)
          PROVE  UNCHANGED job
      BY <2>2 DEF GateTask, GateRead, GateClaim, TakeClaim, GateSkips, GatePrep,
         GateBlocks, GatePasses, GateValidate, GrantToken, SaveVerdict, EndEpisode
    <2>3. CASE GatePass(p)
      BY <2>2, <2>3 DEF GatePass, StartGate, GateBegin, GateBudgetSpent, EndGate
    <2>4. QED
      BY <1>14, <2>1, <2>3
  <1>15. ASSUME NEW t \in Task, Around(t)
         PROVE  UNCHANGED job
    BY <1>15 DEF Around, WorkerCommit, WorkerRebase, Report, Approve, TokenExpires, Lapse
  <1>16. Push => UNCHANGED job
    BY DEF Push
  <1>17. ASSUME NEW p \in Proc, NEW t \in Task, Commits(p, t)
         PROVE  \/ Kept \/ Early
                \/ /\ MergeCheck(q, u) /\ Goto(q, u, "ff")
                   /\ job'[q][u].at = "ff" /\ job'[q][u].sha = job[q][u].sha
                \/ FastForward(q, u) /\ job[q][u].at = "ff" /\ job'[q][u].at = "approval"
                \/ job[q][u].at \in {"approval", "verdict"} /\ job'[q][u].at \in {"verdict", "deliver"}
    <2> HIDE DEF Kept, Early
    <2>1. QED
      BY <1>8, <1>9, <1>10, <1>11, <1>17 DEF Commits
  <1>18. QED
    <2> HIDE DEF Kept, Early
    <2>1. UNCHANGED job => Kept
      BY DEF Kept
    <2>2. QED
      BY <1>7, <1>13, <1>14, <1>15, <1>16, <1>17, <2>1, StepKinds DEF Kept, Early

\* The shape of a worktree outlasts a commit of its worker and a rebase.
LEMMA NewChange ==
  ASSUME TypeOK, NEW t \in Task, MayCommit(t)
  PROVE  LET x == [by |-> t, no |-> NextNo(t)] IN
         x \in Change /\ x.by = t /\ x \notin Changes(head[t])
  <1> DEFINE x == [by |-> t, no |-> NextNo(t)]
  <1>1. MaxCommits \in 1..MaxCommits
    BY LandingAssumption
  <1>2. \E n \in 1..MaxCommits : \A m \in Own(t) : m < n
    BY <1>1 DEF MayCommit
  <1>3. NextNo(t) \in 1..MaxCommits /\ \A m \in Own(t) : m < NextNo(t)
    BY <1>2 DEF NextNo
  <1>4. x \in Change /\ x.by = t /\ x.no = NextNo(t)
    BY <1>3, LandingAssumption DEF Change, Author
  <1>5. x \in Changes(head[t]) => x.no \in Own(t)
    BY <1>4 DEF Own
  <1>6. ~(NextNo(t) < NextNo(t))
    BY <1>3, LandingAssumption
  <1>7. QED
    BY <1>3, <1>4, <1>5, <1>6

LEMMA AppendKeeps ==
  ASSUME NEW t, NEW branch \in Commit, NEW c \in Commit, NEW x \in Change, x.by = t,
         x \notin Changes(c), Distinct(c), OwnOrShared(t, c, branch), InPlace(t, branch, c)
  PROVE  LET a == Append(c, x) IN
         Distinct(a) /\ OwnOrShared(t, a, branch) /\ InPlace(t, branch, a)
  <1> DEFINE a == Append(c, x)
  <1>1. /\ Len(a) = Len(c) + 1 /\ Len(c) \in Nat /\ a[Len(c) + 1] = x
        /\ \A i \in 1..Len(c) : a[i] = c[i]
    BY AppendIs
  <1>2. Distinct(a)
    BY DistinctAppend
  <1>3. Len(branch) \in Nat
    BY LenProperties DEF Commit
  <1> HIDE DEF a
  <1>4. OwnOrShared(t, a, branch)
    <2> SUFFICES ASSUME NEW i \in 1..Len(a), a[i].by # t
                 PROVE  Shared(a, branch, i)
      BY DEF OwnOrShared
    <2>1. i \in 1..Len(c) /\ a[i] = c[i]
      BY <1>1
    <2>2. Shared(c, branch, i)
      BY <2>1 DEF OwnOrShared
    <2>3. QED
      BY <1>1, <2>1, <2>2 DEF Shared
  <1>5. InPlace(t, branch, a)
    BY <1>1, <1>3 DEF InPlace, Shared
  <1>6. QED
    BY <1>2, <1>4, <1>5 DEF a

\* Nothing that a rebase replays is on the branch already: what the branch has of
\* the worker lies before the fork point.
LEMMA RebasedKeeps ==
  ASSUME NEW t, NEW branch \in Commit, NEW c \in Commit, Distinct(branch),
         Distinct(c), OwnOrShared(t, c, branch), InPlace(t, branch, c)
  PROVE  LET r == Rebased(branch, c) IN
         Distinct(r) /\ OwnOrShared(t, r, branch) /\ InPlace(t, branch, r)
  <1> DEFINE r == Rebased(branch, c)
             f == Fork(branch, c)
             n == Len(branch)
  <1>1. n \in Nat /\ Len(c) \in Nat
    BY LenProperties DEF Commit
  <1>2. /\ f \in 0..Len(c)
        /\ \A j \in 1..Len(c) : Shared(c, branch, j) <=> j <= f
    BY ForkIs
  <1>3. /\ Len(r) = n + (Len(c) - f)
        /\ \A i \in 1..n : r[i] = branch[i]
        /\ \A i \in n + 1 .. Len(r) : i - n + f \in f + 1 .. Len(c) /\ r[i] = c[i - n + f]
    BY RebasedIs
  <1> HIDE DEF r, f, n
  <1>4. \A k \in f + 1 .. Len(c) : k \in 1..Len(c) /\ c[k].by = t
    BY <1>1, <1>2 DEF OwnOrShared
  <1>5. ASSUME NEW j \in 1..n, NEW k \in f + 1 .. Len(c), branch[j] = c[k]
        PROVE  FALSE
    <2>1. Shared(branch, c, j)
      BY <1>4, <1>5 DEF InPlace, n
    <2>2. j \in 1..Len(c) /\ c[j] = branch[j] /\ Shared(c, branch, j)
      BY <1>1, <2>1 DEF Shared, n
    <2>3. j = k
      BY <1>4, <1>5, <2>2 DEF Distinct
    <2>4. QED
      BY <1>1, <1>2, <2>2, <2>3
  <1>6. Distinct(r)
    <2> SUFFICES ASSUME NEW i \in 1..Len(r), NEW k \in 1..Len(r), r[i] = r[k]
                 PROVE  i = k
      BY DEF Distinct
    <2>1. CASE i <= n /\ k <= n
      BY <1>1, <1>3, <2>1 DEF Distinct, n
    <2>2. CASE i <= n /\ ~(k <= n)
      BY <1>1, <1>2, <1>3, <1>5, <2>2
    <2>3. CASE ~(i <= n) /\ k <= n
      BY <1>1, <1>2, <1>3, <1>5, <2>3
    <2>4. CASE ~(i <= n) /\ ~(k <= n)
      <3>1. /\ i - n + f \in f + 1 .. Len(c) /\ k - n + f \in f + 1 .. Len(c)
            /\ c[i - n + f] = c[k - n + f]
        BY <1>1, <1>2, <1>3, <2>4
      <3>2. i - n + f = k - n + f
        BY <1>4, <3>1 DEF Distinct
      <3>3. QED
        BY <1>1, <1>2, <1>3, <3>2
    <2>5. QED
      BY <2>1, <2>2, <2>3, <2>4
  <1>7. OwnOrShared(t, r, branch)
    <2> SUFFICES ASSUME NEW i \in 1..Len(r)
                 PROVE  r[i].by = t \/ Shared(r, branch, i)
      BY DEF OwnOrShared
    <2>1. CASE i <= n
      BY <1>1, <1>3, <2>1 DEF Shared, n
    <2>2. CASE ~(i <= n)
      BY <1>1, <1>2, <1>3, <1>4, <2>2
    <2>3. QED
      BY <2>1, <2>2
  <1>8. InPlace(t, branch, r)
    BY <1>1, <1>2, <1>3 DEF InPlace, Shared, n
  <1>9. QED
    BY <1>6, <1>7, <1>8 DEF r

LEMMA HeadStep ==
  ASSUME TypeOK, Shape, main' = main, NEW t \in Task,
         \A u \in Task \ {t} : head'[u] = head[u],
         Distinct(head'[t]), OwnOrShared(t, head'[t], main), InPlace(t, main, head'[t])
  PROVE  Shape'
  <1>1. Distinct(main') /\ Numbered'
    BY DEF Shape, Numbered, Pushed
  <1>2. ASSUME NEW u \in Task
        PROVE  /\ Distinct(head'[u]) /\ OwnOrShared(u, head'[u], main')
               /\ InPlace(u, main', head'[u])
    BY DEF Shape
  <1>3. QED
    BY <1>1, <1>2 DEF Shape

LEMMA ShapeHead ==
  ASSUME TypeOK, Shape, Next, main' = main
  PROVE  Shape'
  <1>1. main \in Commit /\ head \in [Task -> Commit]
    BY DEF TypeOK
  <1>2. CASE head' = head
    BY <1>2 DEF Shape, Numbered, Pushed
  <1>3. ASSUME NEW t \in Task, WorkerCommit(t)
        PROVE  Shape'
    <2> DEFINE x == [by |-> t, no |-> NextNo(t)]
    <2>1. x \in Change /\ x.by = t /\ x \notin Changes(head[t])
      BY <1>3, NewChange DEF WorkerCommit
    <2>2. /\ head'[t] = Append(head[t], x)
          /\ \A u \in Task \ {t} : head'[u] = head[u]
      BY <1>1, <1>3 DEF WorkerCommit
    <2> HIDE DEF x
    <2>3. /\ Distinct(head'[t]) /\ OwnOrShared(t, head'[t], main)
          /\ InPlace(t, main, head'[t])
      BY <1>1, <2>1, <2>2, AppendKeeps DEF Shape
    <2>4. QED
      BY <2>2, <2>3, HeadStep
  <1>4. ASSUME NEW t \in Task, WorkerRebase(t)
        PROVE  Shape'
    <2> DEFINE x == [by |-> t, no |-> NextNo(t)]
    <2>1. x \in Change /\ x.by = t /\ x \notin Changes(head[t])
      BY <1>4, NewChange DEF WorkerRebase
    <2>2. /\ head'[t] = Append(main, x)
          /\ \A u \in Task \ {t} : head'[u] = head[u]
      BY <1>1, <1>4 DEF WorkerRebase
    <2> HIDE DEF x
    <2>3. Len(main) \in Nat
      BY <1>1, LenProperties DEF Commit
    <2>4. Distinct(main) /\ OwnOrShared(t, main, main) /\ InPlace(t, main, main)
      BY <2>3 DEF Shape, OwnOrShared, InPlace, Shared
    <2>5. x \notin Changes(main)
      <3> SUFFICES ASSUME NEW i \in 1..Len(main), main[i] = x
                   PROVE  FALSE
        BY DEF Changes
      <3>1. Shared(main, head[t], i)
        BY <2>1 DEF Shape, InPlace
      <3>2. i \in 1..Len(head[t]) /\ head[t][i] = x
        BY <1>1, <2>3, <3>1, LenProperties DEF Shared, Commit
      <3>3. QED
        BY <2>1, <3>2 DEF Changes
    <2>6. /\ Distinct(head'[t]) /\ OwnOrShared(t, head'[t], main)
          /\ InPlace(t, main, head'[t])
      BY <1>1, <2>1, <2>2, <2>4, <2>5, AppendKeeps
    <2>7. QED
      BY <2>2, <2>6, HeadStep
  <1>5. ASSUME NEW p \in Proc, NEW t \in Task, LandRebase(p, t)
        PROVE  Shape'
    <2>1. head' = head \/ head' = [head EXCEPT ![t] = Rebased(main, head[t])]
      BY <1>5 DEF LandRebase
    <2>2. CASE head' = [head EXCEPT ![t] = Rebased(main, head[t])]
      <3>1. /\ head'[t] = Rebased(main, head[t])
            /\ \A u \in Task \ {t} : head'[u] = head[u]
        BY <1>1, <2>2
      <3>2. /\ Distinct(head'[t]) /\ OwnOrShared(t, head'[t], main)
            /\ InPlace(t, main, head'[t])
        BY <1>1, <3>1, RebasedKeeps DEF Shape
      <3>3. QED
        BY <3>1, <3>2, HeadStep
    <2>3. QED
      BY <1>2, <2>1, <2>2
  <1>6. QED
    BY <1>2, <1>3, <1>4, <1>5, HeadWriters

\* A worktree on top of the branch only grows.
LEMMA HeadGrows ==
  ASSUME TypeOK, Next, NEW t \in Task, IsAncestor(main, head[t])
  PROVE  IsAncestor(head[t], head'[t])
  <1>1. head \in [Task -> Commit] /\ head[t] \in Commit
    BY DEF TypeOK
  <1>2. CASE head'[t] = head[t]
    BY <1>1, <1>2, AncestorReflexive
  <1>3. ASSUME NEW u \in Task, WorkerCommit(u)
        PROVE  IsAncestor(head[t], head'[t])
    <2>1. CASE u = t
      <3> DEFINE x == [by |-> t, no |-> NextNo(t)]
      <3>1. x \in Change
        BY <1>3, <2>1, NewChange DEF WorkerCommit
      <3>2. head'[t] = Append(head[t], x)
        BY <1>1, <1>3, <2>1 DEF WorkerCommit
      <3> HIDE DEF x
      <3>3. QED
        BY <1>1, <3>1, <3>2, AppendIs
    <2>2. CASE u # t
      BY <1>1, <1>2, <1>3, <2>2 DEF WorkerCommit
    <2>3. QED
      BY <2>1, <2>2
  <1>4. ASSUME NEW u \in Task, WorkerRebase(u)
        PROVE  head'[t] = head[t]
    BY <1>1, <1>4 DEF WorkerRebase
  <1>5. ASSUME NEW p \in Proc, NEW u \in Task, LandRebase(p, u)
        PROVE  head'[t] = head[t]
    BY <1>1, <1>5 DEF LandRebase
  <1>6. QED
    BY <1>2, <1>3, <1>4, <1>5, HeadWriters

LEMMA ShapePush ==
  ASSUME TypeOK, Shape, Push
  PROVE  Shape'
  <1> DEFINE x == [by |-> Lead, no |-> Cardinality(Pushed) + 1]
  <1>1. Cardinality(Pushed) \in Nat /\ IsFiniteSet(Pushed)
    <2>1. Len(main) \in Nat /\ main \in [1..Len(main) -> Change]
      BY LenProperties DEF TypeOK, Commit
    <2>2. IsFiniteSet(1..Len(main))
      BY <2>1, FS_Interval
    <2>3. main \in Surjection(1..Len(main), Changes(main))
      BY <2>1 DEF Surjection, Changes
    <2>4. IsFiniteSet(Changes(main))
      BY <2>2, <2>3, FS_Surjection
    <2>5. IsFiniteSet(Pushed)
      BY <2>4, FS_Subset DEF Pushed
    <2>6. QED
      BY <2>5, FS_CardinalityType
  <1>2. x \in Change /\ x.by = Lead /\ x.no = Cardinality(Pushed) + 1
    BY <1>1 DEF Change, Author
  <1>3. main \in Commit /\ main' = Append(main, x) /\ head' = head
    BY DEF Push, TypeOK
  <1> HIDE DEF x
  <1>4. /\ Len(main') = Len(main) + 1 /\ Len(main) \in Nat /\ main'[Len(main) + 1] = x
        /\ \A i \in 1..Len(main) : main'[i] = main[i]
        /\ IsAncestor(main, main') /\ main' \in Commit
    BY <1>2, <1>3, AppendIs
  <1>5. x \notin Pushed
    BY <1>1, <1>2 DEF Shape, Numbered
  <1>6. Distinct(main')
    <2>1. x \notin Changes(main)
      BY <1>2, <1>5 DEF Pushed
    <2>2. QED
      BY <1>2, <1>3, <2>1, DistinctAppend DEF Shape
  <1>7. Numbered'
    <2>1. Pushed' = Pushed \cup {x}
      BY <1>2, <1>4 DEF Pushed, Changes
    <2>2. Cardinality(Pushed') = Cardinality(Pushed) + 1
      BY <1>1, <1>5, <2>1, FS_AddElement
    <2>3. \A y \in Pushed : y.no \in 1..Cardinality(Pushed)
      BY DEF Shape, Numbered
    <2>4. \A y \in Pushed' : y.no \in 1 .. Cardinality(Pushed) + 1
      BY <1>1, <1>2, <2>1, <2>3
    <2>5. QED
      BY <2>2, <2>4 DEF Numbered
  <1>8. ASSUME NEW t \in Task
        PROVE  OwnOrShared(t, head[t], main') /\ InPlace(t, main', head[t])
    <2>1. Len(head[t]) \in Nat
      BY LenProperties DEF TypeOK, Commit
    <2>2. OwnOrShared(t, head[t], main')
      BY <1>3, <1>4, <2>1, SharedGrows DEF Shape, OwnOrShared
    <2>3. InPlace(t, main', head[t])
      <3> SUFFICES ASSUME NEW i \in 1..Len(main'), main'[i].by = t
                   PROVE  Shared(main', head[t], i)
        BY DEF InPlace
      <3>1. i \in 1..Len(main) /\ main[i] = main'[i]
        BY <1>2, <1>4, CommitsAssumption
      <3>2. Shared(main, head[t], i)
        BY <3>1 DEF Shape, InPlace
      <3>3. QED
        BY <1>4, <3>1, <3>2 DEF Shared
    <2>4. QED
      BY <2>2, <2>3
  <1>9. QED
    BY <1>3, <1>6, <1>7, <1>8 DEF Shape

LEMMA ShapeForward ==
  ASSUME TypeOK, TypeOK', Shape, Merging, NEW p \in Proc, NEW t \in Task, FastForward(p, t)
  PROVE  Shape'
  <1> DEFINE sha == job[p][t].sha
  <1>1. head' = head /\ job[p][t].at = "ff"
    BY DEF FastForward, At, branchVars
  <1>2. CASE main' = main
    BY <1>1, <1>2 DEF Shape, Numbered, Pushed
  <1>3. CASE main' # main
    <2>1. IsAncestor(main, sha) /\ main' = sha
      BY <1>3 DEF FastForward
    <2>2. IsAncestor(sha, head[t])
      BY <1>1, <2>1 DEF Merging
    <2>3. main \in Commit /\ sha \in Commit /\ head[t] \in Commit
      BY <2>1 DEF TypeOK
    <2> HIDE DEF sha
    <2>4. /\ Len(main) \in Nat /\ Len(sha) \in Nat /\ Len(head[t]) \in Nat
          /\ Len(main) <= Len(sha) /\ Len(sha) <= Len(head[t])
          /\ \A i \in 1..Len(main) : sha[i] = main[i]
          /\ \A i \in 1..Len(sha) : head[t][i] = sha[i]
      BY <2>1, <2>2, <2>3, AncestorPointwise, LenProperties DEF Commit
    <2>5. Distinct(sha)
      BY <2>2, <2>3, PrefixDistinct DEF Shape
    \* All that sha has of others is on the branch already, in the same place.
    <2>6. ASSUME NEW i \in 1..Len(sha), sha[i].by # t
          PROVE  i \in 1..Len(main) /\ sha[i] = main[i]
      <3>1. i \in 1..Len(head[t]) /\ head[t][i] = sha[i]
        BY <2>4
      <3>2. Shared(head[t], main, i)
        BY <2>6, <3>1 DEF Shape, OwnOrShared
      <3>3. QED
        BY <2>4, <3>2 DEF Shared
    <2>7. Numbered'
      <3>1. {x \in Changes(sha) : x.by = Lead} = Pushed
        <4>1. ASSUME NEW x \in Changes(sha), x.by = Lead
              PROVE  x \in Changes(main)
          BY <2>6, <4>1, CommitsAssumption DEF Changes
        <4>2. ASSUME NEW x \in Changes(main)
              PROVE  x \in Changes(sha)
          BY <2>1, <2>3, AncestorChanges
        <4>3. QED
          BY <4>1, <4>2 DEF Pushed
      <3>2. Pushed' = Pushed
        BY <2>1, <3>1 DEF Pushed
      <3>3. QED
        BY <3>2 DEF Shape, Numbered
    <2>8. ASSUME NEW u \in Task
          PROVE  OwnOrShared(u, head[u], sha) /\ InPlace(u, sha, head[u])
      <3>1. Len(head[u]) \in Nat
        BY LenProperties DEF TypeOK, Commit
      <3>2. OwnOrShared(u, head[u], sha)
        BY <2>1, <2>3, <3>1, SharedGrows DEF Shape, OwnOrShared
      <3>3. CASE u = t
        BY <2>4, <3>2, <3>3 DEF InPlace, Shared
      <3>4. CASE u # t
        <4> SUFFICES ASSUME NEW i \in 1..Len(sha), sha[i].by = u
                     PROVE  Shared(sha, head[u], i)
          BY <3>2 DEF InPlace
        <4>1. i \in 1..Len(main) /\ sha[i] = main[i]
          BY <2>6, <3>4
        <4>2. Shared(main, head[u], i)
          BY <4>1 DEF Shape, InPlace
        <4>3. QED
          BY <2>4, <4>1, <4>2 DEF Shared
      <3>5. QED
        BY <3>3, <3>4
    <2>9. QED
      BY <1>1, <2>1, <2>5, <2>7, <2>8 DEF Shape
  <1>4. QED
    BY <1>2, <1>3

LEMMA ShapeStep ==
  ASSUME TypeOK, TypeOK', Shape, Merging, Next
  PROVE  Shape'
  BY BranchWriters, ShapeHead, ShapePush, ShapeForward

\* What a verdict lets through is what its reviewers cleared.
LEMMA SoundDue ==
  ASSUME NEW t, NEW v, NEW sha \in Commit, v.base \in Commit, v.sha = sha,
         main \in Commit, Sound(t, v)
  PROVE  Due(t, sha, cleared, main)
  <1> DEFINE r == [task |-> t, patch |-> v.diff]
  <1>1. r \in cleared /\ r.task = t /\ r.patch = v.diff
    BY DEF Sound, SoundFor
  <1>2. v.diff.changes = Ahead(v.base, sha)
    BY DEF Sound, SoundFor, Patch
  <1>3. Ahead(main, sha) \subseteq Ahead(v.base, sha)
    BY AheadShrinks DEF Sound, SoundFor
  <1>4. Ahead(v.base, sha) \subseteq Changes(sha)
    BY DEF Ahead, Changes
  <1> HIDE DEF r
  <1>5. QED
    BY <1>1, <1>2, <1>3, <1>4 DEF Due

LEMMA DueLasts ==
  ASSUME NEW t, NEW sha \in Commit, NEW b \in Commit, NEW c \in Commit, IsAncestor(b, c),
         NEW S, NEW T, S \subseteq T, Due(t, sha, S, b)
  PROVE  Due(t, sha, T, c)
  <1>1. Ahead(c, sha) \subseteq Ahead(b, sha)
    BY AheadShrinks
  <1>2. QED
    BY <1>1 DEF Due

LEMMA PaidLasts ==
  ASSUME NEW t, NEW b \in Commit, NEW c \in Commit, IsAncestor(b, c),
         NEW S, NEW T, S \subseteq T, Paid(t, S, b)
  PROVE  Paid(t, T, c)
  <1>1. Changes(b) \subseteq Changes(c)
    BY AncestorChanges
  <1>2. QED
    BY <1>1 DEF Paid

LEMMA MergingStep ==
  ASSUME Reviewed, Shape, Merging, Next
  PROVE  Merging'
  <1> SUFFICES ASSUME NEW p \in Proc, NEW t \in Task
               PROVE  /\ job'[p][t].at = "ff" =>
                           /\ Green(job'[p][t].sha)
                           /\ Due(t, job'[p][t].sha, cleared', main')
                           /\ IsAncestor(main', job'[p][t].sha) =>
                                IsAncestor(job'[p][t].sha, head'[t])
                      /\ job'[p][t].at \in {"approval", "verdict", "deliver"} =>
                           Paid(t, cleared', main')
    BY DEF Merging
  <1>1. TypeOK /\ TypeOK' /\ IsAncestor(main, main') /\ cleared \subseteq cleared'
    BY TypeStep, Growth DEF Reviewed
  <1>2. /\ main \in Commit /\ main' \in Commit /\ head[t] \in Commit /\ head'[t] \in Commit
        /\ job[p][t] \in Job /\ job[p][t].sha \in Commit
    BY <1>1 DEF TypeOK, Job
  <1>3. ASSUME job[p][t].at \in {"approval", "verdict", "deliver"}
        PROVE  Paid(t, cleared', main')
    <2>1. Paid(t, cleared, main)
      BY <1>3 DEF Merging
    <2>2. QED
      BY <1>1, <1>2, <2>1, PaidLasts
  <1>4. CASE job'[p][t] = job[p][t]
    <2>1. ASSUME job[p][t].at = "ff"
          PROVE  /\ Green(job[p][t].sha)
                 /\ Due(t, job[p][t].sha, cleared, main)
                 /\ IsAncestor(main, job[p][t].sha) => IsAncestor(job[p][t].sha, head[t])
      BY <2>1 DEF Merging
    <2>2. ASSUME job[p][t].at = "ff"
          PROVE  Due(t, job[p][t].sha, cleared', main')
      BY <1>1, <1>2, <2>1, <2>2, DueLasts
    <2>3. ASSUME job[p][t].at = "ff", IsAncestor(main', job[p][t].sha)
          PROVE  IsAncestor(job[p][t].sha, head'[t])
      <3>1. IsAncestor(main, job[p][t].sha)
        BY <1>1, <1>2, <2>3, AncestorTransitive
      <3>2. IsAncestor(job[p][t].sha, head[t])
        BY <2>1, <2>3, <3>1
      <3>3. IsAncestor(main, head[t])
        BY <1>2, <3>1, <3>2, AncestorTransitive
      <3>4. IsAncestor(head[t], head'[t])
        BY <1>1, <3>3, HeadGrows
      <3>5. QED
        BY <1>2, <3>2, <3>4, AncestorTransitive
    <2>4. QED
      BY <1>3, <1>4, <2>1, <2>2, <2>3
  <1>5. CASE job'[p][t].at \notin Late
    BY <1>5 DEF Late
  <1>6. CASE /\ MergeCheck(p, t) /\ Goto(p, t, "ff")
             /\ job'[p][t].at = "ff" /\ job'[p][t].sha = job[p][t].sha
    <2> DEFINE sha == job[p][t].sha
    <2>1. main' = main /\ head' = head /\ cleared' = cleared
      BY <1>6 DEF MergeCheck, branchVars
    <2>2. ~(\E how \in Ended : Ends(p, t, how))
      <3>1. ASSUME NEW how \in Ended, Ends(p, t, how)
            PROVE  job'[p][t].at = how
        BY <1>1, <3>1, Jobs DEF Ends, NoJob
      <3>2. "ff" \notin Ended
        BY DEF Ended
      <3>3. QED
        BY <1>6, <3>1, <3>2
    <2>3. /\ Green(sha) /\ head[t] = sha
          /\ verdict[t].pass /\ verdict[t].sha = sha
      BY <1>6, <2>2 DEF MergeCheck, SuiteGreen, VerdictCovers, Ended
    <2>4. Sound(t, verdict[t]) /\ verdict[t].base \in Commit
      BY <1>1, <2>3 DEF Reviewed, RowSound, TypeOK, Verdict
    <2> HIDE DEF sha
    <2>5. Due(t, sha, cleared, main)
      BY <1>2, <2>3, <2>4, SoundDue
    <2>6. IsAncestor(sha, head[t])
      BY <1>2, <2>3, AncestorReflexive
    <2>7. QED
      BY <1>6, <2>1, <2>3, <2>5, <2>6 DEF sha
  <1>7. CASE FastForward(p, t) /\ job[p][t].at = "ff" /\ job'[p][t].at = "approval"
    <2> DEFINE sha == job[p][t].sha
    <2>1. Due(t, sha, cleared, main)
      BY <1>7 DEF Merging
    <2>2. ~Ends(p, t, "failed")
      <3>1. Ends(p, t, "failed") => job'[p][t].at = "failed"
        BY <1>1, Jobs DEF Ends, NoJob
      <3>2. QED
        BY <1>7, <3>1
    <2>3. main' = sha \/ (main' = main /\ IsAncestor(sha, main))
      BY <1>7, <2>2 DEF FastForward
    <2> HIDE DEF sha
    <2>4. IsAncestor(sha, main')
      BY <1>2, <2>3, AncestorReflexive
    <2>5. sha \in Commit
      BY <1>2 DEF sha
    <2>6. Changes(sha) \subseteq Changes(main')
      BY <1>2, <2>4, <2>5, AncestorChanges
    <2>7. Paid(t, cleared', main')
      BY <1>1, <2>1, <2>6 DEF Due, Paid
    <2>8. QED
      BY <1>7, <2>7
  <1>8. CASE /\ job[p][t].at \in {"approval", "verdict"}
             /\ job'[p][t].at \in {"verdict", "deliver"}
    BY <1>3, <1>8
  <1>9. QED
    BY <1>1, <1>4, <1>5, <1>6, <1>7, <1>8, LateJobs

LEMMA DeliveryInit == Init => DeliveryInv
  <1> SUFFICES ASSUME Init
               PROVE  DeliveryInv
    OBVIOUS
  <1>1. Reviewed
    BY ReviewedInit
  <1>2. Shape
    <2>1. main = <<>> /\ Len(main) = 0
      BY DEF Init
    <2>2. Distinct(main) /\ Numbered
      BY <2>1 DEF Distinct, Numbered, Pushed, Changes
    <2>3. ASSUME NEW t \in Task
          PROVE  Distinct(head[t]) /\ OwnOrShared(t, head[t], main) /\ InPlace(t, main, head[t])
      <3>1. head[t] = <<First(t)>> /\ Len(head[t]) = 1 /\ head[t][1].by = t
        BY DEF Init, First
      <3>2. QED
        BY <2>1, <3>1 DEF Distinct, OwnOrShared, InPlace
    <2>4. QED
      BY <2>2, <2>3 DEF Shape
  <1>3. Merging
    BY DEF Init, Merging, NoJob
  <1>4. QED
    BY <1>1, <1>2, <1>3 DEF DeliveryInv

LEMMA DeliveryStep == DeliveryInv /\ [Next]_vars => DeliveryInv'
  <1> SUFFICES ASSUME DeliveryInv, [Next]_vars
               PROVE  DeliveryInv'
    OBVIOUS
  <1>1. Reviewed /\ Reviewed' /\ TypeOK /\ TypeOK' /\ Shape /\ Merging
    BY ReviewedStep DEF DeliveryInv, Reviewed
  <1>2. CASE Next
    BY <1>1, <1>2, ShapeStep, MergingStep DEF DeliveryInv
  <1>3. CASE UNCHANGED vars
    <2>1. main' = main /\ head' = head /\ job' = job /\ cleared' = cleared
      BY <1>3 DEF vars
    <2>2. Shape' /\ Merging'
      BY <1>1, <2>1 DEF Shape, Merging, Numbered, Pushed
    <2>3. QED
      BY <1>1, <2>2 DEF DeliveryInv
  <1>4. QED
    BY <1>2, <1>3

(***************************************************************************)
(* Every step of Landing is a step of Delivery, or none.                   *)
(***************************************************************************)
LEMMA SameOperators ==
  /\ \A b, c : D!IsAncestor(b, c) <=> IsAncestor(b, c)
  /\ \A c : D!Changes(c) = Changes(c)
  /\ \A b, c : D!Ahead(b, c) = Ahead(b, c)
  /\ \A c : D!Green(c) <=> Green(c)
  <1>1. \A b, c : D!IsAncestor(b, c) <=> IsAncestor(b, c)
    BY DEF IsAncestor, D!IsAncestor
  <1>2. \A c : D!Changes(c) = Changes(c)
    BY DEF Changes, D!Changes
  <1>3. \A b, c : D!Ahead(b, c) = Ahead(b, c)
    BY DEF Ahead, D!Ahead, IsAncestor, D!IsAncestor
  <1>4. \A c : D!Green(c) <=> Green(c)
    BY DEF Green, D!Green, Pairs, D!Pairs, Authors, D!Authors, Changes, D!Changes
  <1>5. QED
    BY <1>1, <1>2, <1>3, <1>4

LEMMA SameCount == \A S : D!Cardinality(S) = Cardinality(S)
  BY Zenon DEF Cardinality, D!Cardinality

LEMMA PushIsPush ==
  ASSUME TypeOK, Push
  PROVE  D!Push
  <1> DEFINE x == [by |-> Lead, no |-> Cardinality(Pushed) + 1]
  <1>1. x \in Change /\ x.by = Lead
    BY PushedTyped DEF TypeOK, Change, Author
  <1>2. main \in Commit /\ main' = Append(main, x) /\ cleared' = cleared /\ status' = status
    BY DEF Push, TypeOK, gateVars, rowVars
  <1> HIDE DEF x
  <1>3. /\ Len(main') = Len(main) + 1 /\ IsAncestor(main, main')
        /\ main'[Len(main')].by = Lead
    BY <1>1, <1>2, AppendIs
  <1>4. QED
    BY <1>2, <1>3, SameOperators DEF D!Push

LEMMA ForwardIsMerge ==
  ASSUME DeliveryInv, TypeOK', NEW p \in Proc, NEW t \in Task, FastForward(p, t), main' # main
  PROVE  D!Merge
  <1> DEFINE sha == job[p][t].sha
  <1>1. /\ job[p][t].at = "ff" /\ cleared' = cleared /\ status' = status
        /\ IsAncestor(main, sha) /\ main' = sha
    BY DEF FastForward, At, gateVars, rowVars
  <1>2. Green(sha) /\ Due(t, sha, cleared, main) /\ IsAncestor(sha, head[t])
    BY <1>1 DEF DeliveryInv, Merging
  <1>3. sha \in Commit /\ head[t] \in Commit
    BY <1>1 DEF DeliveryInv, Reviewed, TypeOK
  <1> HIDE DEF sha
  <1>4. Distinct(sha)
    BY <1>2, <1>3, PrefixDistinct DEF DeliveryInv, Shape
  <1>5. Cardinality(Changes(sha)) = Len(sha)
    BY <1>3, <1>4, CountDistinct
  <1>6. \E r \in cleared : Ahead(main, sha) \subseteq r.patch.changes
    BY <1>2 DEF Due
  <1>7. QED
    <2>1. D!IsAncestor(main, main') /\ D!Green(main')
      BY <1>1, <1>2, SameOperators
    <2>2. D!Ahead(main, main') = Ahead(main, sha) /\ D!Changes(main') = Changes(sha)
      BY <1>1, SameOperators
    <2>3. Cardinality(D!Changes(main')) = Len(main')
      BY <1>1, <1>5, <2>2
    <2>4. \E r \in cleared : D!Ahead(main, main') \subseteq r.patch.changes
      BY <1>6, <2>2
    <2>5. QED
      <3>1. UNCHANGED <<cleared, {u \in Task : status[u] = "delivered"}>>
        BY <1>1
      <3>2. QED
        BY <2>1, <2>3, <2>4, <3>1, SameCount DEF D!Merge

LEMMA ReportIsClear ==
  ASSUME TypeOK, NEW t \in Task, Report(t)
  PROVE  D!Clear
  <1>1. cleared \subseteq cleared' /\ main' = main /\ status' = status
    BY DEF Report, branchVars, rowVars
  <1>2. QED
    BY <1>1 DEF D!Clear

LEMMA DeliveredIsDeliver ==
  ASSUME DeliveryInv, NEW p \in Proc, NEW t \in Task, RecordDelivered(p, t)
  PROVE  D!Deliver(t)
  <1>1. /\ job[p][t].at = "deliver" /\ main' = main /\ cleared' = cleared
        /\ status' = [status EXCEPT ![t] = "delivered"]
    BY DEF RecordDelivered, At, branchVars, gateVars
  <1>2. Paid(t, cleared, main)
    BY <1>1 DEF DeliveryInv, Merging
  <1>3. status \in [Task -> {"done", "delivered"}]
    BY DEF DeliveryInv, Reviewed, TypeOK
  <1>4. {u \in Task : status'[u] = "delivered"} = {u \in Task : status[u] = "delivered"} \cup {t}
    BY <1>1, <1>3
  <1>5. QED
    BY <1>1, <1>2, <1>4, SameOperators DEF D!Deliver, Paid

LEMMA StepIsDelivery ==
  ASSUME DeliveryInv, [Next]_vars
  PROVE  [D!Next]_(D!vars)
  <1>1. TypeOK /\ TypeOK'
    BY TypeStep DEF DeliveryInv, Reviewed
  <1>2. CASE UNCHANGED <<main, cleared, status>>
    BY <1>2 DEF D!vars
  <1>3. CASE Next /\ ~UNCHANGED <<main, cleared, status>>
    <2>1. ASSUME NEW p \in Proc, NEW t \in Task, FastForward(p, t)
          PROVE  D!Next
      <3>1. main' # main
        BY <1>3, <2>1 DEF FastForward, gateVars, rowVars
      <3>2. QED
        BY <1>1, <2>1, <3>1, ForwardIsMerge DEF D!Next
    <2>2. Push => D!Next
      BY <1>1, PushIsPush DEF D!Next
    <2>3. ASSUME NEW t \in Task, Report(t)
          PROVE  D!Next
      BY <1>1, <2>3, ReportIsClear DEF D!Next
    <2>4. ASSUME NEW p \in Proc, NEW t \in Task, RecordDelivered(p, t)
          PROVE  D!Next
      BY <2>4, DeliveredIsDeliver DEF D!Next
    <2>5. QED
      BY <1>3, <2>1, <2>2, <2>3, <2>4, BranchWriters, HeadWriters
  <1>4. QED
    BY <1>2, <1>3 DEF vars

\* Landing implements Delivery: the branch gains only a push of the lead or a
\* green commit whose new changes the reviewers cleared as one patch, never a
\* change it has, and a task is recorded as delivered only once such a patch of it
\* is on the branch (LandOnto, recordGitDelivery).
THEOREM DeliveryImplemented == Spec => ImplementsDelivery
  <1>1. Init => D!Init
    BY DEF Init, D!Init
  <1>2. DeliveryInv /\ [Next]_vars => [D!Next]_(D!vars)
    BY StepIsDelivery
  <1>3. QED
    BY <1>1, <1>2, DeliveryInit, DeliveryStep, PTL DEF Spec, ImplementsDelivery, D!Spec

-----------------------------------------------------------------------------
(***************************************************************************)
(* Board: the events and the claims among them.                            *)
(***************************************************************************)
Events == [kind : {"status_changed", "board_answer", "board_answer_failed", "board_gate_prep",
                   "gate_blocked", "review_recorded"},
           ref : Nat \cup B!Statuses \cup {"gate"}]

\* The newest of some events is one of them.
LEMMA NewestIs ==
  ASSUME NEW n \in Nat, NEW S \in SUBSET (1..n), S # {}
  PROVE  B!Newest(S) \in S /\ \A j \in S : j <= B!Newest(S)
<1>1. PICK m \in S : \A j \in S : j <= m
  BY Furthest
<1> QED BY <1>1 DEF B!Newest

LEMMA NewestTyped ==
  ASSUME NEW n \in Nat, NEW S \in SUBSET (1..n)
  PROVE  B!Newest(S) \in 0..n
<1>1. CASE S = {}
  BY <1>1 DEF B!Newest
<1>2. CASE S # {}
  <2>1. B!Newest(S) \in S
    BY <1>2, NewestIs
  <2>2. \A x \in S : x \in 0..n
    OBVIOUS
  <2> QED BY <2>1, <2>2
<1> QED BY <1>1, <1>2

\* An event that is neither claim nor release leaves a claim as it was; a claim
\* makes it held.
LEMMA ClaimAppends ==
  ASSUME NEW l \in Seq(Events), NEW e \in Events, NEW cl, NEW rl, NEW id
  PROVE  /\ e # B!Event(cl, id) /\ e # B!Event(rl, id) =>
              (B!ClaimHeld(cl, rl, id, Append(l, e)) <=> B!ClaimHeld(cl, rl, id, l))
         /\ e = B!Event(cl, id) => B!ClaimHeld(cl, rl, id, Append(l, e))
<1> DEFINE k == Append(l, e)
           old == {i \in DOMAIN l : l[i] \in {B!Event(cl, id), B!Event(rl, id)}}
           new == {i \in DOMAIN k : k[i] \in {B!Event(cl, id), B!Event(rl, id)}}
<1>1. /\ Len(l) \in Nat /\ DOMAIN l = 1..Len(l) /\ DOMAIN k = 1..(Len(l) + 1)
      /\ k[Len(l) + 1] = e /\ \A i \in 1..Len(l) : k[i] = l[i]
  OBVIOUS
<1>2. B!ClaimHeld(cl, rl, id, l) <=> old # {} /\ l[B!Newest(old)].kind = cl
  BY DEF B!ClaimHeld
<1>3. B!ClaimHeld(cl, rl, id, k) <=> new # {} /\ k[B!Newest(new)].kind = cl
  BY DEF B!ClaimHeld
<1>4. old \in SUBSET (1..Len(l)) /\ new \in SUBSET (1..(Len(l) + 1))
  BY <1>1
<1>5. ASSUME e # B!Event(cl, id), e # B!Event(rl, id)
      PROVE  B!ClaimHeld(cl, rl, id, k) <=> B!ClaimHeld(cl, rl, id, l)
  <2>1. new = old
    BY <1>1, <1>5
  <2>2. old # {} => k[B!Newest(old)] = l[B!Newest(old)]
    <3> HIDE DEF old, new, k
    <3> QED BY <1>1, <1>4, NewestIs
  <2> HIDE DEF old, new, k
  <2> QED BY <1>2, <1>3, <2>1, <2>2
<1>6. ASSUME e = B!Event(cl, id) PROVE B!ClaimHeld(cl, rl, id, k)
  <2>1. Len(l) + 1 \in new
    BY <1>1, <1>6
  <2> HIDE DEF new, k
  <2>2. B!Newest(new) = Len(l) + 1
    <3>1. new # {} /\ Len(l) + 1 \in Nat
      BY <1>1, <2>1
    <3>2. B!Newest(new) \in new /\ \A j \in new : j <= B!Newest(new)
      BY <1>4, <3>1, NewestIs
    <3>3. B!Newest(new) \in 1..(Len(l) + 1) /\ Len(l) + 1 <= B!Newest(new)
      BY <1>4, <2>1, <3>2
    <3> QED BY <1>1, <3>3
  <2> QED BY <1>1, <1>3, <1>6, <2>1, <2>2 DEF B!Event
<1> QED BY <1>5, <1>6

\* A claim nothing releases is held for good.
LEMMA NeverReleased ==
  ASSUME NEW l \in Seq(Events), NEW id, NEW i \in DOMAIN l, l[i] = B!Event("board_gate_prep", id)
  PROVE  B!Prepared(id, l)
<1> DEFINE marks == {j \in DOMAIN l : l[j] \in {B!Event("board_gate_prep", id), B!Event("never", id)}}
<1>1. Len(l) \in Nat /\ DOMAIN l = 1..Len(l) /\ marks \in SUBSET (1..Len(l)) /\ i \in marks
  OBVIOUS
<1>2. \A j \in DOMAIN l : l[j].kind # "never"
  <2>1. \A j \in DOMAIN l : l[j] \in Events
    OBVIOUS
  <2>2. \A e \in Events : e.kind # "never"
    BY DEF Events
  <2> QED BY <2>1, <2>2
<1>3. \A j \in marks : l[j].kind = "board_gate_prep"
  BY <1>2 DEF B!Event
<1>4. B!Prepared(id, l) <=> marks # {} /\ l[B!Newest(marks)].kind = "board_gate_prep"
  BY DEF B!Prepared, B!ClaimHeld
<1> HIDE DEF marks
<1> QED BY <1>1, <1>3, <1>4, NewestIs

-----------------------------------------------------------------------------
(***************************************************************************)
(* Board: what the variables hold.                                         *)
(***************************************************************************)
Doing == {"idle", "answer", "asked", "claim", "type", "enter", "give_back", "dispatch", "launch",
          "unclaim", "gate", "escalated", "lock", "prep", "remember", "mark", "release", "dead"}

BoardJobs == [at : Doing, id : Nat, seen : B!Statuses, again : BOOLEAN]

\* The steps a board may take under the gate's claim, and those it only takes so.
Again == {"gate", "escalated", "prep", "remember", "mark", "release"}
Under == {"prep", "remember", "mark", "release"}

JobsOk ==
  /\ action \in [Boards -> BoardJobs]
  /\ \A b \in Boards : /\ action[b].again => action[b].at \in Again
                       /\ action[b].at \in Under => action[b].again

BoardType ==
  /\ row \in B!Statuses /\ lease \in {"none", "worker", "gater"} /\ log \in Seq(Events)
  /\ acted \in [Boards -> SUBSET Nat] /\ JobsOk
  /\ answers \in [B!Ids -> Nat] /\ preps \in Seq(Boards \X Nat) /\ taken \in Nat

LEMMA IdleTyped ==
  /\ B!Idle \in BoardJobs /\ B!Idle.at = "idle" /\ B!Idle.id = 0 /\ B!Idle.again = FALSE
  /\ B!Idle.seen = "done"
BY DEF B!Idle, BoardJobs, Doing, B!Statuses

LEMMA SnapshotTyped ==
  ASSUME NEW l \in Seq(Events)
  PROVE  B!Snapshot(l).question.asks \in Nat /\ B!Snapshot(l).gate.blocked \in Nat
<1> DEFINE s == B!StatusAt(l)
<1>1. B!Snapshot(l).question = IF s \in B!Waiting THEN B!QuestionFor(s, l) ELSE B!Nothing
  BY DEF B!Snapshot
<1>2. B!Snapshot(l).gate = IF s = "done" THEN B!GateFor(l) ELSE B!Nothing
  BY DEF B!Snapshot
<1>3. Len(l) \in Nat /\ DOMAIN l = 1..Len(l)
  OBVIOUS
<1>4. \A S \in SUBSET DOMAIN l : B!Newest(S) \in Nat
  BY <1>3, NewestTyped
<1>5. B!LatestQuestion(s, l) \in Nat
  BY <1>4 DEF B!LatestQuestion
<1>6. B!LatestGateBlocked(l) \in Nat
  BY <1>4 DEF B!LatestGateBlocked
<1>7. B!QuestionFor(s, l).asks = B!LatestQuestion(s, l)
  BY DEF B!QuestionFor
<1>8. B!GateFor(l).blocked = B!LatestGateBlocked(l)
  BY DEF B!GateFor
<1>9. B!Nothing.asks = 0 /\ B!Nothing.blocked = 0
  BY DEF B!Nothing
<1> HIDE DEF s
<1> QED BY <1>1, <1>2, <1>5, <1>6, <1>7, <1>8, <1>9

\* What one board does changes nothing of the others; it goes on, or it ends.
Turned(b)   == /\ action' \in [Boards -> BoardJobs]
               /\ \A c \in Boards \ {b} : action'[c] = action[c]
Goes(b, s)  == Turned(b) /\ action'[b].at = s /\ action'[b].id = action[b].id /\ action'[b].again = action[b].again
Rests(b)    == Turned(b) /\ action'[b] = B!Idle

LEMMA GoIs ==
  ASSUME BoardType, NEW b \in Boards, NEW s \in Doing, B!Go(b, s)
  PROVE  Goes(b, s)
<1>1. action' = [action EXCEPT ![b].at = s]
  BY DEF B!Go
<1> QED BY <1>1 DEF BoardJobs, BoardType, JobsOk, Goes, Turned

LEMMA TurnIs ==
  ASSUME BoardType, NEW b \in Boards, NEW j \in BoardJobs, action' = [action EXCEPT ![b] = j]
  PROVE  Turned(b) /\ action'[b] = j
BY DEF BoardType, JobsOk, Turned

LEMMA StopIs ==
  ASSUME BoardType, NEW b \in Boards, B!Stop(b)
  PROVE  Rests(b)
BY IdleTyped, TurnIs DEF B!Stop, Rests

LEMMA DoneIs ==
  ASSUME BoardType, NEW b \in Boards, B!NothingToDo(b)
  PROVE  Rests(b) \/ (action[b].again /\ Goes(b, "release"))
<1>1. "release" \in Doing
  BY DEF Doing
<1> QED BY <1>1, GoIs, StopIs DEF B!NothingToDo

\* Where a board stands and where it goes, per action.
LEMMA ClickIs ==
  ASSUME BoardType, NEW b \in Boards, B!Clicks(b)
  PROVE  /\ action[b].at = "idle" /\ Turned(b)
         /\ action'[b].at \in {"answer", "dispatch", "gate"} /\ action'[b].again = FALSE
<1>1. action[b].at = "idle" /\ action[b].again = FALSE /\ Len(log) \in Nat
  <2>1. action[b].at = "idle" /\ (action[b].again => action[b].at \in Again)
    BY DEF B!Clicks, B!At, BoardType, JobsOk
  <2>2. action[b].again \in BOOLEAN
    BY DEF BoardType, JobsOk, BoardJobs
  <2>3. ~action[b].again
    BY <2>1 DEF Again
  <2>4. Len(log) \in Nat
    BY DEF BoardType, JobsOk
  <2> QED BY <2>1, <2>2, <2>3, <2>4
<1>2. PICK n \in 0..Len(log) :
        LET p == B!Snapshot(SubSeq(log, 1, n))
        IN  \/ p.question.asks # 0 /\ action' = [action EXCEPT ![b] = [B!Idle EXCEPT !.at = "answer", !.id = p.question.asks]]
            \/ p.backlog /\ B!Go(b, "dispatch")
            \/ p.gate.blocked # 0 /\ action' = [action EXCEPT ![b] = [B!Idle EXCEPT !.at = "gate", !.id = p.gate.blocked]]
  BY DEF B!Clicks, B!Pages
<1>3. SubSeq(log, 1, n) \in Seq(Events)
  BY <1>1 DEF BoardType, JobsOk
<1> DEFINE p == B!Snapshot(SubSeq(log, 1, n))
<1>4. p.question.asks \in Nat /\ p.gate.blocked \in Nat
  BY <1>3, SnapshotTyped
<1> HIDE DEF p
<1>5. \A i \in Nat, s \in Doing :
        LET j == [B!Idle EXCEPT !.at = s, !.id = i] IN j \in BoardJobs /\ j.at = s /\ j.again = FALSE
  BY DEF B!Idle, BoardJobs, B!Statuses
<1>6. {"answer", "gate", "dispatch"} \subseteq Doing
  BY DEF Doing
<1>10. ASSUME NEW s \in {"answer", "gate"}, NEW i \in Nat, action' = [action EXCEPT ![b] = [B!Idle EXCEPT !.at = s, !.id = i]]
       PROVE  Turned(b) /\ action'[b].at = s /\ action'[b].again = FALSE
  <2> DEFINE j == [B!Idle EXCEPT !.at = s, !.id = i]
  <2>1. j \in BoardJobs /\ j.at = s /\ j.again = FALSE
    BY <1>5, <1>6
  <2>2. action' = [action EXCEPT ![b] = j]
    BY <1>10
  <2> HIDE DEF j
  <2> QED BY <2>1, <2>2, TurnIs
<1>7. CASE action' = [action EXCEPT ![b] = [B!Idle EXCEPT !.at = "answer", !.id = p.question.asks]]
  BY <1>1, <1>4, <1>7, <1>10
<1>8. CASE action' = [action EXCEPT ![b] = [B!Idle EXCEPT !.at = "gate", !.id = p.gate.blocked]]
  BY <1>1, <1>4, <1>8, <1>10
<1>9. CASE B!Go(b, "dispatch")
  BY <1>1, <1>6, <1>9, GoIs DEF Goes
<1> QED BY <1>2, <1>7, <1>8, <1>9 DEF p

LEMMA ReadIs ==
  ASSUME BoardType, NEW b \in Boards, B!ReadsTask(b)
  PROVE  \/ action[b].at = "answer" /\ (Goes(b, "asked") \/ Rests(b))
         \/ action[b].at = "gate" /\ (Goes(b, "escalated") \/ Rests(b) \/ (action[b].again /\ Goes(b, "release")))
<1>1. action[b].at \in {"answer", "gate"} /\ (action[b].again => action[b].at \in Again)
  BY DEF B!ReadsTask, B!At, BoardType, JobsOk
<1>2. action[b].again => action[b].at = "gate"
  BY <1>1 DEF Again
<1>3. CASE B!NothingToDo(b)
  BY <1>1, <1>2, <1>3, DoneIs
<1>4. CASE action' = [action EXCEPT ![b].seen = row,
                                    ![b].at = IF action[b].at = "answer" THEN "asked" ELSE "escalated"]
  <2> DEFINE s == IF action[b].at = "answer" THEN "asked" ELSE "escalated"
  <2>1. s \in Doing /\ row \in B!Statuses
    BY DEF Doing, BoardType, JobsOk
  <2>2. Goes(b, s)
    <3>1. action' = [action EXCEPT ![b].seen = row, ![b].at = s]
      BY <1>4
    <3> HIDE DEF s
    <3> QED BY <2>1, <3>1 DEF Goes, Turned, BoardType, JobsOk, BoardJobs
  <2> QED BY <1>1, <2>2
<1> QED BY <1>3, <1>4 DEF B!ReadsTask

LEMMA LockIs ==
  ASSUME BoardType, NEW b \in Boards, action' = [action EXCEPT ![b].at = "gate", ![b].again = TRUE]
  PROVE  Turned(b) /\ action'[b].at = "gate" /\ action'[b].again = TRUE
<1>1. "gate" \in Doing
  BY DEF Doing
<1> QED BY <1>1 DEF BoardType, JobsOk, Turned, BoardJobs

LEMMA KillIs ==
  ASSUME BoardType, NEW b \in Boards, B!Killed(b)
  PROVE  action[b].at # "dead" /\ Turned(b) /\ action'[b].at = "dead" /\ action'[b].again = FALSE
<1> DEFINE j == [B!Idle EXCEPT !.at = "dead"]
<1>1. j \in BoardJobs /\ j.at = "dead" /\ j.again = FALSE
  BY DEF B!Idle, BoardJobs, Doing, B!Statuses
<1>2. action[b].at # "dead" /\ action' = [action EXCEPT ![b] = j]
  BY DEF B!Killed, B!At
<1> HIDE DEF j
<1> QED BY <1>1, <1>2, TurnIs

LEMMA WorkIs ==
  ASSUME BoardType, NEW b \in Boards
  PROVE  /\ B!ReadsQuestion(b) => action[b].at = "asked" /\ (Goes(b, "claim") \/ Rests(b))
         /\ B!ClaimsQuestion(b) => action[b].at = "claim" /\ (Goes(b, "type") \/ Rests(b))
         /\ B!Types(b) => action[b].at = "type" /\ (Goes(b, "enter") \/ Goes(b, "give_back"))
         /\ B!Enters(b) => action[b].at = "enter" /\ (Goes(b, "give_back") \/ Rests(b))
         /\ B!GivesBack(b) => action[b].at = "give_back" /\ (Rests(b))
         /\ B!ClaimsTask(b) => action[b].at = "dispatch" /\ (Goes(b, "launch") \/ Rests(b))
         /\ B!Launches(b) => action[b].at = "launch" /\ (Goes(b, "unclaim") \/ Rests(b))
         /\ B!Unclaims(b) => action[b].at = "unclaim" /\ (Rests(b))
         /\ B!ReadsGate(b) => action[b].at = "escalated" /\ ((Goes(b, "prep") /\ action[b].again) \/ (Goes(b, "lock") /\ ~action[b].again) \/ (action[b].again /\ Goes(b, "release")) \/ Rests(b))
         /\ B!ClaimsGate(b) => action[b].at = "lock" /\ (Rests(b) \/ (Turned(b) /\ action'[b].at = "gate" /\ action'[b].again = TRUE))
         /\ B!Preps(b) => action[b].at = "prep" /\ (Goes(b, "remember") \/ Goes(b, "release"))
         /\ B!Remembers(b) => action[b].at = "remember" /\ (Goes(b, "mark"))
         /\ B!Marks(b) => action[b].at = "mark" /\ (Goes(b, "release"))
         /\ B!Releases(b) => action[b].at = "release" /\ (Rests(b))
<1> USE DEF B!At
<1>0. \A s \in {"claim", "type", "enter", "give_back", "launch", "unclaim", "prep", "lock", "release", "remember", "mark"} :
         s \in Doing
  BY DEF Doing
<1>1. ASSUME B!ReadsQuestion(b) PROVE action[b].at = "asked" /\ (Goes(b, "claim") \/ Rests(b))
  BY <1>0, <1>1, GoIs, StopIs DEF B!ReadsQuestion
<1>2. ASSUME B!ClaimsQuestion(b) PROVE action[b].at = "claim" /\ (Goes(b, "type") \/ Rests(b))
  BY <1>0, <1>2, GoIs, StopIs DEF B!ClaimsQuestion
<1>3. ASSUME B!Types(b) PROVE action[b].at = "type" /\ (Goes(b, "enter") \/ Goes(b, "give_back"))
  BY <1>0, <1>3, GoIs, StopIs DEF B!Types
<1>4. ASSUME B!Enters(b) PROVE action[b].at = "enter" /\ (Goes(b, "give_back") \/ Rests(b))
  BY <1>0, <1>4, GoIs, StopIs DEF B!Enters
<1>5. ASSUME B!GivesBack(b) PROVE action[b].at = "give_back" /\ (Rests(b))
  BY <1>0, <1>5, GoIs, StopIs DEF B!GivesBack
<1>6. ASSUME B!ClaimsTask(b) PROVE action[b].at = "dispatch" /\ (Goes(b, "launch") \/ Rests(b))
  BY <1>0, <1>6, GoIs, StopIs DEF B!ClaimsTask
<1>7. ASSUME B!Launches(b) PROVE action[b].at = "launch" /\ (Goes(b, "unclaim") \/ Rests(b))
  BY <1>0, <1>7, GoIs, StopIs DEF B!Launches
<1>8. ASSUME B!Unclaims(b) PROVE action[b].at = "unclaim" /\ (Rests(b))
  BY <1>0, <1>8, GoIs, StopIs DEF B!Unclaims
<1>9. ASSUME B!ReadsGate(b) PROVE action[b].at = "escalated" /\ ((Goes(b, "prep") /\ action[b].again) \/ (Goes(b, "lock") /\ ~action[b].again) \/ (action[b].again /\ Goes(b, "release")) \/ Rests(b))
  BY <1>0, <1>9, GoIs, StopIs, DoneIs DEF B!ReadsGate
<1>10. ASSUME B!ClaimsGate(b) PROVE action[b].at = "lock" /\ (Rests(b) \/ (Turned(b) /\ action'[b].at = "gate" /\ action'[b].again = TRUE))
  BY <1>0, <1>10, GoIs, StopIs, LockIs DEF B!ClaimsGate
<1>11. ASSUME B!Preps(b) PROVE action[b].at = "prep" /\ (Goes(b, "remember") \/ Goes(b, "release"))
  BY <1>0, <1>11, GoIs, StopIs DEF B!Preps
<1>12. ASSUME B!Remembers(b) PROVE action[b].at = "remember" /\ (Goes(b, "mark"))
  BY <1>0, <1>12, GoIs, StopIs DEF B!Remembers
<1>13. ASSUME B!Marks(b) PROVE action[b].at = "mark" /\ (Goes(b, "release"))
  BY <1>0, <1>13, GoIs, StopIs DEF B!Marks
<1>14. ASSUME B!Releases(b) PROVE action[b].at = "release" /\ (Rests(b))
  BY <1>0, <1>14, GoIs, StopIs DEF B!Releases
<1> QED BY <1>1, <1>2, <1>3, <1>4, <1>5, <1>6, <1>7, <1>8, <1>9, <1>10, <1>11, <1>12, <1>13, <1>14

BoardMoves(b) ==
  \/ B!Clicks(b) \/ B!ReadsTask(b)
  \/ B!ReadsQuestion(b) \/ B!ClaimsQuestion(b) \/ B!Types(b) \/ B!Enters(b) \/ B!GivesBack(b)
  \/ B!ClaimsTask(b) \/ B!Launches(b) \/ B!Unclaims(b)
  \/ B!ReadsGate(b) \/ B!ClaimsGate(b) \/ B!Preps(b) \/ B!Remembers(b) \/ B!Marks(b) \/ B!Releases(b)
  \/ B!Killed(b)

FleetMoves == B!Reports \/ B!Vanishes \/ B!Lapses \/ B!GateTakes \/ B!GateEnds \/ B!Taken

LEMMA BoardNext == B!Next <=> (\E b \in Boards : BoardMoves(b)) \/ FleetMoves
BY DEF B!Next, BoardMoves, FleetMoves

LEMMA JobsStep ==
  ASSUME BoardType, NEW b \in Boards, BoardMoves(b)
  PROVE  Turned(b) /\ JobsOk'
<1>1. ASSUME Turned(b), action'[b].again => action'[b].at \in Again, action'[b].at \in Under => action'[b].again
      PROVE  Turned(b) /\ JobsOk'
  BY <1>1 DEF Turned, BoardType, JobsOk
<1>2. ASSUME Rests(b) PROVE Turned(b) /\ JobsOk'
  BY <1>1, <1>2, IdleTyped DEF Rests, Under
<1>3. action[b].again => action[b].at \in Again
  BY DEF BoardType, JobsOk
<1>4. ASSUME NEW s \in Doing, Goes(b, s), action[b].again => s \in Again, s \in Under => action[b].again PROVE Turned(b) /\ JobsOk'
  BY <1>1, <1>4 DEF Goes
<1>5. action[b].at \in Under => action[b].again
  BY DEF BoardType, JobsOk
<1> USE DEF Again, Under, Doing
<1>6. CASE B!Clicks(b)
  BY <1>1, <1>6, ClickIs
<1>7. CASE B!ReadsTask(b)
  BY <1>2, <1>3, <1>4, <1>7, ReadIs
<1>8. CASE B!Killed(b)
  BY <1>1, <1>8, KillIs
<1>9. CASE B!ReadsQuestion(b)
  BY <1>1, <1>2, <1>3, <1>4, <1>5, <1>9, WorkIs
<1>10. CASE B!ClaimsQuestion(b)
  BY <1>1, <1>2, <1>3, <1>4, <1>5, <1>10, WorkIs
<1>11. CASE B!Types(b)
  BY <1>1, <1>2, <1>3, <1>4, <1>5, <1>11, WorkIs
<1>12. CASE B!Enters(b)
  BY <1>1, <1>2, <1>3, <1>4, <1>5, <1>12, WorkIs
<1>13. CASE B!GivesBack(b)
  BY <1>1, <1>2, <1>3, <1>4, <1>5, <1>13, WorkIs
<1>14. CASE B!ClaimsTask(b)
  BY <1>1, <1>2, <1>3, <1>4, <1>5, <1>14, WorkIs
<1>15. CASE B!Launches(b)
  BY <1>1, <1>2, <1>3, <1>4, <1>5, <1>15, WorkIs
<1>16. CASE B!Unclaims(b)
  BY <1>1, <1>2, <1>3, <1>4, <1>5, <1>16, WorkIs
<1>17. CASE B!ReadsGate(b)
  BY <1>1, <1>2, <1>3, <1>4, <1>5, <1>17, WorkIs
<1>18. CASE B!ClaimsGate(b)
  BY <1>1, <1>2, <1>3, <1>4, <1>5, <1>18, WorkIs
<1>19. CASE B!Preps(b)
  BY <1>1, <1>2, <1>3, <1>4, <1>5, <1>19, WorkIs
<1>20. CASE B!Remembers(b)
  BY <1>1, <1>2, <1>3, <1>4, <1>5, <1>20, WorkIs
<1>21. CASE B!Marks(b)
  BY <1>1, <1>2, <1>3, <1>4, <1>5, <1>21, WorkIs
<1>22. CASE B!Releases(b)
  BY <1>1, <1>2, <1>3, <1>4, <1>5, <1>22, WorkIs
<1> QED BY <1>6, <1>7, <1>8, <1>9, <1>10, <1>11, <1>12, <1>13, <1>14, <1>15, <1>16, <1>17, <1>18, <1>19, <1>20, <1>21, <1>22 DEF BoardMoves

\* An event that claims nothing, if any.
Unclaimed ==
  \/ log' = log
  \/ \E e \in Events : e.kind \in {"status_changed", "gate_blocked", "review_recorded"} /\ log' = Append(log, e)

LEMMA EventsTyped ==
  /\ \A s \in B!Statuses : B!Moved(s) \in Events /\ B!Moved(s).kind = "status_changed"
  /\ \A k \in {"gate_blocked", "review_recorded"} : B!Event(k, "gate") \in Events /\ B!Event(k, "gate").kind = k
  /\ \A k \in {"board_answer", "board_answer_failed", "board_gate_prep"}, i \in Nat :
       B!Event(k, i) \in Events /\ B!Event(k, i).kind = k
BY DEF B!Moved, B!Event, Events

LEMMA UnclaimedIs ==
  ASSUME BoardType
  PROVE  /\ \A b \in Boards : BoardMoves(b) =>
              Unclaimed \/ B!ClaimsQuestion(b) \/ B!GivesBack(b) \/ B!Marks(b)
         /\ FleetMoves => Unclaimed
<1> USE DEF Unclaimed
<1>1. ASSUME NEW b \in Boards, BoardMoves(b) PROVE Unclaimed \/ B!ClaimsQuestion(b) \/ B!GivesBack(b) \/ B!Marks(b)
  <2>1. CASE UNCHANGED log
    BY <2>1
  <2>2. CASE B!ClaimsTask(b)
    <3>1. B!Moved("active") \in Events /\ B!Moved("active").kind = "status_changed"
      BY EventsTyped DEF B!Statuses
    <3> QED BY <2>2, <3>1 DEF B!ClaimsTask
  <2>3. CASE B!Unclaims(b)
    <3>1. B!Moved("pending") \in Events /\ B!Moved("pending").kind = "status_changed"
      BY EventsTyped DEF B!Statuses
    <3> QED BY <2>3, <3>1 DEF B!Unclaims
  <2>4. \/ B!Clicks(b) \/ B!ReadsTask(b) \/ B!ReadsQuestion(b) \/ B!Types(b) \/ B!Enters(b) \/ B!Launches(b)
        \/ B!ReadsGate(b) \/ B!ClaimsGate(b) \/ B!Preps(b) \/ B!Remembers(b) \/ B!Releases(b) \/ B!Killed(b)
        => UNCHANGED log
    BY DEF B!Clicks, B!ReadsTask, B!ReadsQuestion, B!Types, B!Enters, B!Launches, B!ReadsGate, B!ClaimsGate,
           B!Preps, B!Remembers, B!Releases, B!Killed
  <2> QED BY <1>1, <2>1, <2>2, <2>3, <2>4 DEF BoardMoves
<1>2. ASSUME FleetMoves PROVE Unclaimed
  <2>1. CASE B!Reports
    <3>1. PICK s \in B!Waiting \cup {"active", "done"} : log' = Append(log, B!Moved(s))
      BY <2>1 DEF B!Reports
    <3>2. s \in B!Statuses
      BY DEF B!Statuses
    <3> QED BY <3>1, <3>2, EventsTyped
  <2>2. CASE B!Lapses
    <3>1. B!Moved("pending") \in Events /\ B!Moved("pending").kind = "status_changed"
      BY EventsTyped DEF B!Statuses
    <3> QED BY <2>2, <3>1 DEF B!Lapses
  <2>3. CASE B!GateEnds
    <3>1. log' = log \/ \E k \in {"gate_blocked", "review_recorded"} : log' = Append(log, B!Event(k, "gate"))
      BY <2>3 DEF B!GateEnds
    <3> QED BY <3>1, EventsTyped
  <2>4. B!Vanishes \/ B!GateTakes \/ B!Taken => log' = log
    BY DEF B!Vanishes, B!GateTakes, B!Taken
  <2> QED BY <1>2, <2>1, <2>2, <2>3, <2>4 DEF FleetMoves
<1> QED BY <1>1, <1>2

LEMMA LogStep ==
  ASSUME BoardType, B!Next PROVE log' \in Seq(Events)
<1>1. \A e \in Events : Append(log, e) \in Seq(Events)
  BY DEF BoardType
<1>2. Unclaimed => log' \in Seq(Events)
  BY <1>1 DEF Unclaimed, BoardType
<1>3. ASSUME NEW b \in Boards, B!ClaimsQuestion(b) \/ B!GivesBack(b) \/ B!Marks(b) PROVE log' \in Seq(Events)
  <2>1. action[b].id \in Nat
    BY DEF BoardType, JobsOk, BoardJobs
  <2>2. log' = log \/ \E k \in {"board_answer", "board_answer_failed", "board_gate_prep"} : log' = Append(log, B!Event(k, action[b].id))
    BY <1>3 DEF B!ClaimsQuestion, B!ClaimMarker, B!GivesBack, B!Marks
  <2> QED BY <1>1, <2>1, <2>2, EventsTyped DEF BoardType
<1> QED BY <1>2, <1>3, UnclaimedIs, BoardNext

LEMMA BoardTypeStep ==
  ASSUME BoardType, [B!Next]_board PROVE BoardType'
<1>1. CASE UNCHANGED board
  BY <1>1 DEF board, BoardType, JobsOk
<1>2. CASE B!Next
  <2>1. log' \in Seq(Events)
    BY <1>2, LogStep
  <2>2. JobsOk'
    <3>1. FleetMoves => UNCHANGED action
      BY DEF FleetMoves, B!Reports, B!Vanishes, B!Lapses, B!GateTakes, B!GateEnds, B!Taken
    <3> QED BY <1>2, <3>1, BoardNext, JobsStep DEF BoardType, JobsOk
  <2>3. row' \in B!Statuses
    BY <1>2 DEF BoardType, B!Statuses, B!Next, B!Clicks, B!ReadsTask, B!ReadsQuestion, B!ClaimsQuestion, B!Types,
       B!Enters, B!GivesBack, B!ClaimsTask, B!Launches, B!Unclaims, B!ReadsGate, B!ClaimsGate, B!Preps, B!Remembers,
       B!Marks, B!Releases, B!Killed, B!Reports, B!Vanishes, B!Lapses, B!GateTakes, B!GateEnds, B!Taken
  <2>4. lease' \in {"none", "worker", "gater"}
    BY <1>2 DEF BoardType, B!Next, B!Clicks, B!ReadsTask, B!ReadsQuestion, B!ClaimsQuestion, B!Types,
       B!Enters, B!GivesBack, B!ClaimsTask, B!Launches, B!Unclaims, B!ReadsGate, B!ClaimsGate, B!Preps, B!Remembers,
       B!Marks, B!Releases, B!Killed, B!Reports, B!Vanishes, B!Lapses, B!GateTakes, B!GateEnds, B!Taken,
       B!ClaimForLand, B!ReleaseLandClaim
  <2>5. \A b \in Boards : action[b].id \in Nat
    BY DEF BoardType, JobsOk, BoardJobs
  <2>6. acted' \in [Boards -> SUBSET Nat]
    <3>1. ASSUME NEW b \in Boards, BoardMoves(b) PROVE acted' = acted \/ acted' = [acted EXCEPT ![b] = {}]
             \/ acted' = [acted EXCEPT ![b] = @ \cup {action[b].id}]
      BY <3>1 DEF BoardMoves, B!Clicks, B!ReadsTask, B!ReadsQuestion, B!ClaimsQuestion, B!Types,
         B!Enters, B!GivesBack, B!ClaimsTask, B!Launches, B!Unclaims, B!ReadsGate, B!ClaimsGate, B!Preps, B!Remembers,
         B!Marks, B!Releases, B!Killed
    <3>2. FleetMoves => UNCHANGED acted
      BY DEF FleetMoves, B!Reports, B!Vanishes, B!Lapses, B!GateTakes, B!GateEnds, B!Taken
    <3>3. acted \in [Boards -> SUBSET Nat]
      BY DEF BoardType
    <3>4. ASSUME NEW b \in Boards, BoardMoves(b) PROVE acted' \in [Boards -> SUBSET Nat]
      <4>1. acted[b] \cup {action[b].id} \in SUBSET Nat
        BY <2>5, <3>3
      <4>2. CASE acted' = [acted EXCEPT ![b] = @ \cup {action[b].id}]
        BY <3>3, <4>1, <4>2
      <4>3. CASE acted' = [acted EXCEPT ![b] = {}]
        BY <3>3, <4>3
      <4> QED BY <3>1, <3>3, <3>4, <4>2, <4>3
    <3> QED BY <1>2, <3>2, <3>3, <3>4, BoardNext
  <2>7. answers' \in [B!Ids -> Nat] /\ taken' \in Nat
    <3>1. ASSUME NEW b \in Boards, BoardMoves(b) PROVE taken' = taken /\ (answers' = answers \/ answers' = [answers EXCEPT ![action[b].id] = @ + 1])
      BY <3>1 DEF BoardMoves, B!Clicks, B!ReadsTask, B!ReadsQuestion, B!ClaimsQuestion, B!Types,
         B!Enters, B!GivesBack, B!ClaimsTask, B!Launches, B!Unclaims, B!ReadsGate, B!ClaimsGate, B!Preps, B!Remembers,
         B!Marks, B!Releases, B!Killed, B!unchangedLedger
    <3>2. FleetMoves => UNCHANGED answers /\ taken' \in {taken, taken + 1}
      BY DEF FleetMoves, B!Reports, B!Vanishes, B!Lapses, B!GateTakes, B!GateEnds, B!Taken, B!unchangedLedger
    <3>3. answers \in [B!Ids -> Nat] /\ taken \in Nat
      BY DEF BoardType
    <3>4. ASSUME NEW i PROVE [answers EXCEPT ![i] = @ + 1] \in [B!Ids -> Nat]
      <4>1. CASE i \in B!Ids
        <5>1. answers[i] + 1 \in Nat
          BY <3>3, <4>1
        <5> QED BY <3>3, <5>1
      <4>2. CASE i \notin B!Ids
        <5>1. [answers EXCEPT ![i] = @ + 1] = answers
          BY <3>3, <4>2
        <5> QED BY <3>3, <5>1
      <4> QED BY <4>1, <4>2
    <3>5. ASSUME NEW b \in Boards, BoardMoves(b) PROVE answers' \in [B!Ids -> Nat] /\ taken' \in Nat
      BY <3>1, <3>3, <3>4, <3>5
    <3>6. FleetMoves => answers' \in [B!Ids -> Nat] /\ taken' \in Nat
      BY <3>2, <3>3
    <3> QED BY <1>2, <3>5, <3>6, BoardNext
  <2>8. preps' \in Seq(Boards \X Nat)
    <3>1. ASSUME NEW b \in Boards, BoardMoves(b) PROVE preps' = preps \/ preps' = Append(preps, <<b, action[b].id>>)
      BY <3>1 DEF BoardMoves, B!Clicks, B!ReadsTask, B!ReadsQuestion, B!ClaimsQuestion, B!Types,
         B!Enters, B!GivesBack, B!ClaimsTask, B!Launches, B!Unclaims, B!ReadsGate, B!ClaimsGate, B!Preps, B!Remembers,
         B!Marks, B!Releases, B!Killed, B!unchangedLedger
    <3>2. FleetMoves => UNCHANGED preps
      BY DEF FleetMoves, B!Reports, B!Vanishes, B!Lapses, B!GateTakes, B!GateEnds, B!Taken, B!unchangedLedger
    <3>3. preps \in Seq(Boards \X Nat)
      BY DEF BoardType
    <3>4. ASSUME NEW b \in Boards, BoardMoves(b) PROVE preps' \in Seq(Boards \X Nat)
      <4>1. <<b, action[b].id>> \in Boards \X Nat
        BY <2>5
      <4>2. Append(preps, <<b, action[b].id>>) \in Seq(Boards \X Nat)
        BY <3>3, <4>1, AppendProperties
      <4> QED BY <3>1, <3>3, <3>4, <4>2
    <3> QED BY <1>2, <3>2, <3>3, <3>4, BoardNext
  <2> QED BY <2>1, <2>2, <2>3, <2>4, <2>6, <2>7, <2>8 DEF BoardType
<1> QED BY <1>1, <1>2

LEMMA BoardTypeInit == B!Init => BoardType
<1> SUFFICES ASSUME B!Init PROVE BoardType
  OBVIOUS
<1>1. row \in B!Statuses /\ lease \in {"none", "worker", "gater"}
  BY DEF B!Init, B!Statuses
<1>2. log = << >> /\ preps = << >> /\ taken = 0
  BY DEF B!Init
<1>3. log \in Seq(Events) /\ preps \in Seq(Boards \X Nat)
  BY <1>2
<1>4. acted \in [Boards -> SUBSET Nat] /\ answers \in [B!Ids -> Nat]
  BY DEF B!Init
<1>5. JobsOk
  BY IdleTyped DEF B!Init, JobsOk, Under
<1> QED BY <1>1, <1>2, <1>3, <1>4, <1>5 DEF BoardType

-----------------------------------------------------------------------------
(***************************************************************************)
(* Board: one answer to a question.                                        *)
(***************************************************************************)
\* A board with the claim on a question, until it gives it back or is through.
Has(b, q) == action[b].at \in {"type", "enter", "give_back"} /\ action[b].id = q

\* Who has a question, has it alone and unanswered, and the log says so; and
\* so it does of an answered one.
AnswerOf(q) ==
  /\ answers[q] \in {0, 1}
  /\ \A b, c \in Boards : Has(b, q) /\ Has(c, q) => b = c
  /\ answers[q] = 1 => \A b \in Boards : ~Has(b, q)
  /\ (answers[q] = 1 \/ \E b \in Boards : Has(b, q)) => B!Answered(q, log)

AnswerInv == \A q \in B!Ids : AnswerOf(q)

\* No board gets a question, and no claim is released.
LEMMA AnswerKept ==
  ASSUME NEW q, AnswerOf(q), answers'[q] = answers[q], \A b \in Boards : Has(b, q)' => Has(b, q),
         B!Answered(q, log) => B!Answered(q, log')
  PROVE  AnswerOf(q)'
BY DEF AnswerOf

LEMMA AnswerQuiet ==
  ASSUME AnswerInv, UNCHANGED answers,
         \A b \in Boards, q \in B!Ids : Has(b, q)' => Has(b, q),
         \A q \in B!Ids : B!Answered(q, log) => B!Answered(q, log')
  PROVE  AnswerInv'
<1>1. \A q \in B!Ids : AnswerOf(q)'
  BY AnswerKept DEF AnswerInv
<1> QED BY <1>1 DEF AnswerInv, B!Ids

\* What claims nothing leaves every answer and every preparation as it was.
LEMMA UnclaimedKeeps ==
  ASSUME BoardType, Unclaimed
  PROVE  \A i : /\ B!Answered(i, log') <=> B!Answered(i, log)
                /\ B!Prepared(i, log') <=> B!Prepared(i, log)
<1>1. log \in Seq(Events)
  BY DEF BoardType
<1>2. CASE log' = log
  BY <1>2
<1>3. CASE \E e \in Events : e.kind \in {"status_changed", "gate_blocked", "review_recorded"} /\ log' = Append(log, e)
  <2>1. PICK e \in Events : e.kind \in {"status_changed", "gate_blocked", "review_recorded"} /\ log' = Append(log, e)
    BY <1>3
  <2>2. \A k \in {"board_answer", "board_answer_failed", "board_gate_prep", "never"} : \A i : e # B!Event(k, i)
    BY <2>1 DEF B!Event
  <2> QED BY <1>1, <2>1, <2>2, ClaimAppends DEF B!Answered, B!Prepared
<1> QED BY <1>2, <1>3 DEF Unclaimed

LEMMA AnswerStep ==
  ASSUME BoardType, AnswerInv, [B!Next]_board
  PROVE  AnswerInv'
<1>1. log \in Seq(Events) /\ \A b \in Boards : action[b].id \in Nat
  BY DEF BoardType, JobsOk, BoardJobs
<1>2. CASE UNCHANGED board
  BY <1>2, AnswerQuiet DEF board, Has
<1>3. CASE FleetMoves
  <2>1. UNCHANGED <<action, answers>>
    BY <1>3 DEF FleetMoves, B!Reports, B!Vanishes, B!Lapses, B!GateTakes, B!GateEnds, B!Taken, B!unchangedLedger
  <2>2. Unclaimed
    BY <1>3, UnclaimedIs
  <2> QED BY <2>1, <2>2, AnswerQuiet, UnclaimedKeeps DEF Has
<1>4. ASSUME NEW b \in Boards, Turned(b), action'[b].at \notin {"type", "enter", "give_back"}
      PROVE  \A c \in Boards, q \in B!Ids : Has(c, q)' => c # b /\ Has(c, q)
  BY <1>4 DEF Turned, Has
<1>5. ASSUME NEW b \in Boards, Turned(b), action'[b].at \notin {"type", "enter", "give_back"}, UNCHANGED answers,
             Unclaimed \/ B!Marks(b)
      PROVE  AnswerInv'
  <2>1. \A q \in B!Ids : B!Answered(q, log) => B!Answered(q, log')
    <3>1. CASE Unclaimed
      BY <3>1, UnclaimedKeeps
    <3>2. CASE B!Marks(b)
      <4> DEFINE e == B!Event("board_gate_prep", action[b].id)
      <4>1. log' = log \/ log' = Append(log, e)
        BY <3>2 DEF B!Marks
      <4>2. e \in Events /\ e.kind = "board_gate_prep"
        BY <1>1, EventsTyped
      <4>3. \A q : e # B!Event("board_answer", q) /\ e # B!Event("board_answer_failed", q)
        BY <4>2 DEF B!Event
      <4> HIDE DEF e
      <4>4. \A q : B!Answered(q, Append(log, e)) <=> B!Answered(q, log)
        BY <1>1, <4>2, <4>3, ClaimAppends DEF B!Answered
      <4> QED BY <4>1, <4>4
    <3> QED BY <1>5, <3>1, <3>2
  <2> QED BY <1>4, <1>5, <2>1, AnswerQuiet
<1>6. ASSUME NEW b \in Boards, B!Types(b) PROVE AnswerInv'
  <2>1. action[b].at = "type" /\ (Goes(b, "enter") \/ Goes(b, "give_back"))
    BY <1>6, WorkIs
  <2>2. \A c \in Boards, q \in B!Ids : Has(c, q)' => Has(c, q)
    BY <2>1 DEF Goes, Turned, Has
  <2>3. UNCHANGED <<answers, log>>
    BY <1>6 DEF B!Types, B!unchangedLedger
  <2> QED BY <2>2, <2>3, AnswerQuiet
<1>7. ASSUME NEW b \in Boards, B!ClaimsQuestion(b) PROVE AnswerInv'
  <2> DEFINE e == B!Event("board_answer", action[b].id)
  <2>1. action[b].at = "claim" /\ UNCHANGED answers
    BY <1>7, WorkIs DEF B!ClaimsQuestion, B!unchangedLedger
  <2>2. \/ log' = log /\ Rests(b)
        \/ ~B!Answered(action[b].id, log) /\ log' = Append(log, e) /\ Goes(b, "type")
    <3>1. "type" \in Doing
      BY DEF Doing
    <3> QED BY <1>7, <3>1, GoIs, StopIs DEF B!ClaimsQuestion, B!ClaimMarker, B!Answered
  <2>3. CASE log' = log /\ Rests(b)
    BY <1>5, <2>1, <2>3, IdleTyped DEF Rests, Unclaimed
  <2>4. CASE ~B!Answered(action[b].id, log) /\ log' = Append(log, e) /\ Goes(b, "type")
    <3>1. e \in Events
      BY <1>1, EventsTyped
    <3>2. \A q : q # action[b].id => e # B!Event("board_answer", q) /\ e # B!Event("board_answer_failed", q)
      BY DEF B!Event
    <3>3. e # B!Event("board_answer_failed", action[b].id)
      BY DEF B!Event
    <3>4. B!Answered(action[b].id, log') /\ \A q : B!Answered(q, log) => B!Answered(q, log')
      <4> HIDE DEF e
      <4>1. \A q : q # action[b].id => (B!Answered(q, log) => B!Answered(q, log'))
        BY <1>1, <2>4, <3>1, <3>2, ClaimAppends DEF B!Answered
      <4>2. B!Answered(action[b].id, log')
        BY <1>1, <2>4, <3>1, ClaimAppends DEF B!Answered, e
      <4> QED BY <4>1, <4>2
    <3>5. \A c \in Boards, q \in B!Ids : /\ c # b => (Has(c, q)' <=> Has(c, q))
                                       /\ Has(b, q)' <=> q = action[b].id
                                       /\ ~Has(b, q)
      BY <2>1, <2>4 DEF Goes, Turned, Has
    <3>6. action[b].id \in B!Ids => answers[action[b].id] = 0 /\ \A c \in Boards : ~Has(c, action[b].id)
      BY <2>4 DEF AnswerInv, AnswerOf
    <3>7. ASSUME NEW q \in B!Ids
          PROVE  AnswerOf(q)'
      <4>1. CASE q = action[b].id
        <5>1. answers'[q] = 0 /\ B!Answered(q, log') /\ \A c \in Boards : Has(c, q)' => c = b
          BY <2>1, <3>4, <3>5, <3>6, <4>1
        <5> QED BY <5>1 DEF AnswerOf
      <4>2. CASE q # action[b].id
        <5>1. answers'[q] = answers[q] /\ (B!Answered(q, log) => B!Answered(q, log'))
          BY <2>1, <3>4
        <5>2. \A c \in Boards : Has(c, q)' => Has(c, q)
          BY <2>1, <2>4, <4>2 DEF Goes, Turned, Has
        <5> QED BY <5>1, <5>2, AnswerKept DEF AnswerInv
      <4> QED BY <4>1, <4>2
    <3> QED BY <3>7 DEF AnswerInv, B!Ids
  <2> QED BY <2>2, <2>3, <2>4
<1>8. ASSUME NEW b \in Boards, B!Enters(b) PROVE AnswerInv'
  <2>1. action[b].at = "enter" /\ UNCHANGED log
    BY <1>8, WorkIs DEF B!Enters
  <2>2. \/ answers' = [answers EXCEPT ![action[b].id] = @ + 1] /\ Rests(b)
        \/ UNCHANGED answers /\ Goes(b, "give_back")
    <3>1. "give_back" \in Doing
      BY DEF Doing
    <3> QED BY <1>8, <3>1, GoIs, StopIs DEF B!Enters
  <2>3. CASE UNCHANGED answers /\ Goes(b, "give_back")
    <3>1. \A c \in Boards, q \in B!Ids : Has(c, q)' => Has(c, q)
      BY <2>1, <2>3 DEF Goes, Turned, Has
    <3> QED BY <2>1, <2>3, <3>1, AnswerQuiet
  <2>4. CASE answers' = [answers EXCEPT ![action[b].id] = @ + 1] /\ Rests(b)
    <3>1. \A c \in Boards, q \in B!Ids : /\ c # b => (Has(c, q)' <=> Has(c, q))
                                       /\ ~Has(b, q)'
                                       /\ Has(b, q) <=> q = action[b].id
      BY <2>1, <2>4, IdleTyped DEF Rests, Turned, Has
    <3>2. ASSUME NEW q \in B!Ids
          PROVE  AnswerOf(q)'
      <4>1. CASE q = action[b].id
        <5>1. answers[q] = 0 /\ B!Answered(q, log) /\ \A c \in Boards : Has(c, q) => c = b
          BY <3>1, <4>1 DEF AnswerInv, AnswerOf
        <5>2. answers'[q] = 1
          BY <2>4, <4>1, <5>1 DEF BoardType
        <5>4. \A c \in Boards : c # b => ~Has(c, q)
          BY <5>1
        <5>3. \A c \in Boards : ~Has(c, q)'
          BY <2>4, <5>4, IdleTyped DEF Rests, Turned, Has
        <5> QED BY <2>1, <5>1, <5>2, <5>3 DEF AnswerOf
      <4>2. CASE q # action[b].id
        <5>1. answers'[q] = answers[q]
          BY <2>4, <4>2 DEF BoardType
        <5>2. \A c \in Boards : Has(c, q)' => Has(c, q)
          BY <2>4, IdleTyped DEF Rests, Turned, Has
        <5> QED BY <2>1, <5>1, <5>2, AnswerKept DEF AnswerInv
      <4> QED BY <4>1, <4>2
    <3> QED BY <3>2 DEF AnswerInv, B!Ids
  <2> QED BY <2>2, <2>3, <2>4
<1>9. ASSUME NEW b \in Boards, B!GivesBack(b) PROVE AnswerInv'
  <2> DEFINE e == B!Event("board_answer_failed", action[b].id)
  <2>1. action[b].at = "give_back" /\ UNCHANGED answers /\ Rests(b)
    BY <1>9, WorkIs DEF B!GivesBack, B!unchangedLedger
  <2>2. log' = log \/ log' = Append(log, e)
    BY <1>9 DEF B!GivesBack
  <2>3. CASE log' = log
    BY <1>5, <2>1, <2>3, IdleTyped DEF Rests, Unclaimed
  <2>4. CASE log' = Append(log, e)
    <3>1. e \in Events
      BY <1>1, EventsTyped
    <3>2. \A q : q # action[b].id => e # B!Event("board_answer", q) /\ e # B!Event("board_answer_failed", q)
      BY DEF B!Event
    <3>3. \A q : q # action[b].id => (B!Answered(q, log) => B!Answered(q, log'))
      <4> HIDE DEF e
      <4> QED BY <1>1, <2>4, <3>1, <3>2, ClaimAppends DEF B!Answered
    <3>4. \A c \in Boards, q \in B!Ids : /\ c # b => (Has(c, q)' <=> Has(c, q))
                                       /\ ~Has(b, q)'
                                       /\ Has(b, q) <=> q = action[b].id
      BY <2>1, IdleTyped DEF Rests, Turned, Has
    <3>5. ASSUME NEW q \in B!Ids
          PROVE  AnswerOf(q)'
      <4>1. CASE q = action[b].id
        <5>1. answers[q] = 0 /\ \A c \in Boards : Has(c, q) => c = b
          BY <3>4, <4>1 DEF AnswerInv, AnswerOf
        <5>3. \A c \in Boards : c # b => ~Has(c, q)
          BY <5>1
        <5>2. answers'[q] = 0 /\ \A c \in Boards : ~Has(c, q)'
          BY <2>1, <5>1, <5>3, IdleTyped DEF Rests, Turned, Has
        <5> QED BY <5>2 DEF AnswerOf
      <4>2. CASE q # action[b].id
        <5>1. \A c \in Boards : Has(c, q)' => Has(c, q)
          BY <2>1, IdleTyped DEF Rests, Turned, Has
        <5> QED BY <2>1, <3>3, <4>2, <5>1, AnswerKept DEF AnswerInv
      <4> QED BY <4>1, <4>2
    <3> QED BY <3>5 DEF AnswerInv, B!Ids
  <2> QED BY <2>2, <2>3, <2>4
<1>10. ASSUME NEW b \in Boards, BoardMoves(b), ~B!Types(b), ~B!ClaimsQuestion(b), ~B!Enters(b), ~B!GivesBack(b)
       PROVE  AnswerInv'
  <2>1. Unclaimed \/ B!Marks(b)
    BY <1>10, UnclaimedIs
  <2>2. UNCHANGED answers
    BY <1>10 DEF BoardMoves, B!Clicks, B!ReadsTask, B!ReadsQuestion, B!ClaimsTask, B!Launches, B!Unclaims,
       B!ReadsGate, B!ClaimsGate, B!Preps, B!Remembers, B!Marks, B!Releases, B!Killed, B!unchangedLedger
  <2>3. Turned(b)
    BY <1>10, JobsStep
  <2>4. action'[b].at \notin {"type", "enter", "give_back"}
    <3>1. B!Clicks(b) => action'[b].at \notin {"type", "enter", "give_back"}
      BY ClickIs
    <3>2. B!ReadsTask(b) => action'[b].at \notin {"type", "enter", "give_back"}
      BY ReadIs, IdleTyped DEF Goes, Rests
    <3>3. B!Killed(b) => action'[b].at \notin {"type", "enter", "give_back"}
      BY KillIs
    <3>4. B!ReadsQuestion(b) \/ B!ClaimsTask(b) \/ B!Launches(b) \/ B!Unclaims(b) => action'[b].at \notin {"type", "enter", "give_back"}
      BY WorkIs, IdleTyped DEF Goes, Rests
    <3>5. B!ReadsGate(b) \/ B!ClaimsGate(b) \/ B!Preps(b) => action'[b].at \notin {"type", "enter", "give_back"}
      BY WorkIs, IdleTyped DEF Goes, Rests
    <3>6. B!Remembers(b) \/ B!Marks(b) \/ B!Releases(b) => action'[b].at \notin {"type", "enter", "give_back"}
      BY WorkIs, IdleTyped DEF Goes, Rests
    <3> QED BY <1>10, <3>1, <3>2, <3>3, <3>4, <3>5, <3>6 DEF BoardMoves
  <2> QED BY <1>5, <2>1, <2>2, <2>3, <2>4
<1> QED BY <1>2, <1>3, <1>6, <1>7, <1>8, <1>9, <1>10, BoardNext

LEMMA AnswerInit == B!Init => AnswerInv
BY IdleTyped DEF B!Init, AnswerInv, AnswerOf, Has

-----------------------------------------------------------------------------
(***************************************************************************)
(* Board: one preparation of an escalation, by one at a time.              *)
(***************************************************************************)
\* While nobody else takes the gate's claim, it is held by the daemon's gate
\* pass or by one board, and whoever is under it has it.
LeaseInv ==
  /\ row = "pending" => lease = "none"
  /\ taken = 0 =>
       /\ daemon => lease = "gater"
       /\ \A b \in Boards : action[b].again => lease = "gater" /\ ~daemon
       /\ \A b, c \in Boards : action[b].again /\ action[c].again => b = c

\* Only a claim puts a board under the gate's claim.
LEMMA AgainByClaim ==
  ASSUME BoardType, NEW b \in Boards, BoardMoves(b), ~B!ClaimsGate(b)
  PROVE  action'[b].again => action[b].again
<1>1. ASSUME Rests(b) PROVE ~action'[b].again
  BY <1>1, IdleTyped DEF Rests
<1>2. CASE B!Clicks(b) \/ B!Killed(b)
  BY <1>2, ClickIs, KillIs
<1>3. CASE B!ReadsTask(b)
  BY <1>1, <1>3, ReadIs DEF Goes
<1>4. CASE B!ReadsQuestion(b) \/ B!ClaimsQuestion(b) \/ B!Types(b) \/ B!Enters(b) \/ B!GivesBack(b)
  BY <1>1, <1>4, WorkIs DEF Goes
<1>5. CASE B!ClaimsTask(b) \/ B!Launches(b) \/ B!Unclaims(b) \/ B!ReadsGate(b)
  BY <1>1, <1>5, WorkIs DEF Goes
<1>6. CASE B!Preps(b) \/ B!Remembers(b) \/ B!Marks(b) \/ B!Releases(b)
  BY <1>1, <1>6, WorkIs DEF Goes
<1> QED BY <1>2, <1>3, <1>4, <1>5, <1>6 DEF BoardMoves

LEMMA LeaseStep ==
  ASSUME BoardType, LeaseInv, [B!Next]_board
  PROVE  LeaseInv'
<1>1. CASE UNCHANGED board
  BY <1>1 DEF board, LeaseInv
<1>2. ASSUME UNCHANGED <<row, lease, daemon, taken>>, \A b \in Boards : action'[b].again => action[b].again
      PROVE  LeaseInv'
  BY <1>2 DEF LeaseInv
<1>3. ASSUME row' = "pending" => lease' = "none", ~daemon', \A b \in Boards : ~action'[b].again
      PROVE  LeaseInv'
  BY <1>3 DEF LeaseInv
<1>4. lease # "gater" /\ taken = 0 => ~daemon /\ \A b \in Boards : ~action[b].again
  BY DEF LeaseInv
<1>5. ASSUME NEW b \in Boards, BoardMoves(b) PROVE LeaseInv'
  <2>1. /\ \A c \in Boards \ {b} : action'[c] = action[c]
        /\ ~B!ClaimsGate(b) => (action'[b].again => action[b].again)
    BY <1>5, JobsStep, AgainByClaim DEF Turned
  <2>2. UNCHANGED <<daemon, taken>>
    BY <1>5 DEF BoardMoves, B!Clicks, B!ReadsTask, B!ReadsQuestion, B!ClaimsQuestion, B!Types,
       B!Enters, B!GivesBack, B!ClaimsTask, B!Launches, B!Unclaims, B!ReadsGate, B!ClaimsGate, B!Preps, B!Remembers,
       B!Marks, B!Releases, B!Killed, B!unchangedLedger
  <2>3. CASE UNCHANGED <<row, lease>> /\ ~B!ClaimsGate(b)
    BY <1>2, <2>1, <2>2, <2>3
  <2>4. CASE lease # "gater" /\ ~B!ClaimsGate(b) /\ (row' = "pending" => lease' = "none")
    <3>1. taken = 0 => ~daemon' /\ \A c \in Boards : ~action'[c].again
      BY <1>4, <2>1, <2>2, <2>4
    <3> QED BY <2>2, <2>4, <3>1 DEF LeaseInv
  <2>5. CASE B!ClaimsTask(b)
    <3>1. UNCHANGED <<row, lease>> \/ (row = "pending" /\ row' = "active")
      BY <2>5 DEF B!ClaimsTask
    <3>2. ~B!ClaimsGate(b)
      BY <2>5, WorkIs
    <3>3. row = "pending" => lease # "gater"
      BY DEF LeaseInv
    <3> QED BY <2>3, <2>4, <3>1, <3>2, <3>3
  <2>6. CASE B!Unclaims(b)
    <3>1. UNCHANGED <<row, lease>> \/ (lease = "worker" /\ lease' = "none")
      BY <2>6 DEF B!Unclaims
    <3>2. ~B!ClaimsGate(b)
      BY <2>6, WorkIs
    <3> QED BY <2>3, <2>4, <3>1, <3>2
  <2>7. CASE B!ClaimsGate(b)
    <3>1. \/ row = "done" /\ lease # "gater" /\ lease' = "gater" /\ row' = row
          \/ Rests(b) /\ UNCHANGED <<row, lease>>
      BY <2>7, StopIs DEF B!ClaimsGate, B!ClaimForLand
    <3>2. CASE Rests(b) /\ UNCHANGED <<row, lease>>
      <4>1. ~action'[b].again
        BY <3>2, IdleTyped DEF Rests
      <4> QED BY <1>2, <2>1, <2>2, <3>2, <4>1
    <3>3. CASE row = "done" /\ lease # "gater" /\ lease' = "gater" /\ row' = row
      <4>1. taken = 0 => ~daemon' /\ \A c \in Boards : action'[c].again => c = b
        BY <1>4, <2>1, <2>2, <3>3
      <4> QED BY <2>2, <3>3, <4>1 DEF LeaseInv
    <3> QED BY <3>1, <3>2, <3>3
  <2>8. CASE B!Releases(b)
    <3>1. action[b].again /\ ~action'[b].again
      BY <2>8, WorkIs, IdleTyped DEF Rests, BoardType, JobsOk, Under
    <3>2. taken = 0 => ~daemon' /\ \A c \in Boards : ~action'[c].again
      BY <2>1, <2>2, <3>1 DEF LeaseInv
    <3>3. row' = row /\ (lease' = lease \/ lease' = "none")
      BY <2>8 DEF B!Releases, B!ReleaseLandClaim
    <3> QED BY <2>2, <3>2, <3>3 DEF LeaseInv
  <2>9. B!Clicks(b) \/ B!ReadsTask(b) \/ B!ReadsQuestion(b) \/ B!ClaimsQuestion(b) \/ B!Types(b) \/ B!Enters(b)
        \/ B!GivesBack(b) \/ B!Launches(b) \/ B!ReadsGate(b) \/ B!Preps(b) \/ B!Remembers(b) \/ B!Marks(b) \/ B!Killed(b)
        => UNCHANGED <<row, lease>>
    BY DEF B!Clicks, B!ReadsTask, B!ReadsQuestion, B!ClaimsQuestion, B!Types, B!Enters, B!GivesBack, B!Launches,
           B!ReadsGate, B!Preps, B!Remembers, B!Marks, B!Killed
  <2> QED BY <1>5, <2>3, <2>5, <2>6, <2>7, <2>8, <2>9 DEF BoardMoves
<1>6. CASE FleetMoves
  <2>1. UNCHANGED action
    BY <1>6 DEF FleetMoves, B!Reports, B!Vanishes, B!Lapses, B!GateTakes, B!GateEnds, B!Taken
  <2>2. CASE B!Reports
    <3>1. row' # "pending" /\ UNCHANGED <<lease, daemon, taken>>
      BY <2>2 DEF B!Reports, B!unchangedLedger, B!Waiting
    <3> QED BY <2>1, <3>1 DEF LeaseInv
  <2>3. CASE B!Vanishes
    BY <1>2, <2>1, <2>3 DEF B!Vanishes, B!unchangedLedger
  <2>4. CASE B!Lapses
    <3>1. lease' = "none" /\ UNCHANGED <<daemon, taken>>
          /\ (lease = "worker" \/ (~daemon /\ \A b \in Boards : ~action[b].again))
      BY <2>4 DEF B!Lapses, B!unchangedLedger
    <3>2. taken = 0 => ~daemon' /\ \A b \in Boards : ~action'[b].again
      BY <1>4, <2>1, <3>1
    <3> QED BY <3>1, <3>2 DEF LeaseInv
  <2>5. CASE B!GateTakes
    <3>1. row = "done" /\ lease # "gater" /\ lease' = "gater" /\ daemon' = TRUE /\ UNCHANGED <<row, taken>>
      BY <2>5 DEF B!GateTakes, B!ClaimForLand
    <3>2. taken = 0 => \A b \in Boards : ~action'[b].again
      BY <1>4, <2>1, <3>1
    <3> QED BY <3>1, <3>2 DEF LeaseInv
  <2>6. CASE B!GateEnds
    <3>1. daemon /\ ~daemon' /\ (lease' = lease \/ lease' = "none") /\ UNCHANGED <<row, taken>>
      BY <2>6 DEF B!GateEnds, B!ReleaseLandClaim
    <3>2. taken = 0 => \A b \in Boards : ~action'[b].again
      BY <2>1, <3>1 DEF LeaseInv
    <3> QED BY <3>1, <3>2 DEF LeaseInv
  <2>7. CASE B!Taken
    <3>1. taken' = taken + 1 /\ lease = "gater" /\ row' = row /\ taken \in Nat
      BY <2>7 DEF B!Taken, BoardType
    <3>2. row' # "pending" /\ taken' # 0
      BY <3>1 DEF LeaseInv
    <3> QED BY <3>2 DEF LeaseInv
  <2> QED BY <1>6, <2>2, <2>3, <2>4, <2>5, <2>6, <2>7 DEF FleetMoves
<1> QED BY <1>1, <1>5, <1>6, BoardNext

LEMMA LeaseInit == B!Init => LeaseInv
BY IdleTyped DEF B!Init, LeaseInv

\* A preparation that ran is still to be recorded by its board, or marked for
\* all, or its mark was lost and only its board remembers it.
Followed(b, g) ==
  \/ action[b].at \in {"remember", "mark"} /\ action[b].id = g /\ (action[b].at = "mark" => g \in acted[b])
  \/ B!Prepared(g, log)
  \/ g \in unmarked /\ (g \in acted[b] \/ action[b].at = "dead")

\* A board about to prepare has seen, under the claim, that nobody marked the
\* escalation and that it does not remember it.
FreshFor(b) ==
  action[b].at = "prep" => ~B!Prepared(action[b].id, log) /\ action[b].id \notin acted[b]

TraceInv ==
  taken = 0 =>
    /\ \A b \in Boards : FreshFor(b)
    /\ \A i \in DOMAIN preps : Followed(preps[i][1], preps[i][2])
    /\ B!NeverPreppedAgain

\* A step without a preparation, and without any that was to be followed.
Quietly ==
  /\ taken' = 0 => taken = 0
  /\ UNCHANGED <<preps, unmarked, acted>>
  /\ \A g : B!Prepared(g, log') <=> B!Prepared(g, log)
  /\ \A b \in Boards : \/ (action'[b].at = action[b].at) /\ (action'[b].id = action[b].id)
                       \/ (action'[b].at # "prep") /\ (action[b].at \notin {"remember", "mark", "dead"})

LEMMA TraceQuiet ==
  ASSUME BoardType, TraceInv, Quietly
  PROVE  TraceInv'
<1> USE DEF Quietly
<1> SUFFICES ASSUME taken' = 0 PROVE TraceInv'
  BY DEF TraceInv
<1>1. taken = 0
  OBVIOUS
<1>2. \A b \in Boards : FreshFor(b)'
  BY <1>1 DEF TraceInv, FreshFor
<1>3. \A b \in Boards : \A g : Followed(b, g) => Followed(b, g)'
  BY DEF Followed
<1>4. \A i \in DOMAIN preps : preps[i][1] \in Boards
  BY DEF BoardType
<1>5. \A i \in DOMAIN preps : Followed(preps[i][1], preps[i][2])'
  BY <1>1, <1>3, <1>4 DEF TraceInv
<1>6. B!NeverPreppedAgain'
  BY <1>1 DEF TraceInv, B!NeverPreppedAgain
<1> QED BY <1>2, <1>5, <1>6 DEF TraceInv

\* No preparation ran, and those that did are followed.
LEMMA TraceGrows ==
  ASSUME BoardType, TraceInv, taken = 0, preps' = preps, unmarked \subseteq unmarked',
         \A b \in Boards : FreshFor(b)',
         \A b \in Boards : \A x : Followed(b, x) => Followed(b, x)'
  PROVE  TraceInv'
<1>1. \A i \in DOMAIN preps : preps[i][1] \in Boards /\ Followed(preps[i][1], preps[i][2])
  BY DEF BoardType, TraceInv
<1>2. \A i \in DOMAIN preps' : Followed(preps[i][1], preps[i][2])'
  <2> SUFFICES ASSUME NEW i \in DOMAIN preps, NEW c \in Boards, NEW x, c = preps[i][1], x = preps[i][2] PROVE Followed(c, x)'
    BY <1>1
  <2>1. Followed(c, x)
    BY <1>1
  <2> QED BY <2>1
<1>3. B!NeverPreppedAgain'
  BY DEF TraceInv, B!NeverPreppedAgain
<1> QED BY <1>2, <1>3 DEF TraceInv

\* Any other claim leaves the preparations as they were.
LEMMA ClaimKeepsPrepared ==
  ASSUME BoardType, NEW b \in Boards, B!ClaimsQuestion(b) \/ B!GivesBack(b)
  PROVE  \A g : B!Prepared(g, log') <=> B!Prepared(g, log)
<1>1. log \in Seq(Events) /\ action[b].id \in Nat
  BY DEF BoardType, JobsOk, BoardJobs
<1>2. log' = log \/ \E k \in {"board_answer", "board_answer_failed"} : log' = Append(log, B!Event(k, action[b].id))
  BY DEF B!ClaimsQuestion, B!ClaimMarker, B!GivesBack
<1>3. ASSUME NEW k \in {"board_answer", "board_answer_failed"}, log' = Append(log, B!Event(k, action[b].id))
      PROVE  \A g : B!Prepared(g, log') <=> B!Prepared(g, log)
  <2> DEFINE e == B!Event(k, action[b].id)
  <2>1. e \in Events /\ e.kind = k
    BY <1>1, EventsTyped
  <2>2. \A g : e # B!Event("board_gate_prep", g) /\ e # B!Event("never", g)
    BY <2>1 DEF B!Event
  <2>3. log' = Append(log, e)
    BY <1>3
  <2> HIDE DEF e
  <2> QED BY <1>1, <2>1, <2>2, <2>3, ClaimAppends DEF B!Prepared
<1> QED BY <1>2, <1>3

LEMMA TraceStep ==
  ASSUME BoardType, LeaseInv, TraceInv, [B!Next]_board
  PROVE  TraceInv'
<1>1. CASE UNCHANGED board
  BY <1>1, TraceQuiet DEF board, Quietly
<1>2. taken \in Nat
  BY DEF BoardType
<1>3. CASE FleetMoves
  <2>1. UNCHANGED <<action, preps, unmarked, acted>> /\ taken' \in {taken, taken + 1}
    BY <1>3 DEF FleetMoves, B!Reports, B!Vanishes, B!Lapses, B!GateTakes, B!GateEnds, B!Taken, B!unchangedLedger
  <2>2. \A g : B!Prepared(g, log') <=> B!Prepared(g, log)
    BY <1>3, UnclaimedIs, UnclaimedKeeps
  <2>3. taken' = 0 => taken = 0
    BY <1>2, <2>1
  <2> QED BY <2>1, <2>2, <2>3, TraceQuiet DEF Quietly
<1>4. ASSUME NEW b \in Boards, BoardMoves(b), ~B!ReadsGate(b), ~B!Preps(b), ~B!Remembers(b), ~B!Marks(b), ~B!Killed(b)
      PROVE  TraceInv'
  <2>1. UNCHANGED <<preps, unmarked, acted, taken>>
    BY <1>4 DEF BoardMoves, B!Clicks, B!ReadsTask, B!ReadsQuestion, B!ClaimsQuestion, B!Types,
       B!Enters, B!GivesBack, B!ClaimsTask, B!Launches, B!Unclaims, B!ClaimsGate, B!Releases, B!unchangedLedger
  <2>2. \A g : B!Prepared(g, log') <=> B!Prepared(g, log)
    BY <1>4, UnclaimedIs, UnclaimedKeeps, ClaimKeepsPrepared
  <2>3. Turned(b)
    BY <1>4, JobsStep
  <2>4. action'[b].at # "prep" /\ action[b].at \notin {"remember", "mark", "dead"}
    <3>1. CASE B!Clicks(b)
      BY <3>1, ClickIs
    <3>2. CASE B!ReadsTask(b)
      BY <3>2, ReadIs, IdleTyped DEF Goes, Rests
    <3>3. CASE B!ReadsQuestion(b) \/ B!ClaimsQuestion(b) \/ B!Types(b) \/ B!Enters(b) \/ B!GivesBack(b)
      BY <3>3, WorkIs, IdleTyped DEF Goes, Rests
    <3>4. CASE B!ClaimsTask(b) \/ B!Launches(b) \/ B!Unclaims(b) \/ B!ClaimsGate(b) \/ B!Releases(b)
      BY <3>4, WorkIs, IdleTyped DEF Goes, Rests
    <3> QED BY <1>4, <3>1, <3>2, <3>3, <3>4 DEF BoardMoves
  <2>5. Quietly
    BY <2>1, <2>2, <2>3, <2>4 DEF Turned, Quietly
  <2> QED BY <2>5, TraceQuiet
<1>5. ASSUME NEW b \in Boards, B!ReadsGate(b) PROVE TraceInv'
  <2>1. UNCHANGED <<preps, unmarked, acted, taken, log>>
    BY <1>5 DEF B!ReadsGate, B!unchangedLedger
  <2>2. action[b].at = "escalated"
    BY <1>5, WorkIs
  <2>3. CASE B!StillOpen(b, action[b].id) /\ Goes(b, "prep")
    <3> SUFFICES ASSUME taken' = 0 PROVE TraceInv'
      BY DEF TraceInv
    <3>1. ~B!Prepared(action[b].id, log) /\ action[b].id \notin acted[b]
      BY <2>3 DEF B!StillOpen
    <3>2. FreshFor(b)'
      BY <2>1, <2>3, <3>1 DEF FreshFor, Goes
    <3>3. \A c \in Boards \ {b} : FreshFor(c) => FreshFor(c)'
      BY <2>1, <2>3 DEF FreshFor, Goes, Turned
    <3>4. \A c \in Boards : \A g : Followed(c, g) => Followed(c, g)'
      BY <2>1, <2>2, <2>3 DEF Followed, Goes, Turned
    <3>5. \A i \in DOMAIN preps : preps[i][1] \in Boards
      BY DEF BoardType
    <3>6. B!NeverPreppedAgain => B!NeverPreppedAgain'
      BY <2>1 DEF B!NeverPreppedAgain
    <3>7. \A c \in Boards : FreshFor(c)'
      BY <2>1, <3>2, <3>3 DEF TraceInv
    <3>8. \A i \in DOMAIN preps' : Followed(preps[i][1], preps[i][2])'
      <4>1. \A i \in DOMAIN preps : Followed(preps[i][1], preps[i][2])
        BY <2>1 DEF TraceInv
      <4>2. ASSUME NEW i \in DOMAIN preps, NEW c \in Boards, NEW x, c = preps[i][1], x = preps[i][2]
            PROVE  Followed(c, x)'
        BY <3>4, <4>1, <4>2
      <4> QED BY <2>1, <3>5, <4>2
    <3> QED BY <2>1, <3>6, <3>7, <3>8 DEF TraceInv
  <2>4. CASE Turned(b) /\ action'[b].at # "prep"
    BY <2>1, <2>2, <2>4, TraceQuiet DEF Turned, Quietly
  <2>5. (B!StillOpen(b, action[b].id) /\ Goes(b, "prep")) \/ (Turned(b) /\ action'[b].at # "prep")
    <3>1. CASE B!StillOpen(b, action[b].id) /\ action[b].again
      <4>1. B!Go(b, "prep") /\ "prep" \in Doing
        BY <1>5, <3>1 DEF B!ReadsGate, Doing
      <4> QED BY <3>1, <4>1, GoIs
    <3>2. CASE B!StillOpen(b, action[b].id) /\ ~action[b].again
      <4>1. B!Go(b, "lock") /\ "lock" \in Doing
        BY <1>5, <3>2 DEF B!ReadsGate, Doing
      <4>2. Goes(b, "lock")
        BY <4>1, GoIs
      <4> QED BY <4>2 DEF Goes
    <3>3. CASE ~B!StillOpen(b, action[b].id)
      <4>1. B!NothingToDo(b)
        BY <1>5, <3>3 DEF B!ReadsGate
      <4> QED BY <4>1, DoneIs, IdleTyped DEF Goes, Rests
    <3> QED BY <3>1, <3>2, <3>3
  <2> QED BY <2>3, <2>4, <2>5
<1>6. ASSUME NEW b \in Boards, B!Preps(b) PROVE TraceInv'
  <2>1. UNCHANGED <<unmarked, acted, taken, log>> /\ action[b].at = "prep"
    BY <1>6, WorkIs DEF B!Preps
  <2>2. \/ preps' = Append(preps, <<b, action[b].id>>) /\ Goes(b, "remember")
        \/ UNCHANGED preps /\ Goes(b, "release")
    <3>1. "remember" \in Doing /\ "release" \in Doing
      BY DEF Doing
    <3> QED BY <1>6, <3>1, GoIs DEF B!Preps
  <2>3. CASE UNCHANGED preps /\ Goes(b, "release")
    BY <2>1, <2>3, TraceQuiet DEF Goes, Turned, Quietly
  <2>4. CASE preps' = Append(preps, <<b, action[b].id>>) /\ Goes(b, "remember")
    <3> SUFFICES ASSUME taken' = 0 PROVE TraceInv'
      BY DEF TraceInv
    <3> DEFINE g == action[b].id
    <3>1. taken = 0
      BY <2>1
    <3>2. preps \in Seq(Boards \X Nat) /\ g \in Nat
      BY DEF BoardType, JobsOk, BoardJobs
    <3>3. /\ Len(preps) \in Nat /\ DOMAIN preps = 1..Len(preps) /\ DOMAIN preps' = 1..(Len(preps) + 1)
          /\ preps'[Len(preps) + 1] = <<b, g>> /\ \A i \in 1..Len(preps) : preps'[i] = preps[i]
      BY <2>4, <3>2
    <3>4. \A i \in DOMAIN preps : preps[i][1] \in Boards
      BY <3>2
    <3>5. \A c \in Boards : FreshFor(c)'
      <4>1. \A c \in Boards : FreshFor(c)
        BY <3>1 DEF TraceInv
      <4> QED BY <2>1, <2>4, <4>1 DEF FreshFor, Goes, Turned
    <3>6. ASSUME NEW c \in Boards, NEW x, Followed(c, x) PROVE Followed(c, x)'
      BY <2>1, <2>4, <3>6 DEF Followed, Goes, Turned
    <3>7. ASSUME NEW x, x = g PROVE Followed(b, x)'
      BY <2>4, <3>7 DEF Followed, Goes
    <3> HIDE DEF g
    <3>8. \A i \in DOMAIN preps' : Followed(preps[i][1], preps[i][2])'
      <4> SUFFICES ASSUME NEW i \in DOMAIN preps', NEW c, NEW x, c = preps'[i][1], x = preps'[i][2] PROVE Followed(c, x)'
        OBVIOUS
      <4>1. CASE i \in 1..Len(preps)
        <5>1. c = preps[i][1] /\ x = preps[i][2] /\ c \in Boards
          BY <3>3, <3>4, <4>1
        <5>2. Followed(c, x)
          BY <3>1, <3>3, <4>1, <5>1 DEF TraceInv
        <5> QED BY <3>6, <5>1, <5>2
      <4>2. CASE i = Len(preps) + 1
        <5>1. c = b /\ x = g
          BY <3>3, <4>2
        <5> QED BY <3>7, <5>1
      <4> QED BY <3>3, <4>1, <4>2
    <3>9. ASSUME NEW i \in DOMAIN preps, preps[i][2] = g PROVE preps[i][1] # b /\ g \in unmarked
      <4> DEFINE c == preps[i][1]
      <4>1. Followed(c, g) /\ c \in Boards
        BY <3>1, <3>4, <3>9 DEF TraceInv
      <4>2. ~B!Prepared(g, log) /\ g \notin acted[b]
        BY <2>1, <3>1 DEF TraceInv, FreshFor, g
      <4>3. action[c].at \notin {"remember", "mark"}
        <5> SUFFICES ASSUME action[c].at \in {"remember", "mark"} PROVE FALSE
          OBVIOUS
        <5>1. action[c].again /\ action[b].again
          BY <2>1, <4>1 DEF BoardType, JobsOk, Under
        <5>2. c = b
          BY <3>1, <4>1, <5>1 DEF LeaseInv
        <5> QED BY <2>1, <5>2
      <4>4. g \in unmarked /\ (g \in acted[c] \/ action[c].at = "dead")
        BY <4>1, <4>2, <4>3 DEF Followed
      <4>5. c # b
        BY <2>1, <4>2, <4>4
      <4> QED BY <4>4, <4>5
    <3>10. B!NeverPreppedAgain'
      <4> SUFFICES ASSUME NEW i \in DOMAIN preps', NEW j \in DOMAIN preps', i < j, preps'[i][2] = preps'[j][2]
                   PROVE  preps'[i][1] # preps'[j][1] /\ preps'[i][2] \in unmarked
        BY <2>1 DEF B!NeverPreppedAgain
      <4>1. i \in 1..Len(preps) /\ preps'[i] = preps[i]
        BY <3>3
      <4>2. CASE j \in 1..Len(preps)
        BY <3>1, <3>3, <4>1, <4>2 DEF TraceInv, B!NeverPreppedAgain
      <4>3. CASE j = Len(preps) + 1
        <5>1. preps'[j][1] = b /\ preps'[j][2] = g
          BY <3>3, <4>3
        <5>2. i \in DOMAIN preps /\ preps[i][2] = g
          BY <3>3, <4>1, <5>1
        <5> QED BY <3>9, <4>1, <5>1, <5>2
      <4> QED BY <3>3, <4>2, <4>3
    <3> QED BY <3>5, <3>8, <3>10 DEF TraceInv
  <2> QED BY <2>2, <2>3, <2>4
<1>7. ASSUME NEW b \in Boards, B!Remembers(b) PROVE TraceInv'
  <2>1. /\ action[b].at = "remember" /\ Goes(b, "mark") /\ UNCHANGED <<preps, unmarked, taken, log>>
        /\ acted' = [acted EXCEPT ![b] = @ \cup {action[b].id}] /\ acted \in [Boards -> SUBSET Nat]
    BY <1>7, WorkIs DEF B!Remembers, B!unchangedLedger, BoardType
  <2> SUFFICES ASSUME taken' = 0 PROVE TraceInv'
    BY DEF TraceInv
  <2>2. acted'[b] = acted[b] \cup {action[b].id} /\ \A c \in Boards \ {b} : acted'[c] = acted[c]
    BY <2>1
  <2>3. ASSUME NEW c \in Boards PROVE FreshFor(c)'
    <3>1. FreshFor(c)
      BY <2>1 DEF TraceInv
    <3>2. CASE c = b
      BY <2>1, <3>2 DEF FreshFor, Goes
    <3>3. CASE c # b
      BY <2>1, <2>2, <3>1, <3>3 DEF FreshFor, Goes, Turned
    <3> QED BY <3>2, <3>3
  <2>4. ASSUME NEW c \in Boards, NEW x, Followed(c, x) PROVE Followed(c, x)'
    <3>1. CASE c = b
      BY <2>1, <2>2, <2>4, <3>1 DEF Followed, Goes
    <3>2. CASE c # b
      BY <2>1, <2>2, <2>4, <3>2 DEF Followed, Goes, Turned
    <3> QED BY <3>1, <3>2
  <2>5. preps' = preps /\ unmarked' = unmarked /\ taken = 0
    BY <2>1
  <2> QED BY <2>3, <2>4, <2>5, TraceGrows
<1>8. ASSUME NEW b \in Boards, B!Marks(b) PROVE TraceInv'
  <2> SUFFICES ASSUME taken' = 0 PROVE TraceInv'
    BY DEF TraceInv
  <2> DEFINE g == action[b].id
             e == B!Event("board_gate_prep", g)
  <2>1. /\ action[b].at = "mark" /\ action[b].again /\ Goes(b, "release") /\ UNCHANGED <<preps, acted, taken>>
        /\ (log' = Append(log, e) /\ unmarked' = unmarked) \/ (log' = log /\ unmarked' = unmarked \cup {g})
    <3>1. action[b].at = "mark" /\ Goes(b, "release") /\ UNCHANGED <<preps, acted, taken>>
      BY <1>8, WorkIs DEF B!Marks
    <3>2. (log' = Append(log, e) /\ unmarked' = unmarked) \/ (log' = log /\ unmarked' = unmarked \cup {g})
      BY <1>8 DEF B!Marks
    <3>3. action[b].again
      BY <3>1 DEF BoardType, JobsOk, Under
    <3> QED BY <3>1, <3>2, <3>3
  <2>2. e \in Events /\ e.kind = "board_gate_prep" /\ log \in Seq(Events)
    BY EventsTyped DEF BoardType, JobsOk, BoardJobs
  <2>3. \A x : x # g => (B!Prepared(x, log') <=> B!Prepared(x, log))
    <3>1. \A x : x # g => e # B!Event("board_gate_prep", x) /\ e # B!Event("never", x)
      BY DEF B!Event
    <3> HIDE DEF e, g
    <3>2. \A x : x # g => (B!Prepared(x, Append(log, e)) <=> B!Prepared(x, log))
      BY <2>2, <3>1, ClaimAppends DEF B!Prepared
    <3> QED BY <2>1, <3>2
  <2>4. log' = Append(log, e) => B!Prepared(g, log')
    <3> HIDE DEF g
    <3> QED BY <2>2, ClaimAppends DEF B!Prepared
  <2> HIDE DEF e
  <2>5. taken = 0
    BY <2>1
  <2>6. ASSUME NEW c \in Boards PROVE FreshFor(c)'
    <3>1. FreshFor(c)
      BY <2>5 DEF TraceInv
    <3>2. action'[c].at # "prep"
      <4>1. CASE c = b
        BY <2>1, <4>1 DEF Goes
      <4>2. CASE c # b
        <5>1. ~action[c].again
          BY <2>1, <2>5, <4>2 DEF LeaseInv
        <5>2. action[c].at # "prep"
          BY <5>1 DEF BoardType, JobsOk, Under
        <5> QED BY <2>1, <4>2, <5>2 DEF Goes, Turned
      <4> QED BY <4>1, <4>2
    <3> QED BY <3>2 DEF FreshFor
  <2>7. ASSUME NEW c \in Boards, NEW x, Followed(c, x) PROVE Followed(c, x)'
    <3>1. CASE B!Prepared(x, log)
      <4>1. B!Prepared(x, log')
        BY <2>1, <2>3, <2>4, <3>1
      <4> QED BY <4>1 DEF Followed
    <3>2. CASE x \in unmarked /\ (x \in acted[c] \/ action[c].at = "dead")
      BY <2>1, <3>2 DEF Followed, Goes, Turned
    <3>3. CASE action[c].at \in {"remember", "mark"} /\ action[c].id = x /\ (action[c].at = "mark" => x \in acted[c])
      <4>1. CASE c = b
        <5>1. x = g /\ g \in acted[b]
          BY <2>1, <3>3, <4>1
        <5>2. CASE log' = Append(log, e)
          BY <2>4, <5>1, <5>2 DEF Followed
        <5>3. CASE unmarked' = unmarked \cup {g}
          BY <2>1, <4>1, <5>1, <5>3 DEF Followed
        <5> QED BY <2>1, <5>2, <5>3
      <4>2. CASE c # b
        BY <2>1, <3>3, <4>2 DEF Followed, Goes, Turned
      <4> QED BY <4>1, <4>2
    <3> QED BY <2>7, <3>1, <3>2, <3>3 DEF Followed
  <2>8. preps' = preps /\ unmarked \subseteq unmarked'
    BY <2>1
  <2> QED BY <2>5, <2>6, <2>7, <2>8, TraceGrows
<1>9. ASSUME NEW b \in Boards, B!Killed(b) PROVE TraceInv'
  <2> SUFFICES ASSUME taken' = 0 PROVE TraceInv'
    BY DEF TraceInv
  <2>1. /\ Turned(b) /\ action'[b].at = "dead" /\ action[b].at # "dead" /\ UNCHANGED <<preps, taken, log>>
        /\ acted' = [acted EXCEPT ![b] = {}] /\ acted \in [Boards -> SUBSET Nat]
        /\ unmarked' = IF action[b].at \in {"remember", "mark"} THEN unmarked \cup {action[b].id} ELSE unmarked
    BY <1>9, KillIs DEF B!Killed, B!At, BoardType
  <2>2. taken = 0 /\ preps' = preps /\ unmarked \subseteq unmarked'
    BY <2>1
  <2>3. ASSUME NEW c \in Boards PROVE FreshFor(c)'
    <3>1. FreshFor(c)
      BY <2>2 DEF TraceInv
    <3>2. CASE c = b
      BY <2>1, <3>2 DEF FreshFor
    <3>3. CASE c # b
      BY <2>1, <3>1, <3>3 DEF FreshFor, Turned
    <3> QED BY <3>2, <3>3
  <2>4. ASSUME NEW c \in Boards, NEW x, Followed(c, x) PROVE Followed(c, x)'
    <3>1. CASE c = b
      BY <2>1, <2>4, <3>1 DEF Followed
    <3>2. CASE c # b
      BY <2>1, <2>2, <2>4, <3>2 DEF Followed, Turned
    <3> QED BY <3>1, <3>2
  <2> QED BY <2>2, <2>3, <2>4, TraceGrows
<1> QED BY <1>1, <1>3, <1>4, <1>5, <1>6, <1>7, <1>8, <1>9, BoardNext DEF BoardMoves

LEMMA TraceInit == B!Init => TraceInv
BY IdleTyped DEF B!Init, TraceInv, FreshFor, B!NeverPreppedAgain

\* At most one of the boards' preparations and the daemon's pass.
LEMMA Alone == BoardType /\ LeaseInv /\ taken = 0 => B!StagedAlone
<1> SUFFICES ASSUME BoardType, LeaseInv, taken = 0 PROVE B!StagedAlone
  OBVIOUS
<1> DEFINE S == {b \in Boards : B!At(b, {"prep"})}
<1>1. \A X : B!Cardinality(X) = Cardinality(X)
  BY Zenon DEF Cardinality, B!Cardinality
<1>2. \A b \in S : action[b].again
  BY DEF B!At, BoardType, JobsOk, Under
<1>3. (\A b, c \in S : b = c) /\ (daemon => S = {})
  BY <1>2 DEF LeaseInv
<1>4. CASE S = {}
  <2>1. Cardinality(S) = 0
    BY <1>4, FS_EmptySet
  <2> HIDE DEF S
  <2>2. B!Cardinality(S) + (IF daemon THEN 1 ELSE 0) <= 1
    BY <1>1, <2>1
  <2> QED BY <2>2 DEF B!StagedAlone, S
<1>5. CASE S # {}
  <2>1. PICK b \in S : TRUE
    BY <1>5
  <2>2. S = {b} /\ ~daemon
    BY <1>3, <2>1
  <2>3. Cardinality(S) = 1
    BY <2>2, FS_Singleton
  <2> HIDE DEF S
  <2>4. B!Cardinality(S) + (IF daemon THEN 1 ELSE 0) <= 1
    BY <1>1, <2>2, <2>3
  <2> QED BY <2>4 DEF B!StagedAlone, S
<1> QED BY <1>4, <1>5

LEMMA BoardSound == SumSpec => [](BoardType /\ AnswerInv /\ LeaseInv /\ TraceInv)
<1>1. SumInit => BoardType /\ AnswerInv /\ LeaseInv /\ TraceInv
  BY BoardTypeInit, AnswerInit, LeaseInit, TraceInit DEF SumInit
<1>2. BoardType /\ AnswerInv /\ LeaseInv /\ TraceInv /\ [SumNext]_both => (BoardType /\ AnswerInv /\ LeaseInv /\ TraceInv)'
  <2> SUFFICES ASSUME BoardType, AnswerInv, LeaseInv, TraceInv, [SumNext]_both
               PROVE  (BoardType /\ AnswerInv /\ LeaseInv /\ TraceInv)'
    OBVIOUS
  <2>1. [B!Next]_board
    BY DEF SumNext, both
  <2> QED BY <2>1, BoardTypeStep, AnswerStep, LeaseStep, TraceStep
<1> QED BY <1>1, <1>2, PTL DEF SumSpec

\* Any number of boards and clicks give a question at most one answer, and never
\* do two boards answer it together (board/actions.go, store/db.go).
THEOREM OneAnswer == SumSpec => []AnsweredOnce
<1>1. ASSUME BoardType, AnswerInv PROVE AnsweredOnce
  <2> SUFFICES ASSUME NEW q \in B!Ids PROVE answers[q] + B!Cardinality(B!Answering(q)) <= 1
    BY DEF AnsweredOnce, B!AnsweredOnce
  <2>1. \A X : B!Cardinality(X) = Cardinality(X)
    BY Zenon DEF Cardinality, B!Cardinality
  <2>2. \A b \in B!Answering(q) : b \in Boards /\ Has(b, q)
    BY DEF B!Answering, B!At, Has
  <2>3. AnswerOf(q)
    BY <1>1 DEF AnswerInv
  <2>4. CASE B!Answering(q) = {}
    <3>1. Cardinality(B!Answering(q)) = 0
      BY <2>4, FS_EmptySet
    <3> QED BY <2>1, <2>3, <3>1 DEF AnswerOf
  <2>5. CASE B!Answering(q) # {}
    <3>1. PICK b \in B!Answering(q) : TRUE
      BY <2>5
    <3>2. B!Answering(q) = {b} /\ answers[q] = 0
      BY <2>2, <2>3, <3>1 DEF AnswerOf
    <3>3. Cardinality(B!Answering(q)) = 1
      BY <3>2, FS_Singleton
    <3> QED BY <2>1, <3>2, <3>3
  <2> QED BY <2>4, <2>5
<1> QED BY <1>1, BoardSound, PTL

\* While nobody else takes the gate's claim: boards, their retries and a daemon
\* that escalates again prepare an escalation once, another board again only when
\* the mark was lost; and one at a time stages inputs (board/actions.go).
THEOREM OnePrep == SumSpec => []PreppedOnce
<1>1. BoardType /\ LeaseInv /\ TraceInv => PreppedOnce
  BY Alone DEF TraceInv, PreppedOnce, B!PreppedOnce
<1> QED BY <1>1, BoardSound, PTL
=============================================================================
