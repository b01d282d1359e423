-------------------------------- MODULE Landing --------------------------------
(***************************************************************************)
(* From a finished task to the default branch: the gate pass and the land  *)
(* pass of the scheduler, the land pipeline they and `ttorch land` run, and*)
(* the gated local merge, for one trusted repository without a remote.     *)
(*                                                                         *)
(* The durable state is the default branch, the task rows with their land  *)
(* claims, the verdict rows, the approval tokens and the gate episodes; the*)
(* task's worktree belongs to its worker, who may commit at any time.      *)
(* Reads and writes of a handler between which minutes pass (a run of the  *)
(* suite, a wait for a lock) or which go to different stores are separate  *)
(* steps; a lander may be killed between any two.  `ttorch approve` and the*)
(* opening of an episode are one step each.                                *)
(***************************************************************************)
EXTENDS Commits

CONSTANTS
  Age,         \* created_at of each task: passes list the oldest first
  Daemon,      \* scheduler instances
  Console,     \* people or managers running `ttorch land`
  LandCap,     \* MaxLandConcurrency, 0 for none
  NeedsHuman,  \* tasks whose diff the gate never approves by itself
  MaxCommits,  \* bound on the commits of one worker
  MaxPushes,   \* bound on the lead's pushes to the default branch
  MaxFaults    \* bound on killed landers, suites that fail by chance, tokens and
               \* claims that run out in use

ASSUME LandingAssumption ==
  /\ Age \in [Task -> Nat] /\ \A t, u \in Task : Age[t] = Age[u] => t = u
  /\ Daemon \cap Console = {}
  /\ LandCap \in Nat /\ MaxCommits \in Nat \ {0} /\ MaxPushes \in Nat /\ MaxFaults \in Nat
  /\ NeedsHuman \subseteq Task

VARIABLES
  main,      \* the default branch
  head,      \* HEAD of each task's worktree
  status,    \* "done" or "delivered"
  claim,     \* the lease of a done task: "free", or the pass that holds it
  verdict,   \* the verdict row of each task
  token,     \* the approval token of each task
  episode,   \* the gate episode of each task, with its last review prep
  reports,   \* what the reviewers of the episode reported
  told,      \* actionable events: what was surfaced, and the head it was about
  proc,      \* what each daemon or console is doing
  job,       \* the land pipeline each of them runs for a task
  lock,      \* the fast-forward lock of the LandSet each of them runs
  cleared,   \* history: patches the reviewers have cleared
  faults     \* faults so far

branchVars == <<main, head>>
gateVars   == <<verdict, token, episode, reports, cleared>>
rowVars    == <<status, claim, told>>
vars == <<main, head, status, claim, verdict, token, episode, reports, told,
          proc, job, lock, cleared, faults>>

Proc == Daemon \cup Console

PatchType == [changes : SUBSET Change, context : SUBSET Author]
NoPatch   == [changes |-> {}, context |-> {}]

\* Only passing verdicts are ever recorded here: a blocking one is surfaced.
Verdict == [pass : BOOLEAN, sha : Commit, base : Commit, diff : PatchType,
            by : {"none", "auto", "human"}, asha : Commit]
NoVerdict == [pass |-> FALSE, sha |-> <<>>, base |-> <<>>, diff |-> NoPatch,
              by |-> "none", asha |-> <<>>]

Token   == [by : {"none", "auto", "human"}, sha : Commit]
NoToken == [by |-> "none", sha |-> <<>>]

Episode   == [outcome : {"none", "open", "blocked", "recorded"},
              head : Commit, base : Commit]
NoEpisode == [outcome |-> "none", head |-> <<>>, base |-> <<>>]

Stage == {"none", "rebase", "validate", "carry", "repin", "cover", "lock",
          "merge", "check", "ff", "approval", "verdict", "deliver",
          "conflict", "failed", "landed"}
Job   == [at : Stage, base : Commit, pre : Commit, sha : Commit, from : Commit,
          held : Verdict]
NoJob == [at |-> "none", base |-> <<>>, pre |-> <<>>, sha |-> <<>>, from |-> <<>>,
          held |-> NoVerdict]
Ended == {"conflict", "failed", "landed"}

ProcState == [at : {"rest", "gate", "gateClaim", "gating", "recording", "minting",
                    "saving", "closing", "land", "landClaim", "landing"},
              todo : SUBSET Task, won : SUBSET Task, busy : BOOLEAN, held : Verdict]
AtRest == [at |-> "rest", todo |-> {}, won |-> {}, busy |-> FALSE, held |-> NoVerdict]

Eldest(t, S) == t \in S /\ \A u \in S : Age[t] <= Age[u]

First(t) == [by |-> t, no |-> 1]

Init ==
  /\ main = <<>>
  /\ head = [t \in Task |-> <<First(t)>>]
  /\ status = [t \in Task |-> "done"]
  /\ claim = [t \in Task |-> "free"]
  /\ verdict = [t \in Task |-> NoVerdict]
  /\ token = [t \in Task |-> NoToken]
  /\ episode = [t \in Task |-> NoEpisode]
  /\ reports = [t \in Task |-> "none"]
  /\ told = [t \in Task |-> {}]
  /\ proc = [p \in Proc |-> AtRest]
  /\ job = [p \in Proc |-> [t \in Task |-> NoJob]]
  /\ lock = [p \in Proc |-> {}]
  /\ cleared = {}
  /\ faults = 0

--------------------------------------------------------------------------------
(* What happens around the landers.                                        *)

Own(t) == {x.no : x \in {y \in Changes(head[t]) : y.by = t}}
NextNo(t) == CHOOSE n \in 1..MaxCommits : \A m \in Own(t) : m < n
MayCommit(t) == status[t] = "done" /\ \A m \in Own(t) : m < MaxCommits

Faulty == faults < MaxFaults /\ faults' = faults + 1

\* The worker commits on top of what it reported done.
WorkerCommit(t) ==
  /\ MayCommit(t)
  /\ head' = [head EXCEPT ![t] = Append(@, [by |-> t, no |-> NextNo(t)])]
  /\ UNCHANGED <<main, rowVars, gateVars, proc, job, lock, faults>>

\* Told of a stale base or a conflict, it redoes its work on the default branch.
WorkerRebase(t) ==
  /\ MayCommit(t) /\ ~IsAncestor(main, head[t])
  /\ head' = [head EXCEPT ![t] = Append(main, [by |-> t, no |-> NextNo(t)])]
  /\ UNCHANGED <<main, rowVars, gateVars, proc, job, lock, faults>>

Pushed == {x \in Changes(main) : x.by = Lead}
Push ==
  /\ Cardinality(Pushed) < MaxPushes
  /\ main' = Append(main, [by |-> Lead, no |-> Cardinality(Pushed) + 1])
  /\ UNCHANGED <<head, rowVars, gateVars, proc, job, lock, faults>>

\* The reviewers of an episode have all reported: all clean, or one blocks.
Report(t) ==
  /\ episode[t].outcome = "open" /\ reports[t] = "none"
  /\ \/ /\ reports' = [reports EXCEPT ![t] = "pass"]
        /\ cleared' = cleared \cup
             {[task |-> t, patch |-> Patch(episode[t].base, episode[t].head)]}
     \/ /\ reports' = [reports EXCEPT ![t] = "block"]
        /\ UNCHANGED cleared
  /\ UNCHANGED <<branchVars, rowVars, verdict, token, episode, proc, job, lock, faults>>

Approve(t) ==
  /\ Console # {} /\ status[t] = "done"
  /\ token' = [token EXCEPT ![t] = [by |-> "human", sha |-> head[t]]]
  /\ verdict' = IF verdict[t].pass
                THEN [verdict EXCEPT ![t].by = "human", ![t].asha = head[t]]
                ELSE verdict
  /\ UNCHANGED <<branchVars, rowVars, episode, reports, cleared, proc, job, lock, faults>>

TokenExpires(t) ==
  /\ token[t] # NoToken /\ Faulty
  /\ token' = [token EXCEPT ![t] = NoToken]
  /\ UNCHANGED <<branchVars, rowVars, verdict, episode, reports, cleared,
                 proc, job, lock>>

\* An expired land claim counts as none, for a claim and for a release.  It
\* outlives the tick that took it unless the suites of that tick overrun it.
Held(t) == \E p \in Daemon : t \in proc[p].won
Lapse(t) ==
  /\ claim[t] # "free"
  /\ IF Held(t) THEN Faulty ELSE UNCHANGED faults
  /\ claim' = [claim EXCEPT ![t] = "free"]
  /\ UNCHANGED <<branchVars, gateVars, status, told, proc, job, lock>>

\* validateForAuthority: the default branch's suite, run by this process.
SuiteGreen(c) == Green(c)

--------------------------------------------------------------------------------
(* Land claims and surfaced events.                                        *)

DoneTasks == {t \in Task : status[t] = "done"}
Claimable(t, owner) == status[t] = "done" /\ claim[t] # owner

Released(S, owner) ==
  [t \in Task |-> IF t \in S /\ status[t] = "done" /\ claim[t] = owner
                  THEN "free" ELSE claim[t]]

\* Claims the eldest candidate, or passes it over, and goes on listing.
TakeClaim(p, t, owner, listing) ==
  /\ Eldest(t, proc[p].todo)
  /\ IF Claimable(t, owner)
     THEN /\ claim' = [claim EXCEPT ![t] = owner]
          /\ proc' = [proc EXCEPT ![p].at = listing, ![p].todo = @ \ {t},
                                  ![p].won = @ \cup {t}]
     ELSE /\ proc' = [proc EXCEPT ![p].at = listing, ![p].todo = @ \ {t}]
          /\ UNCHANGED claim
  /\ UNCHANGED <<branchVars, gateVars, status, told, job, lock, faults>>

Surface(t, kind, sha) == told' = [told EXCEPT ![t] = @ \cup {[kind |-> kind, sha |-> sha]}]

--------------------------------------------------------------------------------
(* The gate pass.                                                          *)

StartGate(p) ==
  /\ proc[p].at = "rest"
  /\ proc' = [proc EXCEPT ![p].at = "gate", ![p].todo = DoneTasks]
  /\ UNCHANGED <<branchVars, rowVars, gateVars, job, lock, faults>>

GateRead(p, t) ==
  /\ proc[p].at = "gate" /\ Eldest(t, proc[p].todo)
  /\ proc' = IF verdict[t].pass THEN [proc EXCEPT ![p].todo = @ \ {t}]
                                ELSE [proc EXCEPT ![p].at = "gateClaim"]
  /\ UNCHANGED <<branchVars, rowVars, gateVars, job, lock, faults>>

GateClaim(p, t) == proc[p].at = "gateClaim" /\ TakeClaim(p, t, "gater", "gate")

GateBegin(p) ==
  /\ proc[p].at = "gate" /\ proc[p].todo = {}
  /\ proc' = [proc EXCEPT ![p].at = "gating", ![p].todo = proc[p].won]
  /\ UNCHANGED <<branchVars, rowVars, gateVars, job, lock, faults>>

Gating(p, t) == proc[p].at = "gating" /\ Eldest(t, proc[p].todo)
InEpisode(t) == episode[t].outcome # "none" /\ episode[t].head = head[t]
Gated(t) == verdict[t].pass /\ verdict[t].sha = head[t]

\* Already gated, terminal for this head, or the reviewers are still at work.
GateSkips(p, t) ==
  /\ Gating(p, t)
  /\ \/ Gated(t)
     \/ InEpisode(t) /\ episode[t].outcome \in {"blocked", "recorded"}
     \/ InEpisode(t) /\ episode[t].outcome = "open" /\ reports[t] = "none"
  /\ proc' = [proc EXCEPT ![p].todo = @ \ {t}]
  /\ UNCHANGED <<branchVars, rowVars, gateVars, job, lock, faults>>

\* A head without an episode: prep it, unless its base is stale.
GatePrep(p, t) ==
  /\ Gating(p, t) /\ ~Gated(t) /\ ~InEpisode(t)
  /\ IF IsAncestor(main, head[t])
     THEN /\ episode' = [episode EXCEPT ![t] =
                           [outcome |-> "open", head |-> head[t], base |-> main]]
          /\ UNCHANGED told
     ELSE /\ episode' = [episode EXCEPT ![t].outcome = "blocked", ![t].head = head[t]]
          /\ Surface(t, "gate_blocked", head[t])
  /\ reports' = [reports EXCEPT ![t] = "none"]
  /\ proc' = [proc EXCEPT ![p].todo = @ \ {t}, ![p].busy = TRUE]
  /\ UNCHANGED <<branchVars, status, claim, verdict, token, cleared, job, lock, faults>>

\* A reviewer blocks, or they did not all report in time.
GateBlocks(p, t) ==
  /\ Gating(p, t) /\ ~Gated(t) /\ InEpisode(t) /\ episode[t].outcome = "open"
  /\ reports[t] \in {"block", "none"}
  /\ episode' = [episode EXCEPT ![t].outcome = "blocked"]
  /\ Surface(t, "gate_blocked", head[t])
  /\ proc' = [proc EXCEPT ![p].todo = @ \ {t}]
  /\ UNCHANGED <<branchVars, status, claim, verdict, token, reports, cleared, job, lock, faults>>

\* TrustRecord starts: the verdict it will save speaks of the head it checked,
\* against the base that head was prepped on.
GatePasses(p, t) ==
  LET base == episode[t].base IN
  /\ Gating(p, t) /\ ~Gated(t) /\ InEpisode(t) /\ episode[t].outcome = "open"
  /\ reports[t] = "pass"
  /\ proc' = [proc EXCEPT ![p].at = "recording", ![p].busy = TRUE, ![p].held =
                [NoVerdict EXCEPT !.pass = TRUE, !.sha = head[t], !.base = base,
                                  !.diff = Patch(base, head[t])]]
  /\ UNCHANGED <<branchVars, rowVars, gateVars, job, lock, faults>>

\* Its suite gives its answer, or fails by chance: a green one mints an approval
\* where no person has to.
GateValidate(p, t) ==
  LET green == SuiteGreen(proc[p].held.sha)
      asks  == t \in NeedsHuman
  IN
  /\ proc[p].at = "recording" /\ Eldest(t, proc[p].todo)
  /\ \/ /\ green /\ ~asks
        /\ proc' = [proc EXCEPT ![p].at = "minting", ![p].held.by = "auto",
                                ![p].held.asha = proc[p].held.sha]
        /\ UNCHANGED faults
     \/ (~green \/ asks) /\ proc' = [proc EXCEPT ![p].at = "saving"] /\ UNCHANGED faults
     \/ Faulty /\ proc' = [proc EXCEPT ![p].at = "saving"]
  /\ UNCHANGED <<branchVars, rowVars, gateVars, job, lock>>

GrantToken(p, t) ==
  LET v == proc[p].held IN
  /\ proc[p].at = "minting" /\ Eldest(t, proc[p].todo)
  /\ token' = [token EXCEPT ![t] = [by |-> v.by, sha |-> v.asha]]
  /\ proc' = [proc EXCEPT ![p].at = "saving"]
  /\ UNCHANGED <<branchVars, rowVars, verdict, episode, reports, cleared, job, lock, faults>>

SaveVerdict(p, t) ==
  /\ proc[p].at = "saving" /\ Eldest(t, proc[p].todo)
  /\ verdict' = [verdict EXCEPT ![t] = proc[p].held]
  /\ proc' = [proc EXCEPT ![p].at = "closing"]
  /\ UNCHANGED <<branchVars, rowVars, token, episode, reports, cleared, job, lock, faults>>

EndEpisode(p, t) ==
  /\ proc[p].at = "closing" /\ Eldest(t, proc[p].todo)
  /\ episode' = [episode EXCEPT ![t].outcome = "recorded", ![t].head = proc[p].held.sha]
  /\ proc' = [proc EXCEPT ![p].at = "gating", ![p].todo = @ \ {t}, ![p].held = NoVerdict]
  /\ UNCHANGED <<branchVars, rowVars, verdict, token, reports, cleared, job, lock, faults>>

\* The pass has spent its budget on a prep or a record: the rest can wait.
GateBudgetSpent(p) ==
  /\ proc[p].at = "gating" /\ proc[p].busy /\ proc[p].todo # {}
  /\ proc' = [proc EXCEPT ![p].todo = {}]
  /\ UNCHANGED <<branchVars, rowVars, gateVars, job, lock, faults>>

\* Releases what the gate pass claimed; the land pass lists the board anew.
EndGate(p) ==
  /\ proc[p].at = "gating" /\ proc[p].todo = {}
  /\ claim' = Released(proc[p].won, "gater")
  /\ proc' = [proc EXCEPT ![p] = [AtRest EXCEPT !.at = "land", !.todo = DoneTasks]]
  /\ UNCHANGED <<branchVars, gateVars, status, told, job, lock, faults>>

--------------------------------------------------------------------------------
(* The land pass, and `ttorch land`.                                       *)

LandCapReached(p) == LandCap > 0 /\ Cardinality(proc[p].won) >= LandCap

LandRead(p, t) ==
  /\ proc[p].at = "land" /\ Eldest(t, proc[p].todo)
  /\ proc' = [proc EXCEPT
       ![p].todo = IF ~verdict[t].pass THEN @ \ {t}
                   ELSE IF LandCapReached(p) THEN {} ELSE @,
       ![p].at = IF verdict[t].pass /\ ~LandCapReached(p) THEN "landClaim" ELSE @]
  /\ UNCHANGED <<branchVars, rowVars, gateVars, job, lock, faults>>

LandClaim(p, t) == proc[p].at = "landClaim" /\ TakeClaim(p, t, "lander", "land")

StartJobs(p, S) ==
  job' = [job EXCEPT ![p] = [t \in Task |->
            IF t \in S THEN [NoJob EXCEPT !.at = "rebase"] ELSE NoJob]]

LandBegin(p) ==
  /\ proc[p].at = "land" /\ proc[p].todo = {}
  /\ IF proc[p].won = {}
     THEN proc' = [proc EXCEPT ![p] = AtRest] /\ UNCHANGED job
     ELSE proc' = [proc EXCEPT ![p].at = "landing"] /\ StartJobs(p, proc[p].won)
  /\ UNCHANGED <<branchVars, rowVars, gateVars, lock, faults>>

\* `ttorch land t` takes neither the claim nor the lock.
ConsoleLand(p, t) ==
  /\ proc[p].at = "rest" /\ status[t] = "done"
  /\ proc' = [proc EXCEPT ![p].at = "landing", ![p].won = {t}]
  /\ StartJobs(p, {t})
  /\ UNCHANGED <<branchVars, rowVars, gateVars, lock, faults>>

\* Every pipeline of the set has ended: surface the conflicts, give back the
\* claims of what did not land.
EndLanding(p) ==
  LET won == proc[p].won
      conflicts == {t \in won : job[p][t].at = "conflict"
                         /\ \A n \in told[t] : n.kind # "land_rebase_conflict"}
  IN
  /\ proc[p].at = "landing" /\ \A t \in won : job[p][t].at \in Ended
  /\ IF p \in Daemon
     THEN /\ claim' = Released({t \in won : job[p][t].at # "landed"}, "lander")
          /\ told' = [t \in Task |-> IF t \notin conflicts THEN told[t] ELSE
               told[t] \cup {[kind |-> "land_rebase_conflict", sha |-> head[t]]}]
     ELSE UNCHANGED <<claim, told>>
  /\ proc' = [proc EXCEPT ![p] = AtRest]
  /\ job' = [job EXCEPT ![p] = [t \in Task |-> NoJob]]
  /\ UNCHANGED <<branchVars, gateVars, status, lock, faults>>

--------------------------------------------------------------------------------
(* The land pipeline of one task: prepare off the lock, merge under it.    *)

At(p, t, stage) == job[p][t].at = stage
Goto(p, t, stage) == job' = [job EXCEPT ![p][t].at = stage]
Ends(p, t, how) ==
  /\ job' = [job EXCEPT ![p][t] = [NoJob EXCEPT !.at = how]]
  /\ lock' = [lock EXCEPT ![p] = @ \ {t}]

\* Rebases the worktree itself unless its head already extends the branch.
LandRebase(p, t) ==
  LET Prep(sha) == job' = [job EXCEPT ![p][t].at = "validate", ![p][t].base = main,
                                      ![p][t].pre = head[t], ![p][t].sha = sha]
  IN
  /\ At(p, t, "rebase")
  /\ \/ /\ IsAncestor(main, head[t])
        /\ Prep(head[t])
        /\ UNCHANGED <<head, lock>>
     \/ /\ ~IsAncestor(main, head[t]) /\ RebaseConflicts(main, head[t])
        /\ Ends(p, t, "conflict")
        /\ UNCHANGED head
     \/ /\ ~IsAncestor(main, head[t]) /\ ~RebaseConflicts(main, head[t])
        /\ head' = [head EXCEPT ![t] = Rebased(main, @)]
        /\ Prep(head'[t])
        /\ UNCHANGED lock
  /\ UNCHANGED <<main, rowVars, gateVars, proc, faults>>

LandValidate(p, t) ==
  /\ At(p, t, "validate")
  /\ \/ /\ SuiteGreen(job[p][t].sha)
        /\ Goto(p, t, IF job[p][t].sha = job[p][t].pre THEN "cover" ELSE "carry")
        /\ UNCHANGED <<lock, faults>>
     \/ ~SuiteGreen(job[p][t].sha) /\ Ends(p, t, "failed") /\ UNCHANGED faults
     \/ Faulty /\ Ends(p, t, "failed")
  /\ UNCHANGED <<branchVars, rowVars, gateVars, proc>>

\* Mutant: only the changed files are compared, not the bytes of the diff.
SameFiles(v, base, sha) == Patch(base, sha).changes = v.diff.changes

SameDiff(v, base, sha) == Patch(base, sha) = v.diff

\* carryVerdictForward reads the row, compares the diffs, then writes the row.
CarryRead(p, t) ==
  LET v == verdict[t]
      j == job[p][t]
      carries == v.pass /\ v.sha # j.sha
      same    == SameDiff(v, j.base, j.sha)
  IN
  /\ At(p, t, "carry")
  /\ \/ ~carries /\ Goto(p, t, "cover") /\ UNCHANGED lock
     \/ carries /\ ~same /\ Ends(p, t, "failed")
     \/ /\ carries /\ same
        /\ job' = [job EXCEPT ![p][t].at = "repin", ![p][t].held = v]
        /\ UNCHANGED lock
  /\ UNCHANGED <<branchVars, rowVars, gateVars, proc, faults>>

CarrySave(p, t) ==
  LET j == job[p][t] IN
  /\ At(p, t, "repin")
  /\ verdict' = [verdict EXCEPT ![t] =
       [j.held EXCEPT !.sha = j.sha, !.base = j.base,
                      !.asha = IF j.held.by = "none" THEN @ ELSE j.sha]]
  /\ Goto(p, t, "cover")
  /\ UNCHANGED <<branchVars, rowVars, token, episode, reports, cleared, proc, lock, faults>>

\* Mutants: minted for whatever is about to land; never minted again.
MintedAny(t, sha) ==
  IF verdict[t].pass /\ verdict[t].by # "none"
  THEN [by |-> verdict[t].by, sha |-> sha] ELSE token[t]
NotMinted(t, sha) == token[t]

\* The token is a cache of the verdict: minted again for a commit it covers.
Reminted(t, sha) ==
  LET v == verdict[t] IN
  IF v.pass /\ v.sha = sha /\ v.asha = sha /\ v.by # "none"
  THEN [by |-> v.by, sha |-> sha]
  ELSE token[t]

\* Mutant: any passing verdict of the task will do.
CoversTask(t, sha) == verdict[t].pass

VerdictCovers(t, sha) == verdict[t].pass /\ verdict[t].sha = sha

GateCoversRebased(p, t) ==
  LET sha == job[p][t].sha
      tok == Reminted(t, sha)
  IN
  /\ At(p, t, "cover")
  /\ token' = [token EXCEPT ![t] = tok]
  /\ IF tok.by # "none" /\ tok.sha = sha /\ VerdictCovers(t, sha)
     THEN Goto(p, t, IF p \in Daemon THEN "lock" ELSE "merge") /\ UNCHANGED lock
     ELSE Ends(p, t, "failed")
  /\ UNCHANGED <<branchVars, rowVars, verdict, episode, reports, cleared, proc, faults>>

Unlocked(p) == lock[p] = {}

\* landCommitLocked: a prep the branch has moved away from is done again.
LandCommitLocked(p, t) ==
  /\ At(p, t, "lock") /\ Unlocked(p)
  /\ IF IsAncestor(main, job[p][t].sha)
     THEN lock' = [lock EXCEPT ![p] = @ \cup {t}] /\ Goto(p, t, "merge")
     ELSE /\ job' = [job EXCEPT ![p][t] = [NoJob EXCEPT !.at = "rebase"]]
          /\ UNCHANGED lock
  /\ UNCHANGED <<branchVars, rowVars, gateVars, proc, faults>>

\* The base of the review is on the branch, or on the base the land fetched.
VerdictBaseCovers(base, def, landBase) ==
  IsAncestor(base, def) \/ (IsAncestor(base, landBase) /\ IsAncestor(def, landBase))

\* The merge reads the worktree's head afresh, then runs the suite on it.
MergeRead(p, t) ==
  LET sha == head[t]
      tok == Reminted(t, sha)
  IN
  /\ At(p, t, "merge")
  /\ token' = [token EXCEPT ![t] = tok]
  /\ IF /\ tok.by # "none" /\ verdict[t].pass
        /\ VerdictBaseCovers(verdict[t].base, main, job[p][t].base)
     THEN /\ job' = [job EXCEPT ![p][t].at = "check", ![p][t].sha = sha, ![p][t].from = main]
          /\ UNCHANGED lock
     ELSE Ends(p, t, "failed")
  /\ UNCHANGED <<branchVars, rowVars, verdict, episode, reports, cleared, proc, faults>>

\* Everything the merge holds a green suite against, in the code's order; any of
\* its reads may also fail.
MergeCheck(p, t) ==
  LET j == job[p][t]
      v == verdict[t]
      still    == SuiteGreen(j.sha) /\ head[t] = j.sha /\ main = j.from /\ IsAncestor(main, j.sha)
      approved == token[t].by # "none" /\ token[t].sha = j.sha
      covered  == VerdictCovers(t, j.sha) /\ VerdictBaseCovers(v.base, main, j.base)
  IN
  /\ At(p, t, "check")
  /\ \/ /\ still /\ approved /\ covered
        /\ Goto(p, t, "ff")
        /\ UNCHANGED <<token, lock, faults>>
     \/ /\ ~(still /\ approved /\ covered)
        /\ Ends(p, t, "failed")
        /\ token' = IF still /\ token[t].by # "none" /\ ~approved
                    THEN [token EXCEPT ![t] = NoToken] ELSE token
        /\ UNCHANGED faults
     \/ Faulty /\ Ends(p, t, "failed") /\ UNCHANGED token
  /\ UNCHANGED <<branchVars, rowVars, verdict, episode, reports, cleared, proc>>

\* `git merge --ff-only`: succeeds too when the branch already has the commit.
FastForward(p, t) ==
  LET sha == job[p][t].sha IN
  /\ At(p, t, "ff")
  /\ \/ IsAncestor(main, sha) /\ main' = sha /\ Goto(p, t, "approval") /\ UNCHANGED lock
     \/ /\ ~IsAncestor(main, sha)
        /\ IF IsAncestor(sha, main) THEN Goto(p, t, "approval") /\ UNCHANGED lock
                                    ELSE Ends(p, t, "failed")
        /\ UNCHANGED main
  /\ UNCHANGED <<head, rowVars, gateVars, proc, faults>>

ConsumeApproval(p, t) ==
  /\ At(p, t, "approval")
  /\ token' = [token EXCEPT ![t] = NoToken]
  /\ Goto(p, t, "verdict")
  /\ UNCHANGED <<branchVars, rowVars, verdict, episode, reports, cleared, proc, lock, faults>>

ConsumeVerdict(p, t) ==
  /\ At(p, t, "verdict")
  /\ verdict' = [verdict EXCEPT ![t] = NoVerdict]
  /\ Goto(p, t, "deliver")
  /\ UNCHANGED <<branchVars, rowVars, token, episode, reports, cleared, proc, lock, faults>>

RecordDelivered(p, t) ==
  /\ At(p, t, "deliver")
  /\ status' = [status EXCEPT ![t] = "delivered"]
  /\ Ends(p, t, "landed")
  /\ UNCHANGED <<branchVars, gateVars, claim, told, proc, faults>>

\* A lander is killed: its memory and its lock are gone, its claims stay.
Crash(p) ==
  /\ proc[p].at # "rest" /\ Faulty
  /\ proc' = [proc EXCEPT ![p] = AtRest]
  /\ job' = [job EXCEPT ![p] = [t \in Task |-> NoJob]]
  /\ lock' = [lock EXCEPT ![p] = {}]
  /\ UNCHANGED <<branchVars, rowVars, gateVars>>

--------------------------------------------------------------------------------
GateTask(p, t) ==
  \/ GateRead(p, t) \/ GateClaim(p, t)
  \/ GateSkips(p, t) \/ GatePrep(p, t) \/ GateBlocks(p, t) \/ GatePasses(p, t)
  \/ GateValidate(p, t) \/ GrantToken(p, t) \/ SaveVerdict(p, t) \/ EndEpisode(p, t)

GatePass(p) ==
  \/ StartGate(p) \/ GateBegin(p) \/ GateBudgetSpent(p) \/ EndGate(p)
  \/ \E t \in Task : GateTask(p, t)

Prepare(p, t) ==
  LandRebase(p, t) \/ LandValidate(p, t) \/ CarryRead(p, t) \/ CarrySave(p, t)
    \/ GateCoversRebased(p, t)

Commits(p, t) ==
  \/ LandCommitLocked(p, t) \/ MergeRead(p, t) \/ MergeCheck(p, t) \/ FastForward(p, t)
  \/ ConsumeApproval(p, t) \/ ConsumeVerdict(p, t) \/ RecordDelivered(p, t)

LandTask(p, t) == Prepare(p, t) \/ Commits(p, t)

DaemonStep(p) ==
  \/ GatePass(p) \/ LandBegin(p) \/ EndLanding(p)
  \/ \E t \in Task : LandRead(p, t) \/ LandClaim(p, t) \/ LandTask(p, t)

ConsoleStep(p) ==
  \/ EndLanding(p)
  \/ \E t \in Task : ConsoleLand(p, t) \/ LandTask(p, t)

Around(t) ==
  \/ WorkerCommit(t) \/ WorkerRebase(t) \/ Report(t) \/ Approve(t)
  \/ TokenExpires(t) \/ Lapse(t)

Next ==
  \/ \E p \in Daemon : DaemonStep(p)
  \/ \E p \in Console : ConsoleStep(p)
  \/ \E p \in Proc : Crash(p)
  \/ \E t \in Task : Around(t)
  \/ Push

Spec == Init /\ [][Next]_vars

\* The daemon's loop goes on, each pipeline of a set runs in a goroutine of its
\* own, reviewers report or run out of time, and leases run out.
Fairness ==
  /\ \A p \in Daemon : WF_vars(DaemonStep(p))
  /\ \A p \in Daemon, t \in Task : WF_vars(LandTask(p, t))
  /\ \A t \in Task : WF_vars(Report(t)) /\ WF_vars(Lapse(t))

FairSpec == Spec /\ Fairness

--------------------------------------------------------------------------------
(* Properties.                                                             *)

Note == [kind : {"gate_blocked", "land_rebase_conflict"}, sha : Commit]

TypeOK ==
  /\ main \in Commit /\ head \in [Task -> Commit]
  /\ status \in [Task -> {"done", "delivered"}]
  /\ claim \in [Task -> {"free", "gater", "lander"}]
  /\ verdict \in [Task -> Verdict] /\ token \in [Task -> Token]
  /\ episode \in [Task -> Episode] /\ reports \in [Task -> {"none", "pass", "block"}]
  /\ told \in [Task -> SUBSET Note]
  /\ proc \in [Proc -> ProcState] /\ job \in [Proc -> [Task -> Job]]
  /\ lock \in [Proc -> {{}} \cup {{t} : t \in Task}]
  /\ cleared \subseteq [task : Task, patch : PatchType]
  /\ faults \in 0..MaxFaults

\* A passing verdict speaks of the commit it is pinned to, wherever a land has
\* carried it since: the diff of that commit is one the reviewers have cleared
\* (carryVerdictForward, TrustRecord, Approve).
VerdictSound ==
  \A t \in Task : verdict[t].pass =>
    /\ verdict[t].diff = Patch(verdict[t].base, verdict[t].sha)
    /\ [task |-> t, patch |-> verdict[t].diff] \in cleared

\* An approval nobody gave by hand is for a commit that brings the branch only
\* changes the reviewers have cleared as one patch: moving the token with a
\* rebase or minting it again never widens it (remintFromVerdict, carryVerdict-
\* Forward).
ApprovalSound ==
  \A t \in Task : token[t].by = "auto" =>
    \E r \in cleared :
      r.task = t /\ Changes(token[t].sha) \ Changes(main) \subseteq r.patch.changes

\* The branch gains only reviewed and green work, no change of it twice, and a
\* task is delivered only with a reviewed patch of it on the branch, whoever
\* lands, rebases, dies and lands again: the whole of Delivery.
D == INSTANCE Delivery WITH delivered <- {t \in Task : status[t] = "delivered"}
ImplementsDelivery == D!Spec

\* What the manager has been woken for.
Surfaced(t) ==
  \E n \in told[t] : n.kind = "land_rebase_conflict" \/ n.sha = head[t]

\* A task only a person can move on, and of whom nobody has been told: its
\* verdict passes but does not cover what a land would merge, or its verdict is
\* spent and its delivery was never recorded.
Stranded(t) ==
  LET v == verdict[t]
      behind == ~IsAncestor(main, head[t])
      lands  == IF behind THEN Rebased(main, head[t]) ELSE head[t]
  IN
  \/ /\ v.pass
     /\ \/ v.by = "none" \/ v.asha # v.sha
        \/ IF behind THEN Patch(main, lands) # v.diff ELSE v.sha # head[t]
        \/ ~Green(lands)
  \/ ~v.pass /\ InEpisode(t) /\ episode[t].outcome = "recorded"

\* A done task is delivered or handed to the manager, unless it is stranded:
\* competing landers, lost races and lapsed claims only ever delay it.
Settles == \A t \in Task :
  []<>(status[t] = "delivered" \/ Surfaced(t) \/ Stranded(t))

\* "Leave it safely done and release the claim so a later tick can retry once
\* the obstruction clears" (scheduler.go:1114): what fails to land for a passing
\* reason lands later, or somebody is told.
RetriedUntilSettled == \A t \in Task :
  []<>(status[t] = "delivered" \/ Surfaced(t))
================================================================================
