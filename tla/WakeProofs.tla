----------------------------- MODULE WakeProofs -----------------------------
(***************************************************************************)
(* For any bounds: a sweep that is about to type has looked at every wake  *)
(* that still counts.  Three facts carry it.  The mark goes back only      *)
(* under an armed watcher, so not during a sweep.  A wake whose record was *)
(* lost is remembered by retryAt instead, for as long as the record would  *)
(* have counted.  And nothing but time passes between the decision and the *)
(* key that could make an old wake count again.                            *)
(*                                                                         *)
(* And the idle pass stays within its budget, for any schedulers: every    *)
(* nudge typed or about to be is on record.                                *)
(***************************************************************************)
EXTENDS MCWake, Sequences, FiniteSetTheorems, TLAPS

Typing == {"type", "confirm", "enter"}

\* The sweep has the lock while it runs, and only then.
LockInv == lock = Daemon <=> pc # "idle"

\* What it read of the mark is not ahead of the mark.
ViewInv == pc \notin {"idle", "manager"} => view.mark <= mark

\* The last wake is on record, at no greater age, or held by retryAt: both count
\* from its decision, as its age does.
SentInv ==
  IF pc = "record" THEN sent.id = top /\ sent.age = decided
  ELSE \/ sent.id = woken.id /\ sent.age >= woken.age
       \/ sent.age + retry >= Rewake

\* No wake is pending while one is typed.
PendingInv ==
  pc \in Typing => retry = 0 /\ ~(sent.id > view.mark /\ sent.age < Rewake)

IInv == W!TypeOK /\ LockInv /\ ViewInv /\ SentInv /\ PendingInv

-----------------------------------------------------------------------------
LEMMA WakeConst ==
  /\ Nobody \notin {Daemon, Armed} /\ Daemon # Armed
  /\ Rewake \in Nat /\ SendRetry \in 1 .. Rewake
  /\ MaxEvents \in Nat /\ MaxDrafts \in Nat /\ MaxKills \in Nat
BY WakeAssumption DEF W!WakeConstants

LEMMA Ages ==
  ASSUME NEW e \in [id : W!Id, age : 0 .. Rewake]
  PROVE  /\ W!Older(e) \in [id : W!Id, age : 0 .. Rewake]
         /\ W!Older(e).id = e.id
         /\ W!Older(e).age = W!Later(e.age)
BY WakeConst DEF W!Older, W!Later, W!Id

LEMMA Views ==
  /\ W!NoView \in [mark : W!Id, awaiting : BOOLEAN] /\ W!NoView.mark = 0
  /\ W!TypeOK => W!ManagerRow \in [mark : W!Id, awaiting : BOOLEAN] /\ W!ManagerRow.mark = mark
<1>1. 0 \in W!Id
  BY WakeConst DEF W!Id
<1>2. W!TypeOK => mark \in W!Id
  BY WakeConst DEF W!Id, W!TypeOK
<1>3. W!TypeOK => awaiting \in BOOLEAN
  BY DEF W!TypeOK
<1> QED
  BY <1>1, <1>2, <1>3, Zenon DEF W!NoView, W!ManagerRow

LEMMA InitInv == W!Init => IInv
<1>1. ASSUME W!Init
      PROVE  /\ woken \in [id : W!Id, age : 0 .. Rewake] /\ sent \in [id : W!Id, age : 0 .. Rewake]
             /\ sent.id = woken.id /\ sent.age = woken.age /\ woken.age \in Nat
  BY <1>1, WakeConst DEF W!Init, W!Id
<1>2. W!Init => awaiting \in BOOLEAN /\ busy \in BOOLEAN
  BY Zenon DEF W!Init
<1>3. W!Init => /\ posted \in W!Id /\ mark \in 0 .. posted /\ top \in W!Id
        /\ retry \in 0 .. Rewake /\ decided \in 0 .. Rewake
  BY WakeConst DEF W!Init, W!Id
<1>4. W!Init => W!TypeOK /\ LockInv
  BY <1>1, <1>2, <1>3, WakeConst, Views DEF W!Init, W!TypeOK, LockInv, W!Waking
<1>5. W!Init => ViewInv /\ SentInv /\ PendingInv
  BY <1>1 DEF W!Init, ViewInv, SentInv, PendingInv, Typing
<1> QED
  BY <1>4, <1>5 DEF IInv

\* A sweep that ends leaves no view behind.
LEMMA EndingInv ==
  ASSUME IInv, W!EndSweep, pc # "idle"
  PROVE  LockInv' /\ ViewInv' /\ PendingInv' /\ view' \in [mark : W!Id, awaiting : BOOLEAN]
          /\ top' \in W!Id /\ decided' = 0
BY WakeConst, Views DEF IInv, W!TypeOK, LockInv, ViewInv, PendingInv, Typing, W!EndSweep, W!Lock!Release, W!Id

LEMMA SweepInv ==
  ASSUME IInv, W!SweepStep
  PROVE  IInv'
<1> USE WakeConst DEF IInv, W!TypeOK, LockInv, ViewInv, SentInv, PendingInv, Typing, W!Waking,
      W!Id, W!inbox, W!wake, W!prompt
<1>1. CASE W!Tick
  BY <1>1 DEF W!Tick, W!Lock!Acquire
<1>2. CASE W!ReadRow
  BY <1>2, Views DEF W!ReadRow
<1>3. CASE W!ReadUnread \/ W!LookAtManager
  BY <1>3 DEF W!ReadUnread, W!LookAtManager
<1>10. CASE W!DecideWake
  BY <1>10 DEF W!DecideWake, W!Due
<1>4. CASE W!DecideNot
  <2>1. LockInv' /\ ViewInv' /\ PendingInv' /\ view' \in [mark : W!Id, awaiting : BOOLEAN]
          /\ top' \in W!Id /\ decided' = 0
    BY <1>4, EndingInv DEF W!DecideNot
  <2> QED
    BY <1>4, <2>1 DEF W!DecideNot, W!EndSweep, W!Lock!Release
<1>5. CASE W!TypeWake
  BY <1>5 DEF W!TypeWake
<1>6. CASE W!ConfirmWake
  BY <1>6 DEF W!ConfirmWake
<1>7. CASE W!GiveUp
  <2>1. LockInv' /\ ViewInv' /\ PendingInv' /\ view' \in [mark : W!Id, awaiting : BOOLEAN]
          /\ top' \in W!Id /\ decided' = 0
    BY <1>7, EndingInv DEF W!GiveUp
  <2>2. retry' \in 0 .. Rewake
    BY <1>7 DEF W!GiveUp, W!Left
  <2>3. sent' = sent /\ woken' = woken /\ retry' >= retry
    BY <1>7 DEF W!GiveUp, W!Left
  <2> QED
    BY <1>7, <2>1, <2>2, <2>3 DEF W!GiveUp, W!EndSweep, W!Lock!Release
<1>8. CASE W!Enter
  BY <1>8 DEF W!Enter
<1>9. CASE W!RecordWake
  <2>1. LockInv' /\ ViewInv' /\ PendingInv' /\ view' \in [mark : W!Id, awaiting : BOOLEAN]
          /\ top' \in W!Id /\ decided' = 0
    BY <1>9, EndingInv DEF W!RecordWake
  <2> QED
    <3>0. pc' = "idle" /\ lock' = Nobody /\ UNCHANGED <<W!inbox, sent, W!prompt, kills>>
      BY <1>9 DEF W!RecordWake, W!EndSweep, W!Lock!Release
    <3>1. CASE woken' = [id |-> top, age |-> decided] /\ UNCHANGED retry
      BY <1>9, <2>1, <3>0, <3>1 DEF W!RecordWake
    <3>2. CASE retry' = W!Left(Rewake) /\ UNCHANGED woken
      <4>1. retry' \in 0 .. Rewake /\ sent.age + retry' >= Rewake
        BY <1>9, <3>2 DEF W!RecordWake, W!Left
      <4> QED
        BY <2>1, <3>0, <3>2, <4>1
    <3> QED
      BY <1>9, <3>1, <3>2 DEF W!RecordWake
<1> QED
  BY <1>1, <1>2, <1>3, <1>4, <1>5, <1>6, <1>7, <1>8, <1>9, <1>10 DEF W!SweepStep

\* What others do during a sweep only raises the mark and lets time pass.
LEMMA OthersInv ==
  ASSUME IInv, W!Next, ~W!SweepStep
  PROVE  IInv'
<1> USE WakeConst DEF IInv, W!TypeOK, LockInv, ViewInv, SentInv, PendingInv, Typing, W!Waking,
      W!Id, W!inbox, W!wake, W!prompt
<1>1. CASE W!Post
  BY <1>1 DEF W!Post
<1>2. CASE W!ReadInbox
  <2>1. awaiting' \in BOOLEAN
    BY <1>2, Zenon DEF W!ReadInbox
  <2>2. UNCHANGED <<posted, lock, pc, W!wake, W!prompt, kills>> /\ mark' = posted
    BY <1>2 DEF W!ReadInbox
  <2> QED
    BY <2>1, <2>2
<1>3. CASE W!Arm
  BY <1>3 DEF W!Arm, W!Lock!Acquire
<1>4. CASE W!Fire
  BY <1>4 DEF W!Fire, W!Lock!Release
<1>5. CASE W!FireSince
  BY <1>5 DEF W!FireSince, W!Lock!Release
<1>6. CASE W!Disarm
  BY <1>6 DEF W!Disarm, W!Lock!Release
<1>7. CASE W!AwaitLead \/ W!ClearAwaiting \/ W!EndTurn
  BY <1>7 DEF W!AwaitLead, W!ClearAwaiting, W!EndTurn
<1>8. CASE W!LeadTypes \/ W!LeadClears
  <2>1. busy' \in BOOLEAN
    BY <1>8, Zenon DEF W!LeadTypes, W!LeadClears
  <2>2. UNCHANGED <<W!inbox, lock, pc, W!wake, kills>> /\ input' \in {"empty", "draft"}
    BY <1>8, Zenon DEF W!LeadTypes, W!LeadClears
  <2>3. (drafts' = drafts + 1 /\ drafts < MaxDrafts) \/ UNCHANGED drafts
    BY <1>8, Zenon DEF W!LeadTypes, W!LeadClears
  <2> QED
    BY <2>1, <2>2, <2>3
<1>9. CASE W!Clock
  <2>1. W!Later(decided) \in 0 .. Rewake
    BY DEF W!Later
  <2> QED
    BY <1>9, <2>1, Ages DEF W!Clock, W!Later
<1>10. CASE W!KillArmed
  BY <1>10 DEF W!KillArmed, W!Lock!Release
<1>11. CASE W!RestartDaemon
  <2>1. /\ LockInv' /\ ViewInv' /\ PendingInv'
        /\ view' \in [mark : W!Id, awaiting : BOOLEAN] /\ top' \in W!Id /\ lock' \in {Daemon, Armed, Nobody}
        /\ pc' \in {"idle", "manager", "unread", "look", "decide"} \cup W!Waking
    <3>1. CASE pc = "idle"
      BY <1>11, <3>1 DEF W!RestartDaemon
    <3>2. CASE pc # "idle"
      BY <1>11, <3>2, EndingInv DEF W!RestartDaemon, W!EndSweep, W!Lock!Release
    <3> QED
      BY <3>1, <3>2
  <2>2. pc' = "idle" /\ retry' = 0 /\ sent' = woken /\ woken' = woken /\ decided' \in 0 .. Rewake
    BY <1>11 DEF W!RestartDaemon, W!EndSweep
  <2>3. UNCHANGED <<W!inbox, W!prompt>> /\ kills' \in 0 .. MaxKills
    BY <1>11 DEF W!RestartDaemon
  <2> QED
    BY <2>1, <2>2, <2>3
<1> QED
  BY <1>1, <1>2, <1>3, <1>4, <1>5, <1>6, <1>7, <1>8, <1>9, <1>10, <1>11 DEF W!Next

LEMMA StepInv == IInv /\ [W!Next]_W!vars => IInv'
<1> SUFFICES ASSUME IInv, [W!Next]_W!vars PROVE IInv'
  OBVIOUS
<1>1. CASE UNCHANGED W!vars
  BY <1>1 DEF W!vars, IInv, W!TypeOK, LockInv, ViewInv, SentInv, PendingInv, W!Waking
<1> QED
  BY <1>1, SweepInv, OthersInv

\* The wake machinery keeps its types for every bound: ages and retryAt stay
\* within Rewake, and the mark never passes what is posted (daemon.go, Tick).
THEOREM TypeCorrect == W!Spec => []W!TypeOK
<1>1. IInv => W!TypeOK
  BY DEF IInv
<1> QED
  BY <1>1, InitInv, StepInv, PTL DEF W!Spec

\* When the key is about to be pressed no wake is pending.
LEMMA EnterStep ==
  ASSUME IInv, [W!Next]_W!vars
  PROVE  pc = "enter" /\ pc' = "record" => ~(sent.id > mark /\ sent.age < Rewake)
BY WakeConst DEF IInv, W!TypeOK, ViewInv, PendingInv, Typing, W!Id

\* No wake is entered within Rewake of one that announced something still
\* unread, whatever was lost, killed or typed in between (daemon.go, "a wake is
\* already pending").
THEOREM OneWakePending == W!Spec => OneWake
<1>1. IInv /\ [W!Next]_W!vars => [pc = "enter" /\ pc' = "record" => ~(sent.id > mark /\ sent.age < Rewake)]_W!vars
  BY EnterStep
<1> QED
  BY <1>1, InitInv, StepInv, PTL DEF W!Spec, W!OneWake, OneWake

-----------------------------------------------------------------------------
(***************************************************************************)
(* IdleWorker: what the idle pass has typed is on record as nudged.        *)
(***************************************************************************)
Marks == {"idle", "stall", "claim", "send", "revive"}
Ticks == [at : Marks, text : Screen \cup {None}, late : BOOLEAN]

IdleType ==
  /\ spine \in Seq(Event) /\ tick \in [Scheduler -> Ticks] /\ typed \in Nat

\* The nudges on record since the last sign of life, and those about to be typed.
Nudged  == {i \in DOMAIN spine : spine[i].type = "nudged"}
Sending == {s \in Scheduler : tick[s].at = "send" /\ ~tick[s].late}

\* Each nudge typed or about to be is on record, and no more are than the budget.
NudgeInv ==
  /\ IsFiniteSet(Sending)
  /\ typed + Cardinality(Sending) <= Cardinality(Nudged)
  /\ Cardinality(Nudged) <= MaxIdleNudges

LEMMA NudgeBudget == MaxIdleNudges \in Nat /\ MaxIdleNudges > 0
BY IdleAssumption DEF IdleConstants

LEMMA NudgedFinite ==
  ASSUME IdleType
  PROVE  IsFiniteSet(DOMAIN spine) /\ IsFiniteSet(Nudged) /\ Cardinality(Nudged) \in Nat
<1>1. Len(spine) \in Nat /\ DOMAIN spine = 1..Len(spine)
  BY DEF IdleType
<1>2. IsFiniteSet(DOMAIN spine)
  BY <1>1, FS_Interval
<1>3. IsFiniteSet(Nudged)
  BY <1>2, FS_Subset DEF Nudged
<1> QED BY <1>2, <1>3, FS_CardinalityType

LEMMA RestingTyped ==
  \A l \in Marks : [Resting EXCEPT !.at = l] \in Ticks /\ [Resting EXCEPT !.at = l].at = l
                   /\ [Resting EXCEPT !.at = l].late = FALSE
BY DEF Resting, Ticks, Marks

\* What a scheduler that goes on leaves of those about to type.
LEMMA GoesOn ==
  ASSUME IdleType, IsFiniteSet(Sending), NEW s \in Scheduler, NEW g \in Ticks, g.at # "send",
         tick' = [tick EXCEPT ![s] = g]
  PROVE  /\ tick' \in [Scheduler -> Ticks]
         /\ Sending' = Sending \ {s} /\ IsFiniteSet(Sending')
         /\ Cardinality(Sending') \in Nat /\ Cardinality(Sending') <= Cardinality(Sending)
         /\ s \in Sending => Cardinality(Sending') = Cardinality(Sending) - 1
<1>1. tick' \in [Scheduler -> Ticks] /\ tick'[s] = g /\ \A q \in Scheduler \ {s} : tick'[q] = tick[q]
  BY DEF IdleType
<1>2. Sending' = Sending \ {s}
  BY <1>1 DEF Sending
<1>3. IsFiniteSet(Sending') /\ Cardinality(Sending') <= Cardinality(Sending)
  BY <1>2, FS_Subset
<1>4. Cardinality(Sending') \in Nat /\ Cardinality(Sending) \in Nat
  BY <1>3, FS_CardinalityType
<1>5. s \in Sending => Cardinality(Sending') = Cardinality(Sending) - 1
  BY <1>2, FS_RemoveElement
<1> QED BY <1>1, <1>2, <1>3, <1>4, <1>5

\* Steps that record and type nothing.
LEMMA Quiet ==
  ASSUME IdleType, NudgeInv, NEW s \in Scheduler, NEW g \in Ticks, g.at # "send",
         tick' = [tick EXCEPT ![s] = g], UNCHANGED <<spine, typed>>
  PROVE  IdleType' /\ NudgeInv'
<1>1. Nudged' = Nudged
  BY DEF Nudged
<1>2. IsFiniteSet(Sending)
  BY DEF NudgeInv
<1>3. /\ tick' \in [Scheduler -> Ticks] /\ IsFiniteSet(Sending')
      /\ Cardinality(Sending') \in Nat /\ Cardinality(Sending') <= Cardinality(Sending)
  BY <1>2, GoesOn
<1>4. Cardinality(Nudged) \in Nat /\ Cardinality(Sending) \in Nat
  BY <1>2, NudgedFinite, FS_CardinalityType
<1>5. typed' + Cardinality(Sending') <= Cardinality(Nudged')
  BY <1>1, <1>3, <1>4 DEF NudgeInv, IdleType
<1> QED BY <1>1, <1>3, <1>5 DEF IdleType, NudgeInv

\* What an event recorded adds to the nudges.
LEMMA Recorded ==
  ASSUME IdleType, NEW e \in Event, spine' = Append(spine, e)
  PROVE  /\ spine' \in Seq(Event)
         /\ IF e.type = "nudged" THEN Cardinality(Nudged') = Cardinality(Nudged) + 1
                                 ELSE Nudged' = Nudged
<1>1. /\ spine' \in Seq(Event) /\ Len(spine) \in Nat /\ Len(spine') = Len(spine) + 1
      /\ spine'[Len(spine) + 1] = e /\ \A i \in 1..Len(spine) : spine'[i] = spine[i]
      /\ DOMAIN spine = 1..Len(spine) /\ DOMAIN spine' = 1..(Len(spine) + 1)
  BY DEF IdleType
<1>2. \A i \in DOMAIN spine' : i \in DOMAIN spine \/ i = Len(spine) + 1
  BY <1>1
<1>3. CASE e.type = "nudged"
  <2>1. Nudged' = Nudged \cup {Len(spine) + 1}
    BY <1>1, <1>2, <1>3 DEF Nudged
  <2>2. Len(spine) + 1 \notin Nudged
    BY <1>1 DEF Nudged
  <2> QED BY <1>1, <1>3, <2>1, <2>2, NudgedFinite, FS_AddElement
<1>4. CASE e.type # "nudged"
  <2>1. Nudged' = Nudged
    BY <1>1, <1>2, <1>4 DEF Nudged
  <2> QED BY <1>1, <1>4, <2>1
<1> QED BY <1>3, <1>4

LEMMA NudgeInit == Init => IdleType /\ NudgeInv
<1> SUFFICES ASSUME Init PROVE IdleType /\ NudgeInv
  OBVIOUS
<1>1. Resting \in Ticks /\ Resting.at = "idle"
  BY DEF Resting, Ticks, Marks
<1>2. IdleType
  BY <1>1 DEF Init, IdleType
<1>3. Sending = {} /\ Nudged = {}
  BY <1>1 DEF Init, Sending, Nudged
<1>4. IsFiniteSet({}) /\ Cardinality({}) = 0
  BY FS_EmptySet
<1>5. typed = 0
  BY DEF Init
<1> QED BY <1>2, <1>3, <1>4, <1>5, NudgeBudget DEF NudgeInv

\* The claim: decided and recorded in one step, within the budget.
LEMMA ClaimsOne ==
  ASSUME IdleType, NudgeInv, NEW s \in Scheduler, ClaimIdleNudge(s)
  PROVE  IdleType' /\ NudgeInv'
<1> DEFINE e == [type |-> "nudged", text |-> tick[s].text]
           unspent == {i \in DOMAIN spine : spine[i].type # "capped"}
<1>1. tick[s] \in Ticks /\ tick[s].text \in Screen \cup {None}
  BY DEF IdleType, Ticks
<1>2. e \in Event /\ e.type = "nudged" /\ spine' = Append(spine, e)
  BY <1>1 DEF ClaimIdleNudge, Record, Event
<1> HIDE DEF e
<1>3. spine' \in Seq(Event) /\ Cardinality(Nudged') = Cardinality(Nudged) + 1
  BY <1>2, Recorded
<1>4. tick' = [tick EXCEPT ![s].at = "send"] /\ typed' = typed
  BY DEF ClaimIdleNudge
<1>5. tick' \in [Scheduler -> Ticks] /\ \A q \in Scheduler \ {s} : tick'[q] = tick[q]
  BY <1>4 DEF IdleType, Ticks, Marks
<1>6. IdleType'
  BY <1>3, <1>4, <1>5 DEF IdleType
<1>7. /\ IsFiniteSet(Sending') /\ Cardinality(Sending') \in Nat
      /\ Cardinality(Sending') <= Cardinality(Sending) + 1
  <2>1. Sending' \subseteq Sending \cup {s}
    BY <1>5 DEF Sending
  <2>2. IsFiniteSet(Sending)
    BY DEF NudgeInv
  <2>3. /\ IsFiniteSet(Sending \cup {s})
        /\ \/ Cardinality(Sending \cup {s}) = Cardinality(Sending)
           \/ Cardinality(Sending \cup {s}) = Cardinality(Sending) + 1
    BY <2>2, FS_AddElement
  <2>4. IsFiniteSet(Sending') /\ Cardinality(Sending') <= Cardinality(Sending \cup {s})
    BY <2>1, <2>3, FS_Subset
  <2>5. /\ Cardinality(Sending') \in Nat /\ Cardinality(Sending) \in Nat
        /\ Cardinality(Sending \cup {s}) \in Nat
    BY <2>2, <2>3, <2>4, FS_CardinalityType
  <2> QED BY <2>3, <2>4, <2>5
<1>8. Cardinality(Nudged) \in Nat /\ Cardinality(Sending) \in Nat
  BY NudgedFinite, FS_CardinalityType DEF NudgeInv
<1>9. Cardinality(Nudged) < MaxIdleNudges
  <2>1. ~(Count >= MaxIdleNudges)
    BY DEF ClaimIdleNudge, Wins, Spent
  <2>2. Count = Cardinality(unspent)
    BY DEF Count
  <2>3. Nudged \subseteq unspent
    BY DEF Nudged
  <2>4. IsFiniteSet(unspent)
    BY NudgedFinite, FS_Subset
  <2>5. Cardinality(Nudged) <= Cardinality(unspent) /\ Cardinality(unspent) \in Nat
    BY <2>3, <2>4, FS_Subset, FS_CardinalityType
  <2> HIDE DEF unspent
  <2> QED BY <1>8, <2>1, <2>2, <2>5, NudgeBudget
<1>10. typed' + Cardinality(Sending') <= Cardinality(Nudged')
  BY <1>3, <1>4, <1>7, <1>8 DEF NudgeInv, IdleType
<1>11. Cardinality(Nudged') <= MaxIdleNudges
  BY <1>3, <1>8, <1>9, NudgeBudget
<1> QED BY <1>6, <1>7, <1>10, <1>11 DEF NudgeInv

\* What is about to be typed counts for what is on record; not so once a sign of
\* life came in between.
LEMMA TypesOne ==
  ASSUME IdleType, NudgeInv, NEW s \in Scheduler, SendNudge(s)
  PROVE  IdleType' /\ NudgeInv'
<1> DEFINE g == [Resting EXCEPT !.at = "stall"]
<1>1. g \in Ticks /\ g.at = "stall" /\ g.at # "send"
  BY RestingTyped DEF Marks
<1>2. /\ tick[s].at = "send" /\ tick' = [tick EXCEPT ![s] = g] /\ spine' = spine
      /\ typed' = IF tick[s].late THEN typed ELSE typed + 1
  BY DEF SendNudge, Goto, events
<1> HIDE DEF g
<1>3. Nudged' = Nudged /\ IsFiniteSet(Sending) /\ tick[s].late \in BOOLEAN
  BY <1>2 DEF Nudged, NudgeInv, IdleType, Ticks
<1>4. /\ tick' \in [Scheduler -> Ticks] /\ IsFiniteSet(Sending')
      /\ Cardinality(Sending') \in Nat /\ Cardinality(Sending') <= Cardinality(Sending)
      /\ s \in Sending => Cardinality(Sending') = Cardinality(Sending) - 1
  BY <1>1, <1>2, <1>3, GoesOn
<1>5. Cardinality(Nudged) \in Nat /\ Cardinality(Sending) \in Nat
  BY <1>3, NudgedFinite, FS_CardinalityType
<1>6. s \in Sending <=> ~tick[s].late
  BY <1>2 DEF Sending
<1>7. typed' \in Nat /\ typed' + Cardinality(Sending') <= Cardinality(Nudged')
  BY <1>2, <1>3, <1>4, <1>5, <1>6 DEF NudgeInv, IdleType
<1> QED BY <1>2, <1>3, <1>4, <1>7 DEF IdleType, NudgeInv

\* A give-up on record is no nudge.
LEMMA GivesUp ==
  ASSUME IdleType, NudgeInv, NEW s \in Scheduler, GiveUp(s)
  PROVE  IdleType' /\ NudgeInv'
<1> DEFINE e == [type |-> "capped", text |-> None]
           g == [Resting EXCEPT !.at = "stall"]
<1>1. e \in Event /\ e.type # "nudged" /\ g \in Ticks /\ g.at # "send"
  BY RestingTyped DEF Event, Marks
<1>2. spine' = Append(spine, e) /\ tick' = [tick EXCEPT ![s] = g] /\ typed' = typed
  BY DEF GiveUp, Record, Goto
<1> HIDE DEF e, g
<1>3. spine' \in Seq(Event) /\ Nudged' = Nudged
  BY <1>1, <1>2, Recorded
<1>4. IsFiniteSet(Sending)
  BY DEF NudgeInv
<1>5. /\ tick' \in [Scheduler -> Ticks] /\ IsFiniteSet(Sending')
      /\ Cardinality(Sending') \in Nat /\ Cardinality(Sending') <= Cardinality(Sending)
  BY <1>1, <1>2, <1>4, GoesOn
<1>6. Cardinality(Nudged) \in Nat /\ Cardinality(Sending) \in Nat
  BY <1>4, NudgedFinite, FS_CardinalityType
<1> QED BY <1>2, <1>3, <1>5, <1>6 DEF IdleType, NudgeInv

\* The watcher's nudges are of another kind.
LEMMA ResumesApart ==
  ASSUME IdleType, NudgeInv, RecordResumed
  PROVE  IdleType' /\ NudgeInv'
<1> DEFINE e == [type |-> "resumed", text |-> None]
<1>1. e \in Event /\ e.type # "nudged"
  BY DEF Event
<1>2. (spine' = Append(spine, e) \/ spine' = spine) /\ tick' = tick /\ typed' = typed
  BY DEF RecordResumed, Record
<1> HIDE DEF e
<1>3. spine' \in Seq(Event) /\ Nudged' = Nudged
  <2>1. CASE spine' = spine BY <2>1 DEF Nudged, IdleType
  <2>2. CASE spine' = Append(spine, e) BY <1>1, <2>2, Recorded
  <2> QED BY <1>2, <2>1, <2>2
<1>4. Sending' = Sending
  BY <1>2 DEF Sending
<1> QED BY <1>2, <1>3, <1>4 DEF IdleType, NudgeInv

\* A sign of life starts the budget over, and takes what is about to be typed out
\* of it.
LEMMA StartsOver ==
  ASSUME IdleType, NudgeInv, Reports
  PROVE  IdleType' /\ NudgeInv'
<1>1. /\ spine' = <<>> /\ typed' = 0
      /\ tick' = [s \in Scheduler |-> [tick[s] EXCEPT !.late = tick[s].at = "send"]]
  BY DEF Reports
<1>2. \A s \in Scheduler :
        tick'[s] \in Ticks /\ tick'[s].at = tick[s].at /\ tick'[s].late = (tick[s].at = "send")
  BY <1>1 DEF IdleType, Ticks
<1>3. tick' \in [Scheduler -> Ticks]
  BY <1>1, <1>2
<1>4. Sending' = {}
  BY <1>2 DEF Sending
<1>5. Nudged' = {}
  BY <1>1 DEF Nudged
<1>6. IsFiniteSet({}) /\ Cardinality({}) = 0
  BY FS_EmptySet
<1> QED BY <1>1, <1>3, <1>4, <1>5, <1>6, NudgeBudget DEF IdleType, NudgeInv

LEMMA PassInv ==
  ASSUME IdleType, NudgeInv, NEW s \in Scheduler,
         IdlePass(s) \/ StallPass(s) \/ Restart(s)
  PROVE  IdleType' /\ NudgeInv'
<1> DEFINE To(l) == [Resting EXCEPT !.at = l]
           c == [Resting EXCEPT !.at = "claim", !.text = pane]
<1>1. ASSUME NEW l \in Marks, l # "send", tick' = [tick EXCEPT ![s] = To(l)],
             UNCHANGED <<spine, typed>>
      PROVE  IdleType' /\ NudgeInv'
  <2>1. To(l) \in Ticks /\ To(l).at # "send"
    BY <1>1, RestingTyped
  <2> HIDE DEF To
  <2> QED BY <1>1, <2>1, Quiet
<1>2. ASSUME ObserveIdle(s) PROVE IdleType' /\ NudgeInv'
  <2>1. pane \in Screen /\ UNCHANGED <<spine, typed>>
    BY <1>2, IdleAssumption DEF IdleConstants, ObserveIdle, Nudgeable, events
  <2>2. tick' = [tick EXCEPT ![s] = c] \/ tick' = [tick EXCEPT ![s] = To("stall")]
    BY <1>2 DEF ObserveIdle, Goto
  <2>3. c \in Ticks /\ c.at # "send"
    BY <2>1 DEF Resting, Ticks, Marks
  <2> HIDE DEF To, c
  <2>4. CASE tick' = [tick EXCEPT ![s] = c]
    BY <2>1, <2>3, <2>4, Quiet
  <2>5. CASE tick' = [tick EXCEPT ![s] = To("stall")]
    BY <1>1, <2>1, <2>5 DEF Marks
  <2> QED BY <2>2, <2>4, <2>5
<1>3. ASSUME ForgetIdle(s) \/ SkipNudge(s) PROVE IdleType' /\ NudgeInv'
  <2>1. tick' = [tick EXCEPT ![s] = To("stall")] /\ UNCHANGED <<spine, typed>>
    BY <1>3 DEF ForgetIdle, SkipNudge, Goto, events
  <2> HIDE DEF To
  <2> QED BY <1>1, <2>1 DEF Marks
<1>4. ASSUME EndStall(s) \/ SendRevive(s) \/ Restart(s) PROVE IdleType' /\ NudgeInv'
  <2>1. tick' = [tick EXCEPT ![s] = To("idle")] /\ UNCHANGED <<spine, typed>>
    BY <1>4 DEF EndStall, SendRevive, Restart, Goto, events
  <2> HIDE DEF To
  <2> QED BY <1>1, <2>1 DEF Marks
<1>5. ASSUME ObserveStall(s) PROVE IdleType' /\ NudgeInv'
  <2>1. /\ tick' = [tick EXCEPT ![s] = To("revive")] \/ tick' = [tick EXCEPT ![s] = To("idle")]
        /\ UNCHANGED <<spine, typed>>
    BY <1>5 DEF ObserveStall, Goto, events
  <2> HIDE DEF To
  <2> QED BY <1>1, <2>1 DEF Marks
<1> QED
  BY <1>2, <1>3, <1>4, <1>5, GivesUp, ClaimsOne, TypesOne DEF IdlePass, StallPass

LEMMA NudgeStep ==
  ASSUME IdleType, NudgeInv, Next \/ UNCHANGED vars
  PROVE  IdleType' /\ NudgeInv'
<1>1. ASSUME UNCHANGED <<spine, tick, typed>> PROVE IdleType' /\ NudgeInv'
  <2>1. Sending' = Sending /\ Nudged' = Nudged
    BY <1>1 DEF Sending, Nudged
  <2> QED BY <1>1, <2>1 DEF IdleType, NudgeInv
<1>2. CASE PaneChanges \/ Commits \/ Clock \/ StopSweep
  BY <1>1, <1>2 DEF PaneChanges, Commits, Clock, StopSweep, events
<1>3. CASE Reports
  BY <1>3, StartsOver
<1>4. CASE \E s \in Scheduler : IdlePass(s) \/ StallPass(s) \/ Restart(s)
  BY <1>4, PassInv
<1>5. CASE PollLiveness
  <2>1. CASE RecordResumed
    BY <2>1, ResumesApart
  <2>2. CASE Capture \/ TrackStall \/ LeaveTold \/ ResetLiveness
    BY <1>1, <2>2 DEF Capture, TrackStall, LeaveTold, ResetLiveness, events
  <2>3. CASE AutoResume \/ CountResumed \/ FlagIdle
    BY <1>1, <2>3 DEF AutoResume, CountResumed, FlagIdle, events
  <2> QED BY <1>5, <2>1, <2>2, <2>3 DEF PollLiveness
<1>6. CASE UNCHANGED vars
  BY <1>1, <1>6 DEF vars, events
<1> QED BY <1>2, <1>3, <1>4, <1>5, <1>6 DEF Next

LEMMA NudgeBound ==
  ASSUME IdleType, NudgeInv
  PROVE  NudgesBounded
<1>2. Cardinality(Nudged) \in Nat /\ Cardinality(Sending) \in Nat
  BY NudgedFinite, FS_CardinalityType DEF NudgeInv
<1>3. typed \in Nat
  BY DEF IdleType
<1>4. /\ typed + Cardinality(Sending) <= Cardinality(Nudged)
      /\ Cardinality(Nudged) <= MaxIdleNudges
  BY DEF NudgeInv
<1>5. typed + Cardinality(Sending) <= MaxIdleNudges
  BY <1>2, <1>3, <1>4, NudgeBudget
<1> QED BY <1>5 DEF NudgesBounded, Sending

\* However many schedulers run, restart and tick while the worker acts, reports and is
\* resumed by the watcher too, what the idle pass types between two signs of life stays
\* within the budget: the claim reads, decides and records in one transaction
\* (idlenudge.go, ClaimIdleNudge), and a nudge that a sign of life overtakes is counted
\* for neither episode.
THEOREM NudgesWithinBudget == Spec => []NudgesBounded
<1>1. IdleType /\ NudgeInv /\ [Next]_vars => IdleType' /\ NudgeInv'
  BY NudgeStep
<1>2. IdleType /\ NudgeInv => NudgesBounded
  BY NudgeBound
<1> QED BY <1>1, <1>2, NudgeInit, PTL DEF Spec
=============================================================================
