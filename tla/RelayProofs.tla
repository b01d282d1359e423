----------------------------- MODULE RelayProofs -----------------------------
(***************************************************************************)
(* For any number of requests, episodes, escalations and caps.  Of the     *)
(* peer, in its own table: a request acts once, an episode asks once, and  *)
(* a task that waits is listed.  Of the parent, for one scheduler: what it *)
(* has raised and is still open it still knows, so nothing is raised       *)
(* twice, no poll is in vain, and ids are said to have gone back only when *)
(* they have.                                                              *)
(***************************************************************************)
EXTENDS MCRelay, TLAPS, FiniteSetTheorems, SequenceTheorems, WellFoundedInduction

-----------------------------------------------------------------------------
(* The peer *)

PeerType ==
  /\ task \in Task /\ stamp \in 0..MaxStamp
  /\ esc \in Seq(Escalation) /\ Len(esc) <= MaxStamp
  /\ ledger \in [Rid -> Request \cup {NoRequest}] /\ woken \in [Rid -> Nat]

\* Stamps and episodes are given out in order.
EscInv ==
  /\ Len(esc) <= stamp
  /\ \A i \in 1..Len(esc) : esc[i].stamp <= stamp /\ esc[i].episode <= task.episode
  /\ \A i, j \in 1..Len(esc) : esc[i].stamp = esc[j].stamp => i = j
  /\ task.state = "done" => task.episode >= 1

\* What the ledger refers to is there.
LedgerInv ==
  /\ LedgerAgrees
  /\ \A r \in Rid : ledger[r].verb = "answer" => ledger[r].id \in 1..Len(esc)

\* Nobody waits for an approval any more.
Over == task.state # "done" \/ task.approved

\* The question of the running episode is closed only when nobody waits.
ResolvedInv ==
  \A i \in 1..Len(esc) :
    Approval(esc[i]) /\ esc[i].episode = task.episode /\ esc[i].status = "resolved" => Over

PInv == PeerType /\ EscInv /\ LedgerInv /\ OncePerEpisode /\ ResolvedInv

\* What any step but a loss of the store does to the table.
Grown ==
  /\ Len(esc') \in Nat /\ stamp' \in Nat
  /\ \A i \in 1..Len(esc) :
       /\ esc'[i].stamp = esc[i].stamp /\ esc'[i].episode = esc[i].episode
       /\ esc'[i].status = "open" => esc[i].status = "open"
  /\ \/ Len(esc') = Len(esc) /\ stamp' = stamp
     \/ /\ Len(esc') = Len(esc) + 1 /\ stamp' = stamp + 1
        /\ esc'[Len(esc) + 1].stamp = stamp + 1

LEMMA Lengths ==
  PeerType => Len(esc) \in Nat /\ DOMAIN esc = 1..Len(esc) /\ \A i \in 1..Len(esc) : esc[i] \in Escalation
BY LenProperties, ElementOfSeq DEF PeerType

LEMMA Entries ==
  ASSUME NEW e \in Escalation
  PROVE  /\ e.episode \in 0..MaxEpisode /\ e.stamp \in Stamp
         /\ e.status \in {"open", "answered", "resolved"} /\ e.by \in Rid \cup {None}
         /\ [e EXCEPT !.status = "resolved"] \in Escalation
         /\ [e EXCEPT !.status = "resolved"].episode = e.episode
         /\ [e EXCEPT !.status = "resolved"].stamp = e.stamp
         /\ [e EXCEPT !.status = "resolved"].by = e.by
         /\ [e EXCEPT !.status = "resolved"].status = "resolved"
BY DEF Escalation

LEMMA NewEntry ==
  ASSUME stamp \in 0..MaxStamp, stamp < MaxStamp, NEW n \in 0..MaxEpisode
  PROVE  /\ New(n) \in Escalation /\ New(n).episode = n /\ New(n).stamp = stamp + 1
         /\ New(n).status = "open"
<1>1. stamp + 1 \in Stamp
  BY RelayAssumption DEF Stamp
<1> QED
  BY <1>1 DEF New, Escalation

\* Closing is all that Resolved does, and only where nobody waits.
LEMMA ResolvedFacts ==
  ASSUME PeerType
  PROVE  /\ Resolved \in Seq(Escalation) /\ Len(Resolved) = Len(esc)
         /\ \A i \in 1..Len(esc) :
              /\ Resolved[i].stamp = esc[i].stamp /\ Resolved[i].episode = esc[i].episode
              /\ Resolved[i].by = esc[i].by
              /\ \/ Resolved[i].status = esc[i].status
                 \/ Over /\ esc[i].status = "open" /\ Resolved[i].status = "resolved"
<1>1. DOMAIN esc = 1..Len(esc) /\ Len(esc) \in Nat /\ \A i \in 1..Len(esc) : esc[i] \in Escalation
  BY Lengths
<1>2. ASSUME NEW i \in 1..Len(esc)
      PROVE  \/ Resolved[i] = esc[i]
             \/ /\ Over /\ esc[i].status = "open"
                /\ Resolved[i] = [esc[i] EXCEPT !.status = "resolved"]
  BY <1>1 DEF Resolved, Over
<1>3. \A i \in 1..Len(esc) : Resolved[i] \in Escalation
  BY <1>1, <1>2, Entries
<1>4. Resolved \in [1..Len(esc) -> Escalation]
  BY <1>1, <1>3 DEF Resolved
<1>5. Resolved \in Seq(Escalation) /\ Len(Resolved) = Len(esc)
  BY <1>1, <1>4, SeqDef, LenProperties
<1> QED
  BY <1>1, <1>2, <1>5, Entries

\* A table in which some have been closed, of those nobody waits for.
Closed(base) ==
  /\ base \in Seq(Escalation) /\ Len(base) = Len(esc)
  /\ \A i \in 1..Len(esc) :
       /\ base[i].stamp = esc[i].stamp /\ base[i].episode = esc[i].episode
       /\ base[i].by = esc[i].by
       /\ \/ base[i].status = esc[i].status
          \/ Over /\ esc[i].status = "open" /\ base[i].status = "resolved"

\* One more escalation than base, and no approval unless base was not asked.
Added(base, n) ==
  /\ stamp < MaxStamp /\ stamp' = stamp + 1
  /\ esc' = Append(base, New(n))
  /\ n \in 0..task.episode
  /\ n > 0 => n = task.episode /\ ~Asked(base)

LEMMA EpisodeRange == PeerType => task.episode \in 0..MaxEpisode /\ MaxEpisode \in Nat
BY RelayAssumption DEF PeerType, Task

LEMMA ZeroEpisode == 0 \in 0..MaxEpisode
BY RelayAssumption

LEMMA AddedFacts ==
  ASSUME PInv, NEW base, Closed(base), NEW n, Added(base, n)
  PROVE  /\ esc' \in Seq(Escalation) /\ Len(esc') = Len(esc) + 1
         /\ \A i \in 1..Len(esc) : esc'[i] = base[i]
         /\ esc'[Len(esc) + 1].stamp = stamp + 1 /\ esc'[Len(esc) + 1].status = "open"
         /\ esc'[Len(esc) + 1].episode = n
         /\ n \in 0..MaxEpisode
<1>1. n \in 0..MaxEpisode
  BY EpisodeRange DEF PInv, Added
<1>2. /\ New(n) \in Escalation /\ New(n).episode = n /\ New(n).stamp = stamp + 1
      /\ New(n).status = "open"
  BY <1>1, NewEntry DEF PInv, PeerType, Added
<1>3. base \in Seq(Escalation) /\ Len(base) = Len(esc) /\ esc' = Append(base, New(n))
  BY DEF Closed, Added
<1> QED
  BY <1>1, <1>2, <1>3

\* What a closing or an addition leaves true of the table.
LEMMA TableStep ==
  ASSUME PInv, UNCHANGED <<task, ledger, woken>>,
         NEW base, Closed(base),
         \/ esc' = base /\ stamp' = stamp
         \/ \E n \in 0..MaxEpisode : Added(base, n)
  PROVE  PInv' /\ Grown
<1> DEFINE old == 1..Len(esc)
<1>1. /\ Len(esc) \in Nat /\ DOMAIN esc = 1..Len(esc) /\ stamp \in Nat /\ MaxStamp \in Nat
      /\ Len(esc) <= stamp /\ stamp <= MaxStamp
  BY Lengths, RelayAssumption DEF PInv, PeerType, EscInv
<1>2. \/ Len(esc') = Len(esc) /\ stamp' = stamp
      \/ /\ Len(esc') = Len(esc) + 1 /\ stamp' = stamp + 1 /\ stamp < MaxStamp
         /\ esc'[Len(esc) + 1].stamp = stamp + 1 /\ esc'[Len(esc) + 1].status = "open"
         /\ esc'[Len(esc) + 1].episode \in 0..task.episode
         /\ esc'[Len(esc) + 1].episode > 0 =>
              esc'[Len(esc) + 1].episode = task.episode /\ ~Asked(base)
  BY AddedFacts DEF Closed, Added
<1>a. Len(esc') = Len(esc) + 1 =>
        /\ stamp' = stamp + 1 /\ stamp < MaxStamp
        /\ esc'[Len(esc) + 1].stamp = stamp + 1 /\ esc'[Len(esc) + 1].status = "open"
        /\ esc'[Len(esc) + 1].episode \in 0..task.episode
        /\ esc'[Len(esc) + 1].episode > 0 =>
             esc'[Len(esc) + 1].episode = task.episode /\ ~Asked(base)
  <2>1. CASE esc' = base
    <3>1. Len(esc') # Len(esc) + 1
      BY <1>1, <2>1 DEF Closed
    <3> QED
      BY <3>1
  <2>2. ASSUME NEW n \in 0..MaxEpisode, Added(base, n)
        PROVE  /\ stamp' = stamp + 1 /\ stamp < MaxStamp
               /\ esc'[Len(esc) + 1].stamp = stamp + 1 /\ esc'[Len(esc) + 1].status = "open"
               /\ esc'[Len(esc) + 1].episode = n /\ n \in 0..task.episode
               /\ n > 0 => n = task.episode /\ ~Asked(base)
    BY <2>2, AddedFacts DEF Added
  <2> QED
    BY <2>1, <2>2
<1>b. ASSUME NEW i \in old
      PROVE  /\ esc[i].stamp \in Nat /\ esc[i].stamp <= stamp
             /\ esc[i].episode \in Nat /\ esc[i].episode <= task.episode
  <2>1. esc[i] \in Escalation
    BY Lengths DEF PInv
  <2>2. esc[i].stamp \in Nat /\ esc[i].episode \in Nat
    BY <2>1, RelayAssumption DEF Escalation, Stamp
  <2> QED
    BY <2>2 DEF PInv, EscInv
<1>3. \A i \in old : esc'[i] = base[i]
  BY AddedFacts
<1>4. esc' \in Seq(Escalation)
  BY AddedFacts DEF Closed
<1>5. /\ DOMAIN esc' = 1..Len(esc') /\ DOMAIN base = old
      /\ \A i \in 1..Len(esc') : i \in old \/ (i = Len(esc) + 1 /\ Len(esc') = Len(esc) + 1)
  BY <1>1, <1>2, <1>4, LenProperties DEF Closed
<1>6. \A i \in old :
        /\ esc'[i].stamp = esc[i].stamp /\ esc'[i].episode = esc[i].episode
        /\ esc'[i].by = esc[i].by
        /\ \/ esc'[i].status = esc[i].status
           \/ Over /\ esc[i].status = "open" /\ esc'[i].status = "resolved"
  BY <1>3 DEF Closed
<1>7. Grown
  BY <1>1, <1>2, <1>6 DEF Grown
<1>8. PeerType'
  BY <1>1, <1>2, <1>4 DEF PInv, PeerType
<1>9. EscInv'
  <2>1. Len(esc') <= stamp'
    BY <1>1, <1>2
  <2>2. \A i \in 1..Len(esc') : esc'[i].stamp <= stamp' /\ esc'[i].episode <= task.episode
    <3>1. ASSUME NEW i \in old PROVE esc'[i].stamp <= stamp' /\ esc'[i].episode <= task.episode
      BY <1>1, <1>2, <1>6, <1>b
    <3>2. Len(esc') = Len(esc) + 1 =>
            /\ esc'[Len(esc) + 1].stamp <= stamp'
            /\ esc'[Len(esc) + 1].episode <= task.episode
      BY <1>1, <1>a, EpisodeRange DEF PInv
    <3> QED
      BY <1>5, <3>1, <3>2
  <2>4. \A i, j \in 1..Len(esc') : esc'[i].stamp = esc'[j].stamp => i = j
    <3>1. ASSUME NEW i \in 1..Len(esc'), NEW j \in 1..Len(esc'), esc'[i].stamp = esc'[j].stamp
          PROVE  i = j
      <4>1. CASE i \in old /\ j \in old
        BY <1>6, <3>1, <4>1 DEF PInv, EscInv
      <4>2. CASE ~(i \in old /\ j \in old)
        <5>1. \A k \in old : Len(esc') = Len(esc) + 1 => esc'[k].stamp # esc'[Len(esc) + 1].stamp
          BY <1>1, <1>6, <1>a, <1>b
        <5> QED
          BY <1>5, <3>1, <4>2, <5>1
      <4> QED
        BY <4>1, <4>2
    <3> QED
      BY <3>1
  <2> QED
    BY <2>1, <2>2, <2>4 DEF EscInv, PInv
<1>10. LedgerInv'
  <2>1. \A r \in Rid : ledger[r].verb = "answer" => ledger[r].id \in old
    BY DEF PInv, LedgerInv
  <2>2. \A i \in old : esc'[i].status = "answered" <=> esc[i].status = "answered"
    BY <1>6
  <2>3. \A i \in 1..Len(esc') : i \notin old =>
          esc'[i].status # "answered" /\ \A r \in Rid : ledger[r] # [verb |-> "answer", id |-> i]
    <3>1. ASSUME NEW i, i \notin old, NEW r \in Rid, ledger[r] = [verb |-> "answer", id |-> i] PROVE FALSE
      BY <2>1, <3>1
    <3> QED
      BY <1>5, <1>a, <3>1
  <2>4. LedgerAgrees'
    <3>1. ASSUME NEW r \in Rid
          PROVE  /\ woken[r] = IF ledger[r] = NoRequest THEN 0 ELSE 1
                 /\ ledger[r].verb = "answer" => esc'[ledger[r].id].by = r
      BY <1>6, <2>1 DEF PInv, LedgerInv, LedgerAgrees
    <3>2. ASSUME NEW i \in 1..Len(esc')
          PROVE  esc'[i].status = "answered" <=> \E r \in Rid : ledger[r] = [verb |-> "answer", id |-> i]
      <4>1. CASE i \in old
        BY <1>1, <2>2, <4>1 DEF PInv, LedgerInv, LedgerAgrees
      <4>2. CASE i \notin old
        BY <2>3, <4>2
      <4> QED
        BY <4>1, <4>2
    <3> QED
      BY <1>5, <3>1, <3>2 DEF LedgerAgrees
  <2> QED
    BY <1>1, <1>2, <2>1, <2>4 DEF LedgerInv
<1>11. OncePerEpisode'
  <2>1. ASSUME NEW i \in 1..Len(esc'), NEW j \in 1..Len(esc'), i # j,
               esc'[i].episode > 0, esc'[j].episode > 0
        PROVE  esc'[i].episode # esc'[j].episode /\ ~(esc'[i].status = "open" /\ esc'[j].status = "open")
    <3>1. CASE i \in old /\ j \in old
      <4>1. i \in DOMAIN esc /\ j \in DOMAIN esc /\ Approval(esc[i]) /\ Approval(esc[j])
        BY <1>1, <1>6, <2>1, <3>1 DEF Approval
      <4>2. esc[i].episode # esc[j].episode /\ {esc[i].status, esc[j].status} # {"open"}
        BY <2>1, <4>1 DEF PInv, OncePerEpisode
      <4> QED
        BY <1>6, <3>1, <4>2
    <3>2. ASSUME NEW k \in old, esc'[k].episode > 0, Len(esc') = Len(esc) + 1,
                 esc'[Len(esc) + 1].episode > 0
          PROVE  esc'[k].episode # esc'[Len(esc) + 1].episode /\ esc'[k].status # "open"
      <4>1. ~Asked(base) /\ esc'[Len(esc) + 1].episode = task.episode
        BY <1>a, <3>2
      <4>2. base[k] = esc'[k] /\ k \in DOMAIN base
        BY <1>3, <1>5, <3>2
      <4> QED
        BY <3>2, <4>1, <4>2 DEF Asked, Approval
    <3>3. CASE ~(i \in old /\ j \in old)
      BY <1>5, <2>1, <3>2, <3>3
    <3> QED
      BY <3>1, <3>3
  <2> QED
    BY <1>5, <2>1 DEF OncePerEpisode, Approval
<1>12. ResolvedInv'
  BY <1>2, <1>5, <1>6 DEF PInv, ResolvedInv, Approval, Over
<1> QED
  BY <1>7, <1>8, <1>9, <1>10, <1>11, <1>12 DEF PInv

LEMMA SyncStep ==
  ASSUME PInv, UNCHANGED <<task, ledger, woken>>, SyncApprovalEscalations
  PROVE  PInv' /\ Grown
<1>1. Closed(Resolved)
  BY ResolvedFacts DEF PInv, Closed
<1>2. CASE Waiting /\ ~Asked(Resolved) /\ stamp < MaxStamp
  <2>1. esc' = Append(Resolved, New(task.episode)) /\ stamp' = stamp + 1
    BY <1>2 DEF SyncApprovalEscalations
  <2>2. task.episode \in 0..MaxEpisode /\ task.episode \in 0..task.episode
    BY EpisodeRange DEF PInv
  <2>3. Added(Resolved, task.episode)
    BY <1>2, <2>1, <2>2 DEF Added
  <2> QED
    BY <1>1, <2>2, <2>3, TableStep
<1>3. CASE ~(Waiting /\ ~Asked(Resolved) /\ stamp < MaxStamp)
  <2>1. esc' = Resolved /\ stamp' = stamp
    BY <1>3 DEF SyncApprovalEscalations
  <2> QED
    BY <1>1, <2>1, TableStep
<1> QED
  BY <1>2, <1>3

LEMMA OpenStep ==
  ASSUME PInv, OpenEscalation
  PROVE  PInv' /\ Grown
<1>1. Closed(esc)
  BY DEF PInv, PeerType, Closed
<1>2. Added(esc, 0) /\ 0 \in 0..MaxEpisode
  <2>1. 0 \in 0..task.episode /\ 0 \in 0..MaxEpisode
    BY EpisodeRange DEF PInv
  <2> QED
    BY <2>1 DEF OpenEscalation, Added
<1> QED
  BY <1>1, <1>2, TableStep DEF OpenEscalation

LEMMA TaskFields ==
  ASSUME task \in Task
  PROVE  /\ EnterDone => /\ task' \in Task /\ task'.state = "done" /\ task'.episode = task.episode + 1
         /\ LeaveDone => /\ task' \in Task /\ task'.state = "work" /\ task'.episode = task.episode
                          /\ task'.approved = task.approved
         /\ ApprovalRequired => /\ task' \in Task /\ task'.state = task.state
                                 /\ task'.episode = task.episode
                                 /\ task'.approved = task.approved
         /\ Approve => /\ task' \in Task /\ task'.state = task.state /\ task'.approved
                        /\ task'.episode = task.episode
         /\ DeleteTask => /\ task' \in Task /\ task'.state = "gone"
                           /\ task'.episode = task.episode
<1>1. ASSUME EnterDone
      PROVE task' \in Task /\ task'.state = "done" /\ task'.episode = task.episode + 1
  <2> DEFINE n == task.episode + 1
  <2>1. n \in 0..MaxEpisode
    BY <1>1, RelayAssumption DEF EnterDone, Task
  <2>2. task' = [task EXCEPT !.state = "done", !.episode = n]
    BY <1>1 DEF EnterDone
  <2> HIDE DEF n
  <2>3. task' \in Task /\ task'.state = "done" /\ task'.episode = n
    BY <2>1, <2>2 DEF Task
  <2> QED
    BY <2>3 DEF n
<1>2. ASSUME LeaveDone
      PROVE task' \in Task /\ task'.state = "work" /\ task'.episode = task.episode
            /\ task'.approved = task.approved
  BY <1>2 DEF LeaveDone, Task
<1>3. ASSUME ApprovalRequired
      PROVE task' \in Task /\ task'.state = task.state /\ task'.episode = task.episode
            /\ task'.approved = task.approved
  BY <1>3 DEF ApprovalRequired, Task
<1>4. ASSUME Approve
      PROVE task' \in Task /\ task'.state = task.state /\ task'.approved
            /\ task'.episode = task.episode
  BY <1>4 DEF Approve, Task
<1>5. ASSUME DeleteTask
      PROVE task' \in Task /\ task'.state = "gone" /\ task'.episode = task.episode
  BY <1>5 DEF DeleteTask, Task
<1> QED
  BY <1>1, <1>2, <1>3, <1>4, <1>5

\* The state of the task moves on; the table stays.
LEMMA TaskStep ==
  ASSUME PInv, UNCHANGED <<esc, stamp, ledger, woken>>,
         task' \in Task, task'.episode >= task.episode,
         task'.state = "done" => task'.episode >= 1,
         Over /\ task'.episode = task.episode => Over'
  PROVE  PInv' /\ Grown
<1>1. PeerType'
  BY DEF PInv, PeerType
<1>2. /\ Len(esc) \in Nat /\ stamp \in Nat /\ DOMAIN esc = 1..Len(esc)
      /\ task.episode \in Nat /\ task'.episode \in Nat
  BY Lengths, EpisodeRange, RelayAssumption DEF PInv, PeerType, Task
<1>3. \A i \in 1..Len(esc) : esc[i].episode \in Nat /\ esc[i].episode <= task.episode
  <2>1. \A i \in 1..Len(esc) : esc[i] \in Escalation
    BY Lengths DEF PInv
  <2> QED
    BY <2>1, RelayAssumption DEF Escalation, PInv, EscInv
<1>4. EscInv'
  BY <1>2, <1>3 DEF PInv, EscInv
<1>5. LedgerInv' /\ OncePerEpisode'
  <2>1. LedgerAgrees' <=> LedgerAgrees
    BY DEF LedgerAgrees
  <2>2. OncePerEpisode' <=> OncePerEpisode
    BY DEF OncePerEpisode, Approval
  <2> QED
    BY <2>1, <2>2 DEF PInv, LedgerInv
<1>6. ResolvedInv'
  <2>1. ASSUME NEW i \in 1..Len(esc), Approval(esc[i]), esc[i].episode = task'.episode,
               esc[i].status = "resolved"
        PROVE  Over'
    <3>1. task'.episode = task.episode
      BY <1>2, <1>3, <2>1
    <3> QED
      BY <2>1, <3>1 DEF PInv, ResolvedInv
  <2> QED
    BY <2>1 DEF ResolvedInv, Approval
<1>7. Grown
  BY <1>2 DEF Grown
<1> QED
  BY <1>1, <1>4, <1>5, <1>6, <1>7 DEF PInv

LEMMA TaskSteps ==
  ASSUME PInv, EnterDone \/ LeaveDone \/ ApprovalRequired \/ Approve \/ DeleteTask
  PROVE  PInv' /\ Grown
<1>1. /\ task \in Task /\ task.episode \in Nat
      /\ task.state = "done" => task.episode >= 1
  BY EpisodeRange DEF PInv, PeerType, EscInv
<1>2. UNCHANGED <<esc, stamp, ledger, woken>>
  BY DEF EnterDone, LeaveDone, ApprovalRequired, Approve, DeleteTask
<1>3. CASE EnterDone
  BY <1>1, <1>2, <1>3, TaskFields, TaskStep
<1>4. CASE LeaveDone
  BY <1>1, <1>2, <1>4, TaskFields, TaskStep DEF Over
<1>5. CASE ApprovalRequired
  BY <1>1, <1>2, <1>5, TaskFields, TaskStep DEF Over
<1>6. CASE Approve
  BY <1>1, <1>2, <1>6, TaskFields, TaskStep DEF Over
<1>7. CASE DeleteTask
  BY <1>1, <1>2, <1>7, TaskFields, TaskStep DEF Over
<1> QED
  BY <1>3, <1>4, <1>5, <1>6, <1>7

\* An answer is taken by an open escalation, which is open no more.
LEMMA AnswerStep ==
  ASSUME PInv, NEW r \in Rid, NEW id \in Id, AnswerEscalation(r, id)
  PROVE  PInv' /\ Grown
<1> DEFINE e == [esc[id] EXCEPT !.status = "answered", !.by = r]
<1>1. /\ Len(esc) \in Nat /\ DOMAIN esc = 1..Len(esc) /\ stamp \in Nat
      /\ \A i \in 1..Len(esc) : esc[i] \in Escalation
  BY Lengths DEF PInv, PeerType
<1>2. id \in 1..Len(esc) /\ esc[id].status = "open" /\ ledger[r] = NoRequest
  BY <1>1 DEF AnswerEscalation, Answerable
<1>3. /\ e \in Escalation /\ e.stamp = esc[id].stamp /\ e.episode = esc[id].episode
      /\ e.status = "answered" /\ e.by = r
  BY <1>1, <1>2 DEF Escalation
<1>4. esc' = [esc EXCEPT ![id] = e]
  BY DEF AnswerEscalation
<1>5. /\ UNCHANGED <<task, stamp>> /\ woken' = [woken EXCEPT ![r] = @ + 1]
      /\ ledger' = [ledger EXCEPT ![r] = [verb |-> "answer", id |-> id]]
  BY DEF AnswerEscalation
<1> HIDE DEF e
<1>6. /\ esc' \in Seq(Escalation) /\ Len(esc') = Len(esc)
      /\ \A i \in 1..Len(esc) : esc'[i] = IF i = id THEN e ELSE esc[i]
  BY <1>2, <1>3, <1>4, ExceptSeq DEF PInv, PeerType
<1>7. DOMAIN esc' = 1..Len(esc)
  BY <1>6, LenProperties
<1>8. \A i \in 1..Len(esc) :
        /\ esc'[i].stamp = esc[i].stamp /\ esc'[i].episode = esc[i].episode
        /\ i # id => esc'[i].by = esc[i].by /\ esc'[i].status = esc[i].status
        /\ i = id => esc'[i].by = r /\ esc'[i].status = "answered"
  BY <1>3, <1>6
<1>9. Grown
  BY <1>1, <1>5, <1>6, <1>8 DEF Grown
<1>10. PeerType'
  <2>1. id \in 0..MaxStamp
    BY RelayAssumption DEF Id
  <2>2. [verb |-> "answer", id |-> id] \in Request
    BY <2>1 DEF Request
  <2> QED
    BY <1>5, <1>6, <2>2 DEF PInv, PeerType
<1>11. EscInv'
  BY <1>5, <1>6, <1>8 DEF PInv, EscInv
<1>12. /\ ledger'[r].verb = "answer" /\ ledger'[r].id = id /\ ledger'[r] # NoRequest
       /\ \A q \in Rid : q # r => ledger'[q] = ledger[q] /\ woken'[q] = woken[q]
       /\ woken'[r] = 1
  BY <1>2, <1>5 DEF PInv, PeerType, LedgerInv, LedgerAgrees, NoRequest
<1>13. \A q \in Rid : ledger[q].verb = "answer" => ledger[q].id # id
  <2>1. ASSUME NEW q \in Rid, ledger[q].verb = "answer", ledger[q].id = id PROVE FALSE
    <3>1. ledger[q] = [verb |-> "answer", id |-> id]
      BY <2>1 DEF PInv, PeerType, Request, NoRequest
    <3>2. esc[id].status = "answered"
      BY <1>1, <1>2, <3>1 DEF PInv, LedgerInv, LedgerAgrees
    <3> QED
      BY <1>2, <3>2
  <2> QED
    BY <2>1
<1>14. LedgerInv'
  <2>1. \A q \in Rid : ledger'[q].verb = "answer" => ledger'[q].id \in 1..Len(esc)
    BY <1>2, <1>12 DEF PInv, LedgerInv
  <2>2. ASSUME NEW q \in Rid
        PROVE  /\ woken'[q] = IF ledger'[q] = NoRequest THEN 0 ELSE 1
               /\ ledger'[q].verb = "answer" => esc'[ledger'[q].id].by = q
    BY <1>2, <1>8, <1>12, <1>13 DEF PInv, LedgerInv, LedgerAgrees
  <2>3. ASSUME NEW i \in 1..Len(esc)
        PROVE  esc'[i].status = "answered" <=> \E q \in Rid : ledger'[q] = [verb |-> "answer", id |-> i]
    <3>1. CASE i = id
      BY <1>5, <1>8, <3>1 DEF PInv, PeerType
    <3>2. CASE i # id
      <4>1. esc'[i].status = "answered" <=> \E q \in Rid : ledger[q] = [verb |-> "answer", id |-> i]
        BY <1>1, <1>8, <3>2 DEF PInv, LedgerInv, LedgerAgrees
      <4>2. \A q \in Rid : ledger'[q] = [verb |-> "answer", id |-> i]
                          <=> ledger[q] = [verb |-> "answer", id |-> i]
        BY <1>2, <1>12, <3>2 DEF NoRequest
      <4> QED
        BY <4>1, <4>2
    <3> QED
      BY <3>1, <3>2
  <2> QED
    BY <1>6, <1>7, <2>1, <2>2, <2>3 DEF LedgerInv, LedgerAgrees
<1>15. OncePerEpisode'
  <2>1. ASSUME NEW i \in 1..Len(esc), NEW j \in 1..Len(esc), i # j,
               esc'[i].episode > 0, esc'[j].episode > 0
        PROVE  esc'[i].episode # esc'[j].episode /\ {esc'[i].status, esc'[j].status} # {"open"}
    <3>1. esc[i].episode # esc[j].episode /\ {esc[i].status, esc[j].status} # {"open"}
      BY <1>1, <1>8, <2>1 DEF PInv, OncePerEpisode, Approval
    <3> QED
      BY <1>8, <3>1
  <2> QED
    BY <1>7, <2>1 DEF OncePerEpisode, Approval
<1>16. ResolvedInv'
  BY <1>5, <1>6, <1>8 DEF PInv, ResolvedInv, Approval, Over
<1> QED
  BY <1>9, <1>10, <1>11, <1>14, <1>15, <1>16 DEF PInv

LEMMA GoalStep ==
  ASSUME PInv, NEW r \in Rid, RecordGoal(r)
  PROVE  PInv' /\ Grown
<1>1. /\ ledger[r] = NoRequest /\ UNCHANGED <<task, esc, stamp>>
      /\ woken' = [woken EXCEPT ![r] = @ + 1]
      /\ ledger' = [ledger EXCEPT ![r] = [verb |-> "goal", id |-> 0]]
  BY DEF RecordGoal
<1>2. /\ Len(esc) \in Nat /\ DOMAIN esc = 1..Len(esc) /\ stamp \in Nat
  BY Lengths DEF PInv, PeerType
<1>3. Grown
  BY <1>1, <1>2 DEF Grown
<1>4. PeerType'
  <2>1. [verb |-> "goal", id |-> 0] \in Request
    BY RelayAssumption DEF Request
  <2> QED
    BY <1>1, <2>1 DEF PInv, PeerType
<1>5. /\ ledger'[r] = [verb |-> "goal", id |-> 0] /\ ledger'[r] # NoRequest /\ woken'[r] = 1
      /\ \A q \in Rid : q # r => ledger'[q] = ledger[q] /\ woken'[q] = woken[q]
  BY <1>1 DEF PInv, PeerType, LedgerInv, LedgerAgrees, NoRequest
<1>6. LedgerInv'
  <2>1. \A i : \A q \in Rid : ledger'[q] = [verb |-> "answer", id |-> i]
                          <=> ledger[q] = [verb |-> "answer", id |-> i]
    BY <1>1, <1>5 DEF NoRequest
  <2>2. \A q \in Rid : ledger'[q].verb = "answer" <=> ledger[q].verb = "answer"
    BY <1>1, <1>5 DEF NoRequest
  <2>3. \A q \in Rid : ledger'[q].verb = "answer" => ledger'[q] = ledger[q]
    BY <1>5
  <2>4. \A q \in Rid : woken'[q] = IF ledger'[q] = NoRequest THEN 0 ELSE 1
    BY <1>5 DEF PInv, LedgerInv, LedgerAgrees
  <2> QED
    BY <1>1, <1>2, <2>1, <2>2, <2>3, <2>4 DEF PInv, LedgerInv, LedgerAgrees
<1>7. EscInv' /\ ResolvedInv'
  BY <1>1 DEF PInv, EscInv, ResolvedInv, Approval, Over
<1>8. OncePerEpisode' <=> OncePerEpisode
  BY <1>1 DEF OncePerEpisode, Approval
<1> QED
  BY <1>3, <1>4, <1>6, <1>7, <1>8 DEF PInv

\* An empty table without requests, whatever stamps it begins with.
LEMMA EmptyTable ==
  ASSUME task = NewTask, esc = <<>>, stamp \in 0..MaxStamp,
         ledger = [r \in Rid |-> NoRequest], woken = [r \in Rid |-> 0]
  PROVE  PInv
<1>1. Len(esc) = 0 /\ esc \in Seq(Escalation) /\ DOMAIN esc = {} /\ MaxStamp \in Nat /\ stamp \in Nat
  BY EmptySeq, RelayAssumption
<1>2. task \in Task
  BY Zenon, RelayAssumption, ZeroEpisode DEF NewTask, Task
<1>3. task.state = "work"
  BY Zenon DEF NewTask
<1>4. PeerType
  BY <1>1, <1>2 DEF PeerType
<1>5. EscInv
  BY <1>1, <1>3 DEF EscInv
<1>6. LedgerInv
  BY <1>1 DEF LedgerInv, LedgerAgrees, NoRequest
<1>7. OncePerEpisode
  BY <1>1 DEF OncePerEpisode
<1>8. ResolvedInv
  BY <1>1 DEF ResolvedInv
<1> QED
  BY <1>4, <1>5, <1>6, <1>7, <1>8 DEF PInv

LEMMA Initially == Init => PInv
<1> SUFFICES ASSUME Init PROVE PInv
  OBVIOUS
<1>1. /\ task = NewTask /\ esc = <<>> /\ stamp = 0
      /\ ledger = [r \in Rid |-> NoRequest] /\ woken = [r \in Rid |-> 0]
  BY DEF Init
<1>2. stamp \in 0..MaxStamp
  BY <1>1, RelayAssumption
<1> QED
  BY <1>1, <1>2, EmptyTable

LEMMA RecreatedStep ==
  ASSUME PInv, Recreated
  PROVE  PInv'
<1>1. /\ task' = NewTask /\ esc' = <<>> /\ stamp' = stamp
      /\ ledger' = [r \in Rid |-> NoRequest] /\ woken' = [r \in Rid |-> 0]
  BY DEF Recreated
<1>2. stamp' \in 0..MaxStamp
  BY <1>1 DEF PInv, PeerType
<1>3. Len(esc') = 0 /\ esc' \in Seq(Escalation) /\ DOMAIN esc' = {} /\ MaxStamp \in Nat /\ stamp' \in Nat
  BY <1>1, <1>2, EmptySeq, RelayAssumption
<1>4. task' \in Task
  BY <1>1, Zenon, RelayAssumption, ZeroEpisode DEF NewTask, Task
<1>5. task'.state = "work"
  BY <1>1, Zenon DEF NewTask
<1>6. PeerType'
  BY <1>1, <1>2, <1>3, <1>4 DEF PeerType
<1>7. EscInv'
  BY <1>3, <1>5 DEF EscInv
<1>8. LedgerInv'
  BY <1>1, <1>3 DEF LedgerInv, LedgerAgrees, NoRequest
<1>9. OncePerEpisode' /\ ResolvedInv'
  BY <1>3 DEF OncePerEpisode, ResolvedInv
<1> QED
  BY <1>6, <1>7, <1>8, <1>9 DEF PInv

LEMMA StillStep ==
  ASSUME PInv, UNCHANGED peer
  PROVE  PInv' /\ Grown
<1>1. UNCHANGED <<task, esc, ledger, woken, stamp>>
  BY DEF peer
<1>2. (PeerType' <=> PeerType) /\ (EscInv' <=> EscInv)
  BY <1>1 DEF PeerType, EscInv
<1>3. LedgerAgrees' <=> LedgerAgrees
  BY <1>1 DEF LedgerAgrees
<1>4. LedgerInv' <=> LedgerInv
  BY <1>1, <1>3 DEF LedgerInv
<1>5. OncePerEpisode' <=> OncePerEpisode
  BY <1>1 DEF OncePerEpisode, Approval
<1>6. ResolvedInv' <=> ResolvedInv
  BY <1>1 DEF ResolvedInv, Approval, Over
<1>7. Grown
  BY <1>1, Lengths DEF Grown, PInv, PeerType
<1> QED
  BY <1>2, <1>4, <1>5, <1>6, <1>7 DEF PInv

\* Steps of the peer that leave the parent alone.
PeerAlone ==
  \/ EnterDone \/ LeaveDone \/ ApprovalRequired \/ Approve \/ DeleteTask
  \/ OpenEscalation \/ ReadDecisions
  \/ \E r \in Rid : RecordGoal(r) \/ \E id \in Id : AnswerEscalation(r, id)

LEMMA Alone == PeerAlone => UNCHANGED <<row, open, told, back, poll, events>>
BY DEF PeerAlone, EnterDone, LeaveDone, ApprovalRequired, Approve, DeleteTask, OpenEscalation,
       ReadDecisions, RecordGoal, AnswerEscalation, parent

LEMMA AloneGrown ==
  ASSUME PInv, PeerAlone
  PROVE  PInv' /\ Grown
<1>1. CASE EnterDone \/ LeaveDone \/ ApprovalRequired \/ Approve \/ DeleteTask
  BY <1>1, TaskSteps
<1>2. CASE OpenEscalation
  BY <1>2, OpenStep
<1>3. CASE ReadDecisions
  BY <1>3, SyncStep DEF ReadDecisions
<1>4. CASE \E r \in Rid : RecordGoal(r)
  BY <1>4, GoalStep
<1>5. CASE \E r \in Rid : \E id \in Id : AnswerEscalation(r, id)
  BY <1>5, AnswerStep
<1> QED
  BY <1>1, <1>2, <1>3, <1>4, <1>5 DEF PeerAlone

\* The steps, as what they may disturb.
LEMMA Cases ==
  [Next]_vars =>
    \/ PeerAlone \/ Recreated \/ RetirePeer \/ RegisterPeer \/ MarkPeerLive
    \/ \E s \in Scheduler : \/ PollPeer(s) \/ ServeDecisions(s) \/ RecordPeerPoll(s)
                            \/ RecordPeerFailure(s) \/ Stop(s)
    \/ UNCHANGED vars
BY Zenon DEF Next, Peer, PeerAlone

\* The peer under any step.
LEMMA PeerStep ==
  ASSUME PInv, [Next]_vars
  PROVE  PInv' /\ (Grown \/ Recreated)
<1>1. CASE PeerAlone
  BY <1>1, AloneGrown
<1>2. CASE Recreated
  BY <1>2, RecreatedStep
<1>3. CASE \E s \in Scheduler : ServeDecisions(s)
  BY <1>3, SyncStep DEF ServeDecisions
<1>4. CASE \/ RetirePeer \/ RegisterPeer \/ MarkPeerLive \/ UNCHANGED vars
           \/ \E s \in Scheduler : PollPeer(s) \/ RecordPeerPoll(s) \/ RecordPeerFailure(s) \/ Stop(s)
  <2>1. UNCHANGED peer
    BY <1>4 DEF RetirePeer, RegisterPeer, MarkPeerLive, PollPeer, RecordPeerPoll,
                RecordPeerFailure, Stop, vars
  <2> QED
    BY <2>1, StillStep
<1> QED
  BY <1>1, <1>2, <1>3, <1>4, Cases

LEMMA PeerInvariant == Spec => []PInv
<1>1. PInv /\ [Next]_vars => PInv'
  BY PeerStep
<1> QED
  BY Initially, <1>1, PTL DEF Spec

\* However often a request arrives, and from whichever poll, its manager is woken once,
\* and the table and the ledger tell of the same answer (escalation.go, AnswerEscalation).
THEOREM LedgerCorrect == Spec => []LedgerAgrees
<1>1. PInv => LedgerAgrees
  BY DEF PInv, LedgerInv
<1> QED
  BY PeerInvariant, <1>1, PTL

\* One question per done episode, and one open question per task, under any interleaving
\* of syncs, answers and transitions (escalation.go, SyncApprovalEscalations).
THEOREM OncePerEpisodeCorrect == Spec => []OncePerEpisode
<1>1. PInv => OncePerEpisode
  BY DEF PInv
<1> QED
  BY PeerInvariant, <1>1, PTL

-----------------------------------------------------------------------------
(* The parent, whatever its schedulers do *)

LEMMA HighestFacts ==
  ASSUME NEW S \in SUBSET (0 .. MaxStamp)
  PROVE  /\ Highest(S) \in 0 .. MaxStamp /\ Highest(S) \in S \cup {0}
         /\ \A m \in S : m <= Highest(S)
<1> DEFINE T == S \cup {0}
           Depth == {MaxStamp - j : j \in T}
<1>1. MaxStamp \in Nat /\ T \subseteq 0 .. MaxStamp /\ 0 \in T
  BY RelayAssumption
<1>2. Depth \subseteq Nat /\ Depth # {}
  BY <1>1
<1>3. PICK d \in Depth : \A e \in Depth : ~(<<e, d>> \in OpToRel(<, Nat))
  BY <1>2, NatLessThanWellFounded, WFMin
<1>4. \A e \in Depth : ~(e < d)
  BY <1>2, <1>3 DEF OpToRel
<1>5. PICK n \in T : d = MaxStamp - n
  BY <1>3
<1>6. \A j \in T : MaxStamp - j \in Depth
  OBVIOUS
<1>7. \A j \in T : j <= n
  <2>1. \A j \in T : ~(MaxStamp - j < MaxStamp - n)
    BY <1>4, <1>5, <1>6
  <2>2. n \in 0 .. MaxStamp /\ \A j \in T : j \in 0 .. MaxStamp
    BY <1>1, <1>5
  <2> HIDE DEF T
  <2> QED
    BY <1>1, <2>1, <2>2
<1>8. n \in S \cup {0} /\ \A m \in S : m <= n
  BY <1>7
<1>9. Highest(S) \in S \cup {0} /\ \A m \in S : m <= Highest(S)
  BY <1>8 DEF Highest
<1> QED
  BY <1>1, <1>9

\* An id is listed once.
Unambiguous(S) == \A e, f \in S : e[1] = f[1] => e = f

PollType ==
  /\ poll \in [Scheduler -> [at : {"idle", "asked", "listed"}, list : SUBSET (Id \X Stamp)]]
  /\ \A s \in Scheduler : Unambiguous(poll[s].list)

OpenType ==
  /\ open \subseteq Id \X Stamp /\ Unambiguous(open)
  /\ \A e \in open : e[1] <= row.cursor

RowType == row \in Row /\ told \subseteq Stamp /\ back \in BOOLEAN /\ events \in 0..MaxEvents

ParentType == PollType /\ OpenType /\ RowType

LEMMA IdleType == Idle \in [at : {"idle", "asked", "listed"}, list : SUBSET (Id \X Stamp)]
                  /\ Unambiguous(Idle.list) /\ Idle.list = {} /\ Idle.at = "idle"
BY DEF Idle, Unambiguous

LEMMA RowMade ==
  ASSUME NEW c \in 0..MaxStamp, NEW n \in 0..After, NEW a \in BOOLEAN, NEW b \in BOOLEAN,
         NEW st \in {"provisioning", "live", "unreachable", "retired"}
  PROVE  /\ [status |-> st, cursor |-> c, fails |-> n, reset |-> a, bad |-> b] \in Row
         /\ [status |-> st, cursor |-> c, fails |-> n, reset |-> a, bad |-> b].cursor = c
         /\ [status |-> st, cursor |-> c, fails |-> n, reset |-> a, bad |-> b].reset = a
         /\ [status |-> st, cursor |-> c, fails |-> n, reset |-> a, bad |-> b].bad = b
BY Zenon DEF Row

\* What RecordPeerPoll reads off the list of s, in its order.
Regressed(s) == \E e \in Unseen(poll[s].list) : e[1] <= row.cursor
Refused(s) ==
  IF Regressed(s) \/ row.cursor = 0 THEN {}
  ELSE {e \in Unseen(poll[s].list) : e[1] - row.cursor > MaxJump}
Raise(s) == Lowest(Unseen(poll[s].list) \ Refused(s), MaxRaise)
Base(s) == IF Regressed(s) THEN Highest(IdsOf(StillOpen(poll[s].list))) ELSE row.cursor
Cursor(s) == Highest({Base(s)} \cup IdsOf(Raise(s)))

\* The list is recorded while the peer is still polled.
LEMMA Recorded ==
  ASSUME NEW s \in Scheduler, RecordPeerPoll(s), Polled
  PROVE  /\ open' = StillOpen(poll[s].list) \cup Raise(s)
         /\ told' = told \cup {e[2] : e \in Raise(s)}
         /\ row' = [status |-> "live", cursor |-> Cursor(s), fails |-> 0,
                    reset |-> Regressed(s), bad |-> Refused(s) # {}]
BY Zenon DEF RecordPeerPoll, Regressed, Refused, Raise, Base, Cursor

LEMMA RaiseFacts ==
  ASSUME ParentType, NEW s \in Scheduler
  PROVE  /\ poll[s].list \subseteq Id \X Stamp
         /\ StillOpen(poll[s].list) \subseteq poll[s].list
         /\ Unseen(poll[s].list) \subseteq poll[s].list
         /\ Raise(s) \subseteq Unseen(poll[s].list) /\ Raise(s) \cap Refused(s) = {}
         /\ Base(s) \in 0..MaxStamp /\ Cursor(s) \in 0..MaxStamp
         /\ Base(s) <= Cursor(s)
         /\ \A e \in StillOpen(poll[s].list) \cup Raise(s) : e[1] <= Cursor(s)
         /\ Cursor(s) = Base(s) \/ \E e \in Raise(s) : e[1] = Cursor(s)
<1> DEFINE list == poll[s].list
<1>1. /\ list \subseteq Id \X Stamp /\ StillOpen(list) \subseteq list
      /\ StillOpen(list) \subseteq open /\ Unseen(list) \subseteq list
  BY DEF ParentType, PollType, StillOpen, Unseen
<1>2. Raise(s) \subseteq Unseen(list) /\ Raise(s) \cap Refused(s) = {}
  BY DEF Raise, Lowest
<1> HIDE DEF list
<1>3. \A S \in SUBSET (Id \X Stamp) : IdsOf(S) \subseteq 0..MaxStamp /\ \A e \in S : e[1] \in IdsOf(S)
  BY RelayAssumption DEF IdsOf, Id
<1>4. row.cursor \in 0..MaxStamp /\ \A e \in open : e[1] <= row.cursor
  BY DEF ParentType, RowType, OpenType, Row
<1>5. /\ IdsOf(StillOpen(list)) \subseteq 0..MaxStamp /\ IdsOf(Raise(s)) \subseteq 0..MaxStamp
      /\ \A e \in StillOpen(list) : e[1] \in IdsOf(StillOpen(list)) /\ e[1] \in 0..MaxStamp
      /\ \A e \in Raise(s) : e[1] \in IdsOf(Raise(s)) /\ e[1] \in 0..MaxStamp
  BY <1>1, <1>2, <1>3
<1>6. /\ Base(s) \in 0..MaxStamp
      /\ \A e \in StillOpen(list) : e[1] <= Base(s)
  <2>1. CASE Regressed(s)
    <3>1. Base(s) = Highest(IdsOf(StillOpen(list)))
      BY <2>1 DEF Base, list
    <3> QED
      BY <1>5, <3>1, HighestFacts
  <2>2. CASE ~Regressed(s)
    <3>1. Base(s) = row.cursor
      BY <2>2 DEF Base
    <3> QED
      BY <1>1, <1>4, <3>1
  <2> QED
    BY <2>1, <2>2
<1>7. {Base(s)} \cup IdsOf(Raise(s)) \subseteq 0..MaxStamp
  BY <1>5, <1>6
<1>8. /\ Cursor(s) \in 0..MaxStamp /\ Cursor(s) \in {Base(s), 0} \cup IdsOf(Raise(s))
      /\ \A m \in {Base(s)} \cup IdsOf(Raise(s)) : m <= Cursor(s)
  BY <1>7, HighestFacts DEF Cursor
<1>9. Base(s) <= Cursor(s) /\ \A e \in Raise(s) : e[1] <= Cursor(s)
  BY <1>5, <1>8
<1>10. \A e \in StillOpen(list) : e[1] <= Cursor(s)
  BY <1>5, <1>6, <1>8, <1>9, RelayAssumption
<1>11. Cursor(s) = Base(s) \/ Cursor(s) \in IdsOf(Raise(s))
  BY <1>6, <1>8, <1>9, RelayAssumption
<1>12. Cursor(s) = Base(s) \/ \E e \in Raise(s) : e[1] = Cursor(s)
  BY <1>11 DEF IdsOf
<1> QED
  BY <1>1, <1>2, <1>6, <1>8, <1>9, <1>10, <1>12 DEF list

LEMMA PollStep ==
  ASSUME PollType, NEW s \in Scheduler,
         NEW at \in {"idle", "asked", "listed"}, NEW list \in SUBSET (Id \X Stamp),
         Unambiguous(list), poll' = [poll EXCEPT ![s] = [at |-> at, list |-> list]]
  PROVE  /\ PollType' /\ poll'[s].at = at /\ poll'[s].list = list
         /\ \A t \in Scheduler : t # s => poll'[t] = poll[t]
<1> DEFINE p == [at |-> at, list |-> list]
<1>1. p \in [at : {"idle", "asked", "listed"}, list : SUBSET (Id \X Stamp)] /\ p.at = at /\ p.list = list
  OBVIOUS
<1>2. poll' = [poll EXCEPT ![s] = p]
  OBVIOUS
<1> HIDE DEF p
<1> QED
  BY <1>1, <1>2 DEF PollType, Unambiguous

\* What becomes of a poll, step by step.
LEMMA PollSteps ==
  ASSUME PInv, PollType, NEW s \in Scheduler
  PROVE  /\ PollPeer(s) =>
              PollType' /\ poll'[s].at = "asked" /\ poll'[s].list = {}
         /\ ServeDecisions(s) =>
              PollType' /\ poll'[s].at = "listed" /\ poll'[s].list = OpenList
         /\ RecordPeerPoll(s) \/ RecordPeerFailure(s) \/ Stop(s) =>
              PollType' /\ poll'[s].at = "idle" /\ poll'[s].list = {}
         /\ PollPeer(s) \/ ServeDecisions(s) \/ RecordPeerPoll(s) \/ RecordPeerFailure(s) \/ Stop(s)
              => \A t \in Scheduler : t # s => poll'[t] = poll[t]
<1>0. {} \in SUBSET (Id \X Stamp) /\ Unambiguous({})
  BY DEF Unambiguous
<1>1. ASSUME PollPeer(s)
      PROVE  /\ PollType' /\ poll'[s].at = "asked" /\ poll'[s].list = {}
             /\ \A t \in Scheduler : t # s => poll'[t] = poll[t]
  <2>1. poll' = [poll EXCEPT ![s] = [at |-> "asked", list |-> {}]]
    <3>1. poll[s] = [at |-> "idle", list |-> {}] /\ poll' = [poll EXCEPT ![s].at = "asked"]
      BY <1>1 DEF PollPeer, Idle
    <3>2. [poll[s] EXCEPT !.at = "asked"] = [at |-> "asked", list |-> {}]
      BY <3>1
    <3> QED
      BY <3>1, <3>2
  <2> QED
    BY <2>1, <1>0, PollStep
<1>2. ASSUME ServeDecisions(s)
      PROVE  /\ PollType' /\ poll'[s].at = "listed" /\ poll'[s].list = OpenList
             /\ \A t \in Scheduler : t # s => poll'[t] = poll[t]
  <2>1. PInv'
    BY <1>2, SyncStep DEF ServeDecisions
  <2>2. /\ DOMAIN esc' = 1..Len(esc') /\ Len(esc') <= MaxStamp /\ Len(esc') \in Nat
        /\ \A i \in 1..Len(esc') : esc'[i] \in Escalation
    BY <2>1, Lengths DEF PInv, PeerType
  <2>3. \A i \in DOMAIN esc' : i \in Id /\ esc'[i].stamp \in Stamp
    BY <2>2, RelayAssumption DEF Id, Escalation
  <2>4. OpenList \in SUBSET (Id \X Stamp) /\ Unambiguous(OpenList)
    BY <2>3 DEF OpenList, Unambiguous
  <2>5. poll' = [poll EXCEPT ![s] = [at |-> "listed", list |-> OpenList]]
    BY <1>2 DEF ServeDecisions
  <2> QED
    BY <2>4, <2>5, PollStep
<1>3. ASSUME RecordPeerPoll(s) \/ RecordPeerFailure(s) \/ Stop(s)
      PROVE  /\ PollType' /\ poll'[s].at = "idle" /\ poll'[s].list = {}
             /\ \A t \in Scheduler : t # s => poll'[t] = poll[t]
  <2>1. poll' = [poll EXCEPT ![s] = [at |-> "idle", list |-> {}]]
    BY <1>3 DEF RecordPeerPoll, RecordPeerFailure, Stop, Idle
  <2> QED
    BY <2>1, <1>0, PollStep
<1> QED
  BY <1>1, <1>2, <1>3

\* What the other steps do to the row.
LEMMA RowSteps ==
  ASSUME RowType
  PROVE  /\ RetirePeer \/ MarkPeerLive \/ (\E s \in Scheduler : RecordPeerFailure(s)) =>
              row' \in Row /\ row'.cursor = row.cursor /\ row'.reset = row.reset
         /\ RegisterPeer => row' \in Row /\ row'.cursor = 0 /\ ~row'.reset
         /\ \A s \in Scheduler : RecordPeerPoll(s) /\ ~Polled => row' = row
<1>1. ASSUME RetirePeer \/ MarkPeerLive
      PROVE  row' \in Row /\ row'.cursor = row.cursor /\ row'.reset = row.reset
  <2>1. 0 \in 0..After
    BY RelayAssumption
  <2> QED
    BY <1>1, <2>1 DEF RetirePeer, MarkPeerLive, RowType, Row
<1>2. ASSUME NEW s \in Scheduler, RecordPeerFailure(s)
      PROVE  row' \in Row /\ row'.cursor = row.cursor /\ row'.reset = row.reset
  <2>1. CASE ~Polled
    BY <1>2, <2>1 DEF RecordPeerFailure, RowType
  <2>2. CASE Polled
    <3> DEFINE n == IF row.fails < After THEN row.fails + 1 ELSE row.fails
               st == IF row.status = "live" /\ row.fails + 1 >= After THEN "unreachable" ELSE row.status
    <3>1. row' = [row EXCEPT !.fails = n, !.status = st]
      BY <1>2, <2>2 DEF RecordPeerFailure
    <3>2. n \in 0..After /\ st \in {"provisioning", "live", "unreachable", "retired"}
      BY RelayAssumption DEF RowType, Row
    <3> HIDE DEF n, st
    <3> QED
      BY <3>1, <3>2 DEF RowType, Row
  <2> QED
    BY <2>1, <2>2
<1>3. ASSUME RegisterPeer PROVE row' \in Row /\ row'.cursor = 0 /\ ~row'.reset
  <2>1. 0 \in 0..MaxStamp /\ 0 \in 0..After
    BY RelayAssumption
  <2>2. row' = [status |-> "provisioning", cursor |-> 0, fails |-> 0, reset |-> FALSE, bad |-> FALSE]
    BY <1>3, Zenon DEF RegisterPeer, NewRow
  <2> QED
    BY <2>1, <2>2, RowMade, Zenon
<1>4. ASSUME NEW s \in Scheduler, RecordPeerPoll(s), ~Polled PROVE row' = row
  BY <1>4 DEF RecordPeerPoll
<1> QED
  BY <1>1, <1>2, <1>3, <1>4

LEMMA TypeStep ==
  ASSUME PInv, ParentType, [Next]_vars
  PROVE  ParentType'
<1> USE DEF ParentType
<1>0. events + 1 \in 0..MaxEvents \/ ~(events < MaxEvents)
  BY RelayAssumption DEF RowType
<1>1. CASE UNCHANGED <<row, open, told, back, poll, events>>
  <2>1. PollType' <=> PollType
    BY <1>1 DEF PollType, Unambiguous
  <2>2. OpenType' <=> OpenType
    BY <1>1 DEF OpenType, Unambiguous
  <2>3. RowType' <=> RowType
    BY <1>1 DEF RowType
  <2> QED
    BY <2>1, <2>2, <2>3
<1>2. CASE Recreated
  <2>1. UNCHANGED <<row, open, told, poll>> /\ back' = TRUE /\ events' \in 0..MaxEvents
    BY <1>0, <1>2 DEF Recreated, Event
  <2>2. PollType' <=> PollType
    BY <2>1 DEF PollType, Unambiguous
  <2>3. OpenType' <=> OpenType
    BY <2>1 DEF OpenType, Unambiguous
  <2> QED
    BY <2>1, <2>2, <2>3 DEF RowType
<1>3. CASE RetirePeer \/ MarkPeerLive
  <2>1. UNCHANGED <<open, told, back, poll>> /\ events' \in 0..MaxEvents
    BY <1>0, <1>3 DEF RetirePeer, MarkPeerLive, Event, RowType
  <2>2. row' \in Row /\ row'.cursor = row.cursor
    BY <1>3, RowSteps
  <2>3. PollType' <=> PollType
    BY <2>1 DEF PollType, Unambiguous
  <2>4. OpenType'
    BY <2>1, <2>2 DEF OpenType, Unambiguous
  <2> QED
    BY <2>1, <2>2, <2>3, <2>4 DEF RowType
<1>4. CASE RegisterPeer
  <2>1. open' = {} /\ told' = {} /\ UNCHANGED <<back, poll>> /\ events' \in 0..MaxEvents
    BY <1>0, <1>4 DEF RegisterPeer, Event, RowType
  <2>2. row' \in Row
    BY <1>4, RowSteps
  <2>3. PollType' <=> PollType
    BY <2>1 DEF PollType, Unambiguous
  <2>4. OpenType'
    BY <2>1 DEF OpenType, Unambiguous
  <2> QED
    BY <2>1, <2>2, <2>3, <2>4 DEF RowType
<1>5. ASSUME NEW s \in Scheduler, PollPeer(s) \/ ServeDecisions(s) \/ Stop(s)
      PROVE  ParentType'
  <2>1. UNCHANGED <<row, open, told, back>> /\ events' \in 0..MaxEvents
    BY <1>0, <1>5 DEF PollPeer, ServeDecisions, Stop, Event, RowType, parent
  <2>2. PollType'
    BY <1>5, PollSteps
  <2>3. OpenType' <=> OpenType
    BY <2>1 DEF OpenType, Unambiguous
  <2> QED
    BY <2>1, <2>2, <2>3 DEF RowType
<1>6. ASSUME NEW s \in Scheduler, RecordPeerFailure(s)
      PROVE  ParentType'
  <2>1. UNCHANGED <<open, told, back, events>>
    BY <1>6 DEF RecordPeerFailure
  <2>2. PollType' /\ row' \in Row /\ row'.cursor = row.cursor
    BY <1>6, PollSteps, RowSteps
  <2>3. OpenType'
    BY <2>1, <2>2 DEF OpenType, Unambiguous
  <2> QED
    BY <2>1, <2>2, <2>3 DEF RowType
<1>7. ASSUME NEW s \in Scheduler, RecordPeerPoll(s)
      PROVE  ParentType'
  <2>1. UNCHANGED <<back, events>> /\ PollType'
    BY <1>7, PollSteps DEF RecordPeerPoll
  <2>2. CASE ~Polled
    <3>1. UNCHANGED <<row, open, told>>
      BY <1>7, <2>2 DEF RecordPeerPoll
    <3>2. OpenType' <=> OpenType
      BY <3>1 DEF OpenType, Unambiguous
    <3> QED
      BY <2>1, <3>1, <3>2 DEF RowType
  <2>3. CASE Polled
    <3> DEFINE raised == StillOpen(poll[s].list) \cup Raise(s)
               stamps == {e[2] : e \in Raise(s)}
    <3>1. /\ open' = raised /\ told' = told \cup stamps
          /\ row' = [status |-> "live", cursor |-> Cursor(s), fails |-> 0,
                     reset |-> Regressed(s), bad |-> Refused(s) # {}]
      BY <1>7, <2>3, Recorded
    <3>2. row' \in Row /\ row'.cursor = Cursor(s)
      <4>1. Regressed(s) \in BOOLEAN /\ (Refused(s) # {}) \in BOOLEAN
        BY Zenon DEF Regressed
      <4>2. Cursor(s) \in 0..MaxStamp /\ 0 \in 0..After
        BY RaiseFacts, RelayAssumption
      <4> QED
        BY <3>1, <4>1, <4>2, RowMade, Zenon
    <3>3. /\ raised \subseteq poll[s].list /\ Raise(s) \subseteq poll[s].list
          /\ poll[s].list \subseteq Id \X Stamp
          /\ \A e \in raised : e[1] <= Cursor(s)
      BY RaiseFacts
    <3>4. stamps \subseteq Stamp
      BY <3>3
    <3>5. Unambiguous(poll[s].list)
      BY DEF PollType
    <3> HIDE DEF raised, stamps
    <3>6. OpenType'
      <4>1. open' \subseteq Id \X Stamp /\ Unambiguous(open')
        BY <3>1, <3>3, <3>5 DEF Unambiguous
      <4>2. \A e \in open' : e[1] <= row'.cursor
        BY <3>1, <3>2, <3>3
      <4> QED
        BY <4>1, <4>2 DEF OpenType, Unambiguous
    <3>7. told' \subseteq Stamp
      BY <3>1, <3>4 DEF RowType
    <3> QED
      BY <2>1, <3>2, <3>6, <3>7 DEF RowType
  <2> QED
    BY <2>2, <2>3
<1>8. CASE UNCHANGED vars
  BY <1>1, <1>8 DEF vars, parent
<1> QED
  BY <1>1, <1>2, <1>3, <1>4, <1>5, <1>6, <1>7, <1>8, Cases, Alone

LEMMA ParentInitially == Init => ParentType
<1> SUFFICES ASSUME Init PROVE ParentType
  OBVIOUS
<1>1. /\ row = [NewRow EXCEPT !.status = "live"] /\ open = {} /\ told = {}
      /\ back = FALSE /\ events = 0 /\ poll = [s \in Scheduler |-> Idle]
  BY DEF Init
<1>2. row \in Row
  <2>1. 0 \in 0..MaxStamp /\ 0 \in 0..After
    BY RelayAssumption
  <2>2. row = [status |-> "live", cursor |-> 0, fails |-> 0, reset |-> FALSE, bad |-> FALSE]
    BY <1>1 DEF NewRow
  <2> QED
    BY <2>1, <2>2, RowMade, Zenon
<1>3. PollType
  BY <1>1, IdleType DEF PollType
<1>4. OpenType
  BY <1>1 DEF OpenType, Unambiguous
<1>5. back \in BOOLEAN
  BY <1>1, Zenon
<1>6. events \in 0..MaxEvents
  BY <1>1, RelayAssumption
<1> QED
  BY <1>1, <1>2, <1>3, <1>4, <1>5, <1>6 DEF ParentType, RowType

LEMMA Types == Spec => [](PInv /\ ParentType)
<1>1. Init => PInv /\ ParentType
  BY Initially, ParentInitially
<1>2. PInv /\ ParentType /\ [Next]_vars => (PInv /\ ParentType)'
  BY PeerStep, TypeStep
<1> QED
  BY <1>1, <1>2, PTL DEF Spec

\* The types of both sides; in particular an id is listed, raised and open under one
\* stamp at a time, and never above the cursor, also after ids went back (peerpoll.go).
THEOREM TypeCorrect == Spec => []TypeOK
<1>1. PInv /\ ParentType => TypeOK
  BY DEF PInv, PeerType, ParentType, PollType, OpenType, RowType, Unambiguous, TypeOK
<1> QED
  BY Types, <1>1, PTL

\* A poll becomes a list in the step that reads the table.
LEMMA ListedByServe ==
  ASSUME PInv, ParentType, [Next]_vars,
         NEW s \in Scheduler, poll[s].at = "asked", poll'[s].at = "listed"
  PROVE  ServeDecisions(s)
<1>1. poll' # poll
  OBVIOUS
<1>2. PICK t \in Scheduler : \/ PollPeer(t) \/ ServeDecisions(t) \/ RecordPeerPoll(t)
                             \/ RecordPeerFailure(t) \/ Stop(t)
  BY <1>1, Cases, Alone, Zenon DEF Recreated, RetirePeer, RegisterPeer, MarkPeerLive, vars
<1>3. PollType
  BY DEF ParentType
<1>4. t = s
  BY <1>2, <1>3, PollSteps
<1> QED
  BY <1>2, <1>3, <1>4, PollSteps

\* A waiting task is never left out of a list, whatever became of its earlier questions
\* (escalation.go, SyncApprovalEscalations).
THEOREM WaitingIsListedCorrect == Spec => WaitingIsListed
<1>1. ASSUME PInv, ParentType, [Next]_vars, NEW s \in Scheduler,
             poll[s].at = "asked", poll'[s].at = "listed", Waiting, stamp' < MaxStamp
      PROVE  \E i \in DOMAIN esc' :
               /\ Approval(esc'[i])
               /\ \/ <<i, esc'[i].stamp>> \in poll'[s].list
                  \/ esc'[i].status = "answered" /\ esc'[i].episode = task.episode
  <2>1. ServeDecisions(s)
    BY <1>1, ListedByServe
  <2>2. poll'[s].list = OpenList /\ SyncApprovalEscalations /\ UNCHANGED <<task, ledger, woken>>
    BY <1>1, <2>1, PollSteps DEF ParentType, ServeDecisions
  <2>3. PInv'
    BY <1>1, PeerStep
  <2>4. /\ DOMAIN esc' = 1..Len(esc') /\ Len(esc) \in Nat /\ stamp \in Nat
        /\ task.episode \in Nat /\ task.episode >= 1
    BY <1>1, <2>3, Lengths, EpisodeRange DEF PInv, PeerType, EscInv, Waiting
  <2>5. \A i \in DOMAIN esc' : esc'[i].status = "open" => <<i, esc'[i].stamp>> \in poll'[s].list
    BY <2>2 DEF OpenList
  <2>6. CASE Waiting /\ ~Asked(Resolved) /\ stamp < MaxStamp
    <3>1. esc' = Append(Resolved, New(task.episode)) /\ stamp' = stamp + 1
      BY <2>2, <2>6 DEF SyncApprovalEscalations
    <3>2. Closed(Resolved)
      BY <1>1, ResolvedFacts DEF PInv, Closed
    <3>3. Added(Resolved, task.episode)
      BY <2>4, <2>6, <3>1 DEF Added
    <3>4. /\ esc'[Len(esc) + 1].status = "open" /\ esc'[Len(esc) + 1].episode = task.episode
          /\ Len(esc') = Len(esc) + 1
      BY <1>1, <3>2, <3>3, AddedFacts
    <3>5. Len(esc) + 1 \in DOMAIN esc'
      BY <2>4, <3>4
    <3> QED
      BY <2>4, <2>5, <3>4, <3>5 DEF Approval
  <2>7. CASE ~(Waiting /\ ~Asked(Resolved) /\ stamp < MaxStamp)
    <3>1. esc' = Resolved /\ stamp' = stamp
      BY <2>2, <2>7 DEF SyncApprovalEscalations
    <3>2. Asked(esc')
      BY <1>1, <2>7, <3>1, <2>2 DEF Asked
    <3>3. PICK i \in DOMAIN esc' :
            Approval(esc'[i]) /\ (esc'[i].status = "open" \/ esc'[i].episode = task.episode)
      BY <3>2 DEF Asked
    <3>4. esc'[i].status \in {"open", "answered", "resolved"}
      <4>1. esc'[i] \in Escalation
        BY <2>3, <2>4, <3>3, ElementOfSeq DEF PInv, PeerType
      <4> QED
        BY <4>1 DEF Escalation
    <3>5. CASE esc'[i].status = "resolved"
      <4>1. esc'[i].episode = task'.episode /\ Approval(esc'[i]) /\ i \in 1..Len(esc')
        BY <2>2, <2>4, <3>3, <3>5
      <4>2. Over'
        BY <2>3, <3>5, <4>1 DEF PInv, ResolvedInv, Approval
      <4> QED
        BY <1>1, <2>2, <4>2 DEF Over, Waiting
    <3> QED
      BY <2>5, <3>3, <3>4, <3>5
  <2> QED
    BY <2>6, <2>7
<1>2. PInv /\ ParentType /\ [Next]_vars =>
        [\A s \in Scheduler :
           poll[s].at = "asked" /\ poll'[s].at = "listed" /\ Waiting /\ stamp' < MaxStamp =>
             \E i \in DOMAIN esc' :
               /\ Approval(esc'[i])
               /\ \/ <<i, esc'[i].stamp>> \in poll'[s].list
                  \/ esc'[i].status = "answered" /\ esc'[i].episode = task.episode]_vars
  BY <1>1
<1> QED
  BY Types, <1>2, PTL DEF Spec, WaitingIsListed

-----------------------------------------------------------------------------
(* The parent, with one scheduler *)

\* What was raised and is still open is known to be so.
Raised ==
  /\ \A e \in open : e[2] \in told
  /\ \A n \in told : n <= stamp
  /\ \A i \in 1..Len(esc) :
       esc[i].status = "open" /\ esc[i].stamp \in told => <<i, esc[i].stamp>> \in open

\* A list on its way tells open from raised, and leaves out nothing that was.
Fresh(s) ==
  /\ poll[s].at # "listed" => poll[s].list = {}
  /\ \A e \in poll[s].list : e[2] <= stamp
  /\ \A e \in poll[s].list : e[2] \in told => e \in open
  /\ \A e \in poll[s].list : \A i \in 1..Len(esc) : e[2] = esc[i].stamp => e[1] = i
  /\ poll[s].at = "listed" =>
       \A i \in 1..Len(esc) :
         esc[i].status = "open" /\ esc[i].stamp \in told => <<i, esc[i].stamp>> \in poll[s].list

\* Of a store that was never lost, all that is open up to the cursor was raised.
Steady ==
  ~back =>
    /\ row.cursor <= Len(esc)
    /\ \A i \in 1..Len(esc) :
         esc[i].status = "open" /\ i <= row.cursor => <<i, esc[i].stamp>> \in open

\* And a list of it has no gaps.
SteadyList(s) ==
  ~back =>
    /\ \A e \in poll[s].list : e[1] <= Len(esc)
    /\ \A e \in poll[s].list : e[1] <= row.cursor => e \in open
    /\ \A e \in poll[s].list : \A i \in 1..Len(esc) :
         esc[i].status = "open" /\ i <= e[1] => <<i, esc[i].stamp>> \in poll[s].list
    /\ poll[s].at = "listed" =>
         \A i \in 1..Len(esc) :
           esc[i].status = "open" /\ i <= row.cursor => <<i, esc[i].stamp>> \in poll[s].list

OneInv == Raised /\ Steady /\ ResetJustified /\ \A s \in Scheduler : Fresh(s) /\ SteadyList(s)

\* The table grows, the parent knows no more than it did.
LEMMA RaisedGrown ==
  ASSUME PInv, PInv', Grown, ParentType, Raised, Steady, UNCHANGED <<row, open, told, back>>
  PROVE  Raised' /\ Steady'
<1>1. /\ Len(esc) \in Nat /\ stamp \in Nat /\ row.cursor \in Nat
      /\ \A n \in told : n \in Nat
      /\ \A i \in 1..Len(esc') : i \in 1..Len(esc) \/ i = Len(esc) + 1
  BY Lengths, RelayAssumption DEF PInv, PeerType, ParentType, RowType, Row, Stamp, Grown
<1>2. \A i \in 1..Len(esc') : i \notin 1..Len(esc) => esc'[i].stamp \notin told /\ ~(i <= row.cursor /\ ~back)
  BY <1>1 DEF Grown, Raised, Steady
<1>3. Raised'
  BY <1>1, <1>2 DEF Grown, Raised
<1>4. Steady'
  BY <1>1, <1>2 DEF Grown, Steady
<1> QED
  BY <1>3, <1>4

\* A list that was taken before stays right.
LEMMA FreshGrown ==
  ASSUME PInv, Grown, ParentType, NEW s \in Scheduler, Raised, Steady, Fresh(s), SteadyList(s),
         UNCHANGED <<row, open, told, back, poll>>
  PROVE  Fresh(s)' /\ SteadyList(s)'
<1>1. /\ Len(esc) \in Nat /\ stamp \in Nat /\ row.cursor \in Nat
      /\ \A n \in told : n \in Nat
      /\ \A e \in poll[s].list : e[1] \in Nat /\ e[2] \in Nat
      /\ \A i \in 1..Len(esc') : i \in 1..Len(esc) \/ i = Len(esc) + 1
  BY Lengths, RelayAssumption
     DEF PInv, PeerType, ParentType, RowType, Row, Stamp, Grown, PollType, Id
<1>2. \A i \in 1..Len(esc') : i \notin 1..Len(esc) =>
        /\ esc'[i].stamp \notin told /\ ~(i <= row.cursor /\ ~back)
        /\ \A e \in poll[s].list : e[2] # esc'[i].stamp /\ ~(i <= e[1] /\ ~back)
  BY <1>1 DEF Grown, Raised, Steady, Fresh, SteadyList
<1>3. Fresh(s)'
  <2>1. \A e \in poll[s].list : e[2] <= stamp'
    BY <1>1 DEF Grown, Fresh
  <2>2. ASSUME NEW e \in poll[s].list, NEW i \in 1..Len(esc'), e[2] = esc'[i].stamp
        PROVE  e[1] = i
    <3>1. i \in 1..Len(esc)
      BY <1>2, <2>2
    <3>2. esc'[i].stamp = esc[i].stamp
      BY <3>1 DEF Grown
    <3> QED
      BY <2>2, <3>1, <3>2 DEF Fresh
  <2>3. ASSUME NEW i \in 1..Len(esc'), poll[s].at = "listed",
               esc'[i].status = "open", esc'[i].stamp \in told
        PROVE  <<i, esc'[i].stamp>> \in poll[s].list
    <3>1. i \in 1..Len(esc)
      BY <1>2, <2>3
    <3>2. esc[i].status = "open" /\ esc'[i].stamp = esc[i].stamp
      BY <2>3, <3>1 DEF Grown
    <3> QED
      BY <2>3, <3>1, <3>2 DEF Fresh
  <2> QED
    BY <2>1, <2>2, <2>3 DEF Fresh
<1>4. SteadyList(s)'
  <2>1. ASSUME ~back
        PROVE  /\ \A e \in poll[s].list : e[1] <= Len(esc')
               /\ \A e \in poll[s].list : e[1] <= row.cursor => e \in open
    BY <1>1, <2>1 DEF Grown, SteadyList
  <2>2. ASSUME ~back, NEW i \in 1..Len(esc'), esc'[i].status = "open",
               \/ poll[s].at = "listed" /\ i <= row.cursor
               \/ \E e \in poll[s].list : i <= e[1]
        PROVE  <<i, esc'[i].stamp>> \in poll[s].list
    <3>1. i \in 1..Len(esc)
      BY <1>2, <2>2
    <3>2. esc[i].status = "open" /\ esc'[i].stamp = esc[i].stamp
      BY <2>2, <3>1 DEF Grown
    <3> QED
      BY <2>2, <3>1, <3>2 DEF SteadyList
  <2> QED
    BY <2>1, <2>2 DEF SteadyList
<1> QED
  BY <1>3, <1>4

\* A list that is taken now.
LEMMA FreshServed ==
  ASSUME PInv, PInv', ParentType, NEW s \in Scheduler, Raised', Steady',
         poll'[s].at = "listed", poll'[s].list = OpenList
  PROVE  Fresh(s)' /\ SteadyList(s)'
<1>1. DOMAIN esc' = 1..Len(esc') /\ Len(esc') \in Nat
  BY LenProperties DEF PInv, PeerType
<1>2. \A e \in poll'[s].list :
        /\ e[1] \in 1..Len(esc') /\ e = <<e[1], esc'[e[1]].stamp>> /\ esc'[e[1]].status = "open"
  BY <1>1 DEF OpenList
<1>3. \A i \in 1..Len(esc') : esc'[i].status = "open" => <<i, esc'[i].stamp>> \in poll'[s].list
  BY <1>1 DEF OpenList
<1>4. Fresh(s)'
  BY <1>1, <1>2, <1>3 DEF Fresh, Raised, PInv, EscInv
<1>5. SteadyList(s)'
  <2>1. \A e \in poll'[s].list : e[1] <= Len(esc')
    BY <1>1, <1>2
  <2>2. ~back' => \A e \in poll'[s].list : e[1] <= row'.cursor => e \in open'
    BY <1>2 DEF Steady
  <2> QED
    BY <1>3, <2>1, <2>2 DEF SteadyList
<1> QED
  BY <1>4, <1>5

\* Nothing that the invariant speaks of changes, but a poll may end.
LEMMA QuietStep ==
  ASSUME PInv, ParentType, OneInv, UNCHANGED peer, UNCHANGED <<open, told, back>>,
         row'.cursor = row.cursor, row'.reset = row.reset,
         \A s \in Scheduler : \/ poll'[s] = poll[s]
                              \/ poll'[s].list = {} /\ poll'[s].at # "listed"
  PROVE  OneInv'
<1>1. UNCHANGED <<esc, stamp>>
  BY DEF peer
<1>2. Raised' /\ Steady'
  BY <1>1 DEF OneInv, Raised, Steady
<1>3. ResetJustified'
  BY Zenon DEF OneInv, ResetJustified
<1>4. ASSUME NEW s \in Scheduler PROVE Fresh(s)' /\ SteadyList(s)'
  <2>1. Fresh(s) /\ SteadyList(s)
    BY DEF OneInv
  <2>2. CASE poll'[s] = poll[s]
    BY <1>1, <2>1, <2>2 DEF Fresh, SteadyList
  <2>3. CASE poll'[s].list = {} /\ poll'[s].at # "listed"
    BY <2>3 DEF Fresh, SteadyList
  <2> QED
    BY <2>2, <2>3
<1> QED
  BY <1>2, <1>3, <1>4 DEF OneInv

\* Nothing is told of yet, and the cursor is at the start.
LEMMA RegisterStep ==
  ASSUME PInv, ParentType, OneInv, RegisterPeer
  PROVE  OneInv'
<1>1. /\ UNCHANGED <<esc, stamp, back, poll>> /\ open' = {} /\ told' = {}
      /\ row'.cursor = 0
  BY RowSteps DEF ParentType, RegisterPeer, peer
<1>2. ~row'.reset
  BY RowSteps, Zenon DEF ParentType
<1>3. Len(esc) \in Nat /\ \A i \in 1..Len(esc) : ~(i <= 0)
  BY Lengths DEF PInv
<1>4. Raised' /\ Steady'
  BY <1>1, <1>3 DEF Raised, Steady
<1>5. ResetJustified'
  BY <1>2, Zenon DEF ResetJustified
<1>6. ASSUME NEW s \in Scheduler PROVE Fresh(s)' /\ SteadyList(s)'
  <2>1. Fresh(s) /\ SteadyList(s) /\ \A e \in poll[s].list : e[1] \in Nat /\ ~(e[1] <= 0)
    BY RelayAssumption DEF OneInv, ParentType, PollType, Id
  <2> QED
    BY <1>1, <1>3, <2>1 DEF Fresh, SteadyList
<1> QED
  BY <1>4, <1>5, <1>6 DEF OneInv

\* The table is lost with all that was open in it.
LEMMA LossStep ==
  ASSUME PInv, ParentType, OneInv, Recreated
  PROVE  OneInv'
<1>1. UNCHANGED <<stamp, row, open, told, poll>> /\ esc' = <<>> /\ back' = TRUE
  BY DEF Recreated
<1>2. \A i \in 1..Len(esc') : FALSE
  BY <1>1
<1>3. back'
  BY <1>1
<1>4. Raised' /\ Steady' /\ ResetJustified'
  BY <1>1, <1>2, <1>3 DEF OneInv, Raised, Steady, ResetJustified
<1>5. ASSUME NEW s \in Scheduler PROVE Fresh(s)' /\ SteadyList(s)'
  <2>1. Fresh(s)
    BY DEF OneInv
  <2> QED
    BY <1>1, <1>2, <1>3, <2>1 DEF Fresh, SteadyList
<1> QED
  BY <1>4, <1>5 DEF OneInv

\* What is below something lowest is too.
LEMMA LowestDown ==
  ASSUME NEW S \in SUBSET (Id \X Stamp), NEW n \in Nat, NEW e \in Lowest(S, n), NEW f \in S,
         f[1] <= e[1]
  PROVE  f \in Lowest(S, n)
<1> DEFINE Below(g) == {h \in S : h[1] < g[1]}
<1>1. IsFiniteSet(S)
  <2>1. IsFiniteSet(Id) /\ IsFiniteSet(Stamp)
    BY FS_Interval, RelayAssumption DEF Id, Stamp
  <2> QED
    BY <2>1, FS_Product, FS_Subset
<1>2. IsFiniteSet(Below(e)) /\ IsFiniteSet(Below(f)) /\ Below(f) \subseteq Below(e)
  <2>1. \A h \in S : h[1] \in Nat
    BY RelayAssumption DEF Id
  <2>2. e \in S
    BY DEF Lowest
  <2>3. \A h \in S : h[1] < f[1] => h[1] < e[1]
    BY <2>1, <2>2
  <2> QED
    BY <1>1, <2>3, FS_Subset
<1>3. Cardinality(Below(f)) <= Cardinality(Below(e))
  BY <1>2, FS_Subset
<1>4. Cardinality(Below(f)) \in Nat /\ Cardinality(Below(e)) \in Nat
  BY <1>2, FS_CardinalityType
<1>5. Cardinality(Below(e)) < n
  BY DEF Lowest
<1>6. Cardinality(Below(f)) < n
  BY <1>3, <1>4, <1>5
<1> QED
  BY <1>6 DEF Lowest

LEMMA LowestSome ==
  ASSUME NEW S \in SUBSET (Id \X Stamp), S # {}, NEW n \in Nat \ {0}
  PROVE  Lowest(S, n) # {}
<1> DEFINE Ids == {e[1] : e \in S}
<1>1. Ids \subseteq Nat /\ Ids # {}
  BY RelayAssumption DEF Id
<1>2. PICK d \in Ids : \A i \in Ids : ~(<<i, d>> \in OpToRel(<, Nat))
  BY <1>1, NatLessThanWellFounded, WFMin
<1>3. PICK e \in S : d = e[1]
  BY <1>2
<1>4. \A f \in S : f[1] \in Ids
  OBVIOUS
<1>5. \A f \in S : ~(f[1] < e[1])
  BY <1>1, <1>2, <1>3, <1>4 DEF OpToRel
<1>6. {f \in S : f[1] < e[1]} = {}
  BY <1>5
<1>7. Cardinality({f \in S : f[1] < e[1]}) < n
  BY <1>6, FS_EmptySet
<1> QED
  BY <1>7 DEF Lowest

\* What is raised is listed, was not open, and was never told.
LEMMA RaiseNew ==
  ASSUME ParentType, NEW s \in Scheduler, Fresh(s)
  PROVE  /\ \A e \in Raise(s) : e \in poll[s].list /\ e \notin open /\ e[2] \notin told
         /\ StillOpen(poll[s].list) = open \cap poll[s].list
BY RaiseFacts DEF Unseen, StillOpen, Fresh

\* A list that is recorded, with no other in flight.
LEMMA RecordStep ==
  ASSUME PInv, ParentType, OneInv, NEW s \in Scheduler, \A t \in Scheduler : t = s,
         RecordPeerPoll(s), Polled
  PROVE  OneInv'
<1> DEFINE list == poll[s].list
<1>1. /\ Raised /\ Steady /\ ResetJustified /\ Fresh(s) /\ SteadyList(s)
      /\ poll[s].at = "listed"
  BY DEF OneInv, RecordPeerPoll
<1>2. /\ open' = (open \cap list) \cup Raise(s)
      /\ told' = told \cup {e[2] : e \in Raise(s)}
      /\ UNCHANGED <<esc, stamp, back>>
  BY <1>1, Recorded, RaiseNew DEF RecordPeerPoll, peer
<1>3. row'.cursor = Cursor(s) /\ row'.reset = Regressed(s)
  <2>1. row' = [status |-> "live", cursor |-> Cursor(s), fails |-> 0,
                reset |-> Regressed(s), bad |-> Refused(s) # {}]
    BY Recorded
  <2> QED
    BY <2>1, Zenon
<1>4. \A e \in Raise(s) : e \in list /\ e \notin open /\ e[2] \notin told
  BY <1>1, RaiseNew
<1>5. /\ list \subseteq Id \X Stamp
      /\ \A e \in list : e[1] \in Nat /\ e[1] > 0
      /\ Len(esc) \in Nat /\ stamp \in Nat /\ row.cursor \in Nat /\ Cursor(s) \in Nat
  BY Lengths, RaiseFacts, RelayAssumption DEF ParentType, PollType, RowType, Row, Id, PInv, PeerType
<1> HIDE DEF list
<1>6. Raised'
  <2>1. \A e \in open' : e[2] \in told'
    BY <1>1, <1>2 DEF Raised
  <2>2. \A n \in told' : n <= stamp'
    BY <1>1, <1>2, <1>4 DEF Raised, Fresh, list
  <2>3. ASSUME NEW i \in 1..Len(esc), esc[i].status = "open", esc[i].stamp \in told'
        PROVE  <<i, esc[i].stamp>> \in open'
    <3>1. CASE esc[i].stamp \in told
      BY <1>1, <1>2, <2>3, <3>1 DEF Raised, Fresh, list
    <3>2. ASSUME NEW e \in Raise(s), esc[i].stamp = e[2]
          PROVE  <<i, esc[i].stamp>> \in open'
      <4>1. e[1] = i /\ e \in Id \X Stamp
        BY <1>1, <1>4, <1>5, <3>2 DEF Fresh, list
      <4>2. e = <<i, esc[i].stamp>>
        BY <3>2, <4>1
      <4> QED
        BY <1>2, <4>2
    <3> QED
      BY <1>2, <2>3, <3>1, <3>2
  <2> QED
    BY <1>2, <2>1, <2>2, <2>3 DEF Raised
<1>7. ~back => ~Regressed(s)
  BY <1>1 DEF Regressed, Unseen, SteadyList
<1>8. Steady'
  <2> SUFFICES ASSUME ~back
               PROVE  /\ Cursor(s) <= Len(esc)
                      /\ \A i \in 1..Len(esc) :
                           esc[i].status = "open" /\ i <= Cursor(s) => <<i, esc[i].stamp>> \in open'
    BY <1>2, <1>3 DEF Steady
  <2>1. Base(s) = row.cursor
    BY <1>7 DEF Base
  <2>2. Cursor(s) = row.cursor \/ \E e \in Raise(s) : e[1] = Cursor(s)
    BY <2>1, RaiseFacts
  <2>3. Cursor(s) <= Len(esc)
    BY <1>1, <1>4, <2>2 DEF Steady, SteadyList, list
  <2>4. ASSUME NEW i \in 1..Len(esc), esc[i].status = "open", i <= Cursor(s)
        PROVE  <<i, esc[i].stamp>> \in open'
    <3> DEFINE f == <<i, esc[i].stamp>>
    <3>1. CASE i <= row.cursor
      BY <1>1, <1>2, <2>4, <3>1 DEF Steady, SteadyList, list
    <3>2. CASE ~(i <= row.cursor)
      <4>1. PICK e \in Raise(s) : e[1] = Cursor(s)
        BY <2>2, <2>4, <3>2
      <4>2. f \in list
        BY <1>1, <1>4, <2>4, <4>1 DEF SteadyList, list
      <4>3. f \notin open
        BY <3>2 DEF ParentType, OpenType
      <4>4. f \in Unseen(list) \ Refused(s)
        <5>1. e \in Unseen(list) /\ e \notin Refused(s)
          BY <4>1, RaiseFacts DEF list
        <5>2. f \in Unseen(list)
          BY <4>2, <4>3 DEF Unseen
        <5>3. f[1] = i /\ i \in Nat
          BY <1>5
        <5>4. f[1] - row.cursor > MaxJump => e[1] - row.cursor > MaxJump
          BY <1>5, <2>4, <4>1, <5>3, RelayAssumption
        <5> QED
          BY <5>1, <5>2, <5>4 DEF Refused, list
      <4>5. /\ Unseen(list) \ Refused(s) \in SUBSET (Id \X Stamp) /\ MaxRaise \in Nat
            /\ e \in Lowest(Unseen(list) \ Refused(s), MaxRaise) /\ f[1] <= e[1]
        BY <1>5, <2>4, <4>1, RelayAssumption DEF Unseen, Raise, list
      <4>6. f \in Raise(s)
        BY <4>4, <4>5, LowestDown DEF Raise, list
      <4> QED
        BY <1>2, <4>6
    <3> QED
      BY <3>1, <3>2
  <2> QED
    BY <2>3, <2>4
<1>9. ResetJustified'
  BY <1>2, <1>3, <1>7, Zenon DEF ResetJustified
<1>10. poll'[s].list = {} /\ poll'[s].at = "idle"
  BY PollSteps DEF ParentType
<1>11. ASSUME NEW t \in Scheduler PROVE Fresh(t)' /\ SteadyList(t)'
  BY <1>10 DEF Fresh, SteadyList
<1> QED
  BY <1>6, <1>8, <1>9, <1>11 DEF OneInv

LEMMA OneStep ==
  ASSUME \A s, t \in Scheduler : s = t, PInv, ParentType, OneInv, [Next]_vars
  PROVE  OneInv'
<1>1. PInv' /\ ParentType'
  BY PeerStep, TypeStep
<1>2. CASE PeerAlone
  <2>1. UNCHANGED <<row, open, told, back, poll>> /\ Grown
    BY <1>2, Alone, AloneGrown
  <2>2. Raised' /\ Steady'
    BY <1>1, <2>1, RaisedGrown DEF OneInv
  <2>3. \A s \in Scheduler : Fresh(s)' /\ SteadyList(s)'
    BY <2>1, FreshGrown DEF OneInv
  <2>4. ResetJustified' <=> ResetJustified
    BY <2>1 DEF ResetJustified
  <2> QED
    BY <2>2, <2>3, <2>4 DEF OneInv
<1>3. CASE Recreated
  BY <1>3, LossStep
<1>4. CASE RegisterPeer
  BY <1>4, RegisterStep
<1>5. CASE RetirePeer \/ MarkPeerLive
  <2>1. UNCHANGED peer /\ UNCHANGED <<open, told, back, poll>>
    BY <1>5 DEF RetirePeer, MarkPeerLive
  <2>2. row'.cursor = row.cursor /\ row'.reset = row.reset
    BY <1>5, RowSteps DEF ParentType
  <2> QED
    BY <2>1, <2>2, QuietStep
<1>6. ASSUME NEW s \in Scheduler,
             PollPeer(s) \/ RecordPeerFailure(s) \/ Stop(s) \/ (RecordPeerPoll(s) /\ ~Polled)
      PROVE  OneInv'
  <2>1. UNCHANGED peer /\ UNCHANGED <<open, told, back>>
    BY <1>6 DEF PollPeer, RecordPeerFailure, Stop, RecordPeerPoll, parent
  <2>2. row'.cursor = row.cursor /\ row'.reset = row.reset
    <3>1. CASE row' = row
      BY <3>1
    <3>2. CASE RecordPeerFailure(s)
      BY <3>2, RowSteps DEF ParentType
    <3> QED
      BY <1>6, <3>1, <3>2 DEF PollPeer, Stop, RecordPeerPoll, parent
  <2>3. poll'[s].list = {} /\ poll'[s].at # "listed"
    BY <1>6, PollSteps DEF ParentType
  <2> QED
    BY <2>1, <2>2, <2>3, QuietStep
<1>7. ASSUME NEW s \in Scheduler, ServeDecisions(s)
      PROVE  OneInv'
  <2>1. UNCHANGED <<row, open, told, back>> /\ Grown
    BY <1>7, SyncStep DEF ServeDecisions, parent
  <2>2. poll'[s].at = "listed" /\ poll'[s].list = OpenList
    BY <1>7, PollSteps DEF ParentType
  <2>3. Raised' /\ Steady'
    BY <1>1, <2>1, RaisedGrown DEF OneInv
  <2>4. Fresh(s)' /\ SteadyList(s)'
    BY <1>1, <2>2, <2>3, FreshServed
  <2>5. ResetJustified' <=> ResetJustified
    BY <2>1 DEF ResetJustified
  <2> QED
    BY <2>3, <2>4, <2>5 DEF OneInv
<1>8. ASSUME NEW s \in Scheduler, RecordPeerPoll(s), Polled
      PROVE  OneInv'
  BY <1>8, RecordStep
<1>9. CASE UNCHANGED vars
  <2>1. UNCHANGED peer /\ UNCHANGED <<row, open, told, back, poll>>
    BY <1>9 DEF vars, parent
  <2> QED
    BY <2>1, QuietStep
<1> QED
  BY <1>2, <1>3, <1>4, <1>5, <1>6, <1>7, <1>8, <1>9, Cases

LEMMA OneInitially == Init => OneInv
<1> SUFFICES ASSUME Init PROVE OneInv
  OBVIOUS
<1>1. /\ open = {} /\ told = {} /\ esc = <<>> /\ poll = [s \in Scheduler |-> Idle]
      /\ row = [NewRow EXCEPT !.status = "live"]
  BY DEF Init
<1>2. row = [status |-> "live", cursor |-> 0, fails |-> 0, reset |-> FALSE, bad |-> FALSE]
  BY <1>1 DEF NewRow
<1>3. row.cursor = 0 /\ row.reset = FALSE
  BY <1>2, Zenon
<1>4. Len(esc) = 0 /\ \A i \in 1..Len(esc) : FALSE
  BY <1>1
<1>5. Raised
  BY <1>1, <1>4 DEF Raised
<1>6. Steady
  BY <1>3, <1>4 DEF Steady
<1>7. ResetJustified
  BY <1>3, Zenon DEF ResetJustified
<1>8. \A s \in Scheduler : poll[s].at = "idle" /\ poll[s].list = {}
  BY <1>1, IdleType
<1>9. \A s \in Scheduler : Fresh(s) /\ SteadyList(s)
  BY <1>8 DEF Fresh, SteadyList
<1> QED
  BY <1>5, <1>6, <1>7, <1>9 DEF OneInv

LEMMA OneInvariant ==
  ASSUME \A s, t \in Scheduler : s = t
  PROVE  Spec => [](PInv /\ ParentType /\ OneInv)
<1>1. Init => PInv /\ ParentType /\ OneInv
  BY Initially, ParentInitially, OneInitially
<1>2. PInv /\ ParentType /\ OneInv /\ [Next]_vars => (PInv /\ ParentType /\ OneInv)'
  BY PeerStep, TypeStep, OneStep
<1> QED
  BY <1>1, <1>2, PTL DEF Spec

\* The parent says that a peer's ids went back only if its store was lost, whatever caps,
\* kills, failures and registrations came between (peerpoll.go, RecordPeerPoll).
THEOREM ResetJustifiedCorrect ==
  ASSUME \A s, t \in Scheduler : s = t
  PROVE  Spec => []ResetJustified
<1>1. PInv /\ ParentType /\ OneInv => ResetJustified
  BY DEF OneInv
<1> QED
  BY OneInvariant, <1>1, PTL

\* What one scheduler has raised it does not raise again until the peer is registered
\* anew, also when a lost store gives out the same ids (peerpoll.go, RecordPeerPoll).
THEOREM RaisedOnceCorrect ==
  ASSUME \A s, t \in Scheduler : s = t
  PROVE  Spec => RaisedOnce
<1>1. ASSUME ParentType, OneInv, [Next]_vars, NEW e \in open' \ open
      PROVE  e[2] \notin told
  <2>1. PICK s \in Scheduler : RecordPeerPoll(s) /\ Polled
    BY <1>1, Cases, Alone, Zenon DEF Recreated, RetirePeer, RegisterPeer, MarkPeerLive, PollPeer,
       ServeDecisions, RecordPeerPoll, RecordPeerFailure, Stop, parent, vars
  <2>2. e \in Raise(s)
    BY <1>1, <2>1, Recorded DEF StillOpen
  <2> QED
    BY <1>1, <2>2, RaiseNew DEF OneInv
<1>2. PInv /\ ParentType /\ OneInv /\ [Next]_vars =>
        [\A e \in open' \ open : e[2] \notin told]_vars
  BY <1>1
<1> QED
  BY OneInvariant, <1>2, PTL DEF Spec, RaisedOnce

\* A list with something in it that was never raised makes the next record raise
\* something or report it as out of range: a cap delays and never starves (peerpoll.go).
THEOREM NoPollInVainCorrect ==
  ASSUME \A s, t \in Scheduler : s = t
  PROVE  Spec => NoPollInVain
<1>1. ASSUME ParentType, OneInv, NEW s \in Scheduler, RecordPeerPoll(s), Polled,
             NEW e \in poll[s].list, e[2] \notin told
      PROVE  told' # told \/ row'.bad
  <2>1. Fresh(s) /\ Raised
    BY <1>1 DEF OneInv
  <2>2. e \in Unseen(poll[s].list)
    BY <1>1, <2>1 DEF Unseen, Raised
  <2>3. row' = [status |-> "live", cursor |-> Cursor(s), fails |-> 0,
                reset |-> Regressed(s), bad |-> Refused(s) # {}]
        /\ told' = told \cup {f[2] : f \in Raise(s)}
    BY <1>1, Recorded
  <2>4. CASE Refused(s) # {}
    BY <2>3, <2>4, Zenon
  <2>5. CASE Refused(s) = {}
    <3>1. Unseen(poll[s].list) \ Refused(s) # {}
      BY <2>2, <2>5
    <3>2. Unseen(poll[s].list) \ Refused(s) \in SUBSET (Id \X Stamp)
      BY <1>1, RaiseFacts
    <3>3. Raise(s) # {}
      BY <3>1, <3>2, LowestSome, RelayAssumption DEF Raise
    <3>4. PICK f \in Raise(s) : f[2] \notin told
      BY <1>1, <2>1, <3>3, RaiseNew
    <3> QED
      BY <2>3, <3>4
  <2> QED
    BY <2>4, <2>5
<1>2. PInv /\ ParentType /\ OneInv /\ [Next]_vars =>
        [\A s \in Scheduler :
           RecordPeerPoll(s) /\ Polled /\ (\E e \in poll[s].list : e[2] \notin told) =>
             told' # told \/ row'.bad]_vars
  BY <1>1
<1> QED
  BY OneInvariant, <1>2, PTL DEF Spec, NoPollInVain

--------------------------------------------------------------------------------
(***************************************************************************)
(* Provision, for every set of coordinators.  A command holds in use what  *)
(* it adds from its registration on, and an init that writes the file back *)
(* has read what is owed to others, unless it will see an edit.            *)
(***************************************************************************)

Line  == (Coordinator \cup {None}) \X Nat
Edits == {"none", "written", "replaced"}
Commands == [at : {"rest", "key", "register", "init", "wait", "version", "mark", "delete"},
             peer : Coordinator \cup {None}, force : BOOLEAN]
Inits == [at : {"rest", "row", "lock", "read", "write", "rename"}, peer : Coordinator \cup {None},
          force : BOOLEAN, line : Line, lines : SUBSET Line, other : SUBSET Nat, edit : Edits]

ProvisionType ==
  /\ master \in [Coordinator -> Coordinator \cup {None}]
  /\ peers \in [Coordinator -> [Coordinator -> P!Status]]
  /\ key \in [Coordinator -> [Coordinator -> Nat]] /\ made \in Nat
  /\ lines \in [Coordinator -> SUBSET Line]
  /\ other \in [Coordinator -> SUBSET Nat] /\ entered \in [Coordinator -> SUBSET Nat]
  /\ shell \in [Coordinator -> Commands]
  /\ \A c \in Coordinator : shell[c].at # "rest" => shell[c].peer \in Coordinator
  /\ init \in [Coordinator -> Inits]
  /\ \A c \in Coordinator : init[c].at # "rest" => init[c].peer \in Coordinator
  /\ commands \in Nat

\* From its registration on, what a command adds is in use.
DepthInv ==
  /\ \A c, d \in Coordinator : master[c] # None => peers[c][d] \notin P!InUse
  /\ \A c \in Coordinator : shell[c].at \in {"init", "wait", "version", "mark"} =>
       peers[c][shell[c].peer] \in P!InUse

\* What an init may yet rename over the file: past its check, or about to pass it.
MayRename(i) == i.at = "rename" \/ (i.at = "write" /\ i.edit = "none")

\* The entries put there outside the two calls are in the file, and in what an init
\* may yet rename over it.
OthersInv ==
  /\ \A c \in Coordinator : entered[c] \subseteq other[c]
  /\ \A c \in Coordinator : MayRename(init[c]) => entered[init[c].peer] \subseteq init[c].other

ProvisionInv == ProvisionType /\ DepthInv /\ OthersInv

LEMMA RestingIsACommand == P!Resting \in Commands /\ P!Resting.at = "rest"
  BY Zenon DEF P!Resting, Commands

LEMMA EndedIsAnInit == P!Ended \in Inits /\ P!Ended.at = "rest"
<1>1. <<None, 0>> \in Line
  BY DEF Line
<1>2. P!Ended.at = "rest"
  BY Zenon DEF P!Ended
<1>3. P!Ended \in Inits
  <2>1. {} \in SUBSET Line /\ {} \in SUBSET Nat /\ "none" \in Edits /\ "rest" \in {"rest", "row", "lock", "read", "write", "rename"}
        /\ None \in Coordinator \cup {None} /\ FALSE \in BOOLEAN
    BY DEF Edits
  <2> QED BY <1>1, <2>1, Zenon DEF P!Ended, Inits
<1> QED BY <1>2, <1>3

LEMMA ProvisionStarts == P!Init => ProvisionInv
<1> SUFFICES ASSUME P!Init PROVE ProvisionInv
  OBVIOUS
<1>1. ProvisionType
  BY RestingIsACommand, EndedIsAnInit DEF P!Init, ProvisionType, P!Status
<1>2. DepthInv
  BY RestingIsACommand DEF P!Init, DepthInv
<1>3. OthersInv
  BY EndedIsAnInit DEF P!Init, OthersInv, MayRename
<1> QED BY <1>1, <1>2, <1>3 DEF ProvisionInv

\* What one step of a command leaves.
LEMMA CommandMoves ==
  ASSUME shell \in [Coordinator -> Commands], NEW c \in Coordinator,
         NEW pc \in {"rest", "key", "register", "init", "wait", "version", "mark", "delete"},
         P!ShellDoes(c, pc)
  PROVE  /\ shell' \in [Coordinator -> Commands]
         /\ shell'[c].at = pc /\ shell'[c].peer = shell[c].peer
         /\ \A d \in Coordinator : d # c => shell'[d] = shell[d]
<1>1. shell[c] \in Commands /\ [shell[c] EXCEPT !.at = pc] \in Commands
  BY DEF Commands
<1>2. shell' = [shell EXCEPT ![c] = [shell[c] EXCEPT !.at = pc]]
  BY DEF P!ShellDoes
<1>3. shell' \in [Coordinator -> Commands] /\ shell'[c] = [shell[c] EXCEPT !.at = pc]
      /\ \A d \in Coordinator : d # c => shell'[d] = shell[d]
  BY <1>1, <1>2
<1> QED BY <1>1, <1>3 DEF Commands

LEMMA CommandEnds ==
  ASSUME shell \in [Coordinator -> Commands], NEW c \in Coordinator, P!ShellEnds(c)
  PROVE  /\ shell' \in [Coordinator -> Commands] /\ shell'[c].at = "rest"
         /\ \A d \in Coordinator : d # c => shell'[d] = shell[d]
  BY RestingIsACommand DEF P!ShellEnds

\* A step that moves commands along, and neither registers nor provisions.
MovesOn ==
  /\ shell' \in [Coordinator -> Commands]
  /\ \A c \in Coordinator :
       \/ shell'[c] = shell[c] \/ shell'[c].at = "rest"
       \/ /\ shell'[c].peer = shell[c].peer /\ shell[c].at # "rest"
          /\ shell'[c].at \in {"init", "wait", "version", "mark"} =>
               shell[c].at \in {"init", "wait", "version", "mark"}

LEMMA ReturnMoves ==
  ASSUME ProvisionType, NEW c \in Coordinator, NEW pc \in {"rest", "version"}, P!Returns(c, pc)
  PROVE  /\ MovesOn
         /\ init' \in [Coordinator -> Inits] /\ init'[c].at = "rest"
         /\ \A d \in Coordinator : d # c => init'[d] = init[d]
<1>1. init' = [init EXCEPT ![c] = P!Ended]
  BY DEF P!Returns
<1>2. CASE shell' = shell
  BY <1>1, <1>2, EndedIsAnInit DEF ProvisionType, MovesOn
<1>3. CASE P!ShellEnds(c)
  BY <1>1, <1>3, EndedIsAnInit, CommandEnds DEF ProvisionType, MovesOn
<1>4. CASE P!ShellAt(c, "wait") /\ P!ShellDoes(c, "version")
  <2>1. shell[c].at = "wait"
    BY <1>4 DEF P!ShellAt
  <2>2. shell \in [Coordinator -> Commands]
    BY DEF ProvisionType
  <2>3. /\ shell' \in [Coordinator -> Commands] /\ shell'[c].at = "version"
        /\ shell'[c].peer = shell[c].peer /\ \A d \in Coordinator : d # c => shell'[d] = shell[d]
    BY <1>4, <2>2, CommandMoves
  <2> QED BY <1>1, <2>1, <2>3, EndedIsAnInit DEF ProvisionType, MovesOn
<1> QED BY <1>2, <1>3, <1>4 DEF P!Returns

\* While no row changes, moving on keeps the depth.
LEMMA MovingKeepsDepth ==
  ASSUME ProvisionType, DepthInv, MovesOn, UNCHANGED <<master, peers>>
  PROVE  /\ DepthInv'
         /\ \A c \in Coordinator : shell'[c].at # "rest" => shell'[c].peer \in Coordinator
  BY DEF ProvisionType, DepthInv, MovesOn

LEMMA InitMoves ==
  ASSUME init \in [Coordinator -> Inits], NEW c \in Coordinator,
         NEW pc \in {"rest", "row", "lock", "read", "write"}, P!InitDoes(c, pc)
  PROVE  /\ init' \in [Coordinator -> Inits] /\ init'[c].at = pc /\ init'[c].peer = init[c].peer
         /\ \A d \in Coordinator : d # c => init'[d] = init[d]
<1>1. init[c] \in Inits /\ [init[c] EXCEPT !.at = pc] \in Inits
  BY DEF Inits
<1>2. init' = [init EXCEPT ![c] = [init[c] EXCEPT !.at = pc]]
  BY DEF P!InitDoes
<1>3. init' \in [Coordinator -> Inits] /\ init'[c] = [init[c] EXCEPT !.at = pc]
      /\ \A d \in Coordinator : d # c => init'[d] = init[d]
  BY <1>1, <1>2
<1> QED BY <1>1, <1>3 DEF Inits

LEMMA ParentSteps ==
  ASSUME ProvisionInv, NEW c \in Coordinator, P!Parental(c)
  PROVE  ProvisionInv'
<1> USE DEF ProvisionInv
<1>0. UNCHANGED <<master, lines, other, lock, entered>>
  BY DEF P!Parental, P!ControlKey, P!RegisterPeer, P!RunInit, P!CheckVersion, P!MarkPeerLive,
     P!DeleteKey, P!KillShell, P!stores, P!files
<1>1. shell \in [Coordinator -> Commands] /\ shell[c] \in Commands
  BY DEF ProvisionType
<1>2. ASSUME UNCHANGED <<peers, init>>, commands' \in {commands, commands + 1}, MovesOn,
             key' \in [Coordinator -> [Coordinator -> Nat]], made' \in Nat
      PROVE  ProvisionInv'
  <2>1. /\ DepthInv'
        /\ \A d \in Coordinator : shell'[d].at # "rest" => shell'[d].peer \in Coordinator
    BY <1>0, <1>2, MovingKeepsDepth
  <2>2. ProvisionType'
    BY <1>0, <1>2, <2>1 DEF ProvisionType, MovesOn
  <2>3. OthersInv'
    BY <1>0, <1>2 DEF OthersInv
  <2> QED BY <2>1, <2>2, <2>3
<1>3. CASE P!ControlKey(c)
  <2>1. shell[c].at = "key" /\ shell[c].peer \in Coordinator
    BY <1>3 DEF P!ControlKey, P!ShellAt, ProvisionType
  <2>2. MovesOn
    BY <1>1, <1>3, <2>1, CommandMoves DEF P!ControlKey, MovesOn
  <2>3. made' \in Nat /\ key' \in [Coordinator -> [Coordinator -> Nat]]
    <3>1. made \in Nat /\ key \in [Coordinator -> [Coordinator -> Nat]]
      BY DEF ProvisionType
    <3> QED BY <1>3, <2>1, <3>1 DEF P!ControlKey
  <2> QED BY <1>2, <1>3, <2>2, <2>3 DEF P!ControlKey, P!stores
<1>4. CASE P!RegisterPeer(c)
  <2> DEFINE d == shell[c].peer
  <2>1. shell[c].at = "register" /\ d \in Coordinator /\ UNCHANGED <<key, made, init, commands>>
    BY <1>4 DEF P!RegisterPeer, P!ShellAt, ProvisionType, P!files
  <2>2. CASE P!ShellEnds(c) /\ peers' = peers
    <3>1. MovesOn
      BY <1>1, <2>2, CommandEnds DEF MovesOn
    <3> QED BY <1>2, <2>1, <2>2, <3>1 DEF ProvisionType
  <2>3. CASE P!ShellDoes(c, "init") /\ peers' = [peers EXCEPT ![c][d] = "provisioning"] /\ master[c] = None
    <3>1. /\ shell' \in [Coordinator -> Commands] /\ shell'[c].at = "init" /\ shell'[c].peer = d
          /\ \A e \in Coordinator : e # c => shell'[e] = shell[e]
      BY <1>1, <2>3, CommandMoves
    <3>2. /\ peers' \in [Coordinator -> [Coordinator -> P!Status]] /\ peers'[c][d] = "provisioning"
          /\ \A e \in Coordinator : e # c => peers'[e] = peers[e]
      BY <2>1, <2>3 DEF ProvisionType, P!Status
    <3>3. ProvisionType'
      BY <1>0, <2>1, <3>1, <3>2 DEF ProvisionType
    <3>4. DepthInv'
      BY <1>0, <2>3, <3>1, <3>2 DEF DepthInv, P!InUse
    <3>5. OthersInv'
      BY <1>0, <2>1 DEF OthersInv
    <3> QED BY <3>3, <3>4, <3>5
  <2> QED BY <1>4, <2>2, <2>3 DEF P!RegisterPeer
<1>5. CASE P!RunInit(c)
  <2>1. /\ shell[c].at = "init" /\ shell[c].peer \in Coordinator /\ P!ShellDoes(c, "wait")
        /\ init' = [init EXCEPT ![c] = [P!Ended EXCEPT !.at = "row", !.peer = shell[c].peer,
                                          !.force = shell[c].force, !.line = <<c, key[c][shell[c].peer]>>]]
        /\ UNCHANGED <<peers, key, made, commands>>
    BY <1>5 DEF P!RunInit, P!ShellAt, ProvisionType, P!stores, P!files
  <2>2. MovesOn
    BY <1>1, <2>1, CommandMoves DEF MovesOn
  <2>3. DepthInv' /\ \A d \in Coordinator : shell'[d].at # "rest" => shell'[d].peer \in Coordinator
    BY <1>0, <2>1, <2>2, MovingKeepsDepth
  <2> DEFINE new == [P!Ended EXCEPT !.at = "row", !.peer = shell[c].peer,
                                    !.force = shell[c].force, !.line = <<c, key[c][shell[c].peer]>>]
  <2>4. new \in Inits /\ new.at = "row" /\ new.peer = shell[c].peer
    <3>1. <<c, key[c][shell[c].peer]>> \in Line /\ shell[c].force \in BOOLEAN
      BY <1>1, <2>1 DEF Line, ProvisionType, Commands
    <3> QED BY <2>1, <3>1, EndedIsAnInit DEF Inits
  <2>5. init' \in [Coordinator -> Inits] /\ init'[c] = new /\ \A d \in Coordinator : d # c => init'[d] = init[d]
    BY <2>1, <2>4 DEF ProvisionType
  <2> HIDE DEF new
  <2>6. ProvisionType'
    BY <1>0, <2>1, <2>2, <2>3, <2>4, <2>5 DEF ProvisionType, MovesOn
  <2>7. OthersInv'
    BY <1>0, <2>4, <2>5 DEF OthersInv, MayRename
  <2> QED BY <2>3, <2>6, <2>7
<1>6. CASE P!CheckVersion(c)
  <2>1. shell[c].at = "version" /\ UNCHANGED <<peers, key, made, init, commands>>
    BY <1>6 DEF P!CheckVersion, P!ShellAt, P!stores, P!files
  <2>2. CASE P!ShellDoes(c, "mark")
    <3>1. MovesOn
      BY <1>1, <2>1, <2>2, CommandMoves DEF MovesOn
    <3> QED BY <1>2, <2>1, <3>1 DEF ProvisionType
  <2>3. CASE P!ShellEnds(c)
    <3>1. MovesOn
      BY <1>1, <2>3, CommandEnds DEF MovesOn
    <3> QED BY <1>2, <2>1, <3>1 DEF ProvisionType
  <2> QED BY <1>6, <2>2, <2>3 DEF P!CheckVersion
<1>7. CASE P!MarkPeerLive(c)
  <2> DEFINE d == shell[c].peer
  <2>1. /\ shell[c].at = "mark" /\ d \in Coordinator /\ P!ShellEnds(c)
        /\ UNCHANGED <<key, made, init, commands>>
    BY <1>7 DEF P!MarkPeerLive, P!ShellAt, ProvisionType, P!files
  <2>2. peers[c][d] \in P!InUse
    BY <2>1 DEF DepthInv
  <2>3. /\ peers' \in [Coordinator -> [Coordinator -> P!Status]]
        /\ \A x, y \in Coordinator : peers'[x][y] \in P!InUse <=> peers[x][y] \in P!InUse
    <3>1. peers' = [peers EXCEPT ![c][d] = "live"]
      BY <1>7, <2>2 DEF P!MarkPeerLive, P!InUse
    <3> QED BY <2>1, <2>2, <3>1 DEF ProvisionType, P!Status, P!InUse
  <2>4. /\ shell' \in [Coordinator -> Commands] /\ shell'[c].at = "rest"
        /\ \A e \in Coordinator : e # c => shell'[e] = shell[e]
    BY <1>1, <2>1, CommandEnds
  <2>5. ProvisionType'
    BY <1>0, <2>1, <2>3, <2>4 DEF ProvisionType
  <2>6. DepthInv'
    <3>1. ASSUME NEW x \in Coordinator, shell'[x].at \in {"init", "wait", "version", "mark"}
          PROVE  peers'[x][shell'[x].peer] \in P!InUse
      <4>1. x # c /\ shell'[x] = shell[x]
        BY <2>4, <3>1
      <4>2. shell[x].peer \in Coordinator /\ peers[x][shell[x].peer] \in P!InUse
        BY <3>1, <4>1 DEF DepthInv, ProvisionType
      <4> QED BY <2>3, <4>1, <4>2
    <3> QED BY <1>0, <2>3, <3>1 DEF DepthInv
  <2>7. OthersInv'
    BY <1>0, <2>1 DEF OthersInv
  <2> QED BY <2>5, <2>6, <2>7
<1>8. CASE P!DeleteKey(c)
  <2>1. /\ P!ShellEnds(c) /\ shell[c].peer \in Coordinator /\ UNCHANGED <<peers, made, init, commands>>
        /\ key' = [key EXCEPT ![c][shell[c].peer] = 0]
    BY <1>8 DEF P!DeleteKey, P!ShellAt, ProvisionType, P!stores
  <2>2. MovesOn
    BY <1>1, <2>1, CommandEnds DEF MovesOn
  <2>3. made' \in Nat /\ key' \in [Coordinator -> [Coordinator -> Nat]]
    BY <2>1 DEF ProvisionType
  <2> QED BY <1>2, <2>1, <2>2, <2>3
<1>9. CASE P!KillShell(c)
  <2>1. P!ShellEnds(c) /\ UNCHANGED <<peers, key, made, init>> /\ commands' = commands + 1
    BY <1>9 DEF P!KillShell, P!stores, P!files, P!Event
  <2>2. MovesOn
    BY <1>1, <2>1, CommandEnds DEF MovesOn
  <2> QED BY <1>2, <2>1, <2>2 DEF ProvisionType
<1> QED BY <1>3, <1>4, <1>5, <1>6, <1>7, <1>8, <1>9 DEF P!Parental

\* Steps of an init that leave the rows, and in the file what is owed to others.
LEMMA InitOnly ==
  ASSUME ProvisionInv, NEW c \in Coordinator, UNCHANGED <<master, peers, key, made, entered>>, MovesOn,
         other' \in [Coordinator -> SUBSET Nat], \A d \in Coordinator : entered[d] \subseteq other'[d],
         lines' \in [Coordinator -> SUBSET Line], commands' \in Nat,
         init' \in [Coordinator -> Inits], \A d \in Coordinator : d # c => init'[d] = init[d],
         init'[c].at # "rest" => init'[c].peer \in Coordinator,
         MayRename(init'[c]) => entered[init'[c].peer] \subseteq init'[c].other
  PROVE  ProvisionInv'
<1>1. DepthInv' /\ \A d \in Coordinator : shell'[d].at # "rest" => shell'[d].peer \in Coordinator
  BY MovingKeepsDepth DEF ProvisionInv
<1>2. ProvisionType'
  <2>1. \A d \in Coordinator : init'[d].at # "rest" => init'[d].peer \in Coordinator
    BY DEF ProvisionInv, ProvisionType
  <2> QED BY <1>1, <2>1 DEF ProvisionInv, ProvisionType, MovesOn
<1>3. OthersInv'
  BY DEF ProvisionInv, OthersInv
<1> QED BY <1>1, <1>2, <1>3 DEF ProvisionInv

LEMMA InitSteps ==
  ASSUME ProvisionInv, NEW c \in Coordinator, P!Initial(c)
  PROVE  ProvisionInv'
<1> DEFINE d == init[c].peer
<1>1. init \in [Coordinator -> Inits] /\ init[c] \in Inits /\ lines \in [Coordinator -> SUBSET Line] /\ commands \in Nat
      /\ shell \in [Coordinator -> Commands]
  BY DEF ProvisionInv, ProvisionType
<1>2. UNCHANGED shell => MovesOn
  BY <1>1 DEF MovesOn
<1>0. other \in [Coordinator -> SUBSET Nat] /\ \A e \in Coordinator : entered[e] \subseteq other[e]
  BY DEF ProvisionInv, ProvisionType, OthersInv
<1>3. CASE P!ProvisionAsPeer(c)
  <2>1. init[c].at = "row" /\ d \in Coordinator
    BY <1>3 DEF P!ProvisionAsPeer, P!InitAt, ProvisionInv, ProvisionType
  <2>2. UNCHANGED <<peers, key, made, lines, other, entered, commands>>
    BY <1>3 DEF P!ProvisionAsPeer, P!files
  <2>3. CASE UNCHANGED master /\ P!Returns(c, "rest")
    <3>1. /\ MovesOn /\ init' \in [Coordinator -> Inits] /\ init'[c].at = "rest"
          /\ \A e \in Coordinator : e # c => init'[e] = init[e]
      BY <2>3, ReturnMoves DEF ProvisionInv
    <3> QED BY <1>1, <2>2, <2>3, <3>1, <1>0, InitOnly DEF MayRename
  <2>4. CASE /\ P!Provisionable(c, d, init[c].force) /\ master' = [master EXCEPT ![d] = c]
             /\ P!InitDoes(c, "lock") /\ UNCHANGED shell
    <3>1. /\ init' \in [Coordinator -> Inits] /\ init'[c].at = "lock" /\ init'[c].peer = d
          /\ \A e \in Coordinator : e # c => init'[e] = init[e]
      BY <1>1, <2>4, InitMoves
    <3>2. \A e \in Coordinator : peers[d][e] \notin P!InUse
      BY <2>4 DEF P!Provisionable
    <3>3. /\ master' \in [Coordinator -> Coordinator \cup {None}]
          /\ \A e \in Coordinator : e # d => master'[e] = master[e]
      BY <2>1, <2>4 DEF ProvisionInv, ProvisionType
    <3>4. ProvisionType'
      <4>1. \A e \in Coordinator : init'[e].at # "rest" => init'[e].peer \in Coordinator
        BY <2>1, <3>1 DEF ProvisionInv, ProvisionType
      <4> QED BY <2>2, <2>4, <3>1, <3>3, <4>1 DEF ProvisionInv, ProvisionType
    <3>5. DepthInv'
      BY <2>2, <2>4, <3>2, <3>3 DEF ProvisionInv, DepthInv
    <3>6. OthersInv'
      BY <2>2, <3>1 DEF ProvisionInv, OthersInv, MayRename
    <3> QED BY <3>4, <3>5, <3>6 DEF ProvisionInv
  <2> QED BY <1>3, <2>3, <2>4 DEF P!ProvisionAsPeer
<1>4. CASE P!LockDir(c)
  <2>1. /\ init[c].at = "lock" /\ d \in Coordinator
        /\ UNCHANGED <<master, peers, key, made, lines, other, entered, commands>>
    BY <1>4 DEF P!LockDir, P!InitAt, ProvisionInv, ProvisionType, P!stores
  <2>2. CASE P!InitDoes(c, "read") /\ UNCHANGED shell
    <3>1. /\ init' \in [Coordinator -> Inits] /\ init'[c].at = "read" /\ init'[c].peer = d
          /\ \A e \in Coordinator : e # c => init'[e] = init[e]
      BY <1>1, <2>2, InitMoves
    <3> QED BY <1>1, <1>2, <2>1, <2>2, <3>1, <1>0, InitOnly DEF MayRename
  <2>3. CASE P!Returns(c, "rest")
    <3>1. /\ MovesOn /\ init' \in [Coordinator -> Inits] /\ init'[c].at = "rest"
          /\ \A e \in Coordinator : e # c => init'[e] = init[e]
      BY <2>3, ReturnMoves DEF ProvisionInv
    <3> QED BY <1>1, <2>1, <3>1, <1>0, InitOnly DEF MayRename
  <2> QED BY <1>4, <2>2, <2>3 DEF P!LockDir
<1>5. CASE P!ReadKeys(c)
  <2>1. /\ init[c].at = "read" /\ d \in Coordinator
        /\ UNCHANGED <<master, peers, key, made, lines, other, entered, commands, shell>>
        /\ init' = [init EXCEPT ![c] = [init[c] EXCEPT !.at = "write", !.lines = lines[d],
                                                       !.other = other[d], !.edit = "none"]]
    BY <1>5 DEF P!ReadKeys, P!InitAt, ProvisionInv, ProvisionType, P!stores, P!files
  <2> DEFINE new == [init[c] EXCEPT !.at = "write", !.lines = lines[d], !.other = other[d], !.edit = "none"]
  <2>2. lines[d] \in SUBSET Line /\ other[d] \in SUBSET Nat /\ entered[d] \subseteq other[d]
    BY <2>1 DEF ProvisionInv, ProvisionType, OthersInv
  <2>3. new \in Inits /\ new.peer = d /\ new.other = other[d]
    BY <1>1, <2>2 DEF Inits, Edits
  <2>4. init' \in [Coordinator -> Inits] /\ init'[c] = new /\ \A e \in Coordinator : e # c => init'[e] = init[e]
    BY <1>1, <2>1, <2>3
  <2> HIDE DEF new
  <2> QED BY <1>1, <1>2, <2>1, <2>2, <2>3, <2>4, <1>0, InitOnly DEF MayRename
<1>6. CASE P!RefuseKeys(c)
  <2>1. UNCHANGED <<master, peers, key, made, lines, other, entered, commands>> /\ P!Returns(c, "rest")
    BY <1>6 DEF P!RefuseKeys, P!stores
  <2>2. /\ MovesOn /\ init' \in [Coordinator -> Inits] /\ init'[c].at = "rest"
        /\ \A e \in Coordinator : e # c => init'[e] = init[e]
    BY <2>1, ReturnMoves DEF ProvisionInv
  <2> QED BY <1>1, <2>1, <2>2, <1>0, InitOnly DEF MayRename
<1>7. CASE P!CheckKeys(c)
  <2>1. /\ init[c].at = "write" /\ d \in Coordinator
        /\ UNCHANGED <<master, peers, key, made, lines, other, entered, commands>>
    BY <1>7 DEF P!CheckKeys, P!InitAt, ProvisionInv, ProvisionType, P!stores
  <2>2. CASE P!Unchanged(init[c]) /\ P!InitDoes(c, "rename") /\ UNCHANGED shell
    <3>1. /\ init' \in [Coordinator -> Inits] /\ init'[c].at = "rename" /\ init'[c].peer = d
          /\ init'[c].other = init[c].other /\ \A e \in Coordinator : e # c => init'[e] = init[e]
      BY <1>1, <2>2 DEF P!InitDoes, Inits
    <3>2. entered[d] \subseteq init[c].other
      BY <2>1, <2>2 DEF P!Unchanged, ProvisionInv, OthersInv, MayRename
    <3> QED BY <1>1, <1>2, <2>1, <2>2, <3>1, <3>2, <1>0, InitOnly
  <2>3. CASE P!Returns(c, "rest")
    <3>1. /\ MovesOn /\ init' \in [Coordinator -> Inits] /\ init'[c].at = "rest"
          /\ \A e \in Coordinator : e # c => init'[e] = init[e]
      BY <2>3, ReturnMoves DEF ProvisionInv
    <3> QED BY <1>1, <2>1, <3>1, <1>0, InitOnly DEF MayRename
  <2> QED BY <1>7, <2>2, <2>3 DEF P!CheckKeys
<1>10. CASE P!ReplaceKeys(c)
  <2>1. /\ init[c].at = "rename" /\ d \in Coordinator /\ init[c].line \in Line
        /\ init[c].other \in SUBSET Nat
        /\ UNCHANGED <<master, peers, key, made, entered, commands>> /\ P!Returns(c, "version")
        /\ lines' = [lines EXCEPT ![d] = {init[c].line}]
        /\ other' = [other EXCEPT ![d] = init[c].other]
    BY <1>1, <1>10 DEF P!ReplaceKeys, P!InitAt, ProvisionInv, ProvisionType, P!stores, Inits
  <2>2. /\ MovesOn /\ init' \in [Coordinator -> Inits] /\ init'[c].at = "rest"
        /\ \A e \in Coordinator : e # c => init'[e] = init[e]
    BY <2>1, ReturnMoves DEF ProvisionInv
  <2>3. entered[d] \subseteq init[c].other
    BY <2>1 DEF ProvisionInv, OthersInv, MayRename
  <2>4. /\ lines' \in [Coordinator -> SUBSET Line] /\ other' \in [Coordinator -> SUBSET Nat]
        /\ \A e \in Coordinator : entered[e] \subseteq other'[e]
    BY <1>0, <1>1, <2>1, <2>3
  <2> QED BY <1>1, <2>1, <2>2, <2>4, InitOnly DEF MayRename
<1>8. CASE P!AppendKey(c)
  <2>1. /\ init[c].at = "write" /\ d \in Coordinator /\ init[c].line \in Line
        /\ UNCHANGED <<master, peers, key, made, other, entered, commands>> /\ P!Returns(c, "version")
    BY <1>1, <1>8 DEF P!AppendKey, P!InitAt, ProvisionInv, ProvisionType, P!stores, Inits
  <2>3. /\ MovesOn /\ init' \in [Coordinator -> Inits] /\ init'[c].at = "rest"
        /\ \A e \in Coordinator : e # c => init'[e] = init[e]
    BY <2>1, ReturnMoves DEF ProvisionInv
  <2>4. lines' \in [Coordinator -> SUBSET Line]
    BY <1>1, <1>8, <2>1 DEF P!AppendKey
  <2> QED BY <1>1, <2>1, <2>3, <2>4, <1>0, InitOnly DEF MayRename
<1>9. CASE P!KillInit(c)
  <2>1. /\ UNCHANGED <<master, peers, key, made, lines, other, entered>> /\ commands' = commands + 1
        /\ init' = [init EXCEPT ![c] = P!Ended]
    BY <1>9 DEF P!KillInit, P!stores, P!Event
  <2>2. MovesOn
    <3>1. CASE P!ShellEnds(c)
      BY <1>1, <3>1, CommandEnds DEF MovesOn
    <3> QED BY <1>2, <1>9, <3>1 DEF P!KillInit
  <2>3. /\ init' \in [Coordinator -> Inits] /\ init'[c].at = "rest"
        /\ \A e \in Coordinator : e # c => init'[e] = init[e]
    BY <1>1, <2>1, EndedIsAnInit
  <2>4. commands' \in Nat
    BY <1>1, <2>1
  <2> QED BY <1>1, <2>1, <2>2, <2>3, <2>4, <1>0, InitOnly DEF MayRename
<1> QED BY <1>3, <1>4, <1>5, <1>6, <1>7, <1>8, <1>9, <1>10 DEF P!Initial

LEMMA ProvisionStep ==
  ASSUME ProvisionInv, P!Next
  PROVE  ProvisionInv'
<1>1. ASSUME NEW c \in Coordinator, NEW d \in Coordinator, NEW force \in BOOLEAN, P!Add(c, d, force)
      PROVE  ProvisionInv'
  <2>1. /\ shell' = [shell EXCEPT ![c] = [at |-> "key", peer |-> d, force |-> force]]
        /\ UNCHANGED <<master, peers, key, made, lines, other, entered, init>> /\ commands' = commands + 1
    BY <1>1 DEF P!Add, P!stores, P!files, P!Event
  <2>2. [at |-> "key", peer |-> d, force |-> force] \in Commands
    BY DEF Commands
  <2>3. /\ shell' \in [Coordinator -> Commands] /\ shell'[c].at = "key" /\ shell'[c].peer = d
        /\ \A e \in Coordinator : e # c => shell'[e] = shell[e]
    BY <2>1, <2>2 DEF ProvisionInv, ProvisionType
  <2>4. ProvisionType'
    BY <2>1, <2>3 DEF ProvisionInv, ProvisionType
  <2>5. DepthInv' /\ OthersInv'
    BY <2>1, <2>3 DEF ProvisionInv, DepthInv, OthersInv
  <2> QED BY <2>4, <2>5 DEF ProvisionInv
<1>2. ASSUME NEW c \in Coordinator, NEW d \in Coordinator, P!RetirePeer(c, d) PROVE ProvisionInv'
  <2>1. /\ shell[c].at = "rest" /\ peers' = [peers EXCEPT ![c][d] = "retired"]
        /\ shell' = [shell EXCEPT ![c] = [P!Resting EXCEPT !.at = "delete", !.peer = d]]
        /\ UNCHANGED <<master, key, made, lines, other, entered, init>> /\ commands' = commands + 1
    BY <1>2 DEF P!RetirePeer, P!ShellAt, P!files, P!Event
  <2> DEFINE new == [P!Resting EXCEPT !.at = "delete", !.peer = d]
  <2>2. new \in Commands /\ new.at = "delete" /\ new.peer = d
    BY RestingIsACommand DEF Commands
  <2>3. /\ shell' \in [Coordinator -> Commands] /\ shell'[c] = new
        /\ \A e \in Coordinator : e # c => shell'[e] = shell[e]
    BY <2>1, <2>2 DEF ProvisionInv, ProvisionType
  <2> HIDE DEF new
  <2>4. /\ peers' \in [Coordinator -> [Coordinator -> P!Status]]
        /\ \A e \in Coordinator : e # c => peers'[e] = peers[e]
        /\ \A e \in Coordinator : peers'[c][e] \in P!InUse => peers[c][e] \in P!InUse
    BY <2>1 DEF ProvisionInv, ProvisionType, P!Status, P!InUse
  <2>5. ProvisionType'
    BY <2>1, <2>2, <2>3, <2>4 DEF ProvisionInv, ProvisionType
  <2>6. DepthInv'
    BY <2>1, <2>2, <2>3, <2>4 DEF ProvisionInv, DepthInv
  <2>7. OthersInv'
    BY <2>1 DEF ProvisionInv, OthersInv
  <2> QED BY <2>5, <2>6, <2>7 DEF ProvisionInv
<1>3. ASSUME NEW d \in Coordinator, NEW how \in {"written", "replaced"},
             NEW dropped \in {{}, lines[d]}, P!Edit(d, how, dropped)
      PROVE  ProvisionInv'
  <2>1. /\ other' = [other EXCEPT ![d] = @ \cup {commands}]
        /\ entered' = IF P!Exposed(d) THEN entered ELSE [entered EXCEPT ![d] = @ \cup {commands}]
        /\ lines' = [lines EXCEPT ![d] = @ \ dropped]
        /\ init' = [c \in Coordinator |->
                     IF init[c].peer = d /\ init[c].edit # "replaced"
                     THEN [init[c] EXCEPT !.edit = how] ELSE init[c]]
        /\ UNCHANGED <<master, peers, key, made, shell>> /\ commands' = commands + 1 /\ commands \in Nat
    BY <1>3 DEF P!Edit, P!stores, P!Event, ProvisionInv, ProvisionType
  <2>2. ASSUME NEW c \in Coordinator
        PROVE  /\ init'[c] \in Inits /\ init'[c].at = init[c].at /\ init'[c].peer = init[c].peer
               /\ init'[c].other = init[c].other
               /\ init'[c].edit = "none" => init[c].peer # d /\ init[c].edit = "none"
    <3>1. init[c] \in Inits
      BY DEF ProvisionInv, ProvisionType
    <3> QED BY <2>1, <3>1 DEF Inits, Edits
  <2>3. /\ other' \in [Coordinator -> SUBSET Nat] /\ entered' \in [Coordinator -> SUBSET Nat]
        /\ \A c \in Coordinator : entered'[c] \subseteq other'[c]
        /\ \A c \in Coordinator : c # d => entered'[c] = entered[c]
        /\ P!Exposed(d) => entered' = entered
    <3>1. other \in [Coordinator -> SUBSET Nat] /\ entered \in [Coordinator -> SUBSET Nat]
          /\ \A c \in Coordinator : entered[c] \subseteq other[c]
      BY DEF ProvisionInv, ProvisionType, OthersInv
    <3> QED BY <2>1, <3>1
  <2>4. lines' \in [Coordinator -> SUBSET Line]
    BY <2>1 DEF ProvisionInv, ProvisionType
  <2>5. ProvisionType'
    BY <2>1, <2>2, <2>3, <2>4 DEF ProvisionInv, ProvisionType
  <2>6. DepthInv'
    BY <2>1 DEF ProvisionInv, DepthInv
  <2>7. OthersInv'
    <3>1. ASSUME NEW c \in Coordinator, MayRename(init'[c])
          PROVE  entered'[init'[c].peer] \subseteq init'[c].other
      <4>1. MayRename(init[c]) /\ init[c].peer \in Coordinator
        BY <2>2, <3>1 DEF ProvisionInv, ProvisionType, MayRename
      <4>2. entered[init[c].peer] \subseteq init[c].other
        BY <4>1 DEF ProvisionInv, OthersInv
      <4>3. entered'[init[c].peer] = entered[init[c].peer]
        <5>1. CASE init[c].peer # d
          BY <2>3, <4>1, <5>1
        <5>2. CASE init[c].peer = d
          <6>1. init[c].at = "rename"
            BY <2>2, <3>1, <5>2 DEF MayRename
          <6>2. P!Exposed(d)
            BY <5>2, <6>1 DEF P!Exposed, P!InitAt
          <6> QED BY <2>3, <6>2
        <5> QED BY <5>1, <5>2
      <4> QED BY <2>2, <4>2, <4>3
    <3> QED BY <2>3, <3>1 DEF OthersInv
  <2> QED BY <2>5, <2>6, <2>7 DEF ProvisionInv
<1> QED BY <1>1, <1>2, <1>3, ParentSteps, InitSteps DEF P!Next

LEMMA ProvisionSound == SumSpec => []ProvisionInv
<1>1. SumInit => ProvisionInv
  BY ProvisionStarts DEF SumInit
<1>2. ASSUME ProvisionInv, [SumNext]_both PROVE ProvisionInv'
  <2>1. CASE P!Next
    BY <1>2, <2>1, ProvisionStep
  <2>2. CASE UNCHANGED provision
    BY <1>2, <2>2 DEF provision, ProvisionInv, ProvisionType, DepthInv, OthersInv
  <2> QED BY <1>2, <2>1, <2>2 DEF SumNext, both
<1> QED BY <1>1, <1>2, PTL DEF SumSpec

\* No coordinator that is a peer has a peer of its own in use, whichever inits,
\* retirements, kills and edits race (Provision; db/coordinator.go).
THEOREM NoChains == SumSpec => []DepthOne
<1>1. ProvisionInv => DepthOne
  BY DEF ProvisionInv, DepthInv, DepthOne, P!DepthOne
<1> QED BY <1>1, ProvisionSound, PTL

\* Entries of other programs stay in authorized_keys, for any inits, kills and edits,
\* but for those put there between the check of a forced install and its rename
\* (Provision; peer/authkeys.go).
THEOREM OtherEntriesKept == SumSpec => []OthersKept
<1>1. ProvisionInv => OthersKept
  BY DEF ProvisionInv, OthersInv, OthersKept, P!OthersKept
<1> QED BY <1>1, ProvisionSound, PTL
================================================================================
