---------------------------- MODULE InboxProofs ----------------------------
(***************************************************************************)
(* For any number of watchers, tasks, events and kills: no update is lost  *)
(* between the readers of one watermark.  The watch lock carries most of   *)
(* it.  Only its holder moves the mark back, so what a watcher has read    *)
(* from stays at or below the mark until it prints; only its holder        *)
(* records a merge, so none is recorded twice.  `ttorch inbox` holds no    *)
(* lock: it takes what is above the mark in the transaction that moves it. *)
(*                                                                         *)
(* The parts beside it follow: ManagedFiles and SharedFiles, for any files,*)
(* leaves, releases and runs.                                              *)
(***************************************************************************)
EXTENDS MCInbox, TLAPS, WellFoundedInduction

Reading == {"loop", "poll", "read", "coalesce", "print"}
Holding == Reading \cup {"mark"}

\* A watcher has the lock from its arming to its end, the scheduler for a
\* sweep, `ttorch inbox` never.
HoldInv ==
  /\ \A w \in Watcher : pc[w] \in Holding <=> lock = w
  /\ pc[Daemon] \in {"poll", "read"} <=> lock = Daemon
  /\ pc[Daemon] \in {"idle", "poll", "read"}
  /\ pc[Console] \in {"idle", "print"}
  /\ \A w \in Watcher : pc[w] = "mark" => w \in Replaying

\* What a poller is about to record is not recorded yet.
TodoInv ==
  \A p \in Poller : todo[p] # NoTask => pc[p] = "poll" /\ ~HasMerged(todo[p])

\* A watcher reads from the mark or from below it, unless it was told where from.
SinceInv ==
  /\ \A w \in Watcher : upto[w] <= Top
  /\ \A w \in Watcher \ Replaying : pc[w] \in Reading => since[w] <= mark
  /\ \A w \in Watcher : pc[w] = "coalesce" => Top >= 1
  /\ \A w \in Watcher : pc[w] = "mark" => upto[w] >= 1

\* Only a reader that is printing has a batch.
BatchInv ==
  /\ shown \subseteq 1 .. Top
  /\ \A r \in Reader : batch[r] \subseteq 1 .. Top
  /\ \A r \in Reader : batch[r] # {} => pc[r] = "print"

\* What became of update i, if not nothing.
Kept(i) ==
  \/ i \in lost \cup passed
  \/ \E j \in shown : Supersedes(j, i)
  \/ \E r \in Reader : i \in batch[r]

\* A replay that has printed leaves nothing above where it read from behind either.
ReplayInv ==
  \A w \in Watcher : pc[w] = "mark" => \A i \in 1 .. upto[w] : i > since[w] => Kept(i)

IInv ==
  /\ TypeOK /\ HoldInv /\ TodoInv /\ SinceInv /\ BatchInv /\ ReplayInv
  /\ NothingSkipped /\ MergedOnce

-----------------------------------------------------------------------------
(* The log *)

LEMMA Highest ==
  ASSUME NEW n \in Nat, NEW S \in SUBSET (1 .. n), S # {}
  PROVE  \E m \in S : \A j \in S : j <= m
<1> DEFINE Depth == {n - j : j \in S}
<1>1. Depth \subseteq Nat /\ Depth # {}
  <2>1. \A j \in S : n - j \in Nat
    OBVIOUS
  <2>2. PICK j \in S : TRUE
    OBVIOUS
  <2> QED
    BY <2>1, <2>2
<1>2. PICK d \in Depth : \A e \in Depth : ~(<<e, d>> \in OpToRel(<, Nat))
  BY <1>1, NatLessThanWellFounded, WFMin
<1>3. \A e \in Depth : ~(e < d)
  BY <1>1, <1>2 DEF OpToRel
<1>4. PICK m \in S : d = n - m
  BY <1>2
<1>5. \A j \in S : n - j \in Depth
  OBVIOUS
<1>6. \A j \in S : ~(n - j < n - m)
  BY <1>3, <1>4, <1>5
<1> QED
  BY <1>6

\* Whatever is collapsed away, a newer update of its entity is shown.
LEMMA Collapsed ==
  ASSUME Top \in Nat, NEW rows \in SUBSET (1 .. Top), NEW i \in rows
  PROVE  \E j \in dedupeByEntity(rows) : Supersedes(j, i)
<1> DEFINE Later == {j \in rows : Supersedes(j, i)}
<1>1. i \in Later
  BY DEF Supersedes
<1>2. PICK m \in Later : \A j \in Later : j <= m
  BY <1>1, Highest
<1>3. ASSUME NEW k \in rows, Supersedes(k, m) PROVE k = m
  <2>1. Supersedes(k, i)
    BY <1>2, <1>3 DEF Supersedes
  <2>2. k <= m /\ k >= m
    BY <1>2, <1>3, <2>1 DEF Supersedes
  <2> QED
    BY <2>2
<1> QED
  BY <1>2, <1>3 DEF dedupeByEntity

LEMMA DedupeSubset == \A rows : dedupeByEntity(rows) \subseteq rows
BY DEF dedupeByEntity

LEMMA LogLength == TypeOK => Top \in Nat /\ Top <= MaxEvents /\ mark \in Nat /\ mark <= Top
BY InboxAssumption DEF TypeOK, Top

\* A recorded event stays where it is.
LEMMA Appended ==
  ASSUME TypeOK, NEW e \in Event, Append1(e)
  PROVE  /\ log' \in Seq(Event)
         /\ Top' = Top + 1 /\ Top' <= MaxEvents /\ log'[Top + 1] = e
         /\ \A i \in 1 .. Top : log'[i] = log[i]
BY InboxAssumption DEF TypeOK, Append1, Top

LEMMA SupersedesStays ==
  ASSUME Top \in Nat, \A i \in 1 .. Top : log'[i] = log[i]
  PROVE  \A i, j \in 1 .. Top : Supersedes(j, i)' <=> Supersedes(j, i)
<1>1. ASSUME NEW i \in 1 .. Top PROVE Key(i)' = Key(i)
  BY DEF Key
<1> QED
  BY <1>1 DEF Supersedes

-----------------------------------------------------------------------------
(* One step.  The invariant is preserved where the log, the mark, what was *)
(* shown or lost, and the batches stay as they are.                        *)

LEMMA InitInv == Init => IInv
<1>1. ASSUME Init PROVE TypeOK
  <2>1. awaiting \in BOOLEAN
    BY <1>1, Zenon DEF Init
  <2>2. log \in Seq(Event) /\ Len(log) = 0 /\ mark = 0
    BY <1>1 DEF Init
  <2> QED
    BY <1>1, <2>1, <2>2, InboxAssumption DEF Init, TypeOK, Id, PC
<1>2. Init => HoldInv /\ TodoInv
  BY InboxAssumption DEF Init, HoldInv, TodoInv, Holding, Reading, Poller
<1>3. Init => SinceInv /\ BatchInv /\ Top = 0
  BY InboxAssumption DEF Init, SinceInv, BatchInv, Reading, Poller, Top
<1>4. Init => ReplayInv
  BY InboxAssumption DEF Init, ReplayInv, Poller
<1>5. Init => NothingSkipped
  BY DEF Init, NothingSkipped
<1>6. Init => MergedOnce
  BY <1>3 DEF MergedOnce
<1> QED
  BY <1>1, <1>2, <1>3, <1>4, <1>5, <1>6 DEF IInv

\* An append by anybody leaves every update in the hands it was in.
LEMMA AppendInv ==
  ASSUME IInv, NEW e \in Event, Append1(e),
         UNCHANGED <<mark, awaiting, merged, shown, lost, passed, batch, lock, pc, since, upto, kills>>,
         todo' \in [Poller -> Task \cup {NoTask}],
         TodoInv', MergedOnce'
  PROVE  IInv'
<1> USE InboxAssumption DEF IInv
<1>1. TypeOK'
  BY Appended, LogLength DEF TypeOK, Top
<1>2. HoldInv'
  BY DEF HoldInv
<1>3. SinceInv' /\ BatchInv'
  <2>1. Top \in Nat /\ Top' = Top + 1
    BY Appended, LogLength
  <2>2. \A w \in Watcher : since[w] \in Nat /\ upto[w] \in Nat
    BY DEF TypeOK
  <2>3. SinceInv'
    BY <2>1, <2>2 DEF SinceInv
  <2> QED
    BY <2>1, <2>3 DEF BatchInv
<1>4. \A i \in 1 .. Top : Kept(i) => Kept(i)'
  BY Appended, LogLength, SupersedesStays DEF Kept, BatchInv
<1>5. ReplayInv'
  BY <1>4, Appended, LogLength DEF ReplayInv, SinceInv, TypeOK
<1>6. NothingSkipped'
  <2>1. \A i \in 1 .. mark : Kept(i)
    BY DEF NothingSkipped, Kept
  <2>2. \A i \in 1 .. mark : Kept(i)'
    BY <1>4, <2>1, LogLength
  <2> QED
    BY <2>2 DEF NothingSkipped, Kept
<1> QED
  BY <1>1, <1>2, <1>3, <1>5, <1>6

LEMMA NewsInv ==
  ASSUME IInv, NEW e \in Event, e.kind # "merged", Append1(e),
         UNCHANGED <<mark, awaiting, merged, shown, lost, passed, batch, lock, pc, since, upto, todo, kills>>
  PROVE  IInv'
<1> USE InboxAssumption DEF IInv
<1>1. \A t \in Task : HasMerged(t)' => HasMerged(t)
  BY Appended, LogLength DEF HasMerged
<1>2. TodoInv'
  BY <1>1 DEF TodoInv, TypeOK
<1>3. MergedOnce'
  BY Appended, LogLength DEF MergedOnce
<1> QED
  BY <1>2, <1>3, AppendInv DEF TypeOK

LEMMA RecordMergedInv ==
  ASSUME IInv, NEW p \in Poller, RecordMerged(p)
  PROVE  IInv'
<1> USE InboxAssumption DEF IInv
<1> DEFINE e == [of |-> todo[p], kind |-> "merged"]
<1>1. todo[p] \in Task /\ e \in Event /\ Append1(e) /\ ~HasMerged(todo[p])
  BY DEF RecordMerged, TypeOK, TodoInv, Event, Kind
<1>2. \A t \in Task : HasMerged(t)' => HasMerged(t) \/ t = todo[p]
  <2>1. Top' = Top + 1 /\ log'[Top + 1] = e /\ \A i \in 1 .. Top : log'[i] = log[i]
    BY <1>1, Appended
  <2> SUFFICES ASSUME NEW t \in Task, NEW i \in 1 .. Top', log'[i] = [of |-> t, kind |-> "merged"], t # todo[p]
               PROVE  HasMerged(t)
    BY DEF HasMerged
  <2>2. i # Top + 1
    BY <2>1
  <2>3. i \in 1 .. Top
    BY <2>1, <2>2, LogLength
  <2> QED
    BY <2>1, <2>3 DEF HasMerged
<1>3. \A q \in Poller : todo[q] # NoTask => q = p
  BY DEF RecordMerged, TodoInv, HoldInv, Holding, Reading, Poller
<1>4. TodoInv'
  BY <1>3 DEF RecordMerged, TodoInv, TypeOK
<1>5. MergedOnce'
  <2>1. \A i \in 1 .. Top : log[i] # e
    BY <1>1 DEF HasMerged
  <2>2. Top' = Top + 1 /\ log'[Top + 1] = e /\ \A i \in 1 .. Top : log'[i] = log[i]
    BY <1>1, Appended
  <2>3. ASSUME NEW i \in 1 .. Top + 1, NEW j \in 1 .. Top + 1,
               log'[i].kind = "merged", log'[i] = log'[j]
        PROVE  i = j
    <3>1. CASE i \in 1 .. Top /\ j \in 1 .. Top
      BY <2>2, <2>3, <3>1 DEF MergedOnce
    <3>2. CASE i = Top + 1 \/ j = Top + 1
      BY <2>1, <2>2, <2>3, <3>2, LogLength
    <3> QED
      BY <3>1, <3>2, LogLength
  <2> QED
    BY <2>2, <2>3 DEF MergedOnce
<1>6. todo' \in [Poller -> Task \cup {NoTask}]
  BY DEF RecordMerged, TypeOK
<1> QED
  BY <1>1, <1>4, <1>5, <1>6, AppendInv DEF RecordMerged

\* Steps that only move a process, the lock or where a watcher reads from.
LEMMA QuietInv ==
  ASSUME IInv, UNCHANGED <<log, mark, shown, lost, passed, batch>>,
         TypeOK', HoldInv', TodoInv', SinceInv',
         \A r \in Reader : pc[r] = "print" => pc'[r] = "print",
         \A w \in Watcher : pc'[w] = "mark" => pc[w] = "mark" /\ since'[w] = since[w] /\ upto'[w] = upto[w]
  PROVE  IInv'
<1> USE DEF IInv
<1>1. BatchInv'
  BY DEF BatchInv, Top
<1>2. \A i : Kept(i)' <=> Kept(i)
  BY DEF Kept, Supersedes, Key
<1>3. ReplayInv'
  BY <1>2 DEF ReplayInv
<1>4. NothingSkipped'
  <2>1. NothingSkipped
    OBVIOUS
  <2>2. \A i, j : Supersedes(j, i)' <=> Supersedes(j, i)
    BY DEF Supersedes, Key
  <2> QED
    BY <2>1, <2>2 DEF NothingSkipped
<1>5. MergedOnce'
  BY DEF MergedOnce, Top
<1> QED
  BY <1>1, <1>3, <1>4, <1>5

\* The lock passes only between a free lock and its one holder.
LEMMA ControlInv ==
  ASSUME IInv,
         \/ \E t \in Task : MergePR(t)
         \/ \E p \in Poller : FindMerged(p) \/ EndPoll(p)
         \/ Tick \/ EndSweep
  PROVE  IInv'
<1> USE InboxAssumption DEF IInv, store
<1>1. ASSUME NEW t \in Task, MergePR(t) PROVE IInv'
  <2>1. TypeOK'
    BY <1>1 DEF MergePR, TypeOK
  <2>2. HoldInv' /\ TodoInv' /\ SinceInv'
    BY <1>1 DEF MergePR, HoldInv, TodoInv, SinceInv, HasMerged, Top
  <2> QED
    BY <1>1, <2>1, <2>2, QuietInv DEF MergePR
<1>2. ASSUME NEW p \in Poller, FindMerged(p) PROVE IInv'
  <2>1. TypeOK'
    BY <1>2 DEF FindMerged, TypeOK
  <2>2. HoldInv' /\ SinceInv'
    BY <1>2 DEF FindMerged, HoldInv, SinceInv, Top
  <2>3. TodoInv'
    BY <1>2 DEF FindMerged, TodoInv, HasMerged, Top, TypeOK
  <2> QED
    BY <1>2, <2>1, <2>2, <2>3, QuietInv DEF FindMerged
<1>3. ASSUME NEW p \in Poller, EndPoll(p) PROVE IInv'
  <2>1. TypeOK'
    BY <1>3 DEF EndPoll, TypeOK, Goto, PC
  <2>2. HoldInv'
    BY <1>3 DEF EndPoll, HoldInv, Goto, Holding, Reading, Poller, TypeOK
  <2>3. TodoInv' /\ SinceInv'
    BY <1>3 DEF EndPoll, TodoInv, SinceInv, Goto, Reading, HasMerged, Top, TypeOK
  <2>4. /\ \A r \in Reader : pc[r] = "print" => pc'[r] = "print"
        /\ \A w \in Watcher : pc'[w] = "mark" => pc[w] = "mark"
    BY <1>3 DEF EndPoll, Goto, TypeOK, Reader, Poller
  <2> QED
    BY <1>3, <2>1, <2>2, <2>3, <2>4, QuietInv DEF EndPoll
<1>4. CASE Tick
  <2>1. TypeOK'
    BY <1>4 DEF Tick, TypeOK, Goto, PC, Poller
  <2>2. HoldInv'
    BY <1>4 DEF Tick, HoldInv, Goto, Holding, Reading, Poller, TypeOK
  <2>3. TodoInv' /\ SinceInv'
    BY <1>4 DEF Tick, TodoInv, SinceInv, Goto, Reading, HasMerged, Top, TypeOK
  <2>4. /\ \A r \in Reader : pc[r] = "print" => pc'[r] = "print"
        /\ \A w \in Watcher : pc'[w] = "mark" => pc[w] = "mark"
    BY <1>4 DEF Tick, Goto, TypeOK, Reader, Poller
  <2> QED
    BY <1>4, <2>1, <2>2, <2>3, <2>4, QuietInv DEF Tick
<1>5. CASE EndSweep
  <2>1. TypeOK'
    BY <1>5 DEF EndSweep, Leave, TypeOK, Goto, PC, Poller
  <2>2. HoldInv'
    BY <1>5 DEF EndSweep, Leave, HoldInv, Goto, Holding, Reading, Poller, TypeOK
  <2>3. TodoInv' /\ SinceInv'
    BY <1>5 DEF EndSweep, Leave, TodoInv, SinceInv, Goto, Reading, HasMerged, Top, TypeOK
  <2>4. /\ \A r \in Reader : pc[r] = "print" => pc'[r] = "print"
        /\ \A w \in Watcher : pc'[w] = "mark" => pc[w] = "mark"
    BY <1>5 DEF EndSweep, Leave, Goto, TypeOK, Reader, Poller
  <2> QED
    BY <1>5, <2>1, <2>2, <2>3, <2>4, QuietInv DEF EndSweep
<1> QED
  BY <1>1, <1>2, <1>3, <1>4, <1>5

LEMMA AwaitLeadInv ==
  ASSUME IInv, AwaitLead
  PROVE  IInv'
<1>1. awaiting' \in BOOLEAN
  BY Zenon DEF AwaitLead
<1>2. UNCHANGED <<log, mark, merged, shown, lost, passed, batch, lock, pc, since, upto, todo, kills>>
  BY Zenon DEF AwaitLead
<1>3. TypeOK'
  BY <1>1, <1>2 DEF IInv, TypeOK
<1>4. HoldInv' /\ TodoInv' /\ SinceInv'
  BY <1>2 DEF IInv, HoldInv, TodoInv, SinceInv, HasMerged, Top
<1> QED
  BY <1>2, <1>3, <1>4, QuietInv

LEMMA WatcherControlInv ==
  ASSUME IInv, NEW w \in Watcher,
         Arm(w) \/ Acquire(w) \/ ReadManager(w) \/ ReadNothing(w) \/ ReadRows(w) \/ Exit(w)
  PROVE  IInv'
<1> USE InboxAssumption DEF IInv, store
<1>1. CASE Arm(w)
  <2>1. awaiting' \in BOOLEAN
    BY <1>1, Zenon DEF Arm
  <2>2. pc[w] = "new" /\ pc' = [pc EXCEPT ![w] = "acquire"]
    BY <1>1, Zenon DEF Arm, Goto
  <2>3. UNCHANGED <<log, mark, merged, shown, lost, passed, batch, lock, since, upto, todo, kills>>
    BY <1>1, Zenon DEF Arm
  <2>4. TypeOK'
    BY <2>1, <2>2, <2>3 DEF TypeOK, PC
  <2>5. HoldInv'
    BY <2>2, <2>3 DEF HoldInv, Holding, Reading, Poller, TypeOK
  <2>6. TodoInv' /\ SinceInv'
    BY <2>2, <2>3 DEF TodoInv, SinceInv, Reading, HasMerged, Top, TypeOK
  <2>7. /\ \A r \in Reader : pc[r] = "print" => pc'[r] = "print"
        /\ \A v \in Watcher : pc'[v] = "mark" => pc[v] = "mark"
    BY <2>2 DEF TypeOK, Reader, Poller
  <2> QED
    BY <2>3, <2>4, <2>5, <2>6, <2>7, QuietInv
<1>2. CASE Acquire(w)
  <2>1. CASE lock = Nobody
    <3>1. /\ pc[w] = "acquire" /\ pc' = [pc EXCEPT ![w] = "loop"] /\ lock' = w
          /\ UNCHANGED <<log, mark, awaiting, merged, shown, lost, passed, batch, upto, todo, kills>>
      BY <1>2, <2>1 DEF Acquire, Goto
    <3>2. PICK n \in 0 .. MaxEvents : since' = [since EXCEPT ![w] = n] /\ (w \notin Replaying => n = mark)
      BY <1>2, <2>1, LogLength DEF Acquire
    <3>3. TypeOK'
      BY <3>1, <3>2, LogLength DEF TypeOK, PC, Poller
    <3>4. HoldInv'
      BY <2>1, <3>1 DEF HoldInv, Holding, Reading, Poller, TypeOK
    <3>5. TodoInv'
      BY <3>1 DEF TodoInv, HasMerged, Top, TypeOK
    <3>6. SinceInv'
      BY <3>1, <3>2, LogLength DEF SinceInv, Reading, Top, TypeOK
    <3>7. /\ \A r \in Reader : pc[r] = "print" => pc'[r] = "print"
          /\ \A v \in Watcher : pc'[v] = "mark" => pc[v] = "mark" /\ since'[v] = since[v] /\ upto'[v] = upto[v]
      BY <3>1, <3>2 DEF TypeOK, Reader, Poller
    <3> QED
      BY <3>1, <3>3, <3>4, <3>5, <3>6, <3>7, QuietInv
  <2>2. CASE lock # Nobody
    <3>1. /\ pc[w] = "acquire" /\ pc' = [pc EXCEPT ![w] = "gone"]
          /\ UNCHANGED <<log, mark, awaiting, merged, shown, lost, passed, batch, lock, since, upto, todo, kills>>
      BY <1>2, <2>2 DEF Acquire, Goto
    <3>2. TypeOK'
      BY <3>1 DEF TypeOK, PC, Poller
    <3>3. HoldInv'
      BY <3>1 DEF HoldInv, Holding, Reading, Poller, TypeOK
    <3>4. TodoInv' /\ SinceInv'
      BY <3>1 DEF TodoInv, SinceInv, Reading, HasMerged, Top, TypeOK
    <3>5. /\ \A r \in Reader : pc[r] = "print" => pc'[r] = "print"
          /\ \A v \in Watcher : pc'[v] = "mark" => pc[v] = "mark"
      BY <3>1 DEF TypeOK, Reader, Poller
    <3> QED
      BY <3>1, <3>2, <3>3, <3>4, <3>5, QuietInv
  <2> QED
    BY <2>1, <2>2
<1>3. CASE ReadManager(w) \/ ReadNothing(w) \/ ReadRows(w)
  <2>1. PICK from \in {"loop", "read"}, to \in {"loop", "poll", "coalesce"} :
          /\ pc[w] = from /\ pc' = [pc EXCEPT ![w] = to]
          /\ to = "coalesce" => Above(since[w]) # {}
    BY <1>3, Zenon DEF ReadManager, ReadNothing, ReadRows, Goto
  <2>2. UNCHANGED <<log, mark, awaiting, merged, shown, lost, passed, batch, lock, since, upto, todo, kills>>
    BY <1>3, Zenon DEF ReadManager, ReadNothing, ReadRows
  <2>3. to = "coalesce" => Top >= 1
    BY <2>1, LogLength DEF Above
  <2>4. TypeOK'
    BY <2>1, <2>2 DEF TypeOK, PC, Poller
  <2>5. HoldInv'
    BY <2>1, <2>2 DEF HoldInv, Holding, Reading, Poller, TypeOK
  <2>6. TodoInv' /\ SinceInv'
    BY <2>1, <2>2, <2>3 DEF TodoInv, SinceInv, Reading, HasMerged, Top, TypeOK, Poller
  <2>7. /\ \A r \in Reader : pc[r] = "print" => pc'[r] = "print"
        /\ \A v \in Watcher : pc'[v] = "mark" => pc[v] = "mark"
    BY <2>1 DEF TypeOK, Reader, Poller
  <2> QED
    BY <2>2, <2>4, <2>5, <2>6, <2>7, QuietInv
<1>4. CASE Exit(w)
  <2>1. /\ pc[w] \in {"loop", "coalesce"} /\ pc' = [pc EXCEPT ![w] = "gone"]
        /\ since' = [since EXCEPT ![w] = 0] /\ upto' = [upto EXCEPT ![w] = 0]
        /\ lock' = IF lock = w THEN Nobody ELSE lock
        /\ UNCHANGED <<log, mark, awaiting, merged, shown, lost, passed, batch, todo, kills>>
    BY <1>4 DEF Exit, EndWatch, Leave, Goto
  <2>2. TypeOK'
    BY <2>1, LogLength DEF TypeOK, PC, Poller
  <2>3. HoldInv'
    BY <2>1 DEF HoldInv, Holding, Reading, Poller, TypeOK
  <2>4. TodoInv'
    BY <2>1 DEF TodoInv, HasMerged, Top, TypeOK
  <2>5. SinceInv'
    BY <2>1, LogLength DEF SinceInv, Reading, Top, TypeOK
  <2>6. /\ \A r \in Reader : pc[r] = "print" => pc'[r] = "print"
        /\ \A v \in Watcher : pc'[v] = "mark" => pc[v] = "mark" /\ since'[v] = since[v] /\ upto'[v] = upto[v]
    BY <2>1 DEF TypeOK, Reader, Poller
  <2> QED
    BY <2>1, <2>2, <2>3, <2>4, <2>5, <2>6, QuietInv
<1> QED
  BY <1>1, <1>2, <1>3, <1>4

-----------------------------------------------------------------------------
(* Steps that claim, print, mark, or lose *)

LEMMA KeptBelow == NothingSkipped <=> \A i \in 1 .. mark : Kept(i)
BY DEF NothingSkipped, Kept

LEMMA SameOrder ==
  ASSUME UNCHANGED log
  PROVE  /\ Top' = Top
         /\ \A i, j : Supersedes(j, i)' <=> Supersedes(j, i)
         /\ \A t : HasMerged(t)' <=> HasMerged(t)
         /\ MergedOnce => MergedOnce'
BY DEF Top, Supersedes, Key, HasMerged, MergedOnce

LEMMA DataInv ==
  ASSUME IInv, UNCHANGED log, TypeOK', HoldInv', TodoInv', SinceInv', BatchInv',
         \A i \in 1 .. mark' : Kept(i)',
         \A w \in Watcher : pc'[w] = "mark" => \A i \in 1 .. upto'[w] : i > since'[w] => Kept(i)'
  PROVE  IInv'
<1>1. NothingSkipped'
  BY DEF NothingSkipped, Kept
<1> QED
  BY <1>1, SameOrder DEF IInv, ReplayInv

\* A claim: from the mark up, into empty hands.
LEMMA ClaimKeeps ==
  ASSUME IInv, NEW r \in Reader, batch[r] = {},
         batch' = [batch EXCEPT ![r] = Above(mark)],
         UNCHANGED <<log, shown, lost, passed>>
  PROVE  /\ \A i \in 1 .. Top : Kept(i)'
         /\ batch' \in [Reader -> SUBSET Id]
         /\ \A q \in Reader : batch'[q] \subseteq 1 .. Top
<1>1. batch'[r] = Above(mark) /\ \A q \in Reader : q # r => batch'[q] = batch[q]
  BY DEF IInv, TypeOK
<1>2. ASSUME NEW i \in 1 .. Top PROVE Kept(i)'
  <2>1. CASE i <= mark
    <3>1. Kept(i)
      BY <2>1, KeptBelow, LogLength DEF IInv
    <3> QED
      BY <1>1, <3>1, SameOrder DEF Kept
  <2>2. CASE i > mark
    BY <1>1, <2>2 DEF Kept, Above
  <2> QED
    BY <2>1, <2>2, LogLength DEF IInv
<1>3. Above(mark) \subseteq 1 .. Top
  BY DEF Above
<1>4. Above(mark) \subseteq Id
  BY <1>3, LogLength, InboxAssumption DEF IInv, Id
<1> QED
  BY <1>1, <1>2, <1>3, <1>4 DEF IInv, TypeOK, BatchInv

LEMMA InboxInv ==
  ASSUME IInv, Inbox
  PROVE  IInv'
<1> USE InboxAssumption
<1>1. awaiting' \in BOOLEAN
  BY Zenon DEF Inbox
<1>2. pc[Console] = "idle" /\ UNCHANGED <<log, merged, shown, lost, passed, lock, since, upto, todo, kills>>
  BY Zenon DEF Inbox
<1>3. CASE Above(mark) # {}
  <2>1. /\ batch' = [batch EXCEPT ![Console] = Above(mark)] /\ mark' = Top
        /\ pc' = [pc EXCEPT ![Console] = "print"]
    BY <1>3, Zenon DEF Inbox, Goto
  <2>2. batch[Console] = {}
    BY <1>2 DEF IInv, BatchInv, Reader
  <2>3. /\ \A i \in 1 .. Top : Kept(i)'
        /\ batch' \in [Reader -> SUBSET Id]
        /\ \A q \in Reader : batch'[q] \subseteq 1 .. Top
    BY <1>2, <2>1, <2>2, ClaimKeeps DEF Reader
  <2>4. TypeOK'
    BY <1>1, <1>2, <2>1, <2>3, LogLength DEF IInv, TypeOK, PC, Top
  <2>5. HoldInv' /\ TodoInv'
    BY <1>2, <2>1, SameOrder DEF IInv, HoldInv, TodoInv, Holding, Reading, TypeOK, Poller
  <2>6. SinceInv'
    BY <1>2, <2>1, SameOrder, LogLength DEF IInv, SinceInv, TypeOK, Reading
  <2>7. BatchInv'
    BY <1>2, <2>1, <2>3, SameOrder DEF IInv, BatchInv, TypeOK, Reader, Poller
  <2>8. \A w \in Watcher : pc'[w] = "mark" => \A i \in 1 .. upto'[w] : i > since'[w] => Kept(i)'
    BY <1>2, <2>1, <2>3, LogLength DEF IInv, SinceInv, TypeOK
  <2> QED
    BY <1>2, <2>1, <2>3, <2>4, <2>5, <2>6, <2>7, <2>8, DataInv
<1>4. CASE Above(mark) = {}
  <2>1. UNCHANGED <<batch, mark, pc>>
    BY <1>4, Zenon DEF Inbox
  <2>2. TypeOK'
    BY <1>1, <1>2, <2>1 DEF IInv, TypeOK
  <2>3. HoldInv' /\ TodoInv' /\ SinceInv'
    BY <1>2, <2>1, SameOrder DEF IInv, HoldInv, TodoInv, SinceInv
  <2> QED
    BY <1>2, <2>1, <2>2, <2>3, QuietInv
<1> QED
  BY <1>3, <1>4

LEMMA ConsumeInv ==
  ASSUME IInv, NEW w \in Watcher, Consume(w)
  PROVE  IInv'
<1> USE InboxAssumption
<1>1. /\ pc[w] = "coalesce" /\ w \in Reader
      /\ w \notin Replaying
      /\ UNCHANGED <<log, awaiting, merged, shown, lost, passed, lock, upto, todo, kills>>
  BY DEF Consume, Reader
<1>2. (IF since[w] > mark THEN since[w] ELSE mark) = mark
  BY <1>1, LogLength DEF IInv, SinceInv, TypeOK, Reading
<1>3. CASE Above(mark) # {}
  <2>1. /\ batch' = [batch EXCEPT ![w] = Above(mark)] /\ mark' = Top
        /\ pc' = [pc EXCEPT ![w] = "print"] /\ since' = since
    BY <1>2, <1>3 DEF Consume, Goto
  <2>2. batch[w] = {}
    BY <1>1 DEF IInv, BatchInv
  <2>3. /\ \A i \in 1 .. Top : Kept(i)'
        /\ batch' \in [Reader -> SUBSET Id]
        /\ \A q \in Reader : batch'[q] \subseteq 1 .. Top
    BY <1>1, <2>1, <2>2, ClaimKeeps
  <2>4. TypeOK'
    BY <1>1, <2>1, <2>3, LogLength DEF IInv, TypeOK, PC, Top, Poller
  <2>5. HoldInv' /\ TodoInv'
    BY <1>1, <2>1, SameOrder DEF IInv, HoldInv, TodoInv, Holding, Reading, TypeOK, Poller
  <2>6. SinceInv'
    BY <1>1, <2>1, SameOrder, LogLength DEF IInv, SinceInv, TypeOK, Reading
  <2>7. BatchInv'
    BY <1>1, <2>1, <2>3, SameOrder DEF IInv, BatchInv, TypeOK, Reader, Poller
  <2>8. \A v \in Watcher : pc'[v] = "mark" => \A i \in 1 .. upto'[v] : i > since'[v] => Kept(i)'
    BY <1>1, <2>1, <2>3, LogLength DEF IInv, SinceInv, TypeOK
  <2> QED
    BY <1>1, <2>1, <2>3, <2>4, <2>5, <2>6, <2>7, <2>8, DataInv
<1>4. CASE Above(mark) = {}
  <2>1. /\ since' = [since EXCEPT ![w] = mark] /\ pc' = [pc EXCEPT ![w] = "loop"]
        /\ UNCHANGED <<batch, mark>>
    BY <1>2, <1>4 DEF Consume, Goto
  <2>2. TypeOK'
    BY <1>1, <2>1, LogLength DEF IInv, TypeOK, PC, Poller
  <2>3. HoldInv' /\ TodoInv'
    BY <1>1, <2>1, SameOrder DEF IInv, HoldInv, TodoInv, Holding, Reading, TypeOK, Poller
  <2>4. SinceInv'
    BY <1>1, <2>1, SameOrder, LogLength DEF IInv, SinceInv, TypeOK, Reading
  <2>5. /\ \A r \in Reader : pc[r] = "print" => pc'[r] = "print"
        /\ \A v \in Watcher : pc'[v] = "mark" => pc[v] = "mark" /\ since'[v] = since[v] /\ upto'[v] = upto[v]
    BY <1>1, <2>1 DEF IInv, TypeOK, Reader, Poller
  <2> QED
    BY <1>1, <2>1, <2>2, <2>3, <2>4, <2>5, QuietInv
<1> QED
  BY <1>3, <1>4

\* What is printed stands for the whole batch.
LEMMA PrintKeeps ==
  ASSUME IInv, NEW r \in Reader, NEW rows \in SUBSET (1 .. Top),
         batch[r] \subseteq rows \/ batch' = batch,
         batch' = [batch EXCEPT ![r] = {}] \/ batch' = batch,
         shown' = shown \cup dedupeByEntity(rows),
         UNCHANGED <<log, lost, passed>>
  PROVE  /\ \A i \in 1 .. Top : Kept(i) => Kept(i)'
         /\ \A i \in rows : Kept(i)'
         /\ batch' \in [Reader -> SUBSET Id]
         /\ shown' \subseteq 1 .. Top /\ shown' \subseteq Id
<1>1. \A i \in rows : \E j \in shown' : Supersedes(j, i)
  BY Collapsed, LogLength DEF IInv
<1>2. \A i \in rows : Kept(i)'
  BY <1>1, SameOrder DEF Kept
<1>3. ASSUME NEW i \in 1 .. Top, Kept(i) PROVE Kept(i)'
  <2>1. CASE i \in lost \cup passed \/ \E j \in shown : Supersedes(j, i)
    BY <2>1, SameOrder DEF Kept
  <2>2. ASSUME NEW q \in Reader, i \in batch[q] PROVE Kept(i)'
    <3>1. i \in batch'[q] \/ i \in rows
      BY <2>2 DEF IInv, TypeOK
    <3> QED
      BY <1>2, <3>1 DEF Kept
  <2> QED
    BY <1>3, <2>1, <2>2 DEF Kept
<1>4. batch' \in [Reader -> SUBSET Id]
  BY DEF IInv, TypeOK
<1>5. shown' \subseteq 1 .. Top
  BY DedupeSubset DEF IInv, BatchInv
<1>6. shown' \subseteq Id
  BY <1>5, LogLength, InboxAssumption DEF IInv, Id
<1> QED
  BY <1>2, <1>3, <1>4, <1>5, <1>6

LEMMA PrintInboxInv ==
  ASSUME IInv, PrintInbox
  PROVE  IInv'
<1> USE InboxAssumption
<1>1. /\ pc[Console] = "print" /\ pc' = [pc EXCEPT ![Console] = "idle"]
      /\ shown' = shown \cup dedupeByEntity(batch[Console])
      /\ batch' = [batch EXCEPT ![Console] = {}]
      /\ UNCHANGED <<log, mark, awaiting, merged, lost, passed, lock, since, upto, todo, kills>>
  BY DEF PrintInbox, Goto, store
<1>2. batch[Console] \subseteq 1 .. Top /\ Console \in Reader
  BY DEF IInv, BatchInv, Reader
<1>3. /\ \A i \in 1 .. Top : Kept(i) => Kept(i)'
      /\ batch' \in [Reader -> SUBSET Id]
      /\ shown' \subseteq 1 .. Top /\ shown' \subseteq Id
  BY <1>1, <1>2, PrintKeeps
<1>4. TypeOK'
  BY <1>1, <1>3 DEF IInv, TypeOK, PC, Poller
<1>5. HoldInv' /\ TodoInv'
  BY <1>1, SameOrder DEF IInv, HoldInv, TodoInv, Holding, Reading, TypeOK, Poller
<1>6. SinceInv'
  BY <1>1, SameOrder DEF IInv, SinceInv, TypeOK, Reading
<1>7. BatchInv'
  BY <1>1, <1>2, <1>3, SameOrder DEF IInv, BatchInv, TypeOK, Reader, Poller
<1>8. \A i \in 1 .. mark' : Kept(i)'
  BY <1>1, <1>3, KeptBelow, LogLength DEF IInv
<1>9. \A v \in Watcher : pc'[v] = "mark" => \A i \in 1 .. upto'[v] : i > since'[v] => Kept(i)'
  BY <1>1, <1>3, LogLength DEF IInv, SinceInv, ReplayInv, TypeOK
<1> QED
  BY <1>1, <1>4, <1>5, <1>6, <1>7, <1>8, <1>9, DataInv

LEMMA PrintBatchInv ==
  ASSUME IInv, NEW w \in Watcher, PrintBatch(w)
  PROVE  IInv'
<1> USE InboxAssumption
<1>1. /\ pc[w] = "print" /\ pc' = [pc EXCEPT ![w] = "gone"]
      /\ shown' = shown \cup dedupeByEntity(batch[w])
      /\ batch' = [batch EXCEPT ![w] = {}]
      /\ since' = [since EXCEPT ![w] = 0] /\ upto' = [upto EXCEPT ![w] = 0]
      /\ lock' = IF lock = w THEN Nobody ELSE lock
      /\ UNCHANGED <<log, mark, awaiting, merged, lost, passed, todo, kills>>
  BY DEF PrintBatch, EndWatch, Leave, Goto, store
<1>2. batch[w] \subseteq 1 .. Top /\ w \in Reader
  BY DEF IInv, BatchInv, Reader
<1>3. /\ \A i \in 1 .. Top : Kept(i) => Kept(i)'
      /\ batch' \in [Reader -> SUBSET Id]
      /\ shown' \subseteq 1 .. Top /\ shown' \subseteq Id
  BY <1>1, <1>2, PrintKeeps
<1>4. TypeOK'
  BY <1>1, <1>3 DEF IInv, TypeOK, PC, Poller
<1>5. HoldInv' /\ TodoInv'
  BY <1>1, SameOrder DEF IInv, HoldInv, TodoInv, Holding, Reading, TypeOK, Poller
<1>6. SinceInv'
  BY <1>1, SameOrder, LogLength DEF IInv, SinceInv, TypeOK, Reading
<1>7. BatchInv'
  BY <1>1, <1>2, <1>3, SameOrder DEF IInv, BatchInv, TypeOK, Reader, Poller
<1>8. \A i \in 1 .. mark' : Kept(i)'
  BY <1>1, <1>3, KeptBelow, LogLength DEF IInv
<1>9. \A v \in Watcher : pc'[v] = "mark" => \A i \in 1 .. upto'[v] : i > since'[v] => Kept(i)'
  BY <1>1, <1>3, LogLength DEF IInv, SinceInv, ReplayInv, TypeOK
<1> QED
  BY <1>1, <1>4, <1>5, <1>6, <1>7, <1>8, <1>9, DataInv

\* A replay prints all above where it reads from.
LEMMA PrintRowsInv ==
  ASSUME IInv, NEW w \in Watcher, PrintRows(w)
  PROVE  IInv'
<1> USE InboxAssumption
<1>1. /\ pc[w] = "coalesce" /\ w \in Replaying /\ pc' = [pc EXCEPT ![w] = "mark"]
      /\ shown' = shown \cup dedupeByEntity(Above(since[w]))
      /\ upto' = [upto EXCEPT ![w] = Top]
      /\ UNCHANGED <<log, mark, awaiting, merged, lost, passed, batch, lock, since, todo, kills>>
  BY DEF PrintRows, Goto, store
<1>2. Above(since[w]) \in SUBSET (1 .. Top) /\ w \in Reader
  BY DEF Above, Reader
<1>3. /\ \A i \in 1 .. Top : Kept(i) => Kept(i)'
      /\ \A i \in Above(since[w]) : Kept(i)'
      /\ shown' \subseteq 1 .. Top /\ shown' \subseteq Id
  BY <1>1, <1>2, PrintKeeps
<1>4. TypeOK'
  BY <1>1, <1>3, LogLength DEF IInv, TypeOK, PC, Poller
<1>5. HoldInv' /\ TodoInv'
  BY <1>1, SameOrder DEF IInv, HoldInv, TodoInv, Holding, Reading, TypeOK, Poller
<1>6. SinceInv'
  <2>1. Top >= 1 /\ Top \in Nat /\ upto'[w] = Top /\ pc'[w] = "mark"
    BY <1>1, LogLength DEF IInv, SinceInv, TypeOK, Poller
  <2>2. \A v \in Watcher : v # w => upto'[v] = upto[v] /\ pc'[v] = pc[v]
    BY <1>1 DEF IInv, TypeOK, Poller
  <2> QED
    BY <1>1, <2>1, <2>2, SameOrder DEF IInv, SinceInv, Reading
<1>7. BatchInv'
  BY <1>1, <1>3, SameOrder DEF IInv, BatchInv, TypeOK, Reader, Poller
<1>8. \A i \in 1 .. mark' : Kept(i)'
  BY <1>1, <1>3, KeptBelow, LogLength DEF IInv
<1>9. \A i \in 1 .. Top : i > since[w] => Kept(i)'
  BY <1>3 DEF Above
<1>10. \A v \in Watcher : pc'[v] = "mark" => \A i \in 1 .. upto'[v] : i > since'[v] => Kept(i)'
  <2>1. \A v \in Watcher : v # w => pc'[v] # "mark"
    BY <1>1 DEF IInv, HoldInv, TypeOK, Holding, Reading, Poller
  <2>2. upto'[w] = Top /\ since' = since
    BY <1>1 DEF IInv, TypeOK
  <2> QED
    BY <1>9, <2>1, <2>2
<1> QED
  BY <1>1, <1>4, <1>5, <1>6, <1>7, <1>8, <1>10, DataInv

LEMMA SetWatermarkInv ==
  ASSUME IInv, NEW w \in Watcher, SetWatermark(w)
  PROVE  IInv'
<1> USE InboxAssumption
<1>1. /\ pc[w] = "mark" /\ pc' = [pc EXCEPT ![w] = "gone"]
      /\ mark' = upto[w] /\ passed' = passed \cup (Above(mark) \ Above(since[w]))
      /\ since' = [since EXCEPT ![w] = 0] /\ upto' = [upto EXCEPT ![w] = 0]
      /\ lock' = IF lock = w THEN Nobody ELSE lock
      /\ UNCHANGED <<log, awaiting, merged, shown, lost, batch, todo, kills>>
  BY DEF SetWatermark, EndWatch, Leave, Goto
<1>2. upto[w] \in 0 .. Top /\ passed' \in SUBSET Id
  <2>1. Above(mark) \subseteq Id
    BY LogLength, InboxAssumption DEF IInv, Id, Above
  <2> QED
    BY <1>1, <2>1, LogLength DEF IInv, SinceInv, TypeOK
<1>3. \A i : Kept(i) => Kept(i)'
  BY <1>1, SameOrder DEF Kept
<1>4. TypeOK'
  BY <1>1, <1>2, LogLength DEF IInv, TypeOK, PC, Poller, Top
<1>5. HoldInv' /\ TodoInv'
  BY <1>1, SameOrder DEF IInv, HoldInv, TodoInv, Holding, Reading, TypeOK, Poller
<1>6. \A v \in Watcher : pc[v] \in Reading => v = w
  BY <1>1 DEF IInv, HoldInv, Holding
<1>7. SinceInv'
  <2>1. \A v \in Watcher : upto'[v] \in Nat /\ upto'[v] <= Top
    BY <1>1, LogLength DEF IInv, SinceInv, TypeOK
  <2>2. \A v \in Watcher : pc'[v] \notin Reading
    BY <1>1, <1>6 DEF IInv, TypeOK, Reading, Poller
  <2>3. \A v \in Watcher : pc'[v] # "mark"
    BY <1>1 DEF IInv, HoldInv, TypeOK, Holding, Poller
  <2> QED
    BY <2>1, <2>2, <2>3, <1>1, SameOrder DEF SinceInv, Reading
<1>8. BatchInv'
  BY <1>1, SameOrder DEF IInv, BatchInv, TypeOK, Reader, Poller
<1>9. ASSUME NEW i \in 1 .. mark' PROVE Kept(i)'
  <2>1. i \in 1 .. Top /\ i \in 1 .. upto[w] /\ since[w] \in Nat
    BY <1>1, <1>2, LogLength DEF IInv, TypeOK
  <2>2. CASE i > since[w]
    BY <1>1, <1>3, <2>1, <2>2 DEF IInv, ReplayInv
  <2>3. CASE i <= mark
    BY <1>3, <2>1, <2>3, KeptBelow, LogLength DEF IInv
  <2>4. CASE i > mark /\ i <= since[w]
    <3>1. i \in passed'
      BY <1>1, <2>1, <2>4 DEF Above
    <3> QED
      BY <3>1 DEF Kept
  <2> QED
    BY <2>1, <2>2, <2>3, <2>4, LogLength DEF IInv
<1>10. \A v \in Watcher : pc'[v] = "mark" => \A i \in 1 .. upto'[v] : i > since'[v] => Kept(i)'
  BY <1>1, <1>3 DEF IInv, ReplayInv, TypeOK
<1> QED
  BY <1>1, <1>4, <1>5, <1>7, <1>8, <1>9, <1>10, DataInv

LEMMA KillInv ==
  ASSUME IInv, NEW p \in Poller \cup Reader, Kill(p)
  PROVE  IInv'
<1> USE InboxAssumption
<1> DEFINE to == IF p \in Watcher THEN "gone" ELSE "idle"
<1>1. /\ pc[p] \notin {"new", "gone", "idle"} /\ pc' = [pc EXCEPT ![p] = to]
      /\ lock' = IF lock = p THEN Nobody ELSE lock
      /\ kills < MaxKills /\ kills' = kills + 1
      /\ UNCHANGED <<log, mark, awaiting, merged, shown, passed>>
  BY DEF Kill, Leave, Goto, store
<1>2. /\ lost' = IF p \in Reader THEN lost \cup batch[p] ELSE lost
      /\ batch' = [q \in Reader |-> IF q = p THEN {} ELSE batch[q]]
      /\ todo' = [q \in Poller |-> IF q = p THEN NoTask ELSE todo[q]]
      /\ since' = [w \in Watcher |-> IF w = p THEN 0 ELSE since[w]]
      /\ upto' = [w \in Watcher |-> IF w = p THEN 0 ELSE upto[w]]
  BY DEF Kill
<1>3. \A i : Kept(i) => Kept(i)'
  BY <1>1, <1>2, SameOrder DEF Kept
<1>4. TypeOK'
  <2>1. lost' \in SUBSET Id /\ batch' \in [Reader -> SUBSET Id]
    BY <1>2 DEF IInv, TypeOK
  <2>2. pc' \in [Poller \cup {Console} -> PC] /\ lock' \in Poller \cup {Nobody}
    BY <1>1 DEF IInv, TypeOK, PC
  <2>3. since' \in [Watcher -> 0 .. MaxEvents] /\ upto' \in [Watcher -> 0 .. MaxEvents] /\ todo' \in [Poller -> Task \cup {NoTask}]
    BY <1>2 DEF IInv, TypeOK
  <2> QED
    BY <1>1, <2>1, <2>2, <2>3 DEF IInv, TypeOK
<1>5. HoldInv'
  BY <1>1 DEF IInv, HoldInv, Holding, Reading, TypeOK, Poller, Reader
<1>6. TodoInv'
  BY <1>1, <1>2, SameOrder DEF IInv, TodoInv, TypeOK
<1>7. SinceInv'
  <2>1. \A w \in Watcher : w # p => since'[w] = since[w] /\ upto'[w] = upto[w] /\ pc'[w] = pc[w]
    BY <1>1, <1>2 DEF IInv, TypeOK, Poller
  <2>2. p \in Watcher => since'[p] = 0 /\ upto'[p] = 0 /\ pc'[p] = "gone"
    BY <1>1, <1>2 DEF IInv, TypeOK, Poller
  <2> QED
    BY <1>1, <2>1, <2>2, SameOrder, LogLength DEF IInv, SinceInv, Reading
<1>8. BatchInv'
  BY <1>1, <1>2, SameOrder DEF IInv, BatchInv, TypeOK, Reader, Poller
<1>9. \A i \in 1 .. mark' : Kept(i)'
  BY <1>1, <1>3, KeptBelow DEF IInv
<1>10. \A v \in Watcher : pc'[v] = "mark" => \A i \in 1 .. upto'[v] : i > since'[v] => Kept(i)'
  BY <1>1, <1>2, <1>3 DEF IInv, ReplayInv, TypeOK, Poller
<1> QED
  BY <1>1, <1>4, <1>5, <1>6, <1>7, <1>8, <1>9, <1>10, DataInv

-----------------------------------------------------------------------------
LEMMA StepInv == IInv /\ [Next]_vars => IInv'
<1> SUFFICES ASSUME IInv, [Next]_vars PROVE IInv'
  OBVIOUS
<1>1. ASSUME NEW t \in Task, Report(t) PROVE IInv'
  <2>1. PICK k \in {"status", "exited"} : Append1([of |-> t, kind |-> k])
    BY <1>1 DEF Report
  <2>2. [of |-> t, kind |-> k] \in Event /\ [of |-> t, kind |-> k].kind # "merged"
    BY DEF Event, Kind
  <2> QED
    BY <1>1, <2>1, <2>2, NewsInv DEF Report
<1>2. ASSUME Decision \/ Check PROVE IInv'
  <2>1. PICK k \in {"decision", "stalled"} : Append1([of |-> Manager, kind |-> k])
    BY <1>2 DEF Decision, Check
  <2>2. [of |-> Manager, kind |-> k] \in Event /\ [of |-> Manager, kind |-> k].kind # "merged"
    BY DEF Event, Kind
  <2> QED
    BY <1>2, <2>1, <2>2, NewsInv DEF Decision, Check
<1>3. CASE UNCHANGED vars
  <2>1. UNCHANGED <<log, mark, awaiting, merged, shown, lost, passed, batch, lock, pc, since, upto, todo, kills>>
    BY <1>3 DEF vars, store
  <2>2. TypeOK' /\ HoldInv' /\ TodoInv' /\ SinceInv'
    BY <2>1, SameOrder DEF IInv, TypeOK, HoldInv, TodoInv, SinceInv
  <2> QED
    BY <2>1, <2>2, QuietInv
<1>4. ASSUME NEW w \in Watcher, Arm(w) \/ WatcherStep(w) \/ Exit(w) PROVE IInv'
  BY <1>4, WatcherControlInv, ConsumeInv, PrintRowsInv, SetWatermarkInv, PrintBatchInv
     DEF WatcherStep
<1>5. ASSUME NEW p \in Poller, FindMerged(p) \/ RecordMerged(p) \/ EndPoll(p) PROVE IInv'
  BY <1>5, ControlInv, RecordMergedInv
<1>6. CASE Next
  BY <1>1, <1>2, <1>4, <1>5, <1>6, ControlInv, AwaitLeadInv, InboxInv, PrintInboxInv, KillInv
     DEF Next
<1> QED
  BY <1>3, <1>6

\* The store and its readers keep their types, for every number of readers and
\* every bound; in particular the watermark never passes the last event (db,
\* ConsumeActionable and SetWatermark).
THEOREM TypeCorrect == Spec => []TypeOK
<1>1. IInv => TypeOK
  BY DEF IInv
<1> QED
  BY <1>1, InitInv, StepInv, PTL DEF Spec

\* Whatever is at or below the watermark was printed, stands behind a newer
\* printed event of its entity, or was in the hands of a reader that was killed
\* (inbox.go; db/inbox.go, ConsumeActionable).
THEOREM NothingIsSkipped == Spec => []NothingSkipped
<1>1. IInv => NothingSkipped
  BY DEF IInv
<1> QED
  BY <1>1, InitInv, StepInv, PTL DEF Spec

\* A merged PR is recorded at most once, whoever polls and whoever is killed
\* between the check and the record (watch.go, pollArmedPRs).
THEOREM MergedRecordedOnce == Spec => []MergedOnce
<1>1. IInv => MergedOnce
  BY DEF IInv
<1> QED
  BY <1>1, InitInv, StepInv, PTL DEF Spec

-----------------------------------------------------------------------------
(* The refinement *)

LEMMA AboveMark ==
  ASSUME TypeOK, Above(mark) # {}
  PROVE  mark < Top /\ Above(mark) = mark + 1 .. Top
BY LogLength DEF Above

LEMMA InitMaps == Init => Box!Init
BY DEF Init, Box!Init, Top

LEMMA PostMaps ==
  ASSUME IInv, NEW e \in Event, Append1(e), UNCHANGED <<mark, batch>>
  PROVE  Box!Next
BY Appended DEF IInv, Box!Next, Box!Post

LEMMA StepMaps == IInv /\ [Next]_vars => [Box!Next]_Box!vars
<1> SUFFICES ASSUME IInv, [Next]_vars PROVE Box!Next \/ UNCHANGED <<Top, mark, batch>>
  BY DEF Box!vars
<1>1. ASSUME UNCHANGED <<log, mark, batch>> PROVE UNCHANGED <<Top, mark, batch>>
  BY <1>1 DEF Top
<1>2. ASSUME NEW t \in Task, Report(t) PROVE Box!Next
  <2>1. PICK k \in {"status", "exited"} : Append1([of |-> t, kind |-> k])
    BY <1>2 DEF Report
  <2>2. [of |-> t, kind |-> k] \in Event
    BY DEF Event, Kind
  <2> QED
    BY <1>2, <2>1, <2>2, PostMaps DEF Report
<1>3. ASSUME Decision \/ Check PROVE Box!Next
  <2>1. PICK k \in {"decision", "stalled"} : Append1([of |-> Manager, kind |-> k])
    BY <1>3 DEF Decision, Check
  <2>2. [of |-> Manager, kind |-> k] \in Event
    BY DEF Event, Kind
  <2> QED
    BY <1>3, <2>1, <2>2, PostMaps DEF Decision, Check
<1>4. ASSUME NEW p \in Poller, RecordMerged(p) PROVE Box!Next
  <2>1. [of |-> todo[p], kind |-> "merged"] \in Event
    BY <1>4 DEF RecordMerged, IInv, TypeOK, Event, Kind
  <2> QED
    BY <1>4, <2>1, PostMaps DEF RecordMerged
<1>5. ASSUME NEW r \in Reader, Above(mark) # {}, mark' = Top, UNCHANGED log,
             batch' = [batch EXCEPT ![r] = Above(mark)]
      PROVE  Box!Next
  BY <1>5, AboveMark DEF IInv, Box!Next, Box!Take, Top
<1>6. ASSUME NEW r \in Reader, UNCHANGED <<log, mark>>, batch' = [batch EXCEPT ![r] = {}]
      PROVE  Box!Next
  BY <1>6 DEF Box!Next, Box!PutDown, Top
<1>7. CASE Inbox
  <2>1. Console \in Reader /\ UNCHANGED log
    BY <1>7, Zenon DEF Inbox, Reader
  <2>2. \/ /\ Above(mark) # {} /\ batch' = [batch EXCEPT ![Console] = Above(mark)] /\ mark' = Top
        \/ UNCHANGED <<batch, mark>>
    BY <1>7, Zenon DEF Inbox
  <2> QED
    BY <1>1, <1>5, <2>1, <2>2
<1>8. CASE PrintInbox
  BY <1>6, <1>8 DEF PrintInbox, Reader, store
<1>9. ASSUME NEW w \in Watcher, Consume(w) PROVE Box!Next \/ UNCHANGED <<Top, mark, batch>>
  <2>1. (IF since[w] > mark THEN since[w] ELSE mark) = mark
    BY <1>9, LogLength DEF Consume, IInv, SinceInv, TypeOK, Reading
  <2> QED
    BY <1>1, <1>5, <1>9, <2>1 DEF Consume, Reader
<1>10. ASSUME NEW w \in Watcher, PrintBatch(w) PROVE Box!Next
  BY <1>6, <1>10 DEF PrintBatch, Reader, store
<1>11. ASSUME NEW w \in Watcher, SetWatermark(w) PROVE Box!Next
  <2>1. upto[w] \in 1 .. Top
    BY <1>11, LogLength DEF SetWatermark, IInv, SinceInv, TypeOK
  <2> QED
    BY <1>11, <2>1 DEF SetWatermark, Box!Next, Box!Replay, Top
<1>12. ASSUME NEW p \in Poller \cup Reader, Kill(p)
       PROVE  Box!Next \/ UNCHANGED <<Top, mark, batch>>
  <2>1. batch' = [q \in Reader |-> IF q = p THEN {} ELSE batch[q]] /\ UNCHANGED <<log, mark>>
    BY <1>12 DEF Kill, store
  <2>2. CASE p \in Reader
    BY <1>6, <2>1, <2>2 DEF IInv, TypeOK
  <2>3. CASE p \notin Reader
    BY <1>1, <2>1, <2>3 DEF IInv, TypeOK
  <2> QED
    BY <2>2, <2>3
<1>13. ASSUME NEW w \in Watcher,
              \/ Arm(w) \/ Acquire(w) \/ ReadManager(w) \/ ReadNothing(w) \/ ReadRows(w)
              \/ PrintRows(w) \/ Exit(w)
       PROVE  UNCHANGED <<log, mark, batch>>
  BY <1>13, Zenon DEF Arm, Acquire, ReadManager, ReadNothing, ReadRows, PrintRows, Exit, store
<1>14. ASSUME \/ \E t \in Task : MergePR(t)
              \/ \E p \in Poller : FindMerged(p) \/ EndPoll(p)
              \/ Tick \/ EndSweep \/ AwaitLead \/ UNCHANGED vars
       PROVE  UNCHANGED <<log, mark, batch>>
  BY <1>14, Zenon DEF MergePR, FindMerged, EndPoll, Tick, EndSweep, AwaitLead, vars, store
<1>15. ASSUME NEW w \in Watcher, Arm(w) \/ WatcherStep(w) \/ Exit(w)
       PROVE  Box!Next \/ UNCHANGED <<Top, mark, batch>>
  BY <1>1, <1>9, <1>10, <1>11, <1>13, <1>15 DEF WatcherStep
<1> QED
  BY <1>1, <1>2, <1>3, <1>4, <1>7, <1>8, <1>12, <1>14, <1>15 DEF Next

\* Each update is handed to one reader, in one piece, replays apart: the inbox
\* of watchers, sweeps, locks and kills is the mailbox (watch/inbox.go).
THEOREM InboxRefines == Spec => ImplementsMailbox
<1> QED
  BY InitInv, StepInv, InitMaps, StepMaps, PTL DEF Spec, ImplementsMailbox, Box!Spec

-----------------------------------------------------------------------------
(***************************************************************************)
(* ManagedFiles: the files a release ships, the ledger of what was shipped *)
(* and the lead's edits.                                                   *)
(***************************************************************************)

Held    == Files!Content \cup {Absent}
Shipping == {Ships[r] : r \in Release} \cup {<< >>}
Runs ==
  [at : {"rest", "read", "write", "old", "remove"}, ships : Shipping, prev : [File -> Held],
   knew : SUBSET File, todo : SUBSET File, file : SUBSET File, cur : Held]

FilesType ==
  /\ disk \in [File -> Held]
  /\ ledger \in [File -> Held]
  /\ aware \subseteq Agent
  /\ run \in [Installer -> Runs]
  /\ mine \in [File -> {"no", "setting", "yes"}]
  /\ adrift \subseteq File
  /\ \A p \in Installer :
       /\ run[p].at \in {"read", "write"} => run[p].todo \cup run[p].file \subseteq DOMAIN run[p].ships
       /\ run[p].at \in {"old", "remove"} => (run[p].todo \cup run[p].file) \cap DOMAIN run[p].ships = {}
       /\ run[p].at \in {"rest", "read", "old"} => run[p].file = {}
       /\ run[p].at \in {"write", "remove"} => \E f \in File \ run[p].todo : run[p].file = {f}

\* What a release ships is content of its files, with a setting that can be carried.
LEMMA ShipsTyped ==
  ASSUME NEW s \in Shipping
  PROVE  /\ DOMAIN s \subseteq File
         /\ \A f \in DOMAIN s : /\ s[f] \in Files!Content /\ s[f].setting \notin Odd
                                /\ s[f] \in Files!Shipped(f)
<1>1. CASE s = << >>
  BY <1>1
<1>2. CASE s \in {Ships[r] : r \in Release}
  <2>1. PICK r \in Release : s = Ships[r]
    BY <1>2
  <2>2. DOMAIN s \subseteq File
    BY <2>1, ManagedFilesAssumption
  <2>3. ASSUME NEW f \in DOMAIN s
        PROVE  s[f] \in Files!Content /\ s[f].setting \notin Odd /\ s[f] \in Files!Shipped(f)
    <3>1. s[f] \in [text : Text, setting : Setting \ Odd]
      BY <2>1, <2>3, ManagedFilesAssumption
    <3>2. s[f] \in Files!Content /\ s[f].setting \notin Odd
      BY <3>1 DEF Files!Content
    <3>3. s[f] \in Files!Shipped(f)
      BY <2>1, <2>3 DEF Files!Shipped
    <3> QED BY <3>2, <3>3
  <2> QED BY <2>2, <2>3
<1> QED BY <1>1, <1>2 DEF Shipping

LEMMA AbsentIsNoContent == Absent \notin Files!Content
BY ManagedFilesAssumption DEF Files!Content

LEMMA RestTyped == Files!Rest \in Runs /\ Files!Rest.at = "rest" /\ Files!Rest.file = {} /\ Files!Rest.todo = {}
BY DEF Files!Rest, Runs, Files!Nothing, Held, Shipping

\* A step of p that leaves a record of the right shape.
LEMMA FilesMove ==
  ASSUME FilesType, NEW p \in Installer, NEW r \in Runs,
         run' = [run EXCEPT ![p] = r],
         disk' \in [File -> Held], ledger' \in [File -> Held], aware' \subseteq Agent,
         mine' \in [File -> {"no", "setting", "yes"}], adrift' \subseteq File,
         r.at \in {"read", "write"} => r.todo \cup r.file \subseteq DOMAIN r.ships,
         r.at \in {"old", "remove"} => (r.todo \cup r.file) \cap DOMAIN r.ships = {},
         r.at \in {"rest", "read", "old"} => r.file = {},
         r.at \in {"write", "remove"} => \E f \in File \ r.todo : r.file = {f}
  PROVE  FilesType'
<1>1. run' \in [Installer -> Runs] /\ run'[p] = r /\ \A q \in Installer \ {p} : run'[q] = run[q]
  BY DEF FilesType
<1> QED BY <1>1 DEF FilesType

\* What a step of p leaves of p.
Acts(p) ==
  \/ Files!Install(p) \/ Files!Uninstall(p) \/ Files!Reads(p) \/ Files!Writes(p) \/ Files!Retires(p)
  \/ Files!Removes(p) \/ Files!Saves(p) \/ Files!Breaks(p)

LEMMA FilesTypeStep == FilesType /\ Files!Next => FilesType'
<1> SUFFICES ASSUME FilesType, Files!Next PROVE FilesType'
  OBVIOUS
<1>0. /\ disk \in [File -> Held] /\ ledger \in [File -> Held] /\ aware \subseteq Agent
      /\ run \in [Installer -> Runs] /\ mine \in [File -> {"no", "setting", "yes"}] /\ adrift \subseteq File
  BY DEF FilesType
<1>1. ASSUME NEW p \in Installer, NEW s \in Shipping, NEW t \in SUBSET File, NEW a \in {"read", "old"},
             Files!Begins(p, s, t, a), a = "read" => t \subseteq DOMAIN s, a = "old" => t \cap DOMAIN s = {}
      PROVE  FilesType'
  <2> DEFINE r == [Files!Rest EXCEPT !.at = a, !.ships = s, !.prev = ledger, !.knew = aware, !.todo = t]
  <2>1. /\ r \in Runs /\ r.at = a /\ r.ships = s /\ r.todo = t /\ r.file = {}
    BY <1>0, <1>1, RestTyped, ManagedFilesAssumption DEF Files!Rest, Runs
  <2>2. run' = [run EXCEPT ![p] = r] /\ UNCHANGED <<disk, ledger, aware, mine>>
    BY <1>1 DEF Files!Begins
  <2>3. adrift' \subseteq File
    BY <1>0, <1>1 DEF Files!Begins, Files!Others
  <2> HIDE DEF r
  <2> QED BY <1>0, <1>1, <2>1, <2>2, <2>3, FilesMove
<1>2. ASSUME NEW p \in Installer, Files!Install(p) PROVE FilesType'
  <2>1. PICK r \in Release : Files!Begins(p, Ships[r], DOMAIN Ships[r], "read")
    BY <1>2 DEF Files!Install
  <2>2. Ships[r] \in Shipping
    BY DEF Shipping
  <2> QED BY <1>1, <2>1, <2>2, ShipsTyped
<1>3. ASSUME NEW p \in Installer, Files!Uninstall(p) PROVE FilesType'
  <2>1. << >> \in Shipping /\ DOMAIN << >> = {}
    BY DEF Shipping
  <2> QED BY <1>1, <1>3, <2>1 DEF Files!Uninstall
<1>4. ASSUME NEW p \in Installer, Files!Reads(p) PROVE FilesType'
  <2>1. PICK f \in run[p].todo :
          run' = [run EXCEPT ![p].at = IF @ = "read" THEN "write" ELSE "remove",
                             ![p].todo = @ \ {f}, ![p].file = {f}, ![p].cur = disk[f]]
    BY <1>4 DEF Files!Reads
  <2> DEFINE r == [run[p] EXCEPT !.at = IF @ = "read" THEN "write" ELSE "remove",
                                 !.todo = @ \ {f}, !.file = {f}, !.cur = disk[f]]
  <2>2. run[p] \in Runs /\ f \in File /\ disk[f] \in Held
    BY <1>0 DEF Runs
  <2>3. /\ r \in Runs /\ r.at = (IF run[p].at = "read" THEN "write" ELSE "remove")
        /\ r.ships = run[p].ships /\ r.todo = run[p].todo \ {f} /\ r.file = {f}
    BY <2>2 DEF Runs
  <2>4. run' = [run EXCEPT ![p] = r]
    BY <1>0, <2>1
  <2>5. run[p].at \in {"read", "old"} /\ UNCHANGED <<disk, ledger, aware, mine, adrift>>
    BY <1>4 DEF Files!Reads, Files!At
  <2> HIDE DEF r
  <2>6. r.at \in {"read", "write"} => r.todo \cup r.file \subseteq DOMAIN r.ships
    BY <2>3, <2>5 DEF FilesType
  <2>7. r.at \in {"old", "remove"} => (r.todo \cup r.file) \cap DOMAIN r.ships = {}
    BY <2>3, <2>5 DEF FilesType
  <2>8. r.at \notin {"rest", "read", "old"}
    BY <2>3
  <2>9. \E g \in File \ r.todo : r.file = {g}
    BY <2>2, <2>3
  <2> QED BY <1>0, <2>3, <2>4, <2>5, <2>6, <2>7, <2>8, <2>9, FilesMove
<1>5. ASSUME NEW p \in Installer, NEW a \in {"read", "old"}, Files!Back(p, a),
             a = "read" => run[p].at = "write", a = "old" => run[p].at = "remove",
             disk' \in [File -> Held], mine' \in [File -> {"no", "setting", "yes"}],
             UNCHANGED <<ledger, aware>>, adrift' \subseteq File
      PROVE  FilesType'
  <2> DEFINE r == [run[p] EXCEPT !.at = a, !.file = {}, !.cur = Absent]
  <2>1. /\ r \in Runs /\ r.at = a /\ r.ships = run[p].ships /\ r.todo = run[p].todo /\ r.file = {}
    BY <1>0 DEF Runs, Held
  <2>2. run' = [run EXCEPT ![p] = r]
    BY <1>0, <1>5 DEF Files!Back
  <2> HIDE DEF r
  <2>3. r.at = "read" => r.todo \cup r.file \subseteq DOMAIN r.ships
    BY <1>5, <2>1 DEF FilesType
  <2>4. r.at = "old" => (r.todo \cup r.file) \cap DOMAIN r.ships = {}
    BY <1>5, <2>1 DEF FilesType
  <2> QED BY <1>0, <1>5, <2>1, <2>2, <2>3, <2>4, FilesMove
<1>6. ASSUME NEW p \in Installer, Files!Writes(p) PROVE FilesType'
  <2>1. PICK f \in run[p].file :
          LET new == run[p].ships[f]  to == Files!Reconciled(p, f, new)
          IN  IF to = run[p].cur THEN UNCHANGED <<disk, mine>>
              ELSE /\ disk' = [disk EXCEPT ![f] = to]
                   /\ mine' = [mine EXCEPT ![f] = IF to = new THEN "no" ELSE "setting"]
    BY <1>6 DEF Files!Writes
  <2> DEFINE to == Files!Reconciled(p, f, run[p].ships[f])
  <2>2. run[p].at = "write" /\ Files!Back(p, "read") /\ UNCHANGED <<ledger, aware, adrift>>
    BY <1>6 DEF Files!Writes, Files!At
  <2>3. run[p] \in Runs /\ f \in DOMAIN run[p].ships /\ run[p].ships \in Shipping
    BY <1>0, <2>2 DEF FilesType, Runs
  <2>4. run[p].ships[f] \in Files!Content /\ run[p].cur \in Held /\ f \in File
    BY <2>3, ShipsTyped DEF Runs
  <2>5. to \in Held
    <3>1. run[p].cur \in Files!Content => Files!Carried(p, f, run[p].ships[f]) \in Files!Content
      BY <2>4 DEF Files!Carried, Files!Content
    <3>2. Files!Ours(p, f, run[p].ships[f]) \/ run[p].cur \in Files!Content
      BY <2>4 DEF Files!Ours, Held
    <3> QED BY <2>4, <3>1, <3>2 DEF Files!Reconciled, Held
  <2>6. CASE to = run[p].cur
    BY <1>0, <1>5, <2>1, <2>2, <2>6
  <2>7. CASE to # run[p].cur
    <3> HIDE DEF to
    <3>1. disk' = [disk EXCEPT ![f] = to] /\ \E m \in {"no", "setting"} : mine' = [mine EXCEPT ![f] = m]
      BY <2>1, <2>7 DEF to
    <3>2. disk' \in [File -> Held] /\ mine' \in [File -> {"no", "setting", "yes"}]
      BY <1>0, <2>4, <2>5, <3>1
    <3> QED BY <1>0, <1>5, <2>2, <3>2
  <2> QED BY <2>6, <2>7
<1>7. ASSUME NEW p \in Installer, Files!Retires(p) PROVE FilesType'
  <2> DEFINE t == {f \in File \ DOMAIN run[p].ships : run[p].prev[f] # Absent}
             r == [run[p] EXCEPT !.at = "old", !.todo = t]
  <2>1. run[p].at = "read" /\ run[p].file = {}
    BY <1>7 DEF Files!Retires, Files!At, FilesType
  <2>2. t \subseteq File /\ t \cap DOMAIN run[p].ships = {}
    OBVIOUS
  <2>3. run' = [run EXCEPT ![p].at = "old", ![p].todo = t] /\ UNCHANGED <<disk, ledger, aware, mine, adrift>>
    BY <1>7 DEF Files!Retires
  <2> HIDE DEF t
  <2>4. r \in Runs /\ r.at = "old" /\ r.ships = run[p].ships /\ r.todo = t /\ r.file = {}
    BY <1>0, <2>1, <2>2 DEF Runs
  <2>5. run' = [run EXCEPT ![p] = r]
    BY <1>0, <2>3
  <2> HIDE DEF r
  <2>6. (r.todo \cup r.file) \cap DOMAIN r.ships = {} /\ r.at \notin {"read", "write", "rest", "remove"}
    BY <2>2, <2>4
  <2>7. /\ disk' \in [File -> Held] /\ ledger' \in [File -> Held] /\ aware' \subseteq Agent
        /\ mine' \in [File -> {"no", "setting", "yes"}] /\ adrift' \subseteq File
    BY <1>0, <2>3
  <2> QED BY <2>4, <2>5, <2>6, <2>7, FilesMove
<1>8. ASSUME NEW p \in Installer, Files!Removes(p) PROVE FilesType'
  <2>1. PICK f \in run[p].file :
          LET own == run[p].cur # Absent /\ run[p].cur = run[p].prev[f]
          IN  \/ /\ own
                 /\ disk' = [disk EXCEPT ![f] = Absent]
                 /\ mine' = [mine EXCEPT ![f] = "no"]
                 /\ UNCHANGED <<adrift, acts>>
              \/ /\ ~own
                 /\ mine' = [mine EXCEPT ![f] = IF @ = "no" \/ run[p].cur = Absent THEN @ ELSE "yes"]
                 /\ UNCHANGED <<disk, adrift, acts>>
              \/ /\ own /\ acts < MaxActs
                 /\ adrift' = adrift \cup {f} /\ acts' = acts + 1
                 /\ UNCHANGED <<disk, mine>>
    BY <1>8 DEF Files!Removes
  <2>2. run[p].at = "remove" /\ Files!Back(p, "old") /\ UNCHANGED <<ledger, aware>>
    BY <1>8 DEF Files!Removes, Files!At
  <2>3. f \in File
    BY <1>0 DEF Runs
  <2>4. adrift' \subseteq File
    BY <1>0, <2>1, <2>3
  <2>5. disk' \in [File -> Held]
    BY <1>0, <2>1 DEF Held
  <2>6. mine' \in [File -> {"no", "setting", "yes"}]
    BY <1>0, <2>1
  <2> QED BY <1>5, <2>2, <2>4, <2>5, <2>6
<1>9. ASSUME NEW p \in Installer, Files!Saves(p) PROVE FilesType'
  <2>1. run' = [run EXCEPT ![p] = Files!Rest] /\ UNCHANGED <<disk, mine>> /\ adrift' \subseteq adrift
        /\ ledger' = [f \in File |-> IF f \in DOMAIN run[p].ships THEN run[p].ships[f] ELSE Absent]
        /\ aware' = Agent \cap DOMAIN run[p].ships
    BY <1>9 DEF Files!Saves
  <2>2. run[p].ships \in Shipping
    BY <1>0 DEF Runs
  <2>3. ledger' \in [File -> Held]
    BY <2>1, <2>2, ShipsTyped DEF Held
  <2> QED BY <1>0, <2>1, <2>3, FilesMove, RestTyped
<1>10. ASSUME NEW p \in Installer, Files!Breaks(p) PROVE FilesType'
  BY <1>0, <1>10, FilesMove, RestTyped DEF Files!Breaks
<1>11. CASE Files!Edits
  <2>1. PICK f \in File : \E b \in Files!ContentOf(f) \cup {Absent} : \E m \in {"setting", "yes"} :
          disk' = [disk EXCEPT ![f] = b] /\ mine' = [mine EXCEPT ![f] = m]
    BY <1>11 DEF Files!Edits
  <2>2. Files!ContentOf(f) \cup {Absent} \subseteq Held
    BY DEF Held, Files!ContentOf
  <2>3. disk' \in [File -> Held] /\ mine' \in [File -> {"no", "setting", "yes"}]
    BY <1>0, <2>1, <2>2
  <2> QED BY <1>11, <2>3 DEF Files!Edits, FilesType
<1> QED BY <1>2, <1>3, <1>4, <1>6, <1>7, <1>8, <1>9, <1>10, <1>11 DEF Files!Next

LEMMA FilesTypeInit == Files!Init => FilesType
<1> SUFFICES ASSUME Files!Init PROVE FilesType
  OBVIOUS
<1>1. run \in [Installer -> Runs] /\ \A p \in Installer : run[p].at = "rest" /\ run[p].file = {}
  BY RestTyped DEF Files!Init
<1>2. disk \in [File -> Held] /\ ledger \in [File -> Held]
  <2>1. CASE ledger = Files!Nothing /\ disk \in [File -> Files!Content \cup {Absent}]
    BY <2>1 DEF Held, Files!Nothing
  <2>2. CASE disk = ledger /\ \E r \in Release : ledger = [f \in File |-> IF f \in DOMAIN Ships[r] THEN Ships[r][f] ELSE Absent]
    <3>1. PICK r \in Release : ledger = [f \in File |-> IF f \in DOMAIN Ships[r] THEN Ships[r][f] ELSE Absent]
      BY <2>2
    <3>2. Ships[r] \in Shipping
      BY DEF Shipping
    <3> QED BY <2>2, <3>1, <3>2, ShipsTyped DEF Held
  <2> QED BY <2>1, <2>2 DEF Files!Init
<1>3. mine \in [File -> {"no", "setting", "yes"}]
  BY DEF Files!Init
<1>4. aware \subseteq Agent /\ adrift \subseteq File
  BY DEF Files!Init
<1> QED BY <1>1, <1>2, <1>3, <1>4 DEF FilesType

(***************************************************************************)
(* What a run replaces was shipped.                                        *)
(***************************************************************************)
ShippedInv ==
  \A f \in File : /\ ledger[f] \in Files!Shipped(f) \cup {Absent}
                  /\ \A p \in Installer : run[p].prev[f] \in Files!Shipped(f) \cup {Absent}

LEMMA ShippedInit == Files!Init => ShippedInv
<1> SUFFICES ASSUME Files!Init, NEW f \in File PROVE
      /\ ledger[f] \in Files!Shipped(f) \cup {Absent}
      /\ \A p \in Installer : run[p].prev[f] \in Files!Shipped(f) \cup {Absent}
  BY DEF ShippedInv
<1>1. \A p \in Installer : run[p].prev[f] = Absent
  BY DEF Files!Init, Files!Rest, Files!Nothing
<1>2. CASE ledger = Files!Nothing
  BY <1>1, <1>2 DEF Files!Nothing
<1>3. CASE \E r \in Release : ledger = [g \in File |-> IF g \in DOMAIN Ships[r] THEN Ships[r][g] ELSE Absent]
  <2>1. PICK r \in Release : ledger = [g \in File |-> IF g \in DOMAIN Ships[r] THEN Ships[r][g] ELSE Absent]
    BY <1>3
  <2>2. Ships[r] \in Shipping
    BY DEF Shipping
  <2> QED BY <1>1, <2>1, <2>2, ShipsTyped
<1> QED BY <1>2, <1>3 DEF Files!Init

\* The ledger only ever has what a release shipped.
LEMMA ShippedStep == FilesType /\ ShippedInv /\ Files!Next => ShippedInv'
<1> SUFFICES ASSUME FilesType, ShippedInv, Files!Next PROVE ShippedInv'
  OBVIOUS
<1>0. run \in [Installer -> Runs]
  BY DEF FilesType
<1>1. ASSUME UNCHANGED ledger, \A p \in Installer : run'[p].prev = run[p].prev PROVE ShippedInv'
  BY <1>1 DEF ShippedInv
<1>2. ASSUME NEW p \in Installer, NEW s, NEW t, NEW a, Files!Begins(p, s, t, a) PROVE ShippedInv'
  <2>1. run'[p].prev = ledger /\ ledger' = ledger /\ \A q \in Installer \ {p} : run'[q] = run[q]
    BY <1>0, <1>2 DEF Files!Begins, Files!Rest
  <2> QED BY <2>1 DEF ShippedInv
<1>3. ASSUME NEW p \in Installer, Files!Saves(p) PROVE ShippedInv'
  <2>1. run'[p] = Files!Rest /\ \A q \in Installer \ {p} : run'[q] = run[q]
    BY <1>0, <1>3 DEF Files!Saves
  <2>2. ledger' = [f \in File |-> IF f \in DOMAIN run[p].ships THEN run[p].ships[f] ELSE Absent]
    BY <1>3 DEF Files!Saves
  <2>3. run[p].ships \in Shipping
    BY <1>0 DEF Runs
  <2>4. \A f \in File : Files!Rest.prev[f] = Absent
    BY DEF Files!Rest, Files!Nothing
  <2> QED BY <2>1, <2>2, <2>3, <2>4, ShipsTyped DEF ShippedInv
<1>4. ASSUME NEW p \in Installer, Files!Breaks(p) PROVE ShippedInv'
  <2>1. run'[p] = Files!Rest /\ ledger' = ledger /\ \A q \in Installer \ {p} : run'[q] = run[q]
    BY <1>0, <1>4 DEF Files!Breaks
  <2>2. \A f \in File : Files!Rest.prev[f] = Absent
    BY DEF Files!Rest, Files!Nothing
  <2> QED BY <2>1, <2>2 DEF ShippedInv
<1>5. ASSUME NEW p \in Installer, Files!Reads(p) PROVE ShippedInv'
  <2>1. PICK f \in run[p].todo :
          run' = [run EXCEPT ![p].at = IF @ = "read" THEN "write" ELSE "remove",
                             ![p].todo = @ \ {f}, ![p].file = {f}, ![p].cur = disk[f]]
    BY <1>5 DEF Files!Reads
  <2>2. \A q \in Installer : run'[q].prev = run[q].prev
    BY <1>0, <2>1 DEF Runs
  <2> QED BY <1>1, <1>5, <2>2 DEF Files!Reads
<1>6. ASSUME NEW p \in Installer, Files!Writes(p) \/ Files!Removes(p) \/ Files!Retires(p) PROVE ShippedInv'
  <2>1. \A q \in Installer : run'[q].prev = run[q].prev
    <3>1. ASSUME NEW a, Files!Back(p, a) PROVE \A q \in Installer : run'[q].prev = run[q].prev
      BY <1>0, <3>1 DEF Files!Back, Runs
    <3>2. ASSUME NEW t, run' = [run EXCEPT ![p].at = "old", ![p].todo = t]
          PROVE  \A q \in Installer : run'[q].prev = run[q].prev
      BY <1>0, <3>2 DEF Runs
    <3>3. CASE Files!Retires(p)
      BY <3>2, <3>3 DEF Files!Retires
    <3> QED BY <1>6, <3>1, <3>3 DEF Files!Writes, Files!Removes
  <2> QED BY <1>1, <1>6, <2>1 DEF Files!Writes, Files!Removes, Files!Retires
<1>7. CASE Files!Edits
  BY <1>1, <1>7 DEF Files!Edits
<1> QED BY <1>2, <1>3, <1>4, <1>5, <1>6, <1>7 DEF Files!Next, Files!Install, Files!Uninstall

\* The step of a run that ends its work on a file.
LEMMA ClobbersNothing ==
  ASSUME FilesType, ShippedInv, Files!Next, NEW p \in Installer, NEW f \in File,
         f \in run[p].file, run'[p].file = {}, disk[f] = run[p].cur, disk'[f] # disk[f]
  PROVE  \/ disk[f] \in Files!Shipped(f) \cup {Absent}
         \/ /\ disk'[f] # Absent
            /\ \E b \in Files!Shipped(f) : b.text = disk[f].text
            /\ disk'[f].setting = disk[f].setting \/ \E b \in Files!Shipped(f) : b.setting = disk[f].setting
<1>0. run \in [Installer -> Runs] /\ disk \in [File -> Held]
  BY DEF FilesType
<1>1. ASSUME NEW q \in Installer, Acts(q), q # p PROVE run'[p] = run[p]
  BY <1>0, <1>1 DEF Acts, Files!Install, Files!Uninstall, Files!Begins, Files!Reads, Files!Writes,
     Files!Retires, Files!Removes, Files!Saves, Files!Breaks, Files!Back
<1>2. ~Files!Edits /\ \A q \in Installer : Acts(q) => q = p
  BY <1>1 DEF Files!Edits
<1>3. Acts(p)
  BY <1>2 DEF Files!Next, Acts
<1>4. Files!Writes(p) \/ Files!Removes(p)
  BY <1>3 DEF Acts, Files!Install, Files!Uninstall, Files!Begins, Files!Reads,
     Files!Retires, Files!Saves, Files!Breaks
<1>5. run[p].prev[f] \in Files!Shipped(f) \cup {Absent}
  BY DEF ShippedInv
<1>6. run[p] \in Runs /\ run[p].ships \in Shipping
  BY <1>0 DEF Runs
<1>7. CASE Files!Writes(p)
  <2>1. PICK g \in run[p].file :
          LET new == run[p].ships[g]  to == Files!Reconciled(p, g, new)
          IN  IF to = run[p].cur THEN UNCHANGED <<disk, mine>>
              ELSE /\ disk' = [disk EXCEPT ![g] = to]
                   /\ mine' = [mine EXCEPT ![g] = IF to = new THEN "no" ELSE "setting"]
    BY <1>7 DEF Files!Writes
  <2>2. run[p].at = "write" /\ f \in DOMAIN run[p].ships
    BY <1>7 DEF Files!Writes, Files!At, FilesType
  <2> DEFINE new == run[p].ships[f]
             to  == Files!Reconciled(p, f, new)
  <2>3. g = f
    BY <2>2 DEF FilesType
  <2>4. to # run[p].cur /\ disk'[f] = to
    BY <1>0, <2>1, <2>3
  <2>5. new \in Files!Shipped(f) /\ new \in Files!Content
    BY <1>6, <2>2, ShipsTyped
  <2>6. CASE Files!Ours(p, f, new)
    BY <1>5, <2>5, <2>6 DEF Files!Ours
  <2>7. CASE ~Files!Ours(p, f, new)
    <3>1. /\ run[p].prev[f] # Absent /\ Files!SettingsOnly(p, f, new)
          /\ to = Files!Carried(p, f, new)
      BY <2>4, <2>7 DEF Files!Reconciled
    <3>2. run[p].prev[f] \in Files!Shipped(f) /\ run[p].prev[f].text = disk[f].text
      BY <1>5, <3>1 DEF Files!SettingsOnly
    <3>3. to \in [text : Text, setting : {new.setting, disk[f].setting}]
      BY <2>5, <3>1 DEF Files!Carried, Files!Content
    <3>4. to.setting = disk[f].setting \/ disk[f].setting = run[p].prev[f].setting
      BY <2>5, <3>1 DEF Files!Carried, Files!Content
    <3>5. to # Absent
      <4>1. run[p].cur \in Files!Content
        BY <1>6, <2>7 DEF Files!Ours, Runs, Held
      <4>2. to \in Files!Content
        BY <2>5, <3>3, <4>1 DEF Files!Content
      <4> QED BY <4>2, AbsentIsNoContent
    <3> QED BY <2>4, <3>2, <3>4, <3>5
  <2> QED BY <2>6, <2>7
<1>8. CASE Files!Removes(p)
  <2>1. run[p].at = "remove" /\ run[p].file = {f}
    BY <1>8 DEF Files!Removes, Files!At, FilesType
  <2>2. run[p].cur = run[p].prev[f]
    BY <1>0, <1>8, <2>1 DEF Files!Removes
  <2> QED BY <1>5, <2>2
<1> QED BY <1>4, <1>7, <1>8

(***************************************************************************)
(* What nobody touched is current.                                         *)
(***************************************************************************)
\* A file and what it should hold, unless the lead has changed it.
Calm(m, d, l) ==
  \/ m = "yes"
  \/ m = "no" /\ d = l
  \/ m = "setting" /\ d # Absent /\ l # Absent /\ d.text = l.text

Busy(p) == run[p].at # "rest"

\* A file a run has not dealt with yet.
Pending(p, f) ==
  \/ f \in run[p].todo \cup run[p].file
  \/ run[p].at \in {"read", "write"} /\ f \notin DOMAIN run[p].ships

Target(p, f) == IF f \in DOMAIN run[p].ships THEN run[p].ships[f] ELSE Absent

Even(f) == ledger[f] = Absent \/ ledger[f].setting \notin Odd

\* A setting of the lead's is in an agent's file and can be carried.
Slight(f) == mine[f] = "setting" => f \in Agent /\ disk[f] # Absent /\ Files!Carriable(disk[f])

\* What the lead has not touched comes from a release.
Known(f) ==
  /\ mine[f] = "no" => disk[f] \in Files!Shipped(f) \cup {Absent}
  /\ mine[f] = "setting" => disk[f] # Absent /\ \E b \in Files!Shipped(f) : b.text = disk[f].text

PlainInv == \A f \in File : Slight(f) /\ Known(f)

\* What a run has read is what it finds but for the lead's edits since.
ReadOf(p, f) ==
  /\ Calm(mine[f], disk[f], run[p].cur)
  /\ mine[f] # "yes" => run[p].cur = Absent \/ Files!Carriable(run[p].cur)

AtWork(p, f) ==
  /\ run[p].prev = ledger /\ run[p].knew = aware
  /\ Pending(p, f) => Files!Current(f)
  /\ ~Pending(p, f) => Calm(mine[f], disk[f], Target(p, f))
  /\ f \in run[p].file => ReadOf(p, f)

\* A file that is not adrift has at most one run over it.
Tidy(f) ==
  /\ \A p, q \in Installer : Busy(p) /\ Busy(q) => p = q
  /\ (\A p \in Installer : ~Busy(p)) => Files!Current(f)
  /\ \A p \in Installer : Busy(p) => AtWork(p, f)

TidyInv == \A f \in File \ adrift : Tidy(f)

LEMMA CurrentIs ==
  ASSUME NEW f \in File, mine[f] \in {"no", "setting", "yes"}
  PROVE  Files!Current(f) <=> Calm(mine[f], disk[f], ledger[f]) /\ (mine[f] = "setting" => f \in aware)
BY DEF Files!Current, Calm

LEMMA EvenLedger == ShippedInv => \A f \in File : Even(f)
<1> SUFFICES ASSUME ShippedInv, NEW f \in File PROVE Even(f)
  OBVIOUS
<1>1. ledger[f] = Absent \/ ledger[f] \in Files!Shipped(f)
  BY DEF ShippedInv
<1>2. ASSUME ledger[f] \in Files!Shipped(f) PROVE ledger[f].setting \notin Odd
  <2>1. PICK r \in Release : f \in DOMAIN Ships[r] /\ ledger[f] = Ships[r][f]
    BY <1>2 DEF Files!Shipped
  <2>2. Ships[r] \in Shipping
    BY DEF Shipping
  <2> QED BY <2>1, <2>2, ShipsTyped
<1> QED BY <1>1, <1>2 DEF Even

LEMMA PlainInit == Files!Init => PlainInv
<1> SUFFICES ASSUME Files!Init, NEW f \in File PROVE Slight(f) /\ Known(f)
  BY DEF PlainInv
<1>1. CASE mine = [g \in File |-> IF disk[g] = Absent THEN "no" ELSE "yes"]
  <2>1. mine[f] = (IF disk[f] = Absent THEN "no" ELSE "yes")
    BY <1>1
  <2> QED BY <2>1 DEF Slight, Known
<1>2. CASE disk = ledger /\ mine = [g \in File |-> "no"]
  <2>1. mine[f] = "no" /\ disk[f] = ledger[f]
    BY <1>2
  <2>2. ledger[f] \in Files!Shipped(f) \cup {Absent}
    BY ShippedInit DEF ShippedInv
  <2> QED BY <2>1, <2>2 DEF Slight, Known
<1> QED BY <1>1, <1>2 DEF Files!Init

\* The step of a run over a file.
LEMMA WrittenIs ==
  ASSUME FilesType, NEW p \in Installer, Files!Writes(p)
  PROVE  \E f \in File \ run[p].todo :
           LET new == run[p].ships[f]  to == Files!Reconciled(p, f, new)
           IN  /\ run[p].file = {f} /\ f \in DOMAIN run[p].ships
               /\ new \in Files!Shipped(f) /\ new \in Files!Content /\ new # Absent /\ new.setting \notin Odd
               /\ \A g \in File \ {f} : disk'[g] = disk[g] /\ mine'[g] = mine[g]
               /\ to = run[p].cur => disk' = disk /\ mine' = mine
               /\ to # run[p].cur => disk'[f] = to /\ mine'[f] = IF to = new THEN "no" ELSE "setting"
               /\ to # run[p].cur /\ to # new =>
                    f \in Agent /\ to # Absent /\ to.text = new.text /\ Files!Carriable(to)
<1>0. /\ run \in [Installer -> Runs] /\ disk \in [File -> Held] /\ mine \in [File -> {"no", "setting", "yes"}]
      /\ run[p].at = "write"
  BY DEF FilesType, Files!Writes, Files!At
<1>1. PICK f \in File \ run[p].todo : run[p].file = {f}
  BY <1>0 DEF FilesType
<1> DEFINE new == run[p].ships[f]
           to  == Files!Reconciled(p, f, new)
           cur == run[p].cur
<1>2. IF to = cur THEN UNCHANGED <<disk, mine>>
      ELSE /\ disk' = [disk EXCEPT ![f] = to]
           /\ mine' = [mine EXCEPT ![f] = IF to = new THEN "no" ELSE "setting"]
  BY <1>1 DEF Files!Writes
<1>3. f \in DOMAIN run[p].ships /\ run[p].ships \in Shipping /\ cur \in Held
  BY <1>0, <1>1 DEF FilesType, Runs
<1>4. new \in Files!Shipped(f) /\ new \in Files!Content /\ new # Absent /\ new.setting \notin Odd
  BY <1>3, ShipsTyped, AbsentIsNoContent
<1>5. ASSUME to # cur, to # new
      PROVE  f \in Agent /\ to # Absent /\ to.text = new.text /\ Files!Carriable(to)
  <2>0. ~Files!Ours(p, f, new)
    BY <1>5 DEF Files!Reconciled
  <2>1. Files!SettingsOnly(p, f, new) /\ Files!Carriable(cur) /\ to = Files!Carried(p, f, new)
    BY <1>5, <2>0 DEF Files!Reconciled
  <2>2. cur \in Files!Content
    BY <1>3, <2>0 DEF Files!Ours, Held
  <2>3. to \in Files!Content /\ to.text = new.text /\ (to.setting = cur.setting \/ to = new)
    BY <1>4, <2>1, <2>2 DEF Files!Carried, Files!Content
  <2> QED BY <1>5, <2>1, <2>3, AbsentIsNoContent DEF Files!SettingsOnly, Files!Carriable
<1> HIDE DEF to, new, cur
<1>6. /\ \A g \in File \ {f} : disk'[g] = disk[g] /\ mine'[g] = mine[g]
      /\ to = cur => disk' = disk /\ mine' = mine
      /\ to # cur => disk'[f] = to /\ mine'[f] = IF to = new THEN "no" ELSE "setting"
  BY <1>0, <1>2
<1> QED BY <1>1, <1>3, <1>4, <1>5, <1>6 DEF to, new, cur

LEMMA RemovedIs ==
  ASSUME FilesType, NEW p \in Installer, Files!Removes(p)
  PROVE  \E f \in File \ run[p].todo :
           LET own == run[p].cur # Absent /\ run[p].cur = run[p].prev[f]
           IN  /\ run[p].file = {f} /\ f \notin DOMAIN run[p].ships
               /\ \A g \in File \ {f} : disk'[g] = disk[g] /\ mine'[g] = mine[g]
               /\ \/ own /\ disk'[f] = Absent /\ mine'[f] = "no" /\ adrift' = adrift
                  \/ /\ ~own /\ disk' = disk /\ adrift' = adrift
                     /\ mine'[f] = IF mine[f] = "no" \/ run[p].cur = Absent THEN mine[f] ELSE "yes"
                  \/ own /\ disk' = disk /\ mine' = mine /\ adrift' = adrift \cup {f}
<1>0. /\ run \in [Installer -> Runs] /\ disk \in [File -> Held] /\ mine \in [File -> {"no", "setting", "yes"}]
      /\ run[p].at = "remove"
  BY DEF FilesType, Files!Removes, Files!At
<1>1. PICK f \in File \ run[p].todo : run[p].file = {f}
  BY <1>0 DEF FilesType
<1> DEFINE own == run[p].cur # Absent /\ run[p].cur = run[p].prev[f]
<1>2. \/ /\ own
         /\ disk' = [disk EXCEPT ![f] = Absent]
         /\ mine' = [mine EXCEPT ![f] = "no"]
         /\ UNCHANGED <<adrift, acts>>
      \/ /\ ~own
         /\ mine' = [mine EXCEPT ![f] = IF @ = "no" \/ run[p].cur = Absent THEN @ ELSE "yes"]
         /\ UNCHANGED <<disk, adrift, acts>>
      \/ /\ own /\ acts < MaxActs
         /\ adrift' = adrift \cup {f} /\ acts' = acts + 1
         /\ UNCHANGED <<disk, mine>>
  BY <1>1 DEF Files!Removes
<1>3. f \notin DOMAIN run[p].ships
  BY <1>0, <1>1 DEF FilesType
<1> HIDE DEF own
<1>4. \A g \in File \ {f} : disk'[g] = disk[g] /\ mine'[g] = mine[g]
  BY <1>0, <1>2
<1>5. \/ own /\ disk'[f] = Absent /\ mine'[f] = "no" /\ adrift' = adrift
      \/ /\ ~own /\ disk' = disk /\ adrift' = adrift
         /\ mine'[f] = IF mine[f] = "no" \/ run[p].cur = Absent THEN mine[f] ELSE "yes"
      \/ own /\ disk' = disk /\ mine' = mine /\ adrift' = adrift \cup {f}
  BY <1>0, <1>2
<1> QED BY <1>1, <1>3, <1>4, <1>5 DEF own

\* One edit of the lead's, and what it makes of the file.
LEMMA EditedIs ==
  ASSUME FilesType, Files!Edits
  PROVE  \E g \in File :
           /\ \A f \in File \ {g} : disk'[f] = disk[f] /\ mine'[f] = mine[f]
           /\ \/ mine'[g] = "yes"
              \/ /\ mine'[g] = "setting" /\ g \in aware /\ mine[g] # "yes"
                 /\ disk'[g] # Absent /\ disk[g] # Absent
                 /\ disk'[g].text = disk[g].text /\ Files!Carriable(disk'[g])
<1>0. disk \in [File -> Held] /\ mine \in [File -> {"no", "setting", "yes"}]
  BY DEF FilesType
<1>1. PICK g \in File : \E b \in Files!ContentOf(g) \cup {Absent} :
         /\ disk' = [disk EXCEPT ![g] = b]
         /\ LET slight == /\ g \in aware /\ mine[g] # "yes"
                          /\ b # Absent /\ disk[g] # Absent
                          /\ b.text = disk[g].text /\ Files!Carriable(b)
            IN  mine' = [mine EXCEPT ![g] = IF slight THEN "setting" ELSE "yes"]
  BY DEF Files!Edits
<1>2. PICK b \in Files!ContentOf(g) \cup {Absent} :
         /\ disk' = [disk EXCEPT ![g] = b]
         /\ LET slight == /\ g \in aware /\ mine[g] # "yes"
                          /\ b # Absent /\ disk[g] # Absent
                          /\ b.text = disk[g].text /\ Files!Carriable(b)
            IN  mine' = [mine EXCEPT ![g] = IF slight THEN "setting" ELSE "yes"]
  BY <1>1
<1>3. \A f \in File \ {g} : disk'[f] = disk[f] /\ mine'[f] = mine[f]
  BY <1>0, <1>2
<1>4. \/ mine'[g] = "yes"
      \/ /\ mine'[g] = "setting" /\ g \in aware /\ mine[g] # "yes" /\ disk'[g] # Absent /\ disk[g] # Absent
         /\ disk'[g].text = disk[g].text /\ Files!Carriable(disk'[g])
  BY <1>0, <1>2
<1> QED BY <1>3, <1>4

\* Whoever steps, an untouched file comes from a release.
LEMMA PlainStep == FilesType /\ PlainInv /\ Files!Next => PlainInv'
<1> SUFFICES ASSUME FilesType, PlainInv, Files!Next, NEW f \in File PROVE Slight(f)' /\ Known(f)'
  BY DEF PlainInv
<1>0. Slight(f) /\ Known(f) /\ mine[f] \in {"no", "setting", "yes"} /\ aware \subseteq Agent
  BY DEF PlainInv, FilesType
<1>1. ASSUME disk'[f] = disk[f], mine'[f] \in {mine[f], "yes"} PROVE Slight(f)' /\ Known(f)'
  BY <1>0, <1>1 DEF Slight, Known, Files!Carriable, Files!Shipped
<1>2. CASE Files!Edits
  <2>1. PICK g \in File :
           /\ \A h \in File \ {g} : disk'[h] = disk[h] /\ mine'[h] = mine[h]
           /\ \/ mine'[g] = "yes"
              \/ /\ mine'[g] = "setting" /\ g \in aware /\ mine[g] # "yes"
                 /\ disk'[g] # Absent /\ disk[g] # Absent
                 /\ disk'[g].text = disk[g].text /\ Files!Carriable(disk'[g])
    BY <1>2, EditedIs
  <2>2. CASE f # g
    BY <1>1, <2>1, <2>2
  <2>3. CASE f = g
    BY <1>0, <2>1, <2>3 DEF Slight, Known, Files!Carriable, Files!Shipped
  <2> QED BY <2>2, <2>3
<1>3. ASSUME NEW p \in Installer, Files!Writes(p) PROVE Slight(f)' /\ Known(f)'
  <2>1. PICK g \in File \ run[p].todo :
           LET new == run[p].ships[g]  to == Files!Reconciled(p, g, new)
           IN  /\ run[p].file = {g} /\ g \in DOMAIN run[p].ships
               /\ new \in Files!Shipped(g) /\ new \in Files!Content /\ new # Absent /\ new.setting \notin Odd
               /\ \A h \in File \ {g} : disk'[h] = disk[h] /\ mine'[h] = mine[h]
               /\ to = run[p].cur => disk' = disk /\ mine' = mine
               /\ to # run[p].cur => disk'[g] = to /\ mine'[g] = IF to = new THEN "no" ELSE "setting"
               /\ to # run[p].cur /\ to # new =>
                    g \in Agent /\ to # Absent /\ to.text = new.text /\ Files!Carriable(to)
    BY <1>3, WrittenIs
  <2> DEFINE new == run[p].ships[g]
             to  == Files!Reconciled(p, g, new)
  <2> HIDE DEF new, to
  <2>2. CASE f # g \/ to = run[p].cur
    BY <1>1, <2>1, <2>2 DEF new, to
  <2>3. CASE f = g /\ to # run[p].cur
    <3>1. /\ disk'[f] = to /\ mine'[f] = (IF to = new THEN "no" ELSE "setting")
          /\ new \in Files!Shipped(f)
          /\ to # new => f \in Agent /\ to # Absent /\ to.text = new.text /\ Files!Carriable(to)
      BY <2>1, <2>3 DEF new, to
    <3> QED BY <3>1 DEF Slight, Known, Files!Carriable, Files!Shipped
  <2> QED BY <2>2, <2>3
<1>4. ASSUME NEW p \in Installer, Files!Removes(p) PROVE Slight(f)' /\ Known(f)'
  <2>1. PICK g \in File \ run[p].todo :
          /\ \A h \in File \ {g} : disk'[h] = disk[h] /\ mine'[h] = mine[h]
          /\ \/ disk'[g] = Absent /\ mine'[g] = "no"
             \/ disk' = disk /\ mine'[g] \in {mine[g], "yes"}
    BY <1>4, RemovedIs
  <2>2. CASE f # g
    BY <1>1, <2>1, <2>2
  <2>3. CASE f = g
    BY <1>1, <2>1, <2>3 DEF Slight, Known
  <2> QED BY <2>2, <2>3
<1>5. CASE UNCHANGED <<disk, mine>>
  BY <1>1, <1>5
<1>6. ASSUME NEW p \in Installer, Acts(p), ~Files!Writes(p), ~Files!Removes(p) PROVE UNCHANGED <<disk, mine>>
  BY <1>6 DEF Acts, Files!Install, Files!Uninstall, Files!Begins, Files!Reads, Files!Retires,
     Files!Saves, Files!Breaks
<1> QED BY <1>2, <1>3, <1>4, <1>5, <1>6 DEF Files!Next, Acts

LEMMA TidyInit == Files!Init => TidyInv
<1> SUFFICES ASSUME Files!Init, NEW f \in File PROVE Tidy(f)
  BY DEF TidyInv
<1>1. \A p \in Installer : ~Busy(p)
  BY DEF Files!Init, Busy, Files!Rest
<1>2. CASE ledger = Files!Nothing /\ mine = [g \in File |-> IF disk[g] = Absent THEN "no" ELSE "yes"]
  <2>1. ledger[f] = Absent /\ mine[f] = (IF disk[f] = Absent THEN "no" ELSE "yes")
    BY <1>2 DEF Files!Nothing
  <2> QED BY <1>1, <2>1 DEF Tidy, Files!Current
<1>3. CASE disk = ledger /\ mine = [g \in File |-> "no"]
  <2>1. mine[f] = "no" /\ disk[f] = ledger[f]
    BY <1>3
  <2> QED BY <1>1, <2>1 DEF Tidy, Files!Current
<1> QED BY <1>2, <1>3 DEF Files!Init

\* A step of the one run over a file, or of the one that begins.
LEMMA TidyMoves ==
  ASSUME NEW f \in File, NEW p \in Installer,
         \A q \in Installer \ {p} : run'[q] = run[q] /\ ~Busy(q),
         run'[p].at = "rest" => Files!Current(f)',
         run'[p].at # "rest" => AtWork(p, f)'
  PROVE  Tidy(f)'
<1>1. \A q \in Installer \ {p} : ~(Busy(q)')
  BY DEF Busy
<1>2. Busy(p)' <=> run'[p].at # "rest"
  BY DEF Busy
<1>3. \A o, q \in Installer : Busy(o)' /\ Busy(q)' => o = q
  BY <1>1
<1>4. (\A q \in Installer : ~(Busy(q)')) => Files!Current(f)'
  BY <1>2
<1>5. \A q \in Installer : Busy(q)' => AtWork(q, f)'
  <2> SUFFICES ASSUME NEW q \in Installer, Busy(q)' PROVE AtWork(q, f)'
    OBVIOUS
  <2>1. q = p
    BY <1>1
  <2> QED BY <1>2, <2>1
<1> QED BY <1>3, <1>4, <1>5 DEF Tidy

\* The lead's edits.
LEMMA EditsKeep == FilesType /\ TidyInv /\ Files!Edits => TidyInv'
<1> SUFFICES ASSUME FilesType, TidyInv, Files!Edits, NEW f \in File \ adrift' PROVE Tidy(f)'
  BY DEF TidyInv
<1>0. /\ UNCHANGED <<ledger, aware, run, adrift>> /\ mine[f] \in {"no", "setting", "yes"}
      /\ mine'[f] \in {"no", "setting", "yes"}
  <2>1. UNCHANGED <<ledger, aware, run, adrift>>
    BY DEF Files!Edits
  <2>2. Files!Next
    BY DEF Files!Next
  <2>3. FilesType'
    BY <2>2, FilesTypeStep
  <2> QED BY <2>1, <2>3 DEF FilesType
<1>1. Tidy(f)
  BY <1>0 DEF TidyInv
<1>2. PICK g \in File :
         /\ \A h \in File \ {g} : disk'[h] = disk[h] /\ mine'[h] = mine[h]
         /\ \/ mine'[g] = "yes"
            \/ /\ mine'[g] = "setting" /\ g \in aware /\ mine[g] # "yes"
               /\ disk'[g] # Absent /\ disk[g] # Absent
               /\ disk'[g].text = disk[g].text /\ Files!Carriable(disk'[g])
  BY EditedIs
\* An edit keeps a file calm whatever it should hold.
<1>3. ASSUME NEW l, Calm(mine[f], disk[f], l) PROVE Calm(mine'[f], disk'[f], l)
  BY <1>0, <1>2, <1>3 DEF Calm
<1>4. mine[f] = "yes" => mine'[f] = "yes"
  BY <1>2
<1>5. Files!Current(f) => Files!Current(f)'
  <2>1. ASSUME Files!Current(f)
        PROVE  Calm(mine'[f], disk'[f], ledger[f]) /\ (mine'[f] = "setting" => f \in aware)
    BY <1>0, <1>2, <1>3, <2>1, CurrentIs
  <2> QED BY <1>0, <2>1 DEF Files!Current, Calm
<1>6. ASSUME NEW p \in Installer, AtWork(p, f) PROVE AtWork(p, f)'
  <2>1. (Pending(p, f)' <=> Pending(p, f)) /\ Target(p, f)' = Target(p, f)
    BY <1>0 DEF Pending, Target
  <2>2. f \in run[p].file => ReadOf(p, f)'
    BY <1>0, <1>3, <1>4, <1>6 DEF AtWork, ReadOf, Files!Carriable
  <2> QED BY <1>0, <1>3, <1>5, <1>6, <2>1, <2>2 DEF AtWork
<1>7. \A p \in Installer : Busy(p)' <=> Busy(p)
  BY <1>0 DEF Busy
<1> QED BY <1>1, <1>5, <1>6, <1>7 DEF Tidy

\* A run that begins by itself, with everything still before it.
LEMMA BeginsTidy ==
  ASSUME FilesType, TidyInv, NEW p \in Installer, NEW s \in Shipping, NEW t \in SUBSET File,
         NEW a \in {"read", "old"}, Files!Begins(p, s, t, a),
         \A f \in File : f \in t \/ (a = "read" /\ f \notin DOMAIN s) \/ (ledger[f] = Absent /\ f \notin DOMAIN s)
  PROVE  TidyInv'
<1> SUFFICES ASSUME NEW f \in File \ adrift' PROVE Tidy(f)'
  BY DEF TidyInv
<1>0. run \in [Installer -> Runs] /\ UNCHANGED <<disk, ledger, aware, mine>> /\ mine[f] \in {"no", "setting", "yes"}
  BY DEF FilesType, Files!Begins
<1>1. /\ run'[p].at = a /\ run'[p].ships = s /\ run'[p].prev = ledger /\ run'[p].knew = aware
      /\ run'[p].todo = t /\ run'[p].file = {} /\ run[p].at = "rest"
      /\ \A q \in Installer \ {p} : run'[q] = run[q]
  BY <1>0 DEF Files!Begins, Files!At, Files!Rest
<1>2. adrift' = IF Files!Others(p) THEN File ELSE adrift
  BY DEF Files!Begins
<1>3. f \notin adrift /\ \A q \in Installer \ {p} : run[q].at = "rest"
  BY <1>2 DEF Files!Others, Files!At
<1>4. Files!Current(f)
  BY <1>1, <1>3 DEF TidyInv, Tidy, Busy
<1>5. Files!Current(f)' /\ Calm(mine'[f], disk'[f], ledger'[f])
  BY <1>0, <1>4, CurrentIs DEF Files!Current
<1>6. Pending(p, f)' \/ (ledger'[f] = Absent /\ Target(p, f)' = Absent)
  BY <1>0, <1>1 DEF Pending, Target
<1>7. AtWork(p, f)'
  BY <1>0, <1>1, <1>5, <1>6 DEF AtWork
<1>8. run'[p].at # "rest" /\ \A q \in Installer \ {p} : run'[q] = run[q] /\ ~Busy(q)
  BY <1>1, <1>3 DEF Busy
<1> QED BY <1>7, <1>8, TidyMoves

\* What a run at work finds.
LEMMA AloneAtWork ==
  ASSUME TidyInv, NEW f \in File \ adrift, NEW p \in Installer, Busy(p)
  PROVE  /\ \A q \in Installer \ {p} : ~Busy(q)
         /\ AtWork(p, f)
BY DEF TidyInv, Tidy

LEMMA ReadsTidy ==
  ASSUME FilesType, ShippedInv, PlainInv, TidyInv, NEW p \in Installer, Files!Reads(p)
  PROVE  TidyInv'
<1> SUFFICES ASSUME NEW f \in File \ adrift' PROVE Tidy(f)'
  BY DEF TidyInv
<1>0. run \in [Installer -> Runs] /\ UNCHANGED <<disk, ledger, aware, mine, adrift>>
      /\ run[p].at \in {"read", "old"} /\ mine[f] \in {"no", "setting", "yes"}
      /\ run[p].file = {}
  BY DEF FilesType, Files!Reads, Files!At
<1>1. PICK g \in run[p].todo :
        run' = [run EXCEPT ![p].at = IF @ = "read" THEN "write" ELSE "remove",
                           ![p].todo = @ \ {g}, ![p].file = {g}, ![p].cur = disk[g]]
  BY DEF Files!Reads
<1>2. /\ run'[p].at = (IF run[p].at = "read" THEN "write" ELSE "remove")
      /\ run'[p].ships = run[p].ships /\ run'[p].prev = run[p].prev /\ run'[p].knew = run[p].knew
      /\ run'[p].todo = run[p].todo \ {g} /\ run'[p].file = {g} /\ run'[p].cur = disk[g]
      /\ \A q \in Installer \ {p} : run'[q] = run[q]
  BY <1>0, <1>1 DEF Runs
<1>3. AtWork(p, f) /\ \A q \in Installer \ {p} : ~Busy(q)
  BY <1>0, AloneAtWork DEF Busy
<1>4. ASSUME f = g PROVE ReadOf(p, f)'
  <2>1. Files!Current(f)
    BY <1>3, <1>4 DEF Pending, AtWork
  <2>2. Calm(mine[f], disk[f], ledger[f])
    BY <1>0, <2>1, CurrentIs
  <2>3. Slight(f) /\ Even(f)
    BY EvenLedger DEF PlainInv
  <2>4. Calm(mine[f], disk[f], disk[f])
    BY <2>2, <2>3 DEF Calm, Slight
  <2>5. mine[f] # "yes" => disk[f] = Absent \/ Files!Carriable(disk[f])
    BY <2>2, <2>3 DEF Slight, Even, Calm, Files!Carriable
  <2> QED BY <1>0, <1>2, <1>4, <2>4, <2>5 DEF ReadOf, Files!Carriable
<1>5. (Pending(p, f)' <=> Pending(p, f)) /\ Target(p, f)' = Target(p, f)
  BY <1>0, <1>2 DEF Pending, Target
<1>6. Files!Current(f)' <=> Files!Current(f)
  BY <1>0 DEF Files!Current
<1>7. AtWork(p, f)'
  BY <1>0, <1>2, <1>3, <1>4, <1>5, <1>6 DEF AtWork
<1>8. run'[p].at # "rest" /\ \A q \in Installer \ {p} : run'[q] = run[q] /\ ~Busy(q)
  BY <1>2, <1>3
<1> QED BY <1>7, <1>8, TidyMoves

\* A run is done with file g: what it left is what the file should hold.
LEMMA BackTidy ==
  ASSUME FilesType, TidyInv, NEW p \in Installer, NEW a \in {"read", "old"}, Files!Back(p, a),
         a = "read" => run[p].at = "write", a = "old" => run[p].at = "remove",
         UNCHANGED <<ledger, aware>>,
         NEW g \in File, run[p].file = {g}, g \notin run[p].todo,
         \A h \in File \ {g} : disk'[h] = disk[h] /\ mine'[h] = mine[h],
         adrift \subseteq adrift',
         g \notin adrift' => Calm(mine'[g], disk'[g], Target(p, g)),
         a = "read" => g \in DOMAIN run[p].ships
  PROVE  TidyInv'
<1> SUFFICES ASSUME NEW f \in File \ adrift' PROVE Tidy(f)'
  BY DEF TidyInv
<1>0. run \in [Installer -> Runs]
  BY DEF FilesType
<1>2. /\ run'[p].at = a
      /\ run'[p].ships = run[p].ships /\ run'[p].prev = run[p].prev /\ run'[p].knew = run[p].knew
      /\ run'[p].todo = run[p].todo /\ run'[p].file = {}
      /\ \A q \in Installer \ {p} : run'[q] = run[q]
  BY <1>0 DEF Runs, Files!Back
<1>3. AtWork(p, f) /\ \A q \in Installer \ {p} : ~Busy(q)
  BY AloneAtWork DEF Busy
<1>4. Target(p, f)' = Target(p, f)
  BY <1>2 DEF Target
<1>5. CASE f = g
  <2>1. ~(Pending(p, f)')
    BY <1>2, <1>5 DEF Pending
  <2>2. AtWork(p, f)'
    BY <1>2, <1>3, <1>4, <1>5, <2>1 DEF AtWork
  <2> QED BY <1>2, <1>3, <2>2, TidyMoves
<1>6. CASE f # g
  <2>1. Pending(p, f)' <=> Pending(p, f)
    BY <1>2, <1>6 DEF Pending
  <2>2. Files!Current(f) => Files!Current(f)'
    BY <1>6 DEF Files!Current
  <2>3. AtWork(p, f)'
    BY <1>2, <1>3, <1>4, <1>6, <2>1, <2>2 DEF AtWork
  <2> QED BY <1>2, <1>3, <2>3, TidyMoves
<1> QED BY <1>5, <1>6

\* The file is written as the release has it, or left as the lead has it.
LEMMA WritesTidy ==
  ASSUME FilesType, PlainInv, TidyInv, NEW p \in Installer, Files!Writes(p)
  PROVE  TidyInv'
<1>0. /\ UNCHANGED <<ledger, aware, adrift>> /\ run[p].at = "write" /\ Files!Back(p, "read")
      /\ mine \in [File -> {"no", "setting", "yes"}]
  BY DEF FilesType, Files!Writes, Files!At
<1>1. PICK f \in File \ run[p].todo :
         LET new == run[p].ships[f]  to == Files!Reconciled(p, f, new)
         IN  /\ run[p].file = {f} /\ f \in DOMAIN run[p].ships
             /\ new \in Files!Shipped(f) /\ new \in Files!Content /\ new # Absent /\ new.setting \notin Odd
             /\ \A g \in File \ {f} : disk'[g] = disk[g] /\ mine'[g] = mine[g]
             /\ to = run[p].cur => disk' = disk /\ mine' = mine
             /\ to # run[p].cur => disk'[f] = to /\ mine'[f] = IF to = new THEN "no" ELSE "setting"
             /\ to # run[p].cur /\ to # new =>
                  f \in Agent /\ to # Absent /\ to.text = new.text /\ Files!Carriable(to)
  BY WrittenIs
<1> DEFINE new == run[p].ships[f]
           to  == Files!Reconciled(p, f, new)
           cur == run[p].cur
<1>2. /\ new \in Files!Content /\ new # Absent /\ Target(p, f) = new
      /\ to = cur => disk' = disk /\ mine' = mine
      /\ to # cur => disk'[f] = to /\ mine'[f] = IF to = new THEN "no" ELSE "setting"
      /\ to # cur /\ to # new => f \in Agent /\ to # Absent /\ to.text = new.text /\ Files!Carriable(to)
  BY <1>1 DEF Target
<1>3. ASSUME f \notin adrift PROVE Calm(mine'[f], disk'[f], Target(p, f))
  <2>1. AtWork(p, f) /\ Slight(f)
    BY <1>0, <1>3, AloneAtWork DEF Busy, PlainInv
  <2>2. /\ Calm(mine[f], disk[f], ledger[f]) /\ (mine[f] = "setting" => f \in aware)
        /\ ReadOf(p, f) /\ run[p].prev = ledger /\ run[p].knew = aware
    BY <1>0, <1>1, <2>1, CurrentIs DEF AtWork, Pending
  <2>3. CASE to # cur
    <3> HIDE DEF to, new, cur
    <3> QED BY <1>2, <2>3 DEF Calm
  <2>4. CASE to = cur
    <3>1. disk' = disk /\ mine' = mine
      BY <1>2, <2>4
    <3>2. Calm(mine[f], disk[f], cur)
      BY <2>2 DEF ReadOf
    <3>3. CASE Files!Ours(p, f, new)
      <4>1. cur = new
        BY <2>4, <3>3 DEF Files!Reconciled
      <4> QED BY <1>2, <3>1, <3>2, <4>1
    <3>4. CASE ~Files!Ours(p, f, new)
      <4>1. cur # Absent /\ cur # new /\ (ledger[f] = Absent \/ cur # ledger[f])
        BY <2>2, <3>4 DEF Files!Ours
      <4>2. mine[f] # "no"
        BY <2>2, <3>2, <4>1 DEF Calm
      <4>3. CASE mine[f] = "setting"
        <5>1. f \in aware /\ f \in Agent /\ disk[f] # Absent /\ ledger[f] # Absent
              /\ disk[f].text = ledger[f].text /\ disk[f].text = cur.text /\ Files!Carriable(cur)
          BY <2>1, <2>2, <3>2, <4>1, <4>3 DEF Calm, Slight, ReadOf
        <5>2. to = Files!Carried(p, f, new)
          BY <2>2, <3>4, <5>1 DEF Files!Reconciled, Files!SettingsOnly
        <5>3. to.text = new.text
          BY <1>2, <5>2 DEF Files!Carried, Files!Content
        <5>4. disk[f].text = new.text
          BY <2>4, <5>1, <5>3
        <5>5. Calm(mine[f], disk[f], new)
          BY <1>2, <4>3, <5>1, <5>4 DEF Calm
        <5> QED BY <1>2, <3>1, <5>5
      <4>4. CASE mine[f] = "yes"
        BY <3>1, <4>4 DEF Calm
      <4> QED BY <1>0, <1>1, <4>2, <4>3, <4>4
    <3> QED BY <3>3, <3>4
  <2> QED BY <2>3, <2>4
<1> HIDE DEF to, new, cur
<1> QED BY <1>0, <1>1, <1>3, BackTidy

LEMMA RemovesTidy ==
  ASSUME FilesType, PlainInv, TidyInv, NEW p \in Installer, Files!Removes(p)
  PROVE  TidyInv'
<1>0. /\ UNCHANGED <<ledger, aware>> /\ run[p].at = "remove" /\ Files!Back(p, "old")
      /\ mine \in [File -> {"no", "setting", "yes"}]
  BY DEF FilesType, Files!Removes, Files!At
<1>1. PICK f \in File \ run[p].todo :
        LET own == run[p].cur # Absent /\ run[p].cur = run[p].prev[f]
        IN  /\ run[p].file = {f} /\ f \notin DOMAIN run[p].ships
            /\ \A g \in File \ {f} : disk'[g] = disk[g] /\ mine'[g] = mine[g]
            /\ \/ own /\ disk'[f] = Absent /\ mine'[f] = "no" /\ adrift' = adrift
               \/ /\ ~own /\ disk' = disk /\ adrift' = adrift
                  /\ mine'[f] = IF mine[f] = "no" \/ run[p].cur = Absent THEN mine[f] ELSE "yes"
               \/ own /\ disk' = disk /\ mine' = mine /\ adrift' = adrift \cup {f}
  BY RemovedIs
<1>2. Target(p, f) = Absent /\ adrift \subseteq adrift'
  BY <1>1 DEF Target
<1>3. ASSUME f \notin adrift' PROVE Calm(mine'[f], disk'[f], Target(p, f))
  <2>1. AtWork(p, f)
    BY <1>0, <1>2, <1>3, AloneAtWork DEF Busy
  <2>2. /\ Calm(mine[f], disk[f], run[p].cur) /\ Calm(mine[f], disk[f], ledger[f])
        /\ run[p].prev = ledger
    BY <1>0, <1>1, <2>1, CurrentIs DEF AtWork, ReadOf, Pending
  <2>3. CASE disk'[f] = Absent /\ mine'[f] = "no"
    BY <1>2, <2>3 DEF Calm
  <2>4. CASE /\ ~(run[p].cur # Absent /\ run[p].cur = run[p].prev[f])
             /\ disk' = disk
             /\ mine'[f] = IF mine[f] = "no" \/ run[p].cur = Absent THEN mine[f] ELSE "yes"
    <3>1. CASE run[p].cur = Absent
      BY <1>2, <2>2, <2>4, <3>1 DEF Calm
    <3>2. CASE run[p].cur # Absent /\ mine[f] = "no"
      BY <2>2, <2>4, <3>2 DEF Calm
    <3>3. CASE run[p].cur # Absent /\ mine[f] # "no"
      BY <2>4, <3>3 DEF Calm
    <3> QED BY <3>1, <3>2, <3>3
  <2> QED BY <1>1, <1>3, <2>3, <2>4
<1> QED BY <1>0, <1>1, <1>2, <1>3, BackTidy

LEMMA RetiresTidy ==
  ASSUME FilesType, TidyInv, NEW p \in Installer, Files!Retires(p)
  PROVE  TidyInv'
<1> SUFFICES ASSUME NEW f \in File \ adrift' PROVE Tidy(f)'
  BY DEF TidyInv
<1> DEFINE t == {g \in File \ DOMAIN run[p].ships : run[p].prev[g] # Absent}
<1>0. /\ run \in [Installer -> Runs] /\ run[p].at = "read" /\ run[p].todo = {} /\ run[p].file = {}
      /\ UNCHANGED <<disk, ledger, aware, mine, adrift>>
      /\ run' = [run EXCEPT ![p].at = "old", ![p].todo = t] /\ mine[f] \in {"no", "setting", "yes"}
  BY DEF FilesType, Files!Retires, Files!At
<1> HIDE DEF t
<1>2. /\ run'[p].at = "old"
      /\ run'[p].ships = run[p].ships /\ run'[p].prev = run[p].prev /\ run'[p].knew = run[p].knew
      /\ run'[p].todo = t /\ run'[p].file = {}
      /\ \A q \in Installer \ {p} : run'[q] = run[q]
  BY <1>0 DEF Runs
<1>3. AtWork(p, f) /\ \A q \in Installer \ {p} : ~Busy(q)
  BY <1>0, AloneAtWork DEF Busy
<1>4. Target(p, f)' = Target(p, f) /\ (Files!Current(f)' <=> Files!Current(f))
  BY <1>0, <1>2 DEF Target, Files!Current
<1>5. Pending(p, f)' <=> f \in t
  BY <1>2 DEF Pending
<1>6. Pending(p, f) <=> f \notin DOMAIN run[p].ships
  BY <1>0 DEF Pending
<1>7. f \in t <=> f \notin DOMAIN run[p].ships /\ ledger[f] # Absent
  BY <1>3 DEF t, AtWork
<1>8. Pending(p, f) /\ f \notin t => Target(p, f) = ledger[f]
  BY <1>6, <1>7 DEF Target
<1>9. Pending(p, f) => Calm(mine[f], disk[f], ledger[f])
  BY <1>0, <1>3, CurrentIs DEF AtWork
<1>10. ~(Pending(p, f)') => Calm(mine'[f], disk'[f], Target(p, f)')
  BY <1>0, <1>3, <1>4, <1>5, <1>6, <1>7, <1>8, <1>9 DEF AtWork
<1>11. AtWork(p, f)'
  BY <1>0, <1>2, <1>3, <1>4, <1>5, <1>6, <1>7, <1>10 DEF AtWork
<1> QED BY <1>2, <1>3, <1>11, TidyMoves

\* Every file was dealt with: the ledger becomes what the run shipped, and what it has
\* then is no longer adrift.
LEMMA SavesTidy ==
  ASSUME FilesType, PlainInv, TidyInv, NEW p \in Installer, Files!Saves(p)
  PROVE  TidyInv'
<1> SUFFICES ASSUME NEW f \in File \ adrift' PROVE Tidy(f)'
  BY DEF TidyInv
<1>0. /\ run \in [Installer -> Runs] /\ run[p].at = "old" /\ run[p].todo = {} /\ run[p].file = {}
      /\ UNCHANGED <<disk, mine>> /\ run' = [run EXCEPT ![p] = Files!Rest]
      /\ aware' = Agent \cap DOMAIN run[p].ships
      /\ ledger' = [g \in File |-> IF g \in DOMAIN run[p].ships THEN run[p].ships[g] ELSE Absent]
      /\ adrift' = (IF Files!Others(p) THEN adrift ELSE {g \in adrift : ~(Files!Current(g)')})
      /\ mine[f] \in {"no", "setting", "yes"}
  BY DEF FilesType, Files!Saves, Files!At
<1>1. run'[p].at = "rest" /\ \A q \in Installer \ {p} : run'[q] = run[q]
  BY <1>0, RestTyped
<1>2. CASE f \notin adrift
  <2>1. AtWork(p, f) /\ \A q \in Installer \ {p} : ~Busy(q)
    BY <1>0, <1>2, AloneAtWork DEF Busy
  <2>2. ledger'[f] = Target(p, f) /\ ~Pending(p, f)
    BY <1>0 DEF Target, Pending
  <2>3. Calm(mine[f], disk[f], ledger'[f])
    BY <2>1, <2>2 DEF AtWork
  <2>4. mine[f] = "setting" => f \in aware'
    BY <1>0, <2>2, <2>3 DEF PlainInv, Slight, Calm, Target
  <2>5. Files!Current(f)'
    BY <1>0, <2>3, <2>4 DEF Files!Current, Calm
  <2> QED BY <1>1, <2>1, <2>5, TidyMoves
<1>3. CASE f \in adrift
  <2>1. ~Files!Others(p) /\ Files!Current(f)'
    BY <1>0, <1>3
  <2>2. \A q \in Installer \ {p} : ~Busy(q)
    BY <2>1 DEF Files!Others, Files!At, Busy
  <2> QED BY <1>1, <2>1, <2>2, TidyMoves
<1> QED BY <1>2, <1>3

\* What the run has not brought into line with the ledger is adrift.
LEMMA BreaksTidy ==
  ASSUME FilesType, TidyInv, NEW p \in Installer, Files!Breaks(p)
  PROVE  TidyInv'
<1> SUFFICES ASSUME NEW f \in File \ adrift' PROVE Tidy(f)'
  BY DEF TidyInv
<1>0. /\ run \in [Installer -> Runs] /\ run[p].at # "rest"
      /\ UNCHANGED <<disk, ledger, aware, mine>> /\ run' = [run EXCEPT ![p] = Files!Rest]
      /\ adrift' = adrift \cup {g \in File : ~Files!Current(g)}
  BY DEF FilesType, Files!Breaks, Files!At
<1>1. run'[p].at = "rest" /\ \A q \in Installer \ {p} : run'[q] = run[q]
  BY <1>0, RestTyped
<1>2. f \notin adrift /\ Files!Current(f)
  BY <1>0
<1>3. Files!Current(f)'
  BY <1>0, <1>2 DEF Files!Current
<1>4. \A q \in Installer \ {p} : ~Busy(q)
  BY <1>0, <1>2, AloneAtWork DEF Busy
<1> QED BY <1>1, <1>3, <1>4, TidyMoves

LEMMA TidyStep == FilesType /\ ShippedInv /\ PlainInv /\ TidyInv /\ Files!Next => TidyInv'
<1> SUFFICES ASSUME FilesType, ShippedInv, PlainInv, TidyInv, Files!Next PROVE TidyInv'
  OBVIOUS
<1>1. ASSUME NEW p \in Installer, Files!Install(p) PROVE TidyInv'
  <2>1. PICK r \in Release : Files!Begins(p, Ships[r], DOMAIN Ships[r], "read")
    BY <1>1 DEF Files!Install
  <2>2. Ships[r] \in Shipping
    BY DEF Shipping
  <2> QED BY <2>1, <2>2, ShipsTyped, BeginsTidy
<1>2. ASSUME NEW p \in Installer, Files!Uninstall(p) PROVE TidyInv'
  <2>1. << >> \in Shipping /\ DOMAIN << >> = {}
    BY DEF Shipping
  <2> QED BY <1>2, <2>1, BeginsTidy DEF Files!Uninstall
<1> QED BY <1>1, <1>2, EditsKeep, ReadsTidy, WritesTidy, RemovesTidy, RetiresTidy, SavesTidy, BreaksTidy
        DEF Files!Next

LEMMA FilesSound == SumSpec => [](FilesType /\ ShippedInv /\ PlainInv /\ TidyInv)
<1>1. SumInit => FilesType /\ ShippedInv /\ PlainInv /\ TidyInv
  BY FilesTypeInit, ShippedInit, PlainInit, TidyInit DEF SumInit
<1>2. ASSUME FilesType, ShippedInv, PlainInv, TidyInv, [SumNext]_all
      PROVE  (FilesType /\ ShippedInv /\ PlainInv /\ TidyInv)'
  <2>1. CASE Files!Next
    BY <1>2, <2>1, FilesTypeStep, ShippedStep, PlainStep, TidyStep
  <2>2. CASE UNCHANGED managed
    <3>1. FilesType' /\ ShippedInv'
      BY <1>2, <2>2 DEF managed, FilesType, ShippedInv
    <3>2. PlainInv'
      BY <1>2, <2>2 DEF managed, PlainInv, Slight, Known, Files!Carriable
    <3>3. TidyInv'
      BY <1>2, <2>2 DEF managed, TidyInv, Tidy, Busy, AtWork, Pending, Target, ReadOf, Files!Carriable, Files!Current
    <3> QED BY <3>1, <3>2, <3>3
  <2> QED BY <1>2, <2>1, <2>2 DEF SumNext, all
<1> QED BY <1>1, <1>2, PTL DEF SumSpec

LEMMA UntouchedStaysCurrent == SumSpec => []UntouchedIsCurrent
<1>1. PlainInv /\ TidyInv => UntouchedIsCurrent
  <2> SUFFICES ASSUME PlainInv, TidyInv PROVE UntouchedIsCurrent
    OBVIOUS
  <2>1. \A f \in File :
          /\ mine[f] = "no" => disk[f] \in Files!Shipped(f) \cup {Absent}
          /\ mine[f] = "setting" => disk[f] # Absent /\ \E b \in Files!Shipped(f) : b.text = disk[f].text
    BY DEF PlainInv, Known
  <2>2. (\A p \in Installer : Files!At(p, {"rest"})) => \A f \in File \ adrift : Files!Current(f)
    BY DEF TidyInv, Tidy, Busy, Files!At
  <2> QED BY <2>1, <2>2 DEF UntouchedIsCurrent, Files!UntouchedIsCurrent
<1> QED BY <1>1, FilesSound, PTL

\* A run that replaces or removes a file it finds as it read it takes nothing of
\* the lead's: what was there was shipped, or goes on in the new file
\* (manifest/manifest.go, installer/installer.go).
THEOREM ClobberedIsShipped == SumSpec => NothingClobbered
<1>1. ASSUME FilesType, ShippedInv, [SumNext]_all
      PROVE  [Files!LosesNothing]_(Files!vars)
  <2>1. CASE Files!Next
    BY <1>1, <2>1, ClobbersNothing DEF Files!LosesNothing
  <2>2. CASE UNCHANGED managed
    BY <2>2 DEF managed, Files!vars
  <2> QED BY <1>1, <2>1, <2>2 DEF SumNext, all
<1> QED BY <1>1, FilesSound, PTL DEF SumSpec, NothingClobbered, Files!NothingClobbered

\* For any files, releases, overlapping runs, kills and failures: a run takes nothing of
\* the lead's from a file it finds as it read it; what the lead has not touched is what
\* some release shipped; and between runs it is what the ledger says, but for the files a
\* broken-off run or two at once left apart from it and no run by itself has brought back
\* (manifest/manifest.go, installer/installer.go).
THEOREM FilesStayKept == SumSpec => FilesKept
BY UntouchedStaysCurrent, ClobberedIsShipped, PTL DEF FilesKept, NothingClobbered, Files!NothingClobbered

-----------------------------------------------------------------------------
(***************************************************************************)
(* SharedFiles: the leaves of settings.json.                               *)
(***************************************************************************)
Maybe == Value \cup {Absent}

\* A run's record, with what it read and what it will save.
Hand(h) ==
  /\ h = [at |-> h.at, of |-> h.of, lines |-> h.lines, seen |-> h.seen, was |-> h.was, next |-> h.next]
  /\ h.of = {} \/ \E r \in Release : h.of = {r}
  /\ h.seen \in [Leaf -> Maybe] /\ h.was \in [Leaf -> Maybe] /\ h.next \in [Leaf -> Maybe]

Record(a, o, l, s, w, n) == [at |-> a, of |-> o, lines |-> l, seen |-> s, was |-> w, next |-> n]

LEMMA AtOnly ==
  ASSUME NEW a, NEW o, NEW l, NEW s, NEW w, NEW n, NEW b
  PROVE  [Record(a, o, l, s, w, n) EXCEPT !.at = b] = Record(b, o, l, s, w, n)
BY DEF Record

LEMMA OfOnly ==
  ASSUME NEW a, NEW o, NEW l, NEW s, NEW w, NEW n, NEW b
  PROVE  [Record(a, o, l, s, w, n) EXCEPT !.of = b] = Record(a, b, l, s, w, n)
BY DEF Record

LEMMA LinesOnly ==
  ASSUME NEW a, NEW o, NEW l, NEW s, NEW w, NEW n, NEW b
  PROVE  [Record(a, o, l, s, w, n) EXCEPT !.lines = b] = Record(a, o, b, s, w, n)
BY DEF Record

LEMMA SeenOnly ==
  ASSUME NEW a, NEW o, NEW l, NEW s, NEW w, NEW n, NEW b
  PROVE  [Record(a, o, l, s, w, n) EXCEPT !.seen = b] = Record(a, o, l, b, w, n)
BY DEF Record

LEMMA WasOnly ==
  ASSUME NEW a, NEW o, NEW l, NEW s, NEW w, NEW n, NEW b
  PROVE  [Record(a, o, l, s, w, n) EXCEPT !.was = b] = Record(a, o, l, s, b, n)
BY DEF Record

LEMMA NextOnly ==
  ASSUME NEW a, NEW o, NEW l, NEW s, NEW w, NEW n, NEW b
  PROVE  [Record(a, o, l, s, w, n) EXCEPT !.next = b] = Record(a, o, l, s, w, b)
BY DEF Record

LeafType ==
  /\ settings \in [Leaf -> Maybe] /\ claims \in [Leaf -> Maybe]
  /\ by \in [Leaf -> {"nobody", "lead", "ttorch"}]
  /\ hand = [p \in Installer |-> hand[p]] /\ \A p \in Installer : Hand(hand[p])
  /\ json = "missing" => settings = Shares!None

\* ttorch's leaves are those `l' tells of.
Told(l) == \A k \in Leaf : by[k] = "ttorch" => settings[k] = l[k]

\* A run alone with the leaves: what it read is still so but for the lead's edits.
LeafInv ==
  ~broken =>
    /\ \A p, q \in Installer : hand[p].at # "rest" /\ hand[q].at # "rest" => p = q
    /\ (\A p \in Installer : hand[p].at # "ledger") => Told(claims)
    /\ \A p \in Installer :
         /\ hand[p].at = "merge" => hand[p].was = claims /\ Told(hand[p].seen)
         /\ hand[p].at = "ledger" => Told(hand[p].next)

LEMMA LeafInit == Shares!Init => LeafType /\ LeafInv
<1> SUFFICES ASSUME Shares!Init PROVE LeafType /\ LeafInv
  OBVIOUS
<1>1. Shares!None \in [Leaf -> Maybe] /\ \A k \in Leaf : Shares!None[k] = Absent
  BY DEF Shares!None, Maybe
<1>2. Hand(Shares!Rest) /\ Shares!Rest.at = "rest"
  BY <1>1 DEF Hand, Shares!Rest
<1>3. \A p \in Installer : hand[p] = Shares!Rest
  BY DEF Shares!Init
<1>4. hand = [p \in Installer |-> hand[p]]
  BY DEF Shares!Init
<1>5. settings \in [Leaf -> Maybe] /\ by \in [Leaf -> {"nobody", "lead", "ttorch"}] /\ \A k \in Leaf : by[k] # "ttorch"
  BY DEF Shares!Init, Maybe
<1>6. LeafType
  BY <1>1, <1>2, <1>3, <1>4, <1>5 DEF LeafType, Shares!Init
<1>7. LeafInv
  BY <1>2, <1>3, <1>5 DEF LeafInv, Told
<1> QED BY <1>6, <1>7

\* A run that moves without touching the leaves, or ends.
LEMMA LeafMoves ==
  ASSUME LeafType, LeafInv, NEW p \in Installer, NEW h, Hand(h), hand' = [hand EXCEPT ![p] = h],
         UNCHANGED <<settings, claims, json, by>>, broken => broken',
         ~broken' => /\ \A q \in Installer \ {p} : hand[q].at = "rest"
                     /\ hand[p].at # "ledger" /\ h.at # "ledger"
                     /\ h.at = "merge" => h.was = claims /\ h.seen = settings
  PROVE  LeafType' /\ LeafInv'
<1>1. /\ hand' = [q \in Installer |-> hand'[q]] /\ hand'[p] = h
      /\ \A q \in Installer \ {p} : hand'[q] = hand[q]
  BY DEF LeafType
<1>2. LeafType'
  BY <1>1 DEF LeafType
<1>3. LeafInv'
  <2> SUFFICES ASSUME ~broken' PROVE LeafInv'
    BY DEF LeafInv
  <2>1. \A q \in Installer : hand[q].at # "ledger"
    OBVIOUS
  <2>2. Told(claims)
    BY <2>1 DEF LeafInv
  <2>3. \A l : Told(l)' <=> Told(l)
    BY DEF Told
  <2> QED BY <1>1, <2>2 DEF LeafInv, Told
<1> QED BY <1>2, <1>3

LEMMA ManagedTyped ==
  ASSUME LeafType, NEW p \in Installer
  PROVE  /\ DOMAIN Shares!Managed(p) \subseteq Leaf
         /\ \A k \in DOMAIN Shares!Managed(p) : Shares!Managed(p)[k] \in Value
<1>1. CASE hand[p].of = {}
  <2>1. Shares!Managed(p) = << >>
    BY <1>1 DEF Shares!Managed, Shares!Installs
  <2> QED BY <2>1
<1>2. CASE hand[p].of # {}
  <2>1. PICK r \in Release : hand[p].of = {r}
    BY <1>2 DEF LeafType, Hand
  <2>2. (CHOOSE x \in hand[p].of : TRUE) = r
    BY <2>1
  <2>3. Shares!Managed(p) = Manages[r]
    BY <1>2, <2>2 DEF Shares!Managed, Shares!Installs
  <2>4. DOMAIN Manages[r] \subseteq Leaf /\ Manages[r] \in [DOMAIN Manages[r] -> Value]
    BY SharedFilesAssumption
  <2> QED BY <2>3, <2>4
<1> QED BY <1>1, <1>2

\* The leaves are written; what will be saved tells of what is ttorch's now.
LEMMA LeafWrites ==
  ASSUME LeafType, LeafInv, NEW p \in Installer, Shares!WritesSettings(p)
  PROVE  LeafType' /\ LeafInv'
<1> DEFINE to == Shares!Merged(p)
           new == Shares!Managed(p)
           nxt == [k \in Leaf |-> IF k \in Shares!Claims(p) THEN new[k] ELSE Absent]
           h == [hand[p] EXCEPT !.at = "ledger", !.next = nxt]
           seen == hand[p].seen
           was == hand[p].was
<1>1. /\ hand[p].at = "merge" /\ UNCHANGED <<claims, broken>>
      /\ hand' = [hand EXCEPT ![p].at = "ledger", ![p].next = nxt]
  BY DEF Shares!WritesSettings, Shares!At
<1>2. seen \in [Leaf -> Maybe] /\ was \in [Leaf -> Maybe] /\ Hand(hand[p])
  BY DEF LeafType, Hand
<1>3. DOMAIN new \subseteq Leaf /\ \A k \in DOMAIN new : new[k] \in Value
  BY ManagedTyped
<1>4. \A k \in Leaf : /\ k \in Shares!Claims(p) <=> k \in DOMAIN new /\ (seen[k] = Absent \/ (was[k] # Absent /\ seen[k] = was[k]))
  BY DEF Shares!Claims, Shares!Owned
<1>5. \A k \in Leaf : to[k] = IF k \in Shares!Claims(p) THEN new[k]
                              ELSE IF k \notin DOMAIN new /\ was[k] # Absent /\ seen[k] = was[k] THEN Absent
                              ELSE seen[k]
  BY DEF Shares!Merged, Shares!Owned
<1>6. to \in [Leaf -> Maybe]
  <2>1. \A k \in Leaf : to[k] \in Maybe
    BY <1>2, <1>3, <1>4, <1>5 DEF Maybe
  <2> QED BY <2>1 DEF Shares!Merged
<1>7. nxt \in [Leaf -> Maybe] /\ \A k \in Leaf : nxt[k] = (IF k \in Shares!Claims(p) THEN new[k] ELSE Absent)
  BY <1>3, <1>4 DEF Maybe
<1>8. \/ to = seen /\ UNCHANGED <<settings, json, by>>
      \/ /\ settings' = to /\ json' = "object"
         /\ by' = [k \in Leaf |-> IF to[k] = seen[k] THEN (IF settings[k] = to[k] THEN by[k] ELSE "lead")
                                  ELSE IF to[k] = Absent THEN "nobody" ELSE "ttorch"]
  BY DEF Shares!WritesSettings
<1> HIDE DEF to, new, nxt
<1>9. Hand(h) /\ h.at = "ledger" /\ h.next = nxt
  <2>0. hand[p] = Record(hand[p].at, hand[p].of, hand[p].lines, seen, was, hand[p].next)
    BY <1>2 DEF Hand, Record
  <2>1. h = [at |-> "ledger", of |-> hand[p].of, lines |-> hand[p].lines, seen |-> seen, was |-> was, next |-> nxt]
    <3>1. h = [Record(hand[p].at, hand[p].of, hand[p].lines, seen, was, hand[p].next) EXCEPT !.at = "ledger", !.next = nxt]
      BY <2>0
    <3>2. [[Record(hand[p].at, hand[p].of, hand[p].lines, seen, was, hand[p].next) EXCEPT !.at = "ledger"] EXCEPT !.next = nxt]
          = Record("ledger", hand[p].of, hand[p].lines, seen, was, nxt)
      <4>1. [Record(hand[p].at, hand[p].of, hand[p].lines, seen, was, hand[p].next) EXCEPT !.at = "ledger"]
            = Record("ledger", hand[p].of, hand[p].lines, seen, was, hand[p].next)
        BY AtOnly
      <4>2. [Record("ledger", hand[p].of, hand[p].lines, seen, was, hand[p].next) EXCEPT !.next = nxt]
            = Record("ledger", hand[p].of, hand[p].lines, seen, was, nxt)
        BY NextOnly
      <4> QED BY <4>1, <4>2
    <3>4. [hand[p] EXCEPT !.at = "ledger", !.next = nxt] = [[hand[p] EXCEPT !.at = "ledger"] EXCEPT !.next = nxt]
      OBVIOUS
    <3>3. h = Record("ledger", hand[p].of, hand[p].lines, seen, was, nxt)
      BY Zenon, <2>0, <3>2, <3>4
    <3> QED BY <3>3 DEF Record
  <2>2. h.at = "ledger" /\ h.of = hand[p].of /\ h.lines = hand[p].lines /\ h.seen = seen /\ h.was = was /\ h.next = nxt
    BY <2>1
  <2>3. h = [at |-> h.at, of |-> h.of, lines |-> h.lines, seen |-> h.seen, was |-> h.was, next |-> h.next]
    BY <2>1, <2>2
  <2>4. h.of = {} \/ \E r \in Release : h.of = {r}
    BY <1>2, <2>2 DEF Hand
  <2> QED BY <1>2, <1>7, <2>2, <2>3, <2>4 DEF Hand
<1>10. hand' = [hand EXCEPT ![p] = h]
  BY <1>1, <1>2 DEF LeafType
<1> HIDE DEF h
<1>11. /\ hand' = [q \in Installer |-> hand'[q]] /\ hand'[p] = h
       /\ \A q \in Installer \ {p} : hand'[q] = hand[q]
  BY <1>10 DEF LeafType
<1>12. settings' \in [Leaf -> Maybe] /\ by' \in [Leaf -> {"nobody", "lead", "ttorch"}]
  BY <1>6, <1>8 DEF LeafType
<1>13. LeafType'
  BY <1>1, <1>8, <1>9, <1>11, <1>12 DEF LeafType
<1>14. ASSUME ~broken, NEW k \in Leaf, by'[k] = "ttorch" PROVE settings'[k] = nxt[k]
  <2>1. was = claims /\ Told(seen)
    BY <1>1, <1>14 DEF LeafInv
  <2>2. Told(claims)
    <3>1. \A q \in Installer : hand[q].at # "ledger"
      BY <1>1, <1>14 DEF LeafInv
    <3> QED BY <1>14, <3>1 DEF LeafInv
  <2>3. by[k] = "ttorch" /\ to[k] = seen[k] => to[k] = nxt[k] /\ settings[k] = to[k]
    <3> SUFFICES ASSUME by[k] = "ttorch", to[k] = seen[k] PROVE to[k] = nxt[k] /\ settings[k] = to[k]
      OBVIOUS
    <3>1. settings[k] = seen[k] /\ seen[k] = was[k]
      BY <2>1, <2>2 DEF Told
    <3>2. CASE k \in Shares!Claims(p)
      BY <1>5, <1>7, <3>1, <3>2
    <3>3. CASE k \notin Shares!Claims(p)
      <4>1. to[k] = Absent
        BY <1>4, <1>5, <3>1, <3>3
      <4> QED BY <1>7, <3>1, <3>3, <4>1
    <3> QED BY <3>2, <3>3
  <2>4. to[k] # seen[k] /\ to[k] # Absent => to[k] = nxt[k]
    BY <1>5, <1>7
  <2>5. CASE to = seen /\ UNCHANGED <<settings, json, by>>
    BY <1>14, <2>3, <2>5
  <2>6. CASE /\ settings' = to
             /\ by' = [j \in Leaf |-> IF to[j] = seen[j] THEN (IF settings[j] = to[j] THEN by[j] ELSE "lead")
                                      ELSE IF to[j] = Absent THEN "nobody" ELSE "ttorch"]
    BY <1>14, <2>3, <2>4, <2>6
  <2> QED BY <1>8, <2>5, <2>6
<1>15. LeafInv'
  <2> SUFFICES ASSUME ~broken' PROVE LeafInv'
    BY DEF LeafInv
  <2>1. \A q \in Installer \ {p} : hand[q].at = "rest"
    BY <1>1 DEF LeafInv
  <2>2. hand'[p].at = "ledger" /\ hand'[p].next = nxt
    BY <1>9, <1>11
  <2>3. \A k \in Leaf : by'[k] = "ttorch" => settings'[k] = hand'[p].next[k]
    BY <1>1, <1>14, <2>2
  <2> QED BY <1>11, <2>1, <2>2, <2>3 DEF LeafInv, Told
<1> QED BY <1>13, <1>15

LEMMA LeafReads ==
  ASSUME LeafType, LeafInv, NEW p \in Installer, Shares!ReadsSettings(p)
  PROVE  LeafType' /\ LeafInv'
<1>1. hand[p].at = "settings" /\ UNCHANGED <<settings, json, by, broken>>
  BY DEF Shares!ReadsSettings, Shares!At
<1>2. ~broken => \A q \in Installer \ {p} : hand[q].at = "rest"
  BY <1>1 DEF LeafInv
<1>3. Shares!None \in [Leaf -> Maybe] /\ \A k \in Leaf : Shares!None[k] = Absent
  BY DEF Shares!None, Maybe
<1>4. Hand(Shares!Rest) /\ Shares!Rest.at = "rest"
  BY <1>3 DEF Hand, Shares!Rest
<1>5. Hand(hand[p])
  BY DEF LeafType
<1>6. CASE hand' = [hand EXCEPT ![p] = Shares!Rest] /\ UNCHANGED claims
  BY <1>1, <1>2, <1>4, <1>6, LeafMoves
<1>7. CASE hand' = [hand EXCEPT ![p].at = "merge", ![p].seen = settings, ![p].was = claims] /\ UNCHANGED claims
  <2> DEFINE h == [at |-> "merge", of |-> hand[p].of, lines |-> hand[p].lines, seen |-> settings, was |-> claims, next |-> hand[p].next]
  <2>0. hand[p] = Record(hand[p].at, hand[p].of, hand[p].lines, hand[p].seen, hand[p].was, hand[p].next)
    BY <1>5 DEF Hand, Record
  <2>a. h = [hand[p] EXCEPT !.at = "merge", !.seen = settings, !.was = claims]
    <3>0. [hand[p] EXCEPT !.at = "merge", !.seen = settings, !.was = claims]
          = [[[hand[p] EXCEPT !.at = "merge"] EXCEPT !.seen = settings] EXCEPT !.was = claims]
      OBVIOUS
    <3>1. [[[Record(hand[p].at, hand[p].of, hand[p].lines, hand[p].seen, hand[p].was, hand[p].next) EXCEPT !.at = "merge"] EXCEPT !.seen = settings] EXCEPT !.was = claims]
          = Record("merge", hand[p].of, hand[p].lines, settings, claims, hand[p].next)
      <4>1. [Record(hand[p].at, hand[p].of, hand[p].lines, hand[p].seen, hand[p].was, hand[p].next) EXCEPT !.at = "merge"]
            = Record("merge", hand[p].of, hand[p].lines, hand[p].seen, hand[p].was, hand[p].next)
        BY AtOnly
      <4>2. [Record("merge", hand[p].of, hand[p].lines, hand[p].seen, hand[p].was, hand[p].next) EXCEPT !.seen = settings]
            = Record("merge", hand[p].of, hand[p].lines, settings, hand[p].was, hand[p].next)
        BY SeenOnly
      <4>3. [Record("merge", hand[p].of, hand[p].lines, settings, hand[p].was, hand[p].next) EXCEPT !.was = claims]
            = Record("merge", hand[p].of, hand[p].lines, settings, claims, hand[p].next)
        BY WasOnly
      <4> QED BY <4>1, <4>2, <4>3
    <3>2. h = Record("merge", hand[p].of, hand[p].lines, settings, claims, hand[p].next)
      BY DEF Record
    <3> HIDE DEF h
    <3> QED BY <2>0, <3>0, <3>1, <3>2
  <2>b. hand' = [hand EXCEPT ![p] = [hand[p] EXCEPT !.at = "merge", !.seen = settings, !.was = claims]]
    BY <1>7 DEF LeafType
  <2>1. hand' = [hand EXCEPT ![p] = h]
    BY <2>a, <2>b
  <2>2. h.at = "merge" /\ h.seen = settings /\ h.was = claims
    OBVIOUS
  <2>3. Hand(h)
    BY <1>5 DEF Hand, LeafType
  <2> HIDE DEF h
  <2> QED BY <1>1, <1>2, <1>7, <2>1, <2>2, <2>3, LeafMoves
<1>8. CASE hand' = [hand EXCEPT ![p] = Shares!Rest] /\ claims' = Shares!None /\ (claims = Shares!None \/ json = "missing")
  <2>1. /\ hand' = [q \in Installer |-> hand'[q]] /\ hand'[p] = Shares!Rest
        /\ \A q \in Installer \ {p} : hand'[q] = hand[q]
    BY <1>8 DEF LeafType
  <2>2. LeafType'
    BY <1>1, <1>3, <1>4, <1>8, <2>1 DEF LeafType
  <2>3. ~broken => Told(claims)
    BY <1>1, <1>2 DEF LeafInv
  <2>4. json = "missing" => settings = Shares!None
    BY DEF LeafType
  <2>5. ~broken => \A k \in Leaf : by[k] = "ttorch" => settings[k] = Shares!None[k]
    BY <1>8, <2>3, <2>4 DEF Told
  <2> QED BY <1>1, <1>2, <1>4, <1>8, <2>1, <2>2, <2>5 DEF LeafInv, Told
<1> QED BY <1>6, <1>7, <1>8 DEF Shares!ReadsSettings

LEMMA LeafSaves ==
  ASSUME LeafType, LeafInv, NEW p \in Installer, Shares!SavesLedger(p)
  PROVE  LeafType' /\ LeafInv'
<1>1. hand[p].at = "ledger" /\ UNCHANGED <<settings, json, by, broken>> /\ claims' = hand[p].next
      /\ hand' = [hand EXCEPT ![p] = Shares!Rest]
  BY DEF Shares!SavesLedger, Shares!At
<1>2. ~broken => /\ \A q \in Installer \ {p} : hand[q].at = "rest"
                 /\ Told(hand[p].next)
  BY <1>1 DEF LeafInv
<1>3. Shares!None \in [Leaf -> Maybe]
  BY DEF Shares!None, Maybe
<1>4. Hand(Shares!Rest) /\ Shares!Rest.at = "rest"
  BY <1>3 DEF Hand, Shares!Rest
<1>5. /\ hand' = [q \in Installer |-> hand'[q]] /\ hand'[p] = Shares!Rest
      /\ \A q \in Installer \ {p} : hand'[q] = hand[q]
  BY <1>1 DEF LeafType
<1>6. hand[p].next \in [Leaf -> Maybe]
  BY DEF LeafType, Hand
<1>7. LeafType'
  BY <1>1, <1>4, <1>5, <1>6 DEF LeafType
<1>8. ~broken => \A k \in Leaf : by[k] = "ttorch" => settings[k] = claims'[k]
  BY <1>1, <1>2 DEF Told
<1> QED BY <1>1, <1>2, <1>4, <1>5, <1>7, <1>8 DEF LeafInv, Told

LEMMA LeafEdits ==
  ASSUME LeafType, LeafInv, Shares!EditsSettings
  PROVE  LeafType' /\ LeafInv'
<1>1. UNCHANGED <<claims, hand, broken>>
  BY DEF Shares!EditsSettings
<1>2. Shares!None \in [Leaf -> Maybe] /\ \A k \in Leaf : Shares!None[k] = Absent
  BY DEF Shares!None, Maybe
<1>3. /\ settings' \in [Leaf -> Maybe] /\ by' \in [Leaf -> {"nobody", "lead", "ttorch"}]
      /\ json' = "missing" => settings' = Shares!None
      /\ \A k \in Leaf : by'[k] = "ttorch" => by[k] = "ttorch" /\ settings'[k] = settings[k]
  <2>1. CASE /\ json' = "object"
             /\ \E k \in Leaf, v \in Maybe :
                  /\ v # settings[k]
                  /\ settings' = [settings EXCEPT ![k] = v]
                  /\ by' = [by EXCEPT ![k] = "lead"]
    BY <2>1 DEF LeafType
  <2>2. CASE json' \in {"missing", "broken"} /\ settings' = Shares!None /\ by' = [k \in Leaf |-> "lead"]
    BY <1>2, <2>2 DEF LeafType
  <2> QED BY <2>1, <2>2 DEF Shares!EditsSettings, Maybe
<1>4. LeafType'
  BY <1>1, <1>3 DEF LeafType
<1>5. \A l : Told(l) => \A k \in Leaf : by'[k] = "ttorch" => settings'[k] = l[k]
  BY <1>3 DEF Told
<1>6. LeafInv'
  <2> SUFFICES ASSUME ~broken' PROVE LeafInv'
    BY DEF LeafInv
  <2>1. ~broken
    BY <1>1
  <2>2. (\A p \in Installer : hand'[p].at # "ledger") => \A k \in Leaf : by'[k] = "ttorch" => settings'[k] = claims'[k]
    BY <1>1, <1>5, <2>1 DEF LeafInv
  <2>3. \A p \in Installer : hand'[p].at = "merge" =>
          hand'[p].was = claims' /\ \A k \in Leaf : by'[k] = "ttorch" => settings'[k] = hand'[p].seen[k]
    BY <1>1, <1>5, <2>1 DEF LeafInv
  <2>4. \A p \in Installer : hand'[p].at = "ledger" =>
          \A k \in Leaf : by'[k] = "ttorch" => settings'[k] = hand'[p].next[k]
    BY <1>1, <1>5, <2>1 DEF LeafInv
  <2>5. \A p, q \in Installer : hand'[p].at # "rest" /\ hand'[q].at # "rest" => p = q
    BY <1>1, <2>1 DEF LeafInv
  <2> QED BY <2>2, <2>3, <2>4, <2>5 DEF LeafInv, Told
<1> QED BY <1>4, <1>6

\* The steps at CLAUDE.md touch nothing else.
Links(p) == Shares!Looks(p) \/ Shares!Unlinks(p) \/ Shares!Symlinks(p) \/ Shares!Copies(p)

LEMMA LinkSteps ==
  ASSUME NEW p \in Installer, Links(p)
  PROVE  /\ \E s \in {"unlink", "symlink", "copy", "settings"} : Shares!Go(p, s)
         /\ hand[p].at \in {"link", "unlink", "symlink", "copy"}
         /\ UNCHANGED <<agents, settings, json, claims, by, wrote, broken>>
<1>1. CASE Shares!Looks(p)
  BY <1>1 DEF Shares!Looks, Shares!Linked, Shares!At, Shares!unchangedSettings
<1>2. CASE Shares!Unlinks(p)
  BY <1>2 DEF Shares!Unlinks, Shares!Linked, Shares!At, Shares!unchangedSettings
<1>3. CASE Shares!Symlinks(p)
  BY <1>3 DEF Shares!Symlinks, Shares!Linked, Shares!At, Shares!unchangedSettings
<1>4. CASE Shares!Copies(p)
  BY <1>4 DEF Shares!Copies, Shares!Linked, Shares!At, Shares!unchangedSettings
<1> QED BY <1>1, <1>2, <1>3, <1>4 DEF Links

LEMMA LeafStep ==
  ASSUME LeafType, LeafInv, [Shares!Next]_shared
  PROVE  LeafType' /\ LeafInv'
<1>1. Shares!None \in [Leaf -> Maybe] /\ \A k \in Leaf : Shares!None[k] = Absent
  BY DEF Shares!None, Maybe
<1>2. ASSUME NEW p \in Installer, NEW of, of = {} \/ (\E r \in Release : of = {r}), Shares!Begins(p, of)
      PROVE  LeafType' /\ LeafInv'
  <2> DEFINE h == [at |-> "block", of |-> of, lines |-> agents, seen |-> Shares!None, was |-> Shares!None, next |-> Shares!None]
  <2>0. Shares!Rest = Record("rest", {}, << >>, Shares!None, Shares!None, Shares!None)
    BY DEF Shares!Rest, Record
  <2>a. h = [Shares!Rest EXCEPT !.at = "block", !.of = of, !.lines = agents]
    <3>0. [Shares!Rest EXCEPT !.at = "block", !.of = of, !.lines = agents]
          = [[[Shares!Rest EXCEPT !.at = "block"] EXCEPT !.of = of] EXCEPT !.lines = agents]
      OBVIOUS
    <3>1. [[[Record("rest", {}, << >>, Shares!None, Shares!None, Shares!None) EXCEPT !.at = "block"] EXCEPT !.of = of] EXCEPT !.lines = agents]
          = Record("block", of, agents, Shares!None, Shares!None, Shares!None)
      <4>1. [Record("rest", {}, << >>, Shares!None, Shares!None, Shares!None) EXCEPT !.at = "block"]
            = Record("block", {}, << >>, Shares!None, Shares!None, Shares!None)
        BY AtOnly
      <4>2. [Record("block", {}, << >>, Shares!None, Shares!None, Shares!None) EXCEPT !.of = of]
            = Record("block", of, << >>, Shares!None, Shares!None, Shares!None)
        BY OfOnly
      <4>3. [Record("block", of, << >>, Shares!None, Shares!None, Shares!None) EXCEPT !.lines = agents]
            = Record("block", of, agents, Shares!None, Shares!None, Shares!None)
        BY LinesOnly
      <4> QED BY <4>1, <4>2, <4>3
    <3>2. h = Record("block", of, agents, Shares!None, Shares!None, Shares!None)
      BY DEF Record
    <3> HIDE DEF h
    <3> QED BY <2>0, <3>0, <3>1, <3>2
  <2>1. hand' = [hand EXCEPT ![p] = h] /\ hand[p].at = "rest"
    BY <1>2, <2>a DEF Shares!Begins, Shares!At
  <2>2. UNCHANGED <<settings, claims, json, by>>
    BY <1>2 DEF Shares!Begins, Shares!unchangedSettings
  <2>3. (broken => broken') /\ (~broken' => \A q \in Installer \ {p} : hand[q].at = "rest")
    BY <1>2 DEF Shares!Begins, Shares!At
  <2>4. Hand(h) /\ h.at = "block"
    BY <1>1, <1>2 DEF Hand
  <2> HIDE DEF h
  <2> QED BY <2>1, <2>2, <2>3, <2>4, LeafMoves
<1>3. ASSUME NEW p \in Installer, NEW s \in {"link", "unlink", "symlink", "copy", "settings"}, hand[p].at \notin {"rest", "ledger"}, Shares!Go(p, s),
             UNCHANGED <<settings, claims, json, by, broken>>
      PROVE  LeafType' /\ LeafInv'
  <2> DEFINE h == [at |-> s, of |-> hand[p].of, lines |-> hand[p].lines, seen |-> hand[p].seen, was |-> hand[p].was, next |-> hand[p].next]
  <2>0. hand[p] = Record(hand[p].at, hand[p].of, hand[p].lines, hand[p].seen, hand[p].was, hand[p].next)
    BY DEF LeafType, Hand, Record
  <2>a. h = [hand[p] EXCEPT !.at = s]
    <3>1. [Record(hand[p].at, hand[p].of, hand[p].lines, hand[p].seen, hand[p].was, hand[p].next) EXCEPT !.at = s]
          = Record(s, hand[p].of, hand[p].lines, hand[p].seen, hand[p].was, hand[p].next)
      BY AtOnly
    <3>2. h = Record(s, hand[p].of, hand[p].lines, hand[p].seen, hand[p].was, hand[p].next)
      BY DEF Record
    <3> HIDE DEF h
    <3> QED BY <2>0, <3>1, <3>2
  <2>b. hand' = [hand EXCEPT ![p] = [hand[p] EXCEPT !.at = s]]
    BY <1>3 DEF Shares!Go, LeafType
  <2>1. hand' = [hand EXCEPT ![p] = h]
    BY <2>a, <2>b
  <2>2. Hand(h) /\ h.at = s
    BY DEF Hand, LeafType
  <2>3. ~broken' => \A q \in Installer \ {p} : hand[q].at = "rest"
    BY <1>3 DEF LeafInv
  <2> HIDE DEF h
  <2> QED BY <1>3, <2>1, <2>2, <2>3, LeafMoves
<1>4. ASSUME NEW p \in Installer, Shares!WritesAgents(p) \/ Links(p) PROVE LeafType' /\ LeafInv'
  <2>1. CASE Shares!WritesAgents(p)
    BY <1>3, <2>1 DEF Shares!WritesAgents, Shares!At, Shares!unchangedSettings
  <2>2. CASE Links(p)
    BY <1>3, <2>2, LinkSteps
  <2> QED BY <1>4, <2>1, <2>2
<1>5. ASSUME NEW p \in Installer, Shares!Breaks(p) PROVE LeafType' /\ LeafInv'
  <2>1. Hand(Shares!Rest) /\ Shares!Rest.at = "rest"
    BY <1>1 DEF Hand, Shares!Rest
  <2>2. hand' = [hand EXCEPT ![p] = Shares!Rest] /\ broken' /\ UNCHANGED <<settings, claims, json, by>>
    BY <1>5 DEF Shares!Breaks, Shares!unchangedSettings
  <2> QED BY <2>1, <2>2, LeafMoves
<1>6. CASE UNCHANGED <<settings, claims, json, by, hand, broken>>
  BY <1>6 DEF LeafType, LeafInv, Told
<1>7. CASE Shares!EditsAgents \/ Shares!EditsClaude
  BY <1>6, <1>7 DEF Shares!EditsAgents, Shares!EditsClaude, Shares!unchangedSettings
<1>8. CASE UNCHANGED shared
  BY <1>6, <1>8 DEF shared
<1>9. ASSUME NEW p \in Installer, Shares!Install(p) \/ Shares!Uninstall(p) PROVE LeafType' /\ LeafInv'
  BY <1>2, <1>9 DEF Shares!Install, Shares!Uninstall
<1> QED BY <1>4, <1>5, <1>7, <1>8, <1>9, LeafReads, LeafWrites, LeafSaves, LeafEdits
       DEF Shares!Next, Links

-----------------------------------------------------------------------------
(***************************************************************************)
(* SharedFiles: what is the lead's.                                        *)
(***************************************************************************)
Word == Line \cup Release \cup {"begin", "end"}

\* The lines of a file without the block, and of one with the block at b.
Plain(s) == s \in Seq(Word) /\ \A i \in DOMAIN s : s[i] \in Line

Blocked(s, b) ==
  /\ s \in Seq(Word) /\ b \in Nat \ {0} /\ b + 2 <= Len(s)
  /\ s[b] = "begin" /\ s[b + 1] \in Release /\ s[b + 2] = "end"
  /\ \A i \in 1..Len(s) : i < b \/ i > b + 2 => s[i] \in Line

\* A file the lead has not damaged: at most one block, and that whole.
Whole(s) == Plain(s) \/ \E b \in Nat : Blocked(s, b)

LEMMA WordsDiffer ==
  /\ "begin" \notin Line /\ "end" \notin Line /\ "begin" \notin Release /\ "end" \notin Release
  /\ \A r \in Release : r \notin Line
BY SharedFilesAssumption

LEMMA PlainHasNone == ASSUME NEW s, Plain(s) PROVE ~Shares!HasBlock(s)
<1>1. ~\E i \in DOMAIN s : s[i] = "begin"
  BY WordsDiffer DEF Plain
<1>2. Shares!First(s, "begin") = 0
  BY <1>1 DEF Shares!First
<1> QED BY <1>2 DEF Shares!HasBlock

LEMMA FirstIs ==
  ASSUME NEW s, NEW x, NEW i \in DOMAIN s, DOMAIN s \subseteq Nat, s[i] = x,
         \A j \in DOMAIN s : s[j] = x => i <= j
  PROVE  Shares!First(s, x) = i
<1> DEFINE C(j) == s[j] = x /\ \A k \in DOMAIN s : s[k] = x => j <= k
<1>1. C(i)
  OBVIOUS
<1>2. \A j \in DOMAIN s : C(j) => j = i
  OBVIOUS
<1>3. (CHOOSE j \in DOMAIN s : C(j)) = i
  BY <1>1, <1>2
<1> QED BY <1>3 DEF Shares!First

LEMMA BlockFound ==
  ASSUME NEW s, NEW b, Blocked(s, b)
  PROVE  /\ Shares!First(s, "begin") = b /\ Shares!First(s, "end") = b + 2
         /\ Shares!HasBlock(s)
         /\ Shares!Before(s) = SubSeq(s, 1, b - 1) /\ Shares!After(s) = SubSeq(s, b + 3, Len(s))
<1>1. s \in Seq(Word) /\ b \in Nat \ {0} /\ b + 2 <= Len(s) /\ DOMAIN s = 1..Len(s)
  BY DEF Blocked
<1>2. \A j \in DOMAIN s : s[j] = "begin" => b <= j
  BY <1>1, WordsDiffer DEF Blocked
<1>3. \A j \in DOMAIN s : s[j] = "end" => b + 2 <= j
  <2> SUFFICES ASSUME NEW j \in DOMAIN s, s[j] = "end" PROVE b + 2 <= j
    OBVIOUS
  <2>1. ~(j < b \/ j > b + 2)
    BY <1>1, WordsDiffer DEF Blocked
  <2>2. j # b /\ j # b + 1
    BY WordsDiffer DEF Blocked
  <2> QED BY <1>1, <2>1, <2>2
<1>4. Shares!First(s, "begin") = b
  <2>1. b \in DOMAIN s /\ s[b] = "begin" /\ DOMAIN s \subseteq Nat
    BY <1>1 DEF Blocked
  <2> QED BY <1>2, <2>1, FirstIs
<1>5. Shares!First(s, "end") = b + 2
  <2>1. b + 2 \in DOMAIN s /\ s[b + 2] = "end" /\ DOMAIN s \subseteq Nat
    BY <1>1 DEF Blocked
  <2> QED BY <1>3, <2>1, FirstIs
<1>6. Shares!HasBlock(s)
  BY <1>1, <1>4, <1>5 DEF Shares!HasBlock
<1>7. b + 2 + 1 = b + 3
  BY <1>1
<1> QED BY <1>4, <1>5, <1>6, <1>7 DEF Shares!Before, Shares!After

Joins(w, u, v) ==
  /\ w \in Seq(Word) /\ Len(w) = Len(u) + Len(v)
  /\ \A i \in 1..Len(u) : w[i] = u[i]
  /\ \A i \in (Len(u) + 1)..(Len(u) + Len(v)) : w[i] = v[i - Len(u)]

LEMMA Joined == \A u, v \in Seq(Word) : Joins(u \o v, u, v)
BY DEF Joins

\* Both the same lines, place for place.
LEMMA SameInPlace ==
  ASSUME NEW s, NEW t, Shares!Lines(s) = Shares!Lines(t), \A i \in Shares!Lines(s) : t[i] = s[i]
  PROVE  Shares!SameLines(s, t)
<1> DEFINE f == [i \in Shares!Lines(s) |-> i]
<1>1. f \in [Shares!Lines(s) -> Shares!Lines(t)]
  OBVIOUS
<1>2. \A i \in Shares!Lines(s) : t[f[i]] = s[i]
  OBVIOUS
<1>3. \A i, j \in Shares!Lines(s) : i < j => f[i] < f[j]
  OBVIOUS
<1>4. \A k \in Shares!Lines(t) : \E i \in Shares!Lines(s) : f[i] = k
  OBVIOUS
<1> HIDE DEF f
<1> QED BY <1>1, <1>2, <1>3, <1>4 DEF Shares!SameLines

LEMMA WithBlockKeeps ==
  ASSUME NEW s, Whole(s), NEW r \in Release
  PROVE  Whole(Shares!WithBlock(s, r)) /\ Shares!SameLines(s, Shares!WithBlock(s, r))
<1> DEFINE t == Shares!WithBlock(s, r)
<1>0. /\ Shares!Block(r) = <<"begin", r, "end">> /\ Shares!Block(r) \in Seq(Word) /\ Len(Shares!Block(r)) = 3
      /\ Shares!Block(r)[1] = "begin" /\ Shares!Block(r)[2] = r /\ Shares!Block(r)[3] = "end"
  BY DEF Shares!Block, Word
<1>1. CASE Plain(s)
  <2>1. t = s \o Shares!Block(r)
    BY <1>1, PlainHasNone DEF Shares!WithBlock
  <2>2. s \in Seq(Word) /\ t \in Seq(Word) /\ Len(t) = Len(s) + 3 /\ Len(s) \in Nat
    BY <1>0, <1>1, <2>1 DEF Plain
  <2>3. \A i \in 1..Len(s) : t[i] = s[i] /\ s[i] \in Line
    BY <1>0, <1>1, <2>1, <2>2 DEF Plain
  <2>4. t[Len(s) + 1] = "begin" /\ t[Len(s) + 2] = r /\ t[Len(s) + 3] = "end"
    BY <1>0, <2>1, <2>2
  <2> HIDE DEF t
  <2>5. Blocked(t, Len(s) + 1)
    <3>1. \A i \in 1..Len(t) : i < Len(s) + 1 \/ i > Len(s) + 1 + 2 => t[i] \in Line
      BY <2>2, <2>3
    <3>2. Len(s) + 1 + 1 = Len(s) + 2 /\ Len(s) + 1 + 2 = Len(s) + 3
      BY <2>2
    <3> QED BY <2>2, <2>4, <3>1, <3>2 DEF Blocked
  <2>6. Shares!Lines(s) = 1..Len(s)
    BY <2>2, <2>3 DEF Shares!Lines
  <2>7. Shares!Lines(t) = 1..Len(s)
    <3>1. \A i \in 1..Len(t) : t[i] \in Line <=> i \in 1..Len(s)
      <4> SUFFICES ASSUME NEW i \in 1..Len(t) PROVE t[i] \in Line <=> i \in 1..Len(s)
        OBVIOUS
      <4>1. i \in 1..Len(s) \/ i = Len(s) + 1 \/ i = Len(s) + 2 \/ i = Len(s) + 3
        BY <2>2
      <4>2. i \in 1..Len(s) => t[i] \in Line
        BY <2>3
      <4>3. i = Len(s) + 1 \/ i = Len(s) + 2 \/ i = Len(s) + 3 => t[i] \notin Line /\ i \notin 1..Len(s)
        BY <2>2, <2>4, WordsDiffer
      <4> QED BY <4>1, <4>2, <4>3
    <3>2. DOMAIN t = 1..Len(t)
      BY <2>2
    <3> QED BY <2>2, <3>1, <3>2 DEF Shares!Lines
  <2>8. Shares!SameLines(s, t)
    BY <2>3, <2>6, <2>7, SameInPlace
  <2> QED BY <2>2, <2>5, <2>8 DEF Whole, t
<1>2. ASSUME NEW b \in Nat, Blocked(s, b)
      PROVE  Whole(t) /\ Shares!SameLines(s, t)
  <2>1. t = (SubSeq(s, 1, b - 1) \o Shares!Block(r)) \o SubSeq(s, b + 3, Len(s))
    BY <1>2, BlockFound DEF Shares!WithBlock
  <2>2. s \in Seq(Word) /\ Len(s) \in Nat /\ b > 0 /\ b + 2 <= Len(s)
    BY <1>2 DEF Blocked
  <2>3. /\ SubSeq(s, 1, b - 1) \in Seq(Word) /\ Len(SubSeq(s, 1, b - 1)) = b - 1
        /\ \A i \in 1..(b - 1) : SubSeq(s, 1, b - 1)[i] = s[i]
    BY <2>2
  <2>4. /\ SubSeq(s, b + 3, Len(s)) \in Seq(Word) /\ Len(SubSeq(s, b + 3, Len(s))) = Len(s) - b - 2
        /\ \A i \in 1..(Len(s) - b - 2) : SubSeq(s, b + 3, Len(s))[i] = s[b + 2 + i]
    BY <2>2
  <2> DEFINE u == SubSeq(s, 1, b - 1) \o Shares!Block(r)
  <2>5. /\ u \in Seq(Word) /\ Len(u) = b + 2
        /\ \A i \in 1..(b - 1) : u[i] = s[i]
        /\ u[b] = "begin" /\ u[b + 1] = r /\ u[b + 2] = "end"
    BY <1>0, <2>2, <2>3
  <2> HIDE DEF u
  <2>6. /\ t \in Seq(Word) /\ Len(t) = Len(s)
        /\ \A i \in 1..(b + 2) : t[i] = u[i]
        /\ \A i \in (b + 3)..Len(s) : t[i] = s[i]
    <3>1. t = u \o SubSeq(s, b + 3, Len(s))
      BY <2>1 DEF u
    <3> DEFINE v == SubSeq(s, b + 3, Len(s))
    <3>a. v \in Seq(Word) /\ Len(v) = Len(s) - b - 2 /\ t = u \o v
      BY <2>4, <3>1
    <3> HIDE DEF t, v
    <3>b. /\ t \in Seq(Word) /\ Len(t) = Len(u) + Len(v)
          /\ \A i \in 1..Len(u) : t[i] = u[i]
          /\ \A i \in (Len(u) + 1)..(Len(u) + Len(v)) : t[i] = v[i - Len(u)]
      <4>1. u \in Seq(Word)
        BY <2>5
      <4>2. v \in Seq(Word)
        BY <3>a
      <4>3. t = u \o v
        BY <3>a
      <4> QED BY Zenon, <4>1, <4>2, <4>3, Joined DEF Joins
    <3>2. t \in Seq(Word) /\ Len(t) = Len(s) /\ \A i \in 1..(b + 2) : t[i] = u[i]
      BY <2>2, <2>5, <3>a, <3>b
    <3>3. ASSUME NEW i \in (b + 3)..Len(s) PROVE t[i] = s[i]
      <4>0. t[i] = v[i - (b + 2)]
        BY <2>2, <2>5, <3>a, <3>b
      <4>1. t[i] = SubSeq(s, b + 3, Len(s))[i - (b + 2)]
        BY <4>0 DEF v
      <4>2. i - (b + 2) \in 1..(Len(s) - b - 2)
        BY <2>2
      <4>3. SubSeq(s, b + 3, Len(s))[i - (b + 2)] = s[b + 2 + (i - (b + 2))]
        BY <2>4, <4>2
      <4> QED BY <2>2, <4>1, <4>3
    <3> QED BY <3>2, <3>3
  <2> HIDE DEF t
  <2>7. \A i \in 1..Len(s) : i < b \/ i > b + 2 => t[i] = s[i] /\ s[i] \in Line
    BY <1>2, <2>2, <2>5, <2>6 DEF Blocked
  <2>8. t[b] = "begin" /\ t[b + 1] = r /\ t[b + 2] = "end"
    BY <2>2, <2>5, <2>6
  <2>9. Blocked(t, b)
    BY <2>2, <2>6, <2>7, <2>8 DEF Blocked
  <2>10. \A i \in 1..Len(s) : ~(i < b \/ i > b + 2) => s[i] \notin Line /\ t[i] \notin Line
    <3> SUFFICES ASSUME NEW i \in 1..Len(s), ~(i < b \/ i > b + 2) PROVE s[i] \notin Line /\ t[i] \notin Line
      OBVIOUS
    <3>1. i = b \/ i = b + 1 \/ i = b + 2
      BY <2>2
    <3> QED BY <1>2, <2>8, <3>1, WordsDiffer DEF Blocked
  <2>11. Shares!Lines(s) = Shares!Lines(t) /\ \A i \in Shares!Lines(s) : t[i] = s[i]
    BY <2>2, <2>6, <2>7, <2>10 DEF Shares!Lines
  <2>12. Shares!SameLines(s, t)
    BY <2>11, SameInPlace
  <2> QED BY <2>9, <2>12 DEF Whole
<1> QED BY <1>1, <1>2 DEF Whole

LEMMA WithoutBlockKeeps ==
  ASSUME NEW s, Whole(s)
  PROVE  Whole(Shares!WithoutBlock(s)) /\ Shares!SameLines(s, Shares!WithoutBlock(s))
<1> DEFINE t == Shares!WithoutBlock(s)
<1>1. CASE Plain(s)
  <2>1. t = s
    BY <1>1, PlainHasNone DEF Shares!WithoutBlock
  <2> QED BY <1>1, <2>1, SameInPlace DEF Whole
<1>2. ASSUME NEW b \in Nat, Blocked(s, b)
      PROVE  Whole(t) /\ Shares!SameLines(s, t)
  <2>1. t = SubSeq(s, 1, b - 1) \o SubSeq(s, b + 3, Len(s))
    BY <1>2, BlockFound DEF Shares!WithoutBlock
  <2>2. s \in Seq(Word) /\ Len(s) \in Nat /\ b > 0 /\ b + 2 <= Len(s)
    BY <1>2 DEF Blocked
  <2>3. /\ SubSeq(s, 1, b - 1) \in Seq(Word) /\ Len(SubSeq(s, 1, b - 1)) = b - 1
        /\ \A i \in 1..(b - 1) : SubSeq(s, 1, b - 1)[i] = s[i]
    BY <2>2
  <2>4. /\ SubSeq(s, b + 3, Len(s)) \in Seq(Word) /\ Len(SubSeq(s, b + 3, Len(s))) = Len(s) - b - 2
        /\ \A i \in 1..(Len(s) - b - 2) : SubSeq(s, b + 3, Len(s))[i] = s[b + 2 + i]
    BY <2>2
  <2>5. /\ t \in Seq(Word) /\ Len(t) = Len(s) - 3
        /\ \A i \in 1..(b - 1) : t[i] = s[i]
        /\ \A i \in b..(Len(s) - 3) : t[i] = s[i + 3]
    <3> DEFINE u == SubSeq(s, 1, b - 1)
               v == SubSeq(s, b + 3, Len(s))
    <3>a. /\ u \in Seq(Word) /\ Len(u) = b - 1
          /\ v \in Seq(Word) /\ Len(v) = Len(s) - b - 2 /\ t = u \o v
          /\ \A i \in 1..(b - 1) : u[i] = s[i]
      BY <2>1, <2>3, <2>4
    <3> HIDE DEF t, u, v
    <3>b. /\ t \in Seq(Word) /\ Len(t) = Len(u) + Len(v)
          /\ \A i \in 1..Len(u) : t[i] = u[i]
          /\ \A i \in (Len(u) + 1)..(Len(u) + Len(v)) : t[i] = v[i - Len(u)]
      <4>1. u \in Seq(Word)
        BY <3>a
      <4>2. v \in Seq(Word)
        BY <3>a
      <4>3. t = u \o v
        BY <3>a
      <4> QED BY Zenon, <4>1, <4>2, <4>3, Joined DEF Joins
    <3>2. t \in Seq(Word) /\ Len(t) = Len(s) - 3 /\ \A i \in 1..(b - 1) : t[i] = s[i]
      BY <2>2, <3>a, <3>b
    <3>3. ASSUME NEW i \in b..(Len(s) - 3) PROVE t[i] = s[i + 3]
      <4>0. t[i] = v[i - (b - 1)]
        BY <2>2, <3>a, <3>b
      <4>1. t[i] = SubSeq(s, b + 3, Len(s))[i - (b - 1)]
        BY <4>0 DEF v
      <4>2. i - (b - 1) \in 1..(Len(s) - b - 2)
        BY <2>2
      <4>3. SubSeq(s, b + 3, Len(s))[i - (b - 1)] = s[b + 2 + (i - (b - 1))]
        BY <2>4, <4>2
      <4> QED BY <2>2, <4>1, <4>3
    <3> QED BY <3>2, <3>3
  <2> HIDE DEF t
  <2>6. \A i \in 1..Len(s) : i < b \/ i > b + 2 => s[i] \in Line
    BY <1>2 DEF Blocked
  <2>7. \A i \in 1..Len(s) : ~(i < b \/ i > b + 2) => s[i] \notin Line
    <3> SUFFICES ASSUME NEW i \in 1..Len(s), ~(i < b \/ i > b + 2) PROVE s[i] \notin Line
      OBVIOUS
    <3>1. i = b \/ i = b + 1 \/ i = b + 2
      BY <2>2
    <3> QED BY <1>2, <3>1, WordsDiffer DEF Blocked
  <2>8. \A i \in 1..Len(t) : t[i] \in Line
    <3> SUFFICES ASSUME NEW i \in 1..Len(t) PROVE t[i] \in Line
      OBVIOUS
    <3>1. CASE i < b
      <4>1. i \in 1..(b - 1) /\ i \in 1..Len(s)
        BY <2>2, <2>5, <3>1
      <4> QED BY <2>5, <2>6, <3>1, <4>1
    <3>2. CASE i >= b
      <4>1. i \in b..(Len(s) - 3) /\ i + 3 \in 1..Len(s) /\ i + 3 > b + 2
        BY <2>2, <2>5, <3>2
      <4> QED BY <2>5, <2>6, <4>1
    <3>3. i \in Nat /\ b \in Nat
      BY <2>2, <2>5
    <3> QED BY <3>1, <3>2, <3>3
  <2>9. Plain(t)
    BY <2>5, <2>8 DEF Plain
  <2>10. Shares!Lines(t) = 1..Len(t) /\ Shares!Lines(s) = {i \in 1..Len(s) : i < b \/ i > b + 2}
    BY <2>2, <2>5, <2>6, <2>7, <2>8 DEF Shares!Lines
  <2> DEFINE f == [i \in Shares!Lines(s) |-> IF i < b THEN i ELSE i - 3]
  <2>11. f \in [Shares!Lines(s) -> Shares!Lines(t)]
    BY <2>2, <2>5, <2>10
  <2>12. \A i \in Shares!Lines(s) : t[f[i]] = s[i]
    <3> SUFFICES ASSUME NEW i \in Shares!Lines(s) PROVE t[f[i]] = s[i]
      OBVIOUS
    <3>1. CASE i < b
      BY <2>2, <2>5, <2>10, <3>1
    <3>2. CASE i > b + 2
      <4>1. f[i] = i - 3 /\ i - 3 \in b..(Len(s) - 3) /\ (i - 3) + 3 = i
        BY <2>2, <2>10, <3>2
      <4> QED BY <2>5, <4>1
    <3> QED BY <2>10, <3>1, <3>2
  <2>13. \A i, j \in Shares!Lines(s) : i < j => f[i] < f[j]
    BY <2>2, <2>10
  <2>14. \A k \in Shares!Lines(t) : \E i \in Shares!Lines(s) : f[i] = k
    <3> SUFFICES ASSUME NEW k \in Shares!Lines(t) PROVE \E i \in Shares!Lines(s) : f[i] = k
      OBVIOUS
    <3>1. CASE k < b
      <4>1. k \in Shares!Lines(s) /\ f[k] = k
        BY <2>2, <2>5, <2>10, <3>1
      <4> QED BY <4>1
    <3>2. CASE k >= b
      <4>1. k + 3 \in Shares!Lines(s) /\ f[k + 3] = k
        BY <2>2, <2>5, <2>10, <3>2
      <4> QED BY <4>1
    <3>3. k \in Nat /\ b \in Nat
      BY <2>2, <2>5, <2>10
    <3> QED BY <3>1, <3>2, <3>3
  <2> HIDE DEF f
  <2>15. Shares!SameLines(s, t)
    BY <2>11, <2>12, <2>13, <2>14 DEF Shares!SameLines
  <2> QED BY <2>9, <2>15 DEF Whole
<1> QED BY <1>1, <1>2 DEF Whole

\* The lead's edits of an undamaged file leave it undamaged.
LEMMA PrefixedWhole ==
  ASSUME NEW s, Whole(s), NEW x \in Line
  PROVE  Whole(<<x>> \o s)
<1> DEFINE t == <<x>> \o s
<1>1. s \in Seq(Word) /\ Len(s) \in Nat /\ <<x>> \in Seq(Word) /\ Len(<<x>>) = 1 /\ <<x>>[1] = x
  BY DEF Whole, Plain, Blocked, Word
<1>2. t \in Seq(Word) /\ Len(t) = Len(s) + 1 /\ t[1] = x /\ \A i \in 2..(Len(s) + 1) : t[i] = s[i - 1]
  <2>1. Joins(t, <<x>>, s)
    BY Zenon, <1>1, Joined
  <2> HIDE DEF t
  <2> QED BY <1>1, <2>1 DEF Joins
<1> HIDE DEF t
<1>3. CASE Plain(s)
  <2>1. \A i \in 1..Len(t) : t[i] \in Line
    <3> SUFFICES ASSUME NEW i \in 1..Len(t) PROVE t[i] \in Line
      OBVIOUS
    <3>1. i = 1 \/ (i \in 2..(Len(s) + 1) /\ i - 1 \in 1..Len(s))
      BY <1>1, <1>2
    <3> QED BY <1>1, <1>2, <1>3, <3>1 DEF Plain
  <2> QED BY <1>2, <2>1 DEF Whole, Plain, t
<1>4. ASSUME NEW b \in Nat, Blocked(s, b) PROVE Whole(t)
  <2>1. b > 0 /\ b + 2 <= Len(s) /\ s[b] = "begin" /\ s[b + 1] \in Release /\ s[b + 2] = "end"
    BY <1>4 DEF Blocked
  <2>2. t[b + 1] = "begin" /\ t[(b + 1) + 1] \in Release /\ t[(b + 1) + 2] = "end"
    <3>1. t[b + 1] = s[(b + 1) - 1] /\ t[b + 2] = s[(b + 2) - 1] /\ t[b + 3] = s[(b + 3) - 1]
      BY <1>1, <1>2, <2>1
    <3>2. (b + 1) - 1 = b /\ (b + 2) - 1 = b + 1 /\ (b + 3) - 1 = b + 2 /\ (b + 1) + 1 = b + 2 /\ (b + 1) + 2 = b + 3
      OBVIOUS
    <3> QED BY <2>1, <3>1, <3>2
  <2>3. \A i \in 1..Len(t) : i < b + 1 \/ i > (b + 1) + 2 => t[i] \in Line
    <3> SUFFICES ASSUME NEW i \in 1..Len(t), i < b + 1 \/ i > (b + 1) + 2 PROVE t[i] \in Line
      OBVIOUS
    <3>1. CASE i = 1
      BY <1>2, <3>1
    <3>2. CASE i # 1
      <4>1. i \in 2..(Len(s) + 1) /\ i - 1 \in 1..Len(s) /\ (i - 1 < b \/ i - 1 > b + 2)
        BY <1>1, <1>2, <3>2
      <4>2. s[i - 1] \in Line
        BY <1>4, <4>1 DEF Blocked
      <4> QED BY <1>2, <4>1, <4>2
    <3> QED BY <3>1, <3>2
  <2>4. b + 1 \in Nat \ {0} /\ (b + 1) + 2 <= Len(t)
    BY <1>1, <1>2, <2>1
  <2>5. Blocked(t, b + 1)
    BY <1>2, <2>2, <2>3, <2>4 DEF Blocked
  <2> QED BY <2>4, <2>5 DEF Whole
<1> QED BY <1>3, <1>4 DEF Whole, t

LEMMA AppendedWhole ==
  ASSUME NEW s, Whole(s), NEW x \in Line
  PROVE  Whole(Append(s, x))
<1> DEFINE t == Append(s, x)
<1>1. s \in Seq(Word) /\ Len(s) \in Nat /\ x \in Word
  BY DEF Whole, Plain, Blocked, Word
<1>2. t \in Seq(Word) /\ Len(t) = Len(s) + 1 /\ t[Len(s) + 1] = x /\ \A i \in 1..Len(s) : t[i] = s[i]
  BY <1>1
<1> HIDE DEF t
<1>3. CASE Plain(s)
  <2>1. \A i \in 1..Len(t) : t[i] \in Line
    <3> SUFFICES ASSUME NEW i \in 1..Len(t) PROVE t[i] \in Line
      OBVIOUS
    <3>1. i = Len(s) + 1 \/ i \in 1..Len(s)
      BY <1>1, <1>2
    <3> QED BY <1>1, <1>2, <1>3, <3>1 DEF Plain
  <2> QED BY <1>2, <2>1 DEF Whole, Plain, t
<1>4. ASSUME NEW b \in Nat, Blocked(s, b) PROVE Whole(t)
  <2>1. b > 0 /\ b + 2 <= Len(s) /\ s[b] = "begin" /\ s[b + 1] \in Release /\ s[b + 2] = "end"
    BY <1>4 DEF Blocked
  <2>2. t[b] = "begin" /\ t[b + 1] \in Release /\ t[b + 2] = "end"
    BY <1>1, <1>2, <2>1
  <2>3. \A i \in 1..Len(t) : i < b \/ i > b + 2 => t[i] \in Line
    <3> SUFFICES ASSUME NEW i \in 1..Len(t), i < b \/ i > b + 2 PROVE t[i] \in Line
      OBVIOUS
    <3>1. i = Len(s) + 1 \/ i \in 1..Len(s)
      BY <1>1, <1>2
    <3> QED BY <1>2, <1>4, <3>1 DEF Blocked
  <2>4. b \in Nat \ {0} /\ b + 2 <= Len(t)
    BY <1>1, <1>2, <2>1
  <2>5. Blocked(t, b)
    BY <1>2, <2>2, <2>3, <2>4 DEF Blocked
  <2> QED BY <2>4, <2>5 DEF Whole
<1> QED BY <1>3, <1>4 DEF Whole, t

LEMMA DeletedWhole ==
  ASSUME NEW s, Whole(s), NEW d \in DOMAIN s, s[d] \in Line
  PROVE  Whole(SubSeq(s, 1, d - 1) \o SubSeq(s, d + 1, Len(s)))
<1> DEFINE u == SubSeq(s, 1, d - 1)
           v == SubSeq(s, d + 1, Len(s))
           t == u \o v
<1>1. s \in Seq(Word) /\ Len(s) \in Nat /\ d \in 1..Len(s)
  BY DEF Whole, Plain, Blocked
<1>2. /\ u \in Seq(Word) /\ Len(u) = d - 1 /\ \A i \in 1..(d - 1) : u[i] = s[i]
      /\ v \in Seq(Word) /\ Len(v) = Len(s) - d /\ \A i \in 1..(Len(s) - d) : v[i] = s[d + i]
  BY <1>1
<1> HIDE DEF u, v
<1>3. Joins(t, u, v)
  BY Zenon, <1>2, Joined
<1> HIDE DEF t
<1>4. /\ t \in Seq(Word) /\ Len(t) = Len(s) - 1
      /\ \A i \in 1..(d - 1) : t[i] = s[i]
      /\ \A i \in d..(Len(s) - 1) : t[i] = s[i + 1]
  <2>a. t \in Seq(Word) /\ Len(t) = Len(s) - 1
    BY <1>1, <1>2, <1>3 DEF Joins
  <2>b. \A i \in 1..(d - 1) : t[i] = u[i]
    BY <1>1, <1>2, <1>3 DEF Joins
  <2>1. t \in Seq(Word) /\ Len(t) = Len(s) - 1 /\ \A i \in 1..(d - 1) : t[i] = s[i]
    BY <1>2, <2>a, <2>b
  <2>2. ASSUME NEW i \in d..(Len(s) - 1) PROVE t[i] = s[i + 1]
    <3>1. t[i] = v[i - (d - 1)]
      <4>1. i \in (Len(u) + 1)..(Len(u) + Len(v)) /\ Len(u) = d - 1
        BY <1>1, <1>2
      <4> QED BY <1>3, <4>1 DEF Joins
    <3>2. i - (d - 1) \in 1..(Len(s) - d) /\ d + (i - (d - 1)) = i + 1
      BY <1>1
    <3> QED BY <1>2, <3>1, <3>2
  <2> QED BY <2>1, <2>2
\* Where each place of what is left was.
<1> DEFINE From(i) == IF i < d THEN i ELSE i + 1
<1>5. \A i \in 1..Len(t) : From(i) \in 1..Len(s) /\ t[i] = s[From(i)]
  <2> SUFFICES ASSUME NEW i \in 1..Len(t) PROVE From(i) \in 1..Len(s) /\ t[i] = s[From(i)]
    OBVIOUS
  <2>1. CASE i < d
    BY <1>1, <1>4, <2>1
  <2>2. CASE i >= d
    BY <1>1, <1>4, <2>2
  <2> QED BY <1>1, <1>4, <2>1, <2>2
<1>6. ASSUME Plain(s) PROVE Whole(t)
  <2>1. \A i \in 1..Len(t) : t[i] \in Line
    BY <1>1, <1>5, <1>6 DEF Plain
  <2> QED BY <1>4, <2>1 DEF Whole, Plain
<1>7. ASSUME NEW b \in Nat, Blocked(s, b) PROVE Whole(t)
  <2>1. b > 0 /\ b + 2 <= Len(s) /\ s[b] = "begin" /\ s[b + 1] \in Release /\ s[b + 2] = "end"
    BY <1>7 DEF Blocked
  <2>2. d # b /\ d # b + 1 /\ d # b + 2
    BY <2>1, WordsDiffer
  <2>3. CASE d < b
    <3>1. b - 1 \in Nat \ {0} /\ (b - 1) + 2 <= Len(t) /\ (b - 1) + 1 = b /\ (b - 1) + 2 = b + 1
      BY <1>1, <1>4, <2>1, <2>3
    <3>2. t[b - 1] = s[b] /\ t[b] = s[b + 1] /\ t[b + 1] = s[b + 2]
      <4>1. b - 1 \in d..(Len(s) - 1) /\ b \in d..(Len(s) - 1) /\ b + 1 \in d..(Len(s) - 1)
        BY <1>1, <2>1, <2>3
      <4>2. (b - 1) + 1 = b /\ (b + 1) + 1 = b + 2
        OBVIOUS
      <4> QED BY <1>4, <4>1, <4>2
    <3>3. \A i \in 1..Len(t) : i < b - 1 \/ i > (b - 1) + 2 => t[i] \in Line
      <4> SUFFICES ASSUME NEW i \in 1..Len(t), i < b - 1 \/ i > (b - 1) + 2 PROVE t[i] \in Line
        OBVIOUS
      <4>1. From(i) \in 1..Len(s) /\ (From(i) < b \/ From(i) > b + 2)
        BY <1>1, <1>4, <1>5, <2>1, <2>3
      <4>2. s[From(i)] \in Line
        BY <1>7, <4>1 DEF Blocked
      <4> QED BY <1>5, <4>2
    <3>4. Blocked(t, b - 1)
      BY <1>4, <2>1, <3>1, <3>2, <3>3 DEF Blocked
    <3> QED BY <3>1, <3>4 DEF Whole
  <2>4. CASE d > b + 2
    <3>1. b \in Nat \ {0} /\ b + 2 <= Len(t)
      BY <1>1, <1>4, <2>1, <2>4
    <3>2. t[b] = s[b] /\ t[b + 1] = s[b + 1] /\ t[b + 2] = s[b + 2]
      BY <1>1, <1>4, <2>1, <2>4
    <3>3. \A i \in 1..Len(t) : i < b \/ i > b + 2 => t[i] \in Line
      <4> SUFFICES ASSUME NEW i \in 1..Len(t), i < b \/ i > b + 2 PROVE t[i] \in Line
        OBVIOUS
      <4>1. From(i) \in 1..Len(s) /\ (From(i) < b \/ From(i) > b + 2)
        BY <1>1, <1>4, <1>5, <2>1, <2>4
      <4>2. s[From(i)] \in Line
        BY <1>7, <4>1 DEF Blocked
      <4> QED BY <1>5, <4>2
    <3>4. Blocked(t, b)
      BY <1>4, <2>1, <3>1, <3>2, <3>3 DEF Blocked
    <3> QED BY <3>1, <3>4 DEF Whole
  <2> QED BY <1>1, <2>1, <2>2, <2>3, <2>4
<1> QED BY <1>6, <1>7 DEF Whole, t, u, v

LEMMA SameItself == \A s : Shares!SameLines(s, s)
<1> SUFFICES ASSUME NEW s PROVE Shares!SameLines(s, s)
  OBVIOUS
<1> DEFINE f == [i \in Shares!Lines(s) |-> i]
<1>1. /\ f \in [Shares!Lines(s) -> Shares!Lines(s)]
      /\ \A i \in Shares!Lines(s) : f[i] = i
  OBVIOUS
<1> QED BY <1>1 DEF Shares!SameLines

LEMMA GoFields ==
  ASSUME NEW h, Hand(h), NEW s
  PROVE  LET g == [h EXCEPT !.at = s]
         IN  g.at = s /\ g.of = h.of /\ g.lines = h.lines /\ g.was = h.was /\ g.next = h.next
<1>1. h = Record(h.at, h.of, h.lines, h.seen, h.was, h.next)
  BY DEF Hand, Record
<1>2. [Record(h.at, h.of, h.lines, h.seen, h.was, h.next) EXCEPT !.at = s]
      = Record(s, h.of, h.lines, h.seen, h.was, h.next)
  BY AtOnly
<1>3. [h EXCEPT !.at = s] = Record(s, h.of, h.lines, h.seen, h.was, h.next)
  BY <1>1, <1>2
<1> QED BY <1>3 DEF Record

LEMMA WriteFields ==
  ASSUME NEW h, Hand(h), NEW s, NEW n
  PROVE  LET g == [h EXCEPT !.at = s, !.next = n]
         IN  g.at = s /\ g.lines = h.lines /\ g.was = h.was /\ g.next = n
<1>1. h = Record(h.at, h.of, h.lines, h.seen, h.was, h.next)
  BY DEF Hand, Record
<1>2. [Record(h.at, h.of, h.lines, h.seen, h.was, h.next) EXCEPT !.at = s]
      = Record(s, h.of, h.lines, h.seen, h.was, h.next)
  BY AtOnly
<1>3. [Record(s, h.of, h.lines, h.seen, h.was, h.next) EXCEPT !.next = n]
      = Record(s, h.of, h.lines, h.seen, h.was, n)
  BY NextOnly
<1>4. [h EXCEPT !.at = s, !.next = n] = [[h EXCEPT !.at = s] EXCEPT !.next = n]
  OBVIOUS
<1>5. [h EXCEPT !.at = s, !.next = n] = Record(s, h.of, h.lines, h.seen, h.was, n)
  BY Zenon, <1>1, <1>2, <1>3, <1>4
<1> QED BY <1>5 DEF Record

LEMMA ReadFields ==
  ASSUME NEW h, Hand(h), NEW s, NEW e, NEW w
  PROVE  LET g == [h EXCEPT !.at = s, !.seen = e, !.was = w]
         IN  g.at = s /\ g.lines = h.lines /\ g.was = w /\ g.next = h.next
<1>1. h = Record(h.at, h.of, h.lines, h.seen, h.was, h.next)
  BY DEF Hand, Record
<1>2. [Record(h.at, h.of, h.lines, h.seen, h.was, h.next) EXCEPT !.at = s]
      = Record(s, h.of, h.lines, h.seen, h.was, h.next)
  BY AtOnly
<1>3. [Record(s, h.of, h.lines, h.seen, h.was, h.next) EXCEPT !.seen = e]
      = Record(s, h.of, h.lines, e, h.was, h.next)
  BY SeenOnly
<1>4. [Record(s, h.of, h.lines, e, h.was, h.next) EXCEPT !.was = w]
      = Record(s, h.of, h.lines, e, w, h.next)
  BY WasOnly
<1>5. [h EXCEPT !.at = s, !.seen = e, !.was = w] = [[[h EXCEPT !.at = s] EXCEPT !.seen = e] EXCEPT !.was = w]
  OBVIOUS
<1>6. [h EXCEPT !.at = s, !.seen = e, !.was = w] = Record(s, h.of, h.lines, e, w, h.next)
  BY Zenon, <1>1, <1>2, <1>3, <1>4, <1>5
<1> QED BY <1>6 DEF Record

LEMMA BeginFields ==
  ASSUME NEW o, NEW l
  PROVE  LET g == [Shares!Rest EXCEPT !.at = "block", !.of = o, !.lines = l]
         IN  g.at = "block" /\ g.lines = l /\ g.was = Shares!None /\ g.next = Shares!None
BY DEF Shares!Rest

\* What the lead has in AGENTS.md, now and as the runs read it, is undamaged.
TextInv == Whole(agents) /\ \A p \in Installer : Whole(hand[p].lines)

\* What is claimed, was or will be, has been written.
Written(l) == \A k \in Leaf : l[k] \in wrote[k] \cup {Absent}

WroteInv ==
  Written(claims) /\ \A p \in Installer : Written(hand[p].was) /\ Written(hand[p].next)

LEMMA LeadInit == Shares!Init => TextInv /\ WroteInv
<1> SUFFICES ASSUME Shares!Init PROVE TextInv /\ WroteInv
  OBVIOUS
<1>1. \A p \in Installer : hand[p].lines = << >> /\ hand[p].was = Shares!None /\ hand[p].next = Shares!None
  BY DEF Shares!Init, Shares!Rest
<1>2. Written(Shares!None) /\ claims = Shares!None
  BY DEF Written, Shares!None, Shares!Init
<1>3. Whole(<< >>)
  BY DEF Whole, Plain
<1>4. \A x \in Line : Whole(<<x>>)
  BY DEF Whole, Plain, Word
<1> QED BY <1>1, <1>2, <1>3, <1>4 DEF TextInv, WroteInv, Shares!Init

\* What each run carries after a step of one of them.
LEMMA Carried ==
  ASSUME LeafType, NEW p \in Installer, NEW g, hand' = [hand EXCEPT ![p] = g]
  PROVE  hand'[p] = g /\ \A q \in Installer \ {p} : hand'[q] = hand[q]
BY DEF LeafType

LEMMA RestFields ==
  /\ Shares!Rest.at = "rest" /\ Shares!Rest.lines = << >> /\ Shares!Rest.was = Shares!None /\ Shares!Rest.next = Shares!None
BY DEF Shares!Rest

LEMMA TextStep ==
  ASSUME ~Damage, LeafType, TextInv, [Shares!Next]_shared
  PROVE  TextInv'
<1>0. Whole(<< >>)
  BY DEF Whole, Plain
<1>1. ASSUME NEW p \in Installer, NEW g, hand' = [hand EXCEPT ![p] = g], Whole(g.lines), Whole(agents')
      PROVE  TextInv'
  <2>1. \A q \in Installer : Whole(hand'[q].lines)
    BY <1>1, Carried DEF TextInv
  <2> QED BY <1>1, <2>1 DEF TextInv
<1>2. ASSUME NEW p \in Installer, NEW of, Shares!Begins(p, of) PROVE TextInv'
  <2>1. hand' = [hand EXCEPT ![p] = [Shares!Rest EXCEPT !.at = "block", !.of = of, !.lines = agents]] /\ agents' = agents
    BY <1>2 DEF Shares!Begins
  <2>2. [Shares!Rest EXCEPT !.at = "block", !.of = of, !.lines = agents].lines = agents
    BY BeginFields
  <2> DEFINE g == [Shares!Rest EXCEPT !.at = "block", !.of = of, !.lines = agents]
  <2>3. g.lines = agents /\ hand' = [hand EXCEPT ![p] = g]
    BY <2>1, <2>2
  <2> HIDE DEF g
  <2> QED BY <1>1, <2>1, <2>3 DEF TextInv
<1>3. ASSUME NEW p \in Installer, NEW s, Shares!Go(p, s), Whole(agents') PROVE TextInv'
  <2> DEFINE g == [hand[p] EXCEPT !.at = s]
  <2>1. Hand(hand[p]) /\ hand' = [hand EXCEPT ![p] = g]
    BY <1>3 DEF LeafType, Shares!Go
  <2>2. g.lines = hand[p].lines
    BY <2>1, GoFields
  <2> HIDE DEF g
  <2> QED BY <1>1, <1>3, <2>1, <2>2 DEF TextInv
<1>4. ASSUME NEW p \in Installer, Shares!WritesAgents(p) PROVE TextInv'
  <2>1. Whole(hand[p].lines) /\ Hand(hand[p])
    BY DEF TextInv, LeafType
  <2>2. CASE hand[p].of = {}
    <3>1. agents' = Shares!WithoutBlock(hand[p].lines) \/ agents' = agents
      BY <1>4, <2>2 DEF Shares!WritesAgents, Shares!Installs
    <3>2. Whole(agents')
      BY <2>1, <3>1, WithoutBlockKeeps DEF TextInv
    <3> QED BY <1>3, <1>4, <3>2 DEF Shares!WritesAgents
  <2>3. CASE hand[p].of # {}
    <3>1. PICK r \in Release : hand[p].of = {r}
      BY <2>1, <2>3 DEF Hand
    <3>2. (CHOOSE x \in hand[p].of : TRUE) = r
      BY <3>1
    <3>3. agents' = Shares!WithBlock(hand[p].lines, r)
      BY <1>4, <2>3, <3>2 DEF Shares!WritesAgents, Shares!Installs
    <3> QED BY <1>3, <1>4, <2>1, <3>3, WithBlockKeeps DEF Shares!WritesAgents
  <2> QED BY <2>2, <2>3
<1>5. ASSUME NEW p \in Installer, Links(p) PROVE TextInv'
  BY <1>3, <1>5, LinkSteps DEF TextInv
<1>6. ASSUME NEW p \in Installer, hand' = [hand EXCEPT ![p] = Shares!Rest], agents' = agents PROVE TextInv'
  BY <1>0, <1>1, <1>6, RestFields DEF TextInv
<1>7. ASSUME NEW p \in Installer, Shares!SavesLedger(p) \/ Shares!Breaks(p) PROVE TextInv'
  BY <1>6, <1>7 DEF Shares!SavesLedger, Shares!Breaks
<1>8. ASSUME NEW p \in Installer, Shares!ReadsSettings(p) PROVE TextInv'
  <2>1. CASE hand' = [hand EXCEPT ![p] = Shares!Rest]
    BY <1>6, <1>8, <2>1 DEF Shares!ReadsSettings
  <2>2. CASE hand' = [hand EXCEPT ![p].at = "merge", ![p].seen = settings, ![p].was = claims]
    <3> DEFINE g == [hand[p] EXCEPT !.at = "merge", !.seen = settings, !.was = claims]
    <3>1. Hand(hand[p]) /\ hand' = [hand EXCEPT ![p] = g]
      BY <2>2 DEF LeafType
    <3>2. g.lines = hand[p].lines
      BY <3>1, ReadFields
    <3>3. agents' = agents
      BY <1>8 DEF Shares!ReadsSettings
    <3> HIDE DEF g
    <3> QED BY <1>1, <3>1, <3>2, <3>3 DEF TextInv
  <2> QED BY <1>8, <2>1, <2>2 DEF Shares!ReadsSettings
<1>9. ASSUME NEW p \in Installer, Shares!WritesSettings(p) PROVE TextInv'
  <2>1. PICK n : hand' = [hand EXCEPT ![p].at = "ledger", ![p].next = n]
    BY <1>9 DEF Shares!WritesSettings
  <2> DEFINE g == [hand[p] EXCEPT !.at = "ledger", !.next = n]
  <2>2. Hand(hand[p]) /\ hand' = [hand EXCEPT ![p] = g]
    BY <2>1 DEF LeafType
  <2>3. g.lines = hand[p].lines
    BY <2>2, WriteFields
  <2>4. agents' = agents
    BY <1>9 DEF Shares!WritesSettings
  <2> HIDE DEF g
  <2> QED BY <1>1, <2>2, <2>3, <2>4 DEF TextInv
<1>10. CASE Shares!EditsAgents
  <2>1. Whole(agents')
    <3>1. CASE \E x \in Line : agents' \in {<<x>> \o agents, Append(agents, x)}
      BY <3>1, PrefixedWhole, AppendedWhole DEF TextInv
    <3>2. CASE \E i \in DOMAIN agents :
                 /\ agents[i] \in Line \cup (IF Damage THEN {"begin", "end"} ELSE {})
                 /\ agents' = SubSeq(agents, 1, i - 1) \o SubSeq(agents, i + 1, Len(agents))
      BY <3>2, DeletedWhole DEF TextInv
    <3>3. CASE agents' = Shares!WithoutBlock(agents)
      BY <3>3, WithoutBlockKeeps DEF TextInv
    <3> QED BY <1>10, <3>1, <3>2, <3>3 DEF Shares!EditsAgents
  <2> QED BY <1>10, <2>1 DEF TextInv, Shares!EditsAgents
<1>11. CASE UNCHANGED <<agents, hand>>
  BY <1>11 DEF TextInv
<1>12. CASE Shares!EditsSettings \/ Shares!EditsClaude
  BY <1>11, <1>12 DEF Shares!EditsSettings, Shares!EditsClaude
<1>13. CASE UNCHANGED shared
  BY <1>11, <1>13 DEF shared
<1>14. ASSUME NEW p \in Installer, Shares!Install(p) \/ Shares!Uninstall(p) PROVE TextInv'
  BY <1>2, <1>14 DEF Shares!Install, Shares!Uninstall
<1> QED BY <1>4, <1>5, <1>7, <1>8, <1>9, <1>10, <1>12, <1>13, <1>14 DEF Shares!Next, Links

\* What a run that writes the settings changes and records.
LEMMA WritesOwn ==
  ASSUME LeafType, WroteInv, NEW p \in Installer, Shares!WritesSettings(p), NEW k \in Leaf
  PROVE  /\ wrote[k] \subseteq wrote'[k]
         /\ hand'[p].next[k] \in wrote'[k] \cup {Absent}
         /\ settings[k] = hand[p].seen[k] /\ settings'[k] # settings[k] =>
              settings[k] \in wrote[k] \cup {Absent}
<1> DEFINE to == Shares!Merged(p)
           new == Shares!Managed(p)
           seen == hand[p].seen
           was == hand[p].was
           nxt == [l \in Leaf |-> IF l \in Shares!Claims(p) THEN new[l] ELSE Absent]
           g == [hand[p] EXCEPT !.at = "ledger", !.next = nxt]
<1>1. hand' = [hand EXCEPT ![p].at = "ledger", ![p].next = nxt]
  BY DEF Shares!WritesSettings
<1>2. Hand(hand[p]) /\ hand' = [hand EXCEPT ![p] = g]
  BY <1>1 DEF LeafType
<1>3. hand'[p].next = nxt
  <2>1. g.next = nxt
    BY <1>2, WriteFields
  <2> HIDE DEF g, nxt
  <2> QED BY <1>2, <2>1, Carried
<1>4. k \in Shares!Claims(p) <=> k \in DOMAIN new /\ (seen[k] = Absent \/ (was[k] # Absent /\ seen[k] = was[k]))
  BY DEF Shares!Claims, Shares!Owned
<1>5. to[k] = IF k \in Shares!Claims(p) THEN new[k]
              ELSE IF k \notin DOMAIN new /\ was[k] # Absent /\ seen[k] = was[k] THEN Absent
              ELSE seen[k]
  BY DEF Shares!Merged, Shares!Owned
<1>6. nxt[k] = IF k \in Shares!Claims(p) THEN new[k] ELSE Absent
  OBVIOUS
<1>7. k \in DOMAIN new => new[k] # Absent
  BY ManagedTyped, SharedFilesAssumption
<1>8. was[k] \in wrote[k] \cup {Absent}
  BY DEF WroteInv, Written
<1>9. \/ to = seen /\ UNCHANGED <<settings, wrote>>
      \/ /\ settings' = to
         /\ wrote' = [l \in Leaf |-> IF to[l] = seen[l] \/ to[l] = Absent
                                     THEN wrote[l] ELSE wrote[l] \cup {to[l]}]
  BY DEF Shares!WritesSettings
<1> HIDE DEF to, new, nxt, g
<1>10. wrote[k] \subseteq wrote'[k] /\ (to[k] # seen[k] /\ to[k] # Absent => to[k] \in wrote'[k])
  BY <1>9
<1>11. nxt[k] \in wrote'[k] \cup {Absent}
  <2>1. CASE k \in Shares!Claims(p)
    <3>1. to[k] = nxt[k] /\ to[k] # Absent
      BY <1>4, <1>5, <1>6, <1>7, <2>1
    <3>2. CASE to[k] # seen[k]
      BY <1>10, <3>1, <3>2
    <3>3. CASE to[k] = seen[k]
      BY <1>4, <1>8, <1>10, <2>1, <3>1, <3>3
    <3> QED BY <3>2, <3>3
  <2>2. CASE k \notin Shares!Claims(p)
    BY <1>6, <2>2
  <2> QED BY <2>1, <2>2
<1>12. seen[k] # to[k] => seen[k] \in wrote[k] \cup {Absent}
  BY <1>4, <1>5, <1>8
<1> QED BY <1>3, <1>9, <1>10, <1>11, <1>12

LEMMA WroteStep ==
  ASSUME LeafType, WroteInv, [Shares!Next]_shared
  PROVE  WroteInv'
<1>0. Written(Shares!None)
  BY DEF Written, Shares!None
<1>1. ASSUME NEW p \in Installer, NEW g, hand' = [hand EXCEPT ![p] = g], wrote' = wrote,
             Written(g.was), Written(g.next), Written(claims')
      PROVE  WroteInv'
  <2>1. \A q \in Installer : Written(hand'[q].was) /\ Written(hand'[q].next)
    BY <1>1, Carried DEF WroteInv
  <2> QED BY <1>1, <2>1 DEF WroteInv, Written
<1>2. ASSUME NEW p \in Installer, NEW of, Shares!Begins(p, of) PROVE WroteInv'
  <2> DEFINE g == [Shares!Rest EXCEPT !.at = "block", !.of = of, !.lines = agents]
  <2>1. hand' = [hand EXCEPT ![p] = g] /\ UNCHANGED <<claims, wrote>>
    BY <1>2 DEF Shares!Begins, Shares!unchangedSettings
  <2>2. g.was = Shares!None /\ g.next = Shares!None
    BY BeginFields
  <2> HIDE DEF g
  <2> QED BY <1>0, <1>1, <2>1, <2>2 DEF WroteInv
<1>3. ASSUME NEW p \in Installer, NEW s, Shares!Go(p, s), UNCHANGED <<claims, wrote>> PROVE WroteInv'
  <2> DEFINE g == [hand[p] EXCEPT !.at = s]
  <2>1. Hand(hand[p]) /\ hand' = [hand EXCEPT ![p] = g]
    BY <1>3 DEF LeafType, Shares!Go
  <2>2. g.was = hand[p].was /\ g.next = hand[p].next
    BY <2>1, GoFields
  <2> HIDE DEF g
  <2> QED BY <1>1, <1>3, <2>1, <2>2 DEF WroteInv
<1>4. ASSUME NEW p \in Installer, Shares!WritesAgents(p) \/ Links(p) PROVE WroteInv'
  <2>1. CASE Shares!WritesAgents(p)
    BY <1>3, <2>1 DEF Shares!WritesAgents, Shares!unchangedSettings
  <2>2. CASE Links(p)
    BY <1>3, <2>2, LinkSteps
  <2> QED BY <1>4, <2>1, <2>2
<1>5. ASSUME NEW p \in Installer, hand' = [hand EXCEPT ![p] = Shares!Rest], wrote' = wrote, Written(claims')
      PROVE  WroteInv'
  BY <1>0, <1>1, <1>5, RestFields
<1>6. ASSUME NEW p \in Installer, Shares!Breaks(p) PROVE WroteInv'
  BY <1>5, <1>6 DEF Shares!Breaks, Shares!unchangedSettings, WroteInv
<1>7. ASSUME NEW p \in Installer, Shares!SavesLedger(p) PROVE WroteInv'
  BY <1>5, <1>7 DEF Shares!SavesLedger, WroteInv
<1>8. ASSUME NEW p \in Installer, Shares!ReadsSettings(p) PROVE WroteInv'
  <2>1. CASE hand' = [hand EXCEPT ![p] = Shares!Rest]
    <3>1. claims' = claims \/ claims' = Shares!None
      BY <1>8 DEF Shares!ReadsSettings
    <3>2. wrote' = wrote
      BY <1>8 DEF Shares!ReadsSettings
    <3>3. Written(claims')
      BY <1>0, <3>1 DEF WroteInv
    <3> QED BY <1>5, <2>1, <3>2, <3>3
  <2>2. CASE hand' = [hand EXCEPT ![p].at = "merge", ![p].seen = settings, ![p].was = claims] /\ claims' = claims
    <3> DEFINE g == [hand[p] EXCEPT !.at = "merge", !.seen = settings, !.was = claims]
    <3>1. Hand(hand[p]) /\ hand' = [hand EXCEPT ![p] = g]
      BY <2>2 DEF LeafType
    <3>2. g.was = claims /\ g.next = hand[p].next
      BY <3>1, ReadFields
    <3>3. wrote' = wrote
      BY <1>8 DEF Shares!ReadsSettings
    <3> HIDE DEF g
    <3> QED BY <1>1, <2>2, <3>1, <3>2, <3>3 DEF WroteInv
  <2> QED BY <1>8, <2>1, <2>2 DEF Shares!ReadsSettings
<1>9. ASSUME NEW p \in Installer, Shares!WritesSettings(p) PROVE WroteInv'
  <2>1. PICK n : hand' = [hand EXCEPT ![p].at = "ledger", ![p].next = n]
    BY <1>9 DEF Shares!WritesSettings
  <2> DEFINE g == [hand[p] EXCEPT !.at = "ledger", !.next = n]
  <2>2. Hand(hand[p]) /\ hand' = [hand EXCEPT ![p] = g]
    BY <2>1 DEF LeafType
  <2>3. g.was = hand[p].was
    BY <2>2, WriteFields
  <2> HIDE DEF g
  <2>4. /\ hand'[p].was = hand[p].was
        /\ \A q \in Installer \ {p} : hand'[q] = hand[q]
    BY <2>2, <2>3, Carried
  <2>5. \A k \in Leaf : wrote[k] \subseteq wrote'[k] /\ hand'[p].next[k] \in wrote'[k] \cup {Absent}
    BY <1>9, WritesOwn
  <2>6. claims' = claims
    BY <1>9 DEF Shares!WritesSettings
  <2>7. \A k \in Leaf : claims[k] \in wrote'[k] \cup {Absent}
    BY <2>5 DEF WroteInv, Written
  <2>8. \A q \in Installer, k \in Leaf : hand[q].was[k] \in wrote'[k] \cup {Absent} /\ hand[q].next[k] \in wrote'[k] \cup {Absent}
    BY <2>5 DEF WroteInv, Written
  <2>9. ASSUME NEW q \in Installer, NEW k \in Leaf
        PROVE  hand'[q].was[k] \in wrote'[k] \cup {Absent} /\ hand'[q].next[k] \in wrote'[k] \cup {Absent}
    <3>1. CASE q = p
      BY <2>4, <2>5, <2>8, <3>1
    <3>2. CASE q # p
      BY <2>4, <2>8, <3>2
    <3> QED BY <3>1, <3>2
  <2> QED BY <2>6, <2>7, <2>9 DEF WroteInv, Written
<1>10. CASE UNCHANGED <<claims, hand, wrote>>
  BY <1>10 DEF WroteInv, Written
<1>11. CASE Shares!EditsAgents \/ Shares!EditsClaude \/ Shares!EditsSettings
  BY <1>10, <1>11 DEF Shares!EditsAgents, Shares!EditsClaude, Shares!EditsSettings, Shares!unchangedSettings
<1>12. CASE UNCHANGED shared
  BY <1>10, <1>12 DEF shared
<1>13. ASSUME NEW p \in Installer, Shares!Install(p) \/ Shares!Uninstall(p) PROVE WroteInv'
  BY <1>2, <1>13 DEF Shares!Install, Shares!Uninstall
<1> QED BY <1>4, <1>6, <1>7, <1>8, <1>9, <1>11, <1>12, <1>13 DEF Shares!Next, Links

\* Who moves is the run whose step it is.
Steps(q) ==
  \/ Shares!Install(q) \/ Shares!Uninstall(q) \/ Shares!WritesAgents(q) \/ Links(q)
  \/ Shares!ReadsSettings(q) \/ Shares!WritesSettings(q) \/ Shares!SavesLedger(q) \/ Shares!Breaks(q)

LEMMA OthersRest ==
  ASSUME LeafType, NEW p \in Installer, NEW q \in Installer, p # q, Steps(q)
  PROVE  hand'[p] = hand[p]
<1>1. \A g : hand' = [hand EXCEPT ![q] = g] => hand'[p] = hand[p]
  BY Carried
<1>2. CASE Shares!Install(q) \/ Shares!Uninstall(q)
  BY <1>1, <1>2 DEF Shares!Install, Shares!Uninstall, Shares!Begins
<1>3. \A s : Shares!Go(q, s) => hand'[p] = hand[p]
  BY DEF Shares!Go, LeafType
<1>4. CASE Shares!WritesAgents(q) \/ Links(q)
  BY <1>3, <1>4, LinkSteps DEF Shares!WritesAgents
<1>5. CASE Shares!ReadsSettings(q)
  <2>1. CASE hand' = [hand EXCEPT ![q] = Shares!Rest]
    BY <1>1, <2>1
  <2>2. CASE hand' = [hand EXCEPT ![q].at = "merge", ![q].seen = settings, ![q].was = claims]
    BY <2>2 DEF LeafType
  <2> QED BY <1>5, <2>1, <2>2 DEF Shares!ReadsSettings
<1>6. CASE Shares!WritesSettings(q)
  <2>1. PICK n : hand' = [hand EXCEPT ![q].at = "ledger", ![q].next = n]
    BY <1>6 DEF Shares!WritesSettings
  <2> QED BY <2>1 DEF LeafType
<1>7. CASE Shares!SavesLedger(q) \/ Shares!Breaks(q)
  BY <1>1, <1>7 DEF Shares!SavesLedger, Shares!Breaks
<1> QED BY <1>2, <1>4, <1>5, <1>6, <1>7 DEF Steps

\* What a run goes on to replace or remove is no real file of an install's, and
\* the link of an uninstall's.
LookInv ==
  /\ saw = [p \in Installer |-> saw[p]]
  /\ \A p \in Installer : hand[p].at \in {"unlink", "symlink", "copy"} =>
       IF hand[p].of # {} THEN saw[p] # "real" ELSE hand[p].at = "unlink" /\ saw[p] = "link"

LEMMA LookInit == Shares!Init => LookInv
<1> SUFFICES ASSUME Shares!Init PROVE LookInv
  OBVIOUS
<1>1. \A p \in Installer : hand[p].at = "rest"
  BY DEF Shares!Init, Shares!Rest
<1> QED BY <1>1 DEF LookInv, Shares!Init

LEMMA LookStep ==
  ASSUME LeafType, LookInv, [Shares!Next]_shared
  PROVE  LookInv'
<1> DEFINE At3 == {"unlink", "symlink", "copy"}
<1>1. ASSUME NEW p \in Installer, NEW g, hand' = [hand EXCEPT ![p] = g],
             saw' = saw \/ \E v : saw' = [saw EXCEPT ![p] = v],
             g.at \in At3 => IF g.of # {} THEN saw'[p] # "real" ELSE g.at = "unlink" /\ saw'[p] = "link"
      PROVE  LookInv'
  <2>1. hand'[p] = g /\ \A q \in Installer \ {p} : hand'[q] = hand[q] /\ saw'[q] = saw[q]
    BY <1>1, Carried DEF LookInv
  <2>2. saw' = [q \in Installer |-> saw'[q]]
    BY <1>1 DEF LookInv
  <2> QED BY <1>1, <2>1, <2>2 DEF LookInv
<1>2. ASSUME NEW p \in Installer, NEW s, Shares!Go(p, s),
             saw' = saw \/ \E v : saw' = [saw EXCEPT ![p] = v],
             s \in At3 => IF hand[p].of # {} THEN saw'[p] # "real" ELSE s = "unlink" /\ saw'[p] = "link"
      PROVE  LookInv'
  <2> DEFINE g == [hand[p] EXCEPT !.at = s]
  <2>1. Hand(hand[p]) /\ hand' = [hand EXCEPT ![p] = g]
    BY <1>2 DEF LeafType, Shares!Go
  <2>2. g.at = s /\ g.of = hand[p].of
    BY <2>1, GoFields
  <2> HIDE DEF g
  <2> QED BY <1>1, <1>2, <2>1, <2>2
<1>3. ASSUME NEW p \in Installer, Shares!WritesAgents(p) PROVE LookInv'
  BY <1>2, <1>3 DEF Shares!WritesAgents
<1>4. ASSUME NEW p \in Installer, Shares!Linked(p) PROVE LookInv'
  BY <1>2, <1>4 DEF Shares!Linked
<1>5. ASSUME NEW p \in Installer, Shares!Looks(p) PROVE LookInv'
  <2>1. CASE /\ IF hand[p].of # {} THEN claude \in {"link", "other"} ELSE claude = "link"
             /\ Shares!Go(p, "unlink") /\ saw' = [saw EXCEPT ![p] = claude]
    <3>1. saw'[p] = claude
      BY <2>1 DEF LookInv
    <3> QED BY <1>2, <2>1, <3>1
  <2>2. CASE hand[p].of # {} /\ claude = "missing" /\ Shares!Go(p, "symlink") /\ saw' = [saw EXCEPT ![p] = claude]
    <3>1. saw'[p] = claude
      BY <2>2 DEF LookInv
    <3> QED BY <1>2, <2>2, <3>1
  <2> QED BY <1>4, <1>5, <2>1, <2>2 DEF Shares!Looks, Shares!Installs
<1>6. ASSUME NEW p \in Installer, Shares!Unlinks(p) PROVE LookInv'
  <2>1. CASE hand[p].of # {} /\ Shares!Go(p, "symlink") /\ saw' = saw
    <3>1. saw[p] # "real"
      BY <1>6, <2>1 DEF LookInv, Shares!Unlinks, Shares!At
    <3> QED BY <1>2, <2>1, <3>1
  <2> QED BY <1>4, <1>6, <2>1 DEF Shares!Unlinks, Shares!Installs
<1>7. ASSUME NEW p \in Installer, Shares!Symlinks(p) PROVE LookInv'
  <2>1. CASE Shares!Go(p, "copy") /\ saw' = saw
    <3>1. hand[p].of # {} /\ saw[p] # "real"
      BY <1>7 DEF LookInv, Shares!Symlinks, Shares!At
    <3> QED BY <1>2, <2>1, <3>1
  <2> QED BY <1>4, <1>7, <2>1 DEF Shares!Symlinks
<1>8. ASSUME NEW p \in Installer, Shares!Copies(p) PROVE LookInv'
  BY <1>4, <1>8 DEF Shares!Copies
<1>9. ASSUME NEW p \in Installer, NEW of, Shares!Begins(p, of) PROVE LookInv'
  <2> DEFINE g == [Shares!Rest EXCEPT !.at = "block", !.of = of, !.lines = agents]
  <2>1. hand' = [hand EXCEPT ![p] = g] /\ saw' = saw
    BY <1>9 DEF Shares!Begins
  <2>2. g.at = "block"
    BY BeginFields
  <2> HIDE DEF g
  <2> QED BY <1>1, <2>1, <2>2
<1>10. ASSUME NEW p \in Installer, hand' = [hand EXCEPT ![p] = Shares!Rest],
              saw' = saw \/ \E v : saw' = [saw EXCEPT ![p] = v]
       PROVE  LookInv'
  BY <1>1, <1>10, RestFields
<1>11. ASSUME NEW p \in Installer, Shares!SavesLedger(p) \/ Shares!Breaks(p) PROVE LookInv'
  BY <1>10, <1>11 DEF Shares!SavesLedger, Shares!Breaks
<1>12. ASSUME NEW p \in Installer, Shares!ReadsSettings(p) PROVE LookInv'
  <2>0. saw' = saw
    BY <1>12 DEF Shares!ReadsSettings
  <2>1. CASE hand' = [hand EXCEPT ![p] = Shares!Rest]
    BY <1>10, <2>0, <2>1
  <2>2. CASE hand' = [hand EXCEPT ![p].at = "merge", ![p].seen = settings, ![p].was = claims]
    <3> DEFINE g == [hand[p] EXCEPT !.at = "merge", !.seen = settings, !.was = claims]
    <3>1. Hand(hand[p]) /\ hand' = [hand EXCEPT ![p] = g]
      BY <2>2 DEF LeafType
    <3>2. g.at = "merge"
      BY <3>1, ReadFields
    <3> HIDE DEF g
    <3> QED BY <1>1, <2>0, <3>1, <3>2
  <2> QED BY <1>12, <2>1, <2>2 DEF Shares!ReadsSettings
<1>13. ASSUME NEW p \in Installer, Shares!WritesSettings(p) PROVE LookInv'
  <2>1. PICK n : hand' = [hand EXCEPT ![p].at = "ledger", ![p].next = n]
    BY <1>13 DEF Shares!WritesSettings
  <2> DEFINE g == [hand[p] EXCEPT !.at = "ledger", !.next = n]
  <2>2. Hand(hand[p]) /\ hand' = [hand EXCEPT ![p] = g]
    BY <2>1 DEF LeafType
  <2>3. g.at = "ledger"
    BY <2>2, WriteFields
  <2>4. saw' = saw
    BY <1>13 DEF Shares!WritesSettings
  <2> HIDE DEF g
  <2> QED BY <1>1, <2>2, <2>3, <2>4
<1>14. CASE UNCHANGED <<hand, saw>>
  BY <1>14 DEF LookInv
<1>15. CASE Shares!EditsAgents \/ Shares!EditsClaude \/ Shares!EditsSettings \/ UNCHANGED shared
  BY <1>14, <1>15 DEF Shares!EditsAgents, Shares!EditsClaude, Shares!EditsSettings, shared
<1>16. ASSUME NEW p \in Installer, Shares!Install(p) \/ Shares!Uninstall(p) PROVE LookInv'
  BY <1>9, <1>16 DEF Shares!Install, Shares!Uninstall
<1> QED BY <1>3, <1>5, <1>6, <1>7, <1>8, <1>11, <1>12, <1>13, <1>15, <1>16 DEF Shares!Next

\* What a run whose reading still holds writes keeps what is the lead's.
LEMMA StepKeeps ==
  ASSUME LeafType, TextInv, WroteInv, LookInv, Shares!Next, NEW p \in Installer
  PROVE  /\ Shares!At(p, {"block"}) /\ hand'[p].at = "link" /\ agents = hand[p].lines =>
              Shares!SameLines(agents, agents')
         /\ Shares!At(p, {"unlink", "symlink", "copy"}) /\ hand'[p] # hand[p] /\ claude = saw[p] =>
              claude' = claude \/ IF Shares!Installs(p) THEN claude # "real" ELSE claude = "link"
         /\ Shares!At(p, {"merge"}) /\ hand'[p].at = "ledger" =>
              \A k \in Leaf : settings[k] = hand[p].seen[k] /\ settings'[k] # settings[k] =>
                settings[k] \in wrote[k] \cup {Absent}
<1>1. hand'[p] = hand[p] \/ Steps(p)
  <2>1. CASE \E q \in Installer : Steps(q)
    BY <2>1, OthersRest
  <2>2. CASE Shares!EditsAgents \/ Shares!EditsClaude \/ Shares!EditsSettings
    BY <2>2 DEF Shares!EditsAgents, Shares!EditsClaude, Shares!EditsSettings
  <2> QED BY <2>1, <2>2 DEF Shares!Next, Steps, Links
<1>2. ASSUME hand[p].at \in {"unlink", "symlink", "copy"}, claude = saw[p]
      PROVE  IF Shares!Installs(p) THEN claude # "real" ELSE claude = "link"
  BY <1>2 DEF LookInv, Shares!Installs
<1>3. ASSUME hand[p].at = "block", hand'[p].at = "link" PROVE Shares!WritesAgents(p)
  <2>1. Steps(p)
    BY <1>1, <1>3
  <2>2. ~Shares!Breaks(p)
    <3> SUFFICES ASSUME Shares!Breaks(p) PROVE FALSE
      OBVIOUS
    <3>1. hand'[p] = Shares!Rest
      BY Carried DEF Shares!Breaks
    <3> QED BY <1>3, <3>1 DEF Shares!Rest
  <2>3. ~Links(p)
    BY <1>3, LinkSteps
  <2> QED BY <1>3, <2>1, <2>2, <2>3 DEF Steps, Shares!Install, Shares!Uninstall, Shares!Begins,
            Shares!ReadsSettings, Shares!WritesSettings, Shares!SavesLedger, Shares!At
<1>4. ASSUME hand[p].at = "merge", hand'[p].at = "ledger" PROVE Shares!WritesSettings(p)
  <2>1. Steps(p)
    BY <1>1, <1>4
  <2>2. ~Shares!Breaks(p)
    <3> SUFFICES ASSUME Shares!Breaks(p) PROVE FALSE
      OBVIOUS
    <3>1. hand'[p] = Shares!Rest
      BY Carried DEF Shares!Breaks
    <3> QED BY <1>4, <3>1 DEF Shares!Rest
  <2>3. ~Links(p)
    BY <1>4, LinkSteps
  <2> QED BY <1>4, <2>1, <2>2, <2>3 DEF Steps, Shares!Install, Shares!Uninstall, Shares!Begins,
            Shares!ReadsSettings, Shares!WritesAgents, Shares!SavesLedger, Shares!At
<1>5. ASSUME Shares!WritesAgents(p), agents = hand[p].lines PROVE Shares!SameLines(agents, agents')
  <2>1. Whole(agents) /\ Hand(hand[p])
    BY DEF TextInv, LeafType
  <2>2. CASE hand[p].of = {}
    <3>1. agents' = Shares!WithoutBlock(agents) \/ agents' = agents
      BY <1>5, <2>2 DEF Shares!WritesAgents, Shares!Installs
    <3>2. Shares!SameLines(agents, agents)
      BY SameItself
    <3> QED BY <2>1, <3>1, <3>2, WithoutBlockKeeps
  <2>3. CASE hand[p].of # {}
    <3>1. PICK r \in Release : hand[p].of = {r}
      BY <2>1, <2>3 DEF Hand
    <3>2. (CHOOSE x \in hand[p].of : TRUE) = r
      BY <3>1
    <3>3. agents' = Shares!WithBlock(agents, r)
      BY <1>5, <2>3, <3>2 DEF Shares!WritesAgents, Shares!Installs
    <3> QED BY <2>1, <3>3, WithBlockKeeps
  <2> QED BY <2>2, <2>3
<1> QED BY <1>2, <1>3, <1>4, <1>5, WritesOwn DEF Shares!At

\* Whatever is killed or overlaps, what the side ledger claims was written by ttorch to
\* that leaf; and while no run breaks off or meets another, the ledger tells of every
\* leaf of the settings whose value ttorch wrote, so none outlives the uninstall
\* (installer/globalsettings.go).
THEOREM OwnedLeavesTold == SumSpec => []OwnedLeaves
<1>1. SumInit => LeafType /\ LeafInv /\ WroteInv
  BY LeafInit, LeadInit DEF SumInit
<1>2. LeafType /\ LeafInv /\ WroteInv /\ [SumNext]_all => (LeafType /\ LeafInv /\ WroteInv)'
  <2> SUFFICES ASSUME LeafType, LeafInv, WroteInv, [SumNext]_all
               PROVE  (LeafType /\ LeafInv /\ WroteInv)'
    OBVIOUS
  <2>1. [Shares!Next]_shared
    BY DEF SumNext, all
  <2> QED BY <2>1, LeafStep, WroteStep
<1>3. LeafType /\ LeafInv /\ WroteInv => OwnedLeaves
  BY DEF LeafInv, WroteInv, Written, OwnedLeaves, Shares!OwnedLeaves, Shares!At, Told
<1> QED BY <1>1, <1>2, <1>3, PTL DEF SumSpec

\* Whatever runs, overlaps, fails or is edited meanwhile, no run that finds a file as it
\* read it takes what is the lead's from it: the lead's lines in AGENTS.md, a CLAUDE.md
\* of the lead's own, leaves of the settings that ttorch never wrote
\* (installer/installer.go, installer/globalsettings.go); as long as the lead does not
\* delete one marker of the block alone.
THEOREM LeadsOwnStays == ~Damage => (SumSpec => LeadsOwnKept)
<1> SUFFICES ASSUME ~Damage PROVE SumSpec => LeadsOwnKept
  OBVIOUS
<1>1. SumInit => LeafType /\ LeafInv /\ TextInv /\ WroteInv /\ LookInv
  BY LeafInit, LeadInit, LookInit DEF SumInit
<1>2. LeafType /\ LeafInv /\ TextInv /\ WroteInv /\ LookInv /\ [SumNext]_all
      => (LeafType /\ LeafInv /\ TextInv /\ WroteInv /\ LookInv)'
  <2> SUFFICES ASSUME LeafType, LeafInv, TextInv, WroteInv, LookInv, [SumNext]_all
               PROVE  (LeafType /\ LeafInv /\ TextInv /\ WroteInv /\ LookInv)'
    OBVIOUS
  <2>1. [Shares!Next]_shared
    BY DEF SumNext, all
  <2> QED BY <2>1, LeafStep, TextStep, WroteStep, LookStep
<1>3. ASSUME LeafType, TextInv, WroteInv, LookInv, [SumNext]_all
      PROVE  [\A p \in Installer :
       /\ Shares!At(p, {"block"}) /\ hand'[p].at = "link" /\ agents = hand[p].lines =>
            Shares!SameLines(agents, agents')
       /\ Shares!At(p, {"unlink", "symlink", "copy"}) /\ hand'[p] # hand[p] /\ claude = saw[p] =>
            claude' = claude \/ IF Shares!Installs(p) THEN claude # "real" ELSE claude = "link"
       /\ Shares!At(p, {"merge"}) /\ hand'[p].at = "ledger" =>
            \A k \in Leaf : settings[k] = hand[p].seen[k] /\ settings'[k] # settings[k] =>
              settings[k] \in wrote[k] \cup {Absent}]_(Shares!vars)
  <2>1. CASE Shares!Next
    BY <1>3, <2>1, StepKeeps
  <2>2. CASE UNCHANGED shared
    BY <2>2 DEF shared, Shares!vars
  <2> QED BY <1>3, <2>1, <2>2 DEF SumNext, all
<1> QED BY <1>1, <1>2, <1>3, PTL DEF SumSpec, LeadsOwnKept, Shares!LeadsOwnKept
=============================================================================
