------------------------------ MODULE GateProofs ------------------------------
(***************************************************************************)
(* For any commits, dimensions, managers, launch budget, timeout and number*)
(* of faults: a verdict passes only over a commit whose suite was green and*)
(* whose reviews are all of its own episode, and over no finding that      *)
(* stands.                                                                 *)
(*                                                                         *)
(* The argument is about prep.  A report that the fold accepts is fresh,   *)
(* and there are two ways to be: filed after the stamp, and then a clean   *)
(* one is on record as filed since the prep began; or carried past it, and *)
(* then it blocked when the prep looked, so if it is clean now it has been *)
(* filed meanwhile.  A finding stays fresh because every prep that looks   *)
(* after it carries it, and none that looked before is still under way.    *)
(***************************************************************************)
EXTENDS MCGateEpisode, TLAPS

\* The daemon works on a commit, and so does a reviewer in a window.
AtWork ==
  /\ proc[Daemon].at # "rest" => proc[Daemon].sha \in Commit
  /\ \A d \in Dimension : window[d].busy => window[d].sha \in Commit

\* A launch is decided on while it can be paid for.
Budget ==
  proc[Daemon].at \in {"launch", "charge"} =>
    \A d \in proc[Daemon].some : row.attempts[d] < MaxAttempts

Clean(r) == ~r.blocks /\ r.sha # None

\* A green stamp is of a green commit; a fresh clean report has been filed since the
\* prep of the stamp began; one that a prep under way is to carry, and is clean by
\* now, since that one began.
Reviewed ==
  /\ stamp.green => stamp.head \in Green
  /\ \A d \in Dimension : report[d].fresh /\ Clean(report[d]) => <<d, report[d].sha>> \in cleared
  /\ \A p \in Proc : proc[p].at = "stamp" =>
       \A d \in proc[p].some : Clean(report[d]) => <<d, report[d].sha>> \in recent[p]

\* A finding that stands is on disk, fresh, and every prep under way carries it.
Standing ==
  \A d \in Dimension, c \in Commit : <<d, c>> \in found =>
    /\ c = head /\ report[d].sha = c /\ report[d].blocks /\ report[d].fresh
    /\ \A p \in Proc : proc[p].at = "stamp" => d \in proc[p].some

Typed == TypeOK /\ AtWork /\ Budget
IInv  == Typed /\ Reviewed /\ Standing

--------------------------------------------------------------------------------
(* What a process becomes.                                                 *)

LEMMA RestIsLocal == AtRest \in Local /\ AtRest.at = "rest"
<1>1. None \in Head /\ "rest" \in Stage /\ FALSE \in BOOLEAN
  BY DEF Head, Stage
<1>2. AtRest \in Local
  BY <1>1, Zenon DEF AtRest, Local
<1>3. AtRest.at = "rest"
  BY DEF AtRest
<1> QED BY <1>2, <1>3

LEMMA Becoming ==
  ASSUME TypeOK, NEW p \in Proc, NEW r \in Local, proc' = [proc EXCEPT ![p] = r]
  PROVE  proc' \in [Proc -> Local] /\ proc'[p] = r /\ \A q \in Proc : q # p => proc'[q] = proc[q]
  BY DEF TypeOK

LEMMA Types ==
  /\ NoRow \in Row /\ NoAnchor \in Anchor /\ NoStamp \in PrepStamp /\ NoReport \in ReportType
  /\ NoWindow \in Window /\ NoVerdict \in Verdict /\ None \in Head /\ Commit \subseteq Head
  /\ 0 \in Age /\ Daemon \in Proc /\ Manager \subseteq Proc
  /\ \A p \in Manager : p # Daemon
<1>1. None \in Head /\ Commit \subseteq Head /\ 0 \in Age /\ Daemon \in Proc /\ Manager \subseteq Proc /\ FALSE \in BOOLEAN
  BY GateAssumption DEF Head, Age, Proc
<1>2. NoAnchor \in Anchor
  BY <1>1 DEF NoAnchor, Anchor
<1>3. NoStamp \in PrepStamp /\ NoReport \in ReportType /\ NoWindow \in Window /\ NoVerdict \in Verdict
  BY <1>1, Zenon DEF NoStamp, PrepStamp, NoReport, ReportType, NoWindow, Window, NoVerdict, Verdict
<1>4. NoRow \in Row
  <2>1. [d \in Dimension |-> 0] \in [Dimension -> 0..MaxAttempts]
    BY GateAssumption
  <2> QED BY <1>1, <2>1 DEF NoRow, Row
<1> QED BY <1>1, <1>2, <1>3, <1>4, GateAssumption

--------------------------------------------------------------------------------
(* Types, and who is at work on what.                                      *)

LEMMA TypedInit == Init => Typed
<1> SUFFICES ASSUME Init PROVE Typed
  OBVIOUS
<1>1. /\ head \in Commit /\ row = NoRow /\ marker = NoAnchor /\ sight = NoAnchor
      /\ window = [d \in Dimension |-> NoWindow] /\ hand = [d \in Dimension |-> None]
      /\ verdict = NoVerdict /\ told = {} /\ proc = [p \in Proc |-> AtRest] /\ wedged = FALSE
      /\ recent = [p \in Proc |-> {}] /\ cleared = {} /\ events = 0
  BY Zenon DEF Init
<1>2. stamp \in PrepStamp /\ listed \subseteq Dimension /\ report \in [Dimension -> ReportType]
      /\ found \subseteq Dimension \X Commit
  <2>1. CASE Untouched
    BY <2>1, Types DEF Untouched
  <2>2. CASE Prepared
    <3>1. PICK d \in Dimension :
            /\ listed = {d} /\ stamp = [head |-> head, green |-> head \in Green, dims |-> {d}]
            /\ report = [e \in Dimension |->
                           IF e = d THEN [sha |-> head, blocks |-> TRUE, fresh |-> TRUE] ELSE NoReport]
            /\ found = {<<d, head>>}
      BY <2>2 DEF Prepared
    <3>2. head \in Head /\ (head \in Green) \in BOOLEAN
      BY <1>1, Types
    <3>3. stamp \in PrepStamp
      <4> DEFINE g == head \in Green
      <4>1. g \in BOOLEAN
        OBVIOUS
      <4>2. stamp = [head |-> head, green |-> g, dims |-> {d}]
        BY <3>1
      <4> HIDE DEF g
      <4> QED BY <3>2, <4>1, <4>2, Zenon DEF PrepStamp
    <3>4. [sha |-> head, blocks |-> TRUE, fresh |-> TRUE] \in ReportType
      BY <3>2, Zenon DEF ReportType
    <3> QED BY <1>1, <3>1, <3>3, <3>4, Types
  <2> QED BY <2>1, <2>2 DEF Init
<1>3. TypeOK
  <2>1. recent \in [Proc -> SUBSET (Dimension \X Commit)] /\ proc \in [Proc -> Local] /\ hand \in [Dimension -> Head]
    BY <1>1, Types, RestIsLocal
  <2>2. wedged \in BOOLEAN
    BY <1>1, Zenon
  <2>3. events \in 0..MaxEvents
    BY <1>1, GateAssumption
  <2> QED BY <1>1, <1>2, <2>1, <2>2, <2>3, Types DEF TypeOK
<1>4. AtWork
  <2>1. NoWindow.busy = FALSE
    BY Zenon DEF NoWindow
  <2>2. proc[Daemon].at = "rest"
    BY <1>1, Types, RestIsLocal
  <2> QED BY <1>1, <2>1, <2>2 DEF AtWork
<1>5. Budget
  <2>1. proc[Daemon].at = "rest"
    BY <1>1, Types, RestIsLocal
  <2> QED BY <2>1 DEF Budget
<1> QED BY <1>3, <1>4, <1>5 DEF Typed

LEMMA EventTyped ==
  ASSUME TypeOK, Event \/ UNCHANGED events PROVE events' \in 0..MaxEvents
  BY GateAssumption DEF TypeOK, Event

LEMMA GitTyped ==
  ASSUME TypeOK, NEW f \in BOOLEAN, GitMayFail(f) PROVE events' \in 0..MaxEvents
  BY EventTyped DEF GitMayFail

LEMMA FloorTyped ==
  ASSUME TypeOK, NEW c, c \in Commit, NEW f \in BOOLEAN
  PROVE  /\ DerivedFloor(c, f) \subseteq Dimension /\ Floor[c] \subseteq DerivedFloor(c, f)
         /\ RequiredDimensions(c, f) \subseteq Dimension /\ Floor[c] \subseteq RequiredDimensions(c, f)
         /\ BlockingReportsPinnedTo(c) \subseteq Dimension /\ DispatchedDimensions \subseteq Dimension
<1>1. Floor[c] \subseteq Dimension
  BY GateAssumption
<1>2. stamp.dims \subseteq Dimension /\ listed \subseteq Dimension /\ row.dims \subseteq Dimension
  BY DEF TypeOK, PrepStamp, Row
<1>3. DerivedFloor(c, f) \subseteq Dimension /\ Floor[c] \subseteq DerivedFloor(c, f)
  BY <1>1 DEF DerivedFloor
<1> QED BY <1>1, <1>2, <1>3 DEF RequiredDimensions, BlockingReportsPinnedTo, DispatchedDimensions

LEMMA TornDownTyped ==
  ASSUME TypeOK, AtWork, NEW S
  PROVE  TornDown(S) \in [Dimension -> Window] /\ \A d \in Dimension : TornDown(S)[d].busy => TornDown(S)[d].sha \in Commit
<1>1. window \in [Dimension -> Window] /\ NoWindow \in Window
  BY Types DEF TypeOK
<1>2. NoWindow.busy = FALSE
  BY Zenon DEF NoWindow
<1> QED BY <1>1, <1>2 DEF TornDown, AtWork

\* The step of a process that leaves HEAD and tmux alone: what it has to show.
LEMMA ProcStep ==
  ASSUME Typed, NEW p \in Proc, NEW r \in Local, proc' = [proc EXCEPT ![p] = r], events' \in 0..MaxEvents,
         UNCHANGED <<head, wedged>>,
         row' \in Row, marker' \in Anchor, verdict' \in Verdict, told' \subseteq Commit, sight' \in Anchor,
         stamp' \in PrepStamp, listed' \subseteq Dimension, report' \in [Dimension -> ReportType],
         hand' \in [Dimension -> Head], recent' \in [Proc -> SUBSET (Dimension \X Commit)],
         cleared' \subseteq Dimension \X Commit, found' \subseteq found,
         window' \in [Dimension -> Window], \A d \in Dimension : window'[d].busy => window'[d].sha \in Commit,
         p = Daemon => /\ r.at # "rest" => r.sha \in Commit
                       /\ r.at \in {"launch", "charge"} => \A d \in r.some : row'.attempts[d] < MaxAttempts,
         p # Daemon => row' = row
  PROVE  Typed'
<1>1. /\ proc' \in [Proc -> Local] /\ proc'[p] = r /\ \A q \in Proc : q # p => proc'[q] = proc[q]
  BY Becoming DEF Typed
<1>2. TypeOK'
  BY <1>1 DEF Typed, TypeOK
<1>3. AtWork'
  BY <1>1, Types DEF Typed, AtWork
<1>4. Budget'
  BY <1>1, Types DEF Typed, Budget
<1> QED BY <1>2, <1>3, <1>4 DEF Typed

\* The step that changes no more than the process, the sightings and the windows.
LEMMA OwnStep ==
  ASSUME Typed, NEW p \in Proc, NEW r \in Local, proc' = [proc EXCEPT ![p] = r], events' \in 0..MaxEvents,
         UNCHANGED <<head, rows, disk, hand, wedged, past>>, sight' \in Anchor,
         window' \in [Dimension -> Window], \A d \in Dimension : window'[d].busy => window'[d].sha \in Commit,
         p = Daemon => /\ r.at # "rest" => r.sha \in Commit
                       /\ r.at \in {"launch", "charge"} => \A d \in r.some : row.attempts[d] < MaxAttempts
  PROVE  Typed'
<1>1. UNCHANGED <<row, marker, verdict, told, stamp, listed, report, recent, cleared, found>>
  BY DEF rows, disk, past
<1>2. TypeOK
  BY DEF Typed
<1>3. /\ row' \in Row /\ marker' \in Anchor /\ verdict' \in Verdict /\ told' \subseteq Commit
      /\ stamp' \in PrepStamp /\ listed' \subseteq Dimension /\ report' \in [Dimension -> ReportType]
      /\ hand' \in [Dimension -> Head] /\ recent' \in [Proc -> SUBSET (Dimension \X Commit)]
      /\ cleared' \subseteq Dimension \X Commit /\ found' \subseteq found
  BY <1>1, <1>2 DEF TypeOK
<1> QED BY <1>1, <1>3, ProcStep

LEMMA WindowsStay ==
  ASSUME Typed PROVE window \in [Dimension -> Window] /\ \A d \in Dimension : window[d].busy => window[d].sha \in Commit
  BY DEF Typed, TypeOK, AtWork

LEMMA Working ==
  ASSUME Typed, NEW p \in Proc
  PROVE  /\ proc[p] \in Local /\ proc[p].sha \in Head /\ proc[p].staged \in Head /\ proc[p].dims \in SUBSET Dimension
         /\ proc[p].some \in SUBSET Dimension /\ proc[p].pass \in BOOLEAN
         /\ p = Daemon /\ proc[p].at # "rest" => proc[p].sha \in Commit
  BY DEF Typed, TypeOK, Local, AtWork

\* Trust prep and record, by whoever runs them.
LEMMA PrepTyped ==
  ASSUME Typed, NEW p \in Proc, PrepRefused(p) \/ PrepStages(p) PROVE Typed'
<1>1. TypeOK /\ head \in Commit /\ sight \in Anchor
  BY DEF Typed, TypeOK
<1>2. proc[p].at = "prep" /\ {"prep", "stamp", "block"} \subseteq Stage
  BY DEF PrepRefused, PrepStages, At, Stage
<1>3. CASE PrepRefused(p)
  <2> DEFINE r == IF p = Daemon THEN [proc[p] EXCEPT !.at = "block"] ELSE AtRest
  <2>1. /\ proc' = [proc EXCEPT ![p] = r]
        /\ UNCHANGED <<head, rows, sight, disk, window, hand, wedged, past, events>>
    BY <1>3 DEF PrepRefused, Becomes
  <2>2. r \in Local /\ r.at \in {"block", "rest"} /\ (r.at = "block" => r.sha = proc[p].sha /\ p = Daemon)
    <3>1. CASE p = Daemon
      BY <1>2, <3>1, Working DEF Local
    <3>2. CASE p # Daemon
      BY <3>2, RestIsLocal
    <3> QED BY <3>1, <3>2
  <2> HIDE DEF r
  <2>3. events' \in 0..MaxEvents
    BY <1>1, <2>1, EventTyped
  <2>4. p = Daemon /\ r.at # "rest" => r.sha \in Commit
    BY <1>2, <2>2, Working
  <2> QED BY <1>1, <2>1, <2>2, <2>3, <2>4, OwnStep, WindowsStay
<1>4. CASE PrepStages(p)
  <2> DEFINE carried == BlockingReportsPinnedTo(head)
             r == [proc[p] EXCEPT !.at = "stamp", !.staged = head, !.dims = listed', !.some = carried]
  <2>1. PICK fails \in BOOLEAN, stays \in SUBSET Dimension :
          /\ GitMayFail(fails) /\ listed' = DerivedFloor(head, fails)
          /\ report' = [d \in Dimension |-> IF d \in carried \cup stays THEN report[d] ELSE NoReport]
    BY <1>4 DEF PrepStages
  <2>2. /\ recent' = [recent EXCEPT ![p] = {}] /\ proc' = [proc EXCEPT ![p] = r]
        /\ UNCHANGED <<head, rows, sight, stamp, window, hand, wedged, cleared, found>>
    BY <1>4 DEF PrepStages, Becomes
  <2>3. listed' \subseteq Dimension /\ carried \in SUBSET Dimension
    BY <1>1, <2>1, FloorTyped
  <2>4. r \in Local /\ r.at = "stamp" /\ r.sha = proc[p].sha
    BY <1>1, <1>2, <2>3, Working, Types DEF Local
  <2>5. p = Daemon => r.sha \in Commit
    BY <1>2, <2>4, Working
  <2>6. events' \in 0..MaxEvents
    BY <1>1, <2>1, GitTyped
  <2>7. report' \in [Dimension -> ReportType]
    BY <1>1, <2>1, Types DEF TypeOK
  <2>8. recent' \in [Proc -> SUBSET (Dimension \X Commit)]
    BY <1>1, <2>2 DEF TypeOK
  <2>9. UNCHANGED <<row, marker, verdict, told, sight, stamp, window, hand, cleared, found>>
    BY <2>2 DEF rows
  <2>10. /\ row' \in Row /\ marker' \in Anchor /\ verdict' \in Verdict /\ told' \subseteq Commit /\ sight' \in Anchor
         /\ stamp' \in PrepStamp /\ hand' \in [Dimension -> Head] /\ cleared' \subseteq Dimension \X Commit
         /\ found' \subseteq found
    BY <1>1, <2>9 DEF TypeOK
  <2> HIDE DEF r
  <2> QED BY <2>2, <2>3, <2>4, <2>5, <2>6, <2>7, <2>8, <2>9, <2>10, ProcStep, WindowsStay
<1> QED BY <1>3, <1>4

LEMMA CarryTyped ==
  ASSUME TypeOK, NEW S
  PROVE  [d \in Dimension |-> [report[d] EXCEPT !.fresh = d \in S]] \in [Dimension -> ReportType]
<1> SUFFICES ASSUME NEW d \in Dimension PROVE [report[d] EXCEPT !.fresh = d \in S] \in ReportType
  OBVIOUS
<1> DEFINE b == d \in S
<1>1. b \in BOOLEAN /\ report[d] \in ReportType
  BY DEF TypeOK
<1> HIDE DEF b
<1>2. [report[d] EXCEPT !.fresh = b] \in ReportType
  BY <1>1 DEF ReportType
<1> QED BY <1>2 DEF b

LEMMA StampTyped ==
  ASSUME Typed, NEW p \in Proc PROVE Stamp(p) \in PrepStamp
<1> DEFINE g == proc[p].staged \in Green
<1>1. g \in BOOLEAN /\ proc[p].staged \in Head /\ proc[p].dims \in SUBSET Dimension
  BY Working
<1>2. Stamp(p) = [head |-> proc[p].staged, green |-> g, dims |-> proc[p].dims]
  BY DEF Stamp
<1> HIDE DEF g
<1> QED BY <1>1, <1>2 DEF PrepStamp

LEMMA StampStepTyped ==
  ASSUME Typed, NEW p \in Proc, WritePrepStamp(p) PROVE Typed'
<1> DEFINE l == proc[p]
           gone == \E d \in l.some : report[d] = NoReport
           r == CASE p = Daemon /\ gone  -> [l EXCEPT !.at = "block"]
                  [] p = Daemon /\ ~gone -> [AtRest EXCEPT !.at = "open", !.sha = l.sha]
                  [] p # Daemon          -> AtRest
<1>0. TypeOK /\ head \in Commit
  BY DEF Typed, TypeOK
<1>1. /\ l.at = "stamp" /\ {"stamp", "block", "open"} \subseteq Stage
      /\ stamp' = IF gone THEN NoStamp ELSE Stamp(p)
      /\ report' = CarryReportsPastStamp(p)
      /\ cleared' = recent[p] /\ recent' = [recent EXCEPT ![p] = {}]
      /\ proc' = [proc EXCEPT ![p] = r]
      /\ hand' = IF p = Daemon \/ gone THEN hand
                 ELSE [d \in Dimension |-> IF d \in l.dims THEN l.staged ELSE hand[d]]
      /\ UNCHANGED <<head, rows, sight, listed, window, wedged, found, events>>
  BY Zenon DEF WritePrepStamp, At, Becomes, Stage
<1>2. r \in Local /\ r.at \in {"block", "open", "rest"} /\ (r.at # "rest" => r.sha = l.sha)
  <2>1. CASE p = Daemon /\ gone
    <3>1. r = [l EXCEPT !.at = "block"]
      BY <2>1
    <3> QED BY <1>1, <2>1, <3>1, Working DEF Local
  <2>2. CASE p = Daemon /\ ~gone
    <3>1. r = [AtRest EXCEPT !.at = "open", !.sha = l.sha]
      BY <2>2
    <3> QED BY <1>1, <3>1, Working, RestIsLocal DEF Local
  <2>3. CASE p # Daemon
    <3>1. r = AtRest
      BY <2>3
    <3> QED BY <3>1, RestIsLocal
  <2> QED BY <2>1, <2>2, <2>3
<1> HIDE DEF r, gone
<1>3. p = Daemon => l.sha \in Commit
  BY <1>1, Working
<1>4. stamp' \in PrepStamp
  BY <1>1, StampTyped, Types
<1>5. report' \in [Dimension -> ReportType]
  BY <1>0, <1>1, CarryTyped DEF CarryReportsPastStamp
<1>6. hand' \in [Dimension -> Head]
  <2>1. hand \in [Dimension -> Head] /\ l.staged \in Head
    BY <1>0, Working DEF TypeOK
  <2> QED BY <1>1, <2>1
<1>7. recent' \in [Proc -> SUBSET (Dimension \X Commit)] /\ cleared' \subseteq Dimension \X Commit
  BY <1>0, <1>1 DEF TypeOK
<1>8. UNCHANGED <<row, marker, verdict, told, sight, listed, window, found, events>>
  BY <1>1 DEF rows
<1>9. /\ row' \in Row /\ marker' \in Anchor /\ verdict' \in Verdict /\ told' \subseteq Commit /\ sight' \in Anchor
      /\ listed' \subseteq Dimension /\ found' \subseteq found /\ events' \in 0..MaxEvents
  BY <1>0, <1>8 DEF TypeOK
<1> QED BY <1>1, <1>2, <1>3, <1>4, <1>5, <1>6, <1>7, <1>8, <1>9, ProcStep, WindowsStay

\* The steps of the daemon's tick that only it takes.
LEMMA BeginTyped == ASSUME Typed, GateBegin PROVE Typed'
<1>1. TypeOK /\ AtWork /\ head \in Commit /\ sight \in Anchor /\ Daemon \in Proc /\ head \in Head
  BY Types DEF Typed, TypeOK
<1>2. UNCHANGED <<head, rows, sight, disk, hand, wedged, past, events>>
  BY DEF GateBegin
<1>3. events' \in 0..MaxEvents
  BY <1>1, <1>2, EventTyped
<1>4. CASE window' = TornDown(DispatchedDimensions) /\ Becomes(Daemon, [AtRest EXCEPT !.at = "prep", !.sha = head])
  <2> DEFINE r == [AtRest EXCEPT !.at = "prep", !.sha = head]
  <2>1. r \in Local /\ r.at = "prep" /\ r.sha = head
    BY <1>1, RestIsLocal DEF Local, Stage
  <2>2. proc' = [proc EXCEPT ![Daemon] = r]
    BY <1>4 DEF Becomes
  <2> HIDE DEF r
  <2>3. window' \in [Dimension -> Window] /\ \A d \in Dimension : window'[d].busy => window'[d].sha \in Commit
    BY <1>1, <1>4, TornDownTyped
  <2> QED BY <1>1, <1>2, <1>3, <2>1, <2>2, <2>3, OwnStep
<1>5. CASE UNCHANGED window /\ Becomes(Daemon, [AtRest EXCEPT !.at = "poll", !.sha = head])
  <2> DEFINE r == [AtRest EXCEPT !.at = "poll", !.sha = head]
  <2>1. r \in Local /\ r.at = "poll" /\ r.sha = head
    BY <1>1, RestIsLocal DEF Local, Stage
  <2>2. proc' = [proc EXCEPT ![Daemon] = r]
    BY <1>5 DEF Becomes
  <2> HIDE DEF r
  <2> QED BY <1>1, <1>2, <1>3, <1>5, <2>1, <2>2, OwnStep, WindowsStay
<1> QED BY <1>4, <1>5 DEF GateBegin

LEMMA OpenedTyped ==
  ASSUME NEW c \in Head, NEW S \in SUBSET Dimension, NEW o \in {"none", "recorded", "blocked"}
  PROVE  Opened(c, S, o) \in Row
  BY Types DEF Opened, Row

LEMMA OpenTyped == ASSUME Typed, OpenEpisode PROVE Typed'
<1> DEFINE c == proc[Daemon].sha
           r == [proc[Daemon] EXCEPT !.at = "mark"]
<1>1. TypeOK /\ Daemon \in Proc /\ proc[Daemon].at = "open" /\ "mark" \in Stage
  BY Types DEF Typed, OpenEpisode, At, Stage
<1>2. PICK fails \in BOOLEAN : GitMayFail(fails) /\ row' = Opened(c, RequiredDimensions(c, fails), "none")
  BY DEF OpenEpisode
<1>3. proc' = [proc EXCEPT ![Daemon] = r]
      /\ UNCHANGED <<head, marker, verdict, told, sight, disk, window, hand, wedged, past>>
  BY DEF OpenEpisode, Becomes
<1>4. c \in Commit /\ c \in Head
  BY <1>1, Working
<1>5. r \in Local /\ r.at = "mark" /\ r.sha = c
  BY <1>1, Working DEF Local
<1> HIDE DEF r, c
<1>6. row' \in Row
  BY <1>1, <1>2, <1>4, FloorTyped, OpenedTyped
<1>7. events' \in 0..MaxEvents
  BY <1>1, <1>2, GitTyped
<1>8. UNCHANGED <<marker, verdict, told, sight, stamp, listed, report, window, hand, recent, cleared, found>>
  BY <1>3 DEF disk, past
<1>9. /\ marker' \in Anchor /\ verdict' \in Verdict /\ told' \subseteq Commit /\ sight' \in Anchor
      /\ stamp' \in PrepStamp /\ listed' \subseteq Dimension /\ report' \in [Dimension -> ReportType]
      /\ hand' \in [Dimension -> Head] /\ recent' \in [Proc -> SUBSET (Dimension \X Commit)]
      /\ cleared' \subseteq Dimension \X Commit /\ found' \subseteq found
  BY <1>1, <1>8 DEF TypeOK
<1> QED BY <1>1, <1>3, <1>4, <1>5, <1>6, <1>7, <1>8, <1>9, ProcStep, WindowsStay

LEMMA MarkTyped == ASSUME Typed, MarkEpisode PROVE Typed'
<1> DEFINE c == proc[Daemon].sha
           r == [proc[Daemon] EXCEPT !.at = "poll"]
<1>1. TypeOK /\ Daemon \in Proc /\ proc[Daemon].at = "mark" /\ "poll" \in Stage
  BY Types DEF Typed, MarkEpisode, At, Stage
<1>2. /\ proc' = [proc EXCEPT ![Daemon] = r]
      /\ marker' = IF marker.head = c THEN marker ELSE [head |-> c, age |-> 0]
      /\ UNCHANGED <<head, row, verdict, told, sight, disk, window, hand, wedged, past, events>>
  BY DEF MarkEpisode, Becomes
<1>3. c \in Commit /\ c \in Head
  BY <1>1, Working
<1>4. r \in Local /\ r.at = "poll" /\ r.sha = c
  BY <1>1, Working DEF Local
<1> HIDE DEF r, c
<1>5. marker' \in Anchor
  BY <1>1, <1>2, <1>3, Types DEF TypeOK, Anchor
<1>6. UNCHANGED <<row, verdict, told, sight, stamp, listed, report, window, hand, recent, cleared, found, events>>
  BY <1>2 DEF disk, past
<1>7. /\ row' \in Row /\ verdict' \in Verdict /\ told' \subseteq Commit /\ sight' \in Anchor
      /\ stamp' \in PrepStamp /\ listed' \subseteq Dimension /\ report' \in [Dimension -> ReportType]
      /\ hand' \in [Dimension -> Head] /\ recent' \in [Proc -> SUBSET (Dimension \X Commit)]
      /\ cleared' \subseteq Dimension \X Commit /\ found' \subseteq found /\ events' \in 0..MaxEvents
  BY <1>1, <1>6 DEF TypeOK
<1> QED BY <1>1, <1>2, <1>3, <1>4, <1>5, <1>6, <1>7, ProcStep, WindowsStay

LEMMA FirstSeenTyped ==
  ASSUME TypeOK, NEW c \in Head PROVE FirstSeen(c) \in Anchor
  BY Types DEF TypeOK, FirstSeen, Anchor

\* A launch is decided on only when no reviewer it is for has spent its budget.
LEMMA PollTyped == ASSUME Typed, Poll PROVE Typed'
<1> DEFINE c == proc[Daemon].sha
<1>1. TypeOK /\ Daemon \in Proc /\ proc[Daemon].at = "poll"
  BY Types DEF Typed, Poll, At
<1>2. c \in Commit /\ c \in Head
  BY <1>1, Working
<1>3. PICK fails \in BOOLEAN :
     LET dims    == RequiredDimensions(c, fails) \cup DispatchedDimensions
         missing == {d \in dims : ~ReportCurrent(d, c)}
         idle    == {d \in missing : ~ReviewerWindowAlive(d)}
         quits   == Dropped(c) # {} \/ Spent(idle)
         next    == CASE quits                           -> "block"
                      [] ~quits /\ missing = {}          -> "fold"
                      [] ~quits /\ missing # {} /\ EpisodeLate(c) -> "block"
                      [] ~quits /\ idle # {} /\ ~EpisodeLate(c)   -> "launch"
                      [] OTHER                           -> "rest"
     IN /\ GitMayFail(fails)
        /\ sight' = IF quits \/ missing = {} THEN sight ELSE FirstSeen(c)
        /\ Becomes(Daemon, IF next = "rest" THEN AtRest
                           ELSE [proc[Daemon] EXCEPT !.at = next, !.dims = dims, !.some = idle])
  BY DEF Poll
<1> DEFINE dims    == RequiredDimensions(c, fails) \cup DispatchedDimensions
           missing == {d \in dims : ~ReportCurrent(d, c)}
           idle    == {d \in missing : ~ReviewerWindowAlive(d)}
           quits   == Dropped(c) # {} \/ Spent(idle)
           next    == CASE quits                           -> "block"
                        [] ~quits /\ missing = {}          -> "fold"
                        [] ~quits /\ missing # {} /\ EpisodeLate(c) -> "block"
                        [] ~quits /\ idle # {} /\ ~EpisodeLate(c)   -> "launch"
                        [] OTHER                           -> "rest"
           r == IF next = "rest" THEN AtRest
                ELSE [proc[Daemon] EXCEPT !.at = next, !.dims = dims, !.some = idle]
<1>4. /\ GitMayFail(fails) /\ proc' = [proc EXCEPT ![Daemon] = r]
      /\ sight' = IF quits \/ missing = {} THEN sight ELSE FirstSeen(c)
  BY <1>3 DEF Becomes
<1>5. UNCHANGED <<head, rows, disk, window, hand, wedged, past>>
  BY DEF Poll
<1>6. dims \in SUBSET Dimension /\ idle \in SUBSET Dimension
  BY <1>1, <1>2, FloorTyped
<1>7. next \in {"block", "fold", "launch", "rest"} /\ (next = "launch" => ~Spent(idle))
  <2> HIDE DEF idle, missing, dims
  <2>1. CASE quits
    BY <2>1
  <2>2. CASE ~quits /\ missing = {}
    BY <2>2
  <2>3. CASE ~quits /\ missing # {} /\ EpisodeLate(c)
    BY <2>3
  <2>4. CASE ~quits /\ missing # {} /\ ~EpisodeLate(c) /\ idle # {}
    BY <2>4
  <2>5. CASE ~quits /\ missing # {} /\ ~EpisodeLate(c) /\ idle = {}
    BY <2>5
  <2> QED BY <2>1, <2>2, <2>3, <2>4, <2>5
<1>8. next \in Stage
  BY <1>7 DEF Stage
<1> HIDE DEF next, idle, dims, missing, quits
<1>9. /\ r \in Local
      /\ r.at # "rest" => r.sha = c /\ r.some = idle /\ r.at = next
  <2>1. CASE next = "rest"
    BY <2>1, RestIsLocal
  <2>2. CASE next # "rest"
    BY <1>1, <1>6, <1>8, <2>2, Working DEF Local
  <2> QED BY <2>1, <2>2
<1> HIDE DEF r
<1>10. r.at \in {"launch", "charge"} => \A d \in r.some : row.attempts[d] < MaxAttempts
  <2> SUFFICES ASSUME r.at \in {"launch", "charge"}, NEW d \in r.some PROVE row.attempts[d] < MaxAttempts
    OBVIOUS
  <2>1. d \in idle /\ ~Spent(idle) /\ d \in Dimension
    BY <1>6, <1>7, <1>9
  <2>2. row.attempts[d] \in 0..MaxAttempts
    BY <1>1, <2>1 DEF TypeOK, Row
  <2> QED BY <2>1, <2>2, GateAssumption DEF Spent
<1>11. sight' \in Anchor
  BY <1>1, <1>2, <1>4, FirstSeenTyped DEF TypeOK
<1>12. events' \in 0..MaxEvents
  BY <1>1, <1>4, GitTyped
<1> QED BY <1>1, <1>2, <1>4, <1>5, <1>9, <1>10, <1>11, <1>12, OwnStep, WindowsStay

LEMMA SpawnTyped == ASSUME Typed, SpawnReviewers PROVE Typed'
<1> DEFINE l == proc[Daemon]
<1>1. TypeOK /\ Daemon \in Proc /\ l.at = "launch" /\ "charge" \in Stage /\ {} \in SUBSET Dimension
  BY Types DEF Typed, SpawnReviewers, At, Stage
<1>2. UNCHANGED <<head, rows, sight, disk, hand, wedged, past, events>>
  BY DEF SpawnReviewers
<1>3. sight' \in Anchor /\ events' \in 0..MaxEvents
  BY <1>1, <1>2 DEF TypeOK
<1>4. l.sha \in Commit /\ l.sha \in Head /\ \A d \in l.some : row.attempts[d] < MaxAttempts
  BY <1>1, Working DEF Typed, Budget
<1>5. CASE wedged
  <2> DEFINE r == [l EXCEPT !.at = "charge", !.some = {}]
  <2>1. r \in Local /\ r.sha = l.sha /\ r.some = {}
    BY <1>1, Working DEF Local
  <2>2. proc' = [proc EXCEPT ![Daemon] = r] /\ window' = window
    BY <1>5 DEF SpawnReviewers, Becomes
  <2> HIDE DEF r
  <2> QED BY <1>1, <1>2, <1>3, <1>4, <2>1, <2>2, OwnStep, WindowsStay
<1>6. CASE ~wedged
  <2> DEFINE r == [l EXCEPT !.at = "charge"]
  <2>1. r \in Local /\ r.sha = l.sha /\ r.some = l.some
    BY <1>1, Working DEF Local
  <2>2. proc' = [proc EXCEPT ![Daemon] = r]
    BY <1>6 DEF SpawnReviewers, Becomes
  <2>3. PICK launched \in SUBSET l.some :
          window' = [d \in Dimension |-> IF d \in launched /\ window[d] = NoWindow
                                         THEN [sha |-> l.sha, busy |-> TRUE] ELSE window[d]]
    BY <1>6 DEF SpawnReviewers
  <2> DEFINE w == [sha |-> l.sha, busy |-> TRUE]
  <2>4. w \in Window /\ w.sha = l.sha
    <3>1. TRUE \in BOOLEAN
      OBVIOUS
    <3>2. w \in Window
      BY <1>4, <3>1, Zenon DEF Window
    <3> QED BY <3>2
  <2> HIDE DEF r, w
  <2>5. window' = [d \in Dimension |-> IF d \in launched /\ window[d] = NoWindow THEN w ELSE window[d]]
    BY <2>3 DEF w
  <2>6. window' \in [Dimension -> Window] /\ \A d \in Dimension : window'[d].busy => window'[d].sha \in Commit
    BY <1>4, <2>4, <2>5, WindowsStay
  <2> QED BY <1>1, <1>2, <1>3, <1>4, <2>1, <2>2, <2>6, OwnStep
<1> QED BY <1>5, <1>6

LEMMA ChargeTyped == ASSUME Typed, ChargeAttempts PROVE Typed'
<1>1. TypeOK /\ Daemon \in Proc /\ proc[Daemon].at = "charge"
  BY Types DEF Typed, ChargeAttempts, At
<1>2. /\ row' = [row EXCEPT !.attempts = [d \in Dimension |->
                   IF d \in proc[Daemon].some THEN row.attempts[d] + 1 ELSE row.attempts[d]]]
      /\ proc' = [proc EXCEPT ![Daemon] = AtRest]
      /\ UNCHANGED <<head, marker, verdict, told, sight, disk, window, hand, wedged, past, events>>
  BY DEF ChargeAttempts, Becomes
<1> DEFINE a == [d \in Dimension |-> IF d \in proc[Daemon].some THEN row.attempts[d] + 1 ELSE row.attempts[d]]
<1>3. a \in [Dimension -> 0..MaxAttempts]
  <2>1. \A d \in Dimension : row.attempts[d] \in 0..MaxAttempts
    BY <1>1 DEF TypeOK, Row
  <2>2. \A d \in proc[Daemon].some : row.attempts[d] < MaxAttempts
    BY <1>1 DEF Typed, Budget
  <2>3. \A d \in Dimension : a[d] \in 0..MaxAttempts
    BY <2>1, <2>2, GateAssumption
  <2> QED BY <2>3
<1>4. row' \in Row
  <2>1. row' = [row EXCEPT !.attempts = a]
    BY <1>2
  <2> HIDE DEF a
  <2> QED BY <1>1, <1>3, <2>1 DEF TypeOK, Row
<1>5. UNCHANGED <<marker, verdict, told, sight, stamp, listed, report, window, hand, recent, cleared, found, events>>
  BY <1>2 DEF disk, past
<1>6. /\ marker' \in Anchor /\ verdict' \in Verdict /\ told' \subseteq Commit /\ sight' \in Anchor
      /\ stamp' \in PrepStamp /\ listed' \subseteq Dimension /\ report' \in [Dimension -> ReportType]
      /\ hand' \in [Dimension -> Head] /\ recent' \in [Proc -> SUBSET (Dimension \X Commit)]
      /\ cleared' \subseteq Dimension \X Commit /\ found' \subseteq found /\ events' \in 0..MaxEvents
  BY <1>1, <1>5 DEF TypeOK
<1> QED BY <1>1, <1>2, <1>4, <1>5, <1>6, RestIsLocal, ProcStep, WindowsStay

LEMMA FoldTyped == ASSUME Typed, Fold PROVE Typed'
<1> DEFINE l == proc[Daemon]
           S == FoldDimensions(l.dims, l.sha)
           r == CASE FoldFails(S, l.sha)  -> AtRest
                  [] ~FoldFails(S, l.sha) /\ FoldPasses(S, l.sha)
                       -> [l EXCEPT !.at = "record", !.dims = S, !.some = {}]
                  [] OTHER -> [l EXCEPT !.at = "block", !.dims = S]
<1>1. TypeOK /\ Daemon \in Proc /\ l.at = "fold" /\ "record" \in Stage /\ "block" \in Stage
  BY Types DEF Typed, Fold, At, Stage
<1>2. proc' = [proc EXCEPT ![Daemon] = r] /\ UNCHANGED <<head, rows, sight, disk, window, hand, wedged, past, events>>
  BY DEF Fold, Becomes
<1>3. S \in SUBSET Dimension
  BY <1>1, Working DEF FoldDimensions
<1>4. l.sha \in Commit /\ l \in Local
  BY <1>1, Working
<1> DEFINE a == FoldFails(S, l.sha)
           b == FoldPasses(S, l.sha)
<1>5. r = CASE a -> AtRest [] ~a /\ b -> [l EXCEPT !.at = "record", !.dims = S, !.some = {}]
                 [] OTHER -> [l EXCEPT !.at = "block", !.dims = S]
  OBVIOUS
<1> HIDE DEF a, b, S, r, l
<1>6. r \in Local /\ r.at \in {"rest", "record", "block"} /\ (r.at # "rest" => r.sha = l.sha)
  <2>1. CASE a
    <3>1. r = AtRest
      BY <1>5, <2>1
    <3> QED BY <3>1, RestIsLocal
  <2>2. CASE ~a /\ b
    <3>1. r = [l EXCEPT !.at = "record", !.dims = S, !.some = {}]
      BY <1>5, <2>2
    <3> QED BY <1>1, <1>3, <1>4, <3>1 DEF Local
  <2>3. CASE ~a /\ ~b
    <3>1. r = [l EXCEPT !.at = "block", !.dims = S]
      BY <1>5, <2>3
    <3> QED BY <1>1, <1>3, <1>4, <3>1 DEF Local
  <2> QED BY <2>1, <2>2, <2>3
<1>7. sight' \in Anchor /\ events' \in 0..MaxEvents
  BY <1>1, <1>2 DEF TypeOK
<1> QED BY <1>1, <1>2, <1>4, <1>6, <1>7, OwnStep, WindowsStay

LEMMA SurfaceTyped == ASSUME Typed, SurfaceGateBlocked PROVE Typed'
<1> DEFINE c == proc[Daemon].sha
           r == [proc[Daemon] EXCEPT !.at = "close", !.pass = FALSE]
<1>1. TypeOK /\ Daemon \in Proc /\ proc[Daemon].at = "block" /\ "close" \in Stage
  BY Types DEF Typed, SurfaceGateBlocked, At, Stage
<1>2. /\ proc' = [proc EXCEPT ![Daemon] = r] /\ told' = told \cup {c}
      /\ UNCHANGED <<head, row, marker, verdict, sight, disk, window, hand, wedged, past, events>>
  BY DEF SurfaceGateBlocked, Becomes
<1>3. c \in Commit
  BY <1>1, Working
<1>4. r \in Local /\ r.at = "close" /\ r.sha = c
  BY <1>1, Working DEF Local
<1> HIDE DEF r, c
<1>5. UNCHANGED <<row, marker, verdict, sight, stamp, listed, report, window, hand, recent, cleared, found, events>>
  BY <1>2 DEF disk, past
<1>6. /\ row' \in Row /\ marker' \in Anchor /\ verdict' \in Verdict /\ told' \subseteq Commit /\ sight' \in Anchor
      /\ stamp' \in PrepStamp /\ listed' \subseteq Dimension /\ report' \in [Dimension -> ReportType]
      /\ hand' \in [Dimension -> Head] /\ recent' \in [Proc -> SUBSET (Dimension \X Commit)]
      /\ cleared' \subseteq Dimension \X Commit /\ found' \subseteq found /\ events' \in 0..MaxEvents
  BY <1>1, <1>2, <1>3, <1>5 DEF TypeOK
<1> QED BY <1>1, <1>2, <1>3, <1>4, <1>5, <1>6, ProcStep, WindowsStay

LEMMA EndTyped == ASSUME Typed, EndEpisode PROVE Typed'
<1> DEFINE l == proc[Daemon]
           o == IF l.pass THEN "recorded" ELSE "blocked"
<1>1. TypeOK /\ AtWork /\ Daemon \in Proc /\ l.at = "close"
  BY Types DEF Typed, EndEpisode, At
<1>2. /\ proc' = [proc EXCEPT ![Daemon] = AtRest]
      /\ row' = IF row.head = l.sha THEN [row EXCEPT !.outcome = o] ELSE Opened(l.sha, {}, o)
      /\ window' = IF row.head = l.sha THEN TornDown(l.dims \cup DispatchedDimensions) ELSE window
      /\ UNCHANGED <<head, marker, verdict, told, sight, disk, hand, wedged, past, events>>
  BY DEF EndEpisode, Becomes
<1>3. o \in {"none", "recorded", "blocked"} /\ l.sha \in Head
  BY <1>1, Working
<1> HIDE DEF o
<1>4. row' \in Row
  <2>1. [row EXCEPT !.outcome = o] \in Row
    BY <1>1, <1>3 DEF TypeOK, Row
  <2>2. Opened(l.sha, {}, o) \in Row
    BY <1>3, OpenedTyped
  <2> QED BY <1>2, <2>1, <2>2
<1>5. window' \in [Dimension -> Window] /\ \A d \in Dimension : window'[d].busy => window'[d].sha \in Commit
  BY <1>1, <1>2, TornDownTyped, WindowsStay
<1>6. UNCHANGED <<marker, verdict, told, sight, stamp, listed, report, hand, recent, cleared, found, events>>
  BY <1>2 DEF disk, past
<1>7. /\ marker' \in Anchor /\ verdict' \in Verdict /\ told' \subseteq Commit /\ sight' \in Anchor
      /\ stamp' \in PrepStamp /\ listed' \subseteq Dimension /\ report' \in [Dimension -> ReportType]
      /\ hand' \in [Dimension -> Head] /\ recent' \in [Proc -> SUBSET (Dimension \X Commit)]
      /\ cleared' \subseteq Dimension \X Commit /\ found' \subseteq found /\ events' \in 0..MaxEvents
  BY <1>1, <1>6 DEF TypeOK
<1> QED BY <1>1, <1>2, <1>4, <1>5, <1>6, <1>7, RestIsLocal, ProcStep

\* Trust record, and what managers start.
LEMMA RecordTyped == ASSUME Typed, NEW p \in Proc, TrustRecord(p) PROVE Typed'
<1> DEFINE l == proc[p]
<1>1. TypeOK /\ l.at = "record" /\ "save" \in Stage
  BY DEF Typed, TrustRecord, At, Stage
<1>2. PICK fails \in BOOLEAN :
     LET S == FoldDimensions(RequiredDimensions(l.sha, fails), l.sha) IN
     /\ GitMayFail(fails)
     /\ Becomes(p, IF l.sha # head \/ FoldFails(S, l.sha) THEN AtRest
                   ELSE [l EXCEPT !.at = "save",
                           !.pass = FoldPasses(S, l.sha) /\ Dropped(l.sha) = {}])
  BY DEF TrustRecord
<1> DEFINE S == FoldDimensions(RequiredDimensions(l.sha, fails), l.sha)
           b == FoldPasses(S, l.sha) /\ Dropped(l.sha) = {}
           r == IF l.sha # head \/ FoldFails(S, l.sha) THEN AtRest ELSE [l EXCEPT !.at = "save", !.pass = b]
<1>3. GitMayFail(fails) /\ proc' = [proc EXCEPT ![p] = r]
  BY <1>2 DEF Becomes
<1>4. UNCHANGED <<head, rows, sight, disk, window, hand, wedged, past>>
  BY DEF TrustRecord
<1>5. b \in BOOLEAN
  OBVIOUS
<1> HIDE DEF b, S
<1>6. r \in Local /\ r.at \in {"rest", "save"} /\ (r.at # "rest" => r.sha = l.sha)
  BY <1>1, <1>5, RestIsLocal, Working DEF Local
<1> HIDE DEF r
<1>7. p = Daemon => l.sha \in Commit
  BY <1>1, Working
<1>8. sight' \in Anchor /\ events' \in 0..MaxEvents
  BY <1>1, <1>3, <1>4, GitTyped DEF TypeOK
<1> QED BY <1>3, <1>4, <1>6, <1>7, <1>8, OwnStep, WindowsStay

LEMMA RecordFailsTyped == ASSUME Typed, NEW p \in Proc, RecordFails(p) PROVE Typed'
<1>1. TypeOK /\ proc' = [proc EXCEPT ![p] = AtRest]
  BY DEF Typed, RecordFails, Becomes
<1>2. UNCHANGED <<head, rows, sight, disk, window, hand, wedged, past, events>>
  BY DEF RecordFails
<1>3. sight' \in Anchor /\ events' \in 0..MaxEvents
  BY <1>1, <1>2 DEF TypeOK
<1> QED BY <1>1, <1>2, <1>3, RestIsLocal, OwnStep, WindowsStay

LEMMA SaveTyped == ASSUME Typed, NEW p \in Proc, SaveVerdict(p) PROVE Typed'
<1> DEFINE v == [sha |-> proc[p].sha, pass |-> proc[p].pass]
           r == IF p = Daemon THEN [proc[p] EXCEPT !.at = "close", !.pass = TRUE] ELSE AtRest
<1>1. TypeOK /\ proc[p].at = "save" /\ "close" \in Stage
  BY DEF Typed, SaveVerdict, At, Stage
<1>2. /\ proc' = [proc EXCEPT ![p] = r] /\ verdict' = v
      /\ UNCHANGED <<head, row, marker, told, sight, disk, window, hand, wedged, past, events>>
  BY DEF SaveVerdict, Becomes
<1>3. v \in Verdict
  BY Working DEF Verdict
<1>4. r \in Local /\ r.at \in {"rest", "close"} /\ (r.at # "rest" => r.sha = proc[p].sha)
  BY <1>1, Working, RestIsLocal DEF Local
<1>5. p = Daemon => proc[p].sha \in Commit
  BY <1>1, Working
<1> HIDE DEF r, v
<1>6. UNCHANGED <<row, marker, told, sight, stamp, listed, report, window, hand, recent, cleared, found, events>>
  BY <1>2 DEF disk, past
<1>7. /\ row' \in Row /\ marker' \in Anchor /\ verdict' \in Verdict /\ told' \subseteq Commit /\ sight' \in Anchor
      /\ stamp' \in PrepStamp /\ listed' \subseteq Dimension /\ report' \in [Dimension -> ReportType]
      /\ hand' \in [Dimension -> Head] /\ recent' \in [Proc -> SUBSET (Dimension \X Commit)]
      /\ cleared' \subseteq Dimension \X Commit /\ found' \subseteq found /\ events' \in 0..MaxEvents
  BY <1>1, <1>2, <1>3, <1>6 DEF TypeOK
<1> QED BY <1>2, <1>4, <1>5, <1>6, <1>7, ProcStep, WindowsStay

LEMMA ByHandTyped == ASSUME Typed, NEW p \in Manager, PrepByHand(p) \/ RecordByHand(p) PROVE Typed'
<1>1. TypeOK /\ p \in Proc /\ p # Daemon /\ sight \in Anchor /\ head \in Head /\ {"prep", "record"} \subseteq Stage
  BY Types DEF Typed, TypeOK, Stage
<1>2. CASE PrepByHand(p)
  <2> DEFINE r == [AtRest EXCEPT !.at = "prep"]
  <2>1. r \in Local
    BY <1>1, RestIsLocal DEF Local
  <2>2. proc' = [proc EXCEPT ![p] = r] /\ Event
        /\ UNCHANGED <<head, rows, sight, disk, window, hand, wedged, past>>
    BY <1>2 DEF PrepByHand, Becomes
  <2> HIDE DEF r
  <2>3. events' \in 0..MaxEvents
    BY <1>1, <2>2, EventTyped
  <2> QED BY <1>1, <2>1, <2>2, <2>3, OwnStep, WindowsStay
<1>3. CASE RecordByHand(p)
  <2> DEFINE r == [AtRest EXCEPT !.at = "record", !.sha = head]
  <2>1. r \in Local
    BY <1>1, RestIsLocal DEF Local
  <2>2. proc' = [proc EXCEPT ![p] = r]
        /\ UNCHANGED <<head, rows, sight, disk, window, hand, wedged, past, events>>
    BY <1>3 DEF RecordByHand, Becomes
  <2> HIDE DEF r
  <2>3. events' \in 0..MaxEvents
    BY <1>1, <2>2, EventTyped
  <2> QED BY <1>1, <2>1, <2>2, <2>3, OwnStep, WindowsStay
<1> QED BY <1>2, <1>3

LEMMA KillTyped == ASSUME Typed, NEW p \in Proc, Kill(p) \/ KilledInStamp(p) PROVE Typed'
<1>1. TypeOK /\ sight \in Anchor /\ NoAnchor \in Anchor
  BY Types DEF Typed, TypeOK
<1>2. /\ proc' = [proc EXCEPT ![p] = AtRest] /\ Event /\ sight' \in Anchor
      /\ recent' = [recent EXCEPT ![p] = {}]
      /\ UNCHANGED <<head, rows, listed, window, hand, wedged>>
  BY <1>1 DEF Kill, KilledInStamp, Becomes, disk
<1>3. stamp' \in PrepStamp /\ report' \in [Dimension -> ReportType]
      /\ cleared' \subseteq Dimension \X Commit /\ found' \subseteq found
  <2>1. CASE Kill(p)
    BY <1>1, <2>1 DEF Kill, disk, TypeOK
  <2>2. CASE KilledInStamp(p)
    <3>1. /\ stamp' = Stamp(p) /\ cleared' = recent[p] /\ found' = {}
          /\ report' = [d \in Dimension |-> [report[d] EXCEPT !.fresh = FALSE]]
      BY <2>2 DEF KilledInStamp
    <3>2. report' \in [Dimension -> ReportType]
      <4>1. \A d \in Dimension : [report[d] EXCEPT !.fresh = FALSE] \in ReportType
        BY <1>1 DEF TypeOK, ReportType
      <4> QED BY <3>1, <4>1
    <3> QED BY <1>1, <3>1, <3>2, StampTyped DEF TypeOK
  <2> QED BY <2>1, <2>2
<1>4. events' \in 0..MaxEvents
  BY <1>1, <1>2, EventTyped
<1>5. UNCHANGED <<row, marker, verdict, told, listed, window, hand>>
  BY <1>2 DEF rows
<1>6. /\ row' \in Row /\ marker' \in Anchor /\ verdict' \in Verdict /\ told' \subseteq Commit
      /\ listed' \subseteq Dimension /\ hand' \in [Dimension -> Head]
      /\ recent' \in [Proc -> SUBSET (Dimension \X Commit)]
  BY <1>1, <1>2, <1>5 DEF TypeOK
<1> QED BY <1>2, <1>3, <1>4, <1>5, <1>6, RestIsLocal, ProcStep, WindowsStay

\* The steps around the gate leave every process as it is.
LEMMA AroundStep ==
  ASSUME Typed, UNCHANGED <<proc, stamp, listed, verdict, told>>, events' \in 0..MaxEvents,
         head' \in Commit, wedged' \in BOOLEAN, row' \in Row, row'.attempts = row.attempts,
         marker' \in Anchor, sight' \in Anchor, report' \in [Dimension -> ReportType],
         hand' \in [Dimension -> Head], recent' \in [Proc -> SUBSET (Dimension \X Commit)],
         cleared' \subseteq Dimension \X Commit, found' \subseteq Dimension \X Commit,
         window' \in [Dimension -> Window], \A d \in Dimension : window'[d].busy => window'[d].sha \in Commit
  PROVE  Typed'
<1>1. TypeOK'
  BY DEF Typed, TypeOK
<1>2. AtWork'
  BY DEF Typed, AtWork
<1>3. Budget'
  BY DEF Typed, Budget
<1> QED BY <1>1, <1>2, <1>3 DEF Typed

LEMMA AnchorOlder == ASSUME NEW a \in Anchor PROVE Older(a) \in Anchor
<1>1. CASE a.head # None /\ a.age <= Timeout
  <2>1. a.age + 1 \in Age
    BY <1>1, GateAssumption DEF Anchor, Age
  <2>2. [a EXCEPT !.age = a.age + 1] \in Anchor
    BY <2>1 DEF Anchor
  <2> QED BY <1>1, <2>2 DEF Older
<1>2. CASE ~(a.head # None /\ a.age <= Timeout)
  BY <1>2 DEF Older
<1> QED BY <1>1, <1>2

LEMMA RowOlder == ASSUME NEW a \in Row PROVE Older(a) \in Row /\ Older(a).attempts = a.attempts
<1>1. CASE a.head # None /\ a.age <= Timeout
  <2>1. a.age + 1 \in Age
    BY <1>1, GateAssumption DEF Row, Age
  <2>2. [a EXCEPT !.age = a.age + 1] \in Row /\ [a EXCEPT !.age = a.age + 1].attempts = a.attempts
    BY <2>1 DEF Row
  <2> QED BY <1>1, <2>2 DEF Older
<1>2. CASE ~(a.head # None /\ a.age <= Timeout)
  BY <1>2 DEF Older
<1> QED BY <1>1, <1>2

LEMMA FilesTyped ==
  ASSUME TypeOK, NEW d \in Dimension, NEW c \in Commit, NEW blocks \in BOOLEAN, Files(d, c, blocks)
  PROVE  /\ report' \in [Dimension -> ReportType] /\ recent' \in [Proc -> SUBSET (Dimension \X Commit)]
         /\ cleared' \subseteq Dimension \X Commit /\ found' \subseteq Dimension \X Commit
         /\ UNCHANGED <<stamp, listed>>
<1> DEFINE clean == IF blocks THEN {} ELSE {<<d, c>>}
           kept  == found \ {<<d, report[d].sha>>}
<1>1. /\ report' = [report EXCEPT ![d] = [sha |-> c, blocks |-> blocks, fresh |-> TRUE]]
      /\ cleared' = cleared \cup clean
      /\ recent' = [p \in Proc |-> IF proc[p].at = "stamp" THEN recent[p] \cup clean ELSE {}]
      /\ found' = IF blocks /\ c = head /\ ~PrepUnderWay THEN kept \cup {<<d, c>>} ELSE kept
      /\ UNCHANGED <<stamp, listed>>
  BY DEF Files
<1>2. clean \subseteq Dimension \X Commit /\ kept \subseteq Dimension \X Commit
  BY DEF TypeOK
<1> HIDE DEF clean, kept
<1>3. found' \subseteq Dimension \X Commit
  BY <1>1, <1>2
<1>4. cleared' \subseteq Dimension \X Commit /\ recent' \in [Proc -> SUBSET (Dimension \X Commit)]
  BY <1>1, <1>2 DEF TypeOK
<1>5. report' \in [Dimension -> ReportType]
  <2> DEFINE n == [sha |-> c, blocks |-> blocks, fresh |-> TRUE]
  <2>1. TRUE \in BOOLEAN /\ c \in Head
    BY Types
  <2>2. n \in ReportType
    BY <2>1, Zenon DEF ReportType
  <2> HIDE DEF n
  <2>3. report' = [report EXCEPT ![d] = n]
    BY <1>1 DEF n
  <2> QED BY <2>2, <2>3 DEF TypeOK
<1> QED BY <1>1, <1>3, <1>4, <1>5

LEMMA AroundTyped ==
  ASSUME Typed,
         \/ Clock \/ Wedge \/ \E c \in Commit : WorkerMoves(c)
         \/ \E d \in Dimension : Reports(d) \/ WindowCloses(d) \/ HandReports(d)
  PROVE  Typed'
<1>1. TypeOK /\ NoWindow \in Window /\ NoWindow.busy = FALSE
  <2>1. NoWindow.busy = FALSE
    BY Zenon DEF NoWindow
  <2> QED BY <2>1, Types DEF Typed
<1>2. /\ head \in Commit /\ row \in Row /\ marker \in Anchor /\ sight \in Anchor /\ wedged \in BOOLEAN
      /\ report \in [Dimension -> ReportType] /\ window \in [Dimension -> Window]
      /\ hand \in [Dimension -> Head] /\ recent \in [Proc -> SUBSET (Dimension \X Commit)]
      /\ cleared \subseteq Dimension \X Commit /\ found \subseteq Dimension \X Commit
      /\ events \in 0..MaxEvents
  BY <1>1 DEF TypeOK
<1>3. CASE Clock
  <2>1. /\ row' = Older(row) /\ marker' = Older(marker) /\ sight' = Older(sight)
        /\ UNCHANGED <<head, verdict, told, stamp, listed, report, window, hand, proc, wedged,
                       recent, cleared, found, events>>
    BY <1>3 DEF Clock, disk, past
  <2>2. row' \in Row /\ row'.attempts = row.attempts /\ marker' \in Anchor /\ sight' \in Anchor
    BY <1>2, <2>1, AnchorOlder, RowOlder
  <2> QED BY <1>2, <2>1, <2>2, AroundStep, WindowsStay
<1>4. CASE Wedge
  <2>1. /\ wedged' \in BOOLEAN /\ (Event \/ UNCHANGED events)
        /\ UNCHANGED <<head, row, marker, verdict, told, sight, stamp, listed, report, window, hand, proc,
                       recent, cleared, found>>
    BY <1>4 DEF Wedge, disk, past, rows
  <2>2. events' \in 0..MaxEvents
    BY <1>1, <2>1, EventTyped
  <2> QED BY <1>2, <2>1, <2>2, AroundStep, WindowsStay
<1>5. ASSUME NEW c \in Commit, WorkerMoves(c) PROVE Typed'
  <2>1. /\ head' = c /\ found' = {} /\ Event
        /\ UNCHANGED <<row, marker, verdict, told, sight, stamp, listed, report, window, hand, proc,
                       wedged, recent, cleared>>
    BY <1>5 DEF WorkerMoves, disk, rows
  <2>2. events' \in 0..MaxEvents
    BY <1>1, <2>1, EventTyped
  <2> QED BY <1>2, <2>1, <2>2, AroundStep, WindowsStay
<1>6. ASSUME NEW d \in Dimension, Reports(d) PROVE Typed'
  <2>1. PICK blocks \in BOOLEAN : Files(d, window[d].sha, blocks)
    BY <1>6 DEF Reports
  <2>2. /\ window[d].busy /\ window' = [window EXCEPT ![d].busy = FALSE]
        /\ UNCHANGED <<head, row, marker, verdict, told, sight, hand, proc, wedged, events>>
    BY <1>6 DEF Reports, rows
  <2>3. window[d].sha \in Commit
    BY <2>2, WindowsStay
  <2>4. window' \in [Dimension -> Window] /\ \A e \in Dimension : window'[e].busy => window'[e].sha \in Commit
    <3>1. [window[d] EXCEPT !.busy = FALSE] \in Window /\ [window[d] EXCEPT !.busy = FALSE].busy = FALSE
      BY <1>2 DEF Window
    <3>2. window' = [window EXCEPT ![d] = [window[d] EXCEPT !.busy = FALSE]]
      BY <2>2
    <3> QED BY <1>2, <3>1, <3>2, WindowsStay
  <2> QED BY <1>1, <1>2, <2>1, <2>2, <2>3, <2>4, FilesTyped, AroundStep
<1>7. ASSUME NEW d \in Dimension, WindowCloses(d) PROVE Typed'
  <2>1. /\ window' = [window EXCEPT ![d] = NoWindow]
        /\ UNCHANGED <<head, row, marker, verdict, told, sight, stamp, listed, report, hand, proc,
                       wedged, recent, cleared, found, events>>
    BY <1>7 DEF WindowCloses, rows, disk, past
  <2>2. window' \in [Dimension -> Window] /\ \A e \in Dimension : window'[e].busy => window'[e].sha \in Commit
    BY <1>1, <1>2, <2>1, WindowsStay
  <2> QED BY <1>2, <2>1, <2>2, AroundStep
<1>8. ASSUME NEW d \in Dimension, HandReports(d) PROVE Typed'
  <2>1. PICK blocks \in BOOLEAN : Files(d, hand[d], blocks)
    BY <1>8 DEF HandReports
  <2>2. /\ hand[d] # None /\ hand' = [hand EXCEPT ![d] = None]
        /\ UNCHANGED <<head, row, marker, verdict, told, sight, window, proc, wedged, events>>
    BY <1>8 DEF HandReports, rows
  <2>3. hand[d] \in Commit /\ hand' \in [Dimension -> Head]
    BY <1>2, <2>2 DEF Head
  <2> QED BY <1>1, <1>2, <2>1, <2>2, <2>3, FilesTyped, AroundStep, WindowsStay
<1> QED BY <1>3, <1>4, <1>5, <1>6, <1>7, <1>8

--------------------------------------------------------------------------------
(* What has been reviewed, and what stands.                                *)

Settledness == Reviewed /\ Standing

\* Most steps neither start a prep nor touch what it is about.
LEMMA Aside ==
  ASSUME Settledness, UNCHANGED <<head, stamp, report, recent, cleared, found>>,
         \A q \in Proc : proc'[q].at = "stamp" => proc'[q] = proc[q]
  PROVE  Settledness'
<1>1. Reviewed'
  BY DEF Settledness, Reviewed, Clean
<1>2. Standing'
  BY DEF Settledness, Standing
<1> QED BY <1>1, <1>2 DEF Settledness

LEMMA AsideStep ==
  ASSUME Typed, Settledness, UNCHANGED <<head, disk, past>>, NEW p \in Proc, NEW r,
         proc' = [proc EXCEPT ![p] = r], r.at # "stamp"
  PROVE  Settledness'
<1>1. \A q \in Proc : proc'[q].at = "stamp" => proc'[q] = proc[q]
  BY DEF Typed, TypeOK
<1>2. UNCHANGED <<head, stamp, report, recent, cleared, found>>
  BY DEF disk, past
<1> QED BY <1>1, <1>2, Aside

LEMMA PollAside == ASSUME Typed, Settledness, Poll PROVE Settledness'
<1> DEFINE c == proc[Daemon].sha
<1>1. Daemon \in Proc /\ UNCHANGED <<head, disk, past>>
  BY Types DEF Poll
<1>2. PICK fails \in BOOLEAN :
     LET dims    == RequiredDimensions(c, fails) \cup DispatchedDimensions
         missing == {d \in dims : ~ReportCurrent(d, c)}
         idle    == {d \in missing : ~ReviewerWindowAlive(d)}
         quits   == Dropped(c) # {} \/ Spent(idle)
         next    == CASE quits                           -> "block"
                      [] ~quits /\ missing = {}          -> "fold"
                      [] ~quits /\ missing # {} /\ EpisodeLate(c) -> "block"
                      [] ~quits /\ idle # {} /\ ~EpisodeLate(c)   -> "launch"
                      [] OTHER                           -> "rest"
     IN Becomes(Daemon, IF next = "rest" THEN AtRest
                        ELSE [proc[Daemon] EXCEPT !.at = next, !.dims = dims, !.some = idle])
  BY DEF Poll
<1> DEFINE dims    == RequiredDimensions(c, fails) \cup DispatchedDimensions
           missing == {d \in dims : ~ReportCurrent(d, c)}
           idle    == {d \in missing : ~ReviewerWindowAlive(d)}
           quits   == Dropped(c) # {} \/ Spent(idle)
           next    == CASE quits                           -> "block"
                        [] ~quits /\ missing = {}          -> "fold"
                        [] ~quits /\ missing # {} /\ EpisodeLate(c) -> "block"
                        [] ~quits /\ idle # {} /\ ~EpisodeLate(c)   -> "launch"
                        [] OTHER                           -> "rest"
           r == IF next = "rest" THEN AtRest
                ELSE [proc[Daemon] EXCEPT !.at = next, !.dims = dims, !.some = idle]
<1>3. proc' = [proc EXCEPT ![Daemon] = r]
  BY <1>2 DEF Becomes
<1>4. next # "stamp"
  <2> HIDE DEF idle, missing, dims
  <2>1. CASE quits
    BY <2>1
  <2>2. CASE ~quits /\ missing = {}
    BY <2>2
  <2>3. CASE ~quits /\ missing # {} /\ EpisodeLate(c)
    BY <2>3
  <2>4. CASE ~quits /\ missing # {} /\ ~EpisodeLate(c) /\ idle # {}
    BY <2>4
  <2>5. CASE ~quits /\ missing # {} /\ ~EpisodeLate(c) /\ idle = {}
    BY <2>5
  <2> QED BY <2>1, <2>2, <2>3, <2>4, <2>5
<1> HIDE DEF next, idle, dims
<1>5. r.at # "stamp"
  BY <1>1, <1>4, Working, RestIsLocal DEF Local
<1> HIDE DEF r
<1> QED BY <1>1, <1>3, <1>5, AsideStep

LEMMA FoldAside == ASSUME Typed, Settledness, Fold PROVE Settledness'
<1> DEFINE l == proc[Daemon]
           S == FoldDimensions(l.dims, l.sha)
           a == FoldFails(S, l.sha)
           b == FoldPasses(S, l.sha)
           r == CASE a  -> AtRest
                  [] ~a /\ b -> [l EXCEPT !.at = "record", !.dims = S, !.some = {}]
                  [] OTHER -> [l EXCEPT !.at = "block", !.dims = S]
<1>1. Daemon \in Proc /\ UNCHANGED <<head, disk, past>> /\ l \in Local
  BY Types, Working DEF Fold
<1>2. proc' = [proc EXCEPT ![Daemon] = r]
  BY DEF Fold, Becomes
<1> HIDE DEF a, b, S, l
<1>3. r.at # "stamp"
  <2>1. CASE a
    BY <2>1, RestIsLocal
  <2>2. CASE ~a /\ b
    BY <1>1, <2>2 DEF Local
  <2>3. CASE ~a /\ ~b
    BY <1>1, <2>3 DEF Local
  <2> QED BY <2>1, <2>2, <2>3
<1> HIDE DEF r
<1> QED BY <1>1, <1>2, <1>3, AsideStep

LEMMA TickAside ==
  ASSUME Typed, Settledness,
         \/ GateBegin \/ OpenEpisode \/ MarkEpisode \/ SpawnReviewers \/ ChargeAttempts
         \/ SurfaceGateBlocked \/ EndEpisode
  PROVE  Settledness'
<1>1. Daemon \in Proc /\ proc[Daemon] \in Local
  BY Types, Working
<1>2. CASE GateBegin
  <2>1. PICK x \in {"prep", "poll"} : proc' = [proc EXCEPT ![Daemon] = [AtRest EXCEPT !.at = x, !.sha = head]]
    BY <1>2 DEF GateBegin, Becomes
  <2>2. [AtRest EXCEPT !.at = x, !.sha = head].at # "stamp"
    BY RestIsLocal DEF Local
  <2>3. UNCHANGED <<head, disk, past>>
    BY <1>2 DEF GateBegin
  <2> QED BY <1>1, <2>1, <2>2, <2>3, AsideStep
<1>3. CASE OpenEpisode
  <2>1. proc' = [proc EXCEPT ![Daemon] = [proc[Daemon] EXCEPT !.at = "mark"]] /\ UNCHANGED <<head, disk, past>>
    BY <1>3 DEF OpenEpisode, Becomes
  <2>2. [proc[Daemon] EXCEPT !.at = "mark"].at # "stamp"
    BY <1>1 DEF Local
  <2> QED BY <1>1, <2>1, <2>2, AsideStep
<1>4. CASE MarkEpisode
  <2>1. proc' = [proc EXCEPT ![Daemon] = [proc[Daemon] EXCEPT !.at = "poll"]] /\ UNCHANGED <<head, disk, past>>
    BY <1>4 DEF MarkEpisode, Becomes
  <2>2. [proc[Daemon] EXCEPT !.at = "poll"].at # "stamp"
    BY <1>1 DEF Local
  <2> QED BY <1>1, <2>1, <2>2, AsideStep
<1>5. CASE SpawnReviewers
  <2>1. \/ proc' = [proc EXCEPT ![Daemon] = [proc[Daemon] EXCEPT !.at = "charge", !.some = {}]]
        \/ proc' = [proc EXCEPT ![Daemon] = [proc[Daemon] EXCEPT !.at = "charge"]]
    BY <1>5 DEF SpawnReviewers, Becomes
  <2>2. /\ [proc[Daemon] EXCEPT !.at = "charge", !.some = {}].at # "stamp"
        /\ [proc[Daemon] EXCEPT !.at = "charge"].at # "stamp"
    BY <1>1 DEF Local
  <2>3. UNCHANGED <<head, disk, past>>
    BY <1>5 DEF SpawnReviewers
  <2> QED BY <1>1, <2>1, <2>2, <2>3, AsideStep
<1>6. CASE ChargeAttempts \/ EndEpisode
  <2>1. proc' = [proc EXCEPT ![Daemon] = AtRest] /\ UNCHANGED <<head, disk, past>>
    BY <1>6 DEF ChargeAttempts, EndEpisode, Becomes
  <2> QED BY <1>1, <2>1, RestIsLocal, AsideStep
<1>7. CASE SurfaceGateBlocked
  <2>1. proc' = [proc EXCEPT ![Daemon] = [proc[Daemon] EXCEPT !.at = "close", !.pass = FALSE]]
        /\ UNCHANGED <<head, disk, past>>
    BY <1>7 DEF SurfaceGateBlocked, Becomes
  <2>2. [proc[Daemon] EXCEPT !.at = "close", !.pass = FALSE].at # "stamp"
    BY <1>1 DEF Local
  <2> QED BY <1>1, <2>1, <2>2, AsideStep
<1> QED BY <1>2, <1>3, <1>4, <1>5, <1>6, <1>7

LEMMA RecordAside ==
  ASSUME Typed, Settledness, NEW p \in Proc,
         \/ TrustRecord(p) \/ SaveVerdict(p) \/ RecordFails(p)
         \/ PrepRefused(p) \/ PrepByHand(p) \/ RecordByHand(p)
  PROVE  Settledness'
<1>1. proc[p] \in Local /\ UNCHANGED <<head, disk, past>>
  BY Working DEF TrustRecord, SaveVerdict, RecordFails, PrepRefused, PrepByHand, RecordByHand
<1>2. CASE TrustRecord(p)
  <2>1. PICK fails \in BOOLEAN :
          LET l == proc[p]  S == FoldDimensions(RequiredDimensions(l.sha, fails), l.sha) IN
          Becomes(p, IF l.sha # head \/ FoldFails(S, l.sha) THEN AtRest
                     ELSE [l EXCEPT !.at = "save", !.pass = FoldPasses(S, l.sha) /\ Dropped(l.sha) = {}])
    BY <1>2 DEF TrustRecord
  <2> DEFINE l == proc[p]
             S == FoldDimensions(RequiredDimensions(l.sha, fails), l.sha)
             b == FoldPasses(S, l.sha) /\ Dropped(l.sha) = {}
             r == IF l.sha # head \/ FoldFails(S, l.sha) THEN AtRest ELSE [l EXCEPT !.at = "save", !.pass = b]
  <2>2. proc' = [proc EXCEPT ![p] = r]
    BY <2>1 DEF Becomes
  <2> HIDE DEF b, S
  <2>3. r.at # "stamp"
    BY <1>1, RestIsLocal DEF Local
  <2> HIDE DEF r
  <2> QED BY <1>1, <2>2, <2>3, AsideStep
<1>3. CASE SaveVerdict(p)
  <2> DEFINE r == IF p = Daemon THEN [proc[p] EXCEPT !.at = "close", !.pass = TRUE] ELSE AtRest
  <2>1. proc' = [proc EXCEPT ![p] = r]
    BY <1>3 DEF SaveVerdict, Becomes
  <2>2. r.at # "stamp"
    BY <1>1, RestIsLocal DEF Local
  <2> HIDE DEF r
  <2> QED BY <1>1, <2>1, <2>2, AsideStep
<1>4. CASE PrepRefused(p)
  <2> DEFINE r == IF p = Daemon THEN [proc[p] EXCEPT !.at = "block"] ELSE AtRest
  <2>1. proc' = [proc EXCEPT ![p] = r]
    BY <1>4 DEF PrepRefused, Becomes
  <2>2. r.at # "stamp"
    BY <1>1, RestIsLocal DEF Local
  <2> HIDE DEF r
  <2> QED BY <1>1, <2>1, <2>2, AsideStep
<1>5. CASE PrepByHand(p)
  <2>1. proc' = [proc EXCEPT ![p] = [AtRest EXCEPT !.at = "prep"]]
    BY <1>5 DEF PrepByHand, Becomes
  <2>2. [AtRest EXCEPT !.at = "prep"].at # "stamp"
    BY RestIsLocal DEF Local
  <2> QED BY <1>1, <2>1, <2>2, AsideStep
<1>6. CASE RecordByHand(p)
  <2>1. proc' = [proc EXCEPT ![p] = [AtRest EXCEPT !.at = "record", !.sha = head]]
    BY <1>6 DEF RecordByHand, Becomes
  <2>2. [AtRest EXCEPT !.at = "record", !.sha = head].at # "stamp"
    BY RestIsLocal DEF Local
  <2> QED BY <1>1, <2>1, <2>2, AsideStep
<1>7. CASE RecordFails(p)
  <2>1. proc' = [proc EXCEPT ![p] = AtRest]
    BY <1>7 DEF RecordFails, Becomes
  <2> QED BY <1>1, <2>1, RestIsLocal, AsideStep
<1> QED BY <1>2, <1>3, <1>4, <1>5, <1>6, <1>7

\* A prep that looks at the reports sets out to carry every one that blocks.
LEMMA StagesKeep == ASSUME Typed, Settledness, NEW p \in Proc, PrepStages(p) PROVE Settledness'
<1> DEFINE carried == BlockingReportsPinnedTo(head)
           r == [proc[p] EXCEPT !.at = "stamp", !.staged = head, !.dims = listed', !.some = carried]
<1>1. PICK stays \in SUBSET Dimension :
        report' = [d \in Dimension |-> IF d \in carried \cup stays THEN report[d] ELSE NoReport]
  BY DEF PrepStages
<1>2. /\ recent' = [recent EXCEPT ![p] = {}] /\ proc' = [proc EXCEPT ![p] = r]
      /\ UNCHANGED <<head, stamp, cleared, found>>
  BY DEF PrepStages, Becomes
<1>3. /\ proc \in [Proc -> Local] /\ recent \in [Proc -> SUBSET (Dimension \X Commit)]
      /\ report \in [Dimension -> ReportType] /\ head \in Commit
  BY DEF Typed, TypeOK
<1>4. carried \subseteq Dimension /\ \A d \in carried : report[d].blocks
  BY DEF BlockingReportsPinnedTo
<1>5. r.at = "stamp" /\ r.some = carried
  BY <1>3 DEF Local
<1> HIDE DEF r
<1>6. proc'[p] = r /\ recent'[p] = {} /\ \A q \in Proc : q # p => proc'[q] = proc[q] /\ recent'[q] = recent[q]
  BY <1>2, <1>3
<1>7. NoReport.sha = None /\ ~NoReport.fresh
  BY Zenon DEF NoReport
<1>8. \A d \in Dimension : report'[d] = report[d] \/ (~Clean(report'[d]) /\ ~report'[d].fresh)
  BY <1>1, <1>7 DEF Clean
<1>9. \A d \in carried : report'[d] = report[d]
  BY <1>1, <1>4
<1>10. \A d \in Dimension, c \in Commit : <<d, c>> \in found => d \in carried
  BY DEF Settledness, Standing, BlockingReportsPinnedTo
<1> HIDE DEF carried
<1>11. Reviewed'
  <2>1. stamp'.green => stamp'.head \in Green
    BY <1>2 DEF Settledness, Reviewed
  <2>2. \A d \in Dimension : report'[d].fresh /\ Clean(report'[d]) => <<d, report'[d].sha>> \in cleared'
    BY <1>2, <1>8 DEF Settledness, Reviewed
  <2>3. \A d \in carried : ~Clean(report'[d])
    BY <1>4, <1>9 DEF Clean
  <2>4. \A q \in Proc : proc'[q].at = "stamp" =>
          \A d \in proc'[q].some : Clean(report'[d]) => <<d, report'[d].sha>> \in recent'[q]
    <3> SUFFICES ASSUME NEW q \in Proc, proc'[q].at = "stamp", NEW d \in proc'[q].some, Clean(report'[d])
                 PROVE  <<d, report'[d].sha>> \in recent'[q]
      OBVIOUS
    <3>1. q # p
      BY <1>5, <1>6, <2>3
    <3>2. proc'[q] = proc[q] /\ recent'[q] = recent[q] /\ d \in Dimension
      BY <1>3, <1>6, <3>1 DEF Local
    <3>3. report'[d] = report[d]
      BY <1>8, <3>2
    <3> QED BY <3>2, <3>3 DEF Settledness, Reviewed
  <2> QED BY <2>1, <2>2, <2>4 DEF Reviewed, Clean
<1>12. Standing'
  <2> SUFFICES ASSUME NEW d \in Dimension, NEW c \in Commit, <<d, c>> \in found'
               PROVE  /\ c = head' /\ report'[d].sha = c /\ report'[d].blocks /\ report'[d].fresh
                      /\ \A q \in Proc : proc'[q].at = "stamp" => d \in proc'[q].some
    BY DEF Standing
  <2>1. <<d, c>> \in found /\ d \in carried /\ report'[d] = report[d] /\ head' = head
    BY <1>2, <1>9, <1>10
  <2>2. c = head /\ report[d].sha = c /\ report[d].blocks /\ report[d].fresh
    BY <2>1 DEF Settledness, Standing
  <2>3. \A q \in Proc : proc'[q].at = "stamp" => d \in proc'[q].some
    BY <1>5, <1>6, <2>1 DEF Settledness, Standing
  <2> QED BY <2>1, <2>2, <2>3
<1> QED BY <1>11, <1>12 DEF Settledness

\* What is fresh after the stamp is what was carried past it.
LEMMA StampKeeps == ASSUME Typed, Settledness, NEW p \in Proc, WritePrepStamp(p) PROVE Settledness'
<1> DEFINE gone == \E d \in proc[p].some : report[d] = NoReport
           l == proc[p]
           r == CASE p = Daemon /\ gone  -> [l EXCEPT !.at = "block"]
                  [] p = Daemon /\ ~gone -> [AtRest EXCEPT !.at = "open", !.sha = l.sha]
                  [] p # Daemon          -> AtRest
<1>1. /\ proc[p].at = "stamp" /\ stamp' = IF gone THEN NoStamp ELSE Stamp(p)
      /\ report' = [d \in Dimension |-> [report[d] EXCEPT !.fresh = d \in proc[p].some]]
      /\ cleared' = recent[p] /\ recent' = [recent EXCEPT ![p] = {}]
      /\ proc' = [proc EXCEPT ![p] = r] /\ UNCHANGED <<head, found>>
  BY Zenon DEF WritePrepStamp, CarryReportsPastStamp, At, Becomes
<1>2. /\ proc \in [Proc -> Local] /\ recent \in [Proc -> SUBSET (Dimension \X Commit)]
      /\ report \in [Dimension -> ReportType] /\ head \in Commit
  BY DEF Typed, TypeOK
<1>3. stamp'.green => stamp'.head \in Green
  <2>1. ~NoStamp.green
    BY Zenon DEF NoStamp
  <2>2. Stamp(p).green => Stamp(p).head \in Green
    BY Zenon DEF Stamp
  <2> QED BY <1>1, <2>1, <2>2
<1> HIDE DEF gone
<1>4. r.at # "stamp"
  <2>1. CASE p = Daemon /\ gone
    BY <1>2, <2>1 DEF Local
  <2>2. CASE p = Daemon /\ ~gone
    <3>1. r = [AtRest EXCEPT !.at = "open", !.sha = l.sha]
      BY <2>2
    <3> QED BY <3>1, RestIsLocal DEF Local
  <2>3. CASE p # Daemon
    BY <2>3, RestIsLocal
  <2> QED BY <2>1, <2>2, <2>3
<1> HIDE DEF r
<1>5. \A q \in Proc : proc'[q].at = "stamp" => q # p /\ proc'[q] = proc[q] /\ recent'[q] = recent[q]
  BY <1>1, <1>2, <1>4
<1>6. \A d \in Dimension : report'[d].sha = report[d].sha /\ report'[d].blocks = report[d].blocks
                           /\ (report'[d].fresh <=> d \in proc[p].some)
  <2> SUFFICES ASSUME NEW d \in Dimension
               PROVE  report'[d].sha = report[d].sha /\ report'[d].blocks = report[d].blocks
                      /\ (report'[d].fresh <=> d \in proc[p].some)
    OBVIOUS
  <2> DEFINE b == d \in proc[p].some
  <2>1. report'[d] = [report[d] EXCEPT !.fresh = b] /\ report[d] \in ReportType
    BY <1>1, <1>2
  <2> HIDE DEF b
  <2>2. report'[d].sha = report[d].sha /\ report'[d].blocks = report[d].blocks /\ report'[d].fresh = b
    BY <2>1 DEF ReportType
  <2> QED BY <2>2 DEF b
<1>7. Reviewed'
  <2>1. \A d \in Dimension : report'[d].fresh /\ Clean(report'[d]) => <<d, report'[d].sha>> \in cleared'
    BY <1>1, <1>6 DEF Settledness, Reviewed, Clean
  <2>2. \A q \in Proc : proc'[q].at = "stamp" =>
          \A d \in proc'[q].some : Clean(report'[d]) => <<d, report'[d].sha>> \in recent'[q]
    <3> SUFFICES ASSUME NEW q \in Proc, proc'[q].at = "stamp", NEW d \in proc'[q].some, Clean(report'[d])
                 PROVE  <<d, report'[d].sha>> \in recent'[q]
      OBVIOUS
    <3>1. proc'[q] = proc[q] /\ recent'[q] = recent[q] /\ d \in Dimension
      BY <1>2, <1>5 DEF Local
    <3> QED BY <1>6, <3>1 DEF Settledness, Reviewed, Clean
  <2> QED BY <1>3, <2>1, <2>2 DEF Reviewed, Clean
<1>8. Standing'
  BY <1>1, <1>5, <1>6 DEF Settledness, Standing
<1> QED BY <1>7, <1>8 DEF Settledness

\* A restart loses what stood only in a prep that had written its stamp.
LEMMA KillKeeps == ASSUME Typed, Settledness, NEW p \in Proc, Kill(p) \/ KilledInStamp(p) PROVE Settledness'
<1>1. /\ proc \in [Proc -> Local] /\ recent \in [Proc -> SUBSET (Dimension \X Commit)]
      /\ report \in [Dimension -> ReportType]
  BY DEF Typed, TypeOK
<1>2. proc' = [proc EXCEPT ![p] = AtRest] /\ recent' = [recent EXCEPT ![p] = {}] /\ head' = head
  BY DEF Kill, KilledInStamp, Becomes
<1>3. \A q \in Proc : proc'[q].at = "stamp" => proc'[q] = proc[q] /\ recent'[q] = recent[q]
  BY <1>1, <1>2, RestIsLocal
<1>4. CASE Kill(p)
  <2>1. UNCHANGED <<stamp, report, cleared, found>>
    BY <1>4 DEF Kill, disk
  <2>2. Reviewed'
    BY <1>3, <2>1 DEF Settledness, Reviewed, Clean
  <2>3. Standing'
    BY <1>2, <1>3, <2>1 DEF Settledness, Standing
  <2> QED BY <2>2, <2>3 DEF Settledness
<1>5. CASE KilledInStamp(p)
  <2>1. /\ stamp' = Stamp(p) /\ found' = {}
        /\ report' = [d \in Dimension |-> [report[d] EXCEPT !.fresh = FALSE]]
    BY <1>5 DEF KilledInStamp
  <2>2. stamp'.green => stamp'.head \in Green
    BY <2>1, Zenon DEF Stamp
  <2>3. \A d \in Dimension : report'[d].sha = report[d].sha /\ report'[d].blocks = report[d].blocks /\ ~report'[d].fresh
    BY <1>1, <2>1 DEF ReportType
  <2>4. \A q \in Proc : proc'[q].at = "stamp" =>
          \A d \in proc'[q].some : Clean(report'[d]) => <<d, report'[d].sha>> \in recent'[q]
    <3> SUFFICES ASSUME NEW q \in Proc, proc'[q].at = "stamp", NEW d \in proc'[q].some, Clean(report'[d])
                 PROVE  <<d, report'[d].sha>> \in recent'[q]
      OBVIOUS
    <3>1. proc'[q] = proc[q] /\ recent'[q] = recent[q] /\ d \in Dimension
      BY <1>1, <1>3 DEF Local
    <3> QED BY <2>3, <3>1 DEF Settledness, Reviewed, Clean
  <2>5. Reviewed'
    BY <2>2, <2>3, <2>4 DEF Reviewed, Clean
  <2>6. Standing'
    BY <2>1 DEF Standing
  <2> QED BY <2>5, <2>6 DEF Settledness
<1> QED BY <1>4, <1>5

\* A report takes the place of whatever the dimension had said.
LEMMA FilesKeep ==
  ASSUME Typed, Settledness, UNCHANGED <<head, proc>>, NEW d \in Dimension, NEW c \in Commit,
         NEW blocks \in BOOLEAN, Files(d, c, blocks)
  PROVE  Settledness'
<1> DEFINE clean == IF blocks THEN {} ELSE {<<d, c>>}
           kept  == found \ {<<d, report[d].sha>>}
           n     == [sha |-> c, blocks |-> blocks, fresh |-> TRUE]
<1>1. /\ report' = [report EXCEPT ![d] = n]
      /\ cleared' = cleared \cup clean
      /\ recent' = [p \in Proc |-> IF proc[p].at = "stamp" THEN recent[p] \cup clean ELSE {}]
      /\ found' = IF blocks /\ c = head /\ ~PrepUnderWay THEN kept \cup {<<d, c>>} ELSE kept
      /\ UNCHANGED <<stamp, listed>>
  BY DEF Files
<1>2. /\ proc \in [Proc -> Local] /\ recent \in [Proc -> SUBSET (Dimension \X Commit)]
      /\ report \in [Dimension -> ReportType]
  BY DEF Typed, TypeOK
<1>3. n.sha = c /\ n.blocks = blocks /\ n.fresh
  BY Zenon
<1>4. ~blocks => <<d, c>> \in clean
  OBVIOUS
<1> HIDE DEF n, clean
<1>5. report'[d] = n /\ \A e \in Dimension : e # d => report'[e] = report[e]
  BY <1>1, <1>2
<1>6. Reviewed'
  <2>1. \A e \in Dimension : report'[e].fresh /\ Clean(report'[e]) => <<e, report'[e].sha>> \in cleared'
    BY <1>1, <1>3, <1>4, <1>5 DEF Settledness, Reviewed, Clean
  <2>2. \A q \in Proc : proc'[q].at = "stamp" =>
          \A e \in proc'[q].some : Clean(report'[e]) => <<e, report'[e].sha>> \in recent'[q]
    <3> SUFFICES ASSUME NEW q \in Proc, proc'[q].at = "stamp", NEW e \in proc'[q].some, Clean(report'[e])
                 PROVE  <<e, report'[e].sha>> \in recent'[q]
      OBVIOUS
    <3>1. proc'[q] = proc[q] /\ e \in Dimension /\ recent'[q] = recent[q] \cup clean
      BY <1>1, <1>2 DEF Local
    <3>2. CASE e = d
      BY <1>3, <1>4, <1>5, <3>1, <3>2 DEF Clean
    <3>3. CASE e # d
      BY <1>5, <3>1, <3>3 DEF Settledness, Reviewed
    <3> QED BY <3>2, <3>3
  <2>3. stamp'.green => stamp'.head \in Green
    BY <1>1 DEF Settledness, Reviewed
  <2> QED BY <2>1, <2>2, <2>3 DEF Reviewed, Clean
<1>7. Standing'
  <2> SUFFICES ASSUME NEW e \in Dimension, NEW x \in Commit, <<e, x>> \in found'
               PROVE  /\ x = head' /\ report'[e].sha = x /\ report'[e].blocks /\ report'[e].fresh
                      /\ \A q \in Proc : proc'[q].at = "stamp" => e \in proc'[q].some
    BY DEF Standing
  <2>1. CASE <<e, x>> \in kept
    <3>1. <<e, x>> \in found /\ <<e, x>> # <<d, report[d].sha>>
      BY <2>1
    <3>2. x = head /\ report[e].sha = x /\ report[e].blocks /\ report[e].fresh
          /\ \A q \in Proc : proc[q].at = "stamp" => e \in proc[q].some
      BY <3>1 DEF Settledness, Standing
    <3>3. e # d
      BY <3>1, <3>2
    <3> QED BY <1>5, <3>2, <3>3
  <2>2. CASE <<e, x>> \notin kept
    <3>1. blocks /\ c = head /\ ~PrepUnderWay /\ <<e, x>> = <<d, c>>
      BY <1>1, <2>2
    <3>2. e = d /\ x = c
      BY <3>1
    <3> QED BY <1>3, <1>5, <3>1, <3>2 DEF PrepUnderWay
  <2> QED BY <2>1, <2>2
<1> QED BY <1>6, <1>7 DEF Settledness

LEMMA AroundKeeps ==
  ASSUME Typed, Settledness,
         \/ Clock \/ Wedge \/ \E c \in Commit : WorkerMoves(c)
         \/ \E d \in Dimension : Reports(d) \/ WindowCloses(d) \/ HandReports(d)
  PROVE  Settledness'
<1>1. CASE Clock \/ Wedge \/ \E d \in Dimension : WindowCloses(d)
  <2>1. UNCHANGED <<head, stamp, report, recent, cleared, found, proc>>
    BY <1>1 DEF Clock, Wedge, WindowCloses, disk, past
  <2> QED BY <2>1, Aside
<1>2. ASSUME NEW c \in Commit, WorkerMoves(c) PROVE Settledness'
  <2>1. found' = {} /\ UNCHANGED <<stamp, report, recent, cleared, proc>>
    BY <1>2 DEF WorkerMoves, disk
  <2>2. Reviewed'
    BY <2>1 DEF Settledness, Reviewed, Clean
  <2>3. Standing'
    BY <2>1 DEF Standing
  <2> QED BY <2>2, <2>3 DEF Settledness
<1>3. ASSUME NEW d \in Dimension, Reports(d) PROVE Settledness'
  <2>1. window[d].sha \in Commit
    BY <1>3, WindowsStay DEF Reports
  <2>2. UNCHANGED <<head, proc>> /\ \E blocks \in BOOLEAN : Files(d, window[d].sha, blocks)
    BY <1>3 DEF Reports
  <2> QED BY <2>1, <2>2, FilesKeep
<1>4. ASSUME NEW d \in Dimension, HandReports(d) PROVE Settledness'
  <2>1. hand[d] \in Commit
    BY <1>4 DEF HandReports, Typed, TypeOK, Head
  <2>2. UNCHANGED <<head, proc>> /\ \E blocks \in BOOLEAN : Files(d, hand[d], blocks)
    BY <1>4 DEF HandReports
  <2> QED BY <2>1, <2>2, FilesKeep
<1> QED BY <1>1, <1>2, <1>3, <1>4

LEMMA SettledInit == Init => Settledness
<1> SUFFICES ASSUME Init PROVE Settledness
  OBVIOUS
<1>1. proc = [p \in Proc |-> AtRest] /\ head \in Commit /\ (Untouched \/ Prepared)
  BY Zenon DEF Init
<1>2. \A p \in Proc : proc[p].at # "stamp"
  BY <1>1, RestIsLocal
<1>3. NoReport.sha = None /\ ~NoReport.fresh /\ ~NoStamp.green
  BY Zenon DEF NoReport, NoStamp
<1>4. CASE Untouched
  <2>1. stamp = NoStamp /\ report = [d \in Dimension |-> NoReport] /\ found = {}
    BY <1>4 DEF Untouched
  <2>2. Reviewed
    BY <1>2, <1>3, <2>1 DEF Reviewed
  <2>3. Standing
    BY <2>1 DEF Standing
  <2> QED BY <2>2, <2>3 DEF Settledness
<1>5. CASE Prepared
  <2>1. PICK d \in Dimension :
          /\ stamp = [head |-> head, green |-> head \in Green, dims |-> {d}]
          /\ report = [e \in Dimension |->
                         IF e = d THEN [sha |-> head, blocks |-> TRUE, fresh |-> TRUE] ELSE NoReport]
          /\ found = {<<d, head>>}
    BY <1>5 DEF Prepared
  <2> DEFINE n == [sha |-> head, blocks |-> TRUE, fresh |-> TRUE]
  <2>2. n.sha = head /\ n.blocks /\ n.fresh
    BY Zenon
  <2>3. stamp.green => stamp.head \in Green
    BY <2>1, Zenon
  <2> HIDE DEF n
  <2>4. report = [e \in Dimension |-> IF e = d THEN n ELSE NoReport]
    BY <2>1 DEF n
  <2>5. Reviewed
    BY <1>2, <1>3, <2>2, <2>3, <2>4 DEF Reviewed, Clean
  <2>6. Standing
    <3> SUFFICES ASSUME NEW e \in Dimension, NEW c \in Commit, <<e, c>> \in found
                 PROVE  /\ c = head /\ report[e].sha = c /\ report[e].blocks /\ report[e].fresh
                        /\ \A p \in Proc : proc[p].at = "stamp" => e \in proc[p].some
      BY DEF Standing
    <3>1. e = d /\ c = head
      BY <2>1
    <3> QED BY <1>2, <2>2, <2>4, <3>1
  <2> QED BY <2>5, <2>6 DEF Settledness
<1> QED BY <1>1, <1>4, <1>5

--------------------------------------------------------------------------------
(* The invariant, and the verdict.                                         *)

LEMMA InitHolds == Init => IInv
  BY TypedInit, SettledInit DEF IInv, Settledness

LEMMA StepHolds == IInv /\ [Next]_vars => IInv'
<1> SUFFICES ASSUME IInv, [Next]_vars PROVE Typed' /\ Settledness'
  BY DEF IInv, Settledness
<1>1. Typed /\ Settledness /\ Daemon \in Proc
  BY Types DEF IInv, Settledness
<1>2. CASE UNCHANGED vars
  <2>1. UNCHANGED <<head, row, marker, verdict, told, sight, stamp, listed, report, window, hand, proc,
                    wedged, recent, cleared, found, events>>
    BY <1>2 DEF vars, rows, disk, past
  <2>2. Typed'
    BY <1>1, <2>1 DEF Typed, TypeOK, AtWork, Budget
  <2>3. Settledness'
    BY <1>1, <2>1, Aside
  <2> QED BY <2>2, <2>3
<1>3. CASE GateOnce
  <2>1. CASE \/ GateBegin \/ OpenEpisode \/ MarkEpisode \/ SpawnReviewers \/ ChargeAttempts
             \/ SurfaceGateBlocked \/ EndEpisode
    BY <1>1, <2>1, TickAside, BeginTyped, OpenTyped, MarkTyped, SpawnTyped, ChargeTyped, SurfaceTyped, EndTyped
  <2>2. CASE Poll \/ Fold
    BY <1>1, <2>2, PollAside, FoldAside, PollTyped, FoldTyped
  <2>3. CASE TrustPrep(Daemon)
    BY <1>1, <2>3, PrepTyped, StampStepTyped, StagesKeep, StampKeeps DEF TrustPrep
  <2>4. CASE TrustRecord(Daemon) \/ SaveVerdict(Daemon)
    BY <1>1, <2>4, RecordTyped, SaveTyped, RecordAside
  <2> QED BY <1>3, <2>1, <2>2, <2>3, <2>4 DEF GateOnce
<1>4. ASSUME NEW p \in Manager, ByHand(p) PROVE Typed' /\ Settledness'
  <2>1. p \in Proc
    BY Types
  <2>2. CASE PrepByHand(p) \/ RecordByHand(p)
    BY <1>1, <2>1, <2>2, ByHandTyped, RecordAside
  <2>3. CASE TrustPrep(p)
    BY <1>1, <2>1, <2>3, PrepTyped, StampStepTyped, StagesKeep, StampKeeps DEF TrustPrep
  <2>4. CASE TrustRecord(p) \/ SaveVerdict(p)
    BY <1>1, <2>1, <2>4, RecordTyped, SaveTyped, RecordAside
  <2> QED BY <1>4, <2>2, <2>3, <2>4 DEF ByHand
<1>5. ASSUME NEW p \in Proc, PrepRefused(p) \/ RecordFails(p) \/ Kill(p) \/ KilledInStamp(p)
      PROVE  Typed' /\ Settledness'
  <2>1. CASE PrepRefused(p) \/ RecordFails(p)
    BY <1>1, <2>1, PrepTyped, RecordFailsTyped, RecordAside
  <2>2. CASE Kill(p) \/ KilledInStamp(p)
    BY <1>1, <2>2, KillTyped, KillKeeps
  <2> QED BY <1>5, <2>1, <2>2
<1>6. CASE \/ Clock \/ Wedge \/ \E c \in Commit : WorkerMoves(c)
           \/ \E d \in Dimension : Reports(d) \/ WindowCloses(d) \/ HandReports(d)
  BY <1>1, <1>6, AroundTyped, AroundKeeps
<1> QED BY <1>2, <1>3, <1>4, <1>5, <1>6 DEF Next

LEMMA Always == Spec => []IInv
  BY InitHolds, StepHolds, PTL DEF Spec

\* Types, and the budget of launches: no reviewer is ever charged more than its
\* attempts, whatever is restarted or re-opened (gate.go, gateOnceAt).
THEOREM TypeCorrect == Spec => []TypeOK
<1>1. IInv => TypeOK
  BY DEF IInv, Typed
<1> QED BY <1>1, Always, PTL

\* A step that decides on a passing verdict is trust record, folding.
LEMMA PassFolds ==
  ASSUME IInv, [Next]_vars, NEW p \in Proc, NEW c \in Commit, Passes(p, c)
  PROVE  /\ Covers(c) /\ stamp.green
         /\ \A d \in Floor[c] : ReportCurrent(d, c) /\ ~report[d].blocks
         /\ \A d \in Dimension : ReportCurrent(d, c) => ~report[d].blocks
<1>1. /\ Typed /\ proc \in [Proc -> Local] /\ Daemon \in Proc
      /\ proc[p].at = "record" /\ proc'[p].at = "save" /\ proc'[p].pass /\ proc[p].sha = c
  BY Types DEF IInv, Typed, TypeOK, Passes, At
<1>2. TrustRecord(p)
  <2> SUFFICES ASSUME ~TrustRecord(p) PROVE FALSE
    OBVIOUS
  <2>1. proc'[p] # proc[p]
    BY <1>1
  <2>2. Manager \subseteq Proc /\ AtRest.at = "rest"
    BY Types, RestIsLocal
  <2>3. ASSUME NEW q \in Proc, NEW r, proc' = [proc EXCEPT ![q] = r], q # p \/ r.at # "save" PROVE FALSE
    BY <1>1, <2>1, <2>3
  <2>4. ASSUME NEW q \in Proc, RecordFails(q) \/ Kill(q) \/ KilledInStamp(q) PROVE FALSE
    BY <2>2, <2>3, <2>4 DEF RecordFails, Kill, KilledInStamp, Becomes
  <2>5. ASSUME NEW q \in Proc, ~At(q, "record"),
               \/ \E r : proc' = [proc EXCEPT ![q] = r]
        PROVE  FALSE
    BY <1>1, <2>1, <2>5 DEF At
  <2>6. ASSUME NEW q \in Proc, PrepRefused(q) \/ PrepStages(q) \/ WritePrepStamp(q) \/ SaveVerdict(q) PROVE FALSE
    <3>1. ~At(q, "record")
      BY <2>6 DEF PrepRefused, PrepStages, WritePrepStamp, SaveVerdict, At
    <3>2. \E r : proc' = [proc EXCEPT ![q] = r]
      BY <2>6 DEF PrepRefused, PrepStages, WritePrepStamp, SaveVerdict, Becomes
    <3> QED BY <2>5, <3>1, <3>2
  <2>7. ASSUME NEW q \in Proc, PrepByHand(q) \/ RecordByHand(q) PROVE FALSE
    <3>1. ~At(q, "record")
      BY <2>7 DEF PrepByHand, RecordByHand, At
    <3>2. \E r : proc' = [proc EXCEPT ![q] = r]
      BY <2>7 DEF PrepByHand, RecordByHand, Becomes
    <3> QED BY <2>5, <3>1, <3>2
  <2>8. ASSUME \/ GateBegin \/ OpenEpisode \/ MarkEpisode \/ Poll \/ SpawnReviewers \/ ChargeAttempts
               \/ Fold \/ SurfaceGateBlocked \/ EndEpisode
        PROVE  FALSE
    <3>1. ~At(Daemon, "record")
      BY <2>8 DEF GateBegin, OpenEpisode, MarkEpisode, Poll, SpawnReviewers, ChargeAttempts, Fold,
                  SurfaceGateBlocked, EndEpisode, At
    <3>2. \E r : proc' = [proc EXCEPT ![Daemon] = r]
      <4>1. CASE GateBegin \/ OpenEpisode \/ MarkEpisode
        BY <4>1 DEF GateBegin, OpenEpisode, MarkEpisode, Becomes
      <4>2. CASE Poll
        BY <4>2 DEF Poll, Becomes
      <4>3. CASE SpawnReviewers \/ ChargeAttempts
        BY <4>3 DEF SpawnReviewers, ChargeAttempts, Becomes
      <4>4. CASE Fold \/ SurfaceGateBlocked \/ EndEpisode
        BY <4>4 DEF Fold, SurfaceGateBlocked, EndEpisode, Becomes
      <4> QED BY <2>8, <4>1, <4>2, <4>3, <4>4
    <3> QED BY <1>1, <2>5, <3>1, <3>2
  <2>9. ASSUME NEW q \in Proc, q # p, TrustRecord(q) PROVE FALSE
    <3>1. PICK r : proc' = [proc EXCEPT ![q] = r]
      BY <2>9 DEF TrustRecord, Becomes
    <3> QED BY <2>3, <2>9, <3>1
  <2>10. ASSUME \/ Clock \/ Wedge \/ \E x \in Commit : WorkerMoves(x)
                \/ \E d \in Dimension : Reports(d) \/ WindowCloses(d) \/ HandReports(d)
                \/ UNCHANGED vars
         PROVE  FALSE
    <3>1. proc' = proc
      BY <2>10 DEF Clock, Wedge, WorkerMoves, Reports, WindowCloses, HandReports, vars
    <3> QED BY <2>1, <3>1
  <2>11. CASE GateOnce
    BY <1>1, <2>6, <2>8, <2>9, <2>11 DEF GateOnce, TrustPrep
  <2>12. ASSUME NEW q \in Manager, ByHand(q) PROVE FALSE
    BY <2>2, <2>6, <2>7, <2>9, <2>12 DEF ByHand, TrustPrep
  <2> QED BY <2>4, <2>6, <2>10, <2>11, <2>12 DEF Next
<1> DEFINE l == proc[p]
<1>3. PICK fails \in BOOLEAN :
     LET S == FoldDimensions(RequiredDimensions(l.sha, fails), l.sha) IN
     Becomes(p, IF l.sha # head \/ FoldFails(S, l.sha) THEN AtRest
                ELSE [l EXCEPT !.at = "save", !.pass = FoldPasses(S, l.sha) /\ Dropped(l.sha) = {}])
  BY <1>2 DEF TrustRecord
<1> DEFINE S == FoldDimensions(RequiredDimensions(c, fails), c)
           b == FoldPasses(S, c) /\ Dropped(c) = {}
           r == IF c # head \/ FoldFails(S, c) THEN AtRest ELSE [l EXCEPT !.at = "save", !.pass = b]
<1>4. proc' = [proc EXCEPT ![p] = r]
  BY <1>1, <1>3 DEF Becomes
<1>5. b
  <2> HIDE DEF b, S
  <2>1. proc'[p] = r
    BY <1>1, <1>4
  <2>2. r = [l EXCEPT !.at = "save", !.pass = b]
    BY <1>1, <2>1, RestIsLocal
  <2>3. r.pass = b
    BY <1>1, <2>2 DEF Local
  <2> QED BY <1>1, <2>1, <2>3
<1>6. FoldPasses(S, c)
  BY <1>5
<1>7. Floor[c] \subseteq S /\ \A d \in Dimension : ReportCurrent(d, c) => d \in S
  BY <1>1, FloorTyped DEF FoldDimensions, Typed
<1> HIDE DEF S, b
<1> QED BY <1>6, <1>7 DEF FoldPasses

\* A verdict passes only over a commit whose suite was green at its prep and which
\* every reviewer its diff calls for has cleared since that prep: no review of an
\* earlier episode, of another commit or of a reduced set stands in for one
\* (gate.go, TrustPrep: "stale clean reviews must never form a pass").
THEOREM PassesReviewed == Spec => PassIsReviewed
<1>1. ASSUME IInv, [Next]_vars, NEW p \in Proc, NEW c \in Commit, Passes(p, c)
      PROVE  c \in Green /\ \A d \in Floor[c] : <<d, c>> \in cleared
  <2>1. /\ Covers(c) /\ stamp.green
        /\ \A d \in Floor[c] : ReportCurrent(d, c) /\ ~report[d].blocks
    BY <1>1, PassFolds
  <2>2. c \in Green
    BY <1>1, <2>1 DEF IInv, Reviewed, Covers
  <2>3. \A d \in Floor[c] : d \in Dimension /\ report[d].fresh /\ report[d].sha = c /\ Clean(report[d])
    BY <2>1, GateAssumption DEF ReportCurrent, Covers, Clean
  <2>4. \A d \in Floor[c] : <<d, c>> \in cleared
    BY <1>1, <2>3 DEF IInv, Reviewed
  <2> QED BY <2>2, <2>4
<1>2. IInv /\ [Next]_vars =>
        [\A p \in Proc, c \in Commit : Passes(p, c) => c \in Green /\ \A d \in Floor[c] : <<d, c>> \in cleared]_vars
  BY <1>1
<1> QED BY <1>2, Always, PTL DEF Spec, PassIsReviewed

\* A verdict never passes over a blocking finding that a reviewer has filed on the
\* head since the worker moved there and not taken back, whatever was re-prepped,
\* restarted, re-dispatched or recomputed in between (gate.go, foldDimensions: "a
\* blocking finding already on disk is never discarded").
THEOREM FindingsStand == Spec => NoFindingLost
<1>1. ASSUME IInv, [Next]_vars, NEW p \in Proc, NEW c \in Commit, Passes(p, c), NEW d \in Dimension
      PROVE  <<d, c>> \notin found
  <2>1. Covers(c) /\ (ReportCurrent(d, c) => ~report[d].blocks)
    BY <1>1, PassFolds
  <2> QED BY <1>1, <2>1 DEF IInv, Standing, ReportCurrent
<1>2. IInv /\ [Next]_vars =>
        [\A p \in Proc, c \in Commit : Passes(p, c) => \A d \in Dimension : <<d, c>> \notin found]_vars
  BY <1>1
<1> QED BY <1>2, Always, PTL DEF Spec, NoFindingLost


================================================================================
