---------------------------- MODULE ManagedFiles ----------------------------
(***************************************************************************)
(* What `ttorch install', `update' and `uninstall' do to the files they    *)
(* manage: skills, commands, hooks and agents in the lead's directories,   *)
(* which the lead edits too.                                               *)
(*                                                                         *)
(* The manifest is the ledger of what was last shipped to each file.  A    *)
(* run loads it, reads file after file and decides by what it read, the    *)
(* ledger and the release; only after the last file is the ledger written. *)
(* Each write is a rename, but between reading a file and writing it       *)
(* nothing is locked: the lead may edit it, a run may be killed or fail,   *)
(* and another run may be under way.                                       *)
(*                                                                         *)
(* The content of a file is its text and, in an agent's file, the setting  *)
(* that belongs to the lead (one stands for the two, model and effort).    *)
(* Left out: the copies parked beside a file that is not written           *)
(* (`.ttorch-new'), which no run reads, and the order of the files.        *)
(***************************************************************************)
EXTENDS Naturals, FiniteSets

CONSTANTS
  File,       \* the managed paths
  Agent,      \* those with settings
  Release,    \* the releases
  Ships,      \* per release, the files it ships and the content of each
  Text,       \* texts, shipped ones and the lead's
  Setting,    \* values of the setting
  Unset,      \* that of a file without settings
  Odd,        \* those that cannot be carried: set twice, or no valid value
  Absent,     \* no file
  Installer,  \* the runs that may overlap
  MaxActs     \* bound on what the lead does, runs begun and runs broken

Content     == [text : Text, setting : Setting]
ContentOf(f) == {b \in Content : f \notin Agent => b.setting = Unset}

VARIABLES
  disk,     \* the content of each file
  ledger,   \* what was last shipped to it, Absent where the ledger has no entry
  aware,    \* the files whose shipped setting the ledger has too
  run,      \* where each run is, and what it carries
  mine,     \* whether the lead has changed a file: "no", its "setting" only, "yes"
  adrift,   \* the files a run that broke off, failed on one or met another left apart
            \* from the ledger
  acts      \* the acts so far

vars == <<disk, ledger, aware, run, mine, adrift, acts>>

Nothing == [f \in File |-> Absent]
Shipped(f) == {Ships[r][f] : r \in {q \in Release : f \in DOMAIN Ships[q]}}

\* ships: what the release at hand ships; prev, knew: the ledger it loaded; todo:
\* the files still to go through; file, cur: the one it has read.
Rest == [at |-> "rest", ships |-> << >>, prev |-> Nothing, knew |-> {}, todo |-> {},
         file |-> {}, cur |-> Absent]

At(p, steps) == run[p].at \in steps
Others(p)    == \E q \in Installer \ {p} : ~At(q, {"rest"})

\* Nothing of ttorch's is there, and some files of the lead's; or a release was
\* installed by a ttorch whose ledger had no settings.
Init ==
  /\ \/ /\ ledger = Nothing
        /\ disk \in [File -> Content \cup {Absent}]
        /\ \A f \in File : disk[f] \in ContentOf(f) \cup {Absent}
        /\ mine = [f \in File |-> IF disk[f] = Absent THEN "no" ELSE "yes"]
     \/ /\ \E r \in Release : ledger = [f \in File |-> IF f \in DOMAIN Ships[r] THEN Ships[r][f] ELSE Absent]
        /\ disk = ledger
        /\ mine = [f \in File |-> "no"]
  /\ aware = {}
  /\ run = [p \in Installer |-> Rest]
  /\ adrift = {} /\ acts = 0

\* The ledger has what is in a file, but for what the lead has changed.
Current(f) ==
  \/ mine[f] = "yes"
  \/ mine[f] = "no" /\ disk[f] = ledger[f]
  \/ /\ mine[f] = "setting" /\ f \in aware
     /\ disk[f] # Absent /\ ledger[f] # Absent /\ disk[f].text = ledger[f].text

-----------------------------------------------------------------------------
(* What becomes of a file that was read                                    *)

\* settingsOnly: what was read differs from what was last shipped only in the
\* setting.  A ledger without settings shows it only where the release at hand
\* ships the setting that was last shipped.
SettingsOnly(p, f, new) ==
  LET cur == run[p].cur  last == run[p].prev[f]
  IN  /\ f \in Agent
      /\ IF f \in run[p].knew THEN cur.text = last.text
         ELSE last = [text |-> cur.text, setting |-> new.setting]

\* Values: a setting set twice, or to no valid value, is not carried.
Carriable(b) == b.setting \notin Odd

\* carrySettings: a setting the lead changed stays, another takes the new value.
Carried(p, f, new) ==
  LET cur == run[p].cur
  IN  [new EXCEPT !.setting = IF f \in run[p].knew /\ cur.setting = run[p].prev[f].setting
                              THEN @ ELSE cur.setting]

\* What was read is ttorch's to replace: nothing, the new version, or what was
\* last shipped.
Ours(p, f, new) ==
  \/ run[p].cur \in {Absent, new}
  \/ run[p].prev[f] # Absent /\ run[p].cur = run[p].prev[f]

\* ReconcileSettings' decision: what the file holds afterwards; what it holds
\* now stays where the new version is parked beside it.
Reconciled(p, f, new) ==
  LET carries == /\ run[p].prev[f] # Absent
                 /\ SettingsOnly(p, f, new) /\ Carriable(run[p].cur)
  IN  IF Ours(p, f, new) THEN new
      ELSE IF carries THEN Carried(p, f, new) ELSE run[p].cur

-----------------------------------------------------------------------------
(* A run                                                                   *)

Begins(p, ships, todo, at) ==
  /\ At(p, {"rest"}) /\ acts < MaxActs
  /\ run' = [run EXCEPT ![p] = [Rest EXCEPT !.at = at, !.ships = ships, !.prev = ledger,
                                            !.knew = aware, !.todo = todo]]
  /\ acts' = acts + 1
  /\ adrift' = IF Others(p) THEN File ELSE adrift
  /\ UNCHANGED <<disk, ledger, aware, mine>>

\* Install: also `ttorch update', of any release; the ledger is loaded first.
Install(p) == \E r \in Release : Begins(p, Ships[r], DOMAIN Ships[r], "read")

\* Uninstall: the files of the ledger.
Uninstall(p) == Begins(p, << >>, {f \in File : ledger[f] # Absent}, "old")

\* Reads: the next file, of those the release ships or of those it does not.
Reads(p) ==
  /\ At(p, {"read", "old"})
  /\ \E f \in run[p].todo :
       run' = [run EXCEPT ![p].at = IF @ = "read" THEN "write" ELSE "remove",
                          ![p].todo = @ \ {f}, ![p].file = {f}, ![p].cur = disk[f]]
  /\ UNCHANGED <<disk, ledger, aware, mine, adrift, acts>>

Back(p, at) == run' = [run EXCEPT ![p].at = at, ![p].file = {}, ![p].cur = Absent]

\* Writes: by the decision; where that is to leave the file, nothing is written.
Writes(p) ==
  /\ At(p, {"write"})
  /\ \E f \in run[p].file :
       LET new == run[p].ships[f]  to == Reconciled(p, f, new)
       IN  IF to = run[p].cur THEN UNCHANGED <<disk, mine>>
           ELSE /\ disk' = [disk EXCEPT ![f] = to]
                /\ mine' = [mine EXCEPT ![f] = IF to = new THEN "no" ELSE "setting"]
  /\ Back(p, "read")
  /\ UNCHANGED <<ledger, aware, adrift, acts>>

\* Mutant: what the release no longer ships stays.
RetiresNothing(p) ==
  /\ At(p, {"read"}) /\ run[p].todo = {}
  /\ run' = [run EXCEPT ![p].at = "old"]
  /\ UNCHANGED <<disk, ledger, aware, mine, adrift, acts>>

\* Retires: once all it ships is there, what the ledger has beyond that is gone
\* through as an uninstall goes through all of it.
Retires(p) ==
  /\ At(p, {"read"}) /\ run[p].todo = {}
  /\ run' = [run EXCEPT ![p].at = "old",
                        ![p].todo = {f \in File \ DOMAIN run[p].ships : run[p].prev[f] # Absent}]
  /\ UNCHANGED <<disk, ledger, aware, mine, adrift, acts>>

\* Removes: what was read is what was last shipped; anything else stays, with the
\* lead's setting as the lead's own.  A removal that fails is reported and the file stays.
Removes(p) ==
  /\ At(p, {"remove"})
  /\ \E f \in run[p].file :
       LET own == run[p].cur # Absent /\ run[p].cur = run[p].prev[f]
       IN  \/ /\ own
              /\ disk' = [disk EXCEPT ![f] = Absent]
              /\ mine' = [mine EXCEPT ![f] = "no"]
              /\ UNCHANGED <<adrift, acts>>
           \/ /\ ~own
              /\ mine' = [mine EXCEPT ![f] = IF @ = "no" \/ run[p].cur = Absent THEN @ ELSE "yes"]
              /\ UNCHANGED <<disk, adrift, acts>>
           \/ /\ own /\ acts < MaxActs
              /\ adrift' = adrift \cup {f} /\ acts' = acts + 1
              /\ UNCHANGED <<disk, mine>>
  /\ Back(p, "old")
  /\ UNCHANGED <<ledger, aware>>

\* Saves: the next manifest replaces the ledger; after an uninstall it is removed.
Saves(p) ==
  /\ At(p, {"old"}) /\ run[p].todo = {}
  /\ ledger' = [f \in File |-> IF f \in DOMAIN run[p].ships THEN run[p].ships[f] ELSE Absent]
  /\ aware' = Agent \cap DOMAIN run[p].ships
  /\ run' = [run EXCEPT ![p] = Rest]
  /\ UNCHANGED <<disk, mine, acts>>
  /\ adrift' = IF Others(p) THEN adrift ELSE {f \in adrift : ~Current(f)'}

\* Breaks: killed, or a file that cannot be read or written ends the run.
Breaks(p) ==
  /\ ~At(p, {"rest"}) /\ acts < MaxActs
  /\ run' = [run EXCEPT ![p] = Rest]
  /\ adrift' = adrift \cup {f \in File : ~Current(f)}
  /\ acts' = acts + 1
  /\ UNCHANGED <<disk, ledger, aware, mine>>

\* Edits: the lead writes, changes or deletes a file.
Edits ==
  /\ acts < MaxActs /\ acts' = acts + 1
  /\ \E f \in File : \E b \in ContentOf(f) \cup {Absent} :
       /\ b # disk[f]
       /\ disk' = [disk EXCEPT ![f] = b]
       /\ LET slight == /\ f \in aware /\ mine[f] # "yes"
                        /\ b # Absent /\ disk[f] # Absent
                        /\ b.text = disk[f].text /\ Carriable(b)
          IN  mine' = [mine EXCEPT ![f] = IF slight THEN "setting" ELSE "yes"]
  /\ UNCHANGED <<ledger, aware, run, adrift>>

Next ==
  \/ \E p \in Installer :
       \/ Install(p) \/ Uninstall(p) \/ Reads(p) \/ Writes(p) \/ Retires(p) \/ Removes(p)
       \/ Saves(p) \/ Breaks(p)
  \/ Edits

Spec == Init /\ [][Next]_vars

-----------------------------------------------------------------------------
RunType ==
  [at : {"rest", "read", "write", "old", "remove"},
   ships : UNION {[D -> Content] : D \in SUBSET File},
   prev : [File -> Content \cup {Absent}], knew : SUBSET File,
   todo : SUBSET File, file : SUBSET File, cur : Content \cup {Absent}]

TypeOK ==
  /\ disk \in [File -> Content \cup {Absent}]
  /\ ledger \in [File -> Content \cup {Absent}]
  /\ aware \subseteq Agent
  /\ \A p \in Installer : run[p].at \in {"rest", "read", "write", "old", "remove"}
  /\ mine \in [File -> {"no", "setting", "yes"}]
  /\ adrift \subseteq File /\ acts \in 0..MaxActs

\* Of what a run has read nothing is lost that was not shipped: what it replaces
\* or removes is a shipped content, or has a shipped text and keeps its setting
\* unless that setting was shipped too.  (What was written since the run read the
\* file is not covered, and is lost.)
LosesNothing ==
  \A p \in Installer, f \in File :
    (f \in run[p].file /\ run'[p].file = {} /\ disk[f] = run[p].cur /\ disk'[f] # disk[f])
    => \/ disk[f] \in Shipped(f) \cup {Absent}
       \/ /\ disk'[f] # Absent
          /\ \E b \in Shipped(f) : b.text = disk[f].text
          /\ disk'[f].setting = disk[f].setting \/ \E b \in Shipped(f) : b.setting = disk[f].setting

NothingClobbered == [][LosesNothing]_vars

\* A file the lead has not touched is what some release shipped, and one in which the
\* lead only changed the setting has a shipped text, whatever is killed, fails or overlaps.
\* And between runs the ledger has what is in each such file: no upgrade is held back for
\* an edit nobody made, and no untouched file outlives its release or an uninstall; but for
\* files a broken-off run or two at once left apart from the ledger, until a run by itself
\* ends with them as it shipped them.
UntouchedIsCurrent ==
  /\ \A f \in File :
       /\ mine[f] = "no" => disk[f] \in Shipped(f) \cup {Absent}
       /\ mine[f] = "setting" => disk[f] # Absent /\ \E b \in Shipped(f) : b.text = disk[f].text
  /\ (\A p \in Installer : At(p, {"rest"})) => \A f \in File \ adrift : Current(f)
=============================================================================
