---------------------------- MODULE SharedFiles ----------------------------
(***************************************************************************)
(* The files ttorch shares with the lead and with other tools, under       *)
(* `ttorch install' and `uninstall': the managed block in AGENTS.md, the   *)
(* link CLAUDE.md, and the leaves in the global settings.json.             *)
(*                                                                         *)
(* AGENTS.md is the sequence of its lines; a line is the lead's, one of    *)
(* the two markers, or the body of a release between them.  settings.json  *)
(* is a value per leaf; a leaf whose parent is no object counts as set by  *)
(* the lead, and empty parents are not shown.  A side ledger has the value *)
(* ttorch wrote to each leaf it claims.  Each file is read, and written by *)
(* a rename, without a lock, and the ledger is saved after the settings:   *)
(* the lead may edit in between, a run may be killed or fail, and another  *)
(* may be under way.  CLAUDE.md is looked at, removed, linked and, where   *)
(* that fails, copied in calls of their own.                               *)
(***************************************************************************)
EXTENDS Naturals, Sequences, FiniteSets

CONSTANTS
  Line,      \* what the lead writes into AGENTS.md
  Leaf,      \* leaves of settings.json
  Value,     \* their values
  Release,   \* the releases: also the body of the block each ships
  Manages,   \* per release, the leaves it manages and their values
  Absent,    \* no such leaf, or no such file
  Installer, \* the runs that may overlap
  Damage,    \* whether the lead may delete one marker of the block
  MaxActs    \* bound on what the lead does, runs begun and runs broken

VARIABLES
  agents,    \* the lines of AGENTS.md, none for a file that is not there
  claude,    \* CLAUDE.md: "missing", a "real" file, the "link" or an "other" one
  saw,       \* what of CLAUDE.md each run that is at it found when it looked
  settings,  \* the value of each leaf
  json,      \* whether settings.json is "missing", an "object" or "broken"
  ledger,    \* the value ttorch wrote to each leaf it claims
  backup,    \* whether the settings were backed up
  run,       \* where each run is, and what it carries
  by,        \* per leaf, who wrote the value it has
  wrote,     \* per leaf, every value ttorch ever wrote to it
  muddled,   \* whether a run ever broke off or met another
  acts       \* the acts so far

vars == <<agents, claude, saw, settings, json, ledger, backup, run, by, wrote, muddled, acts>>

None == [k \in Leaf |-> Absent]

\* of: the releases installed by the run, none in an uninstall; lines, seen, was:
\* what it read of AGENTS.md, of the settings and of the ledger.
Rest == [at |-> "rest", of |-> {}, lines |-> << >>, seen |-> None, was |-> None, next |-> None]

At(p, steps) == run[p].at \in steps
Go(p, step)  == run' = [run EXCEPT ![p].at = step]
Installs(p)  == run[p].of # {}

Init ==
  /\ agents \in {<< >>} \cup {<<x>> : x \in Line}
  /\ claude \in {"missing", "real", "other"}
  /\ saw = [p \in Installer |-> "missing"]
  /\ json \in {"missing", "object"}
  /\ settings \in [Leaf -> Value \cup {Absent}] /\ (json = "missing" => settings = None)
  /\ ledger = None /\ backup = FALSE
  /\ run = [p \in Installer |-> Rest]
  /\ by = [k \in Leaf |-> IF settings[k] = Absent THEN "nobody" ELSE "lead"]
  /\ wrote = [k \in Leaf |-> {}]
  /\ muddled = FALSE /\ acts = 0

unchangedSettings == UNCHANGED <<settings, json, ledger, backup, by, wrote>>

-----------------------------------------------------------------------------
(* The block in AGENTS.md                                                  *)

First(s, x) == IF \E i \in DOMAIN s : s[i] = x
               THEN CHOOSE i \in DOMAIN s : s[i] = x /\ \A j \in DOMAIN s : s[j] = x => i <= j
               ELSE 0

\* The block goes from the first begin marker to the first end marker, if that
\* follows it.
HasBlock(s) == First(s, "begin") > 0 /\ First(s, "end") > First(s, "begin")
Before(s)   == SubSeq(s, 1, First(s, "begin") - 1)
After(s)    == SubSeq(s, First(s, "end") + 1, Len(s))

Block(r) == <<"begin", r, "end">>

\* Mutant: the block goes to the end of the file.
BlockToEnd(s, r) == IF HasBlock(s) THEN Before(s) \o Block(r) ELSE s \o Block(r)

\* applyAgentsBlock: the block is replaced, or appended where there is none.
WithBlock(s, r) == IF HasBlock(s) THEN Before(s) \o Block(r) \o After(s) ELSE s \o Block(r)

\* stripAgentsBlock
WithoutBlock(s) == IF HasBlock(s) THEN Before(s) \o After(s) ELSE s

Begins(p, of) ==
  /\ At(p, {"rest"}) /\ acts < MaxActs
  /\ run' = [run EXCEPT ![p] = [Rest EXCEPT !.at = "block", !.of = of, !.lines = agents]]
  /\ acts' = acts + 1
  /\ muddled' = (muddled \/ \E q \in Installer \ {p} : ~At(q, {"rest"}))
  /\ UNCHANGED <<agents, claude, saw>> /\ unchangedSettings

\* ReadsAgents: a run begins here with the file as it is.
Install(p)   == \E r \in Release : Begins(p, {r})
Uninstall(p) == Begins(p, {})

\* WritesAgents: an uninstall writes where it read a block, and goes on where the
\* writing fails.
WritesAgents(p) ==
  /\ At(p, {"block"})
  /\ \/ Installs(p) /\ agents' = WithBlock(run[p].lines, CHOOSE r \in run[p].of : TRUE)
     \/ ~Installs(p) /\ HasBlock(run[p].lines) /\ agents' = WithoutBlock(run[p].lines)
     \/ ~Installs(p) /\ UNCHANGED agents
  /\ Go(p, "link")
  /\ UNCHANGED <<claude, saw, muddled, acts>> /\ unchangedSettings

-----------------------------------------------------------------------------
(* The link CLAUDE.md                                                      *)

Linked(p) == Go(p, "settings") /\ saw' = [saw EXCEPT ![p] = "missing"]

\* Looks: a real file is left by an install; an uninstall leaves all but a link to
\* AGENTS.md.
Looks(p) ==
  /\ At(p, {"link"})
  /\ \/ /\ IF Installs(p) THEN claude = "real" ELSE claude # "link"
        /\ Linked(p)
     \/ /\ IF Installs(p) THEN claude \in {"link", "other"} ELSE claude = "link"
        /\ Go(p, "unlink") /\ saw' = [saw EXCEPT ![p] = claude]
     \/ /\ Installs(p) /\ claude = "missing"
        /\ Go(p, "symlink") /\ saw' = [saw EXCEPT ![p] = claude]
  /\ UNCHANGED <<agents, claude, muddled, acts>> /\ unchangedSettings

\* Unlinks: what is there by now is removed; a removal that fails is passed over.
Unlinks(p) ==
  /\ At(p, {"unlink"})
  /\ claude' \in {"missing", claude}
  /\ IF Installs(p) THEN Go(p, "symlink") /\ UNCHANGED saw ELSE Linked(p)
  /\ UNCHANGED <<agents, muddled, acts>> /\ unchangedSettings

\* Symlinks: fails where something is there by now, and may fail anyway.
Symlinks(p) ==
  /\ At(p, {"symlink"})
  /\ \/ claude = "missing" /\ claude' = "link" /\ Linked(p)
     \/ Go(p, "copy") /\ UNCHANGED <<claude, saw>>
  /\ UNCHANGED <<agents, muddled, acts>> /\ unchangedSettings

\* Copies: a copy of AGENTS.md, a real file from now on, replaces what is there by
\* now; one that fails is only reported.
Copies(p) ==
  /\ At(p, {"copy"})
  /\ claude' \in {"real", claude}
  /\ Linked(p)
  /\ UNCHANGED <<agents, muddled, acts>> /\ unchangedSettings

-----------------------------------------------------------------------------
(* The leaves of settings.json                                             *)

\* A leaf is ttorch's while it has the value the ledger says was written.
Owned(p, k) == run[p].was[k] # Absent /\ run[p].seen[k] = run[p].was[k]

\* mergeManaged: an absent leaf is added, an owned one brought up to date, any
\* other left and no longer claimed; retireUnmanaged: an owned leaf the release
\* does not manage goes.
Managed(p) == LET r == CHOOSE r \in run[p].of : TRUE IN IF Installs(p) THEN Manages[r] ELSE << >>
Claims(p)  == {k \in DOMAIN Managed(p) : run[p].seen[k] = Absent \/ Owned(p, k)}
Merged(p)  == [k \in Leaf |-> IF k \in Claims(p) THEN Managed(p)[k]
                              ELSE IF k \notin DOMAIN Managed(p) /\ Owned(p, k) THEN Absent
                              ELSE run[p].seen[k]]

\* ReadsSettings: the file and then the ledger; a file that is no object ends the
\* run, and so do an uninstall's empty ledger or missing file, the ledger gone.
ReadsSettings(p) ==
  /\ At(p, {"settings"})
  /\ IF json = "broken" /\ (Installs(p) \/ ledger # None)
     THEN run' = [run EXCEPT ![p] = Rest] /\ UNCHANGED ledger
     ELSE IF ~Installs(p) /\ (ledger = None \/ json = "missing")
     THEN run' = [run EXCEPT ![p] = Rest] /\ ledger' = None
     ELSE /\ run' = [run EXCEPT ![p].at = "merge", ![p].seen = settings, ![p].was = ledger]
          /\ UNCHANGED ledger
  /\ UNCHANGED <<agents, claude, saw, settings, json, backup, by, wrote, muddled, acts>>

\* WritesSettings: nothing is written where nothing changes; before the first
\* write to a file that was there it is backed up, once.
WritesSettings(p) ==
  /\ At(p, {"merge"})
  /\ LET to == Merged(p)
     IN  IF to = run[p].seen
         THEN UNCHANGED <<settings, json, backup, by, wrote>>
         ELSE /\ settings' = to /\ json' = "object"
              /\ backup' = (backup \/ (Installs(p) /\ run[p].seen # None))
              /\ by' = [k \in Leaf |-> IF to[k] = run[p].seen[k]
                                       THEN (IF settings[k] = to[k] THEN by[k] ELSE "lead")
                                       ELSE IF to[k] = Absent THEN "nobody" ELSE "ttorch"]
              /\ wrote' = [k \in Leaf |-> IF to[k] = run[p].seen[k] \/ to[k] = Absent
                                          THEN wrote[k] ELSE wrote[k] \cup {to[k]}]
  /\ run' = [run EXCEPT ![p].at = "ledger",
                        ![p].next = [k \in Leaf |-> IF k \in Claims(p) THEN Managed(p)[k] ELSE Absent]]
  /\ UNCHANGED <<agents, claude, saw, ledger, muddled, acts>>

\* SavesLedger: the claims of this run; an uninstall leaves none.
SavesLedger(p) ==
  /\ At(p, {"ledger"})
  /\ ledger' = run[p].next
  /\ run' = [run EXCEPT ![p] = Rest]
  /\ UNCHANGED <<agents, claude, saw, settings, json, backup, by, wrote, muddled, acts>>

\* Breaks: killed, or a file that cannot be read or written ends the run.
Breaks(p) ==
  /\ ~At(p, {"rest"}) /\ acts < MaxActs
  /\ run' = [run EXCEPT ![p] = Rest]
  /\ saw' = [saw EXCEPT ![p] = "missing"]
  /\ muddled' = TRUE /\ acts' = acts + 1
  /\ UNCHANGED <<agents, claude>> /\ unchangedSettings

-----------------------------------------------------------------------------
(* The lead, and other tools                                               *)

\* EditsAgents: a line more before or after the block, one of the lead's less, the
\* block less, and with Damage a marker less.
EditsAgents ==
  /\ acts < MaxActs /\ acts' = acts + 1
  /\ \/ \E x \in Line : agents' \in {<<x>> \o agents, Append(agents, x)}
     \/ \E i \in DOMAIN agents :
          /\ agents[i] \in Line \cup (IF Damage THEN {"begin", "end"} ELSE {})
          /\ agents' = SubSeq(agents, 1, i - 1) \o SubSeq(agents, i + 1, Len(agents))
     \/ HasBlock(agents) /\ agents' = WithoutBlock(agents)
  /\ UNCHANGED <<claude, saw, run, muddled>> /\ unchangedSettings

\* EditsClaude: CLAUDE.md is written, deleted or linked elsewhere or back.
EditsClaude ==
  /\ acts < MaxActs /\ acts' = acts + 1
  /\ claude' \in {"missing", "real", "link", "other"} \ {claude}
  /\ UNCHANGED <<agents, saw, run, muddled>> /\ unchangedSettings

\* EditsSettings: a leaf is set or deleted in a file that is an object, made one
\* if need be; or the file no longer is, or is deleted.
EditsSettings ==
  /\ acts < MaxActs /\ acts' = acts + 1
  /\ \/ /\ json' = "object"
        /\ \E k \in Leaf, v \in Value \cup {Absent} :
             /\ v # settings[k]
             /\ settings' = [settings EXCEPT ![k] = v]
             /\ by' = [by EXCEPT ![k] = "lead"]
     \/ /\ json' \in {"missing", "broken"} /\ json' # json
        /\ settings' = None
        /\ by' = [k \in Leaf |-> "lead"]
  /\ UNCHANGED <<agents, claude, saw, ledger, backup, run, wrote, muddled>>

Next ==
  \/ \E p \in Installer :
       \/ Install(p) \/ Uninstall(p) \/ WritesAgents(p)
       \/ Looks(p) \/ Unlinks(p) \/ Symlinks(p) \/ Copies(p)
       \/ ReadsSettings(p) \/ WritesSettings(p) \/ SavesLedger(p) \/ Breaks(p)
  \/ EditsAgents \/ EditsClaude \/ EditsSettings

Spec == Init /\ [][Next]_vars

-----------------------------------------------------------------------------
TypeOK ==
  /\ claude \in {"missing", "real", "link", "other"}
  /\ saw \in [Installer -> {"missing", "link", "other"}]
  /\ settings \in [Leaf -> Value \cup {Absent}] /\ json \in {"missing", "object", "broken"}
  /\ ledger \in [Leaf -> Value \cup {Absent}] /\ backup \in BOOLEAN
  /\ \A p \in Installer : run[p].at \in
       {"rest", "block", "link", "unlink", "symlink", "copy", "settings", "merge", "ledger"}
  /\ by \in [Leaf -> {"nobody", "lead", "ttorch"}]
  /\ wrote \in [Leaf -> SUBSET Value]
  /\ muddled \in BOOLEAN /\ acts \in 0..MaxActs

Lines(s) == {i \in DOMAIN s : s[i] \in Line}

\* The lead's lines of both are the same, in the same order.
SameLines(s, t) ==
  \E f \in [Lines(s) -> Lines(t)] :
    /\ \A i \in Lines(s) : t[f[i]] = s[i]
    /\ \A i, j \in Lines(s) : i < j => f[i] < f[j]
    /\ \A k \in Lines(t) : \E i \in Lines(s) : f[i] = k

\* A run that finds a file as it read it takes nothing of the lead's from it: the
\* lead's lines all stay, in their order; of CLAUDE.md an install leaves a real file
\* and an uninstall all but the link; and a leaf is only changed from a value ttorch
\* once wrote there.  (What came after the run read or looked is not covered.)
LeadsOwnKept ==
  [][\A p \in Installer :
       /\ At(p, {"block"}) /\ run'[p].at = "link" /\ agents = run[p].lines =>
            SameLines(agents, agents')
       /\ At(p, {"unlink", "symlink", "copy"}) /\ run'[p] # run[p] /\ claude = saw[p] =>
            claude' = claude \/ IF Installs(p) THEN claude # "real" ELSE claude = "link"
       /\ At(p, {"merge"}) /\ run'[p].at = "ledger" =>
            \A k \in Leaf : settings[k] = run[p].seen[k] /\ settings'[k] # settings[k] =>
              settings[k] \in wrote[k] \cup {Absent}]_vars

\* What the ledger claims was written by ttorch to that leaf, whatever was killed or
\* overlapped.  And while no run broke off or met another, the ledger tells of every
\* leaf that has the value ttorch wrote there: each is brought up to date by the next
\* install and goes with the uninstall, so that none is left behind.
OwnedLeaves ==
  /\ \A k \in Leaf : ledger[k] \in wrote[k] \cup {Absent}
  /\ ~muddled /\ (\A p \in Installer : At(p, {"rest"})) =>
       \A k \in Leaf : by[k] = "ttorch" => settings[k] = ledger[k]
=============================================================================
