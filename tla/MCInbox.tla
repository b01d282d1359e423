------------------------------- MODULE MCInbox -------------------------------
(***************************************************************************)
(* Inbox on a small instance: an armed watcher and one given --since.      *)
(*                                                                         *)
(* Beside it, and apart from it and each other, what `ttorch install' and  *)
(* `uninstall' do to files that are not ttorch's alone: ManagedFiles, two  *)
(* files, one of them an agent's, and SharedFiles, two leaves; two releases*)
(* and two runs; at first the lead has set at most the leaf that both      *)
(* releases manage.  `part' says which of the three a behaviour is of.     *)
(***************************************************************************)
EXTENDS Inbox, TLC

CONSTANTS
  w1, w2, t1, fa, fb,
  File, Agent, Release, Ships, Text, Setting, Unset, Odd, Absent, Installer, MaxActs,
  ka, kb, Line, Leaf, Value, Manages, Damage

ASSUME ManagedFilesAssumption ==
  /\ Agent \subseteq File /\ Odd \subseteq Setting /\ Unset \in Setting
  /\ Absent \notin [text : Text, setting : Setting]
  /\ \A r \in Release : DOMAIN Ships[r] \subseteq File
  /\ \A r \in Release : \A f \in DOMAIN Ships[r] :
       /\ Ships[r][f] \in [text : Text, setting : Setting \ Odd]
       /\ f \notin Agent => Ships[r][f].setting = Unset
  /\ MaxActs \in Nat

ASSUME SharedFilesAssumption ==
  /\ Absent \notin Value
  /\ \A r \in Release :
       DOMAIN Manages[r] \subseteq Leaf /\ Manages[r] \in [DOMAIN Manages[r] -> Value]
  /\ Damage \in BOOLEAN
  /\ Line \cap Release = {} /\ {"begin", "end"} \cap (Line \cup Release) = {}

VARIABLES
  part, disk, ledger, aware, run, mine, adrift, acts,
  agents, claude, saw, settings, json, claims, backup, hand, by, wrote, broken, doings

Files == INSTANCE ManagedFiles
Shares == INSTANCE SharedFiles
       WITH ledger <- claims, run <- hand, muddled <- broken, acts <- doings

managed == <<disk, ledger, aware, run, mine, adrift, acts>>
shared  == <<agents, claude, saw, settings, json, claims, backup, hand, by, wrote, broken, doings>>
all     == <<vars, managed, shared, part>>

Ship(text, setting) == [text |-> text, setting |-> setting]

ShipsOf == "one" :> (fa :> Ship("a", "opus"))
           @@ "two" :> (fa :> Ship("b", "sonnet") @@ fb :> Ship("a", "unset"))

ManagesOf == "one" :> (ka :> "x") @@ "two" :> (ka :> "y" @@ kb :> "x")

SumInit ==
  /\ Init /\ Files!Init /\ Shares!Init
  /\ part \in {"inbox", "managed", "shared"}
  /\ part # "managed" => disk = Files!Nothing
  /\ part # "shared" => agents = << >> /\ claude = "missing" /\ json = "missing"
  /\ \A k \in Leaf \ {ka} : settings[k] = Absent

SumNext ==
  \/ part = "inbox" /\ Next /\ UNCHANGED <<managed, shared, part>>
  \/ part = "managed" /\ [Files!Next]_managed /\ UNCHANGED <<vars, shared, part>>
  \/ part = "shared" /\ [Shares!Next]_shared /\ UNCHANGED <<vars, managed, part>>

SumSpec == SumInit /\ [][SumNext]_all

Alike == Permutations(Installer)

\* See ManagedFiles: what a run replaces was shipped, or is kept.
NothingClobbered == Files!NothingClobbered

\* See ManagedFiles: what nobody touched is as shipped, and as the ledger has it.
UntouchedIsCurrent == Files!UntouchedIsCurrent

\* The two together, of every step and what it leads to: nothing of the lead's is
\* replaced, nothing of ttorch's is left behind.
FilesKept == [][Files!LosesNothing /\ UntouchedIsCurrent']_(Files!vars)

\* See SharedFiles: a run takes nothing of the lead's.
LeadsOwnKept == Shares!LeadsOwnKept

\* See SharedFiles: no leaf of ttorch's is left behind.
OwnedLeaves == Shares!OwnedLeaves
=============================================================================
