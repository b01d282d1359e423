----------------------------- MODULE MCTaskStore -----------------------------
(***************************************************************************)
(* TaskStore on a small instance: one task, as no operation relates two,   *)
(* and two sweepers with a clock long enough to lease and lapse twice.     *)
(*                                                                         *)
(* Beside it, and apart from it and each other: Delegation, what a parent  *)
(* adds to such a table, and Opening, how a command comes by its store.    *)
(* `part' says which of the three a behaviour is of.                       *)
(***************************************************************************)
EXTENDS TaskStore, TLC

CONSTANTS
  t1, p1, p2, pa, pb, c1, c2,
  Parent, Shell, Home, Server, Rid, Escalation, Text, None, MaxEvents,
  q1, q2, q3, Process, Newest, Record, Readable, ResetAlone

ASSUME DelegationAssumption ==
  /\ Home \in [Shell -> Parent]
  /\ None \notin Task \cup Escalation \cup Shell
  /\ Escalation \cap Task = {} /\ "goal" \notin Escalation \cup {None}

ASSUME OpeningAssumption ==
  /\ Newest \in [Process -> Nat \ {0}]
  /\ Readable \subseteq Record
  /\ ResetAlone \in BOOLEAN /\ MaxEvents \in Nat

VARIABLES
  part,
  record, shell, refused, told, master, ledger, task, brief, open, server, acted, events,
  schema, rows, posted, actionable, watermark, legacy, proc, filed, warned

HomeOf == [c \in Shell |-> IF c = c2 THEN pb ELSE pa]

NewestOf == [p \in Process |-> IF p = q1 THEN 2 ELSE 3]

D == INSTANCE Delegation
O == INSTANCE Opening WITH ledger <- schema, events <- posted

delegation == <<record, shell, refused, told, master, ledger, task, brief, open, server,
                acted, events>>
opening    == <<schema, rows, posted, actionable, watermark, legacy, proc, filed, warned>>
all        == <<vars, delegation, opening, part>>

SumInit ==
  /\ Init /\ D!Init /\ O!Init
  /\ part \in {"store", "delegation", "opening"} /\ master = pa
  /\ part # "opening" => legacy = "none"

SumNext ==
  \/ part = "store" /\ Next /\ UNCHANGED <<delegation, opening, part>>
  \/ part = "delegation" /\ [D!Next]_delegation /\ UNCHANGED <<vars, opening, part>>
  \/ part = "opening" /\ [O!Next]_opening /\ UNCHANGED <<vars, delegation, part>>

SumSpec == SumInit /\ [][SumNext]_all

Alike == Permutations(Rid) \cup Permutations(Text)

\* See Delegation: a request is acted on once.
ActedOnce == D!ActedOnce

\* See Delegation: a task has the brief it was added with.
BriefKept == D!BriefKept

\* See Delegation: a parent's record covers what the peer did or may do.
OnRecord == D!OnRecord

\* See Opening: the schema has no gap and serves who got it.
SchemaWhole == O!SchemaWhole
=============================================================================
