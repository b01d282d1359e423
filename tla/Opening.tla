------------------------------ MODULE Opening ------------------------------
(***************************************************************************)
(* The opening of the store: every ttorch command opens it, brings its     *)
(* schema up to what its binary knows, imports the files of the time       *)
(* before the store, and goes on; a peer's read verbs open it for reading, *)
(* and `ttorch reset' drops the schema and makes it anew.                  *)
(*                                                                         *)
(* A migration and its row in schema_migrations are one transaction, and   *)
(* so is the creation of a task.  Nothing wider is: the version is read    *)
(* before the first transaction, whether the store is pristine before the  *)
(* first record, and no lock holds over the loop of either.  A process may *)
(* be killed, or give up on a busy store, between any two steps.           *)
(*                                                                         *)
(* Versions are numbered without gaps, as the shipped files are.  Left out *)
(* is manager.json, one row whose import nothing else here depends on.     *)
(***************************************************************************)
EXTENDS Naturals, FiniteSets

CONSTANTS
  Process,     \* the commands, one after the other or at the same time
  Newest,      \* the newest migration the binary of a process ships
  Record,      \* the <id>.meta.json files of the legacy state directory
  Readable,    \* those that parse
  ResetAlone,  \* whether nobody opens or uses the store during a reset
  MaxEvents    \* bound on the events

VARIABLES
  ledger,      \* the versions in schema_migrations, with their tables
  rows,        \* the legacy records that have a task row
  events,      \* the number of events
  actionable,  \* the ids of those for the manager
  watermark,   \* up to where the manager has read
  legacy,      \* the legacy state directory: "present", "moved" or "none"
  proc,        \* where each process is, and the locals it carries
  filed,       \* the records that got a row, ever
  warned       \* the records an import said it could not take

vars == <<ledger, rows, events, actionable, watermark, legacy, proc, filed, warned>>
store == <<ledger, rows, events, actionable, watermark>>

\* have: the version reached; todo: the records still to import; record: the one
\* in hand; max: the last event the watermark is to be set to; again: in a reset.
Fresh == [at |-> "new", have |-> 0, todo |-> {}, record |-> {}, max |-> 0, again |-> FALSE]

Last(ids) == IF ids = {} THEN 0 ELSE CHOOSE i \in ids : \A j \in ids : j <= i

At(p, steps)   == proc[p].at \in steps
Go(p, step)    == proc' = [proc EXCEPT ![p].at = step]
Keep(p, at, f, v) == proc' = [proc EXCEPT ![p] = [@ EXCEPT !.at = at, ![f] = v]]

Resetting == {p \in Process : proc[p].again}

Init ==
  /\ ledger = {} /\ rows = {} /\ events = 0 /\ actionable = {} /\ watermark = 0
  /\ legacy \in {"present", "none"}
  /\ proc = [p \in Process |-> Fresh]
  /\ filed = {} /\ warned = {}

unchangedHistory == UNCHANGED <<legacy, filed, warned>>

-----------------------------------------------------------------------------
(* The schema                                                              *)

\* Opens: the version the ledger has now, 0 before there is a ledger.
Opens(p) ==
  /\ At(p, {"new"})
  /\ ResetAlone => Resetting = {}
  /\ Keep(p, "migrate", "have", Last(ledger))
  /\ UNCHANGED store /\ unchangedHistory

\* Migrates: the next migration and its row in one transaction; a version that
\* is already in the ledger is refused there, and the whole opening with it.
Migrates(p) ==
  /\ At(p, {"migrate"}) /\ proc[p].have < Newest[p]
  /\ LET v == proc[p].have + 1
     IN  /\ v \notin ledger
         /\ ledger' = ledger \cup {v}
         /\ proc' = [proc EXCEPT ![p].have = v]
  /\ UNCHANGED <<rows, events, actionable, watermark>> /\ unchangedHistory

\* Migrated: the store is returned; a binary older than the schema ignores what
\* it does not know.
Migrated(p) ==
  /\ At(p, {"migrate"}) /\ proc[p].have >= Newest[p]
  /\ IF proc[p].again THEN proc' = [proc EXCEPT ![p] = [Fresh EXCEPT !.at = "ended"]]
                      ELSE Go(p, "list")
  /\ UNCHANGED store /\ unchangedHistory

\* Mutant: whatever there is is read.
OpensUnchecked(p) ==
  /\ At(p, {"new"})
  /\ ResetAlone => Resetting = {}
  /\ Go(p, "reading")
  /\ UNCHANGED store /\ unchangedHistory

\* OpensReadOnly: refused with a schema behind the binary's, never migrated.
OpensReadOnly(p) ==
  /\ At(p, {"new"})
  /\ ResetAlone => Resetting = {}
  /\ Go(p, IF Last(ledger) < Newest[p] THEN "ended" ELSE "reading")
  /\ UNCHANGED store /\ unchangedHistory

\* Fails: a busy store ends the opening, or the reset; so does a kill.
Fails(p) ==
  /\ ~At(p, {"ended"})
  /\ proc' = [proc EXCEPT ![p] = [Fresh EXCEPT !.at = "ended"]]
  /\ UNCHANGED store /\ unchangedHistory

-----------------------------------------------------------------------------
(* The import                                                              *)

\* Lists: without a legacy directory there is nothing to import.
Lists(p) ==
  /\ At(p, {"list"})
  /\ IF legacy = "present" THEN Keep(p, "events", "todo", Record) ELSE Go(p, "open")
  /\ UNCHANGED store /\ unchangedHistory

\* Pristine: no event, and then, in another read, no task.
SeesNoEvents(p) ==
  /\ At(p, {"events"})
  /\ Go(p, IF events = 0 THEN "tasks" ELSE "open")
  /\ UNCHANGED store /\ unchangedHistory

SeesNoTasks(p) ==
  /\ At(p, {"tasks"})
  /\ Go(p, IF rows = {} THEN "import" ELSE "open")
  /\ UNCHANGED store /\ unchangedHistory

\* ReadsRecord: the next file; one that does not parse, or is no longer there, is
\* warned about and left behind.
ReadsRecord(p) ==
  /\ At(p, {"import"})
  /\ \E r \in proc[p].todo :
       IF r \in Readable /\ legacy = "present"
       THEN /\ proc' = [proc EXCEPT ![p].at = "create", ![p].record = {r},
                                    ![p].todo = @ \ {r}]
            /\ UNCHANGED warned
       ELSE /\ proc' = [proc EXCEPT ![p].todo = @ \ {r}]
            /\ warned' = warned \cup {r}
  /\ UNCHANGED store /\ UNCHANGED <<legacy, filed>>

\* CreatesTask: the row and its 'created' event, which is not for the manager; a
\* row that exists is not replaced, and like a failed write warned about.
CreatesTask(p) ==
  /\ At(p, {"create"})
  /\ \/ /\ proc[p].record \cap rows = {} /\ events < MaxEvents
        /\ rows' = rows \cup proc[p].record
        /\ filed' = filed \cup proc[p].record
        /\ events' = events + 1
        /\ UNCHANGED warned
     \/ /\ warned' = warned \cup proc[p].record
        /\ UNCHANGED <<rows, filed, events>>
  /\ Keep(p, "import", "record", {})
  /\ UNCHANGED <<ledger, actionable, watermark, legacy>>

\* ReadsLast, SeedsWatermark: up to the last event for the manager, whoever wrote
\* it since.
ReadsLast(p) ==
  /\ At(p, {"import"}) /\ proc[p].todo = {}
  /\ Keep(p, "seed", "max", Last(actionable))
  /\ UNCHANGED store /\ unchangedHistory

SeedsWatermark(p) ==
  /\ At(p, {"seed"})
  /\ watermark' = proc[p].max
  /\ Go(p, "move")
  /\ UNCHANGED <<ledger, rows, events, actionable>> /\ unchangedHistory

\* Moves: the directory is renamed, never deleted; when that fails the command
\* goes on all the same.
Moves(p) ==
  /\ At(p, {"move"})
  /\ \/ legacy = "present" /\ legacy' = "moved"
     \/ UNCHANGED legacy
  /\ Go(p, "open")
  /\ UNCHANGED store /\ UNCHANGED <<filed, warned>>

-----------------------------------------------------------------------------
(* What follows                                                            *)

\* Posts: a command appends an event, for the manager or not.
Posts(p) ==
  /\ At(p, {"open"}) /\ events < MaxEvents
  /\ events' = events + 1
  /\ actionable' \in {actionable, actionable \cup {events + 1}}
  /\ UNCHANGED <<ledger, rows, watermark, proc>> /\ unchangedHistory

\* Reset: MigrateDown reads the version, ...  (A binary older than the schema
\* drops only what it knows, and the ledger with it; that is left out.)
Resets(p) ==
  /\ At(p, {"open"}) /\ Last(ledger) <= Newest[p]
  /\ ResetAlone => \A q \in Process \ {p} : At(q, {"new", "ended"})
  /\ proc' = [proc EXCEPT ![p].at = "drop", ![p].have = Last(ledger), ![p].again = TRUE]
  /\ UNCHANGED store /\ unchangedHistory

\* ... drops one version after the other, the first with all rows, ...
Drops(p) ==
  /\ At(p, {"drop"}) /\ proc[p].have > 0
  /\ ledger' = ledger \ {proc[p].have}
  /\ proc' = [proc EXCEPT ![p].have = @ - 1]
  /\ IF proc[p].have = 1
     THEN rows' = {} /\ events' = 0 /\ actionable' = {} /\ watermark' = 0
     ELSE UNCHANGED <<rows, events, actionable, watermark>>
  /\ unchangedHistory

\* ... and Migrate begins again.
Remakes(p) ==
  /\ At(p, {"drop"}) /\ proc[p].have = 0
  /\ Keep(p, "migrate", "have", Last(ledger))
  /\ UNCHANGED store /\ unchangedHistory

Next ==
  \E p \in Process :
    \/ Opens(p) \/ Migrates(p) \/ Migrated(p) \/ OpensReadOnly(p) \/ Fails(p)
    \/ Lists(p) \/ SeesNoEvents(p) \/ SeesNoTasks(p) \/ ReadsRecord(p) \/ CreatesTask(p)
    \/ ReadsLast(p) \/ SeedsWatermark(p) \/ Moves(p)
    \/ Posts(p) \/ Resets(p) \/ Drops(p) \/ Remakes(p)

Spec == Init /\ [][Next]_vars

-----------------------------------------------------------------------------
Steps == {"new", "migrate", "list", "events", "tasks", "import", "create", "seed", "move",
          "open", "drop", "reading", "ended"}

TypeOK ==
  /\ ledger \subseteq Nat \ {0} /\ rows \subseteq Record /\ events \in Nat
  /\ actionable \subseteq 1..events /\ watermark \in Nat
  /\ legacy \in {"present", "moved", "none"}
  /\ proc \in [Process -> [at : Steps, have : Nat, todo : SUBSET Record,
                           record : SUBSET Record, max : Nat, again : BOOLEAN]]
  /\ filed \subseteq Record /\ warned \subseteq Record

\* Who has got a store from its opening.
Served == {p \in Process : ~At(p, {"new", "migrate", "drop", "ended"})}

\* However many commands of however old binaries open the store first and
\* together, fail or die on the way: the schema has no gap, and a command that
\* got the store finds all its binary knows.
SchemaWhole ==
  /\ \A v \in ledger : 1..v \subseteq ledger
  /\ \A p \in Served : 1..Newest[p] \subseteq ledger

\* Once the legacy directory is out of the way, every record in it that could be
\* read has had a row or was reported, whoever imported it and died of it.
LegacyKept == legacy = "moved" => Readable \subseteq filed \cup warned

\* The watermark is not seeded past an event that was posted since.
SeedSkipsNothing ==
  [][watermark' > watermark => actionable \cap (watermark + 1 .. watermark') = {}]_vars
=============================================================================
