------------------------------ MODULE Migration ------------------------------
(***************************************************************************)
(* The safe migration of the private metadata database (vault/migration.py) *)
(* with the audit log it ends in (vault/protected.py): a journal says what   *)
(* was intended, the live database commits, the last-known-good copy (LKG)   *)
(* follows, an event is recorded, and the journal is removed.  Other SQLite  *)
(* writers are excluded until the commit and no longer.  A run may raise or  *)
(* die between any two steps; the next one starts from the journal.          *)
(*                                                                          *)
(* An image of the database is how often it has been written and whether it  *)
(* has the new schema; its hash tells exactly that.                          *)
(***************************************************************************)
EXTENDS Integers, FiniteSets

CONSTANTS MaxWrites,   \* bound of the writes of others
          MigrationEvents, \* event ids, each drawn once
          Absent

ASSUME MigrationBound == MaxWrites \in Nat
ASSUME NotAnImage == Absent \notin [data : Nat, new : BOOLEAN] \cup MigrationEvents

VARIABLES
  db,          \* the live database
  lkg,         \* its last-known-good copy, or Absent
  intent,      \* the migration journal, or Absent
  audit,       \* migration events in the audit log
  migrator,    \* the run under way: where it is and what it knows
  drawnEvents, \* history: event ids drawn
  stray        \* history: events an append that failed could not take back

migrationVars == <<db, lkg, intent, audit, migrator, drawnEvents, stray>>

Image == [data : 0 .. MaxWrites, new : BOOLEAN]
MigrationPlaces == {"idle", "begun", "staged", "prepared", "committed", "journaled",
                    "promoted", "refused", "undo", "restored", "undone",
                    "recovering", "recovered", "audited"}
Intent == [state : {"prepared", "committed"}, before : Image, target : Image,
           event : MigrationEvents]
ASSUME NotAJournal == Absent \notin Intent
IdleMigrator == [at |-> "idle", before |-> Absent, prior |-> Absent, event |-> Absent]

MigrationTypeOK ==
  /\ db \in Image
  /\ lkg \in Image \cup {Absent}
  /\ intent \in Intent \cup {Absent}
  /\ audit \subseteq drawnEvents /\ stray \subseteq audit
  /\ migrator \in [at : MigrationPlaces, before : Image \cup {Absent},
                   prior : Image \cup {Absent}, event : MigrationEvents \cup {Absent}]
  /\ drawnEvents \subseteq MigrationEvents

MigrationInit ==
  /\ db = [data |-> 0, new |-> FALSE]
  /\ lkg = Absent /\ intent = Absent
  /\ audit = {} /\ drawnEvents = {} /\ stray = {}
  /\ migrator = IdleMigrator

Migrated(image) == [image EXCEPT !.new = TRUE]
Reach(at) == migrator' = [migrator EXCEPT !.at = at]

-----------------------------------------------------------------------------
(* Surroundings *)

\* BEGIN IMMEDIATE excludes the writers of SQLite until the commit.
WritersExcluded == migrator.at \in {"begun", "staged", "prepared"}

OtherWrite ==
  /\ ~WritersExcluded
  /\ db.data < MaxWrites
  /\ db' = [db EXCEPT !.data = @ + 1]
  /\ UNCHANGED <<lkg, intent, audit, migrator, drawnEvents, stray>>

\* The run raises or dies.  SQLite takes an open transaction back, nothing
\* else is undone here.
Abandon ==
  /\ migrator.at # "idle"
  /\ migrator' = IdleMigrator
  /\ UNCHANGED <<db, lkg, intent, audit, drawnEvents, stray>>

-----------------------------------------------------------------------------
(* The audit log *)

\* _transaction: an event already in the log is not appended again.
Recorded(event) == audit' = audit \cup {event} /\ UNCHANGED stray

\* An append that fails takes its bytes back, or fails at that too.
NotRecorded(event, takenBack) ==
  IF takenBack THEN UNCHANGED <<audit, stray>>
  ELSE /\ event \notin audit
       /\ audit' = audit \cup {event} /\ stray' = stray \cup {event}

-----------------------------------------------------------------------------
(* The migration *)

BeginMigration ==
  /\ migrator.at = "idle"
  /\ intent = Absent /\ ~db.new
  /\ migrator' = [IdleMigrator EXCEPT !.at = "begun", !.before = db]
  /\ UNCHANGED <<db, lkg, intent, audit, drawnEvents, stray>>

\* A copy of the LKG is what an audit failure goes back to.  Where there is
\* none, the database becomes the first LKG.
StagePrior ==
  /\ migrator.at = "begun"
  /\ lkg' = IF lkg = Absent THEN db ELSE lkg
  /\ migrator' = [migrator EXCEPT !.at = "staged", !.prior = lkg']
  /\ UNCHANGED <<db, intent, audit, drawnEvents, stray>>

IntentOf(state) ==
  [state |-> state, before |-> migrator.before, target |-> Migrated(migrator.before),
   event |-> migrator'.event]

\* After the rehearsal and the opening of the vault.
JournalPrepared ==
  /\ migrator.at = "staged"
  /\ \E e \in MigrationEvents \ drawnEvents :
       /\ migrator' = [migrator EXCEPT !.at = "prepared", !.event = e]
       /\ drawnEvents' = drawnEvents \cup {e}
  /\ intent' = IntentOf("prepared")
  /\ UNCHANGED <<db, lkg, audit, stray>>

CommitLive ==
  /\ migrator.at = "prepared"
  /\ db' = Migrated(db)
  /\ Reach("committed")
  /\ UNCHANGED <<lkg, intent, audit, drawnEvents, stray>>

\* The live database is verified first.
JournalCommit ==
  /\ migrator.at = "committed"
  /\ db = Migrated(migrator.before)
  /\ Reach("journaled")
  /\ intent' = IntentOf("committed")
  /\ UNCHANGED <<db, lkg, audit, drawnEvents, stray>>

PromoteLkg ==
  /\ migrator.at = "journaled"
  /\ lkg' = Migrated(migrator.before)
  /\ Reach("promoted")
  /\ UNCHANGED <<db, intent, audit, drawnEvents, stray>>

RecordMigration ==
  /\ migrator.at \in {"promoted", "recovered"}
  /\ Recorded(migrator.event)
  /\ Reach("audited")
  /\ UNCHANGED <<db, lkg, intent, drawnEvents>>

\* The migration is taken back if its event fails, a recovery is not.
AuditFails(takenBack) ==
  /\ migrator.at \in {"promoted", "recovered"}
  /\ NotRecorded(migrator.event, takenBack)
  /\ IF migrator.at = "promoted" THEN Reach("refused") ELSE migrator' = IdleMigrator
  /\ UNCHANGED <<db, lkg, intent, drawnEvents>>

RemoveIntent ==
  /\ migrator.at \in {"audited", "undone"}
  /\ intent' = Absent
  /\ migrator' = IdleMigrator
  /\ UNCHANGED <<db, lkg, audit, drawnEvents, stray>>

-----------------------------------------------------------------------------
(* Taking a committed migration back *)

JournalUndo ==
  /\ migrator.at = "refused"
  /\ Reach("undo")
  /\ intent' = IntentOf("prepared")
  /\ UNCHANGED <<db, lkg, audit, drawnEvents, stray>>

\* The prior image is written into the live database and compared with what
\* was there before the migration only then.
RestoreLive ==
  /\ migrator.at = "undo"
  /\ db' = migrator.prior
  /\ IF migrator.prior = migrator.before THEN Reach("restored") ELSE migrator' = IdleMigrator
  /\ UNCHANGED <<lkg, intent, audit, drawnEvents, stray>>

\* Variant: the journal goes before the LKG has been put back.
RestoreLkgAfterJournal ==
  /\ migrator.at = "restored"
  /\ intent' = Absent
  /\ Reach("undone")
  /\ UNCHANGED <<db, lkg, audit, drawnEvents, stray>>

RestoreLkg ==
  /\ migrator.at = "restored"
  /\ lkg' = migrator.prior
  /\ Reach("undone")
  /\ UNCHANGED <<db, intent, audit, drawnEvents, stray>>

-----------------------------------------------------------------------------
(* Recovery: a run that finds a journal *)

\* The commit never happened, and nothing says it did.
RecoverNotCommitted ==
  /\ migrator.at = "idle"
  /\ intent # Absent /\ intent.state = "prepared"
  /\ db = intent.before /\ lkg = intent.before
  /\ intent.event \notin audit
  /\ intent' = Absent
  /\ UNCHANGED <<db, lkg, audit, migrator, drawnEvents, stray>>

\* Variant: the recovery draws an event id of its own.
ResumeWithNewEvent ==
  \E e \in MigrationEvents \ drawnEvents :
    /\ migrator' = [IdleMigrator EXCEPT !.at = "recovering", !.event = e]
    /\ drawnEvents' = drawnEvents \cup {e}

Resume ==
  /\ migrator' = [IdleMigrator EXCEPT !.at = "recovering", !.event = intent.event]
  /\ UNCHANGED drawnEvents

\* The commit happened, whatever the journal says.  Any other state of the
\* database is ambiguous and refused.
RecoverCommitted ==
  /\ migrator.at = "idle"
  /\ intent # Absent /\ db = intent.target
  /\ intent' = [intent EXCEPT !.state = "committed"]
  /\ Resume
  /\ UNCHANGED <<db, lkg, audit, stray>>

\* _ensure_recovered_lkg; the copy of the database is verified.
EnsureLkg ==
  /\ migrator.at = "recovering"
  /\ \/ lkg = intent.target /\ UNCHANGED lkg
     \/ /\ lkg \in {Absent, intent.before}
        /\ db = intent.target
        /\ lkg' = db
  /\ Reach("recovered")
  /\ UNCHANGED <<db, intent, audit, drawnEvents, stray>>

-----------------------------------------------------------------------------
MigrationNext ==
  \/ OtherWrite \/ Abandon
  \/ BeginMigration \/ StagePrior \/ JournalPrepared \/ CommitLive
  \/ JournalCommit \/ PromoteLkg \/ RecordMigration
  \/ \E takenBack \in BOOLEAN : AuditFails(takenBack)
  \/ RemoveIntent \/ JournalUndo \/ RestoreLive \/ RestoreLkg
  \/ RecoverNotCommitted \/ RecoverCommitted \/ EnsureLkg

MigrationSpec == MigrationInit /\ [][MigrationNext]_migrationVars

-----------------------------------------------------------------------------
(* Properties *)

\* Crashes, retries and recoveries record one migration once: except for what
\* a failed append left behind, there is one event, and it is true.
OneTrueEvent ==
  /\ Cardinality(audit \ stray) <= 1
  /\ audit \ stray # {} => db.new

\* A migrated database without a journal is done: its LKG has the new schema
\* and its event is recorded, however many runs that took.  An LKG ahead of the
\* database has a journal that tells of it.
JournalTellsState ==
  /\ db.new /\ intent = Absent => lkg # Absent /\ lkg.new /\ audit # {}
  /\ lkg # Absent /\ lkg.new => db.new \/ intent # Absent

\* The docstring of _rollback_committed_migration: "Restore controlled audit
\* failures to the pre-migration image."
AuditFailureRestores == [][RestoreLive => db' = migrator.before]_migrationVars

=============================================================================
