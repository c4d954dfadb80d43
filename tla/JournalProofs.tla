---------------------------- MODULE JournalProofs ----------------------------
(***************************************************************************)
(* Proofs about the two operations that keep a journal: Migration, for any    *)
(* number of writes and of migration events, and PrivateImport, for any       *)
(* number of runs and any sources.                                           *)
(***************************************************************************)
EXTENDS Migration, PrivateImport, FiniteSetTheorems, TLAPS

-----------------------------------------------------------------------------
(* Migration *)

\* What a run holds on to at each place: places before its journal, places of
\* its own migration, places of taking it back, and places of a recovery.
Unjournaled == {"begun", "staged"}
Migrating == {"prepared", "committed", "journaled", "promoted"}
TakingBack == {"refused", "undo", "restored", "undone"}
Concluding == {"recovering", "recovered", "audited"}

\* The database has the new schema.
NewSchema == {"committed", "journaled", "promoted", "refused", "undo"} \cup Concluding

\* A journal is about a migration to the new schema, and it says "committed"
\* only of a database that has it.
IntentInv ==
  intent # Absent =>
    /\ ~intent.before.new
    /\ intent.target = Migrated(intent.before)
    /\ intent.event \in drawnEvents
    /\ intent.state = "committed" => db.new

\* The database and the journal agree with the place of the run.
PlaceInv ==
  /\ migrator.at \in Unjournaled => intent = Absent /\ db = migrator.before
  /\ migrator.at = "prepared" => db = migrator.before
  /\ migrator.at \in Unjournaled \cup Migrating \cup TakingBack =>
       migrator.before \in Image /\ ~migrator.before.new
  /\ migrator.at \in NewSchema => db.new
  /\ migrator.at \in {"restored", "undone"} => ~db.new
  /\ migrator.at \in Migrating \cup TakingBack \cup Concluding =>
       intent # Absent /\ migrator.event = intent.event
  /\ migrator.at \in {"journaled", "promoted"} \cup Concluding => intent.state = "committed"
  /\ migrator.at \in {"undo", "restored"} => intent.state = "prepared"

\* The copy an audit failure goes back to lacks the new schema; the LKG has it
\* before the event is recorded, and is only ahead of the database while a
\* journal tells of it.
LkgInv ==
  /\ migrator.at \in (Migrating \cup TakingBack \cup {"staged"}) =>
       migrator.prior \in Image /\ ~migrator.prior.new
  /\ migrator.at \in {"recovered", "promoted", "audited"} => lkg # Absent /\ lkg.new
  /\ migrator.at = "undone" => lkg = migrator.prior

\* A true event stands for a database that has the new schema; while a journal
\* exists it is the event of that journal, and neither a migration that has
\* not got to its event nor one taken back has it.
EventInv ==
  /\ migrator.at \in Migrating => migrator.event \notin audit
  /\ migrator.at = "audited" => migrator.event \in audit
  /\ audit \ stray # {} => db.new /\ migrator.at \notin Migrating \cup TakingBack
  /\ intent # Absent => audit \ stray \subseteq {intent.event}
  /\ \A e, f \in audit \ stray : e = f

IInv == MigrationTypeOK /\ IntentInv /\ PlaceInv /\ LkgInv /\ EventInv /\ JournalTellsState
-----------------------------------------------------------------------------
(* The vocabulary is expanded everywhere below; the actions and the parts of *)
(* the invariant only where they are cited.                                 *)
USE MigrationBound, NotAnImage, NotAJournal
    DEF migrationVars, Image, MigrationPlaces, Intent, IdleMigrator, Migrated, Reach,
        Recorded, NotRecorded, WritersExcluded, Resume,
        Unjournaled, Migrating, TakingBack, Concluding, NewSchema

\* Migrating an image gives it the new schema.
LEMMA MigratedImage ==
  ASSUME NEW image \in Image
  PROVE  Migrated(image) \in Image /\ Migrated(image).new /\ Migrated(image) # Absent
<1>1. Migrated(image) \in Image /\ Migrated(image).new
  OBVIOUS
<1>2. Migrated(image) \in [data : Nat, new : BOOLEAN]
  BY <1>1
<1>3. QED
  BY <1>1, <1>2

\* What a journal written by a run says.
LEMMA JournalWritten ==
  ASSUME NEW state \in {"prepared", "committed"}, migrator.before \in Image,
         migrator'.event \in MigrationEvents, intent' = IntentOf(state)
  PROVE  /\ intent' \in Intent /\ intent' # Absent
         /\ intent'.state = state
         /\ intent'.before = migrator.before
         /\ intent'.target = Migrated(migrator.before)
         /\ intent'.event = migrator'.event
<1>1. Migrated(migrator.before) \in Image
  BY MigratedImage
<1>2. intent' \in Intent
  BY <1>1 DEF IntentOf
<1>q. QED
  BY <1>2 DEF IntentOf

\* Every step keeps the types.
LEMMA MigrationTypeOKStep ==
  ASSUME MigrationTypeOK, IntentInv, PlaceInv, LkgInv,
         MigrationNext
  PROVE  MigrationTypeOK'
<1> USE DEF MigrationTypeOK, IntentInv, PlaceInv, LkgInv
<1>1. CASE OtherWrite
  BY <1>1 DEF OtherWrite
<1>2. CASE Abandon
  BY <1>2 DEF Abandon
<1>3. CASE BeginMigration
  BY <1>3 DEF BeginMigration
<1>4. CASE StagePrior
  BY <1>4 DEF StagePrior
<1>5. CASE JournalPrepared
  <2>1. migrator'.event \in MigrationEvents /\ intent' = IntentOf("prepared") /\ migrator.before \in Image
    BY <1>5 DEF JournalPrepared
  <2>2. QED
    BY <1>5, <2>1, JournalWritten DEF JournalPrepared
<1>6. CASE CommitLive
  BY <1>6 DEF CommitLive
<1>7. CASE JournalCommit
  <2>1. migrator'.event \in MigrationEvents /\ intent' = IntentOf("committed") /\ migrator.before \in Image
    BY <1>7 DEF JournalCommit
  <2>2. QED
    BY <1>7, <2>1, JournalWritten DEF JournalCommit
<1>8. CASE PromoteLkg
  BY <1>8 DEF PromoteLkg
<1>9. CASE RecordMigration
  BY <1>9 DEF RecordMigration
<1>10. ASSUME NEW takenBack \in BOOLEAN, AuditFails(takenBack)
       PROVE  MigrationTypeOK'
  BY <1>10 DEF AuditFails
<1>11. CASE RemoveIntent
  BY <1>11 DEF RemoveIntent
<1>12. CASE JournalUndo
  <2>1. migrator'.event \in MigrationEvents /\ intent' = IntentOf("prepared") /\ migrator.before \in Image
    BY <1>12 DEF JournalUndo
  <2>2. QED
    BY <1>12, <2>1, JournalWritten DEF JournalUndo
<1>13. CASE RestoreLive
  BY <1>13 DEF RestoreLive
<1>14. CASE RestoreLkg
  BY <1>14 DEF RestoreLkg
<1>15. CASE RecoverNotCommitted
  BY <1>15 DEF RecoverNotCommitted
<1>16. CASE RecoverCommitted
  BY <1>16 DEF RecoverCommitted
<1>17. CASE EnsureLkg
  BY <1>17 DEF EnsureLkg
<1>18. QED
  BY <1>1, <1>2, <1>3, <1>4, <1>5, <1>6, <1>7, <1>8, <1>9, <1>10, <1>11, <1>12, <1>13, <1>14, <1>15, <1>16, <1>17 DEF MigrationNext

\* Every journal that is written or kept tells the truth.
LEMMA IntentInvStep ==
  ASSUME MigrationTypeOK, IntentInv, PlaceInv, LkgInv,
         MigrationNext
  PROVE  IntentInv'
<1> USE DEF MigrationTypeOK, IntentInv, PlaceInv, LkgInv
<1>1. CASE OtherWrite
  BY <1>1 DEF OtherWrite
<1>2. CASE Abandon
  BY <1>2 DEF Abandon
<1>3. CASE BeginMigration
  BY <1>3 DEF BeginMigration
<1>4. CASE StagePrior
  BY <1>4 DEF StagePrior
<1>5. CASE JournalPrepared
  <2>1. migrator'.event \in MigrationEvents /\ intent' = IntentOf("prepared") /\ migrator.before \in Image
    BY <1>5 DEF JournalPrepared
  <2>2. QED
    BY <1>5, <2>1, JournalWritten DEF JournalPrepared
<1>6. CASE CommitLive
  BY <1>6 DEF CommitLive
<1>7. CASE JournalCommit
  <2>1. migrator'.event \in MigrationEvents /\ intent' = IntentOf("committed") /\ migrator.before \in Image
    BY <1>7 DEF JournalCommit
  <2>2. QED
    BY <1>7, <2>1, JournalWritten DEF JournalCommit
<1>8. CASE PromoteLkg
  BY <1>8 DEF PromoteLkg
<1>9. CASE RecordMigration
  BY <1>9 DEF RecordMigration
<1>10. ASSUME NEW takenBack \in BOOLEAN, AuditFails(takenBack)
       PROVE  IntentInv'
  BY <1>10 DEF AuditFails
<1>11. CASE RemoveIntent
  BY <1>11 DEF RemoveIntent
<1>12. CASE JournalUndo
  <2>1. migrator'.event \in MigrationEvents /\ intent' = IntentOf("prepared") /\ migrator.before \in Image
    BY <1>12 DEF JournalUndo
  <2>2. QED
    BY <1>12, <2>1, JournalWritten DEF JournalUndo
<1>13. CASE RestoreLive
  BY <1>13 DEF RestoreLive
<1>14. CASE RestoreLkg
  BY <1>14 DEF RestoreLkg
<1>15. CASE RecoverNotCommitted
  BY <1>15 DEF RecoverNotCommitted
<1>16. CASE RecoverCommitted
  BY <1>16 DEF RecoverCommitted
<1>17. CASE EnsureLkg
  BY <1>17 DEF EnsureLkg
<1>18. QED
  BY <1>1, <1>2, <1>3, <1>4, <1>5, <1>6, <1>7, <1>8, <1>9, <1>10, <1>11, <1>12, <1>13, <1>14, <1>15, <1>16, <1>17 DEF MigrationNext

\* Database and journal agree with the place a run gets to.
LEMMA PlaceInvStep ==
  ASSUME MigrationTypeOK, IntentInv, PlaceInv, LkgInv,
         MigrationNext
  PROVE  PlaceInv'
<1> USE DEF MigrationTypeOK, IntentInv, PlaceInv, LkgInv
<1>1. CASE OtherWrite
  BY <1>1 DEF OtherWrite
<1>2. CASE Abandon
  BY <1>2 DEF Abandon
<1>3. CASE BeginMigration
  BY <1>3 DEF BeginMigration
<1>4. CASE StagePrior
  BY <1>4 DEF StagePrior
<1>5. CASE JournalPrepared
  <2>1. migrator'.event \in MigrationEvents /\ intent' = IntentOf("prepared") /\ migrator.before \in Image
    BY <1>5 DEF JournalPrepared
  <2>2. QED
    BY <1>5, <2>1, JournalWritten DEF JournalPrepared
<1>6. CASE CommitLive
  BY <1>6 DEF CommitLive
<1>7. CASE JournalCommit
  <2>1. migrator'.event \in MigrationEvents /\ intent' = IntentOf("committed") /\ migrator.before \in Image
    BY <1>7 DEF JournalCommit
  <2>2. QED
    BY <1>7, <2>1, JournalWritten DEF JournalCommit
<1>8. CASE PromoteLkg
  BY <1>8 DEF PromoteLkg
<1>9. CASE RecordMigration
  <2>1. migrator.at \in {"promoted", "recovered"} /\ migrator' = [migrator EXCEPT !.at = "audited"]
    BY <1>9 DEF RecordMigration
  <2>2. intent' = intent /\ db' = db
    BY <1>9 DEF RecordMigration
  <2>3. intent # Absent /\ migrator.event = intent.event /\ intent.state = "committed"
    BY <2>1
  <2>4. migrator'.at = "audited" /\ migrator'.event = migrator.event
    BY <2>1
  <2>5. QED
    BY <2>2, <2>3, <2>4
<1>10. ASSUME NEW takenBack \in BOOLEAN, AuditFails(takenBack)
       PROVE  PlaceInv'
  BY <1>10 DEF AuditFails
<1>11. CASE RemoveIntent
  BY <1>11 DEF RemoveIntent
<1>12. CASE JournalUndo
  <2>1. migrator'.event \in MigrationEvents /\ intent' = IntentOf("prepared") /\ migrator.before \in Image
    BY <1>12 DEF JournalUndo
  <2>2. QED
    BY <1>12, <2>1, JournalWritten DEF JournalUndo
<1>13. CASE RestoreLive
  BY <1>13 DEF RestoreLive
<1>14. CASE RestoreLkg
  BY <1>14 DEF RestoreLkg
<1>15. CASE RecoverNotCommitted
  BY <1>15 DEF RecoverNotCommitted
<1>16. CASE RecoverCommitted
  BY <1>16 DEF RecoverCommitted
<1>17. CASE EnsureLkg
  BY <1>17 DEF EnsureLkg
<1>18. QED
  BY <1>1, <1>2, <1>3, <1>4, <1>5, <1>6, <1>7, <1>8, <1>9, <1>10, <1>11, <1>12, <1>13, <1>14, <1>15, <1>16, <1>17 DEF MigrationNext

\* Prior image and last-known-good copy agree with the place of the run.
LEMMA LkgInvStep ==
  ASSUME MigrationTypeOK, IntentInv, PlaceInv, LkgInv, JournalTellsState,
         MigrationNext
  PROVE  LkgInv'
<1> USE DEF MigrationTypeOK, IntentInv, PlaceInv, LkgInv, JournalTellsState
<1>1. CASE OtherWrite
  BY <1>1 DEF OtherWrite
<1>2. CASE Abandon
  BY <1>2 DEF Abandon
<1>3. CASE BeginMigration
  BY <1>3 DEF BeginMigration
<1>4. CASE StagePrior
  <2>1. migrator'.at = "staged" /\ migrator'.prior = lkg'
    BY <1>4 DEF StagePrior
  <2>2. lkg' \in Image /\ ~lkg'.new
    BY <1>4 DEF StagePrior
  <2>3. QED
    BY <2>1, <2>2
<1>5. CASE JournalPrepared
  <2>1. migrator'.event \in MigrationEvents /\ intent' = IntentOf("prepared") /\ migrator.before \in Image
    BY <1>5 DEF JournalPrepared
  <2>2. QED
    BY <1>5, <2>1, JournalWritten DEF JournalPrepared
<1>6. CASE CommitLive
  BY <1>6 DEF CommitLive
<1>7. CASE JournalCommit
  <2>1. migrator'.event \in MigrationEvents /\ intent' = IntentOf("committed") /\ migrator.before \in Image
    BY <1>7 DEF JournalCommit
  <2>2. QED
    BY <1>7, <2>1, JournalWritten DEF JournalCommit
<1>8. CASE PromoteLkg
  <2>1. lkg' = Migrated(migrator.before) /\ migrator.before \in Image
    BY <1>8 DEF PromoteLkg
  <2>2. lkg' # Absent /\ lkg'.new
    BY <2>1, MigratedImage
  <2>3. migrator'.at = "promoted" /\ migrator'.prior = migrator.prior
    BY <1>8 DEF PromoteLkg
  <2>4. migrator.prior \in Image /\ ~migrator.prior.new
    BY <1>8 DEF PromoteLkg
  <2>5. QED
    BY <2>2, <2>3, <2>4
<1>9. CASE RecordMigration
  BY <1>9 DEF RecordMigration
<1>10. ASSUME NEW takenBack \in BOOLEAN, AuditFails(takenBack)
       PROVE  LkgInv'
  BY <1>10 DEF AuditFails
<1>11. CASE RemoveIntent
  BY <1>11 DEF RemoveIntent
<1>12. CASE JournalUndo
  <2>1. migrator'.event \in MigrationEvents /\ intent' = IntentOf("prepared") /\ migrator.before \in Image
    BY <1>12 DEF JournalUndo
  <2>2. QED
    BY <1>12, <2>1, JournalWritten DEF JournalUndo
<1>13. CASE RestoreLive
  BY <1>13 DEF RestoreLive
<1>14. CASE RestoreLkg
  BY <1>14 DEF RestoreLkg
<1>15. CASE RecoverNotCommitted
  BY <1>15 DEF RecoverNotCommitted
<1>16. CASE RecoverCommitted
  BY <1>16 DEF RecoverCommitted
<1>17. CASE EnsureLkg
  BY <1>17 DEF EnsureLkg
<1>18. QED
  BY <1>1, <1>2, <1>3, <1>4, <1>5, <1>6, <1>7, <1>8, <1>9, <1>10, <1>11, <1>12, <1>13, <1>14, <1>15, <1>16, <1>17 DEF MigrationNext

\* Only a run that brings a committed migration to its end makes an event true.
LEMMA EventInvStep ==
  ASSUME MigrationTypeOK, IntentInv, PlaceInv, LkgInv, EventInv,
         MigrationNext
  PROVE  EventInv'
<1> USE DEF MigrationTypeOK, IntentInv, PlaceInv, LkgInv, EventInv
<1>1. CASE OtherWrite
  BY <1>1 DEF OtherWrite
<1>2. CASE Abandon
  BY <1>2 DEF Abandon
<1>3. CASE BeginMigration
  BY <1>3 DEF BeginMigration
<1>4. CASE StagePrior
  BY <1>4 DEF StagePrior
<1>5. CASE JournalPrepared
  <2>1. migrator'.event \in MigrationEvents /\ intent' = IntentOf("prepared") /\ migrator.before \in Image
    BY <1>5 DEF JournalPrepared
  <2>2. QED
    BY <1>5, <2>1, JournalWritten DEF JournalPrepared
<1>6. CASE CommitLive
  BY <1>6 DEF CommitLive
<1>7. CASE JournalCommit
  <2>1. migrator'.event \in MigrationEvents /\ intent' = IntentOf("committed") /\ migrator.before \in Image
    BY <1>7 DEF JournalCommit
  <2>2. QED
    BY <1>7, <2>1, JournalWritten DEF JournalCommit
<1>8. CASE PromoteLkg
  BY <1>8 DEF PromoteLkg
<1>9. CASE RecordMigration
  BY <1>9 DEF RecordMigration
<1>10. ASSUME NEW takenBack \in BOOLEAN, AuditFails(takenBack)
       PROVE  EventInv'
  BY <1>10 DEF AuditFails
<1>11. CASE RemoveIntent
  BY <1>11 DEF RemoveIntent
<1>12. CASE JournalUndo
  <2>1. migrator'.event \in MigrationEvents /\ intent' = IntentOf("prepared") /\ migrator.before \in Image
    BY <1>12 DEF JournalUndo
  <2>2. QED
    BY <1>12, <2>1, JournalWritten DEF JournalUndo
<1>13. CASE RestoreLive
  BY <1>13 DEF RestoreLive
<1>14. CASE RestoreLkg
  BY <1>14 DEF RestoreLkg
<1>15. CASE RecoverNotCommitted
  BY <1>15 DEF RecoverNotCommitted
<1>16. CASE RecoverCommitted
  BY <1>16 DEF RecoverCommitted
<1>17. CASE EnsureLkg
  BY <1>17 DEF EnsureLkg
<1>18. QED
  BY <1>1, <1>2, <1>3, <1>4, <1>5, <1>6, <1>7, <1>8, <1>9, <1>10, <1>11, <1>12, <1>13, <1>14, <1>15, <1>16, <1>17 DEF MigrationNext

\* What database, LKG and journal say together survives every step.
LEMMA JournalTellsStateStep ==
  ASSUME MigrationTypeOK, IntentInv, PlaceInv, LkgInv, EventInv, JournalTellsState,
         MigrationNext
  PROVE  JournalTellsState'
<1> USE DEF MigrationTypeOK, IntentInv, PlaceInv, LkgInv, EventInv, JournalTellsState
<1>1. CASE OtherWrite
  BY <1>1 DEF OtherWrite
<1>2. CASE Abandon
  BY <1>2 DEF Abandon
<1>3. CASE BeginMigration
  BY <1>3 DEF BeginMigration
<1>4. CASE StagePrior
  BY <1>4 DEF StagePrior
<1>5. CASE JournalPrepared
  <2>1. migrator'.event \in MigrationEvents /\ intent' = IntentOf("prepared") /\ migrator.before \in Image
    BY <1>5 DEF JournalPrepared
  <2>2. QED
    BY <1>5, <2>1, JournalWritten DEF JournalPrepared
<1>6. CASE CommitLive
  BY <1>6 DEF CommitLive
<1>7. CASE JournalCommit
  <2>1. migrator'.event \in MigrationEvents /\ intent' = IntentOf("committed") /\ migrator.before \in Image
    BY <1>7 DEF JournalCommit
  <2>2. QED
    BY <1>7, <2>1, JournalWritten DEF JournalCommit
<1>8. CASE PromoteLkg
  BY <1>8 DEF PromoteLkg
<1>9. CASE RecordMigration
  BY <1>9 DEF RecordMigration
<1>10. ASSUME NEW takenBack \in BOOLEAN, AuditFails(takenBack)
       PROVE  JournalTellsState'
  BY <1>10 DEF AuditFails
<1>11. CASE RemoveIntent
  BY <1>11 DEF RemoveIntent
<1>12. CASE JournalUndo
  <2>1. migrator'.event \in MigrationEvents /\ intent' = IntentOf("prepared") /\ migrator.before \in Image
    BY <1>12 DEF JournalUndo
  <2>2. QED
    BY <1>12, <2>1, JournalWritten DEF JournalUndo
<1>13. CASE RestoreLive
  BY <1>13 DEF RestoreLive
<1>14. CASE RestoreLkg
  BY <1>14 DEF RestoreLkg
<1>15. CASE RecoverNotCommitted
  BY <1>15 DEF RecoverNotCommitted
<1>16. CASE RecoverCommitted
  BY <1>16 DEF RecoverCommitted
<1>17. CASE EnsureLkg
  BY <1>17 DEF EnsureLkg
<1>18. QED
  BY <1>1, <1>2, <1>3, <1>4, <1>5, <1>6, <1>7, <1>8, <1>9, <1>10, <1>11, <1>12, <1>13, <1>14, <1>15, <1>16, <1>17 DEF MigrationNext

\* The invariant holds at the start.
LEMMA InitInv == MigrationInit => IInv
BY DEF MigrationInit, IInv, MigrationTypeOK, IntentInv, PlaceInv, LkgInv, EventInv,
       JournalTellsState

\* Every step, and every step of something else, keeps the invariant.
LEMMA StepInv == IInv /\ [MigrationNext]_migrationVars => IInv'
<1>1. ASSUME IInv, MigrationNext
      PROVE  IInv'
  BY <1>1, MigrationTypeOKStep, IntentInvStep, PlaceInvStep, LkgInvStep, EventInvStep,
     JournalTellsStateStep DEF IInv
<1>2. ASSUME IInv, UNCHANGED migrationVars
      PROVE  IInv'
  BY <1>2 DEF IInv, MigrationTypeOK, IntentInv, PlaceInv, LkgInv, EventInv, JournalTellsState
<1>3. QED
  BY <1>1, <1>2

\* The invariant holds of every behaviour of the migration.
THEOREM MigrationInductive == MigrationSpec => []IInv
BY InitInv, StepInv, PTL DEF MigrationSpec

-----------------------------------------------------------------------------
\* The variables keep their types, however often runs die and recover.
THEOREM MigrationTypes == MigrationSpec => []MigrationTypeOK
<1>1. IInv => MigrationTypeOK
  BY DEF IInv
<1>2. QED
  BY <1>1, MigrationInductive, PTL

\* A migrated database without a journal has an LKG of the new schema and its
\* event; an LKG ahead of the database has a journal that tells of it.
THEOREM JournalTells == MigrationSpec => []JournalTellsState
<1>1. IInv => JournalTellsState
  BY DEF IInv
<1>2. QED
  BY <1>1, MigrationInductive, PTL

\* Crashes, retries and recoveries record one migration once, and truly.
THEOREM OneEvent == MigrationSpec => []OneTrueEvent
<1>1. ASSUME IInv
      PROVE  OneTrueEvent
  <2>1. CASE audit \ stray = {}
    BY <2>1, FS_EmptySet DEF OneTrueEvent
  <2>2. ASSUME NEW e \in audit \ stray
        PROVE  OneTrueEvent
    <3>1. audit \ stray = {e}
      BY <1>1, <2>2 DEF IInv, EventInv
    <3>2. Cardinality({e}) = 1
      BY FS_Singleton
    <3>3. QED
      BY <1>1, <3>1, <3>2 DEF IInv, EventInv, OneTrueEvent
  <2>3. QED
    BY <2>1, <2>2
<1>2. QED
  BY <1>1, MigrationInductive, PTL

-----------------------------------------------------------------------------
(* Importing cards from private sources *)

\* What a run goes by: sources it has read, an approval for them, an
\* authorization for the revision of the plan or for a plan tried before.
RunsInv ==
  \A p \in Runs :
    /\ importer[p].at # "idle" => importer[p].src \in Contents
    /\ importer[p].at \notin {"idle", "previewed"} => importer[p].approved \in Plan
    /\ importer[p].at \in {"checked", "pending", "consumed", "reconciled", "committed"} =>
         importer[p].approved.src = importer[p].src
    /\ /\ importer[p].at \in {"checked", "pending", "consumed"}
       /\ importer[p].action \notin {Unsaid, "consolidate_recover"}
       => importer[p].approved.rev = importer[p].rev
    /\ importer[p].at = "consumed" => importer[p].action # Unsaid
    /\ importer[p].at \in {"reconciled", "committed"} => importer[p].src \in written

\* Where a run has cards of the vault it has not reconciled yet: they are the
\* vault's at the revision of its session.
SessionPlaces == {"parsed", "locked", "checked", "pending", "consumed"}
SessionsInv ==
  \A p \in Runs : importer[p].at \in SessionPlaces =>
    /\ importer[p].rev <= vaultRev
    /\ importer[p].rev = vaultRev => importer[p].seen = cards

\* The journal has the sources of its plan.
JournalInv == journal # Unsaid => journal.plan.src = journal.binding

\* A card that is bound to a source has the number and the note it had there.
BoundCardsInv ==
  \A c \in DOMAIN cards : cards[c].source # Unsaid =>
    \E src \in Contents : \E i \in CardsOf(src) :
      /\ cards[c].source = i.source /\ cards[c].pan = i.pan
      /\ i.note # Unsaid => cards[c].note = i.note

ImportInv ==
  ImportTypeOK /\ RunsInv /\ SessionsInv /\ JournalInv /\ BoundCardsInv /\ ImportsUnique

USE ContentsAssumption, ImportBound, ImportNone DEF vaultFile, history

-----------------------------------------------------------------------------
\* A card read from sources: what its fields are, and that its number is enough
\* to know it by.
LEMMA ReadCards ==
  ASSUME NEW src \in Contents
  PROVE  /\ \A i \in CardsOf(src) :
              /\ i.pan \in Pans /\ i.source = <<src, i.pan>> /\ i.lifecycle \in Lifecycles
              /\ i.offering \in Offerings \cup {Unsaid} /\ i.note \in Notes \cup {Unsaid}
              /\ i.source \in Contents \X Pans /\ i.source # Unsaid
         /\ \A i, j \in CardsOf(src) : i.pan = j.pan => i = j
<1> DEFINE of(pan) == {o \in src : o.pan = pan}
           agreed == {pan \in {o.pan : o \in src} : \A a, b \in of(pan) : ~Disagree(a, b)}
           card(pan) == [pan |-> pan, source |-> <<src, pan>>,
                         lifecycle |-> (CHOOSE o \in of(pan) : TRUE).lifecycle,
                         offering |-> Said({o.offering : o \in of(pan)}),
                         note |-> Said({o.note : o \in of(pan)})]
<1>1. CardsOf(src) = {card(pan) : pan \in agreed}
  BY DEF CardsOf
<1>2. \A pan \in agreed : pan \in Pans /\ of(pan) # {} /\ of(pan) \subseteq Observation
  BY DEF Observation
<1>3. ASSUME NEW values, NEW S, values \subseteq S
      PROVE  Said(values) \in S \cup {Unsaid}
  BY <1>3 DEF Said
<1>4. ASSUME NEW pan \in agreed
      PROVE  /\ card(pan).lifecycle \in Lifecycles
             /\ card(pan).offering \in Offerings \cup {Unsaid}
             /\ card(pan).note \in Notes \cup {Unsaid}
  <2>1. of(pan) # {} /\ of(pan) \subseteq Observation
    BY <1>2
  <2>2. \A o \in of(pan) : /\ o.lifecycle \in Lifecycles
                           /\ o.offering \in Offerings \cup {Unsaid}
                           /\ o.note \in Notes \cup {Unsaid}
    BY <2>1 DEF Observation
  <2>3. (CHOOSE o \in of(pan) : TRUE) \in of(pan)
    BY <2>1
  <2>4. /\ {o.offering : o \in of(pan)} \subseteq Offerings \cup {Unsaid}
        /\ {o.note : o \in of(pan)} \subseteq Notes \cup {Unsaid}
    BY <2>2
  <2>5. /\ Said({o.offering : o \in of(pan)}) \in Offerings \cup {Unsaid}
        /\ Said({o.note : o \in of(pan)}) \in Notes \cup {Unsaid}
    <3> HIDE DEF of
    <3>1. QED
      BY <2>4, <1>3
  <2>6. QED
    BY <2>2, <2>3, <2>5
<1>5. \A pan : card(pan).pan = pan /\ card(pan).source = <<src, pan>>
  OBVIOUS
<1>6. \A pan \in Pans : <<src, pan>> \in Contents \X Pans /\ <<src, pan>> # Unsaid
  OBVIOUS
<1> HIDE DEF agreed, card
<1>7. QED
  <2>1. ASSUME NEW i \in CardsOf(src)
        PROVE  \E pan \in agreed : i = card(pan)
    BY <1>1
  <2>2. \A pan \in agreed : card(pan).source \in Contents \X Pans /\ card(pan).source # Unsaid
    <3> TAKE pan \in agreed
    <3>1. pan \in Pans
      BY <1>2
    <3>2. card(pan).source = <<src, pan>>
      BY <1>5
    <3>3. QED
      BY <3>1, <3>2, <1>6, Zenon
  <2>3. QED
    BY <1>2, <1>4, <1>5, <2>1, <2>2

\* What reconciling leaves of the cards there were, and what it adds.
LEMMA ReconciledCards ==
  ASSUME NEW src \in Contents, NEW cs, NEW ids \in FreshIds(cs, CardsOf(src))
  PROVE  LET incoming == CardsOf(src)
             after == Reconciled(cs, incoming, ids)
         IN /\ DOMAIN cs \subseteq DOMAIN after /\ DOMAIN after \subseteq DOMAIN cs \cup CardIds
            /\ after = [c \in DOMAIN after |-> after[c]]
            /\ \A c \in DOMAIN cs :
                 \/ after[c] = cs[c]
                 \/ \E i \in incoming : c \in Matches(cs, i) /\ after[c] = Merged(cs[c], i)
            /\ \A c \in DOMAIN after \ DOMAIN cs : \E i \in incoming :
                 Matches(cs, i) = {} /\ after[c] = NewCard(i) /\ ids[i] = c
<1> DEFINE incoming == CardsOf(src)
           new == {i \in incoming : Matches(cs, i) = {}}
           bound(c) == {i \in incoming : c \in Matches(cs, i)}
           after == Reconciled(cs, incoming, ids)
<1>1. after = [c \in DOMAIN cs \cup {ids[i] : i \in new} |->
                 IF c \notin DOMAIN cs THEN NewCard(CHOOSE i \in new : ids[i] = c)
                 ELSE IF bound(c) = {} THEN cs[c]
                 ELSE Merged(cs[c], CHOOSE i \in bound(c) : TRUE)]
  BY DEF Reconciled
<1>2. ids \in [new -> CardIds \ DOMAIN cs]
  BY DEF FreshIds
<1> HIDE DEF incoming, after
<1>3. \A c \in DOMAIN cs :
        \/ after[c] = cs[c]
        \/ \E i \in incoming : c \in Matches(cs, i) /\ after[c] = Merged(cs[c], i)
  <2> TAKE c \in DOMAIN cs
  <2>1. after[c] = IF bound(c) = {} THEN cs[c] ELSE Merged(cs[c], CHOOSE i \in bound(c) : TRUE)
    BY <1>1
  <2>2. CASE bound(c) # {}
    BY <2>1, <2>2
  <2>3. QED
    BY <2>1, <2>2
<1>4. \A c \in DOMAIN after \ DOMAIN cs : \E i \in incoming :
        Matches(cs, i) = {} /\ after[c] = NewCard(i) /\ ids[i] = c
  <2> TAKE c \in DOMAIN after \ DOMAIN cs
  <2>1. after[c] = NewCard(CHOOSE i \in new : ids[i] = c)
    BY <1>1
  <2>2. \E i \in new : ids[i] = c
    BY <1>1
  <2>3. QED
    BY <2>1, <2>2
<1>5. /\ DOMAIN cs \subseteq DOMAIN after /\ DOMAIN after \subseteq DOMAIN cs \cup CardIds
      /\ after = [c \in DOMAIN after |-> after[c]]
  <2> HIDE DEF bound
  <2>1. QED
    BY <1>1, <1>2
<1>6. QED
  BY <1>3, <1>4, <1>5 DEF incoming, after

\* A vault that can be reconciled tells its cards apart afterwards too, and the
\* cards keep their types.
LEMMA ReconciledApart ==
  ASSUME NEW src \in Contents, NEW cs, cs \in [DOMAIN cs -> Card], DOMAIN cs \subseteq CardIds,
         NEW ids \in FreshIds(cs, CardsOf(src)), Reconcilable(cs, CardsOf(src))
  PROVE  LET after == Reconciled(cs, CardsOf(src), ids)
         IN /\ DOMAIN after \subseteq CardIds /\ after \in [DOMAIN after -> Card]
            /\ Unambiguous(after)
<1> DEFINE incoming == CardsOf(src)
           after == Reconciled(cs, incoming, ids)
<1>1. /\ DOMAIN cs \subseteq DOMAIN after /\ DOMAIN after \subseteq CardIds
      /\ after = [c \in DOMAIN after |-> after[c]]
      /\ \A c \in DOMAIN cs :
           \/ after[c] = cs[c]
           \/ \E i \in incoming : c \in Matches(cs, i) /\ after[c] = Merged(cs[c], i)
      /\ \A c \in DOMAIN after \ DOMAIN cs : \E i \in incoming :
           Matches(cs, i) = {} /\ after[c] = NewCard(i) /\ ids[i] = c
  BY ReconciledCards
<1>2. /\ \A i \in incoming : /\ i.pan \in Pans /\ i.source = <<src, i.pan>>
                             /\ i.lifecycle \in Lifecycles
                             /\ i.offering \in Offerings \cup {Unsaid}
                             /\ i.note \in Notes \cup {Unsaid}
                             /\ i.source \in Contents \X Pans /\ i.source # Unsaid
      /\ \A i, j \in incoming : i.pan = j.pan => i = j
  BY ReadCards
<1>3. \A i \in incoming : \A c \in Matches(cs, i) :
        c \in DOMAIN cs /\ cs[c].pan = i.pan /\ cs[c].source \in {Unsaid, i.source}
  BY DEF Reconcilable, Compatible, Matches, BySource, ByPan
<1>4. \A c, d \in DOMAIN cs : c # d =>
        cs[c].pan # cs[d].pan /\ (cs[c].source # Unsaid => cs[c].source # cs[d].source)
  BY DEF Reconcilable, Unambiguous
<1> HIDE DEF incoming, after
<1>5. ASSUME NEW c \in DOMAIN cs
      PROVE  /\ after[c] \in Card /\ after[c].pan = cs[c].pan
             /\ \/ after[c].source = cs[c].source
                \/ \E i \in incoming : /\ c \in Matches(cs, i) /\ after[c].source = i.source
                                       /\ i.pan = cs[c].pan
  <2>1. cs[c] \in Card
    OBVIOUS
  <2>2. ASSUME NEW i \in incoming, c \in Matches(cs, i), after[c] = Merged(cs[c], i)
        PROVE  /\ after[c] \in Card /\ after[c].pan = cs[c].pan
               /\ after[c].source = i.source /\ i.pan = cs[c].pan
    <3>1. /\ after[c] = [cs[c] EXCEPT !.source = i.source,
                                      !.note = IF i.note = Unsaid THEN cs[c].note ELSE i.note]
          /\ i.pan = cs[c].pan
      BY <2>2, <1>3 DEF Merged
    <3>2. QED
      BY <1>2, <2>1, <3>1 DEF Card
  <2>3. QED
    BY <1>1, <2>1, <2>2
<1>6. ASSUME NEW c \in DOMAIN after \ DOMAIN cs
      PROVE  /\ after[c] \in Card
             /\ \E i \in incoming : /\ Matches(cs, i) = {} /\ after[c].source = i.source
                                    /\ after[c].pan = i.pan /\ ids[i] = c
  <2>1. PICK i \in incoming : Matches(cs, i) = {} /\ after[c] = NewCard(i) /\ ids[i] = c
    BY <1>1
  <2>2. after[c] \in Card /\ after[c].source = i.source /\ after[c].pan = i.pan
    <3>1. i \in incoming
      OBVIOUS
    <3>2. after[c] = [pan |-> i.pan, lifecycle |-> i.lifecycle, note |-> i.note,
                      source |-> i.source,
                      offering |-> IF i.offering = Unsaid THEN i.source ELSE i.offering]
      BY <2>1 DEF NewCard
    <3>3. QED
      BY <1>2, <3>1, <3>2 DEF Card
  <2>3. QED
    BY <2>1, <2>2
<1>7. \A i \in incoming : Matches(cs, i) = {} =>
        \A c \in DOMAIN cs : cs[c].pan # i.pan /\ cs[c].source # i.source
  BY DEF Matches, BySource, ByPan
<1>8. ASSUME NEW i \in incoming, NEW c \in Matches(cs, i), NEW d \in DOMAIN cs, c # d
      PROVE  cs[d].source # i.source
  <2>1. CASE BySource(cs, i) # {}
    <3>1. c \in DOMAIN cs /\ cs[c].source = i.source
      BY <2>1 DEF Matches, BySource
    <3>2. i.source # Unsaid
      BY <1>2
    <3>3. QED
      BY <1>4, <1>8, <3>1, <3>2
  <2>2. CASE BySource(cs, i) = {}
    BY <2>2 DEF BySource
  <2>3. QED
    BY <2>1, <2>2
\* Where the source of a card after the batch comes from.
<1>9. ASSUME NEW c \in DOMAIN after
      PROVE  \/ c \in DOMAIN cs /\ after[c].source = cs[c].source
             \/ \E i \in incoming : /\ after[c].source = i.source /\ after[c].pan = i.pan
                                    /\ Matches(cs, i) \in SUBSET DOMAIN cs
                                    /\ c \in Matches(cs, i) \/ Matches(cs, i) = {}
  BY <1>5, <1>6 DEF Matches, BySource, ByPan
<1>10. ASSUME NEW c \in DOMAIN after, NEW d \in DOMAIN after, c # d
       PROVE  after[c].pan # after[d].pan
  <2>1. CASE c \in DOMAIN cs /\ d \in DOMAIN cs
    BY <2>1, <1>4, <1>5, <1>10
  <2>2. ASSUME NEW a \in DOMAIN cs, NEW b \in DOMAIN after \ DOMAIN cs
        PROVE  after[a].pan # after[b].pan
    <3>1. PICK i \in incoming : Matches(cs, i) = {} /\ after[b].pan = i.pan
      BY <1>6
    <3>2. cs[a].pan # i.pan
      BY <3>1, <1>7
    <3>3. QED
      BY <3>1, <3>2, <1>5
  <2>3. CASE c \notin DOMAIN cs /\ d \notin DOMAIN cs
    <3>1. PICK i \in incoming : after[c].pan = i.pan /\ ids[i] = c
      BY <1>6, <2>3
    <3>2. PICK j \in incoming : after[d].pan = j.pan /\ ids[j] = d
      BY <1>6, <2>3
    <3>3. i # j
      BY <3>1, <3>2, <1>10
    <3>4. QED
      BY <3>1, <3>2, <3>3, <1>2
  <2>4. QED
    BY <2>1, <2>2, <2>3
<1>11. ASSUME NEW c \in DOMAIN after, NEW d \in DOMAIN after, c # d, after[c].source # Unsaid
       PROVE  after[c].source # after[d].source
  <2>1. ASSUME NEW i \in incoming, NEW a \in DOMAIN after, NEW b \in DOMAIN cs, a # b,
               a \in Matches(cs, i) \/ Matches(cs, i) = {}
        PROVE  cs[b].source # i.source
    BY <2>1, <1>7, <1>8
  <2>2. ASSUME NEW i \in incoming, NEW j \in incoming, after[c].pan = i.pan, after[d].pan = j.pan
        PROVE  i.source # j.source
    BY <2>2, <1>10, <1>11, <1>2
  <2>3. CASE c \in DOMAIN cs /\ after[c].source = cs[c].source
    <3>1. CASE d \in DOMAIN cs /\ after[d].source = cs[d].source
      BY <2>3, <3>1, <1>4, <1>11
    <3>2. CASE \E i \in incoming : /\ after[d].source = i.source /\ after[d].pan = i.pan
                                   /\ d \in Matches(cs, i) \/ Matches(cs, i) = {}
      <4>1. PICK i \in incoming : /\ after[d].source = i.source /\ after[d].pan = i.pan
                                  /\ d \in Matches(cs, i) \/ Matches(cs, i) = {}
        BY <3>2
      <4>2. cs[c].source # i.source
        BY <4>1, <2>1, <2>3, <1>11
      <4>3. QED
        BY <4>1, <4>2, <2>3
    <3>3. QED
      BY <3>1, <3>2, <1>9
  <2>4. CASE \E i \in incoming : /\ after[c].source = i.source /\ after[c].pan = i.pan
                                 /\ c \in Matches(cs, i) \/ Matches(cs, i) = {}
    <3>1. PICK i \in incoming : /\ after[c].source = i.source /\ after[c].pan = i.pan
                                /\ c \in Matches(cs, i) \/ Matches(cs, i) = {}
      BY <2>4
    <3>2. CASE d \in DOMAIN cs /\ after[d].source = cs[d].source
      BY <3>1, <3>2, <2>1, <1>11
    <3>3. QED
      BY <3>1, <3>2, <2>2, <1>9
  <2>5. QED
    BY <2>3, <2>4, <1>9
<1>12. QED
  BY <1>1, <1>5, <1>6, <1>10, <1>11 DEF Unambiguous, incoming, after
-----------------------------------------------------------------------------
\* The cards of a vault are those of some ids.
LEMMA VaultCardsAre ==
  ASSUME NEW cs
  PROVE  cs \in VaultCards <=> DOMAIN cs \subseteq CardIds /\ cs \in [DOMAIN cs -> Card]
  BY DEF VaultCards

\* Every run starts without a vault.
LEMMA IdleRunTyped == IdleRun \in Run
<1>1. NoCards \in VaultCards
  BY VaultCardsAre DEF NoCards
<1>2. QED
  BY <1>1 DEF IdleRun, Run, ImportPlaces

\* A reconciliation leaves the vault as it is, or it is one of the vault's own
\* cards.
LEMMA SavedCards ==
  ASSUME ImportInv, NEW p \in Runs, NEW acknowledged \in BOOLEAN,
         ReconcileCards(p, acknowledged)
  PROVE  \/ UNCHANGED <<cards, vaultRev>>
         \/ /\ importer[p].rev = vaultRev /\ importer[p].seen = cards
            /\ Reconcilable(cards, CardsOf(importer[p].src))
            /\ \E ids \in FreshIds(cards, CardsOf(importer[p].src)) :
                 cards' = Reconciled(cards, CardsOf(importer[p].src), ids)
            /\ vaultRev' = vaultRev + 1 /\ vaultRev < MaxVaultRev
<1> DEFINE r == importer[p]
           incoming == CardsOf(r.src)
<1>1. /\ r.at = "consumed" /\ Reconcilable(r.seen, incoming)
      /\ \E ids \in FreshIds(r.seen, incoming) :
           \/ UNCHANGED <<cards, vaultRev>>
           \/ SaveCards(p, Reconciled(r.seen, incoming, ids))
  BY DEF ReconcileCards
<1> HIDE DEF incoming
<1>2. CASE UNCHANGED <<cards, vaultRev>>
  BY <1>2
<1>3. ASSUME NEW ids \in FreshIds(r.seen, incoming),
             SaveCards(p, Reconciled(r.seen, incoming, ids))
      PROVE  /\ r.rev = vaultRev /\ r.seen = cards
             /\ vaultRev' = vaultRev + 1 /\ vaultRev < MaxVaultRev
             /\ cards' = Reconciled(r.seen, incoming, ids)
  BY <1>1, <1>3 DEF SaveCards, ImportInv, SessionsInv, SessionPlaces
<1>4. QED
  BY <1>1, <1>2, <1>3 DEF incoming

-----------------------------------------------------------------------------
\* The types are kept by every step.
LEMMA ImportTypesStep ==
  ASSUME ImportInv, ImportNext
  PROVE  ImportTypeOK'
<1> USE DEF ImportTypeOK, Run
<1>1. ImportTypeOK /\ RunsInv
  BY DEF ImportInv
<1>a. IdleRun \in Run /\ cards \in VaultCards /\ NoCards \in VaultCards
  BY <1>1, IdleRunTyped, VaultCardsAre DEF IdleRun
<1>2. CASE SourcesChange
  BY <1>1, <1>2 DEF SourcesChange
<1>3. ASSUME NEW c \in CardIds, AddByHand(c)
      PROVE  ImportTypeOK'
  <2>1. PICK o \in Observation :
          /\ o.offering # Unsaid
          /\ cards' = [d \in DOMAIN cards \cup {c} |->
               IF d = c THEN [pan |-> o.pan, lifecycle |-> o.lifecycle, note |-> o.note,
                              source |-> Unsaid, offering |-> o.offering]
               ELSE cards[d]]
    BY <1>3 DEF AddByHand
  <2>2. [pan |-> o.pan, lifecycle |-> o.lifecycle, note |-> o.note,
         source |-> Unsaid, offering |-> o.offering] \in Card
    BY <2>1 DEF Observation, Card
  <2>3. DOMAIN cards' \subseteq CardIds /\ cards' \in [DOMAIN cards' -> Card]
    BY <1>1, <2>1, <2>2
  <2>4. byHand' \subseteq DOMAIN cards' /\ vaultRev' \in 0 .. MaxVaultRev
    BY <1>1, <1>3, <2>1 DEF AddByHand
  <2>5. QED
    BY <1>1, <1>3, <2>3, <2>4 DEF AddByHand
<1>4. ASSUME NEW p \in Runs, Preview(p)
      PROVE  ImportTypeOK'
  <2>1. [IdleRun EXCEPT !.at = "previewed", !.src = sources, !.rev = vaultRev] \in Run /\ IdleRun \in Run
    <3>1. 0 \in 0 .. MaxVaultRev /\ vaultRev \in 0 .. MaxVaultRev /\ sources \in Contents
      BY <1>1
    <3>2. IdleRun \in Run
      BY <1>a
    <3>3. "previewed" \in ImportPlaces
      BY DEF ImportPlaces
    <3>4. QED
      BY <3>1, <3>2, <3>3 DEF IdleRun
  <2>2. importer' \in [Runs -> Run]
    <3>1. \E x \in Run : importer' = [importer EXCEPT ![p] = x]
      BY <1>4, <2>1 DEF Preview
    <3> HIDE DEF Run
    <3>2. QED
      BY <1>1, <3>1
  <2>3. QED
    BY <1>1, <1>4, <2>2 DEF Preview
<1>5. ASSUME NEW p \in Runs, JournalPreview(p) \/ JournalPending(p) \/ JournalCommitted(p)
      PROVE  ImportTypeOK'
  <2>1. importer[p].src \in Contents /\ importer[p].rev \in 0 .. MaxVaultRev
    BY <1>1, <1>5 DEF RunsInv, JournalPreview, JournalPending, JournalCommitted
  <2>2. importer[p].at # "previewed" => importer[p].approved \in Plan
    BY <1>1, <1>5 DEF RunsInv, JournalPreview, JournalPending, JournalCommitted
  <2>3. journal' \in [state : {"preview", "pending", "committed"}, plan : Plan,
                      binding : Contents, rev : 0 .. MaxVaultRev]
    BY <1>5, <2>1, <2>2 DEF JournalPreview, JournalPending, JournalCommitted, JournalEntry, Plan
  <2>4. importer' \in [Runs -> Run]
    <3> HIDE DEF IdleRun
    <3>1. QED
      BY <1>1, <1>5, <1>a DEF JournalPreview, JournalPending, JournalCommitted, Step, End,
         ImportPlaces
  <2>5. QED
    BY <1>1, <1>5, <2>3, <2>4 DEF JournalPreview, JournalPending, JournalCommitted
<1>6. ASSUME NEW p \in Runs, NEW approved \in ShownPlans, NEW action \in ImportActions,
             BeginApply(p, approved, action)
      PROVE  ImportTypeOK'
  <2>1. approved \in Plan
    BY <1>1 DEF ShownPlans, Plan
  <2>2. QED
    BY <1>1, <1>6, <1>a, <2>1 DEF BeginApply, ImportPlaces
<1>7. ASSUME NEW p \in Runs, AcquireImport(p)
      PROVE  ImportTypeOK'
  BY <1>1, <1>7 DEF AcquireImport, Step, ImportPlaces
<1>8. ASSUME NEW p \in Runs, CheckApply(p)
      PROVE  ImportTypeOK'
  <2>1. PICK a : /\ a \in {importer[p].action, Unsaid}
                 /\ importer' = [importer EXCEPT ![p].at = "checked", ![p].src = sources, ![p].action = a]
    <3> DEFINE named == IF PendingPlan # {} THEN "consolidate_recover" ELSE "consolidate_apply"
               a == IF importer[p].action = named THEN importer[p].action ELSE Unsaid
    <3>1. importer' = [importer EXCEPT ![p].at = "checked", ![p].src = sources, ![p].action = a]
      BY <1>8 DEF CheckApply
    <3>2. a \in {importer[p].action, Unsaid}
      OBVIOUS
    <3> HIDE DEF a
    <3>3. QED
      BY <3>1, <3>2
  <2>2. importer' \in [Runs -> Run]
    <3>1. importer[p] \in Run /\ a \in ImportActions \cup {Unsaid} /\ sources \in Contents
      BY <1>1, <2>1
    <3>2. [importer[p] EXCEPT !.at = "checked", !.src = sources, !.action = a] \in Run
      BY <3>1 DEF ImportPlaces
    <3>3. importer' = [importer EXCEPT ![p] =
                         [importer[p] EXCEPT !.at = "checked", !.src = sources, !.action = a]]
      BY <1>1, <2>1
    <3> HIDE DEF Run
    <3>4. QED
      BY <1>1, <3>2, <3>3
  <2>3. QED
    BY <1>1, <1>8, <2>2 DEF CheckApply
<1>9. ASSUME NEW p \in Runs, ConsumeConsolidation(p)
      PROVE  ImportTypeOK'
  BY <1>1, <1>9 DEF ConsumeConsolidation, Step, ImportPlaces
<1>10. ASSUME NEW p \in Runs, NEW acknowledged \in BOOLEAN, ReconcileCards(p, acknowledged)
       PROVE  ImportTypeOK'
  <2>1. importer[p].src \in Contents
    BY <1>1, <1>10 DEF ReconcileCards, RunsInv
  <2>2. /\ DOMAIN cards \subseteq DOMAIN cards'
        /\ DOMAIN cards' \subseteq CardIds /\ cards' \in [DOMAIN cards' -> Card]
        /\ vaultRev' \in 0 .. MaxVaultRev
    <3>1. CASE UNCHANGED <<cards, vaultRev>>
      BY <1>1, <3>1
    <3>2. ASSUME Reconcilable(cards, CardsOf(importer[p].src)),
                 NEW ids \in FreshIds(cards, CardsOf(importer[p].src)),
                 cards' = Reconciled(cards, CardsOf(importer[p].src), ids),
                 vaultRev' = vaultRev + 1, vaultRev < MaxVaultRev
          PROVE  /\ DOMAIN cards \subseteq DOMAIN cards'
                 /\ DOMAIN cards' \subseteq CardIds /\ cards' \in [DOMAIN cards' -> Card]
                 /\ vaultRev' \in 0 .. MaxVaultRev
      <4>1. /\ DOMAIN cards' \subseteq CardIds /\ cards' \in [DOMAIN cards' -> Card]
        BY <1>1, <2>1, <3>2, ReconciledApart
      <4>2. DOMAIN cards \subseteq DOMAIN cards'
        BY <2>1, <3>2, ReconciledCards
      <4>3. QED
        BY <1>1, <3>2, <4>1, <4>2
    <3>3. QED
      BY <1>10, <3>1, <3>2, SavedCards
  <2>3. importer' \in [Runs -> Run] /\ lockedBy' \in Runs \cup {Unsaid}
    <3>1. CASE importer' = [importer EXCEPT ![p].at = "reconciled", ![p].seen = NoCards,
                              ![p].rev = IF cards' = cards THEN @ ELSE vaultRev']
      <4>1. PICK rev \in 0 .. MaxVaultRev :
              importer' = [importer EXCEPT ![p].at = "reconciled", ![p].seen = NoCards, ![p].rev = rev]
        <5> DEFINE rev == IF cards' = cards THEN importer[p].rev ELSE vaultRev'
        <5>1. rev \in 0 .. MaxVaultRev
          BY <1>1, <2>2
        <5>2. importer' = [importer EXCEPT ![p].at = "reconciled", ![p].seen = NoCards, ![p].rev = rev]
          BY <3>1
        <5> HIDE DEF rev
        <5>3. QED
          BY <5>1, <5>2
      <4>2. importer' \in [Runs -> Run]
        <5>1. [importer[p] EXCEPT !.at = "reconciled", !.seen = NoCards, !.rev = rev] \in Run
          BY <1>1, <1>a DEF ImportPlaces
        <5>2. importer' = [importer EXCEPT ![p] =
                [importer[p] EXCEPT !.at = "reconciled", !.seen = NoCards, !.rev = rev]]
          BY <1>1, <4>1
        <5> HIDE DEF Run
        <5>3. QED
          BY <1>1, <5>1, <5>2
      <4>3. lockedBy' \in Runs \cup {Unsaid}
        BY <1>1, <1>10 DEF ReconcileCards
      <4>4. QED
        BY <4>2, <4>3
    <3>2. CASE importer' = [importer EXCEPT ![p] = IdleRun] /\ lockedBy' = Unsaid
      <4> HIDE DEF IdleRun, Run
      <4>1. QED
        BY <1>1, <1>a, <3>2
    <3>3. QED
      BY <1>1, <1>10, <3>1, <3>2 DEF ReconcileCards, End
  <2>4. QED
    BY <1>1, <1>10, <2>1, <2>2, <2>3 DEF ReconcileCards
<1>11. ASSUME NEW p \in Runs, EndRun(p)
       PROVE  ImportTypeOK'
  <2> HIDE DEF IdleRun, Run
  <2>1. QED
    BY <1>1, <1>a, <1>11 DEF EndRun, End
<1>12. QED
  BY <1>2, <1>3, <1>4, <1>5, <1>6, <1>7, <1>8, <1>9, <1>10, <1>11 DEF ImportNext

\* What a run goes by, and what the journal says, after each step.
LEMMA RunsStep ==
  ASSUME ImportInv, ImportNext
  PROVE  RunsInv' /\ JournalInv' /\
         (journal' # Unsaid /\ journal'.state = "committed" => journal'.binding \in written')
<1> USE DEF JournalInv
<1>1. /\ ImportTypeOK /\ RunsInv /\ JournalInv
      /\ journal # Unsaid /\ journal.state = "committed" => journal.binding \in written
  BY DEF ImportInv, ImportsUnique
<1>2. importer \in [Runs -> Run] /\ sources \in Contents
  BY <1>1 DEF ImportTypeOK
<1>3. CASE SourcesChange \/ \E c \in CardIds : AddByHand(c)
  BY <1>1, <1>3 DEF SourcesChange, AddByHand, RunsInv
<1>4. ASSUME NEW p \in Runs, Preview(p)
      PROVE  RunsInv'
  BY <1>1, <1>2, <1>4 DEF Preview, RunsInv, IdleRun
<1>5. ASSUME NEW p \in Runs, JournalPreview(p)
      PROVE  RunsInv' /\ JournalInv' /\ journal'.state # "committed"
  BY <1>1, <1>2, <1>5 DEF JournalPreview, JournalEntry, End, RunsInv, IdleRun
<1>6. ASSUME NEW p \in Runs, NEW approved \in ShownPlans, NEW action \in ImportActions,
             BeginApply(p, approved, action)
      PROVE  RunsInv'
  <2>1. approved \in Plan
    BY <1>1 DEF ImportTypeOK, ShownPlans, Plan
  <2>2. QED
    BY <1>1, <1>2, <1>6, <2>1 DEF BeginApply, RunsInv
<1>7. ASSUME NEW p \in Runs, AcquireImport(p) \/ ConsumeConsolidation(p)
      PROVE  RunsInv'
  <2>1. CASE AcquireImport(p)
    BY <1>1, <1>2, <2>1 DEF AcquireImport, Step, RunsInv
  <2>2. CASE ConsumeConsolidation(p)
    BY <1>1, <1>2, <2>2 DEF ConsumeConsolidation, Step, RunsInv
  <2>3. QED
    BY <1>7, <2>1, <2>2
<1>8. ASSUME NEW p \in Runs, CheckApply(p)
      PROVE  RunsInv'
  <2>1. importer[p].approved.src = sources
    BY <1>1, <1>2, <1>8 DEF CheckApply, Approved, PendingPlan
  <2>2. PendingPlan = {} => importer[p].approved.rev = importer[p].rev
    BY <1>8 DEF CheckApply, Approved
  <2>3. /\ importer' = [importer EXCEPT ![p].at = "checked", ![p].src = sources,
             ![p].action = IF @ = (IF PendingPlan # {} THEN "consolidate_recover"
                                   ELSE "consolidate_apply") THEN @ ELSE Unsaid]
        /\ importer[p].at = "locked" /\ UNCHANGED written
    BY <1>8 DEF CheckApply
  <2>4. /\ importer'[p].src = sources /\ importer'[p].at = "checked"
        /\ importer'[p].approved = importer[p].approved /\ importer'[p].rev = importer[p].rev
        /\ importer'[p].action \notin {Unsaid, "consolidate_recover"} => PendingPlan = {}
        /\ \A q \in Runs \ {p} : importer'[q] = importer[q]
    BY <1>2, <2>3 DEF Run
  <2>5. QED
    BY <1>1, <1>2, <2>1, <2>2, <2>3, <2>4 DEF RunsInv
<1>9. ASSUME NEW p \in Runs, JournalPending(p)
      PROVE  RunsInv' /\ JournalInv' /\ journal'.state # "committed"
  BY <1>1, <1>2, <1>9 DEF JournalPending, JournalEntry, Step, RunsInv
<1>10. ASSUME NEW p \in Runs, NEW acknowledged \in BOOLEAN, ReconcileCards(p, acknowledged)
       PROVE  RunsInv'
  <2>1. importer[p].at = "consumed" /\ written' = written \cup {importer[p].src}
    BY <1>10 DEF ReconcileCards
  <2>2. ASSUME NEW rev,
               importer' = [importer EXCEPT ![p].at = "reconciled", ![p].seen = NoCards, ![p].rev = rev]
        PROVE  RunsInv'
    BY <1>1, <1>2, <2>1, <2>2 DEF RunsInv
  <2>3. CASE importer' = [importer EXCEPT ![p] = IdleRun]
    BY <1>1, <1>2, <2>1, <2>3 DEF RunsInv, IdleRun
  <2>4. QED
    BY <1>10, <2>2, <2>3 DEF ReconcileCards, End
<1>11. ASSUME NEW p \in Runs, JournalCommitted(p)
       PROVE  RunsInv' /\ JournalInv' /\ journal'.binding \in written'
  BY <1>1, <1>2, <1>11 DEF JournalCommitted, JournalEntry, Step, RunsInv
<1>12. ASSUME NEW p \in Runs, EndRun(p)
       PROVE  RunsInv'
  BY <1>1, <1>2, <1>12 DEF EndRun, End, RunsInv, IdleRun
<1>13. ASSUME UNCHANGED journal, written \subseteq written'
       PROVE  JournalInv' /\
              (journal' # Unsaid /\ journal'.state = "committed" => journal'.binding \in written')
  BY <1>1, <1>13
<1>14. QED
  BY <1>3, <1>4, <1>5, <1>6, <1>7, <1>8, <1>9, <1>10, <1>11, <1>12, <1>13
     DEF ImportNext, Preview, BeginApply, AcquireImport, ConsumeConsolidation, CheckApply,
         ReconcileCards, EndRun

\* A session has the vault's cards as long as the vault has its revision.
LEMMA SessionsStep ==
  ASSUME ImportInv, ImportNext
  PROVE  SessionsInv'
<1> USE DEF SessionPlaces
<1>1. SessionsInv /\ vaultRev \in Nat
  BY DEF ImportInv, ImportTypeOK
<1>2. importer \in [Runs -> Run] /\ \A p \in Runs : importer[p].rev \in Nat
  BY DEF ImportInv, ImportTypeOK, Run
\* A run that goes from one of these places to another keeps its session.
<1>3. ASSUME NEW p \in Runs, UNCHANGED <<cards, vaultRev>>,
             \A q \in Runs \ {p} : importer'[q] = importer[q],
             importer'[p].at \in SessionPlaces =>
               /\ importer[p].at \in SessionPlaces
               /\ importer'[p].rev = importer[p].rev /\ importer'[p].seen = importer[p].seen
      PROVE  SessionsInv'
  BY <1>1, <1>3 DEF SessionsInv
<1>4. ASSUME UNCHANGED importer, vaultRev' = vaultRev + 1
      PROVE  SessionsInv'
  BY <1>1, <1>2, <1>4 DEF SessionsInv
<1>5. CASE SourcesChange
  BY <1>1, <1>5 DEF SourcesChange, SessionsInv
<1>6. ASSUME NEW c \in CardIds, AddByHand(c)
      PROVE  SessionsInv'
  BY <1>4, <1>6 DEF AddByHand
<1>7. ASSUME NEW p \in Runs, Preview(p) \/ JournalPreview(p) \/ EndRun(p)
      PROVE  SessionsInv'
  <2>1. /\ UNCHANGED <<cards, vaultRev>> /\ importer'[p].at \in {"idle", "previewed"}
        /\ \A q \in Runs \ {p} : importer'[q] = importer[q]
    <3>1. ASSUME NEW x, x.at \in {"idle", "previewed"}, importer' = [importer EXCEPT ![p] = x]
          PROVE  /\ importer'[p].at \in {"idle", "previewed"}
                 /\ \A q \in Runs \ {p} : importer'[q] = importer[q]
      BY <1>2, <3>1
    <3> DEFINE begun == [IdleRun EXCEPT !.at = "previewed", !.src = sources, !.rev = vaultRev]
    <3>2. IdleRun.at = "idle" /\ begun.at = "previewed"
      BY DEF IdleRun
    <3>3. importer' = [importer EXCEPT ![p] = IdleRun] \/ importer' = [importer EXCEPT ![p] = begun]
      BY <1>7 DEF Preview, JournalPreview, EndRun, End
    <3>4. UNCHANGED <<cards, vaultRev>>
      BY <1>7 DEF Preview, JournalPreview, EndRun
    <3> HIDE DEF IdleRun, begun
    <3>5. QED
      BY <3>1, <3>2, <3>3, <3>4
  <2>2. QED
    BY <1>3, <2>1
<1>8. ASSUME NEW p \in Runs, NEW approved \in ShownPlans, NEW action \in ImportActions,
             BeginApply(p, approved, action)
      PROVE  SessionsInv'
  BY <1>1, <1>2, <1>8 DEF BeginApply, SessionsInv
<1>9. ASSUME NEW p \in Runs,
             AcquireImport(p) \/ CheckApply(p) \/ JournalPending(p)
               \/ ConsumeConsolidation(p) \/ JournalCommitted(p)
      PROVE  SessionsInv'
  <2>1. /\ UNCHANGED <<cards, vaultRev>>
        /\ \A q \in Runs \ {p} : importer'[q] = importer[q]
    BY <1>2, <1>9 DEF AcquireImport, CheckApply, JournalPending, ConsumeConsolidation,
       JournalCommitted, Step
  <2>2. importer'[p].at = "committed" \/ importer[p].at \in SessionPlaces
    BY <1>2, <1>9 DEF AcquireImport, CheckApply, JournalPending, ConsumeConsolidation,
       JournalCommitted, Step, Run
  <2>3. importer'[p].rev = importer[p].rev /\ importer'[p].seen = importer[p].seen
    BY <1>2, <1>9 DEF AcquireImport, CheckApply, JournalPending, ConsumeConsolidation,
       JournalCommitted, Step, Run
  <2>4. QED
    BY <1>3, <2>1, <2>2, <2>3
<1>10. ASSUME NEW p \in Runs, NEW acknowledged \in BOOLEAN, ReconcileCards(p, acknowledged)
       PROVE  SessionsInv'
  <2>1. /\ importer'[p].at \in {"reconciled", "idle"}
        /\ \A q \in Runs \ {p} : importer'[q] = importer[q]
    <3>1. CASE acknowledged
      BY <1>2, <1>10, <3>1 DEF ReconcileCards, Run
    <3>2. CASE ~acknowledged
      BY <1>2, <1>10, <3>2 DEF ReconcileCards, End, IdleRun
    <3>3. QED
      BY <3>1, <3>2
  <2>2. CASE UNCHANGED <<cards, vaultRev>>
    BY <1>3, <2>1, <2>2
  <2>3. CASE vaultRev' = vaultRev + 1
    BY <1>1, <1>2, <2>1, <2>3 DEF SessionsInv
  <2>4. QED
    BY <1>10, <2>2, <2>3, SavedCards
<1>11. QED
  BY <1>5, <1>6, <1>7, <1>8, <1>9, <1>10 DEF ImportNext

\* A stored card changes by a reconciliation only as far as it was not bound to
\* its source before.
LEMMA MergedCards ==
  ASSUME ImportInv, NEW p \in Runs, NEW acknowledged \in BOOLEAN,
         ReconcileCards(p, acknowledged), NEW c \in DOMAIN cards
  PROVE  /\ c \in DOMAIN cards'
         /\ \/ cards'[c] = cards[c]
            \/ /\ cards[c].source = Unsaid
               /\ cards'[c].note = cards[c].note \/ cards[c].note = Unsaid
               /\ cards'[c] = [cards[c] EXCEPT !.source = cards'[c].source,
                                               !.note = cards'[c].note]
               /\ \E i \in CardsOf(importer[p].src) :
                    /\ cards'[c].source = i.source /\ cards'[c].pan = i.pan
                    /\ i.note # Unsaid => cards'[c].note = i.note
<1> DEFINE src == importer[p].src
<1>1. src \in Contents
  BY DEF ReconcileCards, ImportInv, RunsInv
<1>2. CASE UNCHANGED <<cards, vaultRev>>
  BY <1>2
<1> SUFFICES ASSUME Reconcilable(cards, CardsOf(src)),
                    NEW ids \in FreshIds(cards, CardsOf(src)),
                    cards' = Reconciled(cards, CardsOf(src), ids)
             PROVE  /\ c \in DOMAIN cards'
                    /\ \/ cards'[c] = cards[c]
                       \/ /\ cards[c].source = Unsaid
                          /\ cards'[c].note = cards[c].note \/ cards[c].note = Unsaid
                          /\ cards'[c] = [cards[c] EXCEPT !.source = cards'[c].source,
                                                          !.note = cards'[c].note]
                          /\ \E i \in CardsOf(src) :
                               /\ cards'[c].source = i.source /\ cards'[c].pan = i.pan
                               /\ i.note # Unsaid => cards'[c].note = i.note
  BY <1>2, SavedCards
<1>3. cards[c] \in Card
  BY DEF ImportInv, ImportTypeOK
<1> HIDE DEF src
<1>4. /\ c \in DOMAIN cards'
      /\ \/ cards'[c] = cards[c]
         \/ \E i \in CardsOf(src) : c \in Matches(cards, i) /\ cards'[c] = Merged(cards[c], i)
  BY <1>1, ReconciledCards
<1>5. ASSUME NEW i \in CardsOf(src), c \in Matches(cards, i), cards'[c] = Merged(cards[c], i)
      PROVE  \/ cards'[c] = cards[c]
             \/ /\ cards[c].source = Unsaid
                /\ cards'[c].note = cards[c].note \/ cards[c].note = Unsaid
                /\ cards'[c] = [cards[c] EXCEPT !.source = cards'[c].source,
                                                !.note = cards'[c].note]
                /\ cards'[c].source = i.source /\ cards'[c].pan = i.pan
                /\ i.note # Unsaid => cards'[c].note = i.note
  <2>1. Compatible(cards[c], i)
    BY <1>5 DEF Reconcilable
  <2>2. cards'[c] = [cards[c] EXCEPT !.source = i.source,
                                     !.note = IF i.note = Unsaid THEN cards[c].note ELSE i.note]
    BY <1>5 DEF Merged
  <2>3. CASE cards[c].source = Unsaid
    <3>1. cards[c].note = i.note \/ Unsaid \in {cards[c].note, i.note}
      BY <2>1 DEF Compatible
    <3>2. cards[c].pan = i.pan
      BY <2>1 DEF Compatible
    <3>3. QED
      BY <1>3, <2>2, <2>3, <3>1, <3>2 DEF Card
  <2>4. CASE cards[c].source # Unsaid
    <3>1. cards[c].source = i.source
      BY <2>1, <2>4 DEF Compatible
    <3>2. PICK was \in Contents : \E j \in CardsOf(was) :
            cards[c].source = j.source /\ (j.note # Unsaid => cards[c].note = j.note)
      BY <2>4 DEF ImportInv, BoundCardsInv
    <3>3. PICK j \in CardsOf(was) :
            cards[c].source = j.source /\ (j.note # Unsaid => cards[c].note = j.note)
      BY <3>2
    <3>4. i.source = <<src, i.pan>> /\ j.source = <<was, j.pan>>
      BY <1>1, ReadCards
    <3>5. was = src /\ j.pan = i.pan
      <4>1. <<src, i.pan>> = <<was, j.pan>>
        BY <3>1, <3>3, <3>4
      <4>2. QED
        BY <4>1
    <3>6. j = i
      BY <1>1, <3>5, ReadCards
    <3>7. cards'[c] = [cards[c] EXCEPT !.source = cards[c].source, !.note = cards[c].note]
      BY <2>2, <3>1, <3>3, <3>6
    <3>8. QED
      BY <1>3, <3>7 DEF Card
  <2>5. QED
    BY <2>3, <2>4
<1>6. QED
  BY <1>4, <1>5

\* Cards that are bound, and cards that are told apart, after each step.
LEMMA CardsStep ==
  ASSUME ImportInv, ImportNext
  PROVE  /\ BoundCardsInv'
         /\ \A c, d \in DOMAIN cards' : c # d =>
              /\ cards'[c].source # Unsaid => cards'[c].source # cards'[d].source
              /\ cards'[c].pan = cards'[d].pan => {c, d} \cap byHand' # {}
<1>1. ImportTypeOK /\ BoundCardsInv /\ ImportsUnique
  BY DEF ImportInv
<1>2. ASSUME NEW c \in CardIds, AddByHand(c)
      PROVE  /\ BoundCardsInv'
             /\ \A e, d \in DOMAIN cards' : e # d =>
                  /\ cards'[e].source # Unsaid => cards'[e].source # cards'[d].source
                  /\ cards'[e].pan = cards'[d].pan => {e, d} \cap byHand' # {}
  <2>1. /\ DOMAIN cards' = DOMAIN cards \cup {c} /\ c \notin DOMAIN cards
        /\ cards'[c].source = Unsaid /\ \A d \in DOMAIN cards : cards'[d] = cards[d]
        /\ byHand' = byHand \cup {c}
    BY <1>2 DEF AddByHand
  <2>2. BoundCardsInv'
    BY <1>1, <2>1 DEF BoundCardsInv
  <2>3. QED
    BY <1>1, <2>1, <2>2 DEF ImportsUnique
<1>3. ASSUME NEW p \in Runs, NEW acknowledged \in BOOLEAN, ReconcileCards(p, acknowledged)
      PROVE  /\ BoundCardsInv'
             /\ \A c, d \in DOMAIN cards' : c # d =>
                  /\ cards'[c].source # Unsaid => cards'[c].source # cards'[d].source
                  /\ cards'[c].pan = cards'[d].pan => {c, d} \cap byHand' # {}
  <2> DEFINE src == importer[p].src
  <2>0. CASE UNCHANGED <<cards, vaultRev>>
    BY <1>1, <1>3, <2>0 DEF ReconcileCards, BoundCardsInv, ImportsUnique
  <2> SUFFICES ASSUME Reconcilable(cards, CardsOf(src)),
                      NEW ids \in FreshIds(cards, CardsOf(src)),
                      cards' = Reconciled(cards, CardsOf(src), ids)
               PROVE  /\ BoundCardsInv'
                      /\ \A c, d \in DOMAIN cards' : c # d =>
                           /\ cards'[c].source # Unsaid => cards'[c].source # cards'[d].source
                           /\ cards'[c].pan = cards'[d].pan => {c, d} \cap byHand' # {}
    BY <1>3, <2>0, SavedCards
  <2>1. src \in Contents
    BY <1>3 DEF ReconcileCards, ImportInv, RunsInv
  <2>3. Unambiguous(cards')
    BY <1>1, <2>1, ReconciledApart DEF ImportTypeOK
  <2>4. ASSUME NEW c \in DOMAIN cards', cards'[c].source # Unsaid
        PROVE  \E was \in Contents : \E i \in CardsOf(was) :
                 /\ cards'[c].source = i.source /\ cards'[c].pan = i.pan
                 /\ i.note # Unsaid => cards'[c].note = i.note
    <3>1. CASE c \in DOMAIN cards
      <4>1. CASE cards'[c] = cards[c]
        BY <1>1, <2>4, <3>1, <4>1 DEF BoundCardsInv
      <4>2. CASE cards'[c] # cards[c]
        <5>1. \E i \in CardsOf(src) : /\ cards'[c].source = i.source /\ cards'[c].pan = i.pan
                                      /\ i.note # Unsaid => cards'[c].note = i.note
          BY <1>3, <3>1, <4>2, MergedCards
        <5>2. QED
          BY <2>1, <5>1
      <4>3. QED
        BY <4>1, <4>2
    <3>2. CASE c \notin DOMAIN cards
      <4>1. PICK i \in CardsOf(src) : cards'[c] = NewCard(i)
        BY <2>1, <3>2, ReconciledCards
      <4>2. QED
        BY <2>1, <4>1 DEF NewCard
    <3>3. QED
      BY <3>1, <3>2
  <2>5. QED
    BY <2>3, <2>4 DEF BoundCardsInv, Unambiguous
<1>4. ASSUME UNCHANGED <<cards, byHand>>
      PROVE  /\ BoundCardsInv'
             /\ \A c, d \in DOMAIN cards' : c # d =>
                  /\ cards'[c].source # Unsaid => cards'[c].source # cards'[d].source
                  /\ cards'[c].pan = cards'[d].pan => {c, d} \cap byHand' # {}
  BY <1>1, <1>4 DEF BoundCardsInv, ImportsUnique
<1>5. QED
  BY <1>2, <1>3, <1>4 DEF ImportNext, SourcesChange, Preview, JournalPreview, BeginApply,
     AcquireImport, CheckApply, JournalPending, ConsumeConsolidation, JournalCommitted, EndRun

\* What is known of imports holds at the start and is kept.
THEOREM ImportInductive == ImportSpec => []ImportInv
<1>1. ImportInit => ImportInv
  <2> SUFFICES ASSUME ImportInit
               PROVE  ImportInv
    OBVIOUS
  <2>1. 0 \in 0 .. MaxVaultRev
    OBVIOUS
  <2>2. IdleRun \in Run /\ IdleRun.at = "idle"
    BY IdleRunTyped DEF IdleRun
  <2>3. DOMAIN cards = {} /\ cards \in [DOMAIN cards -> Card]
    BY DEF ImportInit, NoCards
  <2>4. ImportTypeOK
    <3> HIDE DEF Run, IdleRun
    <3>1. QED
      BY <2>1, <2>2, <2>3 DEF ImportInit, ImportTypeOK
  <2>5. RunsInv /\ SessionsInv
    BY <2>2 DEF ImportInit, RunsInv, SessionsInv, SessionPlaces
  <2>6. JournalInv /\ BoundCardsInv /\ ImportsUnique
    BY <2>3 DEF ImportInit, JournalInv, BoundCardsInv, ImportsUnique
  <2>7. QED
    BY <2>4, <2>5, <2>6 DEF ImportInv
<1>2. ImportInv /\ [ImportNext]_importVars => ImportInv'
  <2> SUFFICES ASSUME ImportInv, [ImportNext]_importVars
               PROVE  ImportInv'
    OBVIOUS
  <2>1. CASE ImportNext
    BY <2>1, ImportTypesStep, RunsStep, SessionsStep, CardsStep DEF ImportInv, ImportsUnique
  <2>2. CASE UNCHANGED importVars
    BY <2>2 DEF importVars, ImportInv, ImportTypeOK, RunsInv, SessionsInv, JournalInv,
       BoundCardsInv, ImportsUnique
  <2>3. QED
    BY <2>1, <2>2
<1>3. QED
  BY <1>1, <1>2, PTL DEF ImportSpec

\* Sources, vault, journal and the runs keep their types.
THEOREM ImportTyped == ImportSpec => []ImportTypeOK
<1>1. ImportInv => ImportTypeOK
  BY DEF ImportInv
<1>2. QED
  BY <1>1, ImportInductive, PTL

\* However plans are applied, die and are applied again, no card is imported
\* twice and a committed journal tells the truth.
THEOREM ImportedOnce == ImportSpec => []ImportsUnique
<1>1. ImportInv => ImportsUnique
  BY DEF ImportInv
<1>2. QED
  BY <1>1, ImportInductive, PTL

\* Whatever sources are imported, a card that is there keeps what it has.
THEOREM ImportsOnlyAdd == ImportSpec => ImportAddsOnly
<1>1. ASSUME ImportInv, ImportNext, NEW c \in DOMAIN cards
      PROVE  /\ c \in DOMAIN cards'
             /\ cards'[c] = cards[c] \/
                (/\ cards[c].source = Unsaid
                 /\ cards'[c].note = cards[c].note \/ cards[c].note = Unsaid
                 /\ cards'[c] = [cards[c] EXCEPT !.source = cards'[c].source,
                                                 !.note = cards'[c].note])
  <2>1. ASSUME NEW d \in CardIds, AddByHand(d)
        PROVE  c \in DOMAIN cards' /\ cards'[c] = cards[c]
    BY <2>1, <1>1 DEF AddByHand
  <2>2. QED
    BY <1>1, <2>1, MergedCards
       DEF ImportNext, SourcesChange, Preview, JournalPreview, BeginApply,
           AcquireImport, CheckApply, JournalPending, ConsumeConsolidation, JournalCommitted, EndRun
<1>2. ImportInv /\ [ImportNext]_importVars =>
        [\A c \in DOMAIN cards :
           /\ c \in DOMAIN cards'
           /\ cards'[c] = cards[c] \/
              (/\ cards[c].source = Unsaid
               /\ cards'[c].note = cards[c].note \/ cards[c].note = Unsaid
               /\ cards'[c] = [cards[c] EXCEPT !.source = cards'[c].source,
                                               !.note = cards'[c].note])]_importVars
  BY <1>1
<1>3. QED
  BY <1>2, ImportInductive, PTL DEF ImportSpec, ImportAddsOnly

\* What a run reconciles are the sources of the plan that was approved; what it
\* writes follows from the cards that are in the vault, on the revision the plan
\* was made for or in a recovery of it.
THEOREM ReconciledAsApproved == ImportSpec => AppliedAsApproved
<1>1. ASSUME ImportInv, NEW p \in Runs, NEW acknowledged \in BOOLEAN,
             ReconcileCards(p, acknowledged)
      PROVE  /\ importer[p].approved.src = importer[p].src
             /\ cards' # cards =>
                  /\ importer[p].seen = cards
                  /\ vaultRev = importer[p].approved.rev \/ importer[p].action = "consolidate_recover"
  <2>1. /\ importer[p].approved.src = importer[p].src
        /\ importer[p].rev = importer[p].approved.rev \/ importer[p].action = "consolidate_recover"
    BY <1>1 DEF ReconcileCards, ImportInv, RunsInv
  <2>2. cards' # cards => importer[p].seen = cards /\ importer[p].rev = vaultRev
    BY <1>1, SavedCards
  <2>3. QED
    BY <2>1, <2>2
<1>2. ImportInv =>
        [\A p \in Runs, acknowledged \in BOOLEAN :
           ReconcileCards(p, acknowledged) =>
             /\ importer[p].approved.src = importer[p].src
             /\ cards' # cards =>
                  /\ importer[p].seen = cards
                  /\ vaultRev = importer[p].approved.rev \/ importer[p].action = "consolidate_recover"
        ]_importVars
  BY <1>1
<1>3. QED
  BY <1>2, ImportInductive, PTL DEF AppliedAsApproved

=============================================================================
