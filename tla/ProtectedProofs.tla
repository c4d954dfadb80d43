---------------------------- MODULE ProtectedProofs ----------------------------
(***************************************************************************)
(* Proofs about the files vault/protected.py keeps beside the vault, for any  *)
(* number of attachments, backups, events, actors and days: AttachmentFiles,  *)
(* BackupRestore and AuditLog.                                               *)
(***************************************************************************)
EXTENDS AuditLog, BackupRestore, AttachmentFiles, FiniteSetTheorems, WellFoundedInduction,
        TLAPS

-----------------------------------------------------------------------------
(* Attachments *)

\* What the holder of the directory's lock has done so far.  An add works on a
\* file that no one has been told of; a purge on one that is over, without its
\* ciphertext.
FilerInv ==
  /\ filer.at = "idle" => filer = NoFiler
  /\ filer.at # "idle" => filer.file \in drawnFiles
  /\ filer.at \in {"adding", "sealed", "stored"} =>
       /\ filer.expiry \in FileDay
       /\ filer.file \notin cleaning \cup leftover \cup halved
       /\ \A k \in kept : k.file # filer.file
       /\ \A s \in served : s.file # filer.file
       /\ ciphertext[filer.file] = NoFile <=> filer.at = "adding"
       /\ IF filer.at = "stored" THEN metadata[filer.file] \in {filer.expiry, Corrupt}
          ELSE metadata[filer.file] = NoFile
  /\ filer.at = "purging" =>
       /\ ciphertext[filer.file] = NoFile
       /\ \A k \in kept : k.file = filer.file => Over(k.expiry)

\* An attachment whose add returned is never cleaned up after, its metadata is
\* what the add promised as long as it can be read, and it loses a file only
\* when it is over.
KeptInv ==
  \A k \in kept :
    /\ k.file \in drawnFiles \ (cleaning \cup leftover)
    /\ metadata[k.file] \in {k.expiry, Corrupt, NoFile}
    /\ NoFile \in {ciphertext[k.file], metadata[k.file]} => Over(k.expiry)
    /\ \A s \in served : s.file = k.file => s.day < k.expiry

\* An id that was not drawn has no files; a settled one has both or none, if its
\* purge did not end halfway; a read had its own bytes.
FilesInv ==
  /\ \A f \in Attachments \ drawnFiles : ciphertext[f] = NoFile /\ metadata[f] = NoFile
  /\ \A f \in Attachments : Settled(f) =>
       /\ ciphertext[f] # NoFile => metadata[f] # NoFile
       /\ metadata[f] # NoFile => ciphertext[f] # NoFile \/ f \in halved
  /\ \A f \in halved : ciphertext[f] = NoFile
  /\ \A s \in served : s.file \in drawnFiles /\ s.bytes = s.file

AttachmentsInv == AttachmentsTypeOK /\ FilerInv /\ KeptInv /\ FilesInv

USE FileDays, CorruptIsNoFile DEF attachmentVars, FileDay

\* The types are kept by every step.
LEMMA AttachmentsTypeOKStep ==
  ASSUME AttachmentsInv, AttachmentsNext
  PROVE  AttachmentsTypeOK'
<1> USE DEF AttachmentsTypeOK, Put, NoFiler
<1>1. AttachmentsTypeOK /\ FilerInv
  BY DEF AttachmentsInv
<1>2. CASE FileDayPasses
  BY <1>1, <1>2 DEF FileDayPasses
<1>3. CASE SealContent
  BY <1>1, <1>3 DEF SealContent, FilerInv
<1>4. CASE SealMetadata
  BY <1>1, <1>4 DEF SealMetadata, FilerInv
<1>5. CASE AnswerAdd
  BY <1>1, <1>5 DEF AnswerAdd, FilerInv
<1>6. CASE AddFails
  BY <1>1, <1>6 DEF AddFails, FilerInv
<1>7. CASE FilerDies
  BY <1>1, <1>7 DEF FilerDies, FilerInv
<1>8. CASE PurgeRest
  BY <1>1, <1>8 DEF PurgeRest, FilerInv
<1>9. ASSUME NEW f \in Attachments, Spoil(f) \/ SpoilMetadata(f)
      PROVE  AttachmentsTypeOK'
  BY <1>1, <1>9 DEF Spoil, SpoilMetadata
<1>10. ASSUME NEW f \in Attachments, ReadAttachment(f)
       PROVE  AttachmentsTypeOK'
  BY <1>1, <1>10 DEF ReadAttachment
<1>11. ASSUME NEW f \in Attachments, PurgeContent(f)
       PROVE  AttachmentsTypeOK'
  BY <1>1, <1>11 DEF PurgeContent
<1>12. ASSUME NEW f \in Attachments, NEW expiry \in 1 .. LastFileDay, AddAttachment(f, expiry)
       PROVE  AttachmentsTypeOK'
  BY <1>1, <1>12 DEF AddAttachment
<1>13. ASSUME NEW f \in Attachments, NEW first \in BOOLEAN, NEW second \in BOOLEAN,
              RemoveFiles(f, first, second)
       PROVE  AttachmentsTypeOK'
  BY <1>1, <1>13 DEF RemoveFiles
<1>14. QED
  BY <1>2, <1>3, <1>4, <1>5, <1>6, <1>7, <1>8, <1>9, <1>10, <1>11, <1>12, <1>13
     DEF AttachmentsNext

\* What everyone else knows of the files is kept by every step.
LEMMA AttachmentsInvStep ==
  ASSUME AttachmentsInv, AttachmentsNext
  PROVE  FilerInv' /\ KeptInv' /\ FilesInv'
<1> USE DEF AttachmentsTypeOK, AttachmentsInv, FilerInv, KeptInv, FilesInv, Settled, Over, Put, NoFiler
<1>2. CASE FileDayPasses
  BY <1>2 DEF FileDayPasses
<1>3. CASE SealContent
  BY <1>3 DEF SealContent
<1>4. CASE SealMetadata
  BY <1>4 DEF SealMetadata
<1>5. CASE AnswerAdd
  BY <1>5 DEF AnswerAdd
<1>6. CASE AddFails
  BY <1>6 DEF AddFails
<1>7. CASE FilerDies
  BY <1>7 DEF FilerDies
<1>8. CASE PurgeRest
  BY <1>8 DEF PurgeRest
<1>9. ASSUME NEW f \in Attachments, Spoil(f) \/ SpoilMetadata(f)
      PROVE  FilerInv' /\ KeptInv' /\ FilesInv'
  BY <1>9 DEF Spoil, SpoilMetadata
<1>10. ASSUME NEW f \in Attachments, ReadAttachment(f)
       PROVE  FilerInv' /\ KeptInv' /\ FilesInv'
  BY <1>10 DEF ReadAttachment, Trusted, MetadataValid
<1>11. ASSUME NEW f \in Attachments, PurgeContent(f)
       PROVE  FilerInv' /\ KeptInv' /\ FilesInv'
  BY <1>11 DEF PurgeContent, Trusted, MetadataValid
<1>12. ASSUME NEW f \in Attachments, NEW expiry \in 1 .. LastFileDay, AddAttachment(f, expiry)
       PROVE  FilerInv' /\ KeptInv' /\ FilesInv'
  BY <1>12 DEF AddAttachment
<1>13. ASSUME NEW f \in Attachments, NEW first \in BOOLEAN, NEW second \in BOOLEAN,
              RemoveFiles(f, first, second)
       PROVE  FilerInv' /\ KeptInv' /\ FilesInv'
  BY <1>13 DEF RemoveFiles
<1>14. QED
  BY <1>2, <1>3, <1>4, <1>5, <1>6, <1>7, <1>8, <1>9, <1>10, <1>11, <1>12, <1>13
     DEF AttachmentsNext

\* The invariant holds of every behaviour.
THEOREM AttachmentsInductive == AttachmentsSpec => []AttachmentsInv
<1>1. AttachmentsInit => AttachmentsInv
  BY DEF AttachmentsInit, AttachmentsInv, AttachmentsTypeOK, FilerInv, KeptInv, FilesInv, NoFiler
<1>2. AttachmentsInv /\ [AttachmentsNext]_attachmentVars => AttachmentsInv'
  <2>1. ASSUME AttachmentsInv, UNCHANGED attachmentVars
        PROVE  AttachmentsInv'
    BY <2>1 DEF AttachmentsInv, AttachmentsTypeOK, FilerInv, KeptInv, FilesInv, Settled, Over
  <2>2. QED
    BY <2>1, AttachmentsTypeOKStep, AttachmentsInvStep DEF AttachmentsInv
<1>3. QED
  BY <1>1, <1>2, PTL DEF AttachmentsSpec

\* The files of attachments, the helper at work on them and the histories keep
\* their types.
THEOREM AttachmentsTyped == AttachmentsSpec => []AttachmentsTypeOK
<1>1. AttachmentsInv => AttachmentsTypeOK
  BY DEF AttachmentsInv
<1>2. QED
  BY <1>1, AttachmentsInductive, PTL

\* AttachmentStore: through failures and crashes an attachment whose add returned
\* stays whole until it is over, and a read returns its own bytes in time.
THEOREM AttachmentsStayWhole == AttachmentsSpec => []AttachmentsWhole
<1>1. AttachmentsInv => AttachmentsWhole
  BY DEF AttachmentsInv, FilerInv, KeptInv, FilesInv, AttachmentsTypeOK, AttachmentsWhole, Settled, Over
<1>2. QED
  BY <1>1, AttachmentsInductive, PTL

-----------------------------------------------------------------------------
(* Restores and backups *)

\* A lease that is open was opened with its secret on the bytes it installed,
\* and has opened a session as soon as it was consumed, and no second one; the
\* file holds these bytes until another program touches it.
LeaseInv ==
  /\ lease.at # "none" =>
       /\ lease.content \in Bytes
       /\ ~tampered => vault = lease.content
  /\ lease.at \in {"open", "activating", "consumed"} => lease.content.opens = lease.secret
  /\ activated = <<>> \/ (activated = <<lease.content>> /\ lease.content.opens = lease.secret)
  /\ lease.at \in {"written", "open"} => activated = <<>>

\* What the rotation knows when a backup is in place and the others are not
\* removed yet: one that is later than those it joined is later than all others.
Newest(b) == b.serial = made /\ \A c \in backups \ {b} : c.mtime < b.mtime

\* A backup that has been read can still be written.  There are as many as are
\* kept, with the last one made if it is later than the others.
RotationInv ==
  /\ rotation.at = "read" => rotation.content \in Bytes /\ made < MaxBackups
  /\ rotation.at = "written" => made > 0
  /\ IsFiniteSet(backups) /\ Cardinality(backups) >= Fewer(Keep, made)
  /\ \A b \in backups : b.serial <= made
  /\ rotation.at = "written" /\ fresh => \E b \in backups : Newest(b)
  /\ made > 0 /\ fresh => \E b \in backups : b.serial = made

RestoreInv == RestoreTypeOK /\ LeaseInv /\ RotationInv

USE RestoreBounds DEF restoreVars, fileVars, backupVars, leaseVars

\* The types are kept by every step.
LEMMA RestoreTypeOKStep ==
  ASSUME RestoreInv, RestoreNext
  PROVE  RestoreTypeOK'
<1> USE DEF RestoreTypeOK, LeasePlaces
<1>1. RestoreTypeOK /\ LeaseInv /\ RotationInv
  BY DEF RestoreInv
<1>2. ASSUME NEW k \in Passphrases, SaveVault(k)
      PROVE  RestoreTypeOK'
  BY <1>1, <1>2 DEF SaveVault, Bytes
<1>3. ASSUME NEW content \in Bytes, NEW k \in Passphrases, Install(content, k)
      PROVE  RestoreTypeOK'
  <2>1. <<>> \in Seq(Bytes)
    OBVIOUS
  <2>2. lease' \in [at : LeasePlaces, content : Bytes \cup {NoBytes},
                    secret : Passphrases \cup {NoBytes}]
    BY <1>3 DEF Install
  <2>3. QED
    BY <1>1, <1>3, <2>1, <2>2 DEF Install
<1>4. ASSUME NEW k \in Passphrases, RestoreExport(k)
      PROVE  RestoreTypeOK'
  BY <1>1, <1>3, <1>4 DEF RestoreExport
<1>5. ASSUME NEW k \in Passphrases, NEW b \in backups, RestoreBackup(b, k)
      PROVE  RestoreTypeOK'
  BY <1>1, <1>3, <1>5 DEF RestoreBackup, Backup
<1>6. ASSUME NEW k \in Passphrases, NEW version \in 0 .. MaxSaves, ExportRecovery(version, k)
      PROVE  RestoreTypeOK'
  BY <1>1, <1>6 DEF ExportRecovery, Bytes
<1>7. ASSUME NEW k \in Passphrases, NEW mtime \in FileTimes, WriteBackup(k, mtime)
      PROVE  RestoreTypeOK'
  <2>1. made' \in 1 .. MaxBackups /\ fresh' \in BOOLEAN
    BY <1>1, <1>7 DEF WriteBackup, RotationInv
  <2>2. Sealed(rotation.content, k, mtime, made') \in Backup
    BY <1>1, <1>7, <2>1 DEF WriteBackup, RotationInv, Sealed, Backup
  <2>3. rotation' \in [at : {"idle", "read", "written"}, content : Bytes \cup {NoBytes}]
    BY <1>1, <1>7 DEF WriteBackup
  <2>4. QED
    BY <1>1, <1>7, <2>1, <2>2, <2>3 DEF WriteBackup
<1>8. ASSUME NEW content \in Bytes, NEW replaced \in BOOLEAN, Touch(content, replaced)
      PROVE  RestoreTypeOK'
  BY <1>1, <1>8 DEF Touch
<1>9. ASSUME NEW some \in SUBSET backups,
             ReadForBackup \/ PruneBackups(some) \/ BackupDies(some)
      PROVE  RestoreTypeOK'
  <2>1. rotation' \in [at : {"idle", "read", "written"}, content : Bytes \cup {NoBytes}]
    BY <1>1, <1>9 DEF ReadForBackup, PruneBackups, BackupDies, NoRotation
  <2>2. backups' \subseteq Backup
    BY <1>1, <1>9 DEF ReadForBackup, PruneBackups, BackupDies
  <2>3. UNCHANGED <<fileVars, leaseVars, export, made, fresh>>
    BY <1>9 DEF ReadForBackup, PruneBackups, BackupDies
  <2>4. QED
    BY <1>1, <2>1, <2>2, <2>3
<1>10. CASE OpenLease \/ RefuseLease \/ CloseLease
  BY <1>1, <1>10 DEF OpenLease, RefuseLease, CloseLease
<1>11. CASE ConsumeLease
  BY <1>1, <1>11 DEF ConsumeLease, LeaseInv
<1>12. CASE ConfirmLease
  <2>1. <<>> \in Seq(Bytes)
    OBVIOUS
  <2>2. lease' \in [at : LeasePlaces, content : Bytes \cup {NoBytes},
                    secret : Passphrases \cup {NoBytes}]
    BY <1>1, <1>12 DEF ConfirmLease
  <2>3. QED
    BY <1>1, <1>12, <2>1, <2>2 DEF ConfirmLease
<1>13. QED
  <2>1. {} \in SUBSET backups
    OBVIOUS
  <2>2. QED
    BY <1>2, <1>4, <1>5, <1>6, <1>7, <1>8, <1>9, <1>10, <1>11, <1>12, <2>1 DEF RestoreNext

\* A lease keeps to what it verified.
LEMMA LeaseInvStep ==
  ASSUME RestoreInv, RestoreNext
  PROVE  LeaseInv'
<1> USE DEF RestoreTypeOK, RestoreInv, LeaseInv
<1>1. ASSUME NEW k \in Passphrases, SaveVault(k)
      PROVE  LeaseInv'
  BY <1>1 DEF SaveVault, VaultLocked
<1>2. ASSUME NEW content \in Bytes, NEW k \in Passphrases, Install(content, k)
      PROVE  LeaseInv'
  BY <1>2 DEF Install
<1>3. ASSUME NEW k \in Passphrases, RestoreExport(k)
      PROVE  LeaseInv'
  BY <1>2, <1>3 DEF RestoreExport
<1>4. ASSUME NEW k \in Passphrases, NEW b \in backups, RestoreBackup(b, k)
      PROVE  LeaseInv'
  BY <1>2, <1>4 DEF RestoreBackup, Backup
<1>5. ASSUME NEW content \in Bytes, NEW replaced \in BOOLEAN, Touch(content, replaced)
      PROVE  LeaseInv'
  BY <1>5 DEF Touch
<1>6. CASE UNCHANGED <<fileVars, leaseVars>>
  BY <1>6
<1>7. CASE OpenLease \/ RefuseLease \/ CloseLease
  BY <1>7 DEF OpenLease, RefuseLease, CloseLease, LeasePlaces
<1>8. CASE ConsumeLease
  BY <1>8 DEF ConsumeLease, LeasePlaces
<1>9. CASE ConfirmLease
  BY <1>9 DEF ConfirmLease, LeasePlaces
<1>10. ASSUME NEW k, NEW version, NEW mtime, ExportRecovery(version, k) \/ WriteBackup(k, mtime)
       PROVE  LeaseInv'
  BY <1>6, <1>10 DEF ExportRecovery, WriteBackup
<1>11. ASSUME NEW some, ReadForBackup \/ PruneBackups(some) \/ BackupDies(some)
       PROVE  LeaseInv'
  BY <1>6, <1>11 DEF ReadForBackup, PruneBackups, BackupDies
<1>12. QED
  BY <1>1, <1>3, <1>4, <1>5, <1>7, <1>8, <1>9, <1>10, <1>11 DEF RestoreNext

\* The first of the sorted backups: there are some, and as many as are kept, and
\* the one that is later than all others is one of them.
LEMMA RotatedKeeps ==
  ASSUME RestoreInv, NEW newest \in SUBSET backups, Rotated(newest), rotation.at = "written"
  PROVE  /\ IsFiniteSet(newest) /\ Cardinality(newest) >= Fewer(Keep, made)
         /\ \A b \in backups : Newest(b) => b \in newest
<1>1. /\ IsFiniteSet(backups) /\ Cardinality(backups) >= Fewer(Keep, made)
      /\ made \in Nat /\ made > 0
  BY DEF RestoreInv, RotationInv, RestoreTypeOK
<1>2. Cardinality(backups) \in Nat
  BY <1>1, FS_CardinalityType
<1>3. IsFiniteSet(newest)
  BY <1>1, FS_Subset
<1>4. Cardinality(newest) >= Fewer(Keep, made) /\ Cardinality(newest) # 0
  BY <1>1, <1>2 DEF Rotated, Fewer
<1>5. PICK c : c \in newest
  BY <1>4, FS_EmptySet
<1>6. ASSUME NEW b \in backups, Newest(b), b \notin newest
      PROVE  FALSE
  <2>1. c.mtime >= b.mtime
    BY <1>5, <1>6 DEF Rotated, NewerThan
  <2>2. c.mtime < b.mtime
    BY <1>5, <1>6 DEF Newest
  <2>3. b.mtime \in Int /\ c.mtime \in Int
    BY <1>5 DEF RestoreInv, RestoreTypeOK, Backup, FileTimes
  <2>4. QED
    BY <2>1, <2>2, <2>3
<1>7. QED
  BY <1>3, <1>4, <1>6

\* The rotation keeps what it must, however it ends.
LEMMA RotationInvStep ==
  ASSUME RestoreInv, RestoreNext
  PROVE  RotationInv'
<1> USE DEF RestoreTypeOK, RestoreInv, RotationInv
<1>1. ASSUME NEW k \in Passphrases, NEW mtime \in FileTimes, WriteBackup(k, mtime)
      PROVE  RotationInv'
  <2>1. /\ made' = made + 1 /\ made \in Nat /\ rotation'.at = "written"
        /\ fresh' = \A c \in backups : c.mtime < mtime
    BY <1>1 DEF WriteBackup
  <2>2. PICK b : b.mtime = mtime /\ b.serial = made' /\ backups' = backups \cup {b}
    BY <1>1 DEF WriteBackup, Sealed
  <2>3. b \notin backups /\ \A c \in backups : c.serial <= made'
    BY <2>1, <2>2 DEF Backup
  <2>4. IsFiniteSet(backups') /\ Cardinality(backups') >= Fewer(Keep, made')
    <3>1. IsFiniteSet(backups') /\ Cardinality(backups') = Cardinality(backups) + 1
      BY <2>2, <2>3, FS_AddElement
    <3>2. Cardinality(backups) \in Nat
      BY FS_CardinalityType
    <3>3. QED
      BY <2>1, <3>1, <3>2 DEF Fewer
  <2>5. fresh' => Newest(b)'
    BY <2>1, <2>2 DEF Newest
  <2>6. b \in backups' /\ \A c \in backups' : c.serial <= made'
    BY <2>1, <2>2, <2>3
  <2>7. QED
    BY <2>1, <2>2, <2>4, <2>5, <2>6
<1>2. CASE ReadForBackup
  BY <1>2 DEF ReadForBackup
<1>3. ASSUME NEW left \in SUBSET backups, UNCHANGED <<made, fresh>>, rotation' = NoRotation,
             left = backups \/ (rotation.at = "written" /\ \E newest \in SUBSET left : Rotated(newest)),
             backups' = left
      PROVE  RotationInv'
  <2>1. rotation'.at = "idle"
    BY <1>3 DEF NoRotation
  <2>2. CASE left = backups
    BY <1>3, <2>1, <2>2
  <2>3. ASSUME rotation.at = "written", NEW newest \in SUBSET left, Rotated(newest)
        PROVE  RotationInv'
    <3>1. /\ IsFiniteSet(newest) /\ Cardinality(newest) >= Fewer(Keep, made)
          /\ \A b \in backups : Newest(b) => b \in newest
      BY <2>3, RotatedKeeps
    <3>2. IsFiniteSet(left) /\ Cardinality(newest) <= Cardinality(left)
      BY FS_Subset
    <3>3. Cardinality(newest) \in Nat /\ Cardinality(left) \in Nat /\ Fewer(Keep, made) \in Nat
      BY <3>1, <3>2, FS_CardinalityType DEF Fewer
    <3>4. made > 0 /\ fresh => \E b \in left : b.serial = made
      BY <2>3, <3>1 DEF Newest
    <3>5. QED
      BY <1>3, <2>1, <3>1, <3>2, <3>3, <3>4
  <2>4. QED
    BY <1>3, <2>2, <2>3
<1>4. ASSUME NEW some \in SUBSET backups, PruneBackups(some) \/ BackupDies(some)
      PROVE  RotationInv'
  BY <1>3, <1>4 DEF PruneBackups, BackupDies
<1>5. CASE UNCHANGED <<backups, rotation, made, fresh>>
  BY <1>5 DEF Newest
<1>6. ASSUME NEW k, NEW version, NEW b, NEW content, NEW replaced,
             \/ SaveVault(k) \/ ExportRecovery(version, k) \/ Touch(content, replaced)
             \/ RestoreBackup(b, k) \/ RestoreExport(k)
      PROVE  RotationInv'
  BY <1>5, <1>6 DEF SaveVault, ExportRecovery, Touch, RestoreBackup, RestoreExport, Install
<1>7. CASE OpenLease \/ RefuseLease \/ ConsumeLease \/ ConfirmLease \/ CloseLease
  BY <1>5, <1>7 DEF OpenLease, RefuseLease, ConsumeLease, ConfirmLease, CloseLease
<1>8. QED
  BY <1>1, <1>2, <1>4, <1>6, <1>7 DEF RestoreNext

\* The invariant holds of every behaviour.
THEOREM RestoreInductive == RestoreSpec => []RestoreInv
<1>1. RestoreInit => RestoreInv
  <2> SUFFICES ASSUME RestoreInit PROVE RestoreInv
    OBVIOUS
  <2>1. <<>> \in Seq(Bytes) /\ vault \in Bytes
    BY DEF RestoreInit, Bytes
  <2>2. RestoreTypeOK
    <3>1. /\ rotation \in [at : {"idle", "read", "written"}, content : Bytes \cup {NoBytes}]
          /\ lease \in [at : LeasePlaces, content : Bytes \cup {NoBytes},
                        secret : Passphrases \cup {NoBytes}]
      BY DEF RestoreInit, NoLease, NoRotation, LeasePlaces
    <3>2. saves \in 0 .. MaxSaves /\ touches \in 0 .. MaxTouches /\ made \in 0 .. MaxBackups
      BY DEF RestoreInit
    <3>3. QED
      BY <2>1, <3>1, <3>2 DEF RestoreInit, RestoreTypeOK
  <2>3. LeaseInv /\ RotationInv
    <3>1. IsFiniteSet({}) /\ Cardinality({}) = 0
      BY FS_EmptySet
    <3>2. QED
      BY <3>1 DEF RestoreInit, LeaseInv, RotationInv, NoLease, NoRotation, Fewer
  <2>4. QED
    BY <2>2, <2>3 DEF RestoreInv
<1>2. RestoreInv /\ [RestoreNext]_restoreVars => RestoreInv'
  <2>1. ASSUME RestoreInv, UNCHANGED restoreVars
        PROVE  RestoreInv'
    BY <2>1 DEF RestoreInv, RestoreTypeOK, LeaseInv, RotationInv, Newest
  <2>2. QED
    BY <2>1, RestoreTypeOKStep, LeaseInvStep, RotationInvStep DEF RestoreInv
<1>3. QED
  BY <1>1, <1>2, PTL DEF RestoreSpec

\* The vault's file, its backups, an export and the restore under way keep their
\* types.
THEOREM RestoreTyped == RestoreSpec => []RestoreTypeOK
<1>1. RestoreInv => RestoreTypeOK
  BY DEF RestoreInv
<1>2. QED
  BY <1>1, RestoreInductive, PTL

\* VerifiedRestoreLease and BackupManager: a lease opens one session, on what it
\* verified, no saver changes what it restored, and the rotation keeps as many
\* backups as it should, with the last one if that is later than the others.
THEOREM RestoresAreVerified == RestoreSpec => []RestoreVerified
<1>1. RestoreInv => RestoreVerified
  <2> SUFFICES ASSUME RestoreInv PROVE RestoreVerified
    OBVIOUS
  <2>1. CASE activated = <<>>
    BY <2>1 DEF RestoreInv, LeaseInv, RotationInv, RestoreVerified, VaultLocked
  <2>2. CASE activated = <<lease.content>>
    <3>1. Len(activated) = 1 /\ \A i \in DOMAIN activated : activated[i] = lease.content
      BY <2>2
    <3>2. lease.content.opens = lease.secret
      BY <2>2 DEF RestoreInv, LeaseInv
    <3>3. QED
      BY <3>1, <3>2 DEF RestoreInv, LeaseInv, RotationInv, RestoreVerified, VaultLocked
  <2>3. QED
    BY <2>1, <2>2 DEF RestoreInv, LeaseInv
<1>2. QED
  BY <1>1, RestoreInductive, PTL

-----------------------------------------------------------------------------
(* The audit log *)

Entries == AuditEvents \cup {Torn}
Distinct(l) == \A i, j \in DOMAIN l : i # j => l[i].id # l[j].id
InLog(l, deed) == \E e \in ToSet(l) : Deed(e) = deed

\* The log as it is without the transaction that is open, and whether it lacks
\* its last newline.
Base == IF logLock = NoActor THEN log ELSE actor[logLock].previous
BaseUnended == IF logLock = NoActor THEN unended ELSE actor[logLock].open

\* Everyone's state has its type, and nobody's event is of a day to come.
ActorTypes ==
  /\ DOMAIN actor = Actors
  /\ \A p \in Actors :
       /\ actor[p] \in [at : {"idle", "waiting", "open", "done", "failed", "purging"},
                        event : [id : AuditIds \cup {0}, kind : AuditKinds \cup {"torn"},
                                 at : AuditDays],
                        previous : Seq(Entries), open : BOOLEAN]
       /\ actor[p].event.at <= auditDay
       /\ actor[p].at \in {"waiting", "open", "done", "failed"} => actor[p].event \in AuditEvents
       /\ actor[p].at \in {"open", "done", "failed"} <=> logLock = p

\* Who has the lock has added at most one event to the log, or a torn one if the
\* append failed.  An action runs, and is done, with its event in, which ends its
\* line if it was not there before.
HolderInv ==
  logLock # NoActor =>
    LET a == actor[logLock] IN
    /\ \/ log = a.previous /\ unended = a.open
       \/ /\ log = Append(a.previous, a.event)
          /\ a.at \in {"open", "done"} => ~unended
       \/ a.at = "failed" /\ log = Append(a.previous, Torn)
    /\ a.at \in {"open", "done"} => InLog(log, Deed(a.event))
    /\ a.at = "done" => Deed(a.event) \in effects

\* Without the open transaction: every event was done or was left behind, only
\* what was left behind is torn or without its newline, and everything answered
\* is in or was dropped.  Of events that share a line one was left behind.
BaseInv ==
  /\ \A e \in ToSet(Base) \ {Torn} : Deed(e) \in effects \/ e.id \in cut
  /\ Torn \in ToSet(Base) => cut # {}
  /\ \A a \in answered : InLog(Base, a) \/ \E e \in dropped : Deed(e) = a
  /\ BaseUnended => Base # <<>> /\ (Last(Base) = Torn \/ Last(Base).id \in cut)
  /\ glued # {} => glued \cap cut # {}

LogInv ==
  /\ Distinct(log)
  /\ \A e \in dropped : Expired(e, auditDay)

AuditInv == AuditTypeOK /\ ActorTypes /\ HolderInv /\ BaseInv /\ LogInv

USE AuditBounds, AuditActors DEF auditVars, logFile, auditHistory, AuditDays

\* Induction up to N: a set with 0 in it, and with every number the next one.
LEMMA UpTo ==
  ASSUME NEW N \in Nat, NEW T, 0 \in T, \A n \in 0 .. N - 1 : n \in T => n + 1 \in T
  PROVE  \A n \in 0 .. N : n \in T
<1> DEFINE Less == {p \in Nat \X Nat : p[1] < p[2]}
           U == {n \in 0 .. N : n \notin T}
<1>1. SUFFICES ASSUME U # {} PROVE FALSE
  OBVIOUS
<1>2. IsWellFoundedOn(Less, Nat)
  <2>1. Less = OpToRel(<, Nat)
    BY DEF OpToRel
  <2>2. QED
    BY <2>1, NatLessThanWellFounded
<1>3. U \subseteq Nat
  OBVIOUS
<1>4. PICK x \in U : \A y \in U : <<y, x>> \notin Less
  <2> HIDE DEF U, Less
  <2>1. QED
    BY <1>1, <1>2, <1>3, WFMin
<1>5. x \in Nat /\ x <= N /\ x \notin T /\ x # 0
  BY <1>4
<1>6. x - 1 \in 0 .. N - 1 /\ (x - 1) + 1 = x
  BY <1>5
<1>7. x - 1 \in T
  <2>1. <<x - 1, x>> \in Less
    BY <1>5, <1>6
  <2>2. x - 1 \notin U
    BY <1>4, <2>1
  <2>3. QED
    BY <1>6, <2>2
<1>8. QED
  BY <1>5, <1>6, <1>7

\* What is in a sequence with one more element.
LEMMA ToSetAppend ==
  ASSUME NEW S, NEW s \in Seq(S), NEW x \in S
  PROVE  ToSet(Append(s, x)) = ToSet(s) \cup {x} /\ Append(s, x) \in Seq(S)
BY DEF ToSet

\* A sequence with distinct ids keeps them so with one that is not in it.
LEMMA DistinctAppend ==
  ASSUME NEW s \in Seq(Entries), Distinct(s), NEW x \in Entries,
         \A e \in ToSet(s) : e.id # x.id
  PROVE  Distinct(Append(s, x))
BY DEF ToSet, Distinct

\* An empty answer to a search means that there is no such id, for if there is
\* one on a line of its own there is a first.
LEMMA ExistingOf ==
  ASSUME NEW l \in Seq(Entries), NEW id
  PROVE  /\ \A e \in ExistingEvent(l, id) : e \in ToSet(l) /\ e.id = id
         /\ ExistingEvent(l, id) = {} /\ id \notin glued => \A e \in ToSet(l) : e.id # id
<1>1. \A e \in ExistingEvent(l, id) : e \in ToSet(l) /\ e.id = id
  BY DEF ExistingEvent, ToSet
<1>2. ASSUME NEW i \in DOMAIN l, l[i].id = id, id \notin glued
      PROVE  ExistingEvent(l, id) # {}
  <2> DEFINE found == {j \in DOMAIN l : l[j].id = id /\ id \notin glued}
             T == {n \in 0 .. Len(l) : \A j \in found : j > n}
  <2>1. Len(l) \in Nat /\ DOMAIN l = 1 .. Len(l) /\ Len(l) \notin T /\ 0 \in T
    BY <1>2
  <2>2. PICK n \in 0 .. Len(l) - 1 : n \in T /\ n + 1 \notin T
    <3> HIDE DEF T
    <3>1. Len(l) \in 0 .. Len(l)
      BY <2>1
    <3>2. QED
      BY <2>1, <3>1, UpTo
  <2>3. n + 1 \in found /\ \A j \in found : n + 1 <= j
    BY <2>1, <2>2
  <2>4. l[n + 1] \in ExistingEvent(l, id)
    BY <2>3 DEF ExistingEvent
  <2>5. QED
    BY <2>4
<1>3. QED
  BY <1>1, <1>2 DEF ToSet

\* With distinct ids, what is in the log on a line of its own is found.
LEMMA ExistingIs ==
  ASSUME NEW l \in Seq(Entries), Distinct(l), NEW e \in ToSet(l), e.id \notin glued
  PROVE  e \in ExistingEvent(l, e.id)
<1>1. PICK i \in DOMAIN l : l[i] = e
  BY DEF ToSet
<1>2. \A k \in DOMAIN l : l[k].id = e.id => k = i
  BY <1>1 DEF Distinct
<1>3. i \in Nat
  OBVIOUS
<1>4. QED
  BY <1>1, <1>2, <1>3 DEF ExistingEvent

\* What Remaining computes on the way.
Filtering(f, l, gone) ==
  f = [i \in 0 .. Len(l) |->
         IF i = 0 THEN <<>>
         ELSE IF l[i] \in gone THEN f[i - 1] ELSE Append(f[i - 1], l[i])]

\* A function that computes it step by step exists.
LEMMA FilteringExists ==
  ASSUME NEW l \in Seq(Entries), NEW gone
  PROVE  \E f : Filtering(f, l, gone)
<1> DEFINE Upto(f, n) ==
             f = [i \in 0 .. n |->
                    IF i = 0 THEN <<>>
                    ELSE IF l[i] \in gone THEN f[i - 1] ELSE Append(f[i - 1], l[i])]
           T == {n \in 0 .. Len(l) : \E f : Upto(f, n)}
<1>1. Len(l) \in Nat
  OBVIOUS
<1>2. 0 \in T
  <2>1. Upto([i \in 0 .. 0 |-> <<>>], 0)
    OBVIOUS
  <2>2. \E f : Upto(f, 0)
    <3> HIDE DEF Upto
    <3>1. QED
      BY <2>1
  <2>3. QED
    BY <1>1, <2>2
<1>3. ASSUME NEW n \in 0 .. Len(l) - 1, n \in T
      PROVE  n + 1 \in T
  <2>1. PICK f : Upto(f, n)
    BY <1>3
  <2> DEFINE g == [i \in 0 .. n + 1 |->
                     IF i <= n THEN f[i]
                     ELSE IF l[i] \in gone THEN f[i - 1] ELSE Append(f[i - 1], l[i])]
  <2>2. n \in Nat /\ n + 1 \in 0 .. Len(l)
    BY <1>1
  <2>3. \A i \in 0 .. n : g[i] = f[i]
    BY <2>2
  <2>4. ASSUME NEW i \in 0 .. n + 1
        PROVE  g[i] = IF i = 0 THEN <<>>
                      ELSE IF l[i] \in gone THEN g[i - 1] ELSE Append(g[i - 1], l[i])
    <3>1. i = 0 \/ i - 1 \in 0 .. n
      BY <2>2
    <3>2. CASE i <= n
      <4>1. i \in 0 .. n
        BY <2>2, <3>2
      <4>2. f[i] = IF i = 0 THEN <<>>
                   ELSE IF l[i] \in gone THEN f[i - 1] ELSE Append(f[i - 1], l[i])
        BY <2>1, <4>1, Zenon
      <4>3. QED
        BY <2>2, <2>3, <3>1, <3>2, <4>2
    <3>3. CASE ~(i <= n)
      BY <2>2, <2>3, <3>1, <3>3
    <3>4. QED
      BY <3>2, <3>3
  <2>5. Upto(g, n + 1)
    BY <2>4
  <2>6. \E h : Upto(h, n + 1)
    <3> HIDE DEF Upto, g
    <3>1. QED
      BY <2>5
  <2>7. QED
    BY <2>2, <2>6
<1>4. Len(l) \in T
  <2> HIDE DEF T
  <2>1. Len(l) \in 0 .. Len(l)
    BY <1>1
  <2>2. QED
    BY <1>1, <1>2, <1>3, <2>1, UpTo
<1>5. QED
  BY <1>4 DEF Filtering

\* The events of a log that are not gone, in an order that keeps ids distinct.
LEMMA RemainingIs ==
  ASSUME NEW l \in Seq(Entries), NEW gone
  PROVE  LET r == Remaining(l, gone) IN
         /\ r \in Seq(Entries) /\ Len(r) <= Len(l)
         /\ ToSet(r) = ToSet(l) \ gone
         /\ Distinct(l) => Distinct(r)
<1>1. PICK f : Filtering(f, l, gone) /\ Remaining(l, gone) = f[Len(l)]
  <2>1. Remaining(l, gone) = (CHOOSE f : Filtering(f, l, gone))[Len(l)]
    BY DEF Remaining, Filtering
  <2>2. QED
    BY <2>1, FilteringExists
<1> DEFINE Good(n) ==
             /\ f[n] \in Seq(Entries) /\ Len(f[n]) <= n
             /\ ToSet(f[n]) = {l[i] : i \in 1 .. n} \ gone
             /\ Distinct(l) => Distinct(f[n])
           T == {n \in 0 .. Len(l) : Good(n)}
<1>2. /\ Len(l) \in Nat /\ DOMAIN l = 1 .. Len(l)
      /\ \A i \in 0 .. Len(l) :
           f[i] = IF i = 0 THEN <<>>
                  ELSE IF l[i] \in gone THEN f[i - 1] ELSE Append(f[i - 1], l[i])
  <2>1. Filtering(f, l, gone)
    BY <1>1
  <2>2. ASSUME NEW i \in 0 .. Len(l)
        PROVE  f[i] = IF i = 0 THEN <<>>
                      ELSE IF l[i] \in gone THEN f[i - 1] ELSE Append(f[i - 1], l[i])
    BY <2>1, Zenon DEF Filtering
  <2>3. QED
    BY <2>2
<1>3. 0 \in T
  <2>1. f[0] = <<>> /\ 0 \in 0 .. Len(l)
    BY <1>2
  <2>2. ToSet(<<>>) = {} /\ Distinct(<<>>)
    BY DEF ToSet, Distinct
  <2>3. <<>> \in Seq(Entries) /\ Len(<<>>) = 0 /\ {l[i] : i \in 1 .. 0} = {}
    OBVIOUS
  <2>4. Len(f[0]) <= 0 /\ ToSet(f[0]) = {l[i] : i \in 1 .. 0} \ gone
    BY <2>1, <2>2, <2>3
  <2>5. f[0] \in Seq(Entries) /\ Distinct(f[0])
    BY <2>1, <2>2, <2>3
  <2>6. QED
    BY <2>1, <2>4, <2>5
<1>4. ASSUME NEW n \in 0 .. Len(l) - 1, n \in T
      PROVE  n + 1 \in T
  <2>1. n \in Nat /\ n + 1 \in 1 .. Len(l) /\ n + 1 \in 0 .. Len(l) /\ l[n + 1] \in Entries
    BY <1>2
  <2>2. f[n + 1] = IF l[n + 1] \in gone THEN f[n] ELSE Append(f[n], l[n + 1])
    <3>1. n + 1 # 0 /\ (n + 1) - 1 = n
      BY <2>1
    <3>2. QED
      BY <1>2, <2>1, <3>1
  <2>3. {l[i] : i \in 1 .. n + 1} = {l[i] : i \in 1 .. n} \cup {l[n + 1]}
    BY <2>1
  <2>4. CASE l[n + 1] \in gone
    BY <1>4, <2>1, <2>2, <2>3, <2>4
  <2>5. CASE l[n + 1] \notin gone
    <3>1. f[n + 1] = Append(f[n], l[n + 1]) /\ f[n] \in Seq(Entries)
      BY <1>4, <2>2, <2>5
    <3>2. Len(f[n + 1]) <= n + 1 /\ f[n + 1] \in Seq(Entries)
      BY <1>4, <2>1, <3>1
    <3>3. ToSet(f[n + 1]) = {l[i] : i \in 1 .. n + 1} \ gone
      BY <1>4, <2>1, <2>3, <2>5, <3>1, ToSetAppend
    <3>4. ASSUME Distinct(l)
          PROVE  Distinct(f[n + 1])
      <4>1. \A i \in 1 .. n : l[i].id # l[n + 1].id
        BY <1>2, <2>1, <3>4 DEF Distinct
      <4>2. \A e \in ToSet(f[n]) : e.id # l[n + 1].id
        BY <1>4, <4>1
      <4>3. QED
        BY <1>4, <2>1, <3>1, <3>4, <4>2, DistinctAppend
    <3>5. QED
      BY <2>1, <3>2, <3>3, <3>4
  <2>6. QED
    BY <2>4, <2>5
<1>5. Good(Len(l))
  <2>1. Len(l) \in 0 .. Len(l)
    BY <1>2
  <2>2. Len(l) \in T
    <3> HIDE DEF T
    <3>1. QED
      BY <1>2, <1>3, <1>4, <2>1, UpTo
  <2>3. QED
    BY <2>2
<1>6. ToSet(l) = {l[i] : i \in 1 .. Len(l)}
  BY <1>2 DEF ToSet
<1>7. QED
  BY <1>1, <1>5, <1>6

Place == {"idle", "waiting", "open", "done", "failed", "purging"}
Happening == [id : AuditIds \cup {0}, kind : AuditKinds \cup {"torn"}, at : AuditDays]
ActorType == [at : Place, event : Happening, previous : Seq(Entries), open : BOOLEAN]

\* A step of one actor that keeps the lock where it is.
LEMMA OneActor ==
  ASSUME ActorTypes, NEW p \in Actors, NEW a \in ActorType,
         actor' = [actor EXCEPT ![p] = a], UNCHANGED <<logLock, auditDay>>,
         a.event.at <= auditDay,
         a.at \in {"waiting", "open", "done", "failed"} => a.event \in AuditEvents,
         a.at \in {"open", "done", "failed"} <=> logLock = p
  PROVE  ActorTypes'
BY DEF ActorTypes, ActorType, Place, Happening

\* The same for one that takes the lock, or lets it go.
LEMMA OneHolder ==
  ASSUME ActorTypes, NEW p \in Actors, NEW a \in ActorType,
         actor' = [actor EXCEPT ![p] = a], UNCHANGED auditDay,
         a.event.at <= auditDay,
         a.at \in {"waiting", "open", "done", "failed"} => a.event \in AuditEvents,
         IF a.at \in {"open", "done", "failed"} THEN logLock = NoActor /\ logLock' = p
         ELSE logLock = p /\ logLock' = NoActor
  PROVE  ActorTypes'
BY DEF ActorTypes, ActorType, Place, Happening

\* An actor at rest has its type.
LEMMA RestingType ==
  /\ Resting \in ActorType /\ Resting.at = "idle" /\ Resting.event = Torn
  /\ auditDay \in Nat => Torn.at <= auditDay
  /\ Torn \in Entries /\ Torn \notin AuditEvents
  /\ \A e \in Entries : e.id \in AuditIds \cup {Torn.id}
<1>1. <<>> \in Seq(Entries)
  OBVIOUS
<1>2. Torn \in Happening
  BY DEF Torn, Happening
<1>3. QED
  BY <1>1, <1>2 DEF Resting, ActorType, Place, Torn, Entries, AuditEvents, AuditIds

\* Everyone keeps a state of its type, and the lock is with who has it.
LEMMA ActorTypesStep ==
  ASSUME AuditInv, AuditNext
  PROVE  ActorTypes'
<1>1. ActorTypes /\ auditDay \in Nat /\ purges \in 0 .. MaxPurges /\ log \in Seq(Entries)
      /\ unended \in BOOLEAN
  BY DEF AuditInv, AuditTypeOK, Entries
<1>2. \A p \in Actors : actor[p] \in ActorType
  BY <1>1 DEF ActorTypes, ActorType, Place, Happening
<1>3. CASE AuditDayPasses
  BY <1>1, <1>3 DEF AuditDayPasses, ActorTypes
<1>4. ASSUME NEW p \in Actors, NEW id \in 1 .. CallerIds, NEW kind \in Kinds,
             BeginAction(p, id, kind)
      PROVE  ActorTypes'
  <2> DEFINE a == [Resting EXCEPT !.at = "waiting",
                     !.event = [id |-> id, kind |-> kind, at |-> auditDay]]
  <2>1. a.event \in AuditEvents /\ a.event.at = auditDay /\ a.at = "waiting"
    BY <1>4 DEF Resting, AuditEvents, AuditIds, AuditKinds, AuditTypeOK, AuditInv
  <2>2. a \in ActorType
    BY <2>1, RestingType DEF ActorType, Place, Happening, AuditEvents, Resting
  <2>3. logLock # p
    BY <1>1, <1>4 DEF BeginAction, ActorTypes
  <2>4. actor' = [actor EXCEPT ![p] = a] /\ UNCHANGED <<logLock, auditDay>>
    BY <1>4 DEF BeginAction
  <2>5. a.event.at <= auditDay /\ ~(a.at \in {"open", "done", "failed"})
    BY <1>1, <2>1
  <2> HIDE DEF a
  <2>6. QED
    BY <1>1, <2>1, <2>2, <2>3, <2>4, <2>5, OneActor
<1>5. ASSUME NEW p \in Actors, NEW at \in {"open", "failed"}, Gets(p, at)
      PROVE  ActorTypes'
  <2> DEFINE a == [actor[p] EXCEPT !.at = at, !.previous = log, !.open = unended]
  <2>1. a \in ActorType /\ a.event = actor[p].event /\ a.at = at
    BY <1>1, <1>2 DEF ActorType, Place
  <2>2. actor' = [actor EXCEPT ![p] = a]
    BY <1>1, <1>5 DEF Gets, ActorTypes
  <2>3. a.event.at <= auditDay /\ a.event \in AuditEvents
    BY <1>1, <1>5, <2>1 DEF Gets, ActorTypes
  <2>4. QED
    BY <1>1, <1>5, <2>1, <2>2, <2>3, OneHolder DEF Gets
<1>6. ASSUME NEW p \in Actors, actor' = [actor EXCEPT ![p] = Resting], logLock # p,
             UNCHANGED <<logLock, auditDay>>
      PROVE  ActorTypes'
  BY <1>1, <1>6, RestingType, OneActor
<1>7. ASSUME NEW p \in Actors, actor' = [actor EXCEPT ![p] = Resting], logLock = p,
             logLock' = NoActor, UNCHANGED auditDay
      PROVE  ActorTypes'
  BY <1>1, <1>7, RestingType, OneHolder
<1>8. ASSUME NEW p \in Actors, ReplayAction(p) \/ AppendAction(p) \/ \E whole \in BOOLEAN : TearAction(p, whole)
      PROVE  ActorTypes'
  BY <1>5, <1>8 DEF ReplayAction, AppendAction, TearAction
<1>9. ASSUME NEW p \in Actors, RefuseAction(p) \/ PurgeRefused(p)
      PROVE  ActorTypes'
  BY <1>6, <1>9 DEF RefuseAction, PurgeRefused
<1>10. ASSUME NEW p \in Actors, Act(p) \/ ActFails(p)
       PROVE  ActorTypes'
  <2>1. PICK at \in {"done", "failed"} : actor' = [actor EXCEPT ![p].at = at]
    BY <1>10 DEF Act, ActFails
  <2> DEFINE a == [actor[p] EXCEPT !.at = at]
  <2>2. a \in ActorType /\ a.event = actor[p].event /\ a.at = at
    BY <1>2 DEF ActorType, Place
  <2>3. actor' = [actor EXCEPT ![p] = a] /\ actor[p].at = "open" /\ UNCHANGED <<logLock, auditDay>>
    BY <1>1, <1>10, <2>1 DEF ActorTypes, Act, ActFails
  <2>4. a.event.at <= auditDay /\ a.event \in AuditEvents /\ logLock = p
    BY <1>1, <2>2, <2>3 DEF ActorTypes
  <2>5. QED
    BY <1>1, <2>2, <2>3, <2>4, OneActor
<1>11. ASSUME NEW p \in Actors, Answer(p) \/ TakeBack(p)
       PROVE  ActorTypes'
  <2>1. logLock = p
    BY <1>1, <1>11 DEF Answer, TakeBack, ActorTypes
  <2>2. QED
    BY <1>7, <1>11, <2>1 DEF Answer, TakeBack, LetGo
<1>12. ASSUME NEW p \in Actors, LeftBehind(p)
       PROVE  ActorTypes'
  BY <1>6, <1>7, <1>12 DEF LeftBehind
<1>13. ASSUME NEW p \in Actors, BeginPurge(p)
       PROVE  ActorTypes'
  <2> DEFINE a == [Resting EXCEPT !.at = "purging", !.event.at = auditDay]
  <2>1. a.event \in Happening
    BY DEF AuditInv, AuditTypeOK, Resting, Torn, Happening
  <2>2. a \in ActorType /\ a.event.at = auditDay /\ a.at = "purging"
    BY <2>1, RestingType DEF ActorType, Place, Resting, Torn
  <2>3. logLock # p
    BY <1>1, <1>13 DEF BeginPurge, ActorTypes
  <2>4. actor' = [actor EXCEPT ![p] = a] /\ UNCHANGED <<logLock, auditDay>>
    BY <1>13 DEF BeginPurge
  <2>5. a.event.at <= auditDay /\ a.at \notin {"waiting", "open", "done", "failed"}
    BY <1>1, <2>2
  <2> HIDE DEF a
  <2>6. QED
    BY <1>1, <2>2, <2>3, <2>4, <2>5, OneActor
<1>14. ASSUME NEW p \in Actors, PurgeLog(p)
       PROVE  ActorTypes'
  <2> DEFINE a == [Resting EXCEPT !.at = "waiting",
                     !.event = [id |-> CallerIds + purges', kind |-> "purge", at |-> auditDay]]
  <2>1. logLock # p /\ UNCHANGED <<logLock, auditDay>>
    BY <1>14 DEF PurgeLog
  <2>2. CASE actor' = [actor EXCEPT ![p] = Resting]
    BY <1>6, <2>1, <2>2
  <2>3. CASE purges < MaxPurges /\ purges' = purges + 1 /\ actor' = [actor EXCEPT ![p] = a]
    <3>1. CallerIds + purges' \in AuditIds
      BY <1>1, <2>3 DEF AuditIds
    <3>2. a.event \in AuditEvents /\ a.event.at = auditDay /\ a.at = "waiting"
      BY <3>1 DEF Resting, AuditEvents, AuditKinds, AuditTypeOK, AuditInv
    <3>3. a \in ActorType
      BY <3>2, RestingType DEF ActorType, Place, Happening, AuditEvents, Resting
    <3>4. a.event.at <= auditDay /\ ~(a.at \in {"open", "done", "failed"})
      BY <1>1, <3>2
    <3> HIDE DEF a
    <3>5. QED
      BY <1>1, <2>1, <2>3, <3>2, <3>3, <3>4, OneActor
  <2>4. QED
    BY <1>14, <2>2, <2>3 DEF PurgeLog
<1>15. QED
  BY <1>3, <1>4, <1>8, <1>9, <1>10, <1>11, <1>12, <1>13, <1>14 DEF AuditNext

\* The types of all but the actors.
LogTypes ==
  /\ log \in Seq(Entries) /\ Len(log) <= LogCapacity
  /\ unended \in BOOLEAN /\ glued \subseteq AuditIds \cup {Torn.id}
  /\ logLock \in Actors \cup {NoActor}
  /\ auditDay \in AuditDays /\ purges \in 0 .. MaxPurges
  /\ effects \cup answered \subseteq [id : AuditIds, kind : AuditKinds]
  /\ dropped \subseteq AuditEvents /\ cut \subseteq AuditIds

LogRest == LogTypes /\ HolderInv /\ BaseInv /\ LogInv

\* What an event records has its type, and no event is the torn line.
LEMMA DeedType ==
  ASSUME NEW e \in AuditEvents
  PROVE  Deed(e) \in [id : AuditIds, kind : AuditKinds] /\ e.id \in AuditIds /\ e.id # Torn.id
BY DEF Deed, AuditEvents, AuditIds, Torn

\* What one does without the lock, and the days, leave the log alone.
LEMMA Elsewhere ==
  ASSUME LogRest, ActorTypes, UNCHANGED <<logFile, logLock, purges, auditHistory>>,
         auditDay' \in AuditDays, auditDay <= auditDay',
         logLock # NoActor => actor'[logLock] = actor[logLock]
  PROVE  LogRest'
<1>1. Base' = Base /\ BaseUnended' = BaseUnended
  BY DEF Base, BaseUnended
<1>2. BaseInv' /\ HolderInv'
  BY <1>1 DEF LogRest, BaseInv, HolderInv
<1>3. LogTypes'
  BY DEF LogRest, LogTypes
<1>4. LogInv'
  <2>1. ASSUME NEW e \in dropped
        PROVE  Expired(e, auditDay')
    <3>1. e.at \in Int /\ Expired(e, auditDay)
      BY DEF LogRest, LogTypes, LogInv, AuditEvents
    <3>2. QED
      BY <3>1 DEF Expired, LogRest, LogTypes
  <2>2. QED
    BY <2>1 DEF LogRest, LogInv
<1>5. QED
  BY <1>2, <1>3, <1>4 DEF LogRest

\* One takes the lock: the log so far is what the transaction goes back to.
LEMMA Taken ==
  ASSUME LogRest, ActorTypes, NEW p \in Actors, NEW at \in {"open", "failed"}, Gets(p, at),
         \/ UNCHANGED logFile /\ InLog(log, Deed(actor[p].event))
         \/ /\ \/ Written(actor[p].event) /\ (at = "open" => unended' = FALSE)
               \/ Written(Torn) /\ at = "failed"
            /\ unended' \in BOOLEAN
            /\ Appendable(actor[p].event)
  PROVE  LogRest'
<1> DEFINE event == actor[p].event
<1>1. /\ event \in AuditEvents /\ event \in Entries /\ log \in Seq(Entries) /\ logLock = NoActor
      /\ logLock' = p /\ logLock' # NoActor /\ Torn \in Entries
  BY RestingType DEF LogRest, LogTypes, ActorTypes, Gets, Entries
<1>2. /\ actor'[p].at = at /\ actor'[p].event = event /\ actor'[p].previous = log
      /\ actor'[p].open = unended
  BY DEF Gets, ActorTypes
<1>3. Base = log /\ Base' = log /\ BaseUnended = unended /\ BaseUnended' = unended
  BY <1>1, <1>2 DEF Base, BaseUnended
<1>a. glued' \subseteq AuditIds \cup {Torn.id} /\ (glued' # {} => glued' \cap cut # {})
  <2>1. CASE UNCHANGED glued
    BY <2>1 DEF LogRest, LogTypes, BaseInv
  <2>2. ASSUME Appendable(event), unended, NEW x \in Entries, glued' = {Last(log).id, x.id}
        PROVE  glued' \subseteq AuditIds \cup {Torn.id} /\ glued' \cap cut # {}
    <3>1. log # <<>> /\ (Last(log) = Torn \/ Last(log).id \in cut)
      BY <1>3, <2>2 DEF LogRest, BaseInv
    <3>2. Last(log) \in ToSet(log) /\ Last(log) \in Entries
      BY <1>1, <3>1 DEF Last, ToSet
    <3>3. Last(log).id \in cut
      BY <2>2, <3>1, <3>2 DEF Appendable, Readable
    <3>4. Last(log).id \in AuditIds \cup {Torn.id} /\ x.id \in AuditIds \cup {Torn.id}
      BY <3>2, RestingType
    <3>5. QED
      BY <2>2, <3>3, <3>4
  <2>3. QED
    BY <1>1, <2>1, <2>2 DEF Written
<1>4. BaseInv'
  BY <1>3, <1>a DEF LogRest, BaseInv, Gets
<1>5. log' \in Seq(Entries) /\ Len(log') <= LogCapacity /\ LogInv'
  <2>1. UNCHANGED <<dropped, auditDay>> /\ Distinct(log) /\ Len(log) <= LogCapacity
        /\ LogCapacity \in Nat /\ Len(log) \in Nat
    BY <1>1 DEF LogRest, LogTypes, LogInv, Gets
  <2>2. CASE log' = log
    BY <1>1, <2>1, <2>2 DEF LogRest, LogInv
  <2>3. CASE Appendable(event) /\ log' = Append(log, event)
    <3>1. \A e \in ToSet(log) : e.id # event.id
      BY <1>1, <2>3, ExistingOf DEF Appendable, Readable
    <3>2. Distinct(log') /\ log' \in Seq(Entries) /\ Len(log') = Len(log) + 1
      BY <1>1, <2>1, <2>3, <3>1, DistinctAppend
    <3>3. Len(log) < LogCapacity
      BY <2>3 DEF Appendable
    <3>4. QED
      BY <2>1, <3>2, <3>3 DEF LogRest, LogInv
  <2>4. CASE Appendable(event) /\ log' = Append(log, Torn)
    <3>1. \A e \in ToSet(log) : e.id # Torn.id
      <4>1. \A e \in ToSet(log) : e \in AuditEvents
        BY <1>1, <2>4 DEF Appendable, Readable, Entries, ToSet
      <4>2. QED
        BY <4>1, DeedType
    <3>2. Distinct(log') /\ log' \in Seq(Entries) /\ Len(log') = Len(log) + 1
      BY <1>1, <2>1, <2>4, <3>1, DistinctAppend
    <3>3. Len(log) < LogCapacity
      BY <2>4 DEF Appendable
    <3>4. QED
      BY <2>1, <3>2, <3>3 DEF LogRest, LogInv
  <2>5. QED
    BY <2>2, <2>3, <2>4 DEF Written
<1>6. LogTypes'
  BY <1>1, <1>a, <1>5 DEF LogRest, LogTypes, Gets
<1>7. HolderInv'
  <2>1. ASSUME log' = Append(log, event)
        PROVE  InLog(log', Deed(event))
    <3>1. event \in ToSet(log')
      BY <1>1, <2>1, ToSetAppend
    <3>2. QED
      BY <3>1 DEF InLog
  <2>2. at = "open" => InLog(log', Deed(event))
    BY <2>1 DEF Written
  <2>3. QED
    BY <1>1, <1>2, <2>2 DEF HolderInv, Written
<1>8. QED
  BY <1>4, <1>5, <1>6, <1>7 DEF LogRest

\* What is in the log of the holder of the lock.
LEMMA HeldLog ==
  ASSUME LogRest, ActorTypes, logLock # NoActor
  PROVE  LET a == actor[logLock] IN
         /\ Base = a.previous /\ a.previous \in Seq(Entries) /\ a.event \in AuditEvents
         /\ ToSet(a.previous) \subseteq ToSet(log)
         /\ \A e \in ToSet(log) \ ToSet(a.previous) : e = Torn \/ e = a.event
         /\ Torn \in ToSet(log) \ ToSet(a.previous) => a.at = "failed"
         /\ Distinct(a.previous) /\ Len(a.previous) <= LogCapacity
<1> DEFINE a == actor[logLock]
<1>1. /\ a.previous \in Seq(Entries) /\ a.event \in AuditEvents /\ a.event \in Entries
      /\ Torn \in Entries /\ Torn # a.event /\ LogCapacity \in Nat
  BY RestingType DEF LogRest, LogTypes, ActorTypes, Entries
<1>2. Base = a.previous
  BY DEF Base
<1>3. Distinct(log) /\ Len(log) <= LogCapacity
  BY DEF LogRest, LogInv, LogTypes
<1>4. CASE log = a.previous
  BY <1>1, <1>2, <1>3, <1>4
<1>5. ASSUME NEW x \in Entries, log = Append(a.previous, x)
      PROVE  /\ ToSet(log) = ToSet(a.previous) \cup {x}
             /\ Distinct(a.previous) /\ Len(a.previous) <= LogCapacity
  <2>1. ToSet(log) = ToSet(a.previous) \cup {x}
    BY <1>1, <1>5, ToSetAppend
  <2>2. \A i \in DOMAIN a.previous : i \in DOMAIN log /\ log[i] = a.previous[i]
    BY <1>1, <1>5
  <2>3. Distinct(a.previous)
    BY <1>3, <2>2 DEF Distinct
  <2>4. Len(a.previous) \in Nat /\ Len(log) = Len(a.previous) + 1
    BY <1>1, <1>5
  <2>5. QED
    BY <1>1, <1>3, <2>1, <2>3, <2>4
<1>6. QED
  BY <1>1, <1>2, <1>4, <1>5 DEF LogRest, HolderInv

\* The action of the one who has the lock, or its failure.
LEMMA Acted ==
  ASSUME LogRest, ActorTypes, NEW p \in Actors, Act(p) \/ ActFails(p)
  PROVE  LogRest'
<1>1. logLock = p /\ p # NoActor /\ actor[p].event \in AuditEvents /\ actor[p].at = "open"
  BY DEF ActorTypes, Act, ActFails
<1>2. /\ UNCHANGED <<logFile, logLock, auditDay, purges, answered, dropped, cut>>
      /\ actor'[p].open = actor[p].open
      /\ actor'[p].at \in {"done", "failed"}
      /\ actor'[p].event = actor[p].event /\ actor'[p].previous = actor[p].previous
      /\ effects' = IF actor'[p].at = "done" THEN effects \cup {Deed(actor[p].event)} ELSE effects
  BY DEF ActorTypes, Act, ActFails
<1>3. Base' = Base /\ BaseUnended' = BaseUnended
  BY <1>1, <1>2 DEF Base, BaseUnended
<1>4. BaseInv'
  BY <1>2, <1>3 DEF LogRest, BaseInv
<1>5. HolderInv'
  BY <1>1, <1>2 DEF LogRest, HolderInv
<1>6. LogTypes'
  BY <1>1, <1>2, DeedType DEF LogRest, LogTypes
<1>7. LogInv'
  BY <1>2 DEF LogRest, LogInv
<1>8. QED
  BY <1>4, <1>5, <1>6, <1>7 DEF LogRest

\* The holder lets go: answered, taken back, or left behind with what there is.
LEMMA Released ==
  ASSUME LogRest, ActorTypes, NEW p \in Actors, logLock = p, logLock' = NoActor,
         UNCHANGED <<auditDay, purges, effects, dropped>>,
         LET a == actor[p] IN
         \/ /\ a.at = "done" /\ UNCHANGED <<logFile, cut>>
            /\ answered' = answered \cup {Deed(a.event)}
         \/ /\ log' = a.previous /\ unended' = a.open /\ glued' \in {glued, {}}
            /\ UNCHANGED <<answered, cut>>
         \/ UNCHANGED <<logFile, answered>> /\ cut' = cut \cup {a.event.id}
  PROVE  LogRest'
<1> DEFINE a == actor[p]
<1>1. /\ logLock # NoActor /\ Base = a.previous /\ Base' = log' /\ a.previous \in Seq(Entries)
      /\ a.event \in AuditEvents /\ ToSet(a.previous) \subseteq ToSet(log)
      /\ \A e \in ToSet(log) \ ToSet(a.previous) : e = Torn \/ e = a.event
      /\ Torn \in ToSet(log) \ ToSet(a.previous) => a.at = "failed"
      /\ Distinct(a.previous) /\ Len(a.previous) <= LogCapacity
  BY HeldLog DEF Base
<1>2. Deed(a.event) \in [id : AuditIds, kind : AuditKinds] /\ a.event.id \in AuditIds
  BY <1>1, DeedType
<1>3. HolderInv'
  BY DEF HolderInv
<1>4. LogTypes'
  <2>1. LogTypes /\ a.open \in BOOLEAN
    BY DEF LogRest, ActorTypes
  <2>2. unended' \in BOOLEAN /\ glued' \subseteq AuditIds \cup {Torn.id}
    BY <2>1 DEF LogTypes
  <2>3. log' \in Seq(Entries) /\ Len(log') <= LogCapacity
    BY <1>1, <2>1 DEF LogTypes
  <2>4. effects' \cup answered' \subseteq [id : AuditIds, kind : AuditKinds] /\ cut' \subseteq AuditIds
    BY <1>2, <2>1 DEF LogTypes
  <2>5. QED
    BY <2>1, <2>2, <2>3, <2>4 DEF LogTypes
<1>5. LogInv'
  BY <1>1 DEF LogRest, LogInv
<1>6. ASSUME NEW deed, InLog(a.previous, deed)
      PROVE  InLog(log', deed)
  BY <1>1, <1>6 DEF InLog
<1>7. BaseUnended' => Base' # <<>> /\ (Last(Base') = Torn \/ Last(Base').id \in cut')
  <2>1. BaseUnended' = unended' /\ BaseUnended = a.open /\ cut \subseteq cut'
    BY <1>1 DEF BaseUnended
  <2>2. ASSUME log' = a.previous, unended' = a.open
        PROVE  unended' => log' # <<>> /\ (Last(log') = Torn \/ Last(log').id \in cut')
    BY <1>1, <2>1, <2>2 DEF LogRest, BaseInv
  <2>3. ASSUME NEW x, log' = Append(a.previous, x)
        PROVE  log' # <<>> /\ Last(log') = x
    BY <1>1, <2>3 DEF Last
  <2>4. \/ log = a.previous /\ unended = a.open
        \/ log = Append(a.previous, a.event) /\ (a.at = "done" => ~unended)
        \/ a.at = "failed" /\ log = Append(a.previous, Torn)
    BY <1>1 DEF LogRest, HolderInv
  <2>5. CASE a.at = "done" /\ UNCHANGED <<logFile, cut>>
    <3>1. CASE log = a.previous /\ unended = a.open
      <4>1. log' = a.previous /\ unended' = a.open
        BY <2>5, <3>1
      <4>2. QED
        BY <1>1, <2>1, <2>2, <4>1
    <3>2. CASE ~unended
      BY <2>1, <2>5, <3>2
    <3>3. QED
      BY <2>4, <2>5, <3>1, <3>2
  <2>6. CASE UNCHANGED <<logFile, answered>> /\ cut' = cut \cup {a.event.id}
    <3>1. CASE log = a.previous /\ unended = a.open
      <4>1. log' = a.previous /\ unended' = a.open
        BY <2>6, <3>1
      <4>2. QED
        BY <1>1, <2>1, <2>2, <4>1
    <3>2. CASE log = Append(a.previous, a.event)
      BY <1>1, <2>3, <2>6, <3>2
    <3>3. CASE log = Append(a.previous, Torn)
      BY <1>1, <2>3, <2>6, <3>3
    <3>4. QED
      BY <2>4, <3>1, <3>2, <3>3
  <2>7. QED
    BY <1>1, <2>1, <2>2, <2>5, <2>6
<1>8. BaseInv'
  <2>1. glued' # {} => glued' \cap cut' # {}
    BY DEF LogRest, BaseInv
  <2>2. CASE /\ a.at = "done" /\ UNCHANGED <<logFile, cut>>
             /\ answered' = answered \cup {Deed(a.event)}
    <3>1. Deed(a.event) \in effects /\ InLog(log, Deed(a.event))
      BY <1>1, <2>2 DEF LogRest, HolderInv
    <3>2. QED
      BY <1>1, <1>6, <1>7, <2>1, <2>2, <3>1 DEF LogRest, BaseInv
  <2>3. CASE log' = a.previous /\ UNCHANGED <<answered, cut>>
    BY <1>1, <1>7, <2>1, <2>3 DEF LogRest, BaseInv
  <2>4. CASE UNCHANGED <<logFile, answered>> /\ cut' = cut \cup {a.event.id}
    BY <1>1, <1>6, <1>7, <2>1, <2>4 DEF LogRest, BaseInv
  <2>5. QED
    BY <2>2, <2>3, <2>4
<1>9. QED
  BY <1>3, <1>4, <1>5, <1>8 DEF LogRest

\* A purge drops what is expired, and the rest stays as it was.
LEMMA Purged ==
  ASSUME LogRest, ActorTypes, NEW p \in Actors, PurgeLog(p)
  PROVE  LogRest'
<1> DEFINE gone == {e \in ToSet(log) : Expired(e, actor[p].event.at)}
<1>1. /\ logLock = NoActor /\ logLock' = NoActor /\ log' = Remaining(log, gone)
      /\ dropped' = dropped \cup gone /\ UNCHANGED <<glued, auditDay, effects, answered, cut>>
      /\ unended' = FALSE
      /\ Torn \notin ToSet(log)
      /\ purges' = purges \/ (purges < MaxPurges /\ purges' = purges + 1)
  BY DEF PurgeLog, Readable
<1>2. log \in Seq(Entries) /\ Len(log) \in Nat /\ Len(log) <= LogCapacity
  BY DEF LogRest, LogTypes
<1>3. /\ log' \in Seq(Entries) /\ Len(log') <= Len(log) /\ Len(log') \in Nat
      /\ ToSet(log') = ToSet(log) \ gone /\ Distinct(log')
  <2> HIDE DEF gone
  <2>1. QED
    BY <1>1, <1>2, RemainingIs DEF LogRest, LogInv
<1>4. Base = log /\ Base' = log' /\ ~BaseUnended'
  BY <1>1 DEF Base, BaseUnended
<1>5. gone \subseteq AuditEvents
  BY <1>1, <1>2 DEF ToSet, Entries
<1>6. LogTypes'
  <2>1. LogTypes /\ LogCapacity \in Nat /\ MaxPurges \in Nat
    BY AuditBounds DEF LogRest
  <2>2. unended' \in BOOLEAN /\ glued' \subseteq AuditIds \cup {Torn.id}
    BY <1>1, <2>1 DEF LogTypes
  <2>3. log' \in Seq(Entries) /\ Len(log') <= LogCapacity
    BY <1>2, <1>3, <2>1
  <2>4. dropped' \subseteq AuditEvents /\ purges' \in 0 .. MaxPurges
    <3> HIDE DEF gone
    <3>1. QED
      BY <1>1, <1>5, <2>1 DEF LogTypes
  <2>5. QED
    BY <1>1, <2>1, <2>2, <2>3, <2>4 DEF LogTypes
<1>7. HolderInv'
  BY <1>1 DEF HolderInv
<1>8. BaseInv'
  <2>1. ASSUME NEW a \in answered
        PROVE  InLog(log', a) \/ \E e \in dropped' : Deed(e) = a
    <3>1. InLog(log, a) \/ \E e \in dropped : Deed(e) = a
      BY <1>4 DEF LogRest, BaseInv
    <3>2. CASE InLog(log, a)
      <4>1. PICK e \in ToSet(log) : Deed(e) = a
        BY <3>2 DEF InLog
      <4>2. e \in ToSet(log') \/ e \in dropped'
        BY <1>1, <1>3
      <4>3. QED
        BY <4>1, <4>2 DEF InLog
    <3>3. QED
      BY <1>1, <3>1, <3>2
  <2> HIDE DEF gone
  <2>2. QED
    BY <1>1, <1>3, <1>4, <2>1 DEF LogRest, BaseInv
<1>9. LogInv'
  <2>1. ASSUME NEW e \in gone
        PROVE  Expired(e, auditDay)
    <3>1. e.at \in Int
      BY <1>5 DEF AuditEvents
    <3>2. actor[p].event.at \in Int /\ actor[p].event.at <= auditDay /\ auditDay \in Int
      BY DEF ActorTypes, LogRest, LogTypes
    <3>3. Expired(e, actor[p].event.at)
      OBVIOUS
    <3>4. QED
      BY <3>1, <3>2, <3>3 DEF Expired
  <2> HIDE DEF gone
  <2>2. QED
    BY <1>1, <1>3, <2>1 DEF LogRest, LogInv
<1>10. QED
  BY <1>6, <1>7, <1>8, <1>9 DEF LogRest

\* The log and what it says of the actions, by every step.
LEMMA LogRestStep ==
  ASSUME LogRest, ActorTypes, AuditNext
  PROVE  LogRest'
<1>1. /\ logLock = NoActor \/ logLock \in Actors
      /\ auditDay \in AuditDays
      /\ \A p \in Actors : actor[p].at \in {"open", "done", "failed"} <=> logLock = p
  BY DEF LogRest, LogTypes, ActorTypes
<1>2. CASE AuditDayPasses
  <2>1. auditDay' \in AuditDays /\ auditDay <= auditDay'
    BY <1>1, <1>2 DEF AuditDayPasses
  <2>2. QED
    BY <1>2, <2>1, Elsewhere DEF AuditDayPasses
<1>3. ASSUME NEW p \in Actors, NEW a, actor' = [actor EXCEPT ![p] = a], logLock # p,
             UNCHANGED <<logFile, logLock, auditDay, purges, auditHistory>>
      PROVE  LogRest'
  <2>1. auditDay <= auditDay' /\ auditDay' \in AuditDays
    BY <1>1, <1>3
  <2>2. logLock # NoActor => actor'[logLock] = actor[logLock]
    BY <1>1, <1>3 DEF ActorTypes
  <2>3. QED
    BY <1>3, <2>1, <2>2, Elsewhere
<1>4. ASSUME NEW p \in Actors, NEW id, NEW kind,
             BeginAction(p, id, kind) \/ RefuseAction(p) \/ BeginPurge(p) \/ PurgeRefused(p)
      PROVE  LogRest'
  <2>1. logLock # p
    BY <1>1, <1>4 DEF BeginAction, RefuseAction, BeginPurge, PurgeRefused
  <2>2. \E a : actor' = [actor EXCEPT ![p] = a]
    BY <1>4 DEF BeginAction, RefuseAction, BeginPurge, PurgeRefused
  <2>3. UNCHANGED <<logFile, logLock, auditDay, purges, auditHistory>>
    BY <1>4 DEF BeginAction, RefuseAction, BeginPurge, PurgeRefused
  <2>4. QED
    BY <1>3, <2>1, <2>2, <2>3
<1>5. ASSUME NEW p \in Actors, ReplayAction(p)
      PROVE  LogRest'
  <2>1. log \in Seq(Entries)
    BY DEF LogRest, LogTypes
  <2>2. InLog(log, Deed(actor[p].event))
    BY <1>5, <2>1, ExistingOf DEF ReplayAction, Replayed, InLog
  <2>3. QED
    BY <1>5, <2>2, Taken DEF ReplayAction
<1>6. ASSUME NEW p \in Actors, AppendAction(p) \/ \E whole \in BOOLEAN : TearAction(p, whole)
      PROVE  LogRest'
  BY <1>6, Taken DEF AppendAction, TearAction
<1>7. ASSUME NEW p \in Actors, Act(p) \/ ActFails(p)
      PROVE  LogRest'
  BY <1>7, Acted
<1>8. ASSUME NEW p \in Actors, Answer(p) \/ TakeBack(p)
      PROVE  LogRest'
  <2>1. logLock = p
    BY <1>1, <1>8 DEF Answer, TakeBack
  <2>2. QED
    BY <1>8, <2>1, Released DEF Answer, TakeBack, LetGo
<1>9. ASSUME NEW p \in Actors, LeftBehind(p)
      PROVE  LogRest'
  <2>1. CASE logLock = p
    BY <1>9, <2>1, Released DEF LeftBehind
  <2>2. CASE logLock # p
    BY <1>3, <1>9, <2>2 DEF LeftBehind
  <2>3. QED
    BY <2>1, <2>2
<1>10. ASSUME NEW p \in Actors, PurgeLog(p)
       PROVE  LogRest'
  BY <1>10, Purged
<1>11. QED
  BY <1>2, <1>4, <1>5, <1>6, <1>7, <1>8, <1>9, <1>10 DEF AuditNext

\* The invariant holds of every behaviour.
THEOREM AuditInductive == AuditSpec => []AuditInv
<1>1. AuditInit => AuditInv
  <2> SUFFICES ASSUME AuditInit PROVE AuditInv
    OBVIOUS
  <2>1. <<>> \in Seq(Entries) /\ Len(<<>>) = 0 /\ ToSet(<<>>) = {} /\ Distinct(<<>>)
    BY DEF ToSet, Distinct
  <2>2. Resting \in ActorType /\ Resting.at = "idle" /\ Resting.event.at <= 0
        /\ Resting.open \in BOOLEAN
    BY RestingType DEF AuditInit, ActorType
  <2>3. ActorTypes
    BY <2>2 DEF AuditInit, ActorTypes, ActorType, Place, Happening
  <2>4. AuditTypeOK
    <3>1. \A p \in Actors : actor[p] = Resting
      BY DEF AuditInit
    <3>2. /\ Resting.at \in Place /\ Resting.event \in Happening
          /\ Resting.previous \in Seq(Entries) /\ Resting.open \in BOOLEAN
      BY <2>2 DEF ActorType
    <3>3. unended \in BOOLEAN /\ glued \subseteq AuditIds \cup {Torn.id}
      BY DEF AuditInit
    <3>4. /\ log \in Seq(Entries) /\ Len(log) <= LogCapacity
          /\ logLock \in Actors \cup {NoActor}
          /\ auditDay \in AuditDays /\ purges \in 0 .. MaxPurges
          /\ effects \cup answered \subseteq [id : AuditIds, kind : AuditKinds]
          /\ dropped \subseteq AuditEvents /\ cut \subseteq AuditIds
      BY <2>1 DEF AuditInit
    <3> HIDE DEF Resting
    <3>5. \A p \in Actors :
            /\ actor[p].at \in Place /\ actor[p].event \in Happening
            /\ actor[p].previous \in Seq(Entries) /\ actor[p].open \in BOOLEAN
      BY <3>1, <3>2
    <3>6. QED
      BY <3>3, <3>4, <3>5 DEF AuditTypeOK, Place, Happening, Entries
  <2>5. HolderInv /\ BaseInv /\ LogInv
    BY <2>1 DEF AuditInit, HolderInv, BaseInv, Base, BaseUnended, LogInv
  <2>6. QED
    BY <2>3, <2>4, <2>5 DEF AuditInv
<1>2. AuditInv /\ [AuditNext]_auditVars => AuditInv'
  <2>1. ASSUME AuditInv, AuditNext
        PROVE  AuditInv'
    <3>1. LogRest /\ ActorTypes
      BY <2>1 DEF AuditInv, AuditTypeOK, LogRest, LogTypes, Entries
    <3>2. LogRest' /\ ActorTypes'
      BY <2>1, <3>1, LogRestStep, ActorTypesStep
    <3>3. AuditTypeOK'
      BY <3>2 DEF LogRest, LogTypes, ActorTypes, Entries, AuditTypeOK
    <3>4. QED
      BY <3>2, <3>3 DEF AuditInv, LogRest
  <2>2. ASSUME AuditInv, UNCHANGED auditVars
        PROVE  AuditInv'
    BY <2>2 DEF AuditInv, AuditTypeOK, ActorTypes, HolderInv, BaseInv, Base, BaseUnended,
       LogInv
  <2>3. QED
    BY <2>1, <2>2
<1>3. QED
  BY <1>1, <1>2, PTL DEF AuditSpec

\* The log keeps within its capacity and, like its lock, holds what the actors
\* may put there.
THEOREM AuditTyped == AuditSpec => []AuditTypeOK
<1>1. AuditInv => AuditTypeOK
  BY DEF AuditInv
<1>2. QED
  BY <1>1, AuditInductive, PTL

\* AuditLog: through retries, failures and crashes an id names one action and one
\* event, what was answered is kept until it expires, if it does not share a line
\* with what was left behind, and nothing is in the log that was not done, is not
\* being done and was not left behind.
THEOREM AuditTrailKept == AuditSpec => []AuditTrail
<1>1. AuditInv => AuditTrail
  <2> SUFFICES ASSUME AuditInv PROVE AuditTrail
    OBVIOUS
  <2>1. LogRest /\ ActorTypes /\ log \in Seq(Entries) /\ Distinct(log)
    BY DEF AuditInv, AuditTypeOK, LogRest, LogTypes, LogInv, Entries
  <2>2. ToSet(Base) \subseteq ToSet(log)
    BY <2>1, HeldLog DEF Base
  <2>3. ASSUME NEW e \in ToSet(log) \ {Torn}
        PROVE  Deed(e) \in effects \/ Underway(e.id) \/ e.id \in cut
    <3>1. CASE e \in ToSet(Base)
      BY <3>1 DEF AuditInv, BaseInv
    <3>2. CASE e \notin ToSet(Base)
      <4>1. logLock # NoActor
        BY <3>2 DEF Base
      <4>2. logLock \in Actors /\ e = actor[logLock].event /\ actor[logLock].at # "idle"
        BY <2>1, <3>2, <4>1, HeldLog DEF LogRest, LogTypes, ActorTypes
      <4>3. QED
        BY <4>2 DEF Underway
    <3>3. QED
      BY <3>1, <3>2
  <2>4. ASSUME NEW a \in answered
        PROVE  HasEvent(a.id, a.kind) \/ a.id \in glued \/ \E e \in dropped : Deed(e) = a
    <3>1. InLog(Base, a) \/ \E e \in dropped : Deed(e) = a
      BY DEF AuditInv, BaseInv
    <3>2. CASE InLog(Base, a)
      <4>1. PICK e \in ToSet(log) : Deed(e) = a
        BY <2>2, <3>2 DEF InLog
      <4>2. e.id \notin glued => e \in ExistingEvent(log, e.id)
        BY <2>1, ExistingIs
      <4>3. e.id = a.id /\ e.kind = a.kind
        BY <4>1 DEF Deed
      <4>4. QED
        BY <4>2, <4>3 DEF HasEvent
    <3>3. QED
      BY <3>1, <3>2
  <2>5. /\ Readable \/ logLock # NoActor \/ cut # {}
        /\ glued # {} => glued \cap cut # {}
    BY DEF AuditInv, BaseInv, Base, Readable
  <2>6. QED
    BY <2>1, <2>3, <2>4, <2>5 DEF AuditTrail, AuditInv, LogInv, Distinct
<1>2. QED
  BY <1>1, AuditInductive, PTL

=============================================================================
