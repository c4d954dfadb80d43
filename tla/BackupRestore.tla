----------------------------- MODULE BackupRestore -----------------------------
(***************************************************************************)
(* Backups of a vault, recovery exports, and the restore of either over the   *)
(* vault (vault/protected.py: BackupManager, RecoveryManager,                 *)
(* VerifiedRestoreLease).  A restore hands its caller a lease: the lock of the *)
(* vault and a handle on the bytes that were verified, from which a session is *)
(* opened once.  Savers take the lock; another program may still replace the   *)
(* file or write into it.                                                   *)
(*                                                                          *)
(* Content is a saved version and the passphrase that opens it.              *)
(***************************************************************************)
EXTENDS Integers, Sequences, FiniteSets

CONSTANTS
  Passphrases,
  MaxSaves,      \* bound of the versions saved
  Keep,          \* backups kept by the rotation
  MaxBackups,    \* bound of the backups made
  MaxTouches,    \* bound of the changes by other programs
  NoBytes

ASSUME RestoreBounds ==
  /\ MaxSaves \in Nat /\ Keep \in Nat \ {0} /\ MaxBackups \in Nat /\ MaxTouches \in Nat

VARIABLES
  vault,      \* the file
  swapped,    \* whether it is another file than the one the lease has open
  saves, touches,
  backups,    \* the backups, with their number and modification time
  export,     \* the recovery export, or NoBytes
  rotation,   \* the backup being made
  lease,      \* the restore under way
  activated,  \* sessions the lease has opened
  tampered,   \* history: touched by another program since the restore began
  made,       \* backups made so far
  fresh       \* history: the last backup was later than those it joined

restoreVars == <<vault, swapped, saves, touches, backups, export, rotation, lease, activated,
                 tampered, made, fresh>>
fileVars == <<vault, swapped, saves, touches, tampered>>
backupVars == <<backups, export, rotation, made, fresh>>
leaseVars == <<lease, activated>>

Bytes == [version : 0 .. MaxSaves, opens : Passphrases]
\* As many times as it takes to put the backups in any order, ties included.
FileTimes == 1 .. MaxBackups
Backup == [content : Bytes, seal : Passphrases, mtime : FileTimes, serial : 1 .. MaxBackups]
\* _seal and _open: only the passphrase that sealed a backup opens it.
Sealed(content, k, mtime, serial) ==
  [content |-> content, seal |-> k, mtime |-> mtime, serial |-> serial]
Unseals(b, k) == b.seal = k
NoRotation == [at |-> "idle", content |-> NoBytes]
NoLease == [at |-> "none", content |-> NoBytes, secret |-> NoBytes]
LeasePlaces == {"none", "written", "open", "activating", "consumed"}

RestoreTypeOK ==
  /\ vault \in Bytes /\ swapped \in BOOLEAN
  /\ saves \in 0 .. MaxSaves /\ touches \in 0 .. MaxTouches
  /\ backups \subseteq Backup /\ export \in Bytes \cup {NoBytes}
  /\ rotation \in [at : {"idle", "read", "written"}, content : Bytes \cup {NoBytes}]
  /\ lease \in [at : LeasePlaces, content : Bytes \cup {NoBytes},
                secret : Passphrases \cup {NoBytes}]
  /\ activated \in Seq(Bytes) /\ tampered \in BOOLEAN
  /\ made \in 0 .. MaxBackups /\ fresh \in BOOLEAN

RestoreInit ==
  /\ \E k \in Passphrases : vault = [version |-> 0, opens |-> k]
  /\ swapped = FALSE
  /\ saves = 0 /\ touches = 0
  /\ backups = {} /\ export = NoBytes
  /\ rotation = NoRotation /\ lease = NoLease
  /\ activated = <<>> /\ tampered = FALSE
  /\ made = 0 /\ fresh = FALSE

VaultLocked == lease.at # "none"

-----------------------------------------------------------------------------
(* Others *)

\* A save, which may come with a new passphrase, waits for the lock.
SaveVault(k) ==
  /\ ~VaultLocked /\ saves < MaxSaves
  /\ saves' = saves + 1
  /\ vault' = [version |-> saves', opens |-> k]
  /\ UNCHANGED <<swapped, touches, tampered, backupVars, leaseVars>>

\* Another program puts a file of its own in place, or writes into this one.
Touch(content, replaced) ==
  /\ touches < MaxTouches
  /\ touches' = touches + 1 /\ tampered' = TRUE
  /\ vault' = content /\ swapped' = (swapped \/ replaced)
  /\ UNCHANGED <<saves, backupVars, leaseVars>>

\* RecoveryManager.create: what a session holds, which may be older than the
\* file, under a key of its own.
ExportRecovery(version, k) ==
  /\ export = NoBytes /\ version <= saves
  /\ export' = [version |-> version, opens |-> k]
  /\ UNCHANGED <<fileVars, backups, rotation, made, fresh, leaseVars>>

-----------------------------------------------------------------------------
(* BackupManager.create, one at a time by the lock of the rotation *)

ReadForBackup ==
  /\ rotation.at = "idle" /\ ~VaultLocked
  /\ made < MaxBackups
  /\ rotation' = [at |-> "read", content |-> vault]
  /\ UNCHANGED <<fileVars, backups, export, made, fresh, leaseVars>>

\* Whatever passphrase the caller gives seals it.  The clock may have been set
\* back, or not have moved as far as the file system can tell.
WriteBackup(k, mtime) ==
  /\ rotation.at = "read"
  /\ made' = made + 1
  /\ backups' = backups \cup {Sealed(rotation.content, k, mtime, made')}
  /\ rotation' = [rotation EXCEPT !.at = "written"]
  /\ fresh' = \A b \in backups : b.mtime < mtime
  /\ UNCHANGED <<fileVars, export, leaseVars>>

Fewer(n, m) == IF n <= m THEN n ELSE m
NewerThan(newer, older) == \A b \in newer, c \in older : b.mtime >= c.mtime

\* The first Keep of the backups sorted by modification time; of those with the
\* same time, whichever the directory lists first.
Rotated(newest) ==
  /\ Cardinality(newest) = Fewer(Keep, Cardinality(backups))
  /\ NewerThan(newest, backups \ newest)

PruneBackups(newest) ==
  /\ rotation.at = "written"
  /\ Rotated(newest)
  /\ backups' = newest
  /\ rotation' = NoRotation
  /\ UNCHANGED <<fileVars, export, made, fresh, leaseVars>>

\* Some of the others may have been removed by then, in the same order.
BackupDies(left) ==
  /\ rotation.at # "idle"
  /\ left # backups =>
       /\ rotation.at = "written"
       /\ \E newest \in SUBSET left :
            Rotated(newest) /\ NewerThan(backups \ left, left \ newest)
  /\ backups' = left
  /\ rotation' = NoRotation
  /\ UNCHANGED <<fileVars, export, made, fresh, leaseVars>>

-----------------------------------------------------------------------------
(* Restore *)

\* _restore_lease: the lock, then the bytes, before anything opens them.
Install(content, k) ==
  /\ lease.at = "none"
  /\ tampered' = FALSE /\ activated' = <<>>
  /\ vault' = content
  /\ lease' = [at |-> "written", content |-> content, secret |-> k]
  /\ UNCHANGED <<swapped, saves, touches, backupVars>>

\* The seal of a backup is opened; the vault in it is not.
RestoreBackup(b, k) == Unseals(b, k) /\ Install(b.content, k)

\* A recovery export is opened with its key first.
RestoreExport(k) == export # NoBytes /\ export.opens = k /\ Install(export, k)

Unchanged == vault = lease.content /\ ~swapped

\* VerifiedRestoreLease: the handle, and with it the identity, is had now; the
\* bytes must be the ones written and open with the passphrase.
OpenLease ==
  /\ lease.at = "written"
  /\ vault = lease.content /\ lease.content.opens = lease.secret
  /\ lease' = [lease EXCEPT !.at = "open"]
  /\ swapped' = FALSE
  /\ UNCHANGED <<vault, saves, touches, tampered, backupVars, activated>>

RefuseLease ==
  /\ lease.at = "written"
  /\ vault # lease.content \/ lease.content.opens # lease.secret
  /\ lease' = [lease EXCEPT !.at = "none"]
  /\ UNCHANGED <<fileVars, backupVars, activated>>

\* Variant: the file is opened again in place of the bytes that were verified.
ConsumeByPath ==
  /\ lease.at = "open"
  /\ activated' = Append(activated, vault)
  /\ lease' = [lease EXCEPT !.at = "activating"]
  /\ UNCHANGED <<fileVars, backupVars>>

ConsumeLease ==
  /\ lease.at = "open" /\ Unchanged
  /\ activated' = Append(activated, lease.content)
  /\ lease' = [lease EXCEPT !.at = "activating"]
  /\ UNCHANGED <<fileVars, backupVars>>

\* The second check: the session is locked again when the file has changed.
ConfirmLease ==
  /\ lease.at = "activating"
  /\ IF Unchanged THEN lease' = [lease EXCEPT !.at = "consumed"] /\ UNCHANGED activated
     ELSE lease' = [lease EXCEPT !.at = "open"] /\ activated' = <<>>
  /\ UNCHANGED <<fileVars, backupVars>>

\* Closed by the caller, consumed or not, or with its process.
CloseLease ==
  /\ lease.at # "none"
  /\ lease' = [lease EXCEPT !.at = "none"]
  /\ swapped' = FALSE
  /\ UNCHANGED <<vault, saves, touches, tampered, backupVars, activated>>

-----------------------------------------------------------------------------
RestoreNext ==
  \/ \E k \in Passphrases :
       \/ SaveVault(k) \/ RestoreExport(k)
       \/ \E version \in 0 .. MaxSaves : ExportRecovery(version, k)
       \/ \E mtime \in FileTimes : WriteBackup(k, mtime)
       \/ \E b \in backups : RestoreBackup(b, k)
  \/ \E content \in Bytes, replaced \in BOOLEAN : Touch(content, replaced)
  \/ \E some \in SUBSET backups : PruneBackups(some) \/ BackupDies(some)
  \/ ReadForBackup
  \/ OpenLease \/ RefuseLease \/ ConsumeLease \/ ConfirmLease \/ CloseLease

RestoreSpec == RestoreInit /\ [][RestoreNext]_restoreVars

-----------------------------------------------------------------------------
(* Properties *)

\* A lease opens one session, on the bytes that were verified, whatever other
\* programs did to the file in between; until it is closed no saver of the vault
\* changes what it restored.  The rotation, however it ends, leaves as many
\* backups as it is to keep, and the last one made among them as long as that
\* is later by its file's time than those it joined.
RestoreVerified ==
  /\ Len(activated) <= 1
  /\ \A i \in DOMAIN activated :
       activated[i] = lease.content /\ activated[i].opens = lease.secret
  /\ VaultLocked /\ ~tampered => vault = lease.content
  /\ Cardinality(backups) >= Fewer(Keep, made)
  /\ made > 0 /\ fresh => \E b \in backups : b.serial = made

=============================================================================
