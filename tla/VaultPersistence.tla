-------------------------- MODULE VaultPersistence --------------------------
(***************************************************************************)
(* How vault/core.py makes one mutation of the encrypted vault durable.     *)
(*                                                                          *)
(* Several sessions (the server, the command line, an importer) share one   *)
(* vault file.  Each keeps a decrypted snapshot and the digest of the file  *)
(* it came from.  A save re-encrypts the snapshot plus one mutation, takes  *)
(* the file lock, compares the digest with the file, rotates the numbered   *)
(* backups, renames the new file into place, appends to the audit log,      *)
(* renames the old bytes back if the audit fails, and only after the lock   *)
(* is released updates its snapshot and returns.                            *)
(*                                                                          *)
(* A file is the set of mutations whose effect it holds.  Every envelope    *)
(* holds at least the creation of its vault, so {} stands for "no file";    *)
(* and every write encrypts afresh and adds a mutation of its own, so two   *)
(* files have the same digest exactly when they are the same set.           *)
(***************************************************************************)
EXTENDS Integers, FiniteSets

CONSTANTS
  Sessions,      \* processes or threads that open the vault
  Mutations,     \* identities of the calls that write, each made once
  Creations,     \* those that are VaultStore.create
  Audited,       \* those that pass an audit_action to _persist
  BackupCount,   \* _BACKUP_COUNT
  None           \* no session holds the lock, or a session has no call

ASSUME KindsAssumption ==
  /\ Creations \subseteq Mutations
  /\ Audited \subseteq Mutations \ Creations
ASSUME BackupCountAssumption == BackupCount \in Nat \ {0}
ASSUME NoneAssumption == None \notin Sessions \cup Mutations

VARIABLES
  live,       \* vault.json
  bak,        \* vault.json.bak.1 .. vault.json.bak.N
  staged,     \* the rotation's copy of vault.json
  aside,      \* aside[i]: the temporary name the rotation gave to bak.i
  k,          \* the index the rotation has reached
  before,     \* history: bak when the rotation began
  lock,       \* who holds vault.json.lock
  previous,   \* bytes kept to undo an audited write
  audit,      \* the mutations the audit log has an event for
  pc,         \* where each session is
  mem,        \* each session's snapshot, and so the digest it expects
  pend,       \* the mutation each session is making
  status      \* history: what became of each call

files  == <<live, bak>>
rotation == <<staged, aside, k, before>>
sessionVars == <<mem, pend>>
vars == <<live, bak, rotation, lock, previous, audit, pc, sessionVars, status>>

File == SUBSET Mutations
Absent == {}
Index == 1 .. BackupCount
NoFiles == [i \in Index |-> Absent]

\* The points of a call at which the session holds the file lock.
Rotating == {"aside", "shift"}
BeforeRename == {"stage", "replace"} \cup Rotating
AfterRename == {"renamed", "audit", "rollback"}
Critical == {"held", "refuse", "done"} \cup BeforeRename \cup AfterRename
InCall == {"wait", "return"} \cup Critical
Places == {"closed", "open"} \cup InCall

Outcomes == {"unused", "pending", "acked", "rejected", "failed", "uncertain"}

\* Each conjunct is the type of one variable.
TypeOK ==
  /\ live \in File
  /\ bak \in [Index -> File]
  /\ staged \in File
  /\ aside \in [Index -> File]
  /\ k \in 1 .. BackupCount + 1
  /\ before \in [Index -> File]
  /\ lock \in Sessions \cup {None}
  /\ previous \in File
  /\ audit \in SUBSET Audited
  /\ pc \in [Sessions -> Places]
  /\ mem \in [Sessions -> File]
  /\ pend \in [Sessions -> Mutations \cup {None}]
  /\ status \in [Mutations -> Outcomes]

Init ==
  /\ live = Absent
  /\ bak = NoFiles
  /\ staged = Absent
  /\ aside = NoFiles
  /\ k = 1
  /\ before = NoFiles
  /\ lock = None
  /\ previous = Absent
  /\ audit = {}
  /\ pc = [s \in Sessions |-> "closed"]
  /\ mem = [s \in Sessions |-> Absent]
  /\ pend = [s \in Sessions |-> None]
  /\ status = [m \in Mutations |-> "unused"]

-----------------------------------------------------------------------------
(* Sessions *)

Goto(s, place) == pc' = [pc EXCEPT ![s] = place]

\* A call that raises leaves the session as it was: a save leaves it open, a
\* create never had one.
Resume(s) == Goto(s, IF pend[s] \in Creations THEN "closed" ELSE "open")

\* open() reads vault.json without taking the file lock.
Open(s) ==
  /\ pc[s] = "closed"
  /\ live # Absent
  /\ mem' = [mem EXCEPT ![s] = live]
  /\ Goto(s, "open")
  /\ UNCHANGED <<files, rotation, lock, previous, audit, pend, status>>

\* lock(), by hand or by the idle timer: both need the session's own lock, so
\* neither happens inside a call.
LockSession(s) ==
  /\ pc[s] = "open"
  /\ mem' = [mem EXCEPT ![s] = Absent]
  /\ Goto(s, "closed")
  /\ UNCHANGED <<files, rotation, lock, previous, audit, pend, status>>

\* create() from nothing, or a mutator of an unlocked session, encrypts what
\* it will write and goes for the lock.
Begin(s, m) ==
  /\ status[m] = "unused"
  /\ pc[s] = IF m \in Creations THEN "closed" ELSE "open"
  /\ pend' = [pend EXCEPT ![s] = m]
  /\ status' = [status EXCEPT ![m] = "pending"]
  /\ Goto(s, "wait")
  /\ UNCHANGED <<files, rotation, lock, previous, audit, mem>>

-----------------------------------------------------------------------------
(* The file lock, and the ways out of a call. *)

\* The caller gets an answer (or an exception) for its call.
Answer(s, outcome) ==
  /\ status' = [status EXCEPT ![pend[s]] = outcome]
  /\ pend' = [pend EXCEPT ![s] = None]

DropRotation ==
  /\ staged' = Absent
  /\ aside' = NoFiles
  /\ k' = 1
  /\ before' = NoFiles

\* An exception leaves the critical section; the session's snapshot is not
\* touched.
Raise(s, outcome) ==
  /\ Answer(s, outcome)
  /\ Resume(s)
  /\ lock' = None
  /\ previous' = Absent
  /\ DropRotation
  /\ UNCHANGED <<audit, mem>>

\* Variant: the lock file is there but the lock on it is not tested.
AcquireRegardless(s) ==
  /\ pc[s] = "wait"
  /\ lock' = s
  /\ Goto(s, "held")
  /\ UNCHANGED <<files, rotation, previous, audit, mem, pend, status>>

Acquire(s) ==
  /\ pc[s] = "wait"
  /\ lock = None
  /\ lock' = s
  /\ Goto(s, "held")
  /\ UNCHANGED <<files, rotation, previous, audit, mem, pend, status>>

\* Variant: no deadline, the waiting call polls for ever.
BusyPollsForEver(s) ==
  /\ pc[s] = "wait"
  /\ lock # None
  /\ UNCHANGED vars

\* Five seconds went by and somebody else still holds the lock.
Busy(s) ==
  /\ pc[s] = "wait"
  /\ lock # None
  /\ Answer(s, "rejected")
  /\ Resume(s)
  /\ UNCHANGED <<files, rotation, lock, previous, audit, mem>>

\* create() finds a vault that is already there.
AlreadyExists(s) ==
  /\ pc[s] = "held"
  /\ pend[s] \in Creations
  /\ live # Absent
  /\ Raise(s, "rejected")
  /\ UNCHANGED files

\* The digest of the file is not the one this session was opened with.
Conflict(s) ==
  /\ pc[s] = "held"
  /\ pend[s] \notin Creations
  /\ live # mem[s]
  /\ Raise(s, "rejected")
  /\ UNCHANGED files

\* Any other exception before the new file is renamed into place and outside
\* the rotation: an unreadable file, a full disk, a refused rename.
WriteFails(s) ==
  /\ pc[s] \in {"held", "stage", "replace"}
  /\ Raise(s, "rejected")
  /\ UNCHANGED files

-----------------------------------------------------------------------------
(* _persist and create, up to the rename *)

\* Variant: the digest is not compared, the last writer wins.
CheckSkipped(s) ==
  /\ pc[s] = "held"
  /\ IF pend[s] \in Creations
       THEN /\ live = Absent
            /\ Goto(s, "replace")
       ELSE /\ live # Absent
            /\ Goto(s, "stage")
  /\ previous' = IF pend[s] \in Audited THEN live ELSE Absent
  /\ UNCHANGED <<files, rotation, lock, audit, mem, pend, status>>

\* The checks under the lock pass.  create() writes without a backup.
Check(s) ==
  /\ pc[s] = "held"
  /\ IF pend[s] \in Creations
       THEN /\ live = Absent
            /\ Goto(s, "replace")
       ELSE /\ live = mem[s]
            /\ Goto(s, "stage")
  /\ previous' = IF pend[s] \in Audited THEN live ELSE Absent
  /\ UNCHANGED <<files, rotation, lock, audit, mem, pend, status>>

\* _rotate_backups copies vault.json ...
Stage(s) ==
  /\ pc[s] = "stage"
  /\ staged' = live
  /\ before' = bak
  /\ k' = 1
  /\ Goto(s, "aside")
  /\ UNCHANGED <<files, aside, lock, previous, audit, mem, pend, status>>

\* ... moves each backup to a temporary name ...
MoveAside(s) ==
  /\ pc[s] = "aside"
  /\ aside' = [aside EXCEPT ![k] = bak[k]]
  /\ bak' = [bak EXCEPT ![k] = Absent]
  /\ IF k = BackupCount
       THEN /\ k' = 2
            /\ Goto(s, "shift")
       ELSE /\ k' = k + 1
            /\ UNCHANGED pc
  /\ UNCHANGED <<live, staged, before, lock, previous, audit, mem, pend, status>>

\* Variant: the loop runs one index too far.
ShiftTooFar(s) ==
  /\ pc[s] = "shift"
  /\ k <= BackupCount + 1
  /\ bak' = [bak EXCEPT ![k] = aside[k - 1]]
  /\ aside' = [aside EXCEPT ![k - 1] = Absent]
  /\ k' = k + 1
  /\ UNCHANGED <<live, staged, before, lock, previous, audit, pc, mem, pend, status>>

\* ... renames the old bak.(k-1) to bak.k ...
Shift(s) ==
  /\ pc[s] = "shift"
  /\ k <= BackupCount
  /\ bak' = [bak EXCEPT ![k] = aside[k - 1]]
  /\ aside' = [aside EXCEPT ![k - 1] = Absent]
  /\ k' = k + 1
  /\ UNCHANGED <<live, staged, before, lock, previous, audit, pc, mem, pend, status>>

\* Variant: the copy does not replace a bak.1 that is already there.
InstallCopyIfMissing(s) ==
  /\ pc[s] = "shift"
  /\ k = BackupCount + 1
  /\ bak' = [bak EXCEPT ![1] = IF before[1] = Absent THEN staged ELSE before[1]]
  /\ staged' = Absent
  /\ aside' = NoFiles
  /\ Goto(s, "replace")
  /\ UNCHANGED <<live, k, before, lock, previous, audit, mem, pend, status>>

\* ... and the copy to bak.1; the oldest backup is dropped.
InstallCopy(s) ==
  /\ pc[s] = "shift"
  /\ k = BackupCount + 1
  /\ bak' = [bak EXCEPT ![1] = staged]
  /\ staged' = Absent
  /\ aside' = NoFiles
  /\ Goto(s, "replace")
  /\ UNCHANGED <<live, k, before, lock, previous, audit, mem, pend, status>>

\* Variant: what was already renamed to its new number is forgotten.
OldBackupAsideOnly(s, i) ==
  IF aside[i] # Absent THEN aside[i]
  ELSE IF pc[s] = "aside" THEN bak[i]
  ELSE Absent

\* Where a failing rotation finds the old bak.i: at its temporary name, or
\* already renamed to bak.(i+1), or, early on, still in place.
OldBackup(s, i) ==
  IF aside[i] # Absent THEN aside[i]
  ELSE IF pc[s] = "aside" THEN bak[i]
  ELSE IF i + 1 < k THEN bak[i + 1]
  ELSE Absent

\* An exception in the rotation puts every old backup back under its name.
RotationFails(s) ==
  /\ pc[s] \in Rotating
  /\ bak' = [i \in Index |-> OldBackup(s, i)]
  /\ Raise(s, "rejected")
  /\ UNCHANGED live

-----------------------------------------------------------------------------
(* _persist from the rename on *)

\* os.replace: the snapshot plus this call's mutation becomes vault.json.
Replace(s) ==
  /\ pc[s] = "replace"
  /\ live' = mem[s] \cup {pend[s]}
  /\ Goto(s, "renamed")
  /\ UNCHANGED <<bak, rotation, lock, previous, audit, mem, pend, status>>

\* Variant: the caller is told nothing was saved.
FailsAfterRenameAsRefusal(s) ==
  /\ pc[s] = "renamed"
  /\ Raise(s, "rejected")
  /\ UNCHANGED files

\* secure_file or the directory's fsync raises: the call fails although the
\* new file is in place.
FailsAfterRename(s) ==
  /\ pc[s] = "renamed"
  /\ Raise(s, "failed")
  /\ UNCHANGED files

Written(s) ==
  /\ pc[s] = "renamed"
  /\ Goto(s, IF pend[s] \in Audited THEN "audit" ELSE "done")
  /\ UNCHANGED <<files, rotation, lock, previous, audit, mem, pend, status>>

\* Variant: the audit log is not waited for.
AuditSkipped(s) ==
  /\ pc[s] = "audit"
  /\ Goto(s, "done")
  /\ UNCHANGED <<files, rotation, lock, previous, audit, mem, pend, status>>

AuditRecorded(s) ==
  /\ pc[s] = "audit"
  /\ audit' = audit \cup {pend[s]}
  /\ Goto(s, "done")
  /\ UNCHANGED <<files, rotation, lock, previous, mem, pend, status>>

\* record() raises; if undoing its own append failed too, the event stays.
AuditFails(s) ==
  /\ pc[s] = "audit"
  /\ audit' \in {audit, audit \cup {pend[s]}}
  /\ Goto(s, "rollback")
  /\ UNCHANGED <<files, rotation, lock, previous, mem, pend, status>>

\* Variant: the call is refused but the old bytes are not put back.
RollbackForgotten(s) ==
  /\ pc[s] = "rollback"
  /\ Goto(s, "refuse")
  /\ UNCHANGED <<files, rotation, lock, previous, audit, mem, pend, status>>

\* The bytes read before the write are renamed back into place.
Rollback(s) ==
  /\ pc[s] = "rollback"
  /\ live' = previous
  /\ Goto(s, "refuse")
  /\ UNCHANGED <<bak, rotation, lock, previous, audit, mem, pend, status>>

\* The undo raises, before its rename or after it.
RollbackFails(s) ==
  /\ pc[s] \in {"rollback", "refuse"}
  /\ Raise(s, "failed")
  /\ UNCHANGED files

Refuse(s) ==
  /\ pc[s] = "refuse"
  /\ Raise(s, "rejected")
  /\ UNCHANGED files

Unlock(s) ==
  /\ pc[s] = "done"
  /\ lock' = None
  /\ previous' = Absent
  /\ DropRotation
  /\ Goto(s, "return")
  /\ UNCHANGED <<files, audit, mem, pend, status>>

\* Only now does the session take the new snapshot and digest, and answer.
Return(s) ==
  /\ pc[s] = "return"
  /\ mem' = [mem EXCEPT ![s] = @ \cup {pend[s]}]
  /\ Answer(s, "acked")
  /\ Goto(s, "open")
  /\ UNCHANGED <<files, rotation, lock, previous, audit>>

-----------------------------------------------------------------------------
(* A session's process dies: the operating system drops its lock, its       *)
(* temporary files stay behind under names nothing reads.                   *)

Crash(s) ==
  /\ pc[s] # "closed"
  /\ Goto(s, "closed")
  /\ mem' = [mem EXCEPT ![s] = Absent]
  /\ IF pc[s] \in InCall
       THEN Answer(s, "uncertain")
       ELSE UNCHANGED <<pend, status>>
  /\ IF pc[s] \in Critical
       THEN /\ lock' = None
            /\ previous' = Absent
            /\ DropRotation
       ELSE UNCHANGED <<rotation, lock, previous>>
  /\ UNCHANGED <<files, audit>>

-----------------------------------------------------------------------------
SessionNext(s) == Open(s) \/ LockSession(s) \/ \E m \in Mutations : Begin(s, m)
LockNext(s) ==
  \/ Acquire(s) \/ Busy(s)
  \/ AlreadyExists(s) \/ Conflict(s) \/ WriteFails(s) \/ Check(s)
RotationNext(s) ==
  \/ Stage(s) \/ MoveAside(s) \/ Shift(s) \/ InstallCopy(s) \/ RotationFails(s)
WriteNext(s) ==
  \/ Replace(s) \/ FailsAfterRename(s) \/ Written(s)
  \/ AuditRecorded(s) \/ AuditFails(s)
  \/ Rollback(s) \/ RollbackFails(s) \/ Refuse(s)
  \/ Unlock(s) \/ Return(s)

Step(s) ==
  SessionNext(s) \/ LockNext(s) \/ RotationNext(s) \/ WriteNext(s) \/ Crash(s)

Next == \E s \in Sessions : Step(s)

\* The polling loop is bounded by its deadline whoever holds the lock; the
\* holder itself is promised nothing (its disk may hang).
Fairness == \A s \in Sessions : WF_vars(Acquire(s) \/ Busy(s))

Spec == Init /\ [][Next]_vars /\ Fairness

-----------------------------------------------------------------------------
(* Properties *)

Register == INSTANCE VaultRegister WITH stored <- live

(* The sessions, lock, rotation and undo together implement the register:  *)
(* the code in _persist changes vault.json only by putting in or taking     *)
(* back a mutation whose caller has not been answered, and answers truly.   *)
ImplementsRegister == Register!Spec

(* A mutation whose call returned is in vault.json, whatever other sessions *)
(* (with snapshots from before it), failed audits and crashes did since.    *)
AckedDurable == \A m \in Mutations : status[m] = "acked" => m \in live

(* A mutation whose call was refused is in no copy of the vault a restore   *)
(* could bring back: neither in vault.json nor in any numbered backup.      *)
RejectedNotKept ==
  \A m \in Mutations : status[m] = "rejected" =>
    /\ m \notin live
    /\ \A i \in Index : m \notin bak[i]

(* An audited call that returned left its event in the audit log: _persist  *)
(* does not answer before record() did.                                     *)
AuditedBeforeAcked == \A m \in Audited : status[m] = "acked" => m \in audit

(* _rotate_backups either shifts every backup by one and puts the current   *)
(* file first, or (when it raises) puts each one back where it was.  Only a *)
(* crash may leave something between the two.                               *)
RotationAllOrNothing ==
  [][\A s \in Sessions : pc[s] \in Rotating /\ pc'[s] \notin Rotating =>
       \/ /\ pc'[s] = "replace"
          /\ \A i \in Index : bak'[i] = IF i = 1 THEN live ELSE before[i - 1]
       \/ /\ status'[pend[s]] = "rejected"
          /\ bak' = before
       \/ status'[pend[s]] = "uncertain"]_vars

(* Restoring vault.json.bak.i undoes at most the last i writes and nothing  *)
(* but writes, and a higher number is never newer: bak.1 is the newest and   *)
(* bak.N the oldest, in the middle of a rotation and after a crash too.     *)
BackupsTrail ==
  \A i \in Index : bak[i] # Absent =>
    /\ bak[i] \subseteq live
    /\ Cardinality(live \ bak[i]) <= i
    /\ \A j \in 1 .. i : bak[j] # Absent => bak[i] \subseteq bak[j]

(* A session that is about to write, or has written and may still undo it,  *)
(* has not been overtaken: the file holds exactly its snapshot, with its    *)
(* own mutation once that is renamed in.  Open reads without the lock, so   *)
(* the snapshot may come from a file that was taken back since.             *)
SnapshotCurrent ==
  \A s \in Sessions :
    /\ pc[s] \in BeforeRename => live = mem[s]
    /\ pc[s] \in AfterRename \cup {"done"} => live = mem[s] \cup {pend[s]}

(* tests/test_vault.py:356 "failed_write_leave_memory_and_disk_unchanged":   *)
(* a call that raised has not changed vault.json.  It does not hold: the     *)
(* rename is not undone when securing or syncing the new file raises.        *)
FailedWriteLeavesFile ==
  \A m \in Mutations : status[m] = "failed" => m \notin live

(* Polling for the lock ends even if the holder never lets it go.           *)
WaitEnds == \A s \in Sessions : pc[s] = "wait" ~> pc[s] # "wait"
=============================================================================
