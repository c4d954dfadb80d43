----------------------- MODULE VaultPersistenceProofs -----------------------
(***************************************************************************)
(* Proofs about VaultPersistence, for any number of sessions, mutations and *)
(* backups.                                                                 *)
(***************************************************************************)
EXTENDS VaultPersistence, FiniteSetTheorems, TLAPS

\* The session inside the critical section is the one that holds the lock.
LockInv == \A s \in Sessions : lock = s <=> pc[s] \in Critical

\* Each call in progress has a mutation of its own, not yet answered.
CallInv ==
  /\ \A s \in Sessions : pc[s] \in InCall =>
       pend[s] \in Mutations /\ status[pend[s]] = "pending"
  /\ \A s, t \in Sessions :
       pc[s] \in InCall /\ pc[t] \in InCall /\ pend[s] = pend[t] => s = t

\* Which kind of call is where, and that no session means no snapshot.
KindInv ==
  \A s \in Sessions :
    /\ pc[s] = "closed" => mem[s] = Absent
    /\ pc[s] \in InCall /\ pend[s] \in Creations => mem[s] = Absent
    /\ pc[s] \in {"stage"} \cup Rotating => pend[s] \notin Creations
    /\ pc[s] \in {"audit", "rollback", "refuse"} => pend[s] \in Audited

Placed == {"renamed", "audit", "rollback", "done", "return"}

\* The rotation's index stays where there is a backup to move.
RotationInv ==
  \A s \in Sessions :
    /\ pc[s] = "aside" => k \in Index
    /\ pc[s] = "shift" => k \in 2 .. BackupCount + 1

\* What vault.json may hold: never the mutation of a call not begun or
\* refused, and that of a call in progress only after its rename.
LiveInv ==
  \A m \in live :
    /\ status[m] \notin {"unused", "rejected"}
    /\ status[m] = "pending" =>
         \E s \in Sessions : pend[s] = m /\ pc[s] \in Placed

\* The bytes an audited call keeps are its snapshot, which lacks its mutation.
UndoInv ==
  \A s \in Sessions :
    /\ pc[s] \in BeforeRename \cup AfterRename /\ pend[s] \in Audited
         => previous = mem[s]
    /\ pc[s] \in AfterRename \cup {"done"} => pend[s] \notin mem[s]
    /\ pc[s] = "refuse" => pend[s] \notin live
    /\ pc[s] = "return" => pend[s] \in live

\* Backups hold only what vault.json holds, and not what may be undone.
BackupInv ==
  \A i \in Index :
    /\ bak[i] \cup aside[i] \cup staged \subseteq live
    /\ \A s \in Sessions : pc[s] \in AfterRename =>
         pend[s] \notin bak[i] \cup aside[i] \cup staged

\* The audit event of an audited call comes before its answer.
AuditInv ==
  \A s \in Sessions :
    pc[s] \in {"done", "return"} /\ pend[s] \in Audited => pend[s] \in audit

IInv ==
  /\ TypeOK
  /\ LockInv
  /\ CallInv
  /\ KindInv
  /\ RotationInv
  /\ LiveInv
  /\ SnapshotCurrent
  /\ UndoInv
  /\ BackupInv
  /\ AuditInv
  /\ AckedDurable
  /\ AuditedBeforeAcked

-----------------------------------------------------------------------------
(* The vocabulary of the specification is expanded everywhere below; its    *)
(* actions and the parts of the invariant only where they are cited.        *)
USE KindsAssumption, BackupCountAssumption, NoneAssumption
    DEF Goto, Resume, Answer, Raise, DropRotation, vars, files, rotation,
        sessionVars, Critical, InCall, BeforeRename, AfterRename, Rotating,
        Places, Placed,
        Outcomes, File, Absent, Index, NoFiles

\* Every step keeps the types.
LEMMA TypeOKStep ==
  ASSUME TypeOK, LockInv, CallInv, RotationInv, KindInv, NEW s \in Sessions,
         Step(s)
  PROVE  TypeOK'
<1>1. CASE SessionNext(s)
  <2>1. CASE Open(s)
    BY <2>1 DEF Open, TypeOK
  <2>2. CASE LockSession(s)
    BY <2>2 DEF LockSession, TypeOK
  <2>3. ASSUME NEW m \in Mutations, Begin(s, m)
       PROVE  TypeOK'
    BY <2>3 DEF Begin, TypeOK
  <2>4. QED
    BY <1>1, <2>1, <2>2, <2>3 DEF SessionNext
<1>2. CASE LockNext(s)
  <2>1. CASE Acquire(s)
    BY <2>1 DEF Acquire, TypeOK
  <2>2. CASE Busy(s)
    BY <2>2 DEF Busy, TypeOK
  <2>3. CASE AlreadyExists(s)
    BY <2>3 DEF AlreadyExists, TypeOK
  <2>4. CASE Conflict(s)
    BY <2>4 DEF Conflict, TypeOK, CallInv
  <2>5. CASE WriteFails(s)
    BY <2>5 DEF WriteFails, TypeOK, CallInv
  <2>6. CASE Check(s)
    BY <2>6 DEF Check, TypeOK
  <2>7. QED
    BY <1>2, <2>1, <2>2, <2>3, <2>4, <2>5, <2>6 DEF LockNext
<1>3. CASE RotationNext(s)
  <2>1. CASE Stage(s)
    BY <2>1 DEF Stage, TypeOK
  <2>2. CASE MoveAside(s)
    BY <2>2 DEF MoveAside, TypeOK, LockInv, RotationInv
  <2>3. CASE Shift(s)
    BY <2>3 DEF Shift, TypeOK, RotationInv
  <2>4. CASE InstallCopy(s)
    BY <1>1, <2>4 DEF InstallCopy, TypeOK
  <2>5. CASE RotationFails(s)
    BY <2>5 DEF RotationFails, TypeOK, CallInv, OldBackup
  <2>6. QED
    BY <1>3, <2>1, <2>2, <2>3, <2>4, <2>5 DEF RotationNext
<1>4. CASE WriteNext(s)
  <2>1. CASE Replace(s)
    BY <2>1 DEF Replace, TypeOK, CallInv
  <2>2. CASE FailsAfterRename(s)
    BY <2>2 DEF FailsAfterRename, TypeOK, CallInv
  <2>3. CASE Written(s)
    BY <2>3 DEF Written, TypeOK
  <2>4. CASE AuditRecorded(s)
    BY <2>4 DEF AuditRecorded, TypeOK, KindInv
  <2>5. CASE AuditFails(s)
    BY <2>5 DEF AuditFails, TypeOK, KindInv
  <2>6. CASE Rollback(s)
    BY <2>6 DEF Rollback, TypeOK
  <2>7. CASE RollbackFails(s)
    BY <2>7 DEF RollbackFails, TypeOK, CallInv
  <2>8. CASE Refuse(s)
    BY <2>8 DEF Refuse, TypeOK, CallInv
  <2>9. CASE Unlock(s)
    BY <2>9 DEF Unlock, TypeOK
  <2>10. CASE Return(s)
    BY <2>10 DEF Return, TypeOK, CallInv
  <2>11. QED
    BY <1>4, <2>1, <2>2, <2>3, <2>4, <2>5, <2>6, <2>7, <2>8, <2>9, <2>10
       DEF WriteNext
<1>5. CASE Crash(s)
  <2>1. /\ pc' \in [Sessions -> Places]
        /\ mem' \in [Sessions -> File]
        /\ UNCHANGED <<live, bak, audit>>
    BY <1>5 DEF Crash, TypeOK
  <2>2. /\ pend' \in [Sessions -> Mutations \cup {None}]
        /\ status' \in [Mutations -> Outcomes]
    <3>1. CASE pc[s] \in InCall
      BY <1>5, <3>1 DEF Crash, TypeOK
    <3>2. CASE pc[s] \notin InCall
      BY <1>5, <3>2 DEF Crash, TypeOK
    <3>3. QED
      BY <3>1, <3>2
  <2>3. /\ staged' \in File /\ aside' \in [Index -> File]
        /\ k' \in 1 .. BackupCount + 1
        /\ before' \in [Index -> File]
        /\ lock' \in Sessions \cup {None} /\ previous' \in File
    <3>1. CASE pc[s] \in Critical
      BY <1>5, <3>1 DEF Crash
    <3>2. CASE pc[s] \notin Critical
      BY <1>5, <3>2 DEF Crash, TypeOK
    <3>3. QED
      BY <3>1, <3>2
  <2>4. QED
    BY <2>1, <2>2, <2>3 DEF TypeOK
<1>6. QED
  BY <1>1, <1>2, <1>3, <1>4, <1>5 DEF Step

\* MoveAside and Shift stay inside the numbered backups.
LEMMA RotationInvStep ==
  ASSUME TypeOK, LockInv, RotationInv, NEW s \in Sessions, Step(s)
  PROVE  RotationInv'
<1>1. CASE SessionNext(s)
  <2>1. CASE Open(s)
    BY <2>1 DEF Open, RotationInv
  <2>2. CASE LockSession(s)
    BY <2>2 DEF LockSession, RotationInv
  <2>3. ASSUME NEW m \in Mutations, Begin(s, m)
       PROVE  RotationInv'
    BY <2>3 DEF Begin, RotationInv
  <2>4. QED
    BY <1>1, <2>1, <2>2, <2>3 DEF SessionNext
<1>2. CASE LockNext(s)
  BY <1>2 DEF LockNext, Acquire, Busy, AlreadyExists, Conflict, WriteFails,
         Check, TypeOK, LockInv, RotationInv
<1>3. CASE RotationNext(s)
  BY <1>3 DEF RotationNext, Stage, MoveAside, Shift, InstallCopy,
         RotationFails, TypeOK, LockInv, RotationInv
<1>4. CASE WriteNext(s)
  BY <1>4 DEF WriteNext, Replace, FailsAfterRename, Written, AuditRecorded,
         AuditFails, Rollback, RollbackFails, Refuse, Unlock, Return, TypeOK,
         LockInv, RotationInv
<1>5. CASE Crash(s)
  BY <1>5 DEF Crash, TypeOK, LockInv, RotationInv
<1>6. QED
  BY <1>1, <1>2, <1>3, <1>4, <1>5 DEF Step

\* A step enters the critical section only by taking a free lock.
LEMMA LockInvStep ==
  ASSUME TypeOK, LockInv, NEW s \in Sessions, Step(s)
  PROVE  LockInv'
<1>1. CASE SessionNext(s)
  <2>1. CASE Open(s)
    BY <2>1 DEF Open, LockInv
  <2>2. CASE LockSession(s)
    BY <2>2 DEF LockSession, LockInv
  <2>3. ASSUME NEW m \in Mutations, Begin(s, m)
       PROVE  LockInv'
    BY <2>3 DEF Begin, LockInv
  <2>4. QED
    BY <1>1, <2>1, <2>2, <2>3 DEF SessionNext
<1>2. CASE LockNext(s)
  BY <1>2 DEF LockNext, Acquire, Busy, AlreadyExists, Conflict, WriteFails,
         Check, TypeOK, LockInv
<1>3. CASE RotationNext(s)
  BY <1>3 DEF RotationNext, Stage, MoveAside, Shift, InstallCopy,
         RotationFails, TypeOK, LockInv
<1>4. CASE WriteNext(s)
  BY <1>4 DEF WriteNext, Replace, FailsAfterRename, Written, AuditRecorded,
         AuditFails, Rollback, RollbackFails, Refuse, Unlock, Return, TypeOK,
         LockInv
<1>5. CASE Crash(s)
  BY <1>5 DEF Crash, TypeOK, LockInv
<1>6. QED
  BY <1>1, <1>2, <1>3, <1>4, <1>5 DEF Step

\* A call begins with a mutation nobody made, and keeps it to itself.
LEMMA CallInvStep ==
  ASSUME TypeOK, CallInv, NEW s \in Sessions, Step(s)
  PROVE  CallInv'
<1>1. CASE SessionNext(s)
  <2>1. CASE Open(s)
    BY <2>1 DEF Open, CallInv
  <2>2. CASE LockSession(s)
    BY <2>2 DEF LockSession, CallInv
  <2>3. ASSUME NEW m \in Mutations, Begin(s, m)
       PROVE  CallInv'
    BY <2>3 DEF Begin, TypeOK, CallInv
  <2>4. QED
    BY <1>1, <2>1, <2>2, <2>3 DEF SessionNext
<1>2. CASE LockNext(s)
  <2>1. CASE Acquire(s)
    BY <2>1 DEF Acquire, CallInv
  <2>2. CASE Busy(s)
    BY <2>2 DEF Busy, TypeOK, CallInv
  <2>3. CASE AlreadyExists(s)
    BY <2>3 DEF AlreadyExists, TypeOK, CallInv
  <2>4. CASE Conflict(s)
    BY <2>4 DEF Conflict, TypeOK, CallInv
  <2>5. CASE WriteFails(s)
    BY <2>5 DEF WriteFails, TypeOK, CallInv
  <2>6. CASE Check(s)
    BY <2>6 DEF Check, TypeOK, CallInv
  <2>7. QED
    BY <1>2, <2>1, <2>2, <2>3, <2>4, <2>5, <2>6 DEF LockNext
<1>3. CASE RotationNext(s)
  <2>1. CASE Stage(s)
    BY <2>1 DEF Stage, CallInv
  <2>2. CASE MoveAside(s)
    BY <2>2 DEF MoveAside, TypeOK, CallInv
  <2>3. CASE Shift(s)
    BY <2>3 DEF Shift, CallInv
  <2>4. CASE InstallCopy(s)
    BY <2>4 DEF InstallCopy, CallInv
  <2>5. CASE RotationFails(s)
    BY <2>5 DEF RotationFails, TypeOK, CallInv
  <2>6. QED
    BY <1>3, <2>1, <2>2, <2>3, <2>4, <2>5 DEF RotationNext
<1>4. CASE WriteNext(s)
  <2>1. CASE Replace(s)
    BY <2>1 DEF Replace, CallInv
  <2>2. CASE FailsAfterRename(s)
    BY <2>2 DEF FailsAfterRename, TypeOK, CallInv
  <2>3. CASE Written(s)
    BY <2>3 DEF Written, CallInv
  <2>4. CASE AuditRecorded(s)
    BY <2>4 DEF AuditRecorded, CallInv
  <2>5. CASE AuditFails(s)
    BY <2>5 DEF AuditFails, CallInv
  <2>6. CASE Rollback(s)
    BY <2>6 DEF Rollback, CallInv
  <2>7. CASE RollbackFails(s)
    BY <2>7 DEF RollbackFails, TypeOK, CallInv
  <2>8. CASE Refuse(s)
    BY <2>8 DEF Refuse, TypeOK, CallInv
  <2>9. CASE Unlock(s)
    BY <2>9 DEF Unlock, CallInv
  <2>10. CASE Return(s)
    BY <2>10 DEF Return, TypeOK, CallInv
  <2>11. QED
    BY <1>4, <2>1, <2>2, <2>3, <2>4, <2>5, <2>6, <2>7, <2>8, <2>9, <2>10
       DEF WriteNext
<1>5. CASE Crash(s)
  BY <1>5 DEF Crash, TypeOK, CallInv
<1>6. QED
  BY <1>1, <1>2, <1>3, <1>4, <1>5 DEF Step

\* A create has no snapshot and no rotation; only audited saves are undone.
LEMMA KindInvStep ==
  ASSUME TypeOK, KindInv, NEW s \in Sessions, Step(s)
  PROVE  KindInv'
<1>1. CASE SessionNext(s)
  BY <1>1 DEF SessionNext, Open, LockSession, Begin, TypeOK, KindInv
<1>2. CASE LockNext(s)
  BY <1>2 DEF LockNext, Acquire, Busy, AlreadyExists, Conflict, WriteFails,
         Check, TypeOK, KindInv
<1>3. CASE RotationNext(s)
  BY <1>3 DEF RotationNext, Stage, MoveAside, Shift, InstallCopy,
         RotationFails, TypeOK, KindInv
<1>4. CASE WriteNext(s)
  BY <1>4 DEF WriteNext, Replace, FailsAfterRename, Written, AuditRecorded,
         AuditFails, Rollback, RollbackFails, Refuse, Unlock, Return, TypeOK,
         KindInv
<1>5. CASE Crash(s)
  BY <1>5 DEF Crash, TypeOK, KindInv
<1>6. QED
  BY <1>1, <1>2, <1>3, <1>4, <1>5 DEF Step

\* Replace is the only step that adds to vault.json, and what it adds is its
\* own; a call is refused only before that or after it was taken back.
LEMMA LiveInvStep ==
  ASSUME TypeOK, LockInv, CallInv, KindInv, LiveInv, SnapshotCurrent, UndoInv,
         NEW s \in Sessions, Step(s)
  PROVE  LiveInv'
<1>1. CASE SessionNext(s)
  BY <1>1 DEF SessionNext, Open, LockSession, Begin, TypeOK, LockInv,
         CallInv, LiveInv, UndoInv
<1>2. CASE LockNext(s)
  BY <1>2 DEF LockNext, Acquire, Busy, AlreadyExists, Conflict, WriteFails,
         Check, TypeOK, CallInv, LiveInv, UndoInv
<1>3. CASE RotationNext(s)
  <2>1. CASE Stage(s)
    BY <2>1 DEF Stage, LiveInv
  <2>2. CASE MoveAside(s)
    BY <2>2 DEF MoveAside, TypeOK, LiveInv
  <2>3. CASE Shift(s)
    BY <2>3 DEF Shift, LiveInv
  <2>4. CASE InstallCopy(s)
    BY <2>4 DEF InstallCopy, LiveInv, SnapshotCurrent
  <2>5. CASE RotationFails(s)
    BY <2>5 DEF RotationFails, LockInv, CallInv, LiveInv, SnapshotCurrent,
           UndoInv
  <2>6. QED
    BY <1>3, <2>1, <2>2, <2>3, <2>4, <2>5 DEF RotationNext
<1>4. CASE WriteNext(s)
  BY <1>4 DEF WriteNext, Replace, FailsAfterRename, Written, AuditRecorded,
         AuditFails, Rollback, RollbackFails, Refuse, Unlock, Return, TypeOK,
         CallInv, KindInv, LiveInv, SnapshotCurrent, UndoInv
<1>5. CASE Crash(s)
  BY <1>5 DEF Crash, TypeOK, LiveInv
<1>6. QED
  BY <1>1, <1>2, <1>3, <1>4, <1>5 DEF Step

\* Between the check and the answer no other session touches vault.json.
LEMMA SnapshotCurrentStep ==
  ASSUME TypeOK, LockInv, KindInv, SnapshotCurrent, NEW s \in Sessions, Step(s)
  PROVE  SnapshotCurrent'
<1>1. CASE SessionNext(s)
  BY <1>1 DEF SessionNext, Open, LockSession, Begin, TypeOK, SnapshotCurrent
<1>2. CASE LockNext(s)
  <2>1. CASE Acquire(s)
    BY <2>1 DEF Acquire, SnapshotCurrent
  <2>2. CASE Busy(s)
    BY <2>2 DEF Busy, SnapshotCurrent
  <2>3. CASE AlreadyExists(s)
    BY <2>3 DEF AlreadyExists, SnapshotCurrent
  <2>4. CASE Conflict(s)
    BY <2>4 DEF Conflict, SnapshotCurrent
  <2>5. CASE WriteFails(s)
    BY <2>5 DEF WriteFails, SnapshotCurrent
  <2>6. CASE Check(s)
    <3>1. CASE pend[s] \in Creations
      <4>1. live = mem[s] /\ pc' = [pc EXCEPT ![s] = "replace"]
        BY <2>6, <3>1 DEF Check, KindInv
      <4>2. QED
        BY <2>6, <4>1 DEF Check, SnapshotCurrent
    <3>2. CASE pend[s] \notin Creations
      <4>1. live = mem[s] /\ pc' = [pc EXCEPT ![s] = "stage"]
        BY <2>6, <3>2 DEF Check
      <4>2. QED
        BY <2>6, <4>1 DEF Check, SnapshotCurrent
    <3>3. QED
      BY <3>1, <3>2
  <2>7. QED
    BY <1>2, <2>1, <2>2, <2>3, <2>4, <2>5, <2>6 DEF LockNext
<1>3. CASE RotationNext(s)
  BY <1>3 DEF RotationNext, Stage, MoveAside, Shift, InstallCopy,
         RotationFails, TypeOK, SnapshotCurrent
<1>4. CASE WriteNext(s)
  BY <1>4 DEF WriteNext, Replace, FailsAfterRename, Written, AuditRecorded,
         AuditFails, Rollback, RollbackFails, Refuse, Unlock, Return, TypeOK,
         LockInv, SnapshotCurrent
<1>5. CASE Crash(s)
  BY <1>5 DEF Crash, TypeOK, SnapshotCurrent
<1>6. QED
  BY <1>1, <1>2, <1>3, <1>4, <1>5 DEF Step

\* What an audited call would put back lacks its mutation and nothing else.
LEMMA UndoInvStep ==
  ASSUME TypeOK, LockInv, CallInv, KindInv, LiveInv, SnapshotCurrent, UndoInv,
         NEW s \in Sessions, Step(s)
  PROVE  UndoInv'
<1>1. CASE SessionNext(s)
  BY <1>1 DEF SessionNext, Open, LockSession, Begin, TypeOK, UndoInv
<1>2. CASE LockNext(s)
  BY <1>2 DEF LockNext, Acquire, Busy, AlreadyExists, Conflict, WriteFails,
         Check, TypeOK, LockInv, UndoInv
<1>3. CASE RotationNext(s)
  BY <1>3 DEF RotationNext, Stage, MoveAside, Shift, InstallCopy,
         RotationFails, TypeOK, LockInv, UndoInv
<1>4. CASE WriteNext(s)
  BY <1>4 DEF WriteNext, Replace, FailsAfterRename, Written, AuditRecorded,
         AuditFails, Rollback, RollbackFails, Refuse, Unlock, Return, TypeOK,
         LockInv, CallInv, KindInv, LiveInv, SnapshotCurrent, UndoInv
<1>5. CASE Crash(s)
  BY <1>5 DEF Crash, TypeOK, LockInv, UndoInv
<1>6. QED
  BY <1>1, <1>2, <1>3, <1>4, <1>5 DEF Step

\* The rotation copies vault.json before the rename, and only renames after.
LEMMA BackupInvStep ==
  ASSUME TypeOK, LockInv, CallInv, KindInv, RotationInv, LiveInv,
         SnapshotCurrent, UndoInv, BackupInv, NEW s \in Sessions, Step(s)
  PROVE  BackupInv'
<1>1. CASE SessionNext(s)
  BY <1>1 DEF SessionNext, Open, LockSession, Begin, TypeOK, BackupInv
<1>2. CASE LockNext(s)
  BY <1>2 DEF LockNext, Acquire, Busy, AlreadyExists, Conflict, WriteFails,
         Check, TypeOK, KindInv, BackupInv
<1>3. CASE RotationNext(s)
  <2>1. CASE Stage(s)
    BY <2>1 DEF Stage, LockInv, BackupInv
  <2>2. CASE MoveAside(s)
    BY <2>2 DEF MoveAside, TypeOK, BackupInv
  <2>3. CASE Shift(s)
    BY <2>3 DEF Shift, RotationInv, BackupInv
  <2>4. CASE InstallCopy(s)
    BY <2>4 DEF InstallCopy, BackupInv
  <2>5. CASE RotationFails(s)
    BY <2>5 DEF RotationFails, TypeOK, BackupInv, OldBackup
  <2>6. QED
    BY <1>3, <2>1, <2>2, <2>3, <2>4, <2>5 DEF RotationNext
<1>4. CASE WriteNext(s)
  BY <1>4 DEF WriteNext, Replace, FailsAfterRename, Written, AuditRecorded,
         AuditFails, Rollback, RollbackFails, Refuse, Unlock, Return, TypeOK,
         CallInv, KindInv, LiveInv, SnapshotCurrent, UndoInv, BackupInv
<1>5. CASE Crash(s)
  BY <1>5 DEF Crash, TypeOK, BackupInv
<1>6. QED
  BY <1>1, <1>2, <1>3, <1>4, <1>5 DEF Step

\* An audited call passes the audit log on its way to its answer.
LEMMA AuditInvStep ==
  ASSUME TypeOK, LockInv, AuditInv, NEW s \in Sessions, Step(s)
  PROVE  AuditInv'
<1>1. CASE SessionNext(s)
  BY <1>1 DEF SessionNext, Open, LockSession, Begin, TypeOK, AuditInv
<1>2. CASE LockNext(s)
  BY <1>2 DEF LockNext, Acquire, Busy, AlreadyExists, Conflict, WriteFails,
         Check, TypeOK, LockInv, AuditInv
<1>3. CASE RotationNext(s)
  BY <1>3 DEF RotationNext, Stage, MoveAside, Shift, InstallCopy,
         RotationFails, TypeOK, AuditInv
<1>4. CASE WriteNext(s)
  BY <1>4 DEF WriteNext, Replace, FailsAfterRename, Written, AuditRecorded,
         AuditFails, Rollback, RollbackFails, Refuse, Unlock, Return, TypeOK,
         AuditInv
<1>5. CASE Crash(s)
  BY <1>5 DEF Crash, TypeOK, AuditInv
<1>6. QED
  BY <1>1, <1>2, <1>3, <1>4, <1>5 DEF Step

\* Only the holder's own, unanswered mutation ever leaves vault.json.
LEMMA AckedDurableStep ==
  ASSUME TypeOK, CallInv, KindInv, SnapshotCurrent, UndoInv, AckedDurable, NEW
         s \in Sessions, Step(s)
  PROVE  AckedDurable'
<1>1. CASE SessionNext(s)
  BY <1>1 DEF SessionNext, Open, LockSession, Begin, TypeOK, AckedDurable
<1>2. CASE LockNext(s)
  BY <1>2 DEF LockNext, Acquire, Busy, AlreadyExists, Conflict, WriteFails,
         Check, TypeOK, AckedDurable
<1>3. CASE RotationNext(s)
  BY <1>3 DEF RotationNext, Stage, MoveAside, Shift, InstallCopy,
         RotationFails, TypeOK, AckedDurable
<1>4. CASE WriteNext(s)
  BY <1>4 DEF WriteNext, Replace, FailsAfterRename, Written, AuditRecorded,
         AuditFails, Rollback, RollbackFails, Refuse, Unlock, Return, TypeOK,
         CallInv, KindInv, SnapshotCurrent, UndoInv, AckedDurable
<1>5. CASE Crash(s)
  BY <1>5 DEF Crash, TypeOK, AckedDurable
<1>6. QED
  BY <1>1, <1>2, <1>3, <1>4, <1>5 DEF Step

\* The event is there before the answer, and events are not removed.
LEMMA AuditedBeforeAckedStep ==
  ASSUME TypeOK, AuditInv, AuditedBeforeAcked, NEW s \in Sessions, Step(s)
  PROVE  AuditedBeforeAcked'
<1>1. CASE SessionNext(s)
  BY <1>1 DEF SessionNext, Open, LockSession, Begin, TypeOK,
         AuditedBeforeAcked
<1>2. CASE LockNext(s)
  BY <1>2 DEF LockNext, Acquire, Busy, AlreadyExists, Conflict, WriteFails,
         Check, TypeOK, AuditedBeforeAcked
<1>3. CASE RotationNext(s)
  BY <1>3 DEF RotationNext, Stage, MoveAside, Shift, InstallCopy,
         RotationFails, TypeOK, AuditedBeforeAcked
<1>4. CASE WriteNext(s)
  BY <1>4 DEF WriteNext, Replace, FailsAfterRename, Written, AuditRecorded,
         AuditFails, Rollback, RollbackFails, Refuse, Unlock, Return, TypeOK,
         AuditInv, AuditedBeforeAcked
<1>5. CASE Crash(s)
  BY <1>5 DEF Crash, TypeOK, AuditedBeforeAcked
<1>6. QED
  BY <1>1, <1>2, <1>3, <1>4, <1>5 DEF Step

-----------------------------------------------------------------------------
(* The inductive invariant *)

\* Nothing exists yet, so nothing is wrong yet.
LEMMA InitIInv == Init => IInv
BY DEF Init, IInv, TypeOK, LockInv, CallInv, KindInv, RotationInv, LiveInv,
       SnapshotCurrent, UndoInv, BackupInv, AuditInv, AckedDurable,
       AuditedBeforeAcked

\* Every step of every session keeps every part of the invariant.
LEMMA NextIInv == IInv /\ [Next]_vars => IInv'
<1> SUFFICES ASSUME IInv, [Next]_vars PROVE IInv'
  OBVIOUS
<1>1. ASSUME NEW s \in Sessions, Step(s)
      PROVE  IInv'
  BY <1>1, TypeOKStep, RotationInvStep, LockInvStep, CallInvStep, KindInvStep,
     LiveInvStep, SnapshotCurrentStep, UndoInvStep, BackupInvStep, AuditInvStep,
     AckedDurableStep, AuditedBeforeAckedStep
     DEF IInv
<1>2. CASE UNCHANGED vars
  BY <1>2 DEF IInv, TypeOK, LockInv, CallInv, KindInv, RotationInv, LiveInv,
       SnapshotCurrent, UndoInv, BackupInv, AuditInv, AckedDurable,
       AuditedBeforeAcked
<1>3. QED
  BY <1>1, <1>2 DEF Next

(* The invariant the theorems below rest on: who may be where while the     *)
(* vault is being replaced, and what the file, its backups and the bytes    *)
(* kept for the undo then hold.                                             *)
THEOREM Inductive == Spec => []IInv
BY InitIInv, NextIInv, PTL DEF Spec

(* The variables keep their types: _persist and create never leave a file,  *)
(* a lock or a session in a form the code has no case for.                  *)
THEOREM TypeCorrect == Spec => []TypeOK
<1>1. IInv => TypeOK
  BY DEF IInv
<1>2. QED
  BY <1>1, Inductive, PTL

(* What a mutator of the vault has acknowledged stays in vault.json.        *)
THEOREM AckedIsDurable == Spec => []AckedDurable
<1>1. IInv => AckedDurable
  BY DEF IInv
<1>2. QED
  BY <1>1, Inductive, PTL

(* What a mutator has refused is in no file that could ever be opened.      *)
THEOREM RejectedIsNotKept == Spec => []RejectedNotKept
<1>1. IInv => RejectedNotKept
  BY DEF IInv, LiveInv, BackupInv, RejectedNotKept
<1>2. QED
  BY <1>1, Inductive, PTL

(* A session never writes over, or undoes onto, a file it has not seen.     *)
THEOREM SnapshotIsCurrent == Spec => []SnapshotCurrent
<1>1. IInv => SnapshotCurrent
  BY DEF IInv
<1>2. QED
  BY <1>1, Inductive, PTL

(* An audited mutation is acknowledged only once it is in the audit log.    *)
THEOREM AuditComesFirst == Spec => []AuditedBeforeAcked
<1>1. IInv => AuditedBeforeAcked
  BY DEF IInv
<1>2. QED
  BY <1>1, Inductive, PTL

-----------------------------------------------------------------------------
(* The rotation, and how far the backups are behind *)

\* What the rotation has done to the backups it found: those below its index
\* are aside, the others in place; then they are renamed from the front.
MovedAside ==
  \A i \in Index :
    IF i < k THEN aside[i] = before[i] /\ bak[i] = Absent
             ELSE bak[i] = before[i] /\ aside[i] = Absent
Shifted ==
  /\ bak[1] = Absent
  /\ \A i \in Index :
       /\ aside[i] = IF i < k - 1 THEN Absent ELSE before[i]
       /\ i # 1 => bak[i] = IF i < k THEN before[i - 1] ELSE Absent

StageInv ==
  /\ (\A s \in Sessions : pc[s] \notin Rotating) => aside = NoFiles
  /\ \A s \in Sessions :
       /\ pc[s] \in Rotating => staged = live
       /\ pc[s] = "aside" => MovedAside
       /\ pc[s] = "shift" => Shifted

\* Backups f are at most i - d writes behind and in order.
Trail(f, d) ==
  \A i \in Index : f[i] # Absent =>
    /\ f[i] \subseteq live
    /\ Cardinality(live \ f[i]) <= i - d
    /\ \A j \in 1 .. i : f[j] # Absent => f[i] \subseteq f[j]

\* After a rotation there is room for one more write in every backup.
RoomInv ==
  \A s \in Sessions :
    /\ pc[s] \in Rotating => Trail(before, 0)
    /\ pc[s] = "replace" => Trail(bak, 1)

\* Files have been written finitely often.
FiniteInv ==
  /\ IsFiniteSet(live) /\ IsFiniteSet(previous)
  /\ \A s \in Sessions : IsFiniteSet(mem[s])

TrailInv == FiniteInv /\ StageInv /\ RoomInv /\ BackupsTrail

\* The names of the parts, used below to cite the state they speak of at once.
USE DEF MovedAside, Shifted

\* Nobody else is where it needs the lock while a session is.
LEMMA Alone ==
  ASSUME LockInv, NEW s \in Sessions, pc[s] \in Critical,
         NEW t \in Sessions, pc[t] \in Critical
  PROVE  t = s
BY DEF LockInv

\* A step that is not of a rotation leaves a rotation alone ...
LEMMA RotationElsewhere ==
  ASSUME StageInv, UNCHANGED <<bak, staged, aside, k, before>>,
         \A t \in Sessions : pc[t] \in Rotating \/ pc'[t] \in Rotating => pc'[t] = pc[t],
         live' = live \/ \A t \in Sessions : pc[t] \notin Rotating
  PROVE  StageInv'
BY DEF StageInv

\* ... and the end of a rotation leaves nothing of it.
LEMMA RotationOver ==
  ASSUME TypeOK, LockInv, NEW s \in Sessions, pc[s] \in Critical, aside' = NoFiles,
         pc'[s] \notin Rotating, \A t \in Sessions \ {s} : pc'[t] = pc[t]
  PROVE  StageInv'
<1>1. ASSUME NEW t \in Sessions PROVE pc'[t] \notin Rotating
  <2>1. CASE t = s
    BY <2>1 DEF TypeOK
  <2>2. CASE t # s
    BY <2>2, Alone DEF TypeOK
  <2>3. QED
    BY <2>1, <2>2
<1>2. QED
  BY <1>1 DEF StageInv

\* Each part of a rotation does to the backups what the index says.
LEMMA StageInvStep ==
  ASSUME IInv, StageInv, NEW s \in Sessions, Step(s)
  PROVE  StageInv'
<1> USE DEF IInv
<1>0. ASSUME NEW t \in Sessions, t # s, pc[s] \in Critical
      PROVE  pc[t] \notin Critical
  BY <1>0, Alone
<1>1. CASE SessionNext(s)
  <2>1. UNCHANGED <<live, bak, staged, aside, k, before>>
    BY <1>1 DEF SessionNext, Open, LockSession, Begin
  <2>2. \A t \in Sessions : pc[t] \in Rotating \/ pc'[t] \in Rotating => pc'[t] = pc[t]
    BY <1>1 DEF SessionNext, Open, LockSession, Begin, TypeOK
  <2>3. QED
    BY <2>1, <2>2, RotationElsewhere
<1>2. CASE LockNext(s)
  <2>1. CASE Acquire(s) \/ Busy(s) \/ Check(s)
    <3>1. UNCHANGED <<live, bak, staged, aside, k, before>>
      BY <2>1 DEF Acquire, Busy, Check
    <3>2. \A t \in Sessions : pc[t] \in Rotating \/ pc'[t] \in Rotating => pc'[t] = pc[t]
      BY <2>1 DEF Acquire, Busy, Check, TypeOK
    <3>3. QED
      BY <3>1, <3>2, RotationElsewhere
  <2>2. CASE AlreadyExists(s) \/ Conflict(s) \/ WriteFails(s)
    <3>1. /\ pc[s] \in Critical /\ aside' = NoFiles
          /\ pc'[s] \notin Rotating /\ \A t \in Sessions \ {s} : pc'[t] = pc[t]
      BY <2>2 DEF AlreadyExists, Conflict, WriteFails, Resume, TypeOK
    <3>2. QED
      BY <3>1, RotationOver
  <2>3. QED
    BY <1>2, <2>1, <2>2 DEF LockNext
<1>3. CASE RotationNext(s)
  <2>0. pc[s] \in Critical
    BY <1>3 DEF RotationNext, Stage, MoveAside, Shift, InstallCopy, RotationFails
  <2>1. CASE Stage(s)
    <3>1. aside = NoFiles
      BY <2>1, <1>0 DEF Stage, StageInv
    <3>2. QED
      BY <2>1, <1>0, <3>1 DEF Stage, TypeOK, StageInv
  <2>2. CASE MoveAside(s)
    <3>1. /\ MovedAside /\ staged = live /\ k \in Index
          /\ bak \in [Index -> File] /\ aside \in [Index -> File]
      BY <2>2 DEF MoveAside, TypeOK, RotationInv, StageInv
    <3>2. /\ aside' = [aside EXCEPT ![k] = bak[k]] /\ bak' = [bak EXCEPT ![k] = Absent]
          /\ before' = before /\ live' = live /\ staged' = staged
      BY <2>2 DEF MoveAside
    <3>3. \A i \in Index : IF i < k + 1 THEN aside'[i] = before[i] /\ bak'[i] = Absent
                                        ELSE bak'[i] = before[i] /\ aside'[i] = Absent
      BY <3>1, <3>2
    <3>4. ASSUME NEW t \in Sessions, t # s PROVE pc'[t] \notin Rotating
      BY <2>2, <2>0, <1>0, <3>4 DEF MoveAside, TypeOK
    <3>5. CASE k = BackupCount
      <4>1. k' = 2 /\ pc'[s] = "shift"
        BY <2>2, <3>5 DEF MoveAside, TypeOK
      <4>2. /\ 1 \in Index /\ bak'[1] = Absent
            /\ \A i \in Index : bak'[i] = Absent /\ aside'[i] = before'[i]
        BY <3>2, <3>3, <3>5
      <4>3. Shifted'
        <5>1. k' - 1 = 1
          BY <4>1
        <5>2. \A i \in Index : ~ (i < 1) /\ (i # 1 => ~ (i < 2))
          OBVIOUS
        <5>3. QED
          BY <4>1, <4>2, <5>1, <5>2
      <4>4. QED
        BY <3>1, <3>2, <3>4, <4>1, <4>3 DEF StageInv
    <3>6. CASE k # BackupCount
      <4>1. k' = k + 1 /\ pc'[s] = "aside"
        BY <2>2, <3>6 DEF MoveAside, TypeOK
      <4>2. MovedAside'
        BY <3>1, <3>2, <3>3, <4>1
      <4>3. QED
        BY <3>1, <3>2, <3>4, <4>1, <4>2 DEF StageInv
    <3>7. QED
      BY <3>5, <3>6
  <2>3. CASE Shift(s)
    <3>1. /\ Shifted /\ staged = live /\ k \in 2 .. BackupCount
          /\ bak \in [Index -> File] /\ aside \in [Index -> File]
      BY <2>3 DEF Shift, TypeOK, RotationInv, StageInv
    <3>2. /\ bak' = [bak EXCEPT ![k] = aside[k - 1]]
          /\ aside' = [aside EXCEPT ![k - 1] = Absent]
          /\ k' = k + 1 /\ before' = before /\ live' = live /\ staged' = staged
          /\ pc[s] = "shift" /\ pc' = pc
      BY <2>3 DEF Shift
    <3>3. /\ 1 \in Index /\ k # 1 /\ bak'[1] = Absent
      BY <3>1, <3>2
    <3>4. ASSUME NEW i \in Index
          PROVE  /\ aside'[i] = IF i < k THEN Absent ELSE before[i]
                 /\ i # 1 => bak'[i] = IF i < k + 1 THEN before[i - 1] ELSE Absent
      <4>1. k \in Index /\ k - 1 \in Index /\ k + 1 - 1 = k
        BY <3>1
      <4>2. aside[k - 1] = before[k - 1]
        BY <3>1, <4>1
      <4>3. bak'[i] = (IF i = k THEN before[k - 1] ELSE bak[i])
        BY <3>1, <3>2, <4>1, <4>2
      <4>4. aside'[i] = (IF i = k - 1 THEN Absent ELSE aside[i])
        BY <3>1, <3>2, <4>1
      <4>5. \/ i < k - 1 /\ i < k /\ i # k /\ i # k - 1 /\ i < k + 1
            \/ i = k - 1 /\ i < k /\ i # k /\ i < k + 1
            \/ i = k /\ ~ (i < k) /\ ~ (i < k - 1) /\ i < k + 1 /\ i # k - 1
            \/ i > k /\ ~ (i < k) /\ ~ (i < k - 1) /\ ~ (i < k + 1) /\ i # k /\ i # k - 1
        BY <3>1
      <4>6. /\ aside[i] = IF i < k - 1 THEN Absent ELSE before[i]
            /\ i # 1 => bak[i] = IF i < k THEN before[i - 1] ELSE Absent
        BY <3>1
      <4>7. QED
        BY <4>3, <4>4, <4>5, <4>6
    <3>5. Shifted'
      <4>1. k' - 1 = k
        BY <3>1, <3>2
      <4>2. QED
        BY <3>2, <3>3, <3>4, <4>1
    <3>6. QED
      BY <1>0, <3>1, <3>2, <3>5 DEF StageInv
  <2>4. CASE InstallCopy(s)
    <3>1. aside' = NoFiles /\ pc'[s] \notin Rotating
          /\ \A t \in Sessions \ {s} : pc'[t] = pc[t]
      BY <1>1, <2>4 DEF InstallCopy, TypeOK
    <3>2. QED
      BY <2>0, <3>1, RotationOver
  <2>5. CASE RotationFails(s)
    <3>1. /\ aside' = NoFiles
          /\ pc'[s] \notin Rotating /\ \A t \in Sessions \ {s} : pc'[t] = pc[t]
      BY <2>5 DEF RotationFails, Resume, TypeOK
    <3>2. QED
      BY <2>0, <3>1, RotationOver
  <2>6. QED
    BY <1>3, <2>1, <2>2, <2>3, <2>4, <2>5 DEF RotationNext
<1>4. CASE WriteNext(s)
  <2>1. CASE FailsAfterRename(s) \/ RollbackFails(s) \/ Refuse(s)
    <3>1. /\ pc[s] \in Critical /\ aside' = NoFiles
          /\ pc'[s] \notin Rotating /\ \A t \in Sessions \ {s} : pc'[t] = pc[t]
      BY <2>1 DEF FailsAfterRename, RollbackFails, Refuse, Resume, TypeOK
    <3>2. QED
      BY <3>1, RotationOver
  <2>2. CASE Unlock(s)
    <3>1. pc[s] \in Critical /\ aside' = NoFiles /\ pc'[s] \notin Rotating
          /\ \A t \in Sessions \ {s} : pc'[t] = pc[t]
      BY <2>2 DEF Unlock, TypeOK
    <3>2. QED
      BY <3>1, RotationOver
  <2>3. CASE Replace(s) \/ Written(s) \/ AuditRecorded(s) \/ AuditFails(s) \/ Rollback(s)
    <3>1. UNCHANGED <<bak, staged, aside, k, before>> /\ pc[s] \in Critical \ Rotating
      BY <2>3 DEF Replace, Written, AuditRecorded, AuditFails, Rollback
    <3>2. \A t \in Sessions : pc[t] \notin Rotating
      BY <1>0, <3>1
    <3>3. \A t \in Sessions : pc'[t] \notin Rotating
      BY <2>3, <3>2 DEF Replace, Written, AuditRecorded, AuditFails, Rollback, TypeOK
    <3>4. QED
      BY <3>1, <3>2, <3>3, RotationElsewhere
  <2>4. CASE Return(s)
    <3>1. UNCHANGED <<live, bak, staged, aside, k, before>>
      BY <2>4 DEF Return
    <3>2. \A t \in Sessions : pc[t] \in Rotating \/ pc'[t] \in Rotating => pc'[t] = pc[t]
      BY <2>4 DEF Return, TypeOK
    <3>3. QED
      BY <3>1, <3>2, RotationElsewhere
  <2>5. QED
    BY <1>4, <2>1, <2>2, <2>3, <2>4 DEF WriteNext
<1>5. CASE Crash(s)
  <2>1. CASE pc[s] \in Critical
    <3>1. aside' = NoFiles /\ pc'[s] \notin Rotating
          /\ \A t \in Sessions \ {s} : pc'[t] = pc[t]
      BY <1>5, <2>1 DEF Crash, TypeOK
    <3>2. QED
      BY <2>1, <3>1, RotationOver
  <2>2. CASE pc[s] \notin Critical
    <3>1. UNCHANGED <<live, bak, staged, aside, k, before>>
      BY <1>5, <2>2 DEF Crash
    <3>2. \A t \in Sessions : pc[t] \in Rotating \/ pc'[t] \in Rotating => pc'[t] = pc[t]
      BY <1>5, <2>2 DEF Crash, TypeOK
    <3>3. QED
      BY <3>1, <3>2, RotationElsewhere
  <2>3. QED
    BY <2>1, <2>2
<1>6. QED
  BY <1>1, <1>2, <1>3, <1>4, <1>5 DEF Step

\* A rotation that raises finds every backup it has moved.
LEMMA OldBackupsFound ==
  ASSUME IInv, StageInv, NEW s \in Sessions, pc[s] \in Rotating, NEW i \in Index
  PROVE  OldBackup(s, i) = before[i]
<1>1. CASE pc[s] = "aside"
  BY <1>1 DEF IInv, TypeOK, RotationInv, StageInv, OldBackup
<1>2. CASE pc[s] = "shift"
  BY <1>2 DEF IInv, TypeOK, RotationInv, StageInv, OldBackup
<1>3. QED
  BY <1>1, <1>2

\* A file is what it was, without or with one mutation more.
LEMMA FiniteInvStep ==
  ASSUME IInv, FiniteInv, NEW s \in Sessions, Step(s)
  PROVE  FiniteInv'
<1> USE DEF IInv
<1>0. IsFiniteSet({}) /\ IsFiniteSet(mem[s] \cup {pend[s]})
  BY FS_EmptySet, FS_AddElement DEF FiniteInv
<1>1. CASE SessionNext(s)
  BY <1>0, <1>1 DEF SessionNext, Open, LockSession, Begin, TypeOK, FiniteInv
<1>2. CASE LockNext(s)
  BY <1>0, <1>2 DEF LockNext, Acquire, Busy, AlreadyExists, Conflict, WriteFails,
         Check, TypeOK, FiniteInv
<1>3. CASE RotationNext(s)
  BY <1>0, <1>3 DEF RotationNext, Stage, MoveAside, Shift, InstallCopy,
         RotationFails, TypeOK, FiniteInv
<1>4. CASE WriteNext(s)
  BY <1>0, <1>4 DEF WriteNext, Replace, FailsAfterRename, Written, AuditRecorded,
         AuditFails, Rollback, RollbackFails, Refuse, Unlock, Return, TypeOK,
         FiniteInv
<1>5. CASE Crash(s)
  BY <1>0, <1>5 DEF Crash, TypeOK, FiniteInv
<1>6. QED
  BY <1>1, <1>2, <1>3, <1>4, <1>5 DEF Step

\* How far a file is behind is a number.
LEMMA Behind ==
  ASSUME FiniteInv, NEW S
  PROVE  IsFiniteSet(live \ S) /\ Cardinality(live \ S) \in Nat
BY FS_Difference, FS_CardinalityType DEF FiniteInv

\* Fewer backups are in order and no further behind.
LEMMA FewerTrail ==
  ASSUME FiniteInv, NEW f \in [Index -> File], NEW g \in [Index -> File],
         NEW d \in {0, 1}, Trail(f, d), \A i \in Index : g[i] \in {f[i], Absent}
  PROVE  Trail(g, 0)
<1> SUFFICES ASSUME NEW i \in Index, g[i] # Absent
             PROVE  /\ g[i] \subseteq live
                    /\ Cardinality(live \ g[i]) <= i - 0
                    /\ \A j \in 1 .. i : g[j] # Absent => g[i] \subseteq g[j]
  BY DEF Trail
<1>1. /\ g[i] = f[i] /\ f[i] \subseteq live
      /\ Cardinality(live \ f[i]) <= i - d
      /\ \A j \in 1 .. i : f[j] # Absent => f[i] \subseteq f[j]
  BY DEF Trail
<1>2. Cardinality(live \ f[i]) <= i - 0
  <2>1. Cardinality(live \ f[i]) \in Nat
    BY Behind
  <2>2. QED
    BY <1>1, <2>1
<1>3. \A j \in 1 .. i : j \in Index
  OBVIOUS
<1>4. QED
  BY <1>1, <1>2, <1>3

\* What Trail says of the backups themselves is the property.
LEMMA TrailOfBackups == BackupsTrail <=> Trail(bak, 0)
<1>1. \A i \in Index : i - 0 = i
  OBVIOUS
<1>2. QED
  BY <1>1 DEF BackupsTrail, Trail

\* A step that moves neither file nor backup, and starts no rotation.
LEMMA TrailElsewhere ==
  ASSUME RoomInv, BackupsTrail, UNCHANGED <<live, bak, before>>,
         \A t \in Sessions :
           pc'[t] \in Rotating \cup {"replace"} => pc'[t] = pc[t]
  PROVE  RoomInv' /\ BackupsTrail'
BY DEF RoomInv, BackupsTrail, Trail

\* A holder that leaves the rotation behind, or never was in it.
LEMMA RoomGone ==
  ASSUME TypeOK, LockInv, NEW s \in Sessions, pc[s] \in Critical,
         pc'[s] \notin Rotating \cup {"replace"},
         \A t \in Sessions \ {s} : pc'[t] = pc[t]
  PROVE  RoomInv'
<1>1. ASSUME NEW t \in Sessions PROVE pc'[t] \notin Rotating \cup {"replace"}
  <2>1. CASE t = s
    BY <2>1
  <2>2. CASE t # s
    BY <2>2, Alone
  <2>3. QED
    BY <2>1, <2>2
<1>2. QED
  BY <1>1 DEF RoomInv

\* The rotation makes room for one more write: every backup moves up by one
\* and the file as it is comes first.
LEMMA InstallCopyTrail ==
  ASSUME IInv, TrailInv, NEW s \in Sessions, InstallCopy(s)
  PROVE  RoomInv' /\ BackupsTrail'
<1> USE DEF IInv, TrailInv
<1>1. /\ pc[s] = "shift" /\ k = BackupCount + 1 /\ live' = live
      /\ bak' = [bak EXCEPT ![1] = staged] /\ pc' = [pc EXCEPT ![s] = "replace"]
  BY DEF InstallCopy
<1>2. staged = live /\ Shifted /\ Trail(before, 0) /\ before \in [Index -> File]
  BY <1>1 DEF StageInv, RoomInv, TypeOK
<1>3. bak \in [Index -> File] /\ bak' \in [Index -> File] /\ live \in File
  BY <1>1 DEF TypeOK, InstallCopy
<1>4. ASSUME NEW i \in Index
      PROVE  bak'[i] = IF i = 1 THEN live ELSE before[i - 1]
  BY <1>1, <1>2, <1>3
<1>5. ASSUME NEW i \in Index, bak'[i] # Absent
      PROVE  /\ bak'[i] \subseteq live
             /\ Cardinality(live \ bak'[i]) <= i - 1
             /\ \A j \in 1 .. i : bak'[j] # Absent => bak'[i] \subseteq bak'[j]
  <2>1. CASE i = 1
    <3>1. bak'[1] = live /\ live \ live = {} /\ 1 - 1 = 0 /\ \A j \in 1 .. 1 : j = 1
      BY <1>4, <2>1
    <3>2. QED
      BY <2>1, <3>1, FS_EmptySet
  <2>2. CASE i # 1
    <3>1. i - 1 \in Index /\ bak'[i] = before[i - 1] /\ (i - 1) - 0 = i - 1
      BY <1>4, <2>2
    <3>2. /\ before[i - 1] \subseteq live /\ Cardinality(live \ before[i - 1]) <= i - 1
          /\ \A j \in 1 .. i - 1 : before[j] # Absent => before[i - 1] \subseteq before[j]
      BY <1>2, <1>5, <3>1 DEF Trail
    <3>3. ASSUME NEW j \in 1 .. i, bak'[j] # Absent PROVE bak'[i] \subseteq bak'[j]
      <4>1. CASE j = 1
        BY <1>4, <3>1, <3>2, <4>1
      <4>2. CASE j # 1
        <5>1. j \in Index /\ j - 1 \in 1 .. i - 1
          BY <4>2
        <5>2. bak'[j] = before[j - 1]
          BY <1>4, <4>2, <5>1
        <5>3. CASE j = i
          BY <5>3
        <5>4. CASE j # i
          BY <3>1, <3>2, <3>3, <5>1, <5>2
        <5>5. QED
          BY <5>3, <5>4
      <4>3. QED
        BY <4>1, <4>2
    <3>4. QED
      BY <3>1, <3>2, <3>3
  <2>3. QED
    BY <2>1, <2>2
<1>6. Trail(bak, 1)'
  BY <1>1, <1>5 DEF Trail
<1>7. RoomInv'
  <2>1. ASSUME NEW t \in Sessions PROVE pc'[t] \notin Rotating
    <3>1. CASE t = s
      BY <1>1, <3>1 DEF TypeOK
    <3>2. CASE t # s
      BY <1>1, <3>2, Alone DEF TypeOK
    <3>3. QED
      BY <3>1, <3>2
  <2>2. QED
    BY <1>6, <2>1 DEF RoomInv
<1>8. BackupsTrail'
  <2>1. ASSUME NEW i \in Index, bak'[i] # Absent
        PROVE  Cardinality(live \ bak'[i]) <= i
    <3>1. Cardinality(live \ bak'[i]) \in Nat
      BY Behind
    <3>2. QED
      BY <1>5, <2>1, <3>1
  <2>2. QED
    BY <1>1, <1>5, <2>1 DEF BackupsTrail
<1>9. QED
  BY <1>7, <1>8

\* In the middle of a rotation some backups are out of sight, none is new.
LEMMA MovingTrail ==
  ASSUME IInv, TrailInv, NEW s \in Sessions, Stage(s) \/ MoveAside(s) \/ Shift(s)
  PROVE  RoomInv' /\ BackupsTrail'
<1> USE DEF IInv, TrailInv
<1>0. ASSUME NEW t \in Sessions, t # s PROVE pc'[t] = pc[t] /\ pc[t] \notin Critical
  <2>1. pc[s] \in Critical
    BY DEF Stage, MoveAside, Shift
  <2>2. pc[t] \notin Critical
    BY <1>0, <2>1, Alone
  <2>3. QED
    BY <1>0, <2>2 DEF Stage, MoveAside, Shift, TypeOK
<1>1. Trail(bak, 0)
  BY TrailOfBackups
<1>2. CASE Stage(s)
  <2>1. UNCHANGED <<live, bak>> /\ before' = bak /\ pc'[s] = "aside"
    BY <1>2 DEF Stage, TypeOK
  <2>2. QED
    BY <1>0, <1>1, <2>1 DEF RoomInv, BackupsTrail, Trail
<1>3. CASE MoveAside(s) \/ Shift(s)
  <2>1. UNCHANGED <<live, before>> /\ pc[s] \in Rotating /\ pc'[s] \in Rotating
    BY <1>3 DEF MoveAside, Shift, TypeOK
  <2>2. RoomInv'
    BY <1>0, <2>1 DEF RoomInv, Trail
  <2>3. bak \in [Index -> File] /\ bak' \in [Index -> File] /\ before \in [Index -> File]
    BY TypeOKStep DEF TypeOK, Step, RotationNext
  <2>4. CASE MoveAside(s)
    <3>1. \A i \in Index : bak'[i] \in {bak[i], Absent}
      BY <2>3, <2>4 DEF MoveAside
    <3>2. Trail(bak', 0)
      BY <1>1, <2>3, <3>1, FewerTrail
    <3>3. \A i \in Index : i - 0 = i
      OBVIOUS
    <3>4. BackupsTrail'
      BY <2>1, <3>2, <3>3 DEF Trail, BackupsTrail
    <3>5. QED
      BY <2>2, <3>4
  <2>5. CASE Shift(s)
    <3>1. Shifted /\ Trail(before, 0) /\ k \in 2 .. BackupCount /\ aside \in [Index -> File]
      BY <2>5 DEF Shift, StageInv, RoomInv, RotationInv, TypeOK
    <3>2. ASSUME NEW i \in Index, bak'[i] # Absent
          PROVE  i # 1 /\ bak'[i] = before[i - 1]
      <4>1. bak'[i] = (IF i = k THEN aside[k - 1] ELSE bak[i])
        BY <2>3, <2>5 DEF Shift
      <4>2. k - 1 \in Index /\ ~ (k - 1 < k - 1) /\ k # 1
        BY <3>1
      <4>3. aside[k - 1] = before[k - 1]
        BY <3>1, <4>2
      <4>4. QED
        BY <3>1, <3>2, <4>1, <4>2, <4>3
    <3>3. ASSUME NEW i \in Index, bak'[i] # Absent
          PROVE  /\ bak'[i] \subseteq live
                 /\ Cardinality(live \ bak'[i]) <= i
                 /\ \A j \in 1 .. i : bak'[j] # Absent => bak'[i] \subseteq bak'[j]
      <4>1. i - 1 \in Index /\ bak'[i] = before[i - 1] /\ (i - 1) - 0 = i - 1
        BY <3>2, <3>3
      <4>2. /\ before[i - 1] \subseteq live /\ Cardinality(live \ before[i - 1]) <= i - 1
            /\ \A j \in 1 .. i - 1 : before[j] # Absent => before[i - 1] \subseteq before[j]
        BY <3>1, <3>3, <4>1 DEF Trail
      <4>3. Cardinality(live \ before[i - 1]) \in Nat
        BY Behind
      <4>4. ASSUME NEW j \in 1 .. i, bak'[j] # Absent PROVE bak'[i] \subseteq bak'[j]
        <5>1. j \in Index
          OBVIOUS
        <5>2. j # 1 /\ bak'[j] = before[j - 1]
          BY <3>2, <4>4, <5>1
        <5>3. j - 1 \in 1 .. i - 1
          BY <5>2
        <5>4. QED
          BY <4>1, <4>2, <4>4, <5>2, <5>3
      <4>5. QED
        BY <4>1, <4>2, <4>3, <4>4
    <3>4. BackupsTrail'
      BY <2>1, <3>3 DEF BackupsTrail
    <3>5. QED
      BY <2>2, <3>4
  <2>6. QED
    BY <1>3, <2>4, <2>5
<1>4. QED
  BY <1>2, <1>3

\* Where the rotation left room, one more write keeps the backups near enough.
LEMMA ReplaceTrail ==
  ASSUME IInv, TrailInv, NEW s \in Sessions, Replace(s)
  PROVE  RoomInv' /\ BackupsTrail'
<1> USE DEF IInv, TrailInv
<1>1. /\ pc[s] = "replace" /\ bak' = bak /\ live = mem[s]
      /\ live' = live \cup {pend[s]} /\ pc' = [pc EXCEPT ![s] = "renamed"]
  BY DEF Replace, SnapshotCurrent
<1>2. RoomInv'
  BY <1>1, RoomGone DEF TypeOK
<1>3. ASSUME NEW i \in Index, bak[i] # Absent
      PROVE  /\ bak[i] \subseteq live'
             /\ Cardinality(live' \ bak[i]) <= i
             /\ \A j \in 1 .. i : bak[j] # Absent => bak[i] \subseteq bak[j]
  <2>1. /\ bak[i] \subseteq live /\ Cardinality(live \ bak[i]) <= i - 1
        /\ \A j \in 1 .. i : bak[j] # Absent => bak[i] \subseteq bak[j]
    BY <1>1, <1>3 DEF RoomInv, Trail
  <2>2. IsFiniteSet(live \ bak[i]) /\ Cardinality(live \ bak[i]) \in Nat
    BY Behind
  <2>3. DEFINE D == (live \ bak[i]) \cup {pend[s]}
  <2>4. /\ IsFiniteSet(D) /\ Cardinality(D) \in Nat
        /\ Cardinality(D) \in {Cardinality(live \ bak[i]), Cardinality(live \ bak[i]) + 1}
    BY <2>2, FS_AddElement, FS_CardinalityType
  <2>5. live' \ bak[i] \subseteq D
    BY <1>1
  <2>6. Cardinality(live' \ bak[i]) <= Cardinality(D) /\ Cardinality(live' \ bak[i]) \in Nat
    BY <2>4, <2>5, FS_Subset, FS_CardinalityType
  <2>7. Cardinality(live' \ bak[i]) <= i
    <3> HIDE DEF D
    <3>1. QED
      BY <2>1, <2>2, <2>4, <2>6
  <2>8. QED
    BY <1>1, <2>1, <2>7
<1>4. BackupsTrail'
  BY <1>1, <1>3 DEF BackupsTrail
<1>5. QED
  BY <1>2, <1>4

\* The undo takes away a mutation that no backup holds.
LEMMA RollbackTrail ==
  ASSUME IInv, TrailInv, NEW s \in Sessions, Rollback(s)
  PROVE  RoomInv' /\ BackupsTrail'
<1> USE DEF IInv, TrailInv
<1>1. /\ pc[s] = "rollback" /\ bak' = bak /\ live' = mem[s]
      /\ live = mem[s] \cup {pend[s]} /\ pc' = [pc EXCEPT ![s] = "refuse"]
  BY DEF Rollback, SnapshotCurrent, UndoInv, KindInv
<1>2. RoomInv'
  BY <1>1, RoomGone DEF TypeOK
<1>3. ASSUME NEW i \in Index, bak[i] # Absent
      PROVE  bak[i] \subseteq live' /\ Cardinality(live' \ bak[i]) <= i
  <2>1. bak[i] \subseteq live /\ Cardinality(live \ bak[i]) <= i /\ pend[s] \notin bak[i]
    BY <1>1, <1>3 DEF BackupsTrail, BackupInv
  <2>2. bak[i] \subseteq live' /\ live' \ bak[i] \subseteq live \ bak[i]
    BY <1>1, <2>1
  <2>3. IsFiniteSet(live \ bak[i]) /\ Cardinality(live \ bak[i]) \in Nat
    BY Behind
  <2>4. /\ Cardinality(live' \ bak[i]) <= Cardinality(live \ bak[i])
        /\ Cardinality(live' \ bak[i]) \in Nat
    BY <2>2, <2>3, FS_Subset, FS_CardinalityType
  <2>5. QED
    BY <2>1, <2>2, <2>3, <2>4
<1>4. BackupsTrail'
  BY <1>1, <1>3 DEF BackupsTrail
<1>5. QED
  BY <1>2, <1>4

\* Every step keeps the backups near and in order.
LEMMA TrailStep ==
  ASSUME IInv, TrailInv, NEW s \in Sessions, Step(s)
  PROVE  RoomInv' /\ BackupsTrail'
<1> USE DEF IInv, TrailInv
<1>1. CASE SessionNext(s) \/ Acquire(s) \/ Busy(s) \/ Return(s)
  <2>1. UNCHANGED <<live, bak, before>>
    BY <1>1 DEF SessionNext, Open, LockSession, Begin, Acquire, Busy, Return
  <2>2. \A t \in Sessions : pc'[t] \in Rotating \cup {"replace"} => pc'[t] = pc[t]
    BY <1>1 DEF SessionNext, Open, LockSession, Begin, Acquire, Busy, Return, TypeOK
  <2>3. QED
    BY <2>1, <2>2, TrailElsewhere
<1>2. CASE Check(s)
  <2>1. UNCHANGED <<live, bak, before>> /\ pc[s] = "held"
    BY <1>2 DEF Check
  <2>2. BackupsTrail'
    BY <2>1 DEF BackupsTrail
  <2>3. \A t \in Sessions : pc'[t] \notin Rotating
    BY <1>2, <2>1, Alone DEF Check, TypeOK
  <2>4. \A t \in Sessions : pc'[t] = "replace" => live = Absent
    BY <1>2, <2>1, Alone DEF Check, TypeOK
  <2>5. RoomInv'
    BY <2>1, <2>3, <2>4 DEF RoomInv, BackupsTrail, Trail
  <2>6. QED
    BY <2>2, <2>5
<1>3. CASE Stage(s) \/ MoveAside(s) \/ Shift(s)
  BY <1>3, MovingTrail
<1>4. CASE InstallCopy(s)
  BY <1>4, InstallCopyTrail
<1>5. CASE RotationFails(s)
  <2>1. /\ pc[s] \in Rotating /\ live' = live
        /\ bak' = [i \in Index |-> OldBackup(s, i)]
        /\ pc'[s] \notin Rotating \cup {"replace"}
        /\ \A t \in Sessions \ {s} : pc'[t] = pc[t]
    BY <1>5 DEF RotationFails, Resume, TypeOK
  <2>2. RoomInv'
    BY <2>1, RoomGone
  <2>3. \A i \in Index : bak'[i] = before[i]
    BY <2>1, OldBackupsFound
  <2>4. Trail(before, 0) /\ \A i \in Index : i - 0 = i /\ \A j \in 1 .. i : j \in Index
    BY <2>1 DEF RoomInv
  <2>5. BackupsTrail'
    BY <2>1, <2>3, <2>4 DEF Trail, BackupsTrail
  <2>6. QED
    BY <2>2, <2>5
<1>6. CASE Replace(s)
  BY <1>6, ReplaceTrail
<1>7. CASE Rollback(s)
  BY <1>7, RollbackTrail
<1>8. CASE \/ AlreadyExists(s) \/ Conflict(s) \/ WriteFails(s)
           \/ FailsAfterRename(s) \/ Written(s) \/ AuditRecorded(s) \/ AuditFails(s)
           \/ RollbackFails(s) \/ Refuse(s) \/ Unlock(s)
  <2>1. UNCHANGED <<live, bak>> /\ pc[s] \in Critical
    BY <1>8 DEF AlreadyExists, Conflict, WriteFails, FailsAfterRename, Written,
       AuditRecorded, AuditFails, RollbackFails, Refuse, Unlock
  <2>2. /\ pc'[s] \notin Rotating \cup {"replace"}
        /\ \A t \in Sessions \ {s} : pc'[t] = pc[t]
    BY <1>8 DEF AlreadyExists, Conflict, WriteFails, FailsAfterRename, Written,
       AuditRecorded, AuditFails, RollbackFails, Refuse, Unlock, Resume, TypeOK
  <2>3. RoomInv'
    BY <2>1, <2>2, RoomGone
  <2>4. QED
    BY <2>1, <2>3 DEF BackupsTrail
<1>9. CASE Crash(s)
  <2>1. CASE pc[s] \in Critical
    <3>1. UNCHANGED <<live, bak>>
      BY <1>9 DEF Crash
    <3>2. pc'[s] = "closed" /\ \A t \in Sessions \ {s} : pc'[t] = pc[t]
      BY <1>9 DEF Crash, TypeOK
    <3>3. RoomInv'
      BY <2>1, <3>2, RoomGone
    <3>4. QED
      BY <3>1, <3>3 DEF BackupsTrail
  <2>2. CASE pc[s] \notin Critical
    <3>1. UNCHANGED <<live, bak, before>>
      BY <1>9, <2>2 DEF Crash
    <3>2. \A t \in Sessions : pc'[t] \in Rotating \cup {"replace"} => pc'[t] = pc[t]
      BY <1>9 DEF Crash, TypeOK
    <3>3. QED
      BY <3>1, <3>2, TrailElsewhere
  <2>3. QED
    BY <2>1, <2>2
<1>10. QED
  BY <1>1, <1>2, <1>3, <1>4, <1>5, <1>6, <1>7, <1>8, <1>9
     DEF Step, LockNext, RotationNext, WriteNext

(* What a rotation has moved at each of its steps, and how far behind every *)
(* backup is, whatever fails or dies in _rotate_backups or after it.        *)
THEOREM BackupsInductive == Spec => [](IInv /\ TrailInv)
<1>1. Init => TrailInv
  BY FS_EmptySet DEF Init, TrailInv, FiniteInv, StageInv, RoomInv, BackupsTrail
<1>2. IInv /\ TrailInv /\ [Next]_vars => TrailInv'
  <2> SUFFICES ASSUME IInv, TrailInv, [Next]_vars PROVE TrailInv'
    OBVIOUS
  <2>1. ASSUME NEW s \in Sessions, Step(s) PROVE TrailInv'
    BY <2>1, FiniteInvStep, StageInvStep, TrailStep DEF TrailInv
  <2>2. CASE UNCHANGED vars
    BY <2>2 DEF TrailInv, FiniteInv, StageInv, RoomInv, BackupsTrail, Trail
  <2>3. QED
    BY <2>1, <2>2 DEF Next
<1>3. QED
  BY <1>1, <1>2, Inductive, PTL DEF Spec

(* Restoring vault.json.bak.i undoes at most i writes and nothing else, and *)
(* a lower number is never older (_rotate_backups, before every _persist).  *)
THEOREM BackupsAreNear == Spec => []BackupsTrail
<1>1. TrailInv => BackupsTrail
  BY DEF TrailInv
<1>2. QED
  BY <1>1, BackupsInductive, PTL

(* A rotation that ends has shifted every backup or none; only a crash      *)
(* leaves it between (_rotate_backups and its except clause).               *)
THEOREM RotatesAllOrNothing == Spec => RotationAllOrNothing
<1> DEFINE Ends(s) ==
      \/ /\ pc'[s] = "replace"
         /\ \A i \in Index : bak'[i] = IF i = 1 THEN live ELSE before[i - 1]
      \/ /\ status'[pend[s]] = "rejected"
         /\ bak' = before
      \/ status'[pend[s]] = "uncertain"
<1>1. ASSUME IInv, TrailInv, Next,
             NEW t \in Sessions, pc[t] \in Rotating, pc'[t] \notin Rotating
      PROVE  Ends(t)
  <2> USE DEF IInv, TrailInv
  <2>1. PICK s \in Sessions : Step(s)
    BY <1>1 DEF Next
  <2>2. s = t
    BY <1>1, <2>1 DEF Step, SessionNext, Open, LockSession, Begin, LockNext, Acquire,
       Busy, AlreadyExists, Conflict, WriteFails, Check, RotationNext, Stage, MoveAside,
       Shift, InstallCopy, RotationFails, WriteNext, Replace, FailsAfterRename, Written,
       AuditRecorded, AuditFails, Rollback, RollbackFails, Refuse, Unlock, Return, Crash,
       Resume, TypeOK
  <2>3. pend[t] \in Mutations
    BY <1>1 DEF CallInv
  <2>4. CASE InstallCopy(t)
    <3>1. /\ pc[t] = "shift" /\ k = BackupCount + 1
          /\ bak' = [bak EXCEPT ![1] = staged] /\ pc'[t] = "replace"
      BY <1>1, <2>4 DEF InstallCopy, TypeOK
    <3>2. staged = live /\ Shifted /\ bak \in [Index -> File]
      BY <1>1, <3>1 DEF StageInv, TypeOK
    <3>3. QED
      BY <3>1, <3>2
  <2>5. CASE RotationFails(t)
    <3>1. bak' = [i \in Index |-> OldBackup(t, i)] /\ status'[pend[t]] = "rejected"
      BY <1>1, <2>3, <2>5 DEF RotationFails, TypeOK
    <3>2. \A i \in Index : OldBackup(t, i) = before[i]
      BY <1>1, OldBackupsFound
    <3>3. bak' = before
      BY <1>1, <3>1, <3>2 DEF TypeOK
    <3>4. QED
      BY <3>1, <3>3
  <2>6. CASE Crash(t)
    BY <1>1, <2>3, <2>6 DEF Crash, TypeOK
  <2>7. InstallCopy(t) \/ RotationFails(t) \/ Crash(t)
    BY <1>1, <2>1, <2>2 DEF Step, SessionNext, Open, LockSession, Begin, LockNext, Acquire,
       Busy, AlreadyExists, Conflict, WriteFails, Check, RotationNext, Stage, MoveAside,
       Shift, WriteNext, Replace, FailsAfterRename, Written,
       AuditRecorded, AuditFails, Rollback, RollbackFails, Refuse, Unlock, Return, TypeOK
  <2>8. QED
    BY <2>4, <2>5, <2>6, <2>7
<1>2. ASSUME IInv, TrailInv, [Next]_vars
      PROVE  [\A s \in Sessions : pc[s] \in Rotating /\ pc'[s] \notin Rotating => Ends(s)]_vars
  BY <1>1, <1>2
<1>3. QED
  BY <1>2, BackupsInductive, PTL DEF Spec, RotationAllOrNothing

-----------------------------------------------------------------------------
(* Refinement: each step is a step of the register, or does not show in it. *)

USE DEF Register!vars, Register!Next, Register!Start, Register!Apply,
        Register!Withdraw, Register!Acknowledge, Register!Reject,
        Register!Abandon

\* A call that is refused has a mutation that is not in vault.json.
LEMMA RefusedNotLive ==
  ASSUME IInv, NEW s \in Sessions,
         pc[s] \in {"wait", "held", "refuse"} \cup BeforeRename
  PROVE  /\ pend[s] \in Mutations
         /\ status[pend[s]] = "pending"
         /\ pend[s] \notin live
BY DEF IInv, CallInv, LiveInv, UndoInv

\* Opening and locking do not show; beginning a call starts its mutation.
LEMMA SessionRefines ==
  ASSUME IInv, NEW s \in Sessions, SessionNext(s)
  PROVE  [Register!Next]_(Register!vars)
BY DEF SessionNext, Open, LockSession, Begin, IInv, TypeOK

\* Only a refusal shows before the rename.
LEMMA LockRefines ==
  ASSUME IInv, NEW s \in Sessions, LockNext(s)
  PROVE  [Register!Next]_(Register!vars)
BY RefusedNotLive DEF LockNext, Acquire, Busy, AlreadyExists, Conflict,
       WriteFails, Check

\* The rotation does not show, unless it fails and refuses the call.
LEMMA RotationRefines ==
  ASSUME IInv, NEW s \in Sessions, RotationNext(s)
  PROVE  [Register!Next]_(Register!vars)
BY RefusedNotLive DEF RotationNext, Stage, MoveAside, Shift, InstallCopy,
       RotationFails

\* The rename applies the mutation, the undo withdraws it, the answer is true.
LEMMA WriteRefines ==
  ASSUME IInv, NEW s \in Sessions, WriteNext(s)
  PROVE  [Register!Next]_(Register!vars)
<1>1. CASE Replace(s)
  <2>1. live' = live \cup {pend[s]}
    BY <1>1 DEF Replace, IInv, SnapshotCurrent
  <2>2. QED
    BY <1>1, <2>1, RefusedNotLive DEF Replace
<1>2. CASE FailsAfterRename(s)
  BY <1>2 DEF FailsAfterRename, IInv, CallInv
<1>3. CASE Written(s) \/ AuditRecorded(s) \/ AuditFails(s) \/ Unlock(s)
  BY <1>3 DEF Written, AuditRecorded, AuditFails, Unlock
<1>4. CASE Rollback(s)
  <2>1. live' = live \ {pend[s]} /\ pend[s] \in live
    BY <1>4 DEF Rollback, IInv, SnapshotCurrent, UndoInv, KindInv
  <2>2. QED
    BY <1>4, <2>1 DEF Rollback, IInv, CallInv
<1>5. CASE RollbackFails(s)
  BY <1>5 DEF RollbackFails, IInv, CallInv
<1>6. CASE Refuse(s)
  BY <1>6, RefusedNotLive DEF Refuse
<1>7. CASE Return(s)
  BY <1>7 DEF Return, IInv, CallInv, UndoInv
<1>8. QED
  BY <1>1, <1>2, <1>3, <1>4, <1>5, <1>6, <1>7 DEF WriteNext

\* A crash abandons the call it interrupts.
LEMMA CrashRefines ==
  ASSUME IInv, NEW s \in Sessions, Crash(s)
  PROVE  [Register!Next]_(Register!vars)
BY DEF Crash, IInv, CallInv

(* Sessions, file lock, rotation, audit and undo together implement the     *)
(* register of VaultRegister.                                               *)
THEOREM Refinement == Spec => ImplementsRegister
<1>1. Init => Register!Init
  BY DEF Init, Register!Init
<1>2. IInv /\ [Next]_vars => [Register!Next]_(Register!vars)
  <2>1. ASSUME IInv, NEW s \in Sessions, Step(s)
        PROVE  [Register!Next]_(Register!vars)
    BY <2>1, SessionRefines, LockRefines, RotationRefines, WriteRefines,
       CrashRefines DEF Step
  <2>2. ASSUME UNCHANGED vars
        PROVE  [Register!Next]_(Register!vars)
    BY <2>2
  <2>3. QED
    BY <2>1, <2>2 DEF Next
<1>3. QED
  BY <1>1, <1>2, Inductive, PTL DEF Spec, ImplementsRegister, Register!Spec
=============================================================================
