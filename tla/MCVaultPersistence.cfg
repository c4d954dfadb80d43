CONSTANTS
  s1 = s1
  s2 = s2
  c1 = c1
  c2 = c2
  a1 = a1
  u1 = u1
  Sessions <- MCSessions
  Mutations <- MCMutations
  Creations <- MCCreations
  Audited <- MCAudited
  BackupCount = 3
  None = None
SPECIFICATION Spec
INVARIANTS TypeOK AckedDurable RejectedNotKept AuditedBeforeAcked SnapshotCurrent BackupsTrail
PROPERTIES ImplementsRegister RotationAllOrNothing WaitEnds
\* Each mutation is made once: when all are made, nothing may be left to do.
CHECK_DEADLOCK FALSE
