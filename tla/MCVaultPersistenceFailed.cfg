CONSTANTS
  s1 = s1
  s2 = s2
  c1 = c1
  c2 = c2
  a1 = a1
  u1 = u1
  Sessions <- MCSessions
  Mutations <- MCMutations
  Creations <- MCCreations
  Audited <- MCAudited
  BackupCount = 3
  None = None
SPECIFICATION Spec
INVARIANT FailedWriteLeavesFile
CHECK_DEADLOCK FALSE
