SPECIFICATION Spec
CONSTANTS
  r1 = r1
  r2 = r2
  s1 = s1
  s2 = s2
  k1 = k1
  k2 = k2
  Requests = {r1, r2}
  Sessions = {s1, s2}
  DeviceKeys = {k1, k2}
  Passphrase = Passphrase
  None = None
  Unreadable = Unreadable
  MaxAttempts = 1
  MaxFailures = 2
  MaxBootstraps = 1
SYMMETRY MCSymmetry
CONSTRAINT MCConstraint
INVARIANTS TypeOK OpenSessionsAccounted LockoutHolds
PROPERTIES AfterLockNothing CreatedOnce
CHECK_DEADLOCK FALSE
