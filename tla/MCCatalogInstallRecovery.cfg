CONSTANTS
  a = a
  b = b
  c = c
  Bad = Bad
  None = None
  Snapshots <- MCSnapshots
  MaxDamage = 0
SYMMETRY MCSymmetry
SPECIFICATION LoadSpec
INVARIANT PreviousRecoverable
