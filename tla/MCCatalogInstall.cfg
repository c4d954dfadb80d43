CONSTANTS
  a = a
  b = b
  c = c
  Bad = Bad
  None = None
  Snapshots <- MCSnapshots
  MaxDamage = 2
SYMMETRY MCSymmetry
SPECIFICATION LoadSpec
INVARIANTS ReturnedStaysActive ActiveIsStored LoadsMixOnlyOverMoves
PROPERTIES SwitchAtPointer RollbackUndoesInstall
