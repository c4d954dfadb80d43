CONSTANTS
  x = x
  y = y
  z = z
  o1 = o1
  o2 = o2
  active = active
  closed = closed
  upgraded = upgraded
  r1 = r1
  CardIds <- MCCardIds
  Offerings <- MCOfferings
  Active = active
  Retiring <- MCRetiring
  OtherStates <- MCOtherStates
  RecordIds <- MCRecordIds
  None = None
  MaxCards = 3
  MaxChildren = 1
  MaxPersonal = 1
  Year2000 = 1
  MaxTime = 2
CONSTRAINT MCConstraint
SYMMETRY MCSymmetry
SPECIFICATION Spec
PROPERTY RemovalKeepsVaultOpenable
