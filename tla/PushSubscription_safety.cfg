SPECIFICATION Spec
CONSTANTS
  Signs = {aries, leo}
  Times = {11, 20}
  Zones = {0, 3}
  Slots = {c1, c2}
  NoPerson = NoPerson
  NoRoom = NoRoom
  NeverSent = NeverSent
  Lossy = TRUE
  MaxChanges = 3
  MaxTokens = 1
  MaxLaunches = 2
SYMMETRY Symmetry
INVARIANTS
  TypeOK
  AgreesUnlessDisturbed
PROPERTY KeepsContract
CHECK_DEADLOCK FALSE
