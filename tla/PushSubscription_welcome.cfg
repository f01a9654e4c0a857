SPECIFICATION Spec
CONSTANTS
  Signs = {aries}
  Times = {11, 20}
  Zones = {0, 3}
  Slots = {c1, c2}
  NoPerson = NoPerson
  NoRoom = NoRoom
  NeverSent = NeverSent
  Lossy = FALSE
  MaxChanges = 1
  MaxTokens = 1
  MaxLaunches = 1
INVARIANT PersonPresent
CHECK_DEADLOCK FALSE
