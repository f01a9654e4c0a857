SPECIFICATION FairSpec
CONSTANTS
  Signs = {aries}
  Times = {11, 20}
  Zones = {0}
  Slots = {c1, c2}
  NoPerson = NoPerson
  NoRoom = NoRoom
  NeverSent = NeverSent
  Lossy = FALSE
  MaxChanges = 3
  MaxTokens = 2
  MaxLaunches = 1
INVARIANT NoLostRequest
PROPERTY Converges
CHECK_DEADLOCK FALSE
