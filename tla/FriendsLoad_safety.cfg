SPECIFICATION Spec
CONSTANTS
  ann = ann
  bob = bob
  Friends = {ann, bob}
  Home = Home
  FriendsPage = FriendsPage
  Login = Login
  Blank = Blank
  NoDocument = NoDocument
  NoFriend = NoFriend
  Public = {ann}
  MaxGrowth = 1
  MaxScripts = 2
  Rungs = 2
  Sessions = {TRUE, FALSE}
  MaxTaps = 3
  MaxFaults = 2
INVARIANTS
  TypeOK
  OneIndicator
  ListShowsStored
  HeaderWhileSwiping
PROPERTY
  OwnPage
CHECK_DEADLOCK FALSE
