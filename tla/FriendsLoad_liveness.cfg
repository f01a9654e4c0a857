SPECIFICATION FairSpec
CONSTANTS
  ann = ann
  bob = bob
  Friends = {ann, bob}
  Home = Home
  FriendsPage = FriendsPage
  Login = Login
  Blank = Blank
  NoDocument = NoDocument
  NoFriend = NoFriend
  Public = {ann}
  MaxGrowth = 1
  MaxScripts = 2
  Rungs = 2
  Sessions = {TRUE}
  MaxTaps = 2
  MaxFaults = 2
PROPERTIES
  ListLoadEnds
  BirthdayArrives
CHECK_DEADLOCK FALSE
