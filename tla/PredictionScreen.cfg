SPECIFICATION FairSpec
CONSTANTS
  Screens = {s1, s2}
  Signs = {aries, leo}
  Documents <- Docs
  MonthStarts <- Months
  Hours <- OneHour
  Zone = 3
  Skews = {0, 24}
  NoDocument = NoDocument
  NoScreen = NoScreen
  NoTime = NoTime
  NoDay = NoDay
  MaxLoads = 3
INVARIANTS
  TypeOK
  LoadingUntilBoth
  OneFetch
  NoConnectionHonest
  TimeWillCome
  ShownIsStored
PROPERTY
  LoadEnds
CHECK_DEADLOCK FALSE
