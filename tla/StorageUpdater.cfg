SPECIFICATION FairSpec
CONSTANTS
  Signs = {aries, leo}
  aries = aries
  leo = leo
  Pages <- TwoPages
  Cycles = {c1, c2}
  MonthStarts <- Months
  NoDay = NoDay
  NoSign = NoSign
  NoText = NoText
  Orders = {"at once", "in turn"}
  FirstDay = 17562
  LastDay = 17563
  MaxOdd = 2
INVARIANTS
  TypeOK
  DamageIsLocal
PROPERTY
  CycleEnds
CHECK_DEADLOCK FALSE
