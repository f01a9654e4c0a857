SPECIFICATION Spec
CONSTANTS
  Signs = {aries, leo}
  aries = aries
  leo = leo
  Types = {"monthly", "today"}
  Position <- InArrays
  Jobs = {j1, j2}
  MonthStarts <- Months
  NoDay = NoDay
  Blank = Blank
  Undefined = Undefined
  NoDocument = NoDocument
  Orders = {"in turn"}
  FirstDay = 17562
  LastDay = 17562
  MaxFailures = 1
INVARIANT
  DocumentOfItsSign
CHECK_DEADLOCK FALSE
