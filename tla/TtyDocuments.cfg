SPECIFICATION Spec
CONSTANTS
  Signs = {aries, leo}
  aries = aries
  leo = leo
  Types = {"monthly", "today"}
  Position <- InArrays
  Jobs = {j1, j2}
  MonthStarts <- Months
  NoDay = NoDay
  Blank = Blank
  Undefined = Undefined
  NoDocument = NoDocument
  Orders = {"in turn", "at once"}
  FirstDay = 17562
  LastDay = 17563
  MaxFailures = 1
SYMMETRY Symmetry
INVARIANTS
  TypeOK
  UndisturbedIsOwn
  JobInHand
CHECK_DEADLOCK FALSE
