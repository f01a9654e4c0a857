SPECIFICATION Spec
CONSTANTS
  Zones <- AllZones
  Shifts <- DaylightSaving
  MonthStarts <- Months
  NoDay = NoDay
  ServerZone = 0
  FirstHour = 420672
  LastHour = 420864
INVARIANT
  TodayIsLocalDay
CHECK_DEADLOCK FALSE
