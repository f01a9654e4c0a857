SPECIFICATION DeliverySpec
CONSTANTS
  Zones <- AllZones
  Shifts <- DaylightSaving
  MonthStarts <- Months
  NoDay = NoDay
  Times = {0, 23}
  Halves = {0, 1}
  NoRoom = NoRoom
  ServerZone = 0
  FirstHour = 420744
  LastHour = 420794
INVARIANTS
  TodayIsListed
  TodayWithinADay
  OpensNearby
  PeriodsListed
PROPERTIES
  ArrivesAsAsked
  DailyUnlessWrapped
CHECK_DEADLOCK FALSE
