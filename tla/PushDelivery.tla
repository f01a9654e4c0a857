----------------------------- MODULE PushDelivery -----------------------------
(***************************************************************************)
(* From the push time of the settings to the push that arrives.  The app   *)
(* turns the time into the hour of a room (NotificationsCC::getRoomName),  *)
(* the pusher publishes at every hour the day's text to the rooms of that  *)
(* hour (server/pusher), and the storage holds what the updater wrote.     *)
(* The clock, the zones and the updates are those of PredictionDates.      *)
(***************************************************************************)
EXTENDS PredictionDates

CONSTANTS
  Times,   \* hours of the push-time picker
  Halves,  \* half hours a time zone can have beside its whole hours
  NoRoom   \* no subscription yet

ASSUME DeliveryAssumption ==
  /\ Times \subseteq 0..23 /\ Halves \subseteq {0, 1} /\ NoRoom \notin Int

VARIABLES
  half,      \* half hours of the time zone
  pushTime,  \* Settings "pushTime"
  room,      \* hour in the name of the room subscribed to
  fresh,     \* history: the zone is that in which the room was named
  alert      \* day of the text pushed at this hour, or NoDay

delivery == <<half, pushTime, room, fresh, alert>>

(* Fault planted in RoomHour: the hour is wrapped, the day is not.         *)
RoomHour_Wrapped(time) ==
  LET d == time - offset IN (IF half = 1 /\ d > 0 THEN d - 1 ELSE d) % 24

(* getRoomName: int time = pushTime() - timezoneOffset(), a double, which  *)
(* drops a half hour towards zero.                                         *)
RoomHour(time) ==
  LET d == time - offset IN IF half = 1 /\ d > 0 THEN d - 1 ELSE d

(* The hours of the pusher's jobs.                                         *)
JobHours == 0..23

(* Fault planted in Publishes: no job at midnight.                         *)
Publishes_NotAtMidnight(hour) == hour \in JobHours \ {0}

(* sendTodayPushToZodiacName publishes to the rooms of the hour.           *)
Publishes(hour) == hour \in JobHours

(* dayHoroscopeWithDate: the text of the UTC date, if the updater has      *)
(* written it; without one the promise is rejected and nothing is sent.    *)
PushedDay(time) ==
  IF time \div 24 <= DocumentOf(served).day["tomorrow"] THEN time \div 24 ELSE NoDay

-----------------------------------------------------------------------------
DeliveryInit ==
  /\ Init
  /\ half \in Halves /\ pushTime \in Times
  /\ room = NoRoom /\ fresh = FALSE /\ alert = NoDay

(* Settings are sent when they differ from those sent before.              *)
SendSettings(time) ==
  /\ time # pushTime \/ room = NoRoom
  /\ pushTime' = time
  /\ room' = RoomHour(time)
  /\ fresh' = TRUE /\ alert' = NoDay
  /\ UNCHANGED <<vars, half>>

(* An hour passes; its job runs.                                           *)
HourPasses ==
  /\ Tick
  /\ LET hour == (now' + ServerZone) % 24
     IN alert' = IF room = hour /\ Publishes(hour) THEN PushedDay(now') ELSE NoDay
  /\ UNCHANGED <<half, pushTime, room, fresh>>

(* The room's name stays what it was.                                      *)
Travel(z) ==
  /\ TravelTo(z)
  /\ half' \in Halves
  /\ fresh' = (fresh /\ zone' = zone /\ offset' = offset /\ half' = half)
  /\ UNCHANGED <<pushTime, room, alert>>

UpdaterRestarts == ServerRestarts /\ UNCHANGED delivery

DeliveryNext ==
  \/ HourPasses
  \/ UpdaterRestarts
  \/ \E time \in Times : SendSettings(time)
  \/ \E z \in Zones : Travel(z)

DeliverySpec == DeliveryInit /\ [][DeliveryNext]_<<vars, delivery>>

-----------------------------------------------------------------------------
(* Half hours by which a push may come after the hour asked for: those the *)
(* room's name drops, and the daylight-saving hour of timezoneOffset().    *)
Lateness == {2 * (zone - offset) + e : e \in IF half = 0 THEN {0} ELSE {-1, 1}}

(* A push comes at the hour asked for but for the Lateness, and with the   *)
(* text of the date on which that hour falls on the device, though the     *)
(* pusher knows the UTC date only: an hour that is not wrapped around      *)
(* midnight in the room's name is on the same date in both.                *)
ArrivesAsAsked ==
  [][now' # now /\ fresh /\ alert' # NoDay =>
       \E late \in Lateness :
         LET asked == 2 * (now' + zone) + half - late
         IN asked % 48 = 2 * pushTime /\ alert' = asked \div 48]_<<vars, delivery>>

(* At the hour asked for a push comes if, and only if, that hour is on the *)
(* same date in UTC.  The rooms of the other hours are named with an hour  *)
(* below 0 or above 23, and no push ever comes to them.                    *)
DailyUnlessWrapped ==
  [][now' # now /\ fresh /\ half = 0 /\ (now' + offset) % 24 = pushTime =>
       (alert' # NoDay <=> pushTime - offset \in 0..23)]_<<vars, delivery>>

=============================================================================
