--------------------------- MODULE PredictionDates ---------------------------
(***************************************************************************)
(* The dates under the tabs as the clock advances, the device travels and  *)
(* the server renews the document it serves.  timezoneOffset() takes the   *)
(* offset 60 days ahead, so it can differ from the zone by the             *)
(* daylight-saving hour.                                                   *)
(***************************************************************************)
EXTENDS PredictionTabs

CONSTANTS
  Zones,      \* time zones of the device, in hours
  Shifts,     \* daylight-saving difference of timezoneOffset()
  ServerZone, \* time zone of the server
  FirstHour,  \* bound: hours checked
  LastHour

ASSUME DatesAssumption ==
  /\ Zones \subseteq Int /\ Shifts \subseteq Int /\ ServerZone \in Int
  /\ FirstHour \in Nat /\ LastHour \in Nat

VARIABLES now, zone, offset,
  served  \* the server's day when it wrote the document
vars == <<now, zone, offset, served>>

(* The hours at which the updater runs, by the server's clock.             *)
UpdateHours == {2, 12, 18}

Init ==
  /\ now = FirstHour
  /\ zone \in Zones
  /\ offset \in {zone + s : s \in Shifts}
  /\ served = LocalDay(now, ServerZone)

(* Fault planted in Tick: the server renews its document at noon only.     *)
Tick_NoonOnly ==
  /\ now < LastHour /\ now' = now + 1
  /\ served' = IF (now' + ServerZone) % 24 = 12 THEN LocalDay(now', ServerZone) ELSE served
  /\ UNCHANGED <<zone, offset>>

(* An hour passes; at an update hour the document is dated anew.           *)
Tick ==
  /\ now < LastHour /\ now' = now + 1
  /\ served' = IF (now' + ServerZone) % 24 \in UpdateHours
               THEN LocalDay(now', ServerZone) ELSE served
  /\ UNCHANGED <<zone, offset>>

(* The updater also runs when it is started.                               *)
ServerRestarts ==
  /\ served' = LocalDay(now, ServerZone)
  /\ UNCHANGED <<now, zone, offset>>

TravelTo(z) ==
  /\ zone' = z
  /\ offset' \in {z + s : s \in Shifts}
  /\ UNCHANGED <<now, served>>

Next == Tick \/ ServerRestarts \/ \E z \in Zones : TravelTo(z)
Spec == Init /\ [][Next]_vars

-----------------------------------------------------------------------------
Today      == WantedDay(now, offset, zone)
HereDay    == LocalDay(now, zone)
Entry(tab) == Matches(tab, DocumentOf(served), Today, zone)

(* Until two in the morning the server, in UTC, serves the document of the *)
(* day before, and the device's day is another one.  "today" has a         *)
(* prediction all the same, except next to UTC in the west, where the      *)
(* device wants the second day after, and in the far east.                 *)
TodayIsListed == zone \in -12..-2 \cup 0..10 => Entry("today") # {}

(* The screen opens on the second tab.  When the day before has no         *)
(* prediction that is "tomorrow", but in the zones in which today is       *)
(* listed what it shows is still at most one day away from the local date. *)
OpensNearby ==
  zone \in -12..-2 \cup 0..10 =>
    LET opened == OpenedTab(VisibleTabs(DocumentOf(served), Today, zone))
    IN /\ opened # {} /\ opened \subseteq {"today", "tomorrow"}
       /\ \A tab \in opened : \A e \in Entry(tab) :
            DocumentOf(served).day[e] - HereDay \in {-1, 0, 1}

(* The prediction under "today" is at most one day away from the local     *)
(* date, and in the zones from UTC to the east it is never an earlier one. *)
TodayWithinADay ==
  \A e \in Entry("today") :
    LET d == DocumentOf(served).day[e]
    IN /\ d - HereDay \in {-1, 0, 1}
       /\ zone >= 0 /\ offset >= 0 => d >= HereDay

(* The week's and the month's prediction, dated with their first day, are  *)
(* found while the server is in the same week or month, and only from UTC  *)
(* to the east: in the west midnight UTC is the day before.                *)
PeriodsListed ==
  /\ Entry("week") # {} <=> zone >= 0 /\ Monday(served) = Monday(Today)
  /\ Entry("month") # {} <=> zone >= 0 /\ FirstOfMonth(served) = FirstOfMonth(Today)

(* The tab called "today" shows the prediction of the device's date.       *)
TodayIsLocalDay ==
  \A e \in Entry("today") : DocumentOf(served).day[e] = HereDay

=============================================================================
