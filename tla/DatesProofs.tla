------------------------------ MODULE DatesProofs ------------------------------
(***************************************************************************)
(* Theorems about PredictionDates, and about PushDelivery which extends    *)
(* it: what TLC checks over a few days holds for all hours and every push  *)
(* time, in the time zones of the Earth with a server in UTC.              *)
(***************************************************************************)
EXTENDS PushDelivery, FiniteSetTheorems, TLAPS

(* Zones are whole hours from UTC-12 to UTC+14, the offset sixty days      *)
(* ahead differs from the zone by an hour at most.                         *)
Earth ==
  /\ Zones \subseteq -12..14 /\ Shifts \subseteq -1..1
  /\ ServerZone = 0

(* The document is the day's, or until two in the morning that of the day  *)
(* before.                                                                 *)
ServedRecently ==
  \/ served = now \div 24
  \/ served = now \div 24 - 1 /\ now % 24 < 2

IInv ==
  /\ now \in Nat /\ served \in Int
  /\ zone \in Zones /\ offset \in {zone + s : s \in Shifts}
  /\ ServedRecently

-----------------------------------------------------------------------------
(* The invariant is inductive *)

LEMMA InitInvariant == ASSUME Earth, Init PROVE IInv
<1>1. now \in Nat /\ zone \in Zones /\ offset \in {zone + s : s \in Shifts}
  BY DatesAssumption DEF Init
<1>2. served = now \div 24
  BY <1>1 DEF Init, LocalDay, Earth
<1> QED
  BY <1>1, <1>2 DEF IInv, ServedRecently

(* An hour later it is the same day, or midnight.                          *)
LEMMA NextHour ==
  ASSUME NEW n \in Nat
  PROVE  \/ (n + 1) \div 24 = n \div 24 /\ (n + 1) % 24 = (n % 24) + 1
         \/ (n + 1) \div 24 = n \div 24 + 1 /\ (n + 1) % 24 = 0
  OBVIOUS

LEMMA TickInvariant == ASSUME Earth, IInv, Tick PROVE IInv'
<1>1. now' = now + 1 /\ now \in Nat /\ UNCHANGED <<zone, offset>>
  BY DEF Tick, IInv
<1>2. served' = IF (now + 1) % 24 \in {2, 12, 18} THEN (now + 1) \div 24 ELSE served
  BY <1>1 DEF Tick, UpdateHours, LocalDay, Earth
<1>3. served' \in Int /\ ServedRecently'
  BY <1>1, <1>2, NextHour DEF IInv, ServedRecently
<1> QED
  BY <1>1, <1>3 DEF IInv

LEMMA NextInvariant == ASSUME Earth, IInv, [Next]_vars PROVE IInv'
<1>1. CASE Tick
  BY <1>1, TickInvariant
<1>2. CASE ServerRestarts
  BY <1>2 DEF ServerRestarts, IInv, ServedRecently, LocalDay, Earth
<1>3. ASSUME NEW z \in Zones, TravelTo(z) PROVE IInv'
  BY <1>3 DEF TravelTo, IInv, ServedRecently
<1>4. CASE UNCHANGED vars
  BY <1>4 DEF vars, IInv, ServedRecently
<1> QED
  BY <1>1, <1>2, <1>3, <1>4 DEF Next

-----------------------------------------------------------------------------
(* Entries of the document *)

(* Midnight UTC of a day is the same day in the east and the day before in *)
(* the west.                                                               *)
LEMMA ListedDayOf ==
  ASSUME NEW d \in Int, NEW z \in -12..14
  PROVE  ListedDay(d, z) = IF z >= 0 THEN d ELSE d - 1
  BY DEF ListedDay, LocalDay

(* The tabs and their places in the row.                                   *)
LEMMA TabPlaces ==
  /\ Tabs = {"yesterday", "today", "tomorrow", "week", "month", "year"}
  /\ \A i \in 1..6 : Titles[i] \in Tabs /\ Place(Titles[i]) = i
<1>1. /\ Titles = <<"yesterday", "today", "tomorrow", "week", "month", "year">>
      /\ Len(Titles) = 6
  BY DEF Titles
<1>2. Tabs = {"yesterday", "today", "tomorrow", "week", "month", "year"}
  BY <1>1 DEF Tabs
<1>3. ASSUME NEW i \in 1..6 PROVE Titles[i] \in Tabs /\ Place(Titles[i]) = i
  <2>1. Titles[i] \in Tabs
    BY <1>1 DEF Tabs
  <2>2. \A j \in 1..6 : Titles[j] = Titles[i] => j = i
    BY <1>1
  <2>3. Place(Titles[i]) \in 1..6 /\ Titles[Place(Titles[i])] = Titles[i]
    BY <1>1 DEF Place
  <2> QED
    BY <2>1, <2>2, <2>3
<1> QED
  BY <1>2, <1>3

LEMMA PlaceOf ==
  /\ Place("yesterday") = 1 /\ Place("today") = 2 /\ Place("tomorrow") = 3
  /\ \A tab \in {"week", "month", "year"} : Place(tab) > 3
<1>1. /\ Titles[1] = "yesterday" /\ Titles[2] = "today" /\ Titles[3] = "tomorrow"
      /\ Titles[4] = "week" /\ Titles[5] = "month" /\ Titles[6] = "year"
  BY DEF Titles
<1> QED
  BY <1>1, TabPlaces

LEMMA DayTabs == {"yesterday", "today", "tomorrow"} \subseteq Tabs
BY TabPlaces

(* The days of a document's daily entries.                                 *)
LEMMA DayEntries ==
  ASSUME NEW d \in Int
  PROVE  /\ DocumentOf(d).day["yesterday"] = d - 1
         /\ DocumentOf(d).day["today"] = d
         /\ DocumentOf(d).day["tomorrow"] = d + 1
         /\ DocumentOf(d).blank = {}
  BY DEF DocumentOf

(* The days of the daily tabs.                                             *)
DayOf(tab, today) ==
  CASE tab = "yesterday" -> today - 1 [] tab = "today" -> today [] tab = "tomorrow" -> today + 1

LEMMA EntriesForDays ==
  ASSUME NEW d \in Int, NEW tab \in {"yesterday", "today", "tomorrow"}
  PROVE  Matches(tab, DocumentOf(d), Today, zone) =
           {e \in {"yesterday", "today", "tomorrow"} :
              ListedDay(DocumentOf(d).day[e], zone) = DayOf(tab, Today)}
<1>1. \A e \in {"yesterday", "today", "tomorrow"} : DocumentOf(d).day[e] # NoDay
  BY DayEntries, CalendarAssumption
<1>2. {"yesterday", "today", "tomorrow"} \subseteq Legible(DocumentOf(d))
  BY <1>1, DayTabs, DayEntries DEF Legible
<1>3. Candidates(tab) = {"yesterday", "today", "tomorrow"}
  BY DEF Candidates
<1>4. WantedFor(tab, Today) = DayOf(tab, Today)
  <2>1. CASE tab = "yesterday"
    BY <2>1 DEF WantedFor, DayOf
  <2>2. CASE tab = "today"
    BY <2>2 DEF WantedFor, DayOf
  <2>3. CASE tab = "tomorrow"
    BY <2>3 DEF WantedFor, DayOf
  <2> QED
    BY <2>1, <2>2, <2>3
<1> QED
  BY <1>2, <1>3, <1>4 DEF Matches

LEMMA EntriesForToday ==
  ASSUME NEW d \in Int
  PROVE  Matches("today", DocumentOf(d), Today, zone) =
           {e \in {"yesterday", "today", "tomorrow"} :
              ListedDay(DocumentOf(d).day[e], zone) = Today}
<1>1. DayOf("today", Today) = Today
  BY DEF DayOf
<1> QED
  BY <1>1, EntriesForDays

(* Every day lies in a month, and a month has more than one day.           *)
Calendar ==
  /\ \A d \in Int : \E m \in MonthStarts :
       m <= d /\ \A n \in MonthStarts : n <= d => n <= m
  /\ \A m \in MonthStarts : m - 1 \notin MonthStarts

-----------------------------------------------------------------------------
(* What is under "today" *)

(* The day the device wants lies within the day and a half around its date *)
(* that the zone, added twice, allows.                                     *)
LEMMA WantedNear ==
  ASSUME Earth, IInv
  PROVE  /\ zone \in -12..14 /\ offset \in Int /\ offset - zone \in -1..1
         /\ Today = (now + offset + zone) \div 24 /\ Today \in Int
         /\ HereDay = (now + zone) \div 24
<1>1. zone \in -12..14
  BY DEF IInv, Earth
<1>2. PICK s \in Shifts : offset = zone + s
  BY DEF IInv
<1>3. s \in -1..1
  BY <1>2 DEF Earth
<1>4. offset \in Int /\ offset - zone \in -1..1
  BY <1>1, <1>2, <1>3
<1>5. Today = (now + offset + zone) \div 24 /\ HereDay = (now + zone) \div 24
  BY DEF Today, HereDay, WantedDay, LocalDay
<1> QED
  BY <1>1, <1>4, <1>5 DEF IInv

(* Adding the zone a second time moves the day by one at most.              *)
LEMMA DayMoved ==
  ASSUME NEW n \in Nat, NEW z \in -12..14, NEW o \in Int, o - z \in -1..1
  PROVE  LET wanted == (n + o + z) \div 24
             here   == (n + z) \div 24
         IN /\ z >= 0 => wanted \in here - 1..here + 1
            /\ z >= 0 /\ o >= 0 => wanted >= here
            /\ z < 0 => wanted \in here - 1..here
  OBVIOUS

LEMMA InvariantImpliesWithinADay == ASSUME Earth, IInv PROVE TodayWithinADay
<1> DEFINE doc == DocumentOf(served)
<1> SUFFICES ASSUME NEW e \in Entry("today")
             PROVE  /\ doc.day[e] - HereDay \in {-1, 0, 1}
                    /\ zone >= 0 /\ offset >= 0 => doc.day[e] >= HereDay
  BY DEF TodayWithinADay
<1>1. served \in Int /\ now \in Nat
  BY DEF IInv
<1>2. e \in {"yesterday", "today", "tomorrow"} /\ ListedDay(doc.day[e], zone) = Today
  BY <1>1, EntriesForToday DEF Entry
<1>3. doc.day[e] \in Int
  BY <1>1, <1>2, DayEntries
<1>4. Today = IF zone >= 0 THEN doc.day[e] ELSE doc.day[e] - 1
  BY <1>2, <1>3, WantedNear, ListedDayOf
<1>5. /\ zone >= 0 => Today \in HereDay - 1..HereDay + 1
      /\ zone >= 0 /\ offset >= 0 => Today >= HereDay
      /\ zone < 0 => Today \in HereDay - 1..HereDay
  BY <1>1, WantedNear, DayMoved
<1>6. zone \in Int /\ offset \in Int /\ HereDay \in Int /\ Today \in Int
  BY <1>1, WantedNear
<1> QED
  BY <1>3, <1>4, <1>5, <1>6

(* The date of the entry that stands under "today", and where the document *)
(* has it.                                                                 *)
Sought == IF zone >= 0 THEN Today ELSE Today + 1

LEMMA SoughtNear ==
  ASSUME Earth, IInv
  PROVE  /\ Sought \in Int
         /\ zone \in -12..-2 \cup 0..10 => Sought - served \in -1..1
<1>1. served \in Int /\ now \in Nat /\ ServedRecently
  BY DEF IInv
<1>2. ASSUME zone \in -12..-2 \cup 0..10 PROVE Sought - served \in -1..1
  <2>1. CASE zone >= 0
    BY <1>1, <1>2, <2>1, WantedNear DEF ServedRecently, Sought
  <2>2. CASE zone < 0
    BY <1>1, <1>2, <2>2, WantedNear DEF ServedRecently, Sought
  <2> QED
    BY <2>1, <2>2, WantedNear
<1> QED
  BY <1>2, WantedNear DEF Sought

(* A daily tab is there if the document has the day it wants.              *)
LEMMA DayTabShown ==
  ASSUME Earth, IInv, NEW tab \in {"yesterday", "today", "tomorrow"},
         NEW k \in -1..1, DayOf(tab, Today) = Today + k
  PROVE  /\ Entry(tab) # {} <=> Sought + k - served \in -1..1
         /\ \A e \in Entry(tab) : DocumentOf(served).day[e] = Sought + k
<1> DEFINE doc == DocumentOf(served)
<1>1. served \in Int /\ Today \in Int /\ zone \in -12..14 /\ Sought \in Int
  BY WantedNear, SoughtNear DEF IInv
<1>2. \A d \in Int : ListedDay(d, zone) = Today + k <=> d = Sought + k
  BY <1>1, ListedDayOf DEF Sought
<1>3. Entry(tab) = {e \in {"yesterday", "today", "tomorrow"} :
                      ListedDay(doc.day[e], zone) = Today + k}
  BY <1>1, EntriesForDays DEF Entry
<1>4. /\ doc.day["yesterday"] = served - 1 /\ doc.day["today"] = served
      /\ doc.day["tomorrow"] = served + 1
  BY <1>1, DayEntries
<1> HIDE DEF doc
<1>5. \A e \in {"yesterday", "today", "tomorrow"} : doc.day[e] \in Int
  BY <1>1, <1>4
<1>6. Entry(tab) = {e \in {"yesterday", "today", "tomorrow"} : doc.day[e] = Sought + k}
  BY <1>2, <1>3, <1>5
<1>7. Entry(tab) # {} <=> Sought + k \in {served - 1, served, served + 1}
  BY <1>4, <1>6
<1>8. Sought + k \in {served - 1, served, served + 1} <=> Sought + k - served \in -1..1
  BY <1>1
<1> QED
  BY <1>6, <1>7, <1>8 DEF doc

LEMMA InvariantImpliesListed == ASSUME Earth, IInv PROVE TodayIsListed
<1>1. DayOf("today", Today) = Today + 0
  BY WantedNear DEF DayOf
<1>2. Entry("today") # {} <=> Sought + 0 - served \in -1..1
  BY <1>1, DayTabShown
<1>3. served \in Int
  BY DEF IInv
<1> QED
  BY <1>2, <1>3, SoughtNear DEF TodayIsListed

-----------------------------------------------------------------------------
(* The tab the screen opens on *)

LEMMA CountOne ==
  ASSUME NEW S, NEW T, IsFiniteSet(T), S \subseteq T
  PROVE  /\ Cardinality(S) = 1 => \E x : S = {x}
         /\ \A x : S = {x} => Cardinality(S) = 1
<1>1. IsFiniteSet(S)
  BY FS_Subset
<1> QED
  BY <1>1, FS_Singleton

LEMMA FiniteTriple == \A a, b, c : IsFiniteSet({a} \cup {b} \cup {c})
<1> TAKE a, b, c
<1>1. IsFiniteSet({a}) /\ IsFiniteSet({b}) /\ IsFiniteSet({c})
  BY FS_Singleton
<1>2. IsFiniteSet({a} \cup {b})
  BY <1>1, FS_Union
<1> QED
  BY <1>1, <1>2, FS_Union

(* A tab with exactly one before it is selected.                           *)
LEMMA Opened ==
  ASSUME NEW tabs \in SUBSET Tabs
  PROVE  \A tab \in tabs :
           tab \in OpenedTab(tabs) <=> \E x : {t \in tabs : Place(t) < Place(tab)} = {x}
<1>1. IsFiniteSet(Tabs)
  <2> DEFINE days    == {"yesterday"} \cup {"today"} \cup {"tomorrow"}
             periods == {"week"} \cup {"month"} \cup {"year"}
  <2>1. IsFiniteSet(days) /\ IsFiniteSet(periods)
    BY FiniteTriple
  <2>2. IsFiniteSet(days \cup periods)
    BY <2>1, FS_Union
  <2>3. Tabs = days \cup periods
    BY TabPlaces
  <2> QED
    BY <2>2, <2>3
<1> SUFFICES ASSUME NEW tab \in tabs
             PROVE  tab \in OpenedTab(tabs)
                      <=> \E x : {t \in tabs : Place(t) < Place(tab)} = {x}
  OBVIOUS
<1> DEFINE before == {t \in tabs : Place(t) < Place(tab)}
<1>2. before \subseteq Tabs
  OBVIOUS
<1>3. tab \in OpenedTab(tabs) <=> Cardinality(before) = 1
  BY DEF OpenedTab, Index
<1> HIDE DEF before
<1>4. Cardinality(before) = 1 <=> \E x : before = {x}
  BY <1>1, <1>2, CountOne
<1> QED
  BY <1>3, <1>4 DEF before

(* With the day before the screen opens on "today", and without it, if     *)
(* the next day is there, on "tomorrow".                                   *)
LEMMA OpenedDay ==
  ASSUME NEW tabs \in SUBSET Tabs, "today" \in tabs
  PROVE  /\ "yesterday" \in tabs => OpenedTab(tabs) = {"today"}
         /\ "yesterday" \notin tabs /\ "tomorrow" \in tabs => OpenedTab(tabs) = {"tomorrow"}
<1>1. \A tab \in tabs : tab \in {"yesterday", "today", "tomorrow"} \/ Place(tab) > 3
  BY TabPlaces, PlaceOf
<1>2. OpenedTab(tabs) \subseteq tabs
  BY DEF OpenedTab
<1>3. \A tab \in tabs : Place(tab) \in Int
  BY TabPlaces, PlaceOf
<1> DEFINE before(tab) == {t \in tabs : Place(t) < Place(tab)}
<1>4. ASSUME "yesterday" \in tabs PROVE OpenedTab(tabs) = {"today"}
  <2>1. before("today") = {"yesterday"}
    <3>1. \A t \in tabs : Place(t) < Place("today") <=> t = "yesterday"
      BY <1>1, <1>3, PlaceOf
    <3> QED
      BY <3>1, <1>4
  <2>2. before("yesterday") = {}
    <3>1. \A t \in tabs : ~(Place(t) < Place("yesterday"))
      BY <1>1, <1>3, PlaceOf
    <3> QED
      BY <3>1
  <2>3. ASSUME NEW tab \in tabs, tab \notin {"yesterday", "today"}
        PROVE  {"yesterday", "today"} \subseteq {t \in tabs : Place(t) < Place(tab)}
    BY <1>1, <1>3, <1>4, <2>3, PlaceOf
  <2> QED
    BY <1>2, <1>4, <2>1, <2>2, <2>3, Opened
<1>5. ASSUME "yesterday" \notin tabs, "tomorrow" \in tabs
      PROVE  OpenedTab(tabs) = {"tomorrow"}
  <2>1. before("tomorrow") = {"today"}
    <3>1. \A t \in tabs : Place(t) < Place("tomorrow") <=> t = "today"
      BY <1>1, <1>3, <1>5, PlaceOf
    <3> QED
      BY <3>1
  <2>2. before("today") = {}
    <3>1. \A t \in tabs : ~(Place(t) < Place("today"))
      BY <1>1, <1>3, <1>5, PlaceOf
    <3> QED
      BY <3>1
  <2>3. ASSUME NEW tab \in tabs, tab \notin {"today", "tomorrow"}
        PROVE  {"today", "tomorrow"} \subseteq {t \in tabs : Place(t) < Place(tab)}
    BY <1>1, <1>3, <1>5, <2>3, PlaceOf
  <2> QED
    BY <1>2, <1>5, <2>1, <2>2, <2>3, Opened
<1> QED
  BY <1>4, <1>5

(* "yesterday" is missing only while the document begins with what is      *)
(* under "today"; then "tomorrow" is there and shows the server's day.     *)
LEMMA InvariantImpliesOpensNearby == ASSUME Earth, IInv PROVE OpensNearby
<1> SUFFICES ASSUME zone \in -12..-2 \cup 0..10
             PROVE  LET opened == OpenedTab(VisibleTabs(DocumentOf(served), Today, zone))
                    IN /\ opened # {} /\ opened \subseteq {"today", "tomorrow"}
                       /\ \A tab \in opened : \A e \in Entry(tab) :
                            DocumentOf(served).day[e] - HereDay \in {-1, 0, 1}
  BY DEF OpensNearby
<1> DEFINE tabs == VisibleTabs(DocumentOf(served), Today, zone)
<1>1. served \in Int /\ now \in Nat /\ ServedRecently /\ Sought \in Int
      /\ Today \in Int /\ Sought - served \in -1..1
  BY WantedNear, SoughtNear DEF IInv
<1>2. /\ tabs \in SUBSET Tabs
      /\ \A tab \in Tabs : tab \in tabs <=> Entry(tab) # {}
  BY DEF VisibleTabs, Entry
<1>3. /\ DayOf("yesterday", Today) = Today + (-1) /\ DayOf("today", Today) = Today + 0
      /\ DayOf("tomorrow", Today) = Today + 1
  BY <1>1 DEF DayOf
<1>4. /\ Entry("yesterday") # {} <=> Sought - 1 - served \in -1..1
      /\ Entry("today") # {}
      /\ Entry("tomorrow") # {} <=> Sought + 1 - served \in -1..1
      /\ \A e \in Entry("tomorrow") : DocumentOf(served).day[e] = Sought + 1
  <2>1. Entry("yesterday") # {} <=> Sought + (-1) - served \in -1..1
    BY <1>3, DayTabShown
  <2>2. Entry("today") # {} <=> Sought + 0 - served \in -1..1
    BY <1>3, DayTabShown
  <2>3. /\ Entry("tomorrow") # {} <=> Sought + 1 - served \in -1..1
        /\ \A e \in Entry("tomorrow") : DocumentOf(served).day[e] = Sought + 1
    BY <1>3, DayTabShown
  <2> QED
    BY <1>1, <2>1, <2>2, <2>3
<1>5. "today" \in tabs /\ ("yesterday" \in tabs <=> Entry("yesterday") # {})
      /\ ("tomorrow" \in tabs <=> Entry("tomorrow") # {})
  BY <1>2, <1>4, DayTabs
<1> HIDE DEF tabs
<1>6. CASE Sought - served \in 0..1
  <2>1. OpenedTab(tabs) = {"today"}
    BY <1>1, <1>2, <1>4, <1>5, <1>6, OpenedDay
  <2>2. \A e \in Entry("today") : DocumentOf(served).day[e] - HereDay \in {-1, 0, 1}
    BY InvariantImpliesWithinADay DEF TodayWithinADay
  <2> QED
    BY <2>1, <2>2 DEF tabs
<1>7. CASE Sought = served - 1
  <2>1. OpenedTab(tabs) = {"tomorrow"}
    BY <1>1, <1>2, <1>4, <1>5, <1>7, OpenedDay
  <2>2. served - HereDay \in {-1, 0, 1}
    BY <1>1, WantedNear DEF ServedRecently
  <2>3. \A e \in Entry("tomorrow") : DocumentOf(served).day[e] = served
    BY <1>1, <1>4, <1>7
  <2> QED
    BY <2>1, <2>2, <2>3 DEF tabs
<1> QED
  BY <1>1, <1>6, <1>7

-----------------------------------------------------------------------------
(* What is under "week" and "month" *)

LEMMA MondayFacts ==
  ASSUME NEW d \in Int
  PROVE  Monday(d) \in Int /\ (Monday(d) + 3) % 7 = 0
  BY DEF Monday

LEMMA FirstFacts ==
  ASSUME Calendar, NEW d \in Int
  PROVE  FirstOfMonth(d) \in MonthStarts /\ FirstOfMonth(d) \in Int
  BY CalendarAssumption DEF FirstOfMonth, Calendar

LEMMA PeriodTabs == {"week", "month"} \subseteq Tabs
<1>1. Len(Titles) = 6 /\ Titles[4] = "week" /\ Titles[5] = "month"
  BY DEF Titles
<1> QED
  BY <1>1 DEF Tabs

(* Each of the two tabs has its own entry or none.                         *)
LEMMA EntriesForPeriods ==
  ASSUME Calendar, NEW d \in Int, NEW today \in Int, NEW z \in Int
  PROVE  /\ Matches("week", DocumentOf(d), today, z) # {}
              <=> ListedDay(Monday(d), z) = Monday(today)
         /\ Matches("month", DocumentOf(d), today, z) # {}
              <=> ListedDay(FirstOfMonth(d), z) = FirstOfMonth(today)
<1>1. /\ DocumentOf(d).day["week"] = Monday(d)
      /\ DocumentOf(d).day["month"] = FirstOfMonth(d)
      /\ DocumentOf(d).blank = {}
  BY DEF DocumentOf
<1>2. Monday(d) # NoDay /\ FirstOfMonth(d) # NoDay
  BY MondayFacts, FirstFacts, CalendarAssumption
<1>3. {"week", "month"} \subseteq Legible(DocumentOf(d))
  BY <1>1, <1>2, PeriodTabs DEF Legible
<1>4. Candidates("week") = {"week"} /\ Candidates("month") = {"month"}
  BY DEF Candidates
<1>5. WantedFor("week", today) = Monday(today)
  BY DEF WantedFor
<1>6. WantedFor("month", today) = FirstOfMonth(today)
  BY DEF WantedFor
<1>7. Matches("week", DocumentOf(d), today, z) # {} <=> ListedDay(Monday(d), z) = Monday(today)
  BY <1>1, <1>3, <1>4, <1>5 DEF Matches
<1>8. Matches("month", DocumentOf(d), today, z) # {}
        <=> ListedDay(FirstOfMonth(d), z) = FirstOfMonth(today)
  BY <1>1, <1>3, <1>4, <1>6 DEF Matches
<1> QED
  BY <1>7, <1>8

LEMMA InvariantImpliesPeriods == ASSUME Earth, Calendar, IInv PROVE PeriodsListed
<1>1. served \in Int /\ Today \in Int /\ zone \in -12..14
  BY WantedNear DEF IInv
<1>2. /\ Entry("week") # {} <=> ListedDay(Monday(served), zone) = Monday(Today)
      /\ Entry("month") # {}
            <=> ListedDay(FirstOfMonth(served), zone) = FirstOfMonth(Today)
  BY <1>1, EntriesForPeriods DEF Entry
<1>3. Monday(served) - 1 # Monday(Today)
  BY <1>1, MondayFacts
<1>4. FirstOfMonth(served) - 1 # FirstOfMonth(Today)
  BY <1>1, FirstFacts DEF Calendar
<1>5. /\ ListedDay(Monday(served), zone)
            = IF zone >= 0 THEN Monday(served) ELSE Monday(served) - 1
      /\ ListedDay(FirstOfMonth(served), zone)
            = IF zone >= 0 THEN FirstOfMonth(served) ELSE FirstOfMonth(served) - 1
  BY <1>1, MondayFacts, FirstFacts, ListedDayOf
<1> QED
  BY <1>2, <1>3, <1>4, <1>5 DEF PeriodsListed

-----------------------------------------------------------------------------
(* In the zones of the Earth, at every hour, what stands under "today" is  *)
(* at most a day away from the device's date.                              *)
THEOREM WithinADay == ASSUME Earth PROVE Spec => []TodayWithinADay
<1>1. Init => IInv
  BY InitInvariant
<1>2. IInv /\ [Next]_vars => IInv'
  BY NextInvariant
<1>3. IInv => TodayWithinADay
  BY InvariantImpliesWithinADay
<1> QED
  BY <1>1, <1>2, <1>3, PTL DEF Spec

(* At every hour "today" has a prediction, next to UTC in the west and in  *)
(* the far east excepted.                                                  *)
THEOREM Listed == ASSUME Earth PROVE Spec => []TodayIsListed
<1>1. Init => IInv
  BY InitInvariant
<1>2. IInv /\ [Next]_vars => IInv'
  BY NextInvariant
<1>3. IInv => TodayIsListed
  BY InvariantImpliesListed
<1> QED
  BY <1>1, <1>2, <1>3, PTL DEF Spec

(* In the zones in which today is listed the screen opens on a tab that    *)
(* exists, "today" or "tomorrow", and what it shows there is at most a day *)
(* away from the device's date.                                            *)
THEOREM OpensOnNearDay == ASSUME Earth PROVE Spec => []OpensNearby
<1>1. Init => IInv
  BY InitInvariant
<1>2. IInv /\ [Next]_vars => IInv'
  BY NextInvariant
<1>3. IInv => OpensNearby
  BY InvariantImpliesOpensNearby
<1> QED
  BY <1>1, <1>2, <1>3, PTL DEF Spec

(* With any calendar, the week's and the month's prediction are found      *)
(* exactly from UTC to the east while server and device agree on the week  *)
(* or the month.                                                           *)
THEOREM Periods == ASSUME Earth, Calendar PROVE Spec => []PeriodsListed
<1>1. Init => IInv
  BY InitInvariant
<1>2. IInv /\ [Next]_vars => IInv'
  BY NextInvariant
<1>3. IInv => PeriodsListed
  BY InvariantImpliesPeriods
<1> QED
  BY <1>1, <1>2, <1>3, PTL DEF Spec

-----------------------------------------------------------------------------
(* PushDelivery: the inductive invariant adds that a fresh room is the one *)
(* named in this zone.                                                     *)

Named ==
  /\ pushTime \in Times /\ half \in Halves
  /\ fresh => room = RoomHour(pushTime)

DeliveryInv == IInv /\ Named

-----------------------------------------------------------------------------
(* The invariant is inductive *)

LEMMA DeliveryInitInvariant == ASSUME Earth, DeliveryInit PROVE DeliveryInv
BY InitInvariant DEF DeliveryInit, DeliveryInv, Named

LEMMA DeliveryStepIsStep ==
  ASSUME [DeliveryNext]_<<vars, delivery>>
  PROVE  [Next]_vars
BY DEF DeliveryNext, HourPasses, UpdaterRestarts, SendSettings, Travel, Next

(* Whatever does not name a room leaves its zone, or makes it stale.       *)
LEMMA SameRoom ==
  ASSUME Named, UNCHANGED <<pushTime, room>>, half' \in Halves,
         fresh' => fresh /\ UNCHANGED <<offset, half>>
  PROVE  Named'
BY DEF Named, RoomHour

LEMMA NamedStep ==
  ASSUME Named, [DeliveryNext]_<<vars, delivery>>
  PROVE  Named'
<1>1. half \in Halves
  BY DEF Named
<1>2. CASE HourPasses
  BY <1>1, <1>2, SameRoom DEF HourPasses, Tick
<1>3. CASE UpdaterRestarts
  BY <1>1, <1>3, SameRoom DEF UpdaterRestarts, ServerRestarts, delivery
<1>4. ASSUME NEW time \in Times, SendSettings(time) PROVE Named'
  BY <1>1, <1>4 DEF SendSettings, Named, RoomHour, vars
<1>5. ASSUME NEW z \in Zones, Travel(z) PROVE Named'
  BY <1>5, SameRoom DEF Travel
<1>6. CASE UNCHANGED <<vars, delivery>>
  BY <1>1, <1>6, SameRoom DEF vars, delivery
<1> QED
  BY <1>2, <1>3, <1>4, <1>5, <1>6 DEF DeliveryNext

LEMMA DeliveryNextInvariant ==
  ASSUME Earth, DeliveryInv, [DeliveryNext]_<<vars, delivery>>
  PROVE  DeliveryInv'
BY DeliveryStepIsStep, NextInvariant, NamedStep DEF DeliveryInv

-----------------------------------------------------------------------------
(* Hours *)

(* When an hour begins, the text of its UTC date has been written.          *)
LEMMA TextThere ==
  ASSUME IInv PROVE PushedDay(now + 1) = (now + 1) \div 24
<1>1. DocumentOf(served).day["tomorrow"] = served + 1
  BY DEF DocumentOf
<1>2. now \in Nat /\ served \in Int /\ ServedRecently
  BY DEF IInv
<1>3. (now + 1) \div 24 <= served + 1
  BY <1>2, NextHour DEF ServedRecently
<1> QED
  BY <1>1, <1>3 DEF PushedDay

(* An hour of the day that is not moved across midnight is on the same     *)
(* date before and after.                                                  *)
LEMMA SameDate ==
  ASSUME NEW n \in Int, NEW time \in 0..23, NEW off \in Int,
         n % 24 = time - off
  PROVE  /\ (2 * (n + off)) % 48 = 2 * time
         /\ (2 * (n + off)) \div 48 = n \div 24
<1> DEFINE q == n \div 24
<1>1. q \in Int /\ n = 24 * q + (n % 24)
  OBVIOUS
<1>2. 2 * (n + off) = 48 * q + 2 * time
  BY <1>1
<1>3. 2 * time \in 0..47
  OBVIOUS
<1> HIDE DEF q
<1>4. (48 * q + 2 * time) % 48 = 2 * time /\ (48 * q + 2 * time) \div 48 = q
  BY <1>1, <1>3
<1> QED
  BY <1>2, <1>4 DEF q

LEMMA SameHour ==
  ASSUME NEW n \in Int, NEW time \in 0..23, NEW off \in Int,
         (n + off) % 24 = time, time - off \in 0..23
  PROVE  n % 24 = time - off
<1> DEFINE q == (n + off) \div 24
<1>1. q \in Int /\ n + off = 24 * q + time
  OBVIOUS
<1>2. n = 24 * q + (time - off)
  BY <1>1
<1> DEFINE r == time - off
<1> HIDE DEF q
<1>3. r \in 0..23 /\ n = 24 * q + r
  BY <1>2
<1> HIDE DEF r
<1>4. n % 24 = r
  BY <1>1, <1>3
<1> QED
  BY <1>4 DEF r

(* When the hour in the room's name comes, it is the hour asked for, but   *)
(* for a half hour that was dropped.                                       *)
LEMMA AskedHour ==
  ASSUME NEW n \in Int, pushTime \in 0..23, half \in {0, 1}, zone \in Int, offset \in Int,
         n % 24 = RoomHour(pushTime)
  PROVE  \E late \in Lateness :
           LET asked == 2 * (n + zone) + half - late
           IN asked % 48 = 2 * pushTime /\ asked \div 48 = n \div 24
<1> DEFINE off == IF half = 1 /\ pushTime - offset > 0 THEN offset + 1 ELSE offset
           e   == IF half = 0 THEN 0 ELSE IF pushTime - offset > 0 THEN -1 ELSE 1
           late == 2 * (zone - offset) + e
<1>1. n % 24 = pushTime - off /\ off \in Int
  BY DEF RoomHour
<1>2. 2 * (n + zone) + half - late = 2 * (n + off)
  <2>1. n % 24 \in 0..23
    OBVIOUS
  <2> QED
    BY <2>1 DEF RoomHour
<1>3. late \in Lateness
  BY DEF Lateness
<1> HIDE DEF off, late
<1>4. (2 * (n + off)) % 48 = 2 * pushTime /\ (2 * (n + off)) \div 48 = n \div 24
  BY <1>1, SameDate
<1> QED
  BY <1>2, <1>3, <1>4

(* The hour of the room comes: a push.                                     *)
LEMMA Pushes ==
  ASSUME Earth, DeliveryInv, [DeliveryNext]_<<vars, delivery>>, now' # now
  PROVE  /\ now' \in Nat /\ now' % 24 \in 0..23
          /\ alert' = IF room = now' % 24 THEN now' \div 24 ELSE NoDay
<1>1. HourPasses
  BY DEF DeliveryNext, UpdaterRestarts, ServerRestarts, SendSettings, Travel, TravelTo,
         vars, delivery
<1>2. now' = now + 1 /\ now \in Nat
  BY <1>1 DEF HourPasses, Tick, DeliveryInv, IInv
<1>3. (now + 1) + ServerZone = now + 1
  BY <1>2 DEF Earth
<1>4. (now + 1) % 24 \in 0..23
  BY <1>2
<1>5. PushedDay(now + 1) = (now + 1) \div 24
  BY TextThere DEF DeliveryInv
<1> QED
  BY <1>1, <1>2, <1>3, <1>4, <1>5 DEF HourPasses, Publishes, JobHours, Tick

-----------------------------------------------------------------------------
(* A push comes at the hour asked for, but for the Lateness, with the text *)
(* of the date on which that hour falls on the device.                     *)
THEOREM Arrival == ASSUME Earth PROVE DeliverySpec => ArrivesAsAsked
<1>1. DeliveryInit => DeliveryInv
  BY DeliveryInitInvariant
<1>2. DeliveryInv /\ [DeliveryNext]_<<vars, delivery>> => DeliveryInv'
  BY DeliveryNextInvariant
<1>3. ASSUME DeliveryInv, [DeliveryNext]_<<vars, delivery>>,
             now' # now, fresh, alert' # NoDay
      PROVE  \E late \in Lateness :
               LET asked == 2 * (now' + zone) + half - late
               IN asked % 48 = 2 * pushTime /\ alert' = asked \div 48
  <2>1. room = now' % 24 /\ alert' = now' \div 24 /\ now' \in Nat
    BY <1>3, Pushes
  <2>2. pushTime \in 0..23 /\ half \in {0, 1} /\ zone \in Int /\ offset \in Int
    BY <1>3, DeliveryAssumption, DatesAssumption DEF DeliveryInv, IInv, Named
  <2>3. now' % 24 = RoomHour(pushTime)
    BY <1>3, <2>1 DEF DeliveryInv, Named
  <2>4. now' \in Int
    BY <2>1
  <2>5. PICK late \in Lateness :
          LET asked == 2 * (now' + zone) + half - late
          IN asked % 48 = 2 * pushTime /\ asked \div 48 = now' \div 24
    BY <2>2, <2>3, <2>4, AskedHour
  <2> QED
    BY <2>1, <2>5
<1> QED
  BY <1>1, <1>2, <1>3, PTL DEF DeliverySpec, ArrivesAsAsked

(* At the hour asked for a push comes if, and only if, that hour is on the *)
(* same date in UTC, so a room below hour 0 or above hour 23 never gets a  *)
(* push.                                                                   *)
THEOREM Daily == ASSUME Earth PROVE DeliverySpec => DailyUnlessWrapped
<1>1. DeliveryInit => DeliveryInv
  BY DeliveryInitInvariant
<1>2. DeliveryInv /\ [DeliveryNext]_<<vars, delivery>> => DeliveryInv'
  BY DeliveryNextInvariant
<1>3. ASSUME DeliveryInv, [DeliveryNext]_<<vars, delivery>>,
             now' # now, fresh, half = 0, (now' + offset) % 24 = pushTime
      PROVE  alert' # NoDay <=> pushTime - offset \in 0..23
  <2>1. /\ alert' = IF room = now' % 24 THEN now' \div 24 ELSE NoDay
        /\ now' \in Nat /\ now' % 24 \in 0..23
    BY <1>3, Pushes
  <2>2. offset \in Int /\ pushTime \in 0..23 /\ room = pushTime - offset
    BY <1>3, DeliveryAssumption, DatesAssumption DEF DeliveryInv, IInv, Named, RoomHour
  <2>3. now' \div 24 # NoDay
    BY <2>1, CalendarAssumption
  <2>4. pushTime - offset \in 0..23 => now' % 24 = pushTime - offset
    <3>1. now' \in Int
      BY <2>1
    <3> QED
      BY <1>3, <2>2, <3>1, SameHour
  <2> QED
    BY <2>1, <2>2, <2>3, <2>4
<1> QED
  BY <1>1, <1>2, <1>3, PTL DEF DeliverySpec, DailyUnlessWrapped

=============================================================================
