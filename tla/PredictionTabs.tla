---------------------------- MODULE PredictionTabs ----------------------------
(***************************************************************************)
(* Which prediction stands under which tab (PredictionScreenModelImpl).    *)
(* Times are hours since the epoch, dates are days since the epoch.  The   *)
(* date of a prediction is midnight UTC of its day.                        *)
(***************************************************************************)
EXTENDS Integers, Sequences, FiniteSets

CONSTANTS
  MonthStarts,  \* the days that are the first of a month
  NoDay         \* a prediction the document does not have

ASSUME CalendarAssumption == MonthStarts \subseteq Int /\ NoDay \notin Int

Titles == <<"yesterday", "today", "tomorrow", "week", "month", "year">>
Tabs   == {Titles[i] : i \in 1..Len(Titles)}

(* std::localtime: the calendar day of a time on a device in zone z, a     *)
(* zone of whole hours.                                                    *)
LocalDay(time, z) == (time + z) \div 24

(* Fault planted in WantedDay: the zone is left out.                       *)
WantedDay_Utc(time, offset, z) == time \div 24

(* loadData adds timezoneOffset() to the time and converts the sum with    *)
(* localtime, which adds the zone again.                                   *)
WantedDay(time, offset, z) == LocalDay(time + offset, z)

(* Fault planted in ListedDay: the date is taken as a local one.           *)
ListedDay_Local(day, z) == (24 * day - z) \div 24

(* hasHoroscopeWithDate takes the local day of midnight UTC.               *)
ListedDay(day, z) == LocalDay(24 * day, z)

(* Day 4 of the epoch was a Monday.                                        *)
Monday(day) == day - ((day + 3) % 7)

FirstOfMonth(day) ==
  CHOOSE m \in MonthStarts : m <= day /\ \A n \in MonthStarts : n <= day => n <= m

(* The day a tab wants, as a function of today.                            *)
WantedFor(tab, today) ==
  CASE tab = "yesterday" -> today - 1
    [] tab = "today"     -> today
    [] tab = "tomorrow"  -> today + 1
    [] tab = "week"      -> Monday(today)
    [] tab = "month"     -> FirstOfMonth(today)

(* Each tab looks for its day among the entries of its kind.               *)
Candidates(tab) ==
  IF tab \in {"week", "month"} THEN {tab} ELSE {"yesterday", "today", "tomorrow"}

(* A document maps every kind of entry to the day it is dated; the text of *)
(* some entries may be blank.  Below a tab stands the entry of its day; the *)
(* year's entry is not compared with anything.                             *)
Legible(doc) == {e \in Tabs : doc.day[e] # NoDay /\ e \notin doc.blank}

Matches(tab, doc, today, z) ==
  IF tab = "year" THEN Legible(doc) \cap {"year"}
  ELSE {e \in Candidates(tab) \cap Legible(doc) :
          ListedDay(doc.day[e], z) = WantedFor(tab, today)}

(* The tabs that have an entry.  They are shown in the order of Titles.    *)
VisibleTabs(doc, today, z) == {tab \in Tabs : Matches(tab, doc, today, z) # {}}

(* Where a tab is in the row of the tabs shown, counted from zero.         *)
Place(tab) == CHOOSE i \in 1..Len(Titles) : Titles[i] = tab
Index(tab, tabs) == Cardinality({t \in tabs : Place(t) < Place(tab)})

(* Fault planted in OpenedTab: the index counts from one.                  *)
OpenedTab_FromOne(tabs) == {tab \in tabs : Index(tab, tabs) = 2}

(* kTodayTabIndex: the second tab is selected, whatever it is.             *)
OpenedTab(tabs) == {tab \in tabs : Index(tab, tabs) = 1}

(* dateToDateString of each type on a day of the server: createTTYDocument *)
(* is never given a text for the year.                                     *)
DocumentOf(day) ==
  [day |-> [yesterday |-> day - 1, today |-> day, tomorrow |-> day + 1,
            week |-> Monday(day), month |-> FirstOfMonth(day), year |-> NoDay],
   blank |-> {}]

=============================================================================
