------------------------ MODULE PredictionScreenProofs ------------------------
(***************************************************************************)
(* PredictionScreen's invariants, for any screens, documents, zones,       *)
(* hours, errors of the device's clock and any number of loads.            *)
(*                                                                         *)
(* Two facts carry the argument.  A screen has one Firestore request in    *)
(* flight while it has no horoscopes and none afterwards, so that no       *)
(* answer can come twice (Open).  And the callback NtpCC holds is of a     *)
(* screen that has no time yet (Open, too), so that an answer of the time  *)
(* service never reaches a screen that shows "no connection" already.      *)
(***************************************************************************)
EXTENDS PredictionScreen, TLAPS

(* The types the argument needs.                                           *)
Shape ==
  /\ phase \in [Screens -> {"new", "open", "freed"}]
  /\ completed \in [Screens -> BOOLEAN]
  /\ time \in [Screens -> Int \cup {NoTime}]
  /\ fetched \in [Screens -> Documents \cup {NoDocument}]
  /\ DOMAIN tabs = Screens
  /\ noConnection \in [Screens -> BOOLEAN] /\ loading \in [Screens -> BOOLEAN]
  /\ fetches \in [Screens -> Nat]
  /\ callback \in Screens \cup {NoScreen}
  /\ blocks \in Nat

(* The types of the rest, which the other parts of the invariant do not    *)
(* depend on.                                                              *)
RestOK ==
  /\ sign \in [Screens -> Signs]
  /\ tabs \in [Screens -> SUBSET Tabs]
  /\ hasError \in BOOLEAN /\ timeoutSet \in BOOLEAN /\ crashed \in BOOLEAN
  /\ queries \in Nat /\ loads \in Nat
  /\ cache \subseteq Rows
  /\ stolen \subseteq Screens /\ crowded \subseteq Screens

(* What holds of one screen, by its phase.                                 *)
New(s) == fetches[s] = 0 /\ ~noConnection[s] /\ callback # s /\ fetched[s] = NoDocument

Open(s) ==
  /\ fetches[s] = IF completed[s] THEN 0 ELSE 1
  /\ loading[s] <=> ~(completed[s] /\ time[s] # NoTime)
  /\ noConnection[s] => completed[s] /\ time[s] # NoTime /\ tabs[s] = {}
  /\ callback = s => time[s] = NoTime

Phased == \A s \in Screens : /\ phase[s] = "new" => New(s)
                             /\ phase[s] = "open" => Open(s)

IInv == Shape /\ Phased /\ TimeWillCome

-------------------------------------------------------------------------------
(* Operators *)

LEMMA WantedIsDay == \A ti \in Int : WantedDay(ti, Zone, Zone) \in Int
<1> SUFFICES ASSUME NEW ti \in Int PROVE WantedDay(ti, Zone, Zone) \in Int
  OBVIOUS
<1>1. ti + Zone + Zone \in Int
  BY ScreenAssumption
<1> QED
  BY <1>1 DEF WantedDay, LocalDay

LEMMA KindsAreTabs == Tabs = {"yesterday", "today", "tomorrow", "week", "month", "year"}
<1>1. Titles = <<"yesterday", "today", "tomorrow", "week", "month", "year">> /\ Len(Titles) = 6
  BY DEF Titles
<1> QED
  BY <1>1 DEF Tabs

Entry(doc, e, z) == [type |-> Kind(e), date |-> doc.day[e], sign |-> z]

(* The table only grows, and holds every entry of a document it stored     *)
(* that no other sign's row keeps out.                                     *)
LEMMA CacheGrows ==
  ASSUME NEW doc \in Documents \cup {NoDocument}, NEW z, RestOK
  PROVE  /\ cache \subseteq Cached(doc, z)
         /\ doc # NoDocument /\ doc.day["today"] # NoDay /\ ~Crowded(doc, z) =>
              \A e \in Tabs : doc.day[e] # NoDay => Entry(doc, e, z) \in Cached(doc, z)
<1>1. cache \subseteq Cached(doc, z)
  BY DEF Cached, Written
<1>2. ASSUME doc # NoDocument, doc.day["today"] # NoDay, ~Crowded(doc, z),
             NEW e \in Tabs, doc.day[e] # NoDay
      PROVE  Entry(doc, e, z) \in Cached(doc, z)
  <2>1. Cached(doc, z) = Written(cache, doc, z)
    BY <1>2 DEF Cached
  <2>2. CASE \E r \in cache : r.type = Kind(e) /\ r.date = doc.day[e]
    <3>1. PICK r \in cache : r.type = Kind(e) /\ r.date = doc.day[e]
      BY <2>2
    <3>2. r.sign = z
      BY <1>2, <3>1 DEF Crowded
    <3>3. r = Entry(doc, e, z)
      <4>1. r \in Rows
        BY DEF RestOK
      <4> QED
        BY <4>1, <3>1, <3>2 DEF Entry, Rows
    <3> QED
      BY <1>1, <3>3
  <2>3. CASE ~\E r \in cache : r.type = Kind(e) /\ r.date = doc.day[e]
    <3>1. Entry(doc, e, z) \in Written(cache, doc, z)
      BY <1>2, <2>3 DEF Written, Entry
    <3> QED
      BY <3>1, <2>1
  <2> QED
    BY <2>2, <2>3
<1> QED
  BY <1>1, <1>2

-------------------------------------------------------------------------------
(* Steps *)

LEMMA InitIInv == Init => IInv
BY ScreenAssumption DEF Init, IInv, Shape, Phased, New, Open, TimeWillCome

(* A load starts both requests afresh.  It is made by a screen that has    *)
(* none in flight.                                                         *)
LEMMA LoadKeeps ==
  ASSUME IInv, NEW s \in Screens, LoadData(s), fetches[s] = 0,
         phase' \in [Screens -> {"new", "open", "freed"}], phase'[s] = "open",
         \A t \in Screens \ {s} : phase'[t] = phase[t],
         phase[s] = "new" => fetched[s] = NoDocument,
         phase[s] \in {"new", "open"}
  PROVE  IInv'
<1> USE DEF LoadData, AskTime
<1>1. Shape'
  <2>1. /\ completed' \in [Screens -> BOOLEAN] /\ loading' \in [Screens -> BOOLEAN]
        /\ noConnection' \in [Screens -> BOOLEAN]
    BY DEF IInv, Shape
  <2>2. time' \in [Screens -> Int \cup {NoTime}] /\ fetches' \in [Screens -> Nat]
    BY DEF IInv, Shape
  <2>3. callback' \in Screens \cup {NoScreen} /\ blocks' \in Nat
    BY DEF IInv, Shape
  <2> QED
    BY <2>1, <2>2, <2>3 DEF IInv, Shape
<1>2. /\ ~completed'[s] /\ time'[s] = NoTime /\ loading'[s] /\ ~noConnection'[s]
      /\ fetches'[s] = 1 /\ fetched' = fetched /\ callback' = s
  BY DEF IInv, Shape
<1>3. \A t \in Screens \ {s} :
        /\ phase'[t] = phase[t] /\ completed'[t] = completed[t] /\ time'[t] = time[t]
        /\ loading'[t] = loading[t] /\ noConnection'[t] = noConnection[t]
        /\ tabs'[t] = tabs[t] /\ fetches'[t] = fetches[t] /\ callback' # t
  BY DEF IInv, Shape
<1>4. Phased'
  <2> SUFFICES ASSUME NEW t \in Screens
               PROVE  (phase'[t] = "new" => New(t)') /\ (phase'[t] = "open" => Open(t)')
    BY DEF Phased
  <2>1. CASE t = s
    BY <2>1, <1>2 DEF New, Open
  <2>2. CASE t # s
    BY <2>2, <1>2, <1>3 DEF IInv, Phased, New, Open
  <2> QED
    BY <2>1, <2>2
<1>5. TimeWillCome'
  <2> SUFFICES ASSUME NEW t \in Screens, phase'[t] = "open", time'[t] = NoTime, t \notin stolen'
               PROVE  callback' = t /\ (timeoutSet' \/ blocks' > 0)
    BY DEF TimeWillCome
  <2>1. CASE t = s
    <3>1. timeoutSet' \/ blocks' > 0
      BY DEF IInv, Shape
    <3> QED
      BY <3>1, <2>1, <1>2
  <2>2. CASE t # s
    <3>1. phase[t] = "open" /\ time[t] = NoTime /\ t \notin stolen
      BY <2>2, <1>3
    <3>2. callback = t
      BY <3>1 DEF IInv, TimeWillCome
    <3>3. t \in stolen'
      BY <3>2, <2>2, ScreenAssumption
    <3> QED
      BY <3>3
  <2> QED
    BY <2>1, <2>2
<1> QED
  BY <1>1, <1>4, <1>5 DEF IInv

LEMMA OpenKeeps ==
  ASSUME IInv, NEW s \in Screens, OpenScreen(s)
  PROVE  IInv'
<1>1. fetches[s] = 0 /\ fetched[s] = NoDocument
  BY DEF OpenScreen, IInv, Phased, New
<1> QED
  BY <1>1, LoadKeeps DEF OpenScreen, IInv, Shape

LEMMA TapKeeps ==
  ASSUME IInv, NEW s \in Screens, NoConnectionTapped(s)
  PROVE  IInv'
<1>1. fetches[s] = 0
  BY DEF NoConnectionTapped, IInv, Phased, Open
<1> QED
  BY <1>1, LoadKeeps DEF NoConnectionTapped, IInv, Shape

LEMMA CloseKeeps ==
  ASSUME IInv, NEW s \in Screens, CloseScreen(s)
  PROVE  IInv'
<1> USE DEF CloseScreen, ntp
<1>1. Shape'
  BY DEF IInv, Shape
<1>2. \A t \in Screens : phase'[t] \in {"new", "open"} => phase[t] = phase'[t]
  BY DEF IInv, Shape
<1> QED
  BY <1>1, <1>2 DEF IInv, Phased, New, Open, TimeWillCome

(* Showing the tabs: the indicator goes, and a screen that showed no       *)
(* "no connection" shows it exactly without tabs.                          *)
LEMMA ProcessShows ==
  ASSUME Shape, NEW s \in Screens, NEW doc, NEW day, ~noConnection[s], Process(s, doc, day)
  PROVE  /\ DOMAIN tabs' = Screens
         /\ loading' \in [Screens -> BOOLEAN] /\ noConnection' \in [Screens -> BOOLEAN]
         /\ ~loading'[s] /\ (noConnection'[s] => tabs'[s] = {})
         /\ \A t \in Screens \ {s} : /\ tabs'[t] = tabs[t] /\ loading'[t] = loading[t]
                                     /\ noConnection'[t] = noConnection[t]
<1> DEFINE visible == IF doc = NoDocument THEN {} ELSE VisibleTabs(doc, day, Zone)
           none    == noConnection[s] \/ visible = {}
<1>1. /\ tabs' = [tabs EXCEPT ![s] = visible]
      /\ noConnection' = [noConnection EXCEPT ![s] = none]
      /\ loading' = [loading EXCEPT ![s] = FALSE]
  BY DEF Process
<1>2. none \in BOOLEAN /\ (none => visible = {})
  OBVIOUS
<1> HIDE DEF visible, none
<1> QED
  BY <1>1, <1>2 DEF Shape

(* The time's answer empties the slot.  The screen it reaches was waiting. *)
LEMMA DeliverKeeps ==
  ASSUME IInv, NEW ti \in Int, Deliver(ti), blocks' \in Nat
  PROVE  IInv'
<1>1. callback' = NoScreen /\ fetches' = fetches /\ stolen' = stolen
  BY DEF Deliver
<1>2. CASE callback = NoScreen \/ phase[callback] = "freed"
  <2>1. UNCHANGED screen
    BY <1>2 DEF Deliver, FreedModelUsed
  <2> USE <2>1 DEF screen
  <2>2. Shape'
    BY <1>1 DEF IInv, Shape
  <2>3. Phased'
    BY <1>1, ScreenAssumption DEF IInv, Phased, New, Open
  <2>4. TimeWillCome'
    BY <1>1, <1>2, ScreenAssumption DEF IInv, TimeWillCome
  <2> QED
    BY <2>2, <2>3, <2>4 DEF IInv
<1>3. CASE callback # NoScreen /\ phase[callback] # "freed"
  <2> DEFINE day == WantedDay(ti, Zone, Zone)
  <2>1. PICK s \in Screens : s = callback
    BY <1>3 DEF IInv, Shape
  <2>2. phase[s] = "open"
    BY <1>3, <2>1 DEF IInv, Shape, Phased, New
  <2>3. Open(s) /\ time[s] = NoTime /\ ~noConnection[s]
    BY <2>1, <2>2 DEF IInv, Phased, Open
  <2>4. day \in Int /\ day # NoTime
    BY WantedIsDay, ScreenAssumption
  <2>5. /\ time' = [time EXCEPT ![s] = day]
        /\ IF completed[s] THEN Process(s, fetched[s], day) ELSE NothingShown
        /\ UNCHANGED <<phase, sign, completed, fetched, crashed>>
    BY <1>3, <2>1 DEF Deliver, TimeAnswered
  <2> HIDE DEF day
  <2>6. /\ DOMAIN tabs' = Screens
        /\ loading' \in [Screens -> BOOLEAN] /\ noConnection' \in [Screens -> BOOLEAN]
        /\ completed[s] => ~loading'[s] /\ (noConnection'[s] => tabs'[s] = {})
        /\ ~completed[s] => loading'[s] = loading[s] /\ noConnection'[s] = noConnection[s]
        /\ \A t \in Screens \ {s} : /\ tabs'[t] = tabs[t] /\ loading'[t] = loading[t]
                                    /\ noConnection'[t] = noConnection[t]
    <3>1. CASE completed[s]
      BY <3>1, <2>3, <2>5, ProcessShows DEF IInv
    <3>2. CASE ~completed[s]
      BY <3>2, <2>5 DEF NothingShown, IInv, Shape
    <3> QED
      BY <3>1, <3>2
  <2>7. /\ time' \in [Screens -> Int \cup {NoTime}] /\ time'[s] = day
        /\ \A t \in Screens \ {s} : time'[t] = time[t]
    BY <2>4, <2>5 DEF IInv, Shape
  <2>8. Shape'
    BY <1>1, <2>5, <2>6, <2>7 DEF IInv, Shape
  <2>9. Phased'
    <3> SUFFICES ASSUME NEW t \in Screens
                 PROVE  (phase'[t] = "new" => New(t)') /\ (phase'[t] = "open" => Open(t)')
      BY DEF Phased
    <3>1. callback' # t /\ fetches' = fetches /\ fetched' = fetched
          /\ phase' = phase /\ completed' = completed
      BY <1>1, <2>5, ScreenAssumption
    <3>2. CASE t = s
      <4>1. Open(s)'
        BY <3>1, <3>2, <2>3, <2>4, <2>6, <2>7 DEF Open, IInv, Shape
      <4> QED
        BY <4>1, <3>1, <3>2, <2>2
    <3>3. CASE t # s
      BY <3>1, <3>3, <2>6, <2>7 DEF IInv, Phased, New, Open
    <3> QED
      BY <3>2, <3>3
  <2>10. TimeWillCome'
    <3> SUFFICES ASSUME NEW t \in Screens, phase'[t] = "open", time'[t] = NoTime, t \notin stolen'
                 PROVE  FALSE
      BY DEF TimeWillCome
    <3>1. t # s
      BY <2>4, <2>7
    <3>2. callback = t
      BY <3>1, <1>1, <2>5, <2>7 DEF IInv, TimeWillCome
    <3> QED
      BY <3>1, <3>2, <2>1
  <2> QED
    BY <2>8, <2>9, <2>10 DEF IInv
<1> QED
  BY <1>2, <1>3

(* Firestore's answer: the screen had no horoscopes, so it has no tabs of  *)
(* this load and no "no connection" either.                                *)
LEMMA FetchedKeeps ==
  ASSUME IInv, NEW s \in Screens, HoroscopesFetched(s)
  PROVE  IInv'
<1>1. PICK doc \in Documents \cup {NoDocument} :
        /\ cache' = Cached(doc, sign[s])
        /\ IF phase[s] = "freed" THEN FreedModelUsed
           ELSE /\ completed' = [completed EXCEPT ![s] = TRUE]
                /\ fetched' = [fetched EXCEPT ![s] = doc]
                /\ IF time[s] # NoTime THEN Process(s, doc, time[s]) ELSE NothingShown
                /\ UNCHANGED <<phase, sign, time, crashed>>
  BY DEF HoroscopesFetched
<1>2. /\ UNCHANGED <<ntp, stolen>> /\ fetches' \in [Screens -> Nat]
      /\ fetches[s] > 0 /\ fetches'[s] = fetches[s] - 1
      /\ \A t \in Screens \ {s} : fetches'[t] = fetches[t]
  BY DEF HoroscopesFetched, IInv, Shape
<1>4. CASE phase[s] = "freed"
  <2>1. UNCHANGED screen
    BY <1>1, <1>4 DEF FreedModelUsed
  <2> USE <2>1 DEF screen, ntp
  <2>2. Shape'
    BY <1>2 DEF IInv, Shape
  <2>3. Phased'
    BY <1>2, <1>4 DEF IInv, Phased, New, Open
  <2>4. TimeWillCome'
    BY <1>2 DEF IInv, TimeWillCome
  <2> QED
    BY <2>2, <2>3, <2>4 DEF IInv
<1>5. CASE phase[s] # "freed"
  <2>1. /\ completed' = [completed EXCEPT ![s] = TRUE]
        /\ fetched' = [fetched EXCEPT ![s] = doc]
        /\ IF time[s] # NoTime THEN Process(s, doc, time[s]) ELSE NothingShown
        /\ UNCHANGED <<phase, time>> /\ UNCHANGED ntp
    BY <1>1, <1>2, <1>5
  <2>2. phase[s] = "open"
    BY <1>2, <1>5 DEF IInv, Shape, Phased, New
  <2>3. Open(s) /\ ~completed[s] /\ ~noConnection[s] /\ fetches'[s] = 0
    <3>1. Open(s)
      BY <2>2 DEF IInv, Phased
    <3>2. ~completed[s]
      BY <3>1, <1>2 DEF Open
    <3> QED
      BY <3>1, <3>2, <1>2 DEF Open
  <2>4. /\ DOMAIN tabs' = Screens
        /\ loading' \in [Screens -> BOOLEAN] /\ noConnection' \in [Screens -> BOOLEAN]
        /\ time[s] # NoTime => ~loading'[s] /\ (noConnection'[s] => tabs'[s] = {})
        /\ time[s] = NoTime => loading'[s] = loading[s] /\ noConnection'[s] = noConnection[s]
        /\ \A t \in Screens \ {s} : /\ tabs'[t] = tabs[t] /\ loading'[t] = loading[t]
                                    /\ noConnection'[t] = noConnection[t]
    <3>1. CASE time[s] # NoTime
      BY <3>1, <2>1, <2>3, ProcessShows DEF IInv
    <3>2. CASE time[s] = NoTime
      BY <3>2, <2>1 DEF NothingShown, IInv, Shape
    <3> QED
      BY <3>1, <3>2
  <2>5. /\ completed' \in [Screens -> BOOLEAN] /\ completed'[s]
        /\ fetched' \in [Screens -> Documents \cup {NoDocument}] /\ fetched'[s] = doc
        /\ \A t \in Screens \ {s} : completed'[t] = completed[t] /\ fetched'[t] = fetched[t]
    BY <2>1 DEF IInv, Shape
  <2>6. Shape'
    BY <1>2, <2>1, <2>4, <2>5 DEF IInv, Shape, ntp
  <2>7. Phased'
    <3> SUFFICES ASSUME NEW t \in Screens
                 PROVE  (phase'[t] = "new" => New(t)') /\ (phase'[t] = "open" => Open(t)')
      BY DEF Phased
    <3>1. callback' = callback /\ phase' = phase /\ time' = time
      BY <2>1 DEF ntp
    <3>2. CASE t = s
      <4>1. Open(s)'
        BY <3>1, <2>3, <2>4, <2>5 DEF Open
      <4> QED
        BY <4>1, <3>1, <3>2, <2>2
    <3>3. CASE t # s
      <4>1. /\ fetches'[t] = fetches[t] /\ completed'[t] = completed[t]
            /\ fetched'[t] = fetched[t] /\ tabs'[t] = tabs[t]
            /\ loading'[t] = loading[t] /\ noConnection'[t] = noConnection[t]
        BY <3>3, <1>2, <2>4, <2>5
      <4>2. (phase[t] = "new" => New(t)) /\ (phase[t] = "open" => Open(t))
        BY DEF IInv, Phased
      <4>3. phase'[t] = "new" => New(t)'
        BY <4>1, <4>2, <3>1 DEF New
      <4>4. phase'[t] = "open" => Open(t)'
        BY <4>1, <4>2, <3>1 DEF Open
      <4> QED
        BY <4>3, <4>4
    <3> QED
      BY <3>2, <3>3
  <2>8. TimeWillCome'
    BY <1>2, <2>1 DEF IInv, TimeWillCome, ntp
  <2> QED
    BY <2>6, <2>7, <2>8 DEF IInv
<1> QED
  BY <1>4, <1>5

LEMMA LostKeeps ==
  ASSUME IInv, QueryLost
  PROVE  IInv'
BY DEF QueryLost, screen, IInv, Shape, Phased, New, Open, TimeWillCome

LEMMA StepKeeps == IInv /\ [Next]_vars => IInv'
<1> SUFFICES ASSUME IInv, [Next]_vars PROVE IInv'
  OBVIOUS
<1>1. CASE \E s \in Screens :
             OpenScreen(s) \/ NoConnectionTapped(s) \/ CloseScreen(s) \/ HoroscopesFetched(s)
  BY <1>1, OpenKeeps, TapKeeps, CloseKeeps, FetchedKeeps
<1>2. CASE TimeReported
  <2>1. PICK ti \in Int : Deliver(ti)
    BY <1>2, ScreenAssumption DEF TimeReported
  <2> QED
    BY <2>1, <1>2, DeliverKeeps DEF TimeReported, IInv, Shape
<1>3. CASE TimeoutFires
  <2>1. PICK ti \in Int : Deliver(ti)
    BY <1>3, ScreenAssumption DEF TimeoutFires
  <2> QED
    BY <2>1, <1>3, DeliverKeeps DEF TimeoutFires, IInv, Shape
<1>4. CASE BlockRuns
  <2>1. PICK ti \in Int : Deliver(ti)
    BY <1>4, ScreenAssumption DEF BlockRuns
  <2>2. blocks' \in Nat
    BY <1>4 DEF BlockRuns, IInv, Shape
  <2> QED
    BY <2>1, <2>2, DeliverKeeps
<1>5. CASE QueryLost
  BY <1>5, LostKeeps
<1>6. CASE UNCHANGED vars
  BY <1>6 DEF vars, screen, ntp, IInv, Shape, Phased, New, Open, TimeWillCome
<1> QED
  BY <1>1, <1>2, <1>3, <1>4, <1>5, <1>6 DEF Next

LEMMA Inductive == Spec => []IInv
BY InitIInv, StepKeeps, PTL DEF Spec

-------------------------------------------------------------------------------
(* The types of the rest *)

LEMMA RestInit == Init => RestOK
<1> SUFFICES ASSUME Init PROVE RestOK
  OBVIOUS
<1>1. hasError \in BOOLEAN /\ timeoutSet \in BOOLEAN /\ crashed \in BOOLEAN
  BY DEF Init
<1>2. queries \in Nat /\ loads \in Nat
  BY DEF Init
<1>3. sign \in [Screens -> Signs] /\ tabs \in [Screens -> SUBSET Tabs]
  BY DEF Init
<1> QED
  BY <1>1, <1>2, <1>3 DEF Init, RestOK

LEMMA RowsTyped ==
  ASSUME RestOK, NEW doc \in Documents \cup {NoDocument}, NEW z \in Signs
  PROVE  Cached(doc, z) \subseteq Rows
<1>1. CASE Cached(doc, z) = cache
  BY <1>1 DEF RestOK
<1>2. CASE Cached(doc, z) # cache
  <2>1. doc \in Documents /\ Cached(doc, z) = Written(cache, doc, z)
    BY <1>2 DEF Cached
  <2>2. doc.day \in [Tabs -> Int \cup {NoDay}]
    BY <2>1, ScreenAssumption
  <2>3. ASSUME NEW e \in Tabs, doc.day[e] # NoDay
        PROVE  Kind(e) \in {"day", "week", "month", "year"} /\ doc.day[e] \in Int
    BY <2>2, <2>3, KindsAreTabs DEF Kind
  <2>4. ASSUME NEW r \in Cached(doc, z) PROVE r \in Rows
    <3>1. CASE r \in cache
      BY <3>1 DEF RestOK
    <3>2. CASE r \notin cache
      <4>1. PICK e \in Tabs : /\ doc.day[e] # NoDay
                              /\ r = [type |-> Kind(e), date |-> doc.day[e], sign |-> z]
        BY <2>1, <2>4, <3>2 DEF Written
      <4> QED
        BY <4>1, <2>3 DEF Rows
    <3> QED
      BY <3>1, <3>2
  <2> QED
    BY <2>4
<1> QED
  BY <1>1, <1>2

LEMMA ProcessTyped ==
  ASSUME RestOK, NEW s \in Screens, NEW doc, NEW day, Process(s, doc, day)
  PROVE  tabs' \in [Screens -> SUBSET Tabs]
<1> DEFINE visible == IF doc = NoDocument THEN {} ELSE VisibleTabs(doc, day, Zone)
<1>1. tabs' = [tabs EXCEPT ![s] = visible]
  BY DEF Process
<1>2. visible \subseteq Tabs
  BY DEF VisibleTabs
<1> HIDE DEF visible
<1> QED
  BY <1>1, <1>2 DEF RestOK

LEMMA LoadRest ==
  ASSUME Shape, RestOK, NEW s \in Screens, LoadData(s)
  PROVE  RestOK'
<1>1. UNCHANGED <<sign, tabs, cache, crowded, crashed, hasError>>
  BY DEF LoadData, AskTime, table
<1>2. loads' \in Nat /\ queries' \in Nat
  BY DEF LoadData, AskTime, RestOK
<1>3. timeoutSet' \in BOOLEAN
  BY DEF LoadData, AskTime, RestOK
<1>4. stolen' \subseteq Screens
  BY DEF LoadData, AskTime, RestOK, Shape
<1> QED
  BY <1>1, <1>2, <1>3, <1>4 DEF RestOK

LEMMA DeliverRest ==
  ASSUME Shape, RestOK, NEW ti, Deliver(ti),
         hasError' \in BOOLEAN, timeoutSet' \in BOOLEAN, queries' \in Nat
  PROVE  RestOK'
<1>1. UNCHANGED <<cache, crowded, stolen, loads>>
  BY DEF Deliver, table
<1>2. sign' = sign /\ tabs' \in [Screens -> SUBSET Tabs] /\ crashed' \in BOOLEAN
  <2>1. CASE callback = NoScreen
    BY <2>1 DEF Deliver, screen, RestOK
  <2>2. CASE callback # NoScreen /\ phase[callback] = "freed"
    BY <2>2 DEF Deliver, FreedModelUsed, screen, RestOK
  <2>3. CASE callback # NoScreen /\ phase[callback] # "freed"
    <3> DEFINE day == WantedDay(ti, Zone, Zone)
    <3>1. callback \in Screens
      BY <2>3 DEF Shape
    <3>2. /\ UNCHANGED <<sign, crashed>>
          /\ IF completed[callback] THEN Process(callback, fetched[callback], day)
             ELSE NothingShown
      BY <2>3 DEF Deliver, TimeAnswered
    <3> HIDE DEF day
    <3>3. CASE completed[callback]
      <4>1. tabs' \in [Screens -> SUBSET Tabs]
        BY <3>1, <3>2, <3>3, ProcessTyped
      <4> QED
        BY <4>1, <3>2 DEF RestOK
    <3>4. CASE ~completed[callback]
      BY <3>2, <3>4 DEF NothingShown, RestOK
    <3> QED
      BY <3>3, <3>4
  <2> QED
    BY <2>1, <2>2, <2>3
<1> QED
  BY <1>1, <1>2 DEF RestOK

LEMMA FetchedRest ==
  ASSUME Shape, RestOK, NEW s \in Screens, HoroscopesFetched(s)
  PROVE  RestOK'
<1>1. PICK doc \in Documents \cup {NoDocument} :
        /\ cache' = Cached(doc, sign[s])
        /\ IF phase[s] = "freed" THEN FreedModelUsed
           ELSE /\ completed' = [completed EXCEPT ![s] = TRUE]
                /\ fetched' = [fetched EXCEPT ![s] = doc]
                /\ IF time[s] # NoTime THEN Process(s, doc, time[s]) ELSE NothingShown
                /\ UNCHANGED <<phase, sign, time, crashed>>
  BY DEF HoroscopesFetched
<1>2. UNCHANGED <<hasError, timeoutSet, queries, loads, stolen>>
  BY DEF HoroscopesFetched, ntp
<1>3. sign[s] \in Signs
  BY DEF RestOK
<1>4. cache' \subseteq Rows
  BY <1>1, <1>3, RowsTyped
<1>5. sign' = sign /\ tabs' \in [Screens -> SUBSET Tabs] /\ crashed' \in BOOLEAN
  <2>1. CASE phase[s] = "freed"
    BY <1>1, <2>1 DEF FreedModelUsed, screen, RestOK
  <2>2. CASE phase[s] # "freed" /\ time[s] # NoTime
    <3>1. tabs' \in [Screens -> SUBSET Tabs]
      BY <1>1, <2>2, ProcessTyped
    <3> QED
      BY <1>1, <2>2, <3>1 DEF RestOK
  <2>3. CASE phase[s] # "freed" /\ time[s] = NoTime
    BY <1>1, <2>3 DEF NothingShown, RestOK
  <2> QED
    BY <2>1, <2>2, <2>3
<1>6. crowded' \subseteq Screens
  BY DEF HoroscopesFetched, RestOK
<1> QED
  BY <1>2, <1>4, <1>5, <1>6 DEF RestOK

LEMMA RestKept == IInv /\ RestOK /\ [Next]_vars => RestOK'
<1> SUFFICES ASSUME IInv, RestOK, [Next]_vars PROVE RestOK'
  OBVIOUS
<1>1. Shape
  BY DEF IInv
<1>2. CASE \E s \in Screens : OpenScreen(s) \/ NoConnectionTapped(s)
  BY <1>1, <1>2, LoadRest DEF OpenScreen, NoConnectionTapped
<1>3. CASE \E s \in Screens : CloseScreen(s)
  BY <1>3 DEF CloseScreen, ntp, table, RestOK
<1>4. CASE \E s \in Screens : HoroscopesFetched(s)
  BY <1>1, <1>4, FetchedRest
<1>5. CASE TimeReported
  <2>1. PICK ti \in Hours : Deliver(ti)
    BY <1>5 DEF TimeReported
  <2>2. hasError' \in BOOLEAN /\ timeoutSet' \in BOOLEAN
    BY <1>5 DEF TimeReported, RestOK
  <2>3. queries' \in Nat
    BY <1>5 DEF TimeReported, RestOK
  <2> QED
    BY <1>1, <2>1, <2>2, <2>3, DeliverRest
<1>6. CASE QueryLost
  BY <1>6 DEF QueryLost, screen, table, RestOK
<1>7. CASE TimeoutFires \/ BlockRuns
  <2>1. PICK ti \in Hours, skew \in Skews : Deliver(ti + skew)
    BY <1>7 DEF TimeoutFires, BlockRuns
  <2>2. hasError' \in BOOLEAN /\ timeoutSet' \in BOOLEAN /\ queries' \in Nat
    BY <1>7 DEF TimeoutFires, BlockRuns, RestOK
  <2> QED
    BY <1>1, <2>1, <2>2, DeliverRest
<1>8. CASE UNCHANGED vars
  BY <1>8 DEF vars, screen, ntp, table, RestOK
<1> QED
  BY <1>2, <1>3, <1>4, <1>5, <1>6, <1>7, <1>8 DEF Next

LEMMA RestHolds == Spec => []RestOK
BY RestInit, RestKept, Inductive, PTL DEF Spec

-------------------------------------------------------------------------------
(* The table *)

(* A step that is not an answer of Firestore leaves the table alone, and a *)
(* screen it opens has no horoscopes yet.                                  *)
LEMMA StoredFrame ==
  ASSUME IInv, ShownIsStored, UNCHANGED <<sign, fetched, cache, crowded>>,
         \A t \in Screens : phase'[t] = "open" => phase[t] \in {"new", "open"}
  PROVE  ShownIsStored'
<1> SUFFICES ASSUME NEW t \in Screens, phase'[t] = "open", t \notin crowded,
                    fetched[t] # NoDocument, fetched[t].day["today"] # NoDay,
                    NEW e \in Tabs, fetched[t].day[e] # NoDay
             PROVE  [type |-> Kind(e), date |-> fetched[t].day[e], sign |-> sign[t]] \in cache
  BY DEF ShownIsStored
<1>1. phase[t] = "open"
  BY DEF IInv, Phased, New
<1> QED
  BY <1>1 DEF ShownIsStored

LEMMA StoredFetched ==
  ASSUME IInv, RestOK, ShownIsStored, NEW s \in Screens, HoroscopesFetched(s)
  PROVE  ShownIsStored'
<1>1. PICK doc \in Documents \cup {NoDocument} :
        /\ cache' = Cached(doc, sign[s])
        /\ crowded' = IF doc # NoDocument /\ Crowded(doc, sign[s])
                      THEN crowded \cup {s} ELSE crowded \ {s}
        /\ IF phase[s] = "freed" THEN FreedModelUsed
           ELSE /\ fetched' = [fetched EXCEPT ![s] = doc]
                /\ UNCHANGED <<phase, sign>>
  BY DEF HoroscopesFetched
<1>2. phase' = phase /\ sign' = sign
  BY <1>1 DEF FreedModelUsed, screen
<1>3. \A t \in Screens \ {s} : fetched'[t] = fetched[t] /\ (t \in crowded' <=> t \in crowded)
  <2>1. \A t \in Screens \ {s} : t \in crowded' <=> t \in crowded
    BY <1>1
  <2>2. \A t \in Screens \ {s} : fetched'[t] = fetched[t]
    BY <1>1 DEF FreedModelUsed, screen, IInv, Shape
  <2> QED
    BY <2>1, <2>2
<1>4. cache \subseteq cache'
  BY <1>1, CacheGrows
<1>5. phase[s] = "open" => fetched'[s] = doc
  BY <1>1 DEF IInv, Shape
<1> SUFFICES ASSUME NEW t \in Screens, phase[t] = "open", t \notin crowded',
                    fetched'[t] # NoDocument, fetched'[t].day["today"] # NoDay,
                    NEW e \in Tabs, fetched'[t].day[e] # NoDay
             PROVE  Entry(fetched'[t], e, sign[t]) \in cache'
  BY <1>2 DEF ShownIsStored, Entry
<1>6. CASE t = s
  <2>1. fetched'[s] = doc
    BY <1>5, <1>6
  <2>2. doc # NoDocument /\ doc.day["today"] # NoDay /\ ~Crowded(doc, sign[s])
    BY <2>1, <1>1, <1>6
  <2> QED
    BY <2>1, <2>2, <1>1, <1>6, CacheGrows
<1>7. CASE t # s
  <2>1. Entry(fetched[t], e, sign[t]) \in cache
    BY <1>3, <1>7 DEF ShownIsStored, Entry
  <2> QED
    BY <2>1, <1>3, <1>4, <1>7
<1> QED
  BY <1>6, <1>7

LEMMA StoredKept == IInv /\ RestOK /\ ShownIsStored /\ [Next]_vars => ShownIsStored'
<1> SUFFICES ASSUME IInv, RestOK, ShownIsStored, [Next]_vars PROVE ShownIsStored'
  OBVIOUS
<1>1. CASE \E s \in Screens : OpenScreen(s) \/ NoConnectionTapped(s)
  BY <1>1, StoredFrame DEF OpenScreen, NoConnectionTapped, LoadData, table, IInv, Shape
<1>2. CASE \E s \in Screens : CloseScreen(s)
  BY <1>2, StoredFrame DEF CloseScreen, table, IInv, Shape
<1>3. CASE \E s \in Screens : HoroscopesFetched(s)
  BY <1>3, StoredFetched
<1>4. ASSUME NEW ti, Deliver(ti) PROVE ShownIsStored'
  <2>1. UNCHANGED <<sign, fetched, phase, cache, crowded>>
    BY <1>4 DEF Deliver, FreedModelUsed, TimeAnswered, screen, table
  <2> QED
    BY <2>1, StoredFrame
<1>5. CASE TimeReported \/ TimeoutFires \/ BlockRuns
  BY <1>4, <1>5 DEF TimeReported, TimeoutFires, BlockRuns
<1>6. CASE QueryLost \/ UNCHANGED vars
  BY <1>6, StoredFrame DEF QueryLost, vars, screen, table
<1> QED
  BY <1>1, <1>2, <1>3, <1>5, <1>6 DEF Next

-------------------------------------------------------------------------------
(* Theorems *)

(* Every variable keeps its type: no row without a date or for a document  *)
(* that was not there is ever written to the horoscopes table, and what is *)
(* shown are tabs.                                                         *)
THEOREM TypeCorrect == Spec => []TypeOK
<1>1. Spec => []RestOK
  BY RestHolds
<1>2. Shape /\ RestOK => TypeOK
  BY DEF Shape, RestOK, TypeOK
<1>3. IInv => Shape
  BY DEF IInv
<1> QED
  BY <1>1, <1>2, <1>3, Inductive, PTL

(* The indicator of an open screen is there exactly while one of the two   *)
(* answers is missing, whatever order loadData's callbacks come in and     *)
(* whatever the other screens do.                                          *)
THEOREM BothAnswers == Spec => []LoadingUntilBoth
<1>1. IInv => LoadingUntilBoth
  BY DEF IInv, Phased, Open, LoadingUntilBoth
<1> QED
  BY <1>1, Inductive, PTL

(* No open screen has two Firestore requests in flight: only the button    *)
(* that a finished load shows can load again.                              *)
THEOREM OneAnswer == Spec => []OneFetch
<1>1. IInv => OneFetch
  BY DEF IInv, Phased, Open, OneFetch
<1> QED
  BY <1>1, Inductive, PTL

(* handleFetchedHoroscopes never shows tabs under "no connection".         *)
THEOREM Honest == Spec => []NoConnectionHonest
<1>1. IInv => NoConnectionHonest
  BY DEF IInv, Phased, Open, NoConnectionHonest
<1> QED
  BY <1>1, Inductive, PTL

(* An open screen without the time is the one NtpCC holds and wakes, or    *)
(* its callback was overwritten.                                           *)
THEOREM WillBeWoken == Spec => []TimeWillCome
BY Inductive, PTL DEF IInv

(* What a screen shows of a document with a text for today is in the table *)
(* as a text of its sign, unless writeHoroscope has found a row of another *)
(* sign in its place.                                                      *)
THEOREM Stored == Spec => []ShownIsStored
<1>1. Init => ShownIsStored
  BY DEF Init, ShownIsStored
<1> QED
  BY <1>1, StoredKept, Inductive, RestHolds, PTL DEF Spec

===============================================================================
