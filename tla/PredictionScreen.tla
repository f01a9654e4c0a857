--------------------------- MODULE PredictionScreen ---------------------------
(***************************************************************************)
(* Prediction screens: each asks the shared time service and Firestore at  *)
(* the same time and shows its tabs when the second answer arrives.  The   *)
(* time service (NtpCC) has one callback slot for all screens, a timeout   *)
(* and an error flag that stays.  Callbacks hold a raw pointer to the      *)
(* screen's model, which is freed when the screen is popped.  All steps    *)
(* run on the main queue.                                                  *)
(***************************************************************************)
EXTENDS PredictionTabs, FiniteSets

CONSTANTS
  Screens,    \* prediction screens, each opened at most once
  Signs,      \* zodiac signs
  Documents,  \* documents Firestore may hold for a sign
  NoDocument, \* no snapshot, or a document that is not a prediction list
  NoScreen,   \* NtpCC's callback_ is null
  NoTime,     \* timestamps are 0
  Zone,       \* time zone of the device
  Hours,      \* times the clock of the time service can show
  Skews,      \* error of the device's clock, in hours
  MaxLoads    \* bound: calls of loadData

ASSUME ScreenAssumption ==
  /\ NoScreen \notin Screens /\ NoDocument \notin Documents /\ NoTime \notin Int
  /\ Zone \in Int /\ Hours \subseteq Int /\ Skews \subseteq Int /\ MaxLoads \in Nat
  /\ \A d \in Documents : d.day \in [Tabs -> Int \cup {NoDay}] /\ d.blank \subseteq Tabs

VARIABLES
  phase,       \* the screen: not opened yet, open, or popped and freed
  sign,        \* its zodiac sign
  completed,   \* requestCompleted_
  time,        \* today's local day, from the time's answer
  fetched,     \* the six horoscopes of the last answer
  tabs,        \* tabsTitles_
  noConnection,  \* showNoConnectionView
  loading,     \* the progress indicator is shown
  fetches,     \* Firestore requests in flight
  callback,    \* NtpCC callback_
  hasError,    \* NtpCC hasError_
  queries,     \* time queries in flight
  timeoutSet,  \* the timeout is scheduled
  blocks,      \* timeouts queued on the main queue because of hasError_
  cache,       \* rows of the horoscopes table: type, date and the sign of the text
  crowded,     \* history: screens whose answer found another sign's row in its place
  crashed,     \* a freed model was used
  stolen,      \* history: screens whose callback was overwritten
  loads        \* counter of the bound

screen  == <<phase, sign, completed, time, fetched, tabs, noConnection, loading>>
ntp     == <<callback, hasError, queries, timeoutSet, blocks>>
table   == <<cache, crowded>>
vars == <<screen, fetches, ntp, table, crashed, stolen, loads>>

-----------------------------------------------------------------------------
Init ==
  /\ phase = [s \in Screens |-> "new"]
  /\ sign \in [Screens -> Signs]
  /\ completed = [s \in Screens |-> FALSE]
  /\ time = [s \in Screens |-> NoTime]
  /\ fetched = [s \in Screens |-> NoDocument]
  /\ tabs = [s \in Screens |-> {}]
  /\ noConnection = [s \in Screens |-> FALSE]
  /\ loading = [s \in Screens |-> FALSE]
  /\ fetches = [s \in Screens |-> 0]
  /\ callback = NoScreen /\ hasError = FALSE
  /\ queries = 0 /\ timeoutSet = FALSE /\ blocks = 0
  /\ cache = {} /\ crowded = {} /\ crashed = FALSE /\ stolen = {} /\ loads = 0

-----------------------------------------------------------------------------
(* Opening and loading *)

(* getServerTimeWithCompletion overwrites the callback; after an error the *)
(* time server is not asked again.                                         *)
AskTime(s) ==
  /\ callback' = s
  /\ stolen' = IF callback \in {NoScreen, s} THEN stolen ELSE stolen \cup {callback}
  /\ IF hasError
     THEN blocks' = blocks + 1 /\ UNCHANGED <<queries, timeoutSet>>
     ELSE queries' = queries + 1 /\ timeoutSet' = TRUE /\ UNCHANGED blocks
  /\ UNCHANGED hasError

(* Fault planted in LoadData: requestCompleted_ is not reset.              *)
LoadData_KeepsCompleted(s) ==
  /\ ~crashed /\ loads < MaxLoads
  /\ loads' = loads + 1
  /\ time' = [time EXCEPT ![s] = NoTime]
  /\ loading' = [loading EXCEPT ![s] = TRUE]
  /\ noConnection' = [noConnection EXCEPT ![s] = FALSE]
  /\ fetches' = [fetches EXCEPT ![s] = @ + 1]
  /\ AskTime(s)
  /\ UNCHANGED <<sign, completed, fetched, tabs, table, crashed>>

(* loadData, with the view's progress indicator.                           *)
LoadData(s) ==
  /\ ~crashed /\ loads < MaxLoads
  /\ loads' = loads + 1
  /\ completed' = [completed EXCEPT ![s] = FALSE]
  /\ time' = [time EXCEPT ![s] = NoTime]
  /\ loading' = [loading EXCEPT ![s] = TRUE]
  /\ noConnection' = [noConnection EXCEPT ![s] = FALSE]
  /\ fetches' = [fetches EXCEPT ![s] = @ + 1]
  /\ AskTime(s)
  /\ UNCHANGED <<sign, fetched, tabs, table, crashed>>

(* The model loads as it is constructed, the view installs its callback in *)
(* the same turn of the run loop.                                          *)
OpenScreen(s) ==
  /\ phase[s] = "new"
  /\ phase' = [phase EXCEPT ![s] = "open"]
  /\ LoadData(s)

(* The "no connection" button of the view loads again.                     *)
NoConnectionTapped(s) ==
  /\ phase[s] = "open" /\ noConnection[s]
  /\ UNCHANGED phase
  /\ LoadData(s)

(* Popping the screen frees the model; nothing is cancelled.               *)
CloseScreen(s) ==
  /\ ~crashed /\ phase[s] = "open"
  /\ phase' = [phase EXCEPT ![s] = "freed"]
  /\ UNCHANGED <<sign, completed, time, fetched, tabs, noConnection, loading,
                 fetches, ntp, table, crashed, stolen, loads>>

-----------------------------------------------------------------------------
(* Answers *)

(* handleFetchedHoroscopes and the view's callback: the tabs of the        *)
(* document that match the time.  Without any, the view shows that there   *)
(* is no connection; with some, it does not take that back.                *)
Process(s, doc, day) ==
  LET visible == IF doc = NoDocument THEN {} ELSE VisibleTabs(doc, day, Zone)
  IN /\ tabs' = [tabs EXCEPT ![s] = visible]
     /\ noConnection' = [noConnection EXCEPT ![s] = @ \/ visible = {}]
     /\ loading' = [loading EXCEPT ![s] = FALSE]

NothingShown == UNCHANGED <<tabs, noConnection, loading>>

(* A callback of a freed model touches its memory: anything from nothing   *)
(* to a crash.                                                             *)
FreedModelUsed ==
  /\ crashed' \in BOOLEAN
  /\ UNCHANGED screen

(* Fault planted in TimeAnswered: the horoscopes are not waited for.       *)
TimeAnswered_AtOnce(s, ti) ==
  LET day == WantedDay(ti, Zone, Zone)
  IN /\ time' = [time EXCEPT ![s] = day]
     /\ Process(s, fetched[s], day)
     /\ UNCHANGED <<phase, sign, completed, fetched, crashed>>

(* The time's answer: if the horoscopes are there, they are shown.         *)
TimeAnswered(s, ti) ==
  LET day == WantedDay(ti, Zone, Zone)
  IN /\ time' = [time EXCEPT ![s] = day]
     /\ IF completed[s] THEN Process(s, fetched[s], day) ELSE NothingShown
     /\ UNCHANGED <<phase, sign, completed, fetched, crashed>>

(* NtpCC calls the callback it holds and cleans the slot.                  *)
Deliver(ti) ==
  /\ callback' = NoScreen
  /\ IF callback = NoScreen THEN UNCHANGED <<screen, crashed>>
     ELSE IF phase[callback] = "freed" THEN FreedModelUsed
     ELSE TimeAnswered(callback, ti)
  /\ UNCHANGED <<fetches, table, stolen, loads>>

(* reportFromDelegate: an answer of the time server, whoever asked for it. *)
TimeReported ==
  /\ ~crashed /\ queries > 0
  /\ queries' = queries - 1 /\ timeoutSet' = FALSE
  /\ \E ti \in Hours : Deliver(ti)
  /\ UNCHANGED <<hasError, blocks>>

QueryLost ==
  /\ ~crashed /\ queries > 0
  /\ queries' = queries - 1
  /\ UNCHANGED <<screen, fetches, callback, hasError, timeoutSet, blocks, table,
                 crashed, stolen, loads>>

(* Fault planted in TimeoutFires: the callback is forgotten.              *)
TimeoutFires_Silent ==
  /\ ~crashed /\ timeoutSet
  /\ timeoutSet' = FALSE /\ hasError' = TRUE
  /\ callback' = NoScreen
  /\ UNCHANGED <<screen, fetches, queries, blocks, table, crashed, stolen, loads>>

(* The timeout answers with the device's clock and sets hasError_ for good. *)
TimeoutFires ==
  /\ ~crashed /\ timeoutSet
  /\ timeoutSet' = FALSE /\ hasError' = TRUE
  /\ \E ti \in Hours, skew \in Skews : Deliver(ti + skew)
  /\ UNCHANGED <<queries, blocks>>

BlockRuns ==
  /\ ~crashed /\ blocks > 0
  /\ blocks' = blocks - 1 /\ hasError' = TRUE
  /\ \E ti \in Hours, skew \in Skews : Deliver(ti + skew)
  /\ UNCHANGED <<queries, timeoutSet>>

(* writeHoroscope: a row per type and date.  An existing row, of whatever  *)
(* sign, keeps its content.  The column "zodiac" tells nothing: documents  *)
(* have no field of that name, so it is 0 in every row.                    *)
Kind(e) == IF e \in {"yesterday", "today", "tomorrow"} THEN "day" ELSE e

(* Faults planted in Written: an entry the document lacks is written too;  *)
(* a row that is found gets the new text.                                  *)
Written_MissingToo(rows, doc, z) ==
  rows \cup {[type |-> Kind(e), date |-> doc.day[e], sign |-> z] : e \in Tabs}

Written_Replaces(rows, doc, z) ==
  LET new == {[type |-> Kind(e), date |-> doc.day[e], sign |-> z] :
                e \in {x \in Tabs : doc.day[x] # NoDay}}
  IN {r \in rows : ~\E n \in new : n.type = r.type /\ n.date = r.date} \cup new

Written(rows, doc, z) ==
  rows \cup {[type |-> Kind(e), date |-> doc.day[e], sign |-> z] :
               e \in {x \in Tabs : doc.day[x] # NoDay
                                   /\ ~\E r \in rows : r.type = Kind(x) /\ r.date = doc.day[x]}}

(* In the place of an entry for the sign z, writeHoroscope finds a row     *)
(* with a text of another sign.                                            *)
Crowded(doc, z) ==
  \E e \in Tabs, r \in cache :
    doc.day[e] # NoDay /\ r.type = Kind(e) /\ r.date = doc.day[e] /\ r.sign # z

(* Only a document with a prediction for today is stored.                  *)
Cached(doc, z) ==
  IF doc = NoDocument \/ doc.day["today"] = NoDay THEN cache ELSE Written(cache, doc, z)

(* Firestore's answer: stored, then shown if the time is there.            *)
HoroscopesFetched(s) ==
  /\ ~crashed /\ fetches[s] > 0
  /\ fetches' = [fetches EXCEPT ![s] = @ - 1]
  /\ \E doc \in Documents \cup {NoDocument} :
       /\ cache' = Cached(doc, sign[s])
       /\ crowded' = IF doc # NoDocument /\ Crowded(doc, sign[s])
                     THEN crowded \cup {s} ELSE crowded \ {s}
       /\ IF phase[s] = "freed" THEN FreedModelUsed
          ELSE /\ completed' = [completed EXCEPT ![s] = TRUE]
               /\ fetched' = [fetched EXCEPT ![s] = doc]
               /\ IF time[s] # NoTime THEN Process(s, doc, time[s]) ELSE NothingShown
               /\ UNCHANGED <<phase, sign, time, crashed>>
  /\ UNCHANGED <<ntp, stolen, loads>>

-----------------------------------------------------------------------------
Next ==
  \/ \E s \in Screens :
       OpenScreen(s) \/ NoConnectionTapped(s) \/ CloseScreen(s) \/ HoroscopesFetched(s)
  \/ TimeReported \/ QueryLost \/ TimeoutFires \/ BlockRuns

Spec == Init /\ [][Next]_vars

(* The run loop fires timeouts and queued blocks, and Firestore answers    *)
(* every request, if only with an error; a time query may be lost.         *)
Fairness ==
  /\ WF_vars(TimeoutFires) /\ WF_vars(BlockRuns)
  /\ \A s \in Screens : WF_vars(HoroscopesFetched(s))

FairSpec == Spec /\ Fairness

-----------------------------------------------------------------------------
(* Type invariant.                                                         *)
Rows == [type : {"day", "week", "month", "year"}, date : Int, sign : Signs]

TypeOK ==
  /\ phase \in [Screens -> {"new", "open", "freed"}]
  /\ sign \in [Screens -> Signs]
  /\ completed \in [Screens -> BOOLEAN]
  /\ time \in [Screens -> Int \cup {NoTime}]
  /\ fetched \in [Screens -> Documents \cup {NoDocument}]
  /\ tabs \in [Screens -> SUBSET Tabs]
  /\ noConnection \in [Screens -> BOOLEAN] /\ loading \in [Screens -> BOOLEAN]
  /\ fetches \in [Screens -> Nat]
  /\ callback \in Screens \cup {NoScreen}
  /\ hasError \in BOOLEAN /\ timeoutSet \in BOOLEAN
  /\ queries \in Nat /\ blocks \in Nat /\ loads \in Nat
  /\ cache \subseteq Rows
  /\ crashed \in BOOLEAN /\ stolen \subseteq Screens /\ crowded \subseteq Screens

(* The progress indicator of an open screen is there exactly while one of  *)
(* the two answers of the last load is missing, whichever comes first.     *)
LoadingUntilBoth ==
  \A s \in Screens :
    phase[s] = "open" => (loading[s] <=> ~(completed[s] /\ time[s] # NoTime))

(* An open screen never has two Firestore requests in flight, so the       *)
(* answer of an earlier load cannot be taken for that of a later one.      *)
OneFetch == \A s \in Screens : phase[s] = "open" => fetches[s] <= 1

(* "No connection" is shown only by a screen without predictions, although *)
(* no answer with predictions takes it back.                               *)
NoConnectionHonest ==
  \A s \in Screens : phase[s] = "open" /\ noConnection[s] => tabs[s] = {}

(* A screen waits for the time only while NtpCC holds its callback and     *)
(* will be woken up, unless another screen has overwritten the callback.   *)
TimeWillCome ==
  \A s \in Screens :
    phase[s] = "open" /\ time[s] = NoTime /\ s \notin stolen =>
      callback = s /\ (timeoutSet \/ blocks > 0)

(* What a screen shows of a document with a text for today is and stays in *)
(* the table under its type and date, as a text of the screen's sign,      *)
(* whatever other screens store, unless another sign's row was in its      *)
(* place: rows are found without the sign, so the entry is never written.  *)
ShownIsStored ==
  \A s \in Screens :
    /\ phase[s] = "open" /\ s \notin crowded
    /\ fetched[s] # NoDocument /\ fetched[s].day["today"] # NoDay
    => \A e \in Tabs : fetched[s].day[e] # NoDay =>
         [type |-> Kind(e), date |-> fetched[s].day[e], sign |-> sign[s]] \in cache

(* A screen that is loading shows its tabs or that there is no connection, *)
(* unless it is popped or another screen takes its callback.               *)
LoadEnds ==
  \A s \in Screens :
    loading[s] ~> ~loading[s] \/ phase[s] = "freed" \/ s \in stolen \/ crashed

=============================================================================
