# Lucky Horoscopes: formal models

TLA+ models of the Horoscopes iOS application (`Horoscopes/`) and of its Node
server (`server/`), model-checked with TLC and proved about with TLAPS.  Paths
below are relative to the repository; `src/...` in this text is
`Horoscopes/src/...`.

1. The system and its components
2. Modules
3. Runs, bounds and fairness
4. Proofs
5. What the models show about the code
6. What is not modelled
7. Plan

## 1. The system

The application shows a horoscope for the user's zodiac sign for yesterday,
today, tomorrow, this week, month and year, and the horoscopes of Facebook
friends whose birthdays it reads from Facebook's pages.  A server copies the
texts of a horoscope site into Firestore and rebuilds one document per sign,
which the application reads; another job publishes the text of the day, hour by
hour, to rooms of a push service, and the application subscribes its device to
the room of the user's sign and hour.

| Component | Source | State it keeps | Operations | Talks to |
|---|---|---|---|---|
| Push settings and subscription | `src/managers/notifications`, `src/ios/NotificationsObjc`, `src/swift/PushNotificationsWrapper.swift`, `src/managers/settings`, `Horoscopes/Components/Sources` (SDK) | saved settings and the string last sent; `isRegistered`, `needsSubscribe`, `delayedRoomName`; requests in flight | send settings at checkpoints, device-token callback, completions of the SDK | push service, user defaults, screens |
| Friends loading | `src/managers/friendsprovider`, `src/managers/friendsmanager`, `src/managers/persondao`, `src/models/friendsscreenmodel`, `src/classes/rungtimer`, `FriendsViewController.mm` | the provider's request, retry timer and callbacks; the stored friends; the screen's list, current friend, header and alert | load the home and friends pages, request a friend's birthday, cancel, retry | web view, person database |
| Web view | `Horoscopes/classes/WebViewControllerImpl`, `src/ios/WebViewServiceObjc` | one completion, one service block, one wanted URL, the cached page, swiping | load a page, read it by a script, swipe for more friends, stop, login dialog | WKWebView, Facebook |
| Prediction screen | `src/models/predictionscreenmodel`, `PredictionViewController.mm`, `src/managers/horoscopesservice`, `src/managers/horoscopesparser`, `src/managers/horoscopedao` | timestamps, fetched horoscopes, tabs, "no connection"; the table of stored predictions | load, answer of the time service, answer of Firestore, retry, close | network time, Firestore, SQLite |
| Network time | `src/ios/NtpObjc` | one callback, an error flag, a scheduled timeout | query, report, timeout | NTP servers |
| Dates of predictions | `predictionscreenmodelimpl.cc`, `horoscopesparserimpl.cc`, `Platform.mm`, `horobase.cc` | none | the day each tab wants, the day each entry has | the two above |
| Storage updater (server) | `server/updater`, `server/common` | the parser's sign and text, pages and writes under way | download, parse and store sixty pages at fixed hours and at start | horoscope site, Firestore |
| Documents for the app (server) | `server/ttyupdater`, `server/common` | one global dictionary, reads and writes under way | read all texts of all signs, write one document per sign | Firestore |
| Pusher (server) | `server/pusher` | none | publish the text of the day to the rooms of an hour | Firestore, push service |
| Session and account | `src/models/{hello,account,menu}screenmodel`, `src/managers/loginmanager`, `src/data/person.cc`, `AppDelegate.mm` | the current person, in memory and as saved; the device token asked for; requests of screens that are gone | pick and change a birthday, login, logout, relaunch, send settings | Facebook SDK, user defaults, push settings |
| Dates and zodiac signs | `src/data/zodiac.cc`, `src/data/datewrapper.cc`, `src/managers/birthdaydetector` | none | sign of a date, date in a friend's birthday text | friends, session |
| Navigation | `src/managers/screensmanager`, `src/ios/ScreensManagerOBJC`, `BaseNavigationController.mm` | the stack, one slot for a completion | show a screen as the root, push one to stay, go back | all screens |

The rest is user interface, analytics, logging, the parsers of Facebook's pages,
retired server scripts, and vendored libraries.

**What is hard in it, and what makes each part correct.**

* *Push*: two queues share three fields without a lock; the settings are recorded
  as sent before anything is sent; requests overlap, are lost or refused; the
  process can be killed anywhere.  Correct: no wish to subscribe falls between
  the queues, and a device that is left alone ends in exactly the room of the
  settings recorded as sent.
* *Friends*: one web view with one completion slot serves three kinds of pages;
  a timer retries, cancelling leaves the timer, answers of replaced loads arrive
  late.  Correct: an answer is stored for the friend whose page was read, list
  and database agree, no indicator of a request that is over, a requested
  birthday is answered.
* *Prediction screen and network time*: two answers in any order, one callback
  slot for all screens, a timeout racing the answer.  Correct: tabs appear with
  the second answer and only then, "no connection" is honest, loading ends.
* *Dates*: the device's zone, its zone sixty days ahead, the server's zone and
  the server's update hours.  Correct: today's tab has a prediction, of a day as
  near as possible to the local date.
* *Server*: jobs that may overlap share module and global variables; exits and
  rejected promises.  Correct: a text is filed under its own sign and kind, an
  odd page does limited damage, jobs end.
* *Session, navigation*: a person in memory and a saved copy; one completion slot
  for all transitions; answers of logins and of friends' pages that arrive after
  the next action, or for a screen that is gone.  Correct: one root on the stack,
  and it is what was asked for; nobody without a sign; the person a relaunch loads
  and the settings recorded as sent are those of the current person.
* *Push, end to end*: a room named with an hour of the device, a pusher that runs by
  UTC.  Correct: the push comes at the hour asked for, with the text of that date.

## 2. Modules

### PushSubscription and PushContract (`MCPushSubscription`, `PushSubscriptionProofs`)

| Model | Code |
|---|---|
| `person`, `pushTime`, `disabled`, `sended`, `zone` | `components_->person_`, the three settings in the user defaults, `timezoneOffset()` |
| `isRegistered`, `needsSubscribe`, `delayedRoomName`, `subscribedToRoom` | fields of `PushNotificationsWrapper` |
| `main`, `blocks` / `cb` | main thread and main queue / callback queue of the SDK |
| `calls`, `interests` | HTTP requests in flight, rooms the service holds for the device |
| `unseen`, `MissEachOther` | the flags whose value before the other thread's write may still be read; both threads do so |
| `Checkpoint`, `DidRegister`, `PersonMissing`, `SettingsAlreadySent`, `SendDisabled`, `SendEnabled` | `sendSettingsIfNeeded` and `sendSettings` from the background and token callbacks and the screens |
| `MainCheck`, `MainEnqueue`, `RunBlock`, `CallbackCheck`, `CallbackEnqueue`, `...Completes` | `performSubscription`, `registered`, `handleSubscribedToRoom`, `unsubscribe` cut at each access to a shared field |
| `ServiceApplies`, `Lose`, `Refuse`, `Relaunch` | the service, the network, a kill and a new launch |

Handlers on one queue run to completion, so they are sequenced by `main` and
`cb`; steps of the two queues interleave at every shared access.  The flags have no
lock, and Swift gives no order between the queues: each thread may write its own flag
and read the other's old value.  `MissEachOther` is that outcome; any other stale
read has the outcome of an earlier one, which the interleaving covers.  A stale
`delayedRoomName` is not modelled: the string is written a request to the network
before another thread reads it.  Writes to the user defaults survive a kill: the system
keeps them outside the process.  `disturbed` is a history variable.

`PushContract` is the abstract specification: the rooms wanted, the rooms held,
and whether the device is `clean` (undisturbed) and `quiet`.  An undisturbed change
is `Request`, `Leave`, `Enter`, `Finish`, in this order.  `PushSubscription`
implements it (`KeepsContract`) under the mapping `want` = the room of the
settings recorded as sent, `held` = `interests`, `clean` = not `disturbed`, `quiet` =
nothing pending and no request of a subscription under way.

### WebView and FriendsLoad (`MCFriendsLoad`, `FriendsLoadProofs`)

`WebView` is a record with operations (`Load`, `Stop`, `RequestCompleted`, ...);
`FriendsLoad` keeps it in `web` and adds the provider (`timer`, `homeService`,
`asked`), the screen (`current`, `detached`, `rows`, `updating`, `header`,
`alert`, `tapped`) and the database (`db`).  Everything runs on the main thread: an action
is one tap, timer, callback of WKWebView or answer of a script, with everything
the handler calls.  A person is its status and the page the status came from
(`from`), which is what `OwnPage` is about.  Facebook and WKWebView are
external: `PageCommitted`, `PageLost`, `PageGrows`, `SignIn`.  `PageLost` is a
failure before the commit: WKWebView reports it to
`didFailProvisionalNavigation`, which the code does not implement, so nothing
happens.  `web.overlap` records that a load began before the previous one was
over.

A tap under a visible header only opens the "Cancel friends loading" alert
(`TapWhileLoading`); `tapped` is the person object the alert holds, and "yes"
(`CancelLoadAndSelect`) comes as a step of its own.  A list that arrives between the
two replaces the listed objects and leaves the alert open, so "yes" may request
an object of an earlier list (`tapped.old`).  A cell that is reloaded for such an
object shows it in place of the listed one if it is on the screen (`CellReloaded`).
`outlived` is a history variable: the friends asked for in that way since the list was
read.  Under an alert UIKit refuses to present the login dialog
(`"refused"`), though the web view counts it as presented.

### PredictionTabs, PredictionDates, PushDelivery (`MCPredictionDates`, `MCPushDelivery`, `DatesProofs`), PredictionScreen (`MCPredictionScreen`, `PredictionScreenProofs`)

`PredictionTabs` is the pure part: the day a tab wants, the local day an entry's
date falls on, which tabs are shown and which one the screen opens on.  Times are
hours and dates are days since the epoch; weeks are computed, the firsts of months
are a constant set.  The tabs shown are a set: their order is always that of
`Titles`, and `Index` is a tab's place in the row.
A document maps each entry to its day and has a set of blank texts; the year's
entry is never written by the server.

`PredictionDates` lets the clock, the device's zone and the server's document
move (`Tick`, `TravelTo`, `ServerRestarts`).  It takes every scheduled update to
rebuild the document at its hour.

`PushDelivery` extends `PredictionDates` by the push: `SendSettings` names a room
(`RoomHour`, with the half hours some zones have), each `HourPasses` runs the
pusher's job of that hour, which publishes the text of the UTC date if the server
has written it, and `Travel` moves the device while the room keeps its name.

`PredictionScreen` has the screens (`OpenScreen`, `NoConnectionTapped`,
`CloseScreen`), the answers (`TimeReported`, `QueryLost`, `TimeoutFires`,
`BlockRuns`, `HoroscopesFetched`) and the table `cache`.  A popped screen is
"freed": its callbacks hold a raw pointer, and an answer to a freed screen sets
`crashed`, after which any behaviour of the program is possible and none is
modelled.  `stolen` records the screens whose callback another one overwrote,
`crowded` those whose answer found a row of another sign in the place of one of its
own: `writeHoroscope` looks for a row by type and date only.

### ZodiacDates (`ZodiacProofs`)

The pure functions: `zodiacTypeByDate` with the limits of the signs, and
`timestampForDateString`, which reads the date in a friend's birthday for a list of
languages.  A text is a day, a year or none, and its words of three letters or more
(shorter ones the code does not compare); a language maps each month to the words
of that month's sample date.  `NinesRemain` says whether a year leaves a word of
nines behind, as only the digits 0 to 8 are removed.

### Session (`MCSession`, `SessionProofs`)

| Model | Code |
|---|---|
| `person`, `saved` | `components_->person_`, "currentPerson" in the user defaults; a person is its birthday and whether it has Facebook's data |
| `stack`, `slot`, `animating` | the navigation controller's screens, the completion `BaseNavigationController` holds (the position of the screen it makes the root), transitions that have not ended |
| `who` of a screen | the pointer comparison of `isCurrentModelEqualWithData`: "me" is the object `person_` points to, "old" one that was replaced |
| `orphans` | screens that are freed while a request of their model is under way |
| `Show`, `Push`, `DidShow`, `Back` | `pushViewController:` with a completion, without one, the end of transitions, back |
| `PickBirthday`, `ChangeBirthday`, `LogOut`, `Ask`, `LoggedIn`, `FriendAnswered`, `AnsweredEmpty`, `OrphanAnswered` | operations of the screens' models and the answers to their requests |
| `Send`, `Cover`, `SendsWhenFreed`, `TokenArrives`, `EnterBackground` | all places from which `sendSettingsIfNeeded` is called |
| `token` | requests for the device token: one at every launch, by the constructor of `NotificationsCC`, a second with the first prediction |

`DidShow` may end one transition or all, as UIKit reports an interrupted one once.
An answer for a freed model is undefined behaviour: the process dies
(`process = "freed"`), or the callback still finds its data and does some or all of
its work.  `sendSettingsIfNeeded` without a person is an assertion
(`process = "asserted"`); the token of the launch's request may arrive on the welcome
screen and end there too.  `asked`, `exposed`, `late` and `loggedOut` are history
variables, each for one property.

### ServerDates, StorageUpdater (`MCStorageUpdater`, `StorageUpdaterProofs`), TtyDocuments (`MCTtyDocuments`, `TtyDocumentsProofs`)

`ServerDates` maps a type to its kind and its date.  `StorageUpdater` has the
cycles and pages, the parser's variables `zodiacKey` and `textStorage`, the
writes in flight and the rows: `Boot`, `MakeJobs`, `NextPage`, `BodyNull`,
`PageArrives`, `ParseThrows`, `WriteDone`, `WriteRejected`.  A text carries the
sign, type and date it is about, so a row that is filed wrongly shows.  The class of
a page's body names its sign; it may be missing, which leaves the sign of the page
before, or empty, which makes `firestore.doc` throw when the row is written and the
page is forgotten.  `ParseThrows` may leave sign and text as they were or as this page
sets them.
`TtyDocuments` has the jobs, the reads and the writes in flight and the
`dictionary` they share: `CreateTTYHoroscopes`, `GetDocumentData`,
`ReadRejected`, `DocumentWritten`, `DocumentRejected`.  `Position` gives signs and
types their places in the code's arrays, and elements are taken in that order
(`First`).  In both, `Orders` covers the two ways async-arrays, which is not in the
repository, can hand out elements: all at once, or each when the last is done.  In `TtyDocuments` the library calls for the next element in the turn
of the last one's callback; a deferred call would allow no other outcome.

Definitions like `SendEnabled_WithoutPerson` or `KindOf_PerType` stand before the
definition they vary and are commented as planted faults.  Each is a plausible
mistake in that code, for which a property fails; no specification uses them.

## 3. Runs, bounds and fairness

| Run | Question | Instance |
|---|---|---|
| `push_safety` | Does a device left alone hold the room of its recorded settings, whatever happened before, and is `PushContract` kept? | 2 signs, 2 hours, 2 zones, 2 requests in flight, 3 changes, 1 token, 2 launches; flags missed, losses |
| `push_liveness` | Is a wish never lost, and do recorded settings reach the service? | 1 sign, 2 hours, 1 zone, 3 changes, 2 tokens, 1 launch; flags missed, a reliable network |
| `push_welcome` | violation, see section 5 | as small as it shows |
| `friends_safety` | Do list, database, indicators and header agree, are answers stored for their page? | 2 friends (one public), 2 timeouts, 3 taps, 2 faults |
| `friends_liveness` | Does swiping end, does a birthday come? | 2 taps, 2 faults, a session |
| `prediction_dates` | Which day is under each tab, which tab opens, which push comes when? | two days and two hours from 31 December 2017, by the hour; all zones from -12 to 14 in whole hours, with half an hour beside them for the push only; offset one hour off at most; push times 0 and 23 |
| `prediction_today_date` | violation, see section 5 | eight days, whole zones |
| `prediction_screen` | Do the two answers meet, does loading end? | 2 screens, 2 signs, 3 documents, device clock right or a day off, 3 loads |
| `server_updater` | What damage can an odd page do, do cycles end? | 2 pages of different kind and sign, 2 cycles, 2 days, 2 odd pages (without sign or text, with an empty sign, or thrown at) |
| `server_documents` | Are undisturbed documents right, are jobs forgotten? | 2 signs, 2 types, 2 jobs, a midnight, 1 failure |
| `documents_sign` | violation, see section 5 | same on one day, one sign after the other in the code's order |
| `session` | Is there one root, the one asked for, and do memory, saved copy and settings agree? | 2 launches, 6 steps of the user and of services, 2 birthdays to pick, Facebook's and friends' birthdays in the forms the code tells apart |

**Why the bounds are enough.**  *Push*: two requests in flight are two chains that
overlap; three changes allow settings to go back and forth between being sent,
and a second launch all that a kill can cut.  *Friends*: two friends
are the one asked and another; the retry ladder (13 timeouts in the code) is
two, which lets it be used, reset and run out; one growth of the friends page puts
the end of swiping off once, two scripts let an old answer meet a new one.
A timeout that comes before the answer counts as a fault: with more
faults than timeouts nothing more is tried and `BirthdayArrives` fails, which is
the code's intention.  *Prediction screen*: two screens share the one callback
slot, a third load is a retry after both; the documents differ in the three ways
the code looks at them (blank text, missing entry, no "today").  *Dates*: the two
days are the turn of a week, a month and a year; all zones are there, and the two
push times are next to midnight on either side, where an hour may or may not have
to be wrapped; the theorems of section 4 lift the bound on hours.  *Session*:
six steps are a login asked for, a screen shown over it, another one during that
transition, the answer, and what follows it; the second launch reads what the
first one saved.  `MCSession` also evaluates `timestampForDateString` on every date
of a year.  *Server*: an overlap takes two of everything; two odd pages are what is
needed for one to inherit from another.

Deadlock is not checked: each system rests when its user, its clock or its
bounded inputs do.

**Fairness.**  *Push*: weak fairness of both queues' steps and of the service;
strong fairness of `RunBlock`, because the main queue is first in, first out and
other handlers delay a block only finitely often.  None of the user, the token
callback, losses or relaunches.  *Friends*: timers of the run loop fire,
navigations go on unless they fail, scripts answer.  `BirthdayArrives` is
checked with a session: behind the login dialog the code waits for the
user.  *Prediction screen*: the timeout and the queued block run, Firestore's
completion is called (with an error if need be); a time query may be lost for
good.  *Storage updater*: the site and Firestore answer each page, if only with
a failure.  *Documents*: no liveness is claimed, as a rejected promise leaves the
job where it is; `JobInHand` says that nothing else does.

## 4. Proofs

Each module of proofs extends the module TLC checks, so that model and proof are
about the same definitions.  No proof bounds sets, counters or time.

**PushSubscription** (`PushSubscriptionProofs`), from the assumptions the module
declares on its sentinels:

* `TypeCorrect`: `Spec => []TypeOK`.
* `NeverLost`: `NoLostRequest`.  The argument is the handshake: each queue writes its
  own flag before it reads the other's, so at least one sees the other, unless both
  read before either write is seen.  The property excepts that one exchange
  (`Missed`) and nothing else; `MissEachOther` is a step of the specification it is
  proved for, and without the exception TLC finds the property false.  It is
  inductive together with the types.
* `Agreement`: `AgreesUnlessDisturbed`, with flags missed, lost and refused
  requests and kills.  The property speaks of settled states only, so it is far
  from inductive.  `IInv == TypeOK /\ WishRecorded /\ Phases` says what an
  undisturbed request looks like on the way: which room is in `delayedRoomName`,
  that exactly one piece of work is under way (`OneChain`) and how far the
  service is (`Unsubscribing`, `Subscribing`, `DisabledPhase`, `EnabledPhase`).
  One lemma per action shows that it starts a phase or continues one; the frame
  lemma `PhaseFrame` covers the steps that touch nothing of it.

* `Implements`: `PushSubscription` refines `PushContract`.  The invariant is
  `Agreement`'s `IInv` and `Untouched`: until settings are sent for the first time,
  the device is quiet and in no room.  Each action maps to one action of the
  contract or to a stutter.

**FriendsLoad**, with its web view (`FriendsLoadProofs`), for any friends, pages,
timeouts and bounds: `TypeCorrect`, `IndicatorOfRequest`, `ListIsStored`,
`SwipingHasHeader`, and the action property `ResultFromOwnPage`.  What each call of the
web view leaves (`LoadFacts`, `StopFacts`, `AnsweredFacts`, ...) is stated once.
The invariant has four parts, beside the facts of requests, beyond the properties:

* `Roles` says who may wait for an answer.  While the friends page is wanted no retry
  asks for a friend's page; whoever waits for one waits for that of the person asked
  for last, and if that person's object is of a replaced list, it is in `outlived`.
  So an answer that changes an object beside the list is always one of those
  `ListShowsStored` excepts.
* `Quiet`: nobody waits for a friend's page while friends load or the alert that
  would cancel it is open, so "yes" interrupts no other friend's request.
* `Indicators`: a request whose person object was replaced has no indicator left.
* `Reading`: a committed page is the document scripts see; with a load that began
  when the previous one was over they see no other, so what they read is of the
  friend the web service works for.  That is `OwnPage`.

**PredictionDates** (`DatesProofs`), for all hours, in the zones of the Earth
(`Earth`: -12 to 14, the offset sixty days ahead at most an hour off, server in UTC):
`WithinADay`, `Listed`, `OpensOnNearDay` and `Periods`.  The inductive invariant `IInv`
says which document the server has: the day's, or before two in the morning perhaps
that of the day before.  The rest is arithmetic of zones (`ListedDayOf`, `DayMoved`).
`Sought` is the date the entry under "today" must have; `SoughtNear` places it in the
document, and a tab is shown if the day it wants is there (`DayTabShown`).  For
`OpensOnNearDay` the tabs before a tab are counted (`Opened`): "yesterday" is missing
only while the document begins with what is under "today", and then "tomorrow", on
which the screen opens, shows the server's day.  `Periods` assumes of the calendar
that each day lies in a month longer than a day.

**PushDelivery** (`DatesProofs`), under `Earth`: `Arrival` and `Daily`, the action
properties about the push.  `DeliveryInv` adds to `IInv` that a fresh room has the
hour of the push time in the present zone, truncated as the code does it (`Named`).

**PredictionScreen** (`PredictionScreenProofs`), for any screens, documents, clocks
and loads: `TypeCorrect`, `BothAnswers`, `OneAnswer`, `Honest`, `WillBeWoken` and
`Stored`, the safety properties of the run.  Two facts make them inductive.  A screen has a
Firestore request in flight exactly while it has no horoscopes of this load, so none
answers twice; and the callback NtpCC holds is of a screen that has no time, so a
time never reaches one that already shows "no connection".  `Stored` needs besides
that rows are only added to the table (`CacheGrows`), and that a screen that is not
`crowded` met no row of another sign where its own go.

**StorageUpdater** (`StorageUpdaterProofs`), for any pages, any cycles, and
days each of which lies in a month: `TypeCorrect` and `DamageStaysLocal`.  The
damage is counted with that on its way: the rows misfiled in the storage and in the
writes under way are no more than the odd pages so far (`Damage`).  An ordinary page
sets sign and text before it is written, so it passes nothing on, and a stored row
replaces the one at its path, so it spoils no second one.  A row is written only
if the parser then has a sign, so every row has one; a page that throws is odd, and is
counted whatever it leaves behind (`ParsedType`).

**TtyDocuments** (`TtyDocumentsProofs`), for finite sets of jobs and signs and any
days in which each lies in a month: `TypeCorrect`, `OwnUndisturbed` and
`StopsAtRejection`.  The invariant says that a sign that reads has a read under way and
one that writes its document (`InHand`), that who reads undisturbed reads alone
(`ReadsAlone`), and that the dictionary then holds the answers to this sign's reads
(`Collected`).  `LastIsOnly` is where counting comes in: the code writes the document
when one read is left, and a sign whose last read this is not has another.  That the
entries are not dated before their texts rests on `DatesMove`: Mondays and firsts of
months never go back.

**Session** (`SessionProofs`), for any dates, languages and bounds, the seven safety
properties of its run.  A first invariant gives `TypeCorrect`, `RootedAtRest`,
`NobodyWithoutASign` and `RelaunchLoadsThePerson`.  It has the parts `Stacked` (what
the slot may refer to), `Known` (persons have signs, the saved one differs by
Facebook's data at most), `Settled` and `Alone` (before there is a person there is
only the welcome screen, and no transition).  A second one, inductive together with
it, gives `AskedForIsSeen`, `PointersTellSigns` and `SettingsFollowSign`: the screens
that will stay show the current sign (`Current`; those below the slot may not, and
are about to be removed), the completion that waits is the top's and the top is what
was asked for (`OnTop`), and the settings are those of the person unless an account
screen is there, which sends them when it is left (`Followed`).

**ZodiacDates** (`ZodiacProofs`): `OneSignPerDate`, `AlwaysASign`,
`NoSignBeyondTheYear`, `ReadsWhatIsWritten` and `ShortWordsAreJanuary`, which have no
state.

**Only model-checked**: liveness under fairness (`Converges`, `ListLoadEnds`,
`BirthdayArrives`, `LoadEnds`, `CycleEnds`), which is out of the prover's reach.  All
invariants and action properties of the runs are proved.

## 5. What the models show about the code

Three runs end in a counterexample, each against a statement of the repository:

* `push_welcome` (`PersonPresent`): going to the background on the welcome screen
  runs `sendSettingsIfNeeded` without a person, against the assertion in
  `notificationsimpl.cc:134`.  The device token, which every launch asks for, does
  the same when it arrives there.
* `prediction_today_date` (`TodayIsLocalDay`): the zone is added by hand and
  again by `localtime`.  From 21:00 in Moscow and from 5:00 in New York the tab
  "Today" shows tomorrow's prediction.
* `documents_sign` (`DocumentOfItsSign`): `dictionary` in `ttycreator.js` is
  global; two jobs that overlap write one sign's document with another's text.

Conditions that the properties had to be given also say something about the code:

* `AgreesUnlessDisturbed` excepts requests that overlap, a kill in the middle,
  failures of the network, disabling before the device is registered, and
  travelling; in each of these the device may stay in the wrong room for good.
  Settings count as sent before they are, so a relaunch does not try again.
* `DailyUnlessWrapped`: a room's hour is not wrapped around midnight.  A push time
  whose hour is on another date in UTC names a room below 0 or above 23, to which
  nothing is ever published.  The same omission is what keeps a push that does come
  on the right date (`ArrivesAsAsked`).  In zones with a half hour the room's hour is
  truncated, so the push is half an hour off.
* `OwnPage` excepts loads that begin while an answer is in flight: then a page can be
  taken for the next one, as no answer says which request it belongs to.
* `ListShowsStored` excepts a friend requested through an object of an earlier list,
  which the "Cancel friends loading" alert kept while the list was replaced
  (`FriendsViewController.mm:352-370`): the answer goes to the database and to that
  object, and the listed one stays without it until the list is read again.
* `NoLostRequest` and `Converges` except the exchange in which both threads read the
  other's flag before its write: the wish then waits until the
  settings change or the device registers again.
* A friend's request that was cancelled may still be answered, because the timer
  keeps running.
* `PeriodsListed`: west of UTC the tabs of the week and the month never appear.
* `OpensNearby`: the screen opens on the second tab there is.  Without "yesterday"
  that is "tomorrow".
* `LoadEnds` excepts a screen whose callback another screen overwrote: it waits
  for ever.  A screen popped while it loads leaves a dangling pointer behind.
* `ShownIsStored` excepts a screen that found another sign's row of the same type and
  date: its own entry is shown but never stored, since rows are found without the sign.
* `AskedIsOnTop` excepts a screen pushed without a completion during a transition: the
  completion of that transition makes the screen below it the root and removes it.
* `SavedIsCurrent` excepts logging out, which is not saved: a relaunch brings
  Facebook's data back.
* `SettingsFollow` excepts a login that is answered late, whose sign may not be sent
  until something else sends settings.
* Facebook's birthday has its month first, `Person` reads it day first: with a day
  after the twelfth no sign is found and the login fails, otherwise day and month are
  exchanged.  `ReadsWhatIsWritten` excepts years with three nines in a friend's
  birthday, `ShortWordsAreJanuary` says what a month of short words becomes.
* `DamageIsLocal` is a bound on the damage, not its absence: a page without its
  sign is filed under the sign set last, be it by a page whose parsing then threw.

## 6. What is not modelled

* The text of dates and pages: `Dated` keeps only whether a text has the form its
  type needs.  A daily text of May passes for a monthly one, since the name of
  that month is its abbreviation; this is left out.  Dates as text, the names of
  signs and months, and the cutting of a text to the length of a push are left out
  too.
* The parsers of Facebook's pages: a tree of HTML goes in, records come out, and no
  state is kept.  `FriendsLoad` takes their results from small sets.
* The friends screen's search: one completion that is pending and a table of
  results, beside the list `FriendsLoad` has.  Its results keep person objects of an
  earlier list as the alert does.
* The paging of predictions (`Tabs`, `HoroscopesCell`): the strip of tabs, the page
  and the page's animation.  A tab tapped again while the page animates is compared
  with the old page, page controllers are never cleared, and a strip with fewer than
  three tabs starts shifted.  It belongs to the screens of `PredictionScreen`, and its
  product with them is too large for the run that would hold it.
* The menu's own animation, the feedback mail, and the gestures of
  LGSideMenuController in `Session`; zones with three quarters of an hour.
  Half hours count for the push only: in the dates, which add the zone twice, they
  would shift the day's turn by up to an hour, as a change of the offset does.
* The offline branch of `HoroscopesServiceImpl` (`isOffline` is constant false).
* JSON, HTML and SQL, the rest of the user interface, analytics, logging, third-party
  code (most of the repository by size) and the retired scripts of the server.
* Exceptions thrown by the libraries, except where a handler of the code catches
  them and in the storage updater's pages.

## 7. Plan

Done: the modules and runs above, in the order push, friends, prediction, server,
then the contract of the push, its delivery, the signs and birthdays, and the
session with its navigation; proofs of every safety property of the runs.  Next,
in this order:

1. `Server`: `StorageUpdater` and `TtyDocuments` composed, a cycle's end starting a
   job; whether a document mixes texts of two days, checked and proved.
2. `RetryTimer`: `RungTimer` on its own, and `FriendsLoad`'s use of it as a
   refinement, with the step simulation proved as for `PushContract`.
3. The action properties the proofs use without saying so: a stored birthday is
   replaced by a later one only after a request.
4. `PredictionPager`: tabs and pages of one screen, after a reduction of
   `PredictionScreen` to what the pager sees.

The number of runs is kept at a dozen: a composition takes over the runs of the
modules it composes.
