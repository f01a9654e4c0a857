----------------------------- MODULE FriendsLoad -----------------------------
(***************************************************************************)
(* Loading friends and their birthdays from Facebook pages: the friends    *)
(* screen and its model, FriendsManagerImpl, FacebookFriendsProvider with  *)
(* its RungTimer, and the one WebView they share.  Everything runs on the  *)
(* main thread: a step is one callback, one timer or one tap, and the      *)
(* hazards are in what is still in flight when the next one runs.          *)
(***************************************************************************)
EXTENDS WebView

CONSTANTS
  NoFriend,   \* null person
  Public,     \* friends whose detail page shows a birthday
  Rungs,      \* length of getTimeouts() (13 in the code)
  Sessions,   \* whether the user may start with a Facebook session
  MaxTaps,    \* bound: taps on the screen
  MaxFaults   \* bound: failed loads and retries before an answer

ASSUME FriendsAssumption ==
  NoFriend \notin Locations /\ Public \subseteq Friends /\ Sessions \subseteq BOOLEAN
ASSUME FriendsBoundAssumption ==
  Rungs \in Nat \ {0} /\ MaxTaps \in Nat /\ MaxFaults \in Nat

VARIABLES
  web,          \* the web view
  session,      \* Facebook knows the user
  timer,        \* responseTimeoutTimer_: page to load again, timeouts left
  homeService,  \* the provider's serviceBlock_ is set
  asked,        \* person of userInformationCompletion_
  current,      \* currentPerson_
  detached,     \* the person object asked for is not the listed one
  rows,         \* the listed persons: status and the page it came from
  updating,     \* listed persons with an activity indicator
  db,           \* the persons table
  header,       \* state of the header view
  alert,        \* which alert is shown
  tapped,       \* the person object held by the "Cancel friends loading" alert
  outlived,     \* history: friends requested through an object of an earlier list
  taps, faults  \* counters of the bounds

provider == <<timer, homeService, asked>>
list     == <<rows, db, outlived>>
alerts   == <<alert, tapped>>
screen   == <<current, detached, updating, alerts>>
bounds   == <<taps, faults>>
vars == <<web, session, provider, list, screen, header, bounds>>

-----------------------------------------------------------------------------
Ready   == [status |-> "ready", from |-> NoFriend]
Absent  == [status |-> "absent", from |-> NoFriend]
Persons == {Ready, Absent} \cup [status : {"completed", "failed"}, from : Locations]

(* A person object the user has tapped: it was listed at that time, and    *)
(* may be the object that was asked for.                                   *)
Objects == [friend : Friends, status : {"ready", "completed", "failed"},
            old : BOOLEAN, asked : BOOLEAN]
Nobody  == [friend |-> NoFriend, status |-> "absent", old |-> FALSE, asked |-> FALSE]
Listed(f) == [friend |-> f, status |-> rows[f].status, old |-> FALSE,
              asked |-> asked = f /\ ~detached]

Timers  == [page : Friends \cup {Home}, left : 0..Rungs]
NoTimer == [page |-> Home, left |-> 0]

(* The header is hidden and the loading cancelled if it was visible.       *)
HeaderClosed(w) == IF header = "invisible" THEN w ELSE Stop(w)

Init ==
  /\ web = IdleWebView
  /\ session \in Sessions
  /\ timer = NoTimer /\ homeService = FALSE /\ asked = NoFriend
  /\ current = NoFriend /\ detached = FALSE /\ updating = {}
  /\ db \in {[f \in Friends |-> Absent], [f \in Friends |-> Ready]}
  /\ rows = db
  /\ header = "invisible" /\ alert = "none" /\ tapped = Nobody /\ outlived = {}
  /\ taps = 0 /\ faults = 0

-----------------------------------------------------------------------------
(* The user *)

Tap ==
  /\ taps < MaxTaps /\ alert = "none" /\ web.dialog # "shown"
  /\ taps' = taps + 1
  /\ UNCHANGED <<session, faults>>

(* "Update friends": a retry timer and the home page.                      *)
UpdateFriends ==
  /\ Tap
  /\ header' = "authorizing"
  /\ timer' = [page |-> Home, left |-> Rungs]
  /\ homeService' = TRUE
  /\ web' = Load(web, Home, "home", FALSE)
  /\ UNCHANGED <<asked, list, screen>>

(* reloadCellWithPerson: a visible cell of the same friend takes the       *)
(* object it is called with, which may be one of an earlier list.          *)
CellReloaded(f, person, old, busy) ==
  /\ detached' \in (IF old THEN BOOLEAN ELSE {FALSE})
  /\ rows' = IF detached' THEN rows ELSE [rows EXCEPT ![f] = person]
  /\ updating' = IF busy /\ ~detached' THEN updating \cup {f} ELSE updating \ {f}

(* personSelected, with the object o and the web view w.  A friend that    *)
(* needs no request: nothing to load.                                      *)
SelectFinished(o, w) ==
  /\ o.status \in {"completed", "failed"}
  /\ web' = w /\ alert' = "none"
  /\ UNCHANGED <<provider, list, current, detached, updating>>

(* Another object's request is running (o is the current object if it is   *)
(* the one asked for): the user is asked whether to cancel that request.   *)
SelectBusy(o, w) ==
  /\ o.status = "ready" /\ current # NoFriend /\ ~o.asked
  /\ web' = w /\ alert' = "birthday"
  /\ CellReloaded(current, Ready, detached, TRUE)
  /\ UNCHANGED <<provider, db, outlived, current>>

(* Otherwise the friend's detail page is requested, with a retry timer.    *)
SelectFriend(o, w) ==
  /\ o.status = "ready" /\ (current = NoFriend \/ o.asked)
  /\ current' = o.friend /\ asked' = o.friend
  /\ CellReloaded(o.friend, Ready, o.old, TRUE)
  /\ outlived' = IF o.old THEN outlived \cup {o.friend} ELSE outlived
  /\ timer' = [page |-> o.friend, left |-> Rungs]
  /\ web' = Load(w, o.friend, "detail", TRUE) /\ alert' = "none"
  /\ UNCHANGED <<homeService, db>>

PersonSelected(o, w) == SelectFinished(o, w) \/ SelectBusy(o, w) \/ SelectFriend(o, w)

(* didSelectPerson: a tap on a friend selects the listed object...         *)
TapFriend(f) ==
  /\ Tap /\ header = "invisible" /\ rows[f].status # "absent"
  /\ PersonSelected(Listed(f), web)
  /\ UNCHANGED <<header, tapped>>

(* ...unless the header is visible: the "Cancel friends loading" alert     *)
(* holds the object until it is answered, whatever the list becomes.       *)
TapWhileLoading(f) ==
  /\ Tap /\ header # "invisible" /\ rows[f].status # "absent"
  /\ alert' = "loading" /\ tapped' = Listed(f)
  /\ UNCHANGED <<web, provider, list, current, detached, updating, header>>

(* The alert's "yes": the loading is cancelled and the object selected.    *)
CancelLoadAndSelect ==
  /\ alert = "loading" /\ tapped' = Nobody
  /\ header' = "invisible"
  /\ PersonSelected(tapped, Stop(web))
  /\ UNCHANGED <<session, bounds>>

(* The cancel button of the header.                                        *)
CancelFriendsLoad ==
  /\ Tap /\ header # "invisible"
  /\ header' = "invisible"
  /\ web' = Stop(web)
  /\ UNCHANGED <<provider, list, screen>>

(* Fault planted in CancelBirthdayLoad: the activity indicator stays.      *)
CancelBirthdayLoad_KeepsUpdating ==
  /\ alert = "birthday" /\ alert' = "none"
  /\ web' = Stop(web)
  /\ current' = NoFriend
  /\ UNCHANGED <<session, provider, list, detached, updating, tapped, header, bounds>>

(* The other alert's "yes": cancelOperation(CancelFriendBirthdayLoad).     *)
CancelBirthdayLoad ==
  /\ alert = "birthday" /\ alert' = "none"
  /\ web' = Stop(web)
  /\ IF current = NoFriend THEN UNCHANGED <<rows, detached, updating>>
     ELSE CellReloaded(current, Ready, detached, FALSE)
  /\ current' = NoFriend
  /\ UNCHANGED <<session, provider, db, outlived, tapped, header, bounds>>

(* "No", in either alert.                                                  *)
KeepLoading ==
  /\ alert # "none" /\ alert' = "none" /\ tapped' = Nobody
  /\ UNCHANGED <<web, session, provider, list, current, detached, updating,
                 header, bounds>>

(* The login dialog is closed, or the user signs in and the site goes on   *)
(* to the page that was asked for.                                         *)
CloseDialog ==
  /\ web.dialog = "shown"
  /\ header' = "invisible"
  /\ web' = WithDialog(Stop(web), "hidden")
  /\ UNCHANGED <<session, provider, list, screen, bounds>>

SignIn ==
  /\ web.dialog = "shown" /\ web.url = Login /\ web.nav = "none"
  /\ session' = TRUE
  /\ web' = [web EXCEPT !.nav = "loading", !.url = web.working, !.own = FALSE]
  /\ UNCHANGED <<provider, list, screen, header, bounds>>

-----------------------------------------------------------------------------
(* The web view's delegate *)

(* A dialog message reaches the provider's block, which ends the retries.  *)
ServiceMessage ==
  IF web.service /\ homeService
  THEN timer' = NoTimer /\ homeService' = FALSE
  ELSE UNCHANGED <<timer, homeService>>

HideDialog(w) ==
  IF w.dialog # "hidden" THEN ServiceMessage ELSE UNCHANGED <<timer, homeService>>

CanRead == Len(web.scripts) < MaxScripts
Network == UNCHANGED <<session, asked, list, screen>>

(* Fault planted in PageResponds: forceDidFinishNavigation is ignored.     *)
PageResponds_NotForced ==
  /\ web.nav = "loading" /\ CanRead
  /\ LET w == [web EXCEPT !.late = FALSE, !.url = IF session THEN @ ELSE Login]
     IN IF w.url = Login
        THEN /\ web' = [w EXCEPT !.nav = "received"]
             /\ UNCHANGED <<timer, homeService>>
        ELSE /\ \E r \in ReadPage(WithDialog(w, "hidden")) :
                  web' = [r EXCEPT !.nav = "received"]
             /\ HideDialog(w)
  /\ Network /\ UNCHANGED <<header, bounds>>

(* decidePolicyForNavigationResponse: without a session the site redirects *)
(* to the login page.  The page is read at once, before it is committed,   *)
(* unless the request wants to wait or it is the login page.               *)
PageResponds ==
  /\ web.nav = "loading" /\ CanRead
  /\ LET w == [web EXCEPT !.late = FALSE, !.url = IF session THEN @ ELSE Login]
     IN IF w.force \/ w.url = Login
        THEN /\ web' = [w EXCEPT !.nav = "received"]
             /\ UNCHANGED <<timer, homeService>>
        ELSE /\ \E r \in ReadPage(WithDialog(w, "hidden")) :
                  web' = [r EXCEPT !.nav = "received"]
             /\ HideDialog(w)
  /\ Network /\ UNCHANGED <<header, bounds>>

PageCommitted ==
  /\ web.nav = "received"
  /\ web' = [web EXCEPT !.nav = "committed", !.doc = Page(web.url)]
  /\ UNCHANGED <<session, provider, list, screen, header, bounds>>

(* didFinishNavigation, also of a navigation that has been replaced (the   *)
(* return for an obsolete one is commented out).  The login page opens the *)
(* dialog, which covers the screen: viewWillDisappear cancels a visible    *)
(* loading.  Over an alert the dialog is announced, but not presented.     *)
(* Any other page closes the dialog and is read.                           *)
Finished(w) ==
  /\ CanRead
  /\ IF w.url = Login
     THEN \/ /\ w.dialog = "shown"
             /\ web' = w /\ UNCHANGED <<timer, homeService, header>>
          \/ /\ w.dialog # "shown" /\ alert = "none"
             /\ web' = WithDialog(HeaderClosed(w), "shown")
             /\ header' = "invisible"
             /\ ServiceMessage
          \/ /\ w.dialog # "shown" /\ alert # "none"
             /\ web' = WithDialog(w, "refused") /\ UNCHANGED header
             /\ ServiceMessage
     ELSE /\ web' \in ReadPage(WithDialog(w, "hidden"))
          /\ HideDialog(w)
          /\ UNCHANGED header
  /\ Network /\ UNCHANGED bounds

PageFinished ==
  /\ web.nav \in {"committed", "stopped"}
  /\ Finished([web EXCEPT !.nav = "none"])

LatePageFinished == web.late /\ Finished([web EXCEPT !.late = FALSE])

(* A navigation can fail before it is committed, which nobody is told      *)
(* (didFailProvisionalNavigation is not implemented)...                    *)
PageLost ==
  /\ web.nav \in {"loading", "received"} /\ faults < MaxFaults
  /\ faults' = faults + 1
  /\ web' = [web EXCEPT !.nav = "none", !.url = web.doc.page]
  /\ UNCHANGED <<session, provider, list, screen, header, taps>>

(* Fault planted in FailureReported: the retry timer ends with the failure. *)
FailureReported_EndsRetries ==
  IF web.own /\ web.url = web.working
  THEN web' = [Taken(web) EXCEPT !.nav = "none"] /\ timer' = NoTimer
  ELSE web' = [web EXCEPT !.nav = "none"] /\ UNCHANGED timer

(* ...or after it, which takes the completion.  Its fail block ends in     *)
(* operationDidFinishedWithError: nothing but a status the manager ignores. *)
FailureReported ==
  /\ web' = [IF web.own /\ web.url = web.working THEN Taken(web) ELSE web
               EXCEPT !.nav = "none"]
  /\ UNCHANGED timer

PageFailed ==
  /\ \/ web.nav = "committed" /\ faults < MaxFaults /\ faults' = faults + 1
     \/ web.nav = "stopped" /\ UNCHANGED faults
  /\ FailureReported
  /\ UNCHANGED <<session, homeService, asked, list, screen, header, taps>>

(* The friends page appends more friends when it is scrolled.              *)
PageGrows ==
  /\ web.swiping /\ web.doc.page = FriendsPage /\ web.doc.size < MaxGrowth
  /\ web' = [web EXCEPT !.doc.size = @ + 1]
  /\ UNCHANGED <<session, provider, list, screen, header, bounds>>

(* doCyclic, every 0.8 s while swiping.                                    *)
CyclicSwipe ==
  /\ web.swiping /\ CanRead
  /\ web' \in ReadPage(web)
  /\ UNCHANGED <<session, provider, list, screen, header, bounds>>

(* finishSwiping hides the header view but keeps its state.                *)
FinishSwiping ==
  /\ web.finishing
  /\ web' = SwipingFinished(web)
  /\ UNCHANGED <<session, provider, list, screen, header, bounds>>

-----------------------------------------------------------------------------
(* Answers: the script's result reaches whoever waits now *)

Answer == Head(web.scripts)
Rest   == [web EXCEPT !.scripts = Tail(web.scripts)]

AnswerDropped ==
  /\ web.scripts # <<>> /\ Unwanted(Rest, Answer)
  /\ web' = Rest
  /\ UNCHANGED <<session, provider, list, screen, header, bounds>>

Wanted == web.scripts # <<>> /\ ~Unwanted(Rest, Answer)

(* isRequiredAuthorizationResponse: the URL is the login page by now.      *)
LoginAnswered ==
  /\ Wanted /\ web.url = Login
  /\ web' = Answered(Rest, Answer)
  /\ UNCHANGED <<session, provider, list, screen, header, bounds>>

AnswerTo(completion) ==
  /\ Wanted /\ web.url # Login
  /\ web.completion = completion
  /\ UNCHANGED <<session, asked, current, alert, bounds>>

(* friendsUpdatedCallback_: the list is replaced by new objects read from  *)
(* the database; an alert that is shown keeps its object.                  *)
FriendsUpdated(newdb) ==
  /\ db' = newdb /\ rows' = newdb
  /\ detached' = TRUE /\ updating' = {}
  /\ tapped' = IF alert = "loading" THEN [tapped EXCEPT !.old = TRUE] ELSE tapped
  /\ outlived' = outlived \cap {current}
  /\ header' = IF \E f \in Friends : newdb[f] # Absent THEN "someLoaded" ELSE "loading"

(* The home page only shows that there is a session: the friends page is   *)
(* next.  An empty Partial status announces it.                            *)
HomeAnswered ==
  /\ AnswerTo("home")
  /\ timer' = NoTimer /\ homeService' = FALSE
  /\ FriendsUpdated(db)
  /\ web' = Load(Answered(Rest, Answer), FriendsPage, "friends", FALSE)

(* Every friend on the page is written as ready for a request, whatever    *)
(* was known of it; then the page is swiped for more.                      *)
FriendsAnswered ==
  /\ AnswerTo("friends")
  /\ FriendsUpdated(IF Answer.page = FriendsPage THEN [f \in Friends |-> Ready] ELSE db)
  /\ web' = Swipe(Answered(Rest, Answer), "friends")
  /\ UNCHANGED <<timer, homeService>>

(* Fault planted in BirthdayUpdated: the person is not written.            *)
BirthdayUpdated_NotWritten(f, found) ==
  db' = db /\ CellReloaded(f, found, detached, FALSE)

(* birthdayUpdated changes the person object, whose cell is reloaded, and  *)
(* writes it.                                                              *)
BirthdayUpdated(f, found) ==
  db' = [db EXCEPT ![f] = found] /\ CellReloaded(f, found, detached, FALSE)

(* parseUserDetailPage answers the person asked for last; a birthday that  *)
(* was found opens the prediction screen over this one.                    *)
DetailAnswered ==
  /\ Wanted /\ web.url # Login
  /\ web.completion = "detail"
  /\ timer' = NoTimer
  /\ LET success == Answer.page \in Public
         w == Answered(Rest, Answer)
     IN /\ BirthdayUpdated(asked, [status |-> IF success THEN "completed" ELSE "failed",
                                   from |-> Answer.page])
        /\ web' = IF success THEN HeaderClosed(w) ELSE w
        /\ header' = IF success THEN "invisible" ELSE header
  /\ current' = IF current = asked THEN NoFriend ELSE current
  /\ UNCHANGED <<session, homeService, asked, outlived, alerts, bounds>>

(* Fault planted in TimerFires: the list of timeouts may be empty.         *)
TimerFires_NoTimeoutLeft ==
  /\ timer.page # Home
  /\ timer' = [timer EXCEPT !.left = @ - 1]
  /\ web' = Load(Stop(web), timer.page, "detail", TRUE)
  /\ UNCHANGED <<session, homeService, asked, list, screen, header, bounds>>

(* A timeout of the RungTimer cancels and loads the page again; the timer  *)
(* goes on with the next timeout until the list is used up.  A timeout     *)
(* before a pending answer counts as a fault of the network.               *)
TimerFires ==
  /\ timer.left > 0
  /\ timer' = [timer EXCEPT !.left = @ - 1]
  /\ IF web.nav \in {"loading", "received", "committed"} \/ web.scripts # <<>>
     THEN faults < MaxFaults /\ faults' = faults + 1
     ELSE UNCHANGED faults
  /\ IF timer.page = Home
     THEN /\ web' = Load(Stop(web), Home, "home", FALSE)
          /\ homeService' = TRUE
     ELSE /\ web' = Load(Stop(web), timer.page, "detail", TRUE)
          /\ UNCHANGED homeService
  /\ UNCHANGED <<session, asked, list, screen, header, taps>>

-----------------------------------------------------------------------------
User ==
  \/ UpdateFriends \/ CancelFriendsLoad \/ CloseDialog \/ SignIn
  \/ \E f \in Friends : TapFriend(f) \/ TapWhileLoading(f)
  \/ CancelLoadAndSelect \/ CancelBirthdayLoad \/ KeepLoading

Scripts ==
  AnswerDropped \/ LoginAnswered \/ HomeAnswered \/ FriendsAnswered \/ DetailAnswered

Next ==
  \/ User \/ Scripts \/ TimerFires
  \/ PageResponds \/ PageCommitted \/ PageFinished \/ LatePageFinished
  \/ PageLost \/ PageFailed \/ PageGrows \/ CyclicSwipe \/ FinishSwiping

Spec == Init /\ [][Next]_vars

(* Timers of the run loop fire, scripts answer and navigations go on       *)
(* unless they fail; nothing is assumed of the user.                       *)
Fairness ==
  /\ WF_vars(PageResponds) /\ WF_vars(PageCommitted) /\ WF_vars(PageFinished)
  /\ WF_vars(Scripts) /\ WF_vars(TimerFires) /\ WF_vars(FinishSwiping)

FairSpec == Spec /\ Fairness

-----------------------------------------------------------------------------
(* Type invariant: every slot and field keeps its type.                    *)
ProviderOK ==
  timer \in Timers /\ homeService \in BOOLEAN /\ asked \in Friends \cup {NoFriend}

ListOK ==
  /\ rows \in [Friends -> Persons] /\ db \in [Friends -> Persons]
  /\ outlived \subseteq Friends

AlertOK ==
  /\ alert \in {"none", "birthday", "loading"}
  /\ IF alert = "loading" THEN tapped \in Objects ELSE tapped = Nobody

ScreenOK ==
  /\ current \in Friends \cup {NoFriend} /\ detached \in BOOLEAN
  /\ updating \subseteq Friends

HeaderOK == header \in {"invisible", "authorizing", "loading", "someLoaded"}
BoundsOK == taps \in Nat /\ faults \in Nat

TypeOK ==
  web \in WebViews /\ session \in BOOLEAN
  /\ ProviderOK /\ ListOK /\ ScreenOK /\ AlertOK /\ HeaderOK /\ BoundsOK

(* Only the friend of the running request shows an activity indicator, so  *)
(* the alert that cancels the request clears every indicator.              *)
OneIndicator == updating \subseteq {current}

(* What the list shows of a friend is what the database holds, though an   *)
(* answer changes an object first, writes it later, and the list may have  *)
(* been replaced since the object was asked for.  Only a request through   *)
(* the object of an earlier list, which the "Cancel friends loading" alert *)
(* kept, can leave the listed object behind, until the list is read again. *)
ListShowsStored == \A f \in Friends : rows[f] = db[f] \/ f \in outlived

(* While the web view swipes through the friends page the header is there, *)
(* so a tap on a friend cancels the swiping before it loads a detail page: *)
(* otherwise the swiping would read the friends page for that request.     *)
HeaderWhileSwiping == web.swiping => header # "invisible"

(* A friend's stored result was read from the friend's own page, unless    *)
(* the load began while an answer of an earlier load was in flight.        *)
OwnPage ==
  [][\A f \in Friends :
       db'[f] # db[f] => db'[f].from \in {f, NoFriend} \/ web.overlap]_vars

(* Swiping through the friends page comes to an end.                       *)
ListLoadEnds == web.swiping ~> ~web.swiping

(* With a session and fewer faults than attempts, a requested birthday is  *)
(* answered unless another page is loaded instead.                         *)
BirthdayArrives ==
  \A f \in Friends :
    (current = f /\ web.working = f) ~> (current # f \/ web.working # f)

=============================================================================
