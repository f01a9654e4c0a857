--------------------------- MODULE FriendsLoadProofs ---------------------------
(***************************************************************************)
(* FriendsLoad's invariants, and that a friend's result is read from the   *)
(* friend's own page, for any friends, pages, timeouts and bounds.         *)
(***************************************************************************)
EXTENDS FriendsLoad, SequenceTheorems, TLAPS

-----------------------------------------------------------------------------
(* The inductive invariant *)

(* A request whose person object was replaced has no indicator left.       *)
Indicators ==
  /\ OneIndicator
  /\ detached => updating = {}

(* Who waits for an answer: while the friends page is wanted, no retry     *)
(* asks for a detail page; whoever wants one wants that of the person      *)
(* asked for last, and waits for its end.  A person object the list does   *)
(* not have is waited for only by a request that began with such an object.*)
Roles ==
  /\ web.completion \in {"home", "friends"} => timer.page = Home
  /\ timer.page # Home => timer.page = asked /\ (detached => asked \in outlived)
  /\ web.completion = "detail" =>
       /\ web.force /\ ~web.swiping /\ web.working = asked
       /\ detached => asked \in outlived

(* A detail page is not awaited while friends are loading, nor while the   *)
(* user is asked whether to cancel that.                                   *)
Quiet ==
  web.completion = "detail" \/ timer.page # Home =>
    header = "invisible" /\ alert # "loading"

(* The running request is of the person asked for, whose birthday is not   *)
(* known yet; the object in the alert is as it was when it was tapped.     *)
Requests ==
  /\ current \in {NoFriend, asked}
  /\ current # NoFriend /\ current \notin outlived => db[current] = Ready
  /\ alert = "loading" =>
       /\ tapped.asked => tapped.friend = asked
       /\ ~tapped.old => tapped.status = rows[tapped.friend].status

(* A page that has been committed is the document scripts see; with a load *)
(* that began when the last one was over, they see no other.               *)
Reading ==
  /\ web.nav \in {"committed", "stopped"} => web.doc.page = web.url
  /\ web.completion = "detail" /\ ~web.overlap =>
       /\ ~web.late
       /\ \A i \in 1..Len(web.scripts) : web.scripts[i].page = web.working

IInv ==
  /\ TypeOK /\ Indicators /\ Roles /\ Quiet /\ Requests /\ Reading
  /\ ListShowsStored /\ HeaderWhileSwiping

-----------------------------------------------------------------------------
(* What the calls of the web view leave *)

LEMMA PageIsDocument ==
  ASSUME NEW location \in Locations
  PROVE  Page(location) \in Documents /\ Page(location).page = location
BY WebBoundAssumption DEF Page, Documents

LEMMA LoadFacts ==
  ASSUME NEW w \in WebViews, NEW location \in Locations,
         NEW completion \in {"home", "friends"}
  PROVE  LET v == Load(w, location, completion, FALSE)
         IN /\ v \in WebViews
            /\ v.completion = completion /\ v.nav = "loading"
            /\ v.swiping = w.swiping
<1> DEFINE overlaps == w.scripts # <<>> \/ MayReport(w)
<1>1. MayReport(w) \in BOOLEAN /\ overlaps \in BOOLEAN /\ completion \in Completions
  BY DEF MayReport, WebViews, Completions
<1>2. Load(w, location, completion, FALSE) \in WebViews
  BY <1>1 DEF Load, WebViews
<1> QED
  BY <1>2 DEF Load, WebViews

LEMMA LoadDetailFacts ==
  ASSUME NEW w \in WebViews, NEW location \in Locations
  PROVE  LET v == Load(w, location, "detail", TRUE)
         IN /\ v \in WebViews
            /\ v.completion = "detail" /\ v.force /\ v.working = location
            /\ v.swiping = w.swiping /\ v.nav = "loading"
            /\ ~v.overlap => ~v.late /\ v.scripts = <<>>
<1> DEFINE overlaps == w.scripts # <<>> \/ MayReport(w)
           v        == Load(w, location, "detail", TRUE)
<1>1. MayReport(w) \in BOOLEAN /\ overlaps \in BOOLEAN
  BY DEF MayReport, WebViews
<1>2. v \in WebViews
  BY <1>1 DEF Load, WebViews, Completions
<1>3. /\ v.completion = "detail" /\ v.force /\ v.working = location
      /\ v.swiping = w.swiping /\ v.nav = "loading" /\ v.scripts = w.scripts
      /\ v.late = MayReport(w) /\ v.overlap = overlaps
  BY DEF Load, WebViews
<1> QED
  BY <1>2, <1>3

(* v is w with at most its page stopped.                                   *)
Halted(v, w) ==
  /\ v \in WebViews
  /\ v.completion = w.completion /\ v.force = w.force /\ v.working = w.working
  /\ v.doc = w.doc /\ v.url = w.url /\ v.late = w.late
  /\ v.scripts = w.scripts /\ v.overlap = w.overlap
  /\ v.swiping => w.swiping
  /\ v.nav \in {"committed", "stopped"} => w.nav \in {"committed", "stopped"}

LEMMA HaltedTwice ==
  ASSUME NEW u, NEW v, NEW w, Halted(u, v), Halted(v, w) PROVE Halted(u, w)
BY DEF Halted

LEMMA StopFacts ==
  ASSUME NEW w \in WebViews PROVE Halted(Stop(w), w) /\ ~Stop(w).swiping
BY DEF Stop, WebViews, Halted

LEMMA SwipeFacts ==
  ASSUME NEW w \in WebViews
  PROVE  LET v == Swipe(w, "friends")
         IN /\ v \in WebViews
            /\ v.completion = "friends" /\ v.nav = w.nav /\ v.doc = w.doc /\ v.url = w.url
BY DEF Swipe, WebViews, Completions

LEMMA AnsweredFacts ==
  ASSUME NEW w \in WebViews, NEW d \in Documents
  PROVE  LET v == Answered(w, d)
         IN /\ v \in WebViews
            /\ v.completion = "none" /\ v.swiping = w.swiping
            /\ v.nav = w.nav /\ v.doc = w.doc /\ v.url = w.url
BY DEF Answered, Taken, WebViews, Completions

LEMMA DialogFacts ==
  ASSUME NEW w \in WebViews, NEW state \in {"hidden", "refused", "shown"}
  PROVE  /\ Halted(WithDialog(w, state), w)
         /\ WithDialog(w, state).nav = w.nav /\ WithDialog(w, state).swiping = w.swiping
BY DEF WithDialog, WebViews, Halted

(* A script that reads the page adds what it sees: the document, or the    *)
(* page that is about to be committed.                                     *)
LEMMA ReadFacts ==
  ASSUME NEW w \in WebViews, NEW v \in ReadPage(w)
  PROVE  /\ v \in WebViews
         /\ v.completion = w.completion /\ v.force = w.force /\ v.working = w.working
         /\ v.swiping = w.swiping /\ v.nav = w.nav /\ v.doc = w.doc /\ v.url = w.url
         /\ v.late = w.late /\ v.overlap = w.overlap
         /\ \/ v.scripts = w.scripts
            \/ /\ w.url = w.working
               /\ \E d \in Documents : /\ v.scripts = Append(w.scripts, d)
                                       /\ w.nav # "received" => d = w.doc
<1>1. CASE w.url # w.working
  BY <1>1 DEF ReadPage
<1>2. CASE w.url = w.working
  <2>1. w.doc \in Documents /\ Page(w.url) \in Documents /\ w.scripts \in Seq(Documents)
    BY PageIsDocument DEF WebViews
  <2>2. PICK d \in {w.doc} \cup (IF w.nav = "received" THEN {Page(w.url)} ELSE {}) :
          v = [w EXCEPT !.scripts = Append(w.scripts, d)]
    BY <1>2 DEF ReadPage
  <2>3. d \in Documents /\ (w.nav # "received" => d = w.doc)
    BY <2>1, <2>2
  <2>4. Append(w.scripts, d) \in Seq(Documents)
    BY <2>1, <2>3
  <2> QED
    BY <1>2, <2>2, <2>3, <2>4 DEF WebViews
<1> QED
  BY <1>1, <1>2

-----------------------------------------------------------------------------
(* The invariant is inductive: the user *)

LEMMA Names ==
  /\ NoFriend \notin Friends /\ Friends \subseteq Locations
  /\ {Home, FriendsPage, Login, Blank} \subseteq Locations
  /\ Home \notin Friends
BY FriendsAssumption, PagesAssumption DEF Locations

LEMMA ClosedFacts ==
  ASSUME NEW w \in WebViews, w.swiping => header # "invisible"
  PROVE  Halted(HeaderClosed(w), w) /\ ~HeaderClosed(w).swiping
<1>1. CASE header = "invisible"
  BY <1>1 DEF HeaderClosed, Halted
<1>2. CASE header # "invisible"
  <2>1. HeaderClosed(w) = Stop(w)
    BY <1>2 DEF HeaderClosed
  <2> QED
    BY <2>1, StopFacts
<1> QED
  BY <1>1, <1>2

LEMMA InitInvariant == ASSUME Init PROVE IInv
<1>1. IdleWebView \in WebViews
  BY PageIsDocument, Names DEF IdleWebView, WebViews, Completions
<1>2. NoTimer \in Timers /\ NoTimer.page = Home
  BY FriendsBoundAssumption DEF NoTimer, Timers
<1>3. TypeOK
  <2>1. Ready \in Persons /\ Absent \in Persons
    BY DEF Ready, Absent, Persons
  <2>2. db \in [Friends -> Persons] /\ rows \in [Friends -> Persons]
    BY <2>1 DEF Init
  <2> QED
    BY <1>1, <1>2, <2>2, FriendsAssumption
    DEF Init, TypeOK, ProviderOK, ListOK, ScreenOK, AlertOK, HeaderOK, BoundsOK
<1>4. Indicators /\ ListShowsStored
  BY DEF Init, Indicators, OneIndicator, ListShowsStored
<1>5. Roles /\ Quiet /\ Requests /\ Reading /\ HeaderWhileSwiping
  BY <1>2 DEF Init, Roles, Quiet, Requests, Reading, HeaderWhileSwiping, IdleWebView
<1> QED
  BY <1>3, <1>4, <1>5 DEF IInv

LEMMA UpdateFriendsStep == ASSUME IInv, UpdateFriends PROVE IInv'
<1> DEFINE v == Load(web, Home, "home", FALSE)
<1>1. web \in WebViews /\ web' = v
  BY DEF IInv, TypeOK, UpdateFriends
<1>2. v \in WebViews /\ v.completion = "home" /\ v.nav = "loading"
  BY <1>1, LoadFacts, Names
<1> HIDE DEF v
<1>3. TypeOK'
  <2>1. timer' \in Timers
    BY FriendsBoundAssumption DEF UpdateFriends, Timers
  <2>2. ProviderOK' /\ ListOK' /\ ScreenOK' /\ AlertOK' /\ HeaderOK'
    BY <2>1
    DEF IInv, TypeOK, ProviderOK, ListOK, ScreenOK, AlertOK, HeaderOK, UpdateFriends,
        list, screen, alerts
  <2>3. session' \in BOOLEAN /\ BoundsOK'
    BY DEF IInv, TypeOK, BoundsOK, UpdateFriends, Tap
  <2> QED
    BY <1>1, <1>2, <2>2, <2>3 DEF TypeOK
<1>4. Indicators' /\ ListShowsStored' /\ Requests'
  BY DEF IInv, Indicators, OneIndicator, ListShowsStored, Requests, UpdateFriends,
         list, screen, alerts
<1>5. Roles' /\ Quiet' /\ Reading' /\ HeaderWhileSwiping'
  BY <1>1, <1>2 DEF UpdateFriends, Roles, Quiet, Reading, HeaderWhileSwiping
<1> QED
  BY <1>3, <1>4, <1>5 DEF IInv

(* A reloaded cell: only this friend's row may change, and only into the   *)
(* object; an object that stays out of the list shows no indicator.        *)
Unlisted(f) == detached' = TRUE /\ rows' = rows /\ updating' = updating \ {f}
Relisted(f, person) ==
  /\ detached' = FALSE /\ rows' = [rows EXCEPT ![f] = person]
  /\ updating' \in {updating \cup {f}, updating \ {f}}

LEMMA CellFacts ==
  ASSUME IInv, NEW f \in Friends, NEW person \in Persons,
         Unlisted(f) \/ Relisted(f, person)
  PROVE  /\ rows' \in [Friends -> Persons] /\ detached' \in BOOLEAN
         /\ updating' \subseteq updating \cup {f}
         /\ detached' => updating' = updating \ {f}
         /\ \A g \in Friends : rows'[g] # rows[g] => g = f /\ rows'[g] = person
         /\ ~detached' => rows'[f] = person
<1>1. rows \in [Friends -> Persons]
  BY DEF IInv, TypeOK, ListOK
<1>2. CASE Unlisted(f)
  BY <1>1, <1>2 DEF Unlisted
<1>3. CASE Relisted(f, person)
  BY <1>1, <1>3 DEF Relisted
<1> QED
  BY <1>2, <1>3

(* A step that at most stops the page, and leaves who waits for it.        *)
LEMMA HaltedStep ==
  ASSUME IInv, Halted(web', web), web'.swiping => header' # "invisible",
         UNCHANGED <<provider, outlived>>, detached' => detached,
         TypeOK', Indicators', Requests', Quiet', ListShowsStored'
  PROVE  IInv'
<1>1. Roles'
  BY DEF IInv, Roles, Halted, provider
<1>2. Reading'
  BY DEF IInv, Reading, Halted
<1>3. HeaderWhileSwiping'
  BY DEF HeaderWhileSwiping
<1> QED
  BY <1>1, <1>2, <1>3 DEF IInv

(* personSelected, for an object that was listed when it was tapped.       *)
LEMMA PersonSelectedStep ==
  ASSUME IInv, NEW o \in Objects, NEW w, Halted(w, web), ~w.swiping,
         o.asked => o.friend = asked,
         ~o.old => o.status = rows[o.friend].status,
         header' = "invisible", tapped' = Nobody, session' = session, BoundsOK',
         PersonSelected(o, w)
  PROVE  IInv'
<1>1. /\ o.friend \in Friends /\ o.old \in BOOLEAN /\ o.asked \in BOOLEAN
      /\ o.friend # NoFriend /\ Ready \in Persons
  BY Names DEF Objects, Persons
<1>2. /\ current \in Friends \cup {NoFriend} /\ detached \in BOOLEAN
      /\ updating \subseteq {current} /\ (detached => updating = {})
      /\ updating \subseteq Friends
      /\ current \in {NoFriend, asked}
  BY DEF IInv, TypeOK, ScreenOK, Indicators, OneIndicator, Requests
<1>3. session' \in BOOLEAN /\ HeaderOK'
  BY DEF IInv, TypeOK, HeaderOK
<1>4. ASSUME SelectFinished(o, w) PROVE IInv'
  <2>1. UNCHANGED <<provider, list, current, detached, updating>> /\ web' = w /\ alert' = "none"
    BY <1>4 DEF SelectFinished
  <2>2. TypeOK'
    <3>1. ProviderOK' /\ ListOK'
      BY <2>1 DEF IInv, TypeOK, ProviderOK, ListOK, provider, list
    <3>2. ScreenOK' /\ AlertOK'
      BY <2>1 DEF IInv, TypeOK, ScreenOK, AlertOK
    <3> QED
      BY <1>3, <2>1, <3>1, <3>2 DEF TypeOK, Halted
  <2>3. Indicators' /\ ListShowsStored' /\ Requests' /\ Quiet'
    BY <2>1
    DEF IInv, Indicators, OneIndicator, ListShowsStored, Requests, Quiet, provider, list
  <2>4. UNCHANGED <<provider, outlived>> /\ (detached' => detached)
    BY <2>1 DEF list
  <2> QED
    BY <2>1, <2>2, <2>3, <2>4, HaltedStep
<1>5. ASSUME SelectBusy(o, w) PROVE IInv'
  <2>1. /\ UNCHANGED <<provider, db, outlived, current>> /\ web' = w /\ alert' = "birthday"
        /\ current # NoFriend
        /\ CellReloaded(current, Ready, detached, TRUE)
    BY <1>5 DEF SelectBusy
  <2>2. current \in Friends
    BY <1>2, <2>1
  <2>8. Relisted(current, Ready) \/ (Unlisted(current) /\ detached)
    BY <1>2, <2>1 DEF CellReloaded, Relisted, Unlisted
  <2>3. /\ rows' \in [Friends -> Persons] /\ detached' \in BOOLEAN
        /\ updating' \subseteq updating \cup {current}
        /\ detached' => updating' = updating \ {current}
        /\ \A g \in Friends : rows'[g] # rows[g] => g = current /\ rows'[g] = Ready
    BY <1>1, <2>2, <2>8, CellFacts
  <2>9. detached' => detached
    BY <2>8 DEF Relisted
  <2>4. TypeOK'
    <3>1. ProviderOK' /\ ListOK'
      BY <2>1, <2>3 DEF IInv, TypeOK, ProviderOK, ListOK, provider
    <3>2. ScreenOK' /\ AlertOK'
      BY <1>2, <2>1, <2>2, <2>3 DEF ScreenOK, AlertOK
    <3> QED
      BY <1>3, <2>1, <3>1, <3>2 DEF TypeOK, Halted
  <2>5. Indicators'
    BY <1>2, <2>1, <2>3, <2>9 DEF Indicators, OneIndicator
  <2>6. Requests' /\ Quiet'
    BY <2>1 DEF IInv, Requests, Quiet, provider
  <2>7. ListShowsStored'
    BY <2>1, <2>3 DEF IInv, ListShowsStored, Requests
  <2> QED
    BY <2>1, <2>4, <2>5, <2>6, <2>7, <2>9, HaltedStep
<1>6. ASSUME SelectFriend(o, w) PROVE IInv'
  <2> DEFINE f == o.friend
             v == Load(w, f, "detail", TRUE)
  <2>1. /\ web' = v /\ current' = f /\ asked' = f /\ alert' = "none"
        /\ timer' = [page |-> f, left |-> Rungs] /\ UNCHANGED <<homeService, db>>
        /\ outlived' = (IF o.old THEN outlived \cup {f} ELSE outlived)
        /\ CellReloaded(f, Ready, o.old, TRUE)
        /\ o.status = "ready" /\ (current = NoFriend \/ o.asked)
    BY <1>6 DEF SelectFriend
  <2>2. /\ v \in WebViews /\ v.completion = "detail" /\ v.force /\ v.working = f
        /\ v.swiping = w.swiping /\ v.nav = "loading"
        /\ ~v.overlap => ~v.late /\ v.scripts = <<>>
    <3>1. w \in WebViews /\ f \in Locations
      BY <1>1, Names DEF Halted
    <3> QED
      BY <3>1, LoadDetailFacts
  <2> HIDE DEF v
  <2>10. Relisted(f, Ready) \/ (Unlisted(f) /\ o.old)
    BY <1>1, <2>1 DEF CellReloaded, Relisted, Unlisted
  <2>3. /\ rows' \in [Friends -> Persons] /\ detached' \in BOOLEAN
        /\ updating' \subseteq updating \cup {f}
        /\ detached' => updating' = updating \ {f}
        /\ \A g \in Friends : rows'[g] # rows[g] => g = f /\ rows'[g] = Ready
        /\ ~detached' => rows'[f] = Ready
    BY <1>1, <2>10, CellFacts
  <2>11. detached' => o.old
    BY <2>10 DEF Relisted
  <2>4. updating \subseteq {f}
    BY <1>2, <2>1, Names
  <2>5. TypeOK'
    <3>1. timer' \in Timers
      BY <1>1, <2>1, FriendsBoundAssumption DEF Timers
    <3>2. ProviderOK' /\ AlertOK'
      BY <1>1, <2>1, <3>1 DEF IInv, TypeOK, ProviderOK, AlertOK
    <3>3. ListOK' /\ ScreenOK'
      BY <1>1, <1>2, <2>1, <2>3 DEF IInv, TypeOK, ListOK, ScreenOK
    <3> QED
      BY <1>3, <2>1, <2>2, <3>2, <3>3 DEF TypeOK
  <2>6. Indicators'
    BY <2>1, <2>3, <2>4 DEF Indicators, OneIndicator
  <2>7. ~o.old /\ f \notin outlived => db[f] = Ready
    <3>1. db[f] \in Persons
      BY <1>1 DEF IInv, TypeOK, ListOK
    <3>2. ~o.old /\ f \notin outlived => db[f].status = "ready"
      BY <1>1, <2>1 DEF IInv, ListShowsStored
    <3> QED
      BY <3>1, <3>2 DEF Persons, Ready, Absent
  <2>8. Requests' /\ ListShowsStored'
    <3>1. f \notin outlived' => ~o.old /\ f \notin outlived
      BY <2>1
    <3>2. Requests'
      BY <2>1, <2>7, <3>1 DEF Requests
    <3>3. ~o.old => ~detached'
      BY <2>11
    <3>4. ListShowsStored'
      BY <2>1, <2>3, <2>7, <3>1, <3>3 DEF IInv, ListShowsStored
    <3> QED
      BY <3>2, <3>4
  <2>9. Roles' /\ Quiet' /\ Reading' /\ HeaderWhileSwiping'
    <3>1. timer'.page = f /\ asked' = f /\ (detached' => f \in outlived')
      BY <2>1, <2>11
    <3>2. Roles' /\ Quiet'
      BY <2>1, <2>2, <3>1 DEF Roles, Quiet
    <3>3. Reading' /\ HeaderWhileSwiping'
      BY <2>1, <2>2 DEF Reading, HeaderWhileSwiping
    <3> QED
      BY <3>2, <3>3
  <2> QED
    BY <2>5, <2>6, <2>8, <2>9 DEF IInv
<1> QED
  BY <1>4, <1>5, <1>6 DEF PersonSelected

LEMMA TapFriendStep ==
  ASSUME IInv, NEW f \in Friends, TapFriend(f) PROVE IInv'
<1> DEFINE o == Listed(f)
<1>1. rows[f].status \in {"ready", "completed", "failed"}
  <2>1. rows[f] \in Persons /\ rows[f].status # "absent"
    BY DEF IInv, TypeOK, ListOK, TapFriend
  <2> QED
    BY <2>1 DEF Persons, Ready, Absent
<1>2. /\ o \in Objects /\ o.friend = f /\ o.status = rows[f].status
      /\ o.asked => f = asked
  BY <1>1 DEF Listed, Objects
<1>3. PersonSelected(o, web)
  BY DEF TapFriend
<1> HIDE DEF o
<1>4. web \in WebViews /\ ~web.swiping /\ Halted(web, web)
  BY DEF IInv, TypeOK, HeaderWhileSwiping, TapFriend, Halted
<1>5. /\ header' = "invisible" /\ session' = session
      /\ tapped' = Nobody
  BY DEF IInv, TypeOK, AlertOK, TapFriend, Tap
<1>6. BoundsOK'
  BY DEF IInv, TypeOK, BoundsOK, TapFriend, Tap
<1> QED
  BY <1>2, <1>3, <1>4, <1>5, <1>6, PersonSelectedStep

LEMMA CancelLoadAndSelectStep == ASSUME IInv, CancelLoadAndSelect PROVE IInv'
<1> DEFINE w == Stop(web)
<1>1. PersonSelected(tapped, w)
  BY DEF CancelLoadAndSelect
<1>2. Halted(w, web) /\ ~w.swiping
  BY StopFacts DEF IInv, TypeOK
<1> HIDE DEF w
<1>3. /\ tapped \in Objects
      /\ tapped.asked => tapped.friend = asked
      /\ ~tapped.old => tapped.status = rows[tapped.friend].status
  BY DEF IInv, TypeOK, AlertOK, Requests, CancelLoadAndSelect
<1>4. /\ header' = "invisible" /\ session' = session /\ tapped' = Nobody /\ BoundsOK'
  BY DEF IInv, TypeOK, BoundsOK, CancelLoadAndSelect, bounds
<1> QED
  BY <1>1, <1>2, <1>3, <1>4, PersonSelectedStep

LEMMA HaltedByUser ==
  ASSUME IInv,
         \/ \E f \in Friends : TapWhileLoading(f)
         \/ CancelFriendsLoad \/ CancelBirthdayLoad \/ KeepLoading \/ CloseDialog
  PROVE  IInv'
<1>1. web \in WebViews /\ (web.swiping => header # "invisible")
  BY DEF IInv, TypeOK, HeaderWhileSwiping
<1> DEFINE Goal == Halted(web', web) /\ (web'.swiping => header' # "invisible")
<1>2. ASSUME \/ \E f \in Friends : TapWhileLoading(f)
             \/ KeepLoading
      PROVE  Goal
  <2>1. web' = web /\ header' = header
    BY <1>2 DEF TapWhileLoading, KeepLoading
  <2> QED
    BY <1>1, <2>1 DEF Halted
<1>3. ASSUME CancelFriendsLoad PROVE Goal
  BY <1>1, <1>3, StopFacts DEF CancelFriendsLoad
<1>4. ASSUME CancelBirthdayLoad PROVE Goal
  BY <1>1, <1>4, StopFacts DEF CancelBirthdayLoad
<1>5. ASSUME CloseDialog PROVE Goal
  <2>1. Halted(Stop(web), web) /\ ~Stop(web).swiping /\ Stop(web) \in WebViews
    BY <1>1, StopFacts DEF Halted
  <2>2. Halted(web', Stop(web)) /\ ~web'.swiping
    BY <1>5, <2>1, DialogFacts DEF CloseDialog
  <2> QED
    BY <2>1, <2>2, HaltedTwice
<1>6. Goal
  BY <1>2, <1>3, <1>4, <1>5
<1> HIDE DEF Goal
<1>7. UNCHANGED <<provider, db, outlived>>
  BY DEF TapWhileLoading, CancelFriendsLoad, CancelBirthdayLoad, KeepLoading, CloseDialog,
         list, screen
<1>8. /\ session' \in BOOLEAN /\ BoundsOK' /\ HeaderOK'
      /\ header' \in {header, "invisible"}
  <2>1. /\ session' = session /\ faults' = faults /\ (taps' = taps \/ taps' = taps + 1)
        /\ header' \in {header, "invisible"}
    BY DEF TapWhileLoading, CancelFriendsLoad, CancelBirthdayLoad, KeepLoading, CloseDialog,
           Tap, bounds
  <2> QED
    BY <2>1 DEF IInv, TypeOK, BoundsOK, HeaderOK
<1>9. CASE CancelBirthdayLoad /\ current # NoFriend
  <2>1. /\ CellReloaded(current, Ready, detached, FALSE)
        /\ current' = NoFriend /\ alert' = "none" /\ alert = "birthday" /\ tapped' = tapped
        /\ header' = header
    BY <1>9 DEF CancelBirthdayLoad
  <2>2. current \in Friends /\ detached \in BOOLEAN /\ Ready \in Persons
    BY <1>9 DEF IInv, TypeOK, ScreenOK, Persons
  <2>10. /\ Relisted(current, Ready) \/ (Unlisted(current) /\ detached)
         /\ updating' = updating \ {current}
    BY <2>1, <2>2 DEF CellReloaded, Relisted, Unlisted
  <2>3. /\ rows' \in [Friends -> Persons] /\ detached' \in BOOLEAN
        /\ \A g \in Friends : rows'[g] # rows[g] => g = current /\ rows'[g] = Ready
    BY <2>2, <2>10, CellFacts
  <2>9. detached' => detached
    BY <2>10 DEF Relisted
  <2>4. updating' = {}
    BY <2>10 DEF IInv, Indicators, OneIndicator
  <2>5. TypeOK'
    <3>1. ProviderOK' /\ ListOK'
      BY <1>7, <2>3 DEF IInv, TypeOK, ProviderOK, ListOK, provider
    <3>2. ScreenOK' /\ AlertOK'
      BY <2>1, <2>2, <2>3, <2>4 DEF IInv, TypeOK, ScreenOK, AlertOK
    <3> QED
      BY <1>6, <1>8, <3>1, <3>2 DEF TypeOK, Goal, Halted
  <2>6. Indicators' /\ Requests'
    BY <2>1, <2>4 DEF Indicators, OneIndicator, Requests
  <2>7. Quiet'
    BY <1>6, <1>7, <2>1 DEF IInv, Quiet, Goal, Halted, provider
  <2>8. ListShowsStored'
    BY <1>7, <1>9, <2>3 DEF IInv, ListShowsStored, Requests
  <2> QED
    BY <1>6, <1>7, <2>5, <2>6, <2>7, <2>8, <2>9, HaltedStep DEF Goal
<1>10. CASE ~(CancelBirthdayLoad /\ current # NoFriend)
  <2>1. UNCHANGED <<rows, current, detached, updating>>
    BY <1>10
    DEF TapWhileLoading, CancelFriendsLoad, CancelBirthdayLoad, KeepLoading, CloseDialog,
        list, screen
  <2>2. \/ \E f \in Friends : TapWhileLoading(f)
        \/ alert' = "none" /\ tapped' = Nobody
        \/ UNCHANGED <<alert, tapped>>
    BY DEF TapWhileLoading, CancelFriendsLoad, CancelBirthdayLoad, KeepLoading, CloseDialog,
           screen, alerts, IInv, TypeOK, AlertOK
  <2>3. AlertOK' /\ Requests'
    <3>1. ASSUME NEW f \in Friends, TapWhileLoading(f) PROVE AlertOK' /\ Requests'
      <4>1. rows[f] \in Persons /\ rows[f].status # "absent"
        BY <3>1 DEF IInv, TypeOK, ListOK, TapWhileLoading
      <4>2. rows[f].status \in {"ready", "completed", "failed"}
        BY <4>1 DEF Persons, Ready, Absent
      <4>3. /\ alert' = "loading" /\ tapped' = Listed(f) /\ Listed(f) \in Objects
            /\ Listed(f).friend = f /\ Listed(f).status = rows[f].status
            /\ Listed(f).asked => f = asked
        BY <3>1, <4>2 DEF TapWhileLoading, Listed, Objects
      <4>4. AlertOK'
        BY <4>3 DEF AlertOK
      <4>5. Requests'
        BY <1>7, <2>1, <4>3 DEF IInv, Requests, provider
      <4> QED
        BY <4>4, <4>5
    <3>2. CASE alert' = "none" /\ tapped' = Nobody
      BY <1>7, <2>1, <3>2 DEF IInv, AlertOK, Requests, provider
    <3>3. CASE UNCHANGED <<alert, tapped>>
      BY <1>7, <2>1, <3>3 DEF IInv, TypeOK, AlertOK, Requests, provider
    <3> QED
      BY <2>2, <3>1, <3>2, <3>3
  <2>4. TypeOK'
    <3>1. ProviderOK' /\ ListOK' /\ ScreenOK'
      BY <1>7, <2>1 DEF IInv, TypeOK, ProviderOK, ListOK, ScreenOK, provider
    <3> QED
      BY <1>6, <1>8, <2>3, <3>1 DEF TypeOK, Goal, Halted
  <2>5. Indicators' /\ ListShowsStored'
    BY <1>7, <2>1 DEF IInv, Indicators, OneIndicator, ListShowsStored
  <2>6. Quiet'
    <3>1. (\E f \in Friends : TapWhileLoading(f)) => header # "invisible"
      BY DEF TapWhileLoading
    <3>2. web'.completion = web.completion /\ timer' = timer
      BY <1>6, <1>7 DEF Goal, Halted, provider
    <3> QED
      BY <1>8, <2>2, <3>1, <3>2 DEF IInv, Quiet
  <2>7. detached' => detached
    BY <2>1
  <2> QED
    BY <1>6, <1>7, <2>3, <2>4, <2>5, <2>6, <2>7, HaltedStep DEF Goal
<1> QED
  BY <1>9, <1>10

LEMMA SignInStep == ASSUME IInv, SignIn PROVE IInv'
<1>1. /\ web \in WebViews
      /\ web' = [web EXCEPT !.nav = "loading", !.url = web.working, !.own = FALSE]
  BY DEF IInv, TypeOK, SignIn
<1>2. /\ web' \in WebViews /\ web'.nav = "loading"
      /\ web'.completion = web.completion /\ web'.force = web.force
      /\ web'.working = web.working /\ web'.swiping = web.swiping
      /\ web'.late = web.late /\ web'.scripts = web.scripts /\ web'.overlap = web.overlap
  BY <1>1 DEF WebViews
<1> USE DEF SignIn, provider, list, screen, alerts, bounds
<1>3. TypeOK'
  BY <1>2
  DEF IInv, TypeOK, ProviderOK, ListOK, ScreenOK, AlertOK, HeaderOK, BoundsOK
<1>4. Indicators' /\ ListShowsStored' /\ Requests'
  BY DEF IInv, Indicators, OneIndicator, ListShowsStored, Requests
<1>5. Roles' /\ Quiet' /\ HeaderWhileSwiping' /\ Reading'
  BY <1>2 DEF IInv, Roles, Quiet, HeaderWhileSwiping, Reading
<1> QED
  BY <1>3, <1>4, <1>5 DEF IInv

-----------------------------------------------------------------------------
(* The invariant is inductive: the web view's delegate *)

(* A step of the web view: it waits for the same answer or for none, the   *)
(* retries go on or end, and the list and the request stay as they are.    *)
LEMMA DelegateStep ==
  ASSUME IInv,
         web' \in WebViews,
         \/ web'.completion = "none"
         \/ /\ web'.completion = web.completion /\ web'.force = web.force
            /\ web'.working = web.working,
         web'.swiping => web.swiping /\ header' # "invisible",
         Reading',
         timer' \in {timer, NoTimer}, homeService' \in BOOLEAN,
         UNCHANGED <<session, asked, list, screen>>,
         header' \in {header, "invisible"}, BoundsOK'
  PROVE  IInv'
<1>1. NoTimer \in Timers /\ NoTimer.page = Home
  BY FriendsBoundAssumption DEF NoTimer, Timers
<1>2. TypeOK'
  <2>1. session' \in BOOLEAN /\ ProviderOK'
    BY <1>1 DEF IInv, TypeOK, ProviderOK
  <2>2. ListOK' /\ ScreenOK' /\ AlertOK' /\ HeaderOK'
    BY DEF IInv, TypeOK, ListOK, ScreenOK, AlertOK, HeaderOK, list, screen, alerts
  <2> QED
    BY <2>1, <2>2 DEF TypeOK
<1>3. Indicators' /\ ListShowsStored' /\ Requests'
  BY DEF IInv, Indicators, OneIndicator, ListShowsStored, Requests, list, screen, alerts
<1>4. Roles' /\ Quiet' /\ HeaderWhileSwiping'
  BY <1>1 DEF IInv, Roles, Quiet, HeaderWhileSwiping, list, screen, alerts
<1> QED
  BY <1>2, <1>3, <1>4 DEF IInv

(* Most of these steps leave the header and the counters, too.             *)
LEMMA Unhindered ==
  ASSUME IInv, UNCHANGED <<session, asked, list, screen, header, bounds>>
  PROVE  /\ UNCHANGED <<session, asked, list, screen>>
         /\ header' \in {header, "invisible"} /\ BoundsOK'
         /\ web.swiping => header' # "invisible"
BY DEF IInv, TypeOK, BoundsOK, HeaderWhileSwiping, bounds

LEMMA HideDialogFacts ==
  ASSUME IInv, NEW w, HideDialog(w)
  PROVE  timer' \in {timer, NoTimer} /\ homeService' \in BOOLEAN
BY DEF HideDialog, ServiceMessage, IInv, TypeOK, ProviderOK

LEMMA ServiceMessageFacts ==
  ASSUME IInv, ServiceMessage
  PROVE  timer' \in {timer, NoTimer} /\ homeService' \in BOOLEAN
BY DEF ServiceMessage, IInv, TypeOK, ProviderOK

LEMMA PageRespondsStep == ASSUME IInv, PageResponds PROVE IInv'
<1> DEFINE w == [web EXCEPT !.late = FALSE, !.url = IF session THEN @ ELSE Login]
<1>1. web \in WebViews /\ Login \in Locations
  BY Names DEF IInv, TypeOK
<1>2. /\ w \in WebViews /\ w.completion = web.completion /\ w.force = web.force
      /\ w.working = web.working /\ w.swiping = web.swiping /\ w.late = FALSE
      /\ w.scripts = web.scripts /\ w.overlap = web.overlap
  BY <1>1 DEF WebViews
<1>3. UNCHANGED <<session, asked, list, screen, header, bounds>>
  BY DEF PageResponds, Network
<1>4. \/ /\ web' = [w EXCEPT !.nav = "received"]
         /\ UNCHANGED <<timer, homeService>>
      \/ /\ ~w.force
         /\ \E r \in ReadPage(WithDialog(w, "hidden")) : web' = [r EXCEPT !.nav = "received"]
         /\ HideDialog(w)
  BY DEF PageResponds
<1> HIDE DEF w
<1>5. CASE web' = [w EXCEPT !.nav = "received"] /\ UNCHANGED <<timer, homeService>>
  <2>1. /\ web' \in WebViews /\ web'.nav = "received"
        /\ web'.completion = web.completion /\ web'.force = web.force
        /\ web'.working = web.working /\ web'.swiping = web.swiping /\ web'.late = FALSE
        /\ web'.scripts = web.scripts /\ web'.overlap = web.overlap
    BY <1>2, <1>5 DEF WebViews
  <2>2. Reading'
    BY <2>1 DEF IInv, Reading
  <2>3. timer' \in {timer, NoTimer} /\ homeService' \in BOOLEAN
    BY <1>5 DEF IInv, TypeOK, ProviderOK
  <2> QED
    BY <1>3, <2>1, <2>2, <2>3, DelegateStep, Unhindered
<1>6. ASSUME ~w.force, HideDialog(w),
             NEW r \in ReadPage(WithDialog(w, "hidden")), web' = [r EXCEPT !.nav = "received"]
      PROVE  IInv'
  <2>1. /\ WithDialog(w, "hidden") \in WebViews
        /\ WithDialog(w, "hidden").completion = w.completion
        /\ WithDialog(w, "hidden").force = w.force /\ WithDialog(w, "hidden").working = w.working
        /\ WithDialog(w, "hidden").swiping = w.swiping
    BY <1>2, DialogFacts DEF Halted
  <2>2. /\ r \in WebViews /\ r.completion = w.completion /\ r.force = w.force
        /\ r.working = w.working /\ r.swiping = w.swiping
    BY <1>6, <2>1, ReadFacts
  <2>3. /\ web' \in WebViews /\ web'.nav = "received"
        /\ web'.completion = web.completion /\ web'.force = web.force
        /\ web'.working = web.working /\ web'.swiping = web.swiping
    BY <1>2, <1>6, <2>2 DEF WebViews
  <2>4. web'.completion # "detail"
    BY <1>2, <1>6, <2>3 DEF IInv, Roles
  <2>5. Reading'
    BY <2>3, <2>4 DEF Reading
  <2> QED
    BY <1>3, <1>6, <2>3, <2>5, DelegateStep, Unhindered, HideDialogFacts
<1> QED
  BY <1>4, <1>5, <1>6

LEMMA PageCommittedStep == ASSUME IInv, PageCommitted PROVE IInv'
<1>1. /\ web \in WebViews /\ web.url \in Locations
      /\ web' = [web EXCEPT !.nav = "committed", !.doc = Page(web.url)]
  BY DEF IInv, TypeOK, PageCommitted, WebViews
<1>2. /\ web' \in WebViews /\ web'.doc.page = web'.url
      /\ web'.completion = web.completion /\ web'.force = web.force
      /\ web'.working = web.working /\ web'.swiping = web.swiping
      /\ web'.late = web.late /\ web'.scripts = web.scripts /\ web'.overlap = web.overlap
  BY <1>1, PageIsDocument DEF WebViews
<1>3. Reading'
  BY <1>2 DEF IInv, Reading
<1>4. UNCHANGED <<session, asked, list, screen, header, bounds>>
  BY DEF PageCommitted, provider
<1>5. timer' \in {timer, NoTimer} /\ homeService' \in BOOLEAN
  BY DEF IInv, TypeOK, ProviderOK, PageCommitted, provider
<1> QED
  BY <1>2, <1>3, <1>4, <1>5, DelegateStep, Unhindered

(* The end of a navigation that w no longer has.                           *)
LEMMA FinishedStep ==
  ASSUME IInv, NEW w \in WebViews,
         w.completion = web.completion, w.force = web.force, w.working = web.working,
         w.swiping = web.swiping, w.scripts = web.scripts, w.overlap = web.overlap,
         w.nav \in {"committed", "stopped"} => w.doc.page = w.url,
         w.completion = "detail" /\ ~w.overlap =>
           ~w.late /\ w.nav # "received" /\ w.doc.page = w.url,
         Finished(w)
  PROVE  IInv'
<1>1. UNCHANGED <<session, asked, list, screen, bounds>>
  BY DEF Finished, Network
<1>2. w.swiping => header # "invisible"
  BY DEF IInv, HeaderWhileSwiping
<1>3. w.completion = "detail" /\ ~w.overlap =>
        \A i \in 1..Len(w.scripts) : w.scripts[i].page = w.working
  BY DEF IInv, Reading
<1>4. BoundsOK'
  BY <1>1 DEF IInv, TypeOK, BoundsOK, bounds
<1>5. \/ web' = w /\ UNCHANGED <<timer, homeService, header>>
      \/ /\ web' = WithDialog(HeaderClosed(w), "shown")
         /\ header' = "invisible" /\ ServiceMessage
      \/ web' = WithDialog(w, "refused") /\ UNCHANGED header /\ ServiceMessage
      \/ /\ web' \in ReadPage(WithDialog(w, "hidden"))
         /\ HideDialog(w) /\ UNCHANGED header
  BY DEF Finished
<1>6. CASE web' = w /\ UNCHANGED <<timer, homeService, header>>
  <2>1. Reading'
    BY <1>3, <1>6 DEF Reading
  <2>2. timer' \in {timer, NoTimer} /\ homeService' \in BOOLEAN
    BY <1>6 DEF IInv, TypeOK, ProviderOK
  <2> QED
    BY <1>1, <1>2, <1>4, <1>6, <2>1, <2>2, DelegateStep
<1>7. CASE /\ web' = WithDialog(HeaderClosed(w), "shown")
           /\ header' = "invisible" /\ ServiceMessage
  <2>1. Halted(HeaderClosed(w), w) /\ ~HeaderClosed(w).swiping
    BY <1>2, ClosedFacts
  <2>2. Halted(web', HeaderClosed(w)) /\ ~web'.swiping
    BY <1>7, <2>1, DialogFacts DEF Halted
  <2>3. Halted(web', w)
    BY <2>1, <2>2, HaltedTwice
  <2>4. Reading'
    BY <1>3, <2>3 DEF Halted, Reading
  <2> QED
    BY <1>1, <1>4, <1>7, <2>2, <2>3, <2>4, DelegateStep, ServiceMessageFacts DEF Halted
<1>9. CASE web' = WithDialog(w, "refused") /\ UNCHANGED header /\ ServiceMessage
  <2>1. Halted(web', w) /\ web'.swiping = w.swiping
    BY <1>9, DialogFacts
  <2>2. Reading'
    BY <1>3, <2>1 DEF Halted, Reading
  <2> QED
    BY <1>1, <1>2, <1>4, <1>9, <2>1, <2>2, DelegateStep, ServiceMessageFacts DEF Halted
<1>8. CASE /\ web' \in ReadPage(WithDialog(w, "hidden"))
           /\ HideDialog(w) /\ UNCHANGED header
  <2> DEFINE u == WithDialog(w, "hidden")
  <2>1. Halted(u, w) /\ u.nav = w.nav /\ u.swiping = w.swiping
    BY DialogFacts
  <2>2. web' \in ReadPage(u)
    BY <1>8
  <2> HIDE DEF u
  <2>3. u \in WebViews
    BY <2>1 DEF Halted
  <2>4. /\ web' \in WebViews
        /\ web'.completion = w.completion /\ web'.force = w.force
        /\ web'.working = w.working /\ web'.swiping = w.swiping
        /\ web'.nav = w.nav /\ web'.doc = w.doc /\ web'.url = w.url
        /\ web'.late = w.late /\ web'.overlap = w.overlap
        /\ \/ web'.scripts = w.scripts
           \/ /\ w.url = w.working
              /\ \E d \in Documents : /\ web'.scripts = Append(w.scripts, d)
                                      /\ w.nav # "received" => d = w.doc
    BY <2>1, <2>2, <2>3, ReadFacts DEF Halted
  <2>5. web'.completion = "detail" /\ ~web'.overlap =>
          \A i \in 1..Len(web'.scripts) : web'.scripts[i].page = web'.working
    <3> SUFFICES ASSUME web'.completion = "detail", ~web'.overlap
                 PROVE  \A i \in 1..Len(web'.scripts) : web'.scripts[i].page = web'.working
      OBVIOUS
    <3>1. w.nav # "received" /\ w.doc.page = w.url
      BY <2>4
    <3>2. CASE web'.scripts = w.scripts
      BY <1>3, <2>4, <3>2
    <3>3. CASE w.url = w.working /\ web'.scripts = Append(w.scripts, w.doc)
      <4>1. w.scripts \in Seq(Documents)
        BY DEF WebViews
      <4> QED
        BY <1>3, <2>4, <3>1, <3>3, <4>1
    <3> QED
      BY <2>4, <3>1, <3>2, <3>3
  <2>6. Reading'
    BY <2>4, <2>5 DEF Reading
  <2> QED
    BY <1>1, <1>2, <1>4, <1>8, <2>4, <2>6, DelegateStep, HideDialogFacts
<1> QED
  BY <1>5, <1>6, <1>7, <1>8, <1>9

LEMMA PageFinishedStep == ASSUME IInv, PageFinished \/ LatePageFinished PROVE IInv'
<1>1. web \in WebViews
  BY DEF IInv, TypeOK
<1>2. CASE PageFinished
  <2> DEFINE w == [web EXCEPT !.nav = "none"]
  <2>1. /\ w \in WebViews /\ w.nav = "none"
        /\ w.completion = web.completion /\ w.force = web.force /\ w.working = web.working
        /\ w.swiping = web.swiping /\ w.scripts = web.scripts /\ w.overlap = web.overlap
        /\ w.doc = web.doc /\ w.url = web.url /\ w.late = web.late
    BY <1>1 DEF WebViews
  <2>2. Finished(w) /\ web.nav \in {"committed", "stopped"}
    BY <1>2 DEF PageFinished
  <2> HIDE DEF w
  <2>3. w.doc.page = w.url /\ (w.completion = "detail" /\ ~w.overlap => ~w.late)
    BY <2>1, <2>2 DEF IInv, Reading
  <2> QED
    BY <2>1, <2>2, <2>3, FinishedStep
<1>3. CASE LatePageFinished
  <2> DEFINE w == [web EXCEPT !.late = FALSE]
  <2>1. /\ w \in WebViews /\ w.nav = web.nav
        /\ w.completion = web.completion /\ w.force = web.force /\ w.working = web.working
        /\ w.swiping = web.swiping /\ w.scripts = web.scripts /\ w.overlap = web.overlap
        /\ w.doc = web.doc /\ w.url = web.url
    BY <1>1 DEF WebViews
  <2>2. Finished(w) /\ web.late
    BY <1>3 DEF LatePageFinished
  <2> HIDE DEF w
  <2>3. /\ w.nav \in {"committed", "stopped"} => w.doc.page = w.url
        /\ ~(w.completion = "detail" /\ ~w.overlap)
    BY <2>1, <2>2 DEF IInv, Reading
  <2> QED
    BY <2>1, <2>2, <2>3, FinishedStep
<1> QED
  BY <1>2, <1>3

LEMMA PageLostStep == ASSUME IInv, PageLost PROVE IInv'
<1>1. web \in WebViews /\ web' = [web EXCEPT !.nav = "none", !.url = web.doc.page]
  BY DEF IInv, TypeOK, PageLost
<1>2. web.doc.page \in Locations
  BY <1>1 DEF WebViews, Documents
<1>3. /\ web' \in WebViews /\ web'.nav = "none"
      /\ web'.completion = web.completion /\ web'.force = web.force
      /\ web'.working = web.working /\ web'.swiping = web.swiping
      /\ web'.late = web.late /\ web'.scripts = web.scripts /\ web'.overlap = web.overlap
  BY <1>1, <1>2 DEF WebViews
<1>4. Reading'
  BY <1>3 DEF IInv, Reading
<1>5. /\ BoundsOK' /\ header' \in {header, "invisible"}
      /\ web.swiping => header' # "invisible"
  BY DEF IInv, TypeOK, BoundsOK, HeaderWhileSwiping, PageLost
<1>6. /\ UNCHANGED <<session, asked, list, screen>>
      /\ timer' \in {timer, NoTimer} /\ homeService' \in BOOLEAN
  BY DEF IInv, TypeOK, ProviderOK, PageLost, provider
<1> QED
  BY <1>3, <1>4, <1>5, <1>6, DelegateStep

LEMMA PageFailedStep == ASSUME IInv, PageFailed PROVE IInv'
<1>1. /\ web \in WebViews
      /\ \/ web' = [Taken(web) EXCEPT !.nav = "none"]
         \/ web' = [web EXCEPT !.nav = "none"]
  BY DEF IInv, TypeOK, PageFailed, FailureReported
<1>2. /\ web' \in WebViews /\ web'.nav = "none"
      /\ \/ web'.completion = "none"
         \/ /\ web'.completion = web.completion /\ web'.force = web.force
            /\ web'.working = web.working /\ web'.late = web.late
            /\ web'.scripts = web.scripts /\ web'.overlap = web.overlap
      /\ web'.swiping = web.swiping
  BY <1>1 DEF WebViews, Taken, Completions
<1>3. Reading'
  BY <1>2 DEF IInv, Reading
<1>4. /\ BoundsOK' /\ header' \in {header, "invisible"}
      /\ web.swiping => header' # "invisible"
  BY DEF IInv, TypeOK, BoundsOK, HeaderWhileSwiping, PageFailed
<1>5. /\ UNCHANGED <<session, asked, list, screen>>
      /\ timer' \in {timer, NoTimer} /\ homeService' \in BOOLEAN
  BY DEF IInv, TypeOK, ProviderOK, PageFailed, FailureReported
<1> QED
  BY <1>2, <1>3, <1>4, <1>5, DelegateStep

(* Reading the page again while swiping, and the end of the swiping.       *)
LEMMA SwipingStep ==
  ASSUME IInv, PageGrows \/ CyclicSwipe \/ FinishSwiping PROVE IInv'
<1>1. web \in WebViews
  BY DEF IInv, TypeOK
<1>2. UNCHANGED <<session, asked, list, screen, header, bounds>>
  BY DEF PageGrows, CyclicSwipe, FinishSwiping, provider
<1>3. timer' \in {timer, NoTimer} /\ homeService' \in BOOLEAN
  BY DEF IInv, TypeOK, ProviderOK, PageGrows, CyclicSwipe, FinishSwiping, provider
<1>4. ASSUME PageGrows PROVE IInv'
  <2> DEFINE grown == [web.doc EXCEPT !.size = @ + 1]
  <2>1. web' = [web EXCEPT !.doc = grown]
    BY <1>4 DEF PageGrows
  <2>2. grown \in Documents /\ grown.page = web.doc.page
    BY <1>1, <1>4, WebBoundAssumption DEF PageGrows, WebViews, Documents
  <2> HIDE DEF grown
  <2>3. /\ web' \in WebViews /\ web'.doc.page = web.doc.page
        /\ web'.completion = web.completion /\ web'.force = web.force
        /\ web'.working = web.working /\ web'.swiping = web.swiping
        /\ web'.nav = web.nav /\ web'.url = web.url
        /\ web'.late = web.late /\ web'.scripts = web.scripts /\ web'.overlap = web.overlap
    BY <1>1, <2>1, <2>2 DEF WebViews
  <2>4. Reading'
    BY <2>3 DEF IInv, Reading
  <2> QED
    BY <1>2, <1>3, <2>3, <2>4, DelegateStep, Unhindered
<1>5. ASSUME CyclicSwipe PROVE IInv'
  <2>1. web.swiping /\ web' \in ReadPage(web)
    BY <1>5 DEF CyclicSwipe
  <2>2. /\ web' \in WebViews
        /\ web'.completion = web.completion /\ web'.force = web.force
        /\ web'.working = web.working /\ web'.swiping = web.swiping
        /\ web'.nav = web.nav /\ web'.doc = web.doc /\ web'.url = web.url
    BY <1>1, <2>1, ReadFacts
  <2>3. Reading'
    BY <2>1, <2>2 DEF IInv, Reading, Roles
  <2> QED
    BY <1>2, <1>3, <2>2, <2>3, DelegateStep, Unhindered
<1>6. ASSUME FinishSwiping PROVE IInv'
  <2>1. web' = SwipingFinished(web)
    BY <1>6 DEF FinishSwiping
  <2>2. /\ web' \in WebViews
        /\ web'.completion = web.completion /\ web'.force = web.force
        /\ web'.working = web.working /\ ~web'.swiping
        /\ web'.nav = web.nav /\ web'.doc = web.doc /\ web'.url = web.url
        /\ web'.late = web.late /\ web'.scripts = web.scripts /\ web'.overlap = web.overlap
    BY <1>1, <2>1 DEF WebViews, SwipingFinished
  <2>3. Reading'
    BY <2>2 DEF IInv, Reading
  <2> QED
    BY <1>2, <1>3, <2>2, <2>3, DelegateStep, Unhindered
<1> QED
  BY <1>4, <1>5, <1>6

-----------------------------------------------------------------------------
(* The invariant is inductive: answers and retries *)

(* What the first script has read, and the web view without that script.   *)
LEMMA RestFacts ==
  ASSUME IInv, web.scripts # <<>>
  PROVE  /\ Rest \in WebViews /\ Answer \in Documents
         /\ Rest.completion = web.completion /\ Rest.force = web.force
         /\ Rest.working = web.working /\ Rest.swiping = web.swiping
         /\ Rest.nav = web.nav /\ Rest.doc = web.doc /\ Rest.url = web.url
         /\ Rest.late = web.late /\ Rest.overlap = web.overlap
         /\ web.completion = "detail" /\ ~web.overlap =>
              /\ Answer.page = web.working
              /\ \A i \in 1..Len(Rest.scripts) : Rest.scripts[i].page = web.working
<1>1. web \in WebViews /\ web.scripts \in Seq(Documents)
  BY DEF IInv, TypeOK, WebViews
<1>2. /\ Answer \in Documents /\ Answer = web.scripts[1] /\ 1 \in 1..Len(web.scripts)
      /\ Tail(web.scripts) \in Seq(Documents)
      /\ Len(Tail(web.scripts)) = Len(web.scripts) - 1
      /\ \A i \in 1..Len(Tail(web.scripts)) :
           Tail(web.scripts)[i] = web.scripts[i + 1] /\ i + 1 \in 1..Len(web.scripts)
  BY <1>1, HeadTailProperties DEF Answer
<1>3. /\ Rest \in WebViews /\ Rest.scripts = Tail(web.scripts)
      /\ Rest.completion = web.completion /\ Rest.force = web.force
      /\ Rest.working = web.working /\ Rest.swiping = web.swiping
      /\ Rest.nav = web.nav /\ Rest.doc = web.doc /\ Rest.url = web.url
      /\ Rest.late = web.late /\ Rest.overlap = web.overlap
  BY <1>1, <1>2 DEF Rest, WebViews
<1>4. web.completion = "detail" /\ ~web.overlap =>
        \A i \in 1..Len(web.scripts) : web.scripts[i].page = web.working
  BY DEF IInv, Reading
<1> QED
  BY <1>2, <1>3, <1>4

LEMMA UnusedAnswerStep == ASSUME IInv, AnswerDropped \/ LoginAnswered PROVE IInv'
<1>1. web.scripts # <<>>
  BY DEF AnswerDropped, LoginAnswered, Wanted
<1>2. UNCHANGED <<session, asked, list, screen, header, bounds>>
  BY DEF AnswerDropped, LoginAnswered, provider
<1>3. timer' \in {timer, NoTimer} /\ homeService' \in BOOLEAN
  BY DEF IInv, TypeOK, ProviderOK, AnswerDropped, LoginAnswered, provider
<1>4. ASSUME AnswerDropped PROVE IInv'
  <2>1. web' = Rest
    BY <1>4 DEF AnswerDropped
  <2>2. Reading'
    BY <1>1, <2>1, RestFacts DEF IInv, Reading
  <2> QED
    BY <1>1, <1>2, <1>3, <2>1, <2>2, RestFacts, DelegateStep, Unhindered
<1>5. ASSUME LoginAnswered PROVE IInv'
  <2>1. web' = Answered(Rest, Answer)
    BY <1>5 DEF LoginAnswered
  <2>2. /\ web' \in WebViews /\ web'.completion = "none" /\ web'.swiping = web.swiping
        /\ web'.nav = web.nav /\ web'.doc = web.doc /\ web'.url = web.url
    BY <1>1, <2>1, RestFacts, AnsweredFacts
  <2>3. Reading'
    BY <2>2 DEF IInv, Reading
  <2> QED
    BY <1>2, <1>3, <2>2, <2>3, DelegateStep, Unhindered
<1> QED
  BY <1>4, <1>5

LEMMA FriendsUpdatedFacts ==
  ASSUME IInv, NEW newdb \in [Friends -> Persons], FriendsUpdated(newdb),
         \A f \in Friends : newdb[f] \in {db[f], Ready},
         UNCHANGED <<current, asked, alert>>
  PROVE  /\ ListOK' /\ ScreenOK' /\ AlertOK' /\ HeaderOK'
         /\ ListShowsStored' /\ Indicators' /\ Requests' /\ header' # "invisible"
<1>1. /\ db' = newdb /\ rows' = newdb /\ detached' = TRUE /\ updating' = {}
      /\ tapped' = (IF alert = "loading" THEN [tapped EXCEPT !.old = TRUE] ELSE tapped)
      /\ outlived' = outlived \cap {current}
      /\ header' \in {"someLoaded", "loading"}
  BY DEF FriendsUpdated
<1>2. ListOK' /\ ScreenOK' /\ HeaderOK'
  BY <1>1 DEF IInv, TypeOK, ListOK, ScreenOK, HeaderOK
<1>3. alert = "loading" => /\ tapped' \in Objects /\ tapped'.old
                           /\ tapped'.asked = tapped.asked /\ tapped'.friend = tapped.friend
  BY <1>1 DEF IInv, TypeOK, AlertOK, Objects
<1>4. AlertOK'
  BY <1>1, <1>3 DEF IInv, TypeOK, AlertOK
<1>5. ListShowsStored' /\ Indicators'
  BY <1>1 DEF ListShowsStored, Indicators, OneIndicator
<1>6. Requests'
  <2>1. current # NoFriend => current \in Friends
    BY DEF IInv, TypeOK, ScreenOK
  <2>2. current # NoFriend /\ current \notin outlived' => db'[current] = Ready
    BY <1>1, <2>1 DEF IInv, Requests
  <2> QED
    BY <1>3, <2>2 DEF IInv, Requests
<1> QED
  BY <1>1, <1>2, <1>4, <1>5, <1>6

LEMMA ListAnsweredStep == ASSUME IInv, HomeAnswered \/ FriendsAnswered PROVE IInv'
<1>1. web.scripts # <<>> /\ UNCHANGED <<session, asked, current, alert, bounds>>
  BY DEF HomeAnswered, FriendsAnswered, AnswerTo, Wanted
<1> DEFINE w == Answered(Rest, Answer)
<1>2. /\ w \in WebViews /\ w.nav = web.nav /\ w.doc = web.doc /\ w.url = web.url
  BY <1>1, RestFacts, AnsweredFacts
<1>3. NoTimer \in Timers /\ NoTimer.page = Home
  BY FriendsBoundAssumption DEF NoTimer, Timers
<1>4. session' \in BOOLEAN /\ BoundsOK'
  BY <1>1 DEF IInv, TypeOK, BoundsOK, bounds
<1>5. ASSUME HomeAnswered PROVE IInv'
  <2>1. db \in [Friends -> Persons] /\ FriendsUpdated(db)
    BY <1>5 DEF IInv, TypeOK, ListOK, HomeAnswered
  <2>2. web' = Load(w, FriendsPage, "friends", FALSE)
    BY <1>5 DEF HomeAnswered
  <2> HIDE DEF w
  <2>3. web' \in WebViews /\ web'.completion = "friends" /\ web'.nav = "loading"
    <3>1. FriendsPage \in Locations
      BY Names
    <3> QED
      BY <1>2, <2>2, <3>1, LoadFacts
  <2>4. timer' = NoTimer /\ homeService' = FALSE
    BY <1>5 DEF HomeAnswered
  <2>5. /\ ListOK' /\ ScreenOK' /\ AlertOK' /\ HeaderOK'
        /\ ListShowsStored' /\ Indicators' /\ Requests' /\ header' # "invisible"
    BY <1>1, <2>1, FriendsUpdatedFacts
  <2>6. ProviderOK'
    BY <1>1, <1>3, <2>4 DEF IInv, TypeOK, ProviderOK
  <2>7. Roles' /\ Quiet' /\ Reading' /\ HeaderWhileSwiping'
    BY <1>3, <2>3, <2>4, <2>5 DEF Roles, Quiet, Reading, HeaderWhileSwiping
  <2> QED
    BY <1>4, <2>3, <2>5, <2>6, <2>7 DEF IInv, TypeOK
<1>6. ASSUME FriendsAnswered PROVE IInv'
  <2>1. PICK newdb \in [Friends -> Persons] :
          FriendsUpdated(newdb) /\ \A f \in Friends : newdb[f] \in {db[f], Ready}
    <3>1. Ready \in Persons
      BY DEF Persons
    <3>2. [f \in Friends |-> Ready] \in [Friends -> Persons] /\ db \in [Friends -> Persons]
      BY <3>1 DEF IInv, TypeOK, ListOK
    <3>3. FriendsUpdated(IF Answer.page = FriendsPage THEN [f \in Friends |-> Ready] ELSE db)
      BY <1>6 DEF FriendsAnswered
    <3> QED
      BY <3>2, <3>3
  <2>2. web' = Swipe(w, "friends") /\ UNCHANGED <<timer, homeService>>
    BY <1>6 DEF FriendsAnswered
  <2> HIDE DEF w
  <2>3. /\ web' \in WebViews /\ web'.completion = "friends"
        /\ web'.nav = web.nav /\ web'.doc = web.doc /\ web'.url = web.url
    BY <1>2, <2>2, SwipeFacts
  <2>4. timer.page = Home
    BY <1>6 DEF IInv, Roles, FriendsAnswered, AnswerTo
  <2>5. /\ ListOK' /\ ScreenOK' /\ AlertOK' /\ HeaderOK'
        /\ ListShowsStored' /\ Indicators' /\ Requests' /\ header' # "invisible"
    BY <1>1, <2>1, FriendsUpdatedFacts
  <2>6. ProviderOK'
    BY <1>1, <2>2 DEF IInv, TypeOK, ProviderOK
  <2>7. Roles' /\ Quiet' /\ Reading' /\ HeaderWhileSwiping'
    BY <2>2, <2>3, <2>4, <2>5 DEF IInv, Roles, Quiet, Reading, HeaderWhileSwiping
  <2> QED
    BY <1>4, <2>3, <2>5, <2>6, <2>7 DEF IInv, TypeOK
<1> QED
  BY <1>5, <1>6

(* The person object of a detail page is listed, or its request began with *)
(* an object of an earlier list: Roles.                                    *)
LEMMA DetailAnsweredStep == ASSUME IInv, DetailAnswered PROVE IInv'
<1>1. /\ web.scripts # <<>> /\ web.completion = "detail"
      /\ UNCHANGED <<session, homeService, asked, outlived, alerts, bounds>>
  BY DEF DetailAnswered, Wanted
<1>2. /\ ~web.swiping /\ web.working = asked /\ (detached => asked \in outlived)
      /\ header = "invisible" /\ alert # "loading"
  BY <1>1 DEF IInv, Roles, Quiet
<1> DEFINE w == Answered(Rest, Answer)
<1>3. /\ w \in WebViews /\ w.completion = "none" /\ ~w.swiping
      /\ w.nav = web.nav /\ w.doc = web.doc /\ w.url = web.url
  BY <1>1, <1>2, RestFacts, AnsweredFacts
<1>4. web' \in {w, HeaderClosed(w)} /\ header' = "invisible"
  BY <1>2 DEF DetailAnswered
<1> HIDE DEF w
<1>5. Halted(web', w) /\ ~web'.swiping
  <2>1. Halted(w, w)
    BY <1>3 DEF Halted
  <2> QED
    BY <1>3, <1>4, <2>1, ClosedFacts
<1>6. timer' = NoTimer /\ NoTimer \in Timers /\ NoTimer.page = Home
  BY FriendsBoundAssumption DEF DetailAnswered, NoTimer, Timers
<1>7. asked \in Friends
  <2>1. asked \in Friends \cup {NoFriend} /\ web.working \in Locations
    BY DEF IInv, TypeOK, ProviderOK, WebViews
  <2> QED
    BY <1>2, <2>1, FriendsAssumption
<1>8. PICK found \in Persons : BirthdayUpdated(asked, found)
  <2>1. Answer.page \in Locations
    BY <1>1, RestFacts DEF Documents
  <2> DEFINE found == [status |-> IF Answer.page \in Public THEN "completed" ELSE "failed",
                       from |-> Answer.page]
  <2>2. found \in Persons
    BY <2>1 DEF Persons
  <2>3. BirthdayUpdated(asked, found)
    BY DEF DetailAnswered
  <2> QED
    BY <2>2, <2>3
<1>9. /\ rows' \in [Friends -> Persons] /\ detached' \in BOOLEAN
      /\ detached' => detached
      /\ updating' = updating \ {asked}
      /\ \A g \in Friends : rows'[g] # rows[g] => g = asked /\ rows'[g] = found
      /\ ~detached' => rows'[asked] = found
  <2>1. CellReloaded(asked, found, detached, FALSE) /\ detached \in BOOLEAN
    BY <1>8 DEF BirthdayUpdated, IInv, TypeOK, ScreenOK
  <2> QED
    <3>1. /\ Relisted(asked, found) \/ (Unlisted(asked) /\ detached)
          /\ updating' = updating \ {asked}
      BY <2>1 DEF CellReloaded, Relisted, Unlisted
    <3>2. /\ rows' \in [Friends -> Persons] /\ detached' \in BOOLEAN
          /\ \A g \in Friends : rows'[g] # rows[g] => g = asked /\ rows'[g] = found
          /\ ~detached' => rows'[asked] = found
      BY <1>7, <3>1, CellFacts
    <3>3. detached' => detached
      BY <3>1 DEF Relisted
    <3> QED
      BY <3>1, <3>2, <3>3
<1>10. db' = [db EXCEPT ![asked] = found]
  BY <1>8 DEF BirthdayUpdated
<1>11. ListOK' /\ ListShowsStored'
  <2>1. ListOK'
    BY <1>1, <1>9, <1>10 DEF IInv, TypeOK, ListOK
  <2>2. \A g \in Friends : db'[g] = IF g = asked THEN found ELSE db[g]
    BY <1>10 DEF IInv, TypeOK, ListOK
  <2>3. detached' => asked \in outlived'
    BY <1>1, <1>2, <1>9
  <2>4. ListShowsStored'
    BY <1>1, <1>9, <2>2, <2>3 DEF IInv, ListShowsStored
  <2> QED
    BY <2>1, <2>4
<1>12. current' = NoFriend /\ updating' = {}
  <2>1. current' \in {current, NoFriend} /\ (current = asked => current' = NoFriend)
    BY DEF DetailAnswered
  <2>2. current \in {NoFriend, asked} /\ updating \subseteq {current}
        /\ updating \subseteq Friends
    BY DEF IInv, TypeOK, ScreenOK, Requests, Indicators, OneIndicator
  <2> QED
    BY <1>9, <2>1, <2>2, Names
<1>13. Indicators' /\ Requests'
  BY <1>1, <1>2, <1>12 DEF Indicators, OneIndicator, Requests, alerts
<1>14. TypeOK'
  <2>1. ProviderOK' /\ ScreenOK' /\ AlertOK'
    BY <1>1, <1>6, <1>9, <1>12 DEF IInv, TypeOK, ProviderOK, ScreenOK, AlertOK, alerts
  <2>2. HeaderOK'
    BY <1>4 DEF HeaderOK
  <2>3. session' \in BOOLEAN /\ BoundsOK'
    BY <1>1 DEF IInv, TypeOK, BoundsOK, bounds
  <2> QED
    BY <1>5, <1>11, <2>1, <2>2, <2>3 DEF TypeOK, Halted
<1>15. Roles' /\ Quiet' /\ HeaderWhileSwiping'
  BY <1>3, <1>5, <1>6 DEF Roles, Quiet, HeaderWhileSwiping, Halted
<1>16. Reading'
  BY <1>3, <1>5 DEF IInv, Reading, Halted
<1> QED
  BY <1>11, <1>13, <1>14, <1>15, <1>16 DEF IInv

(* A retry for a detail page asks again for the person asked for last.     *)
LEMMA TimerFiresStep == ASSUME IInv, TimerFires PROVE IInv'
<1>1. /\ web \in WebViews /\ timer \in Timers /\ timer.left \in Nat /\ timer.left > 0
      /\ timer' = [timer EXCEPT !.left = @ - 1]
      /\ UNCHANGED <<session, asked, list, screen, header, taps>>
  BY DEF IInv, TypeOK, ProviderOK, Timers, TimerFires
<1>2. timer' \in Timers /\ timer'.page = timer.page
  BY <1>1, FriendsBoundAssumption DEF Timers
<1> DEFINE w == Stop(web)
<1>3. w \in WebViews /\ ~w.swiping
  BY <1>1, StopFacts DEF Halted
<1>4. \/ /\ timer.page = Home
         /\ web' = Load(w, Home, "home", FALSE) /\ homeService' = TRUE
      \/ /\ timer.page # Home
         /\ web' = Load(w, timer.page, "detail", TRUE) /\ UNCHANGED homeService
  BY DEF TimerFires
<1> HIDE DEF w
<1>5. session' \in BOOLEAN /\ HeaderOK' /\ BoundsOK'
  <2>1. faults' = faults \/ faults' = faults + 1
    BY DEF TimerFires
  <2> QED
    BY <1>1, <2>1 DEF IInv, TypeOK, HeaderOK, BoundsOK
<1>6. ListOK' /\ ScreenOK' /\ AlertOK' /\ Indicators' /\ ListShowsStored' /\ Requests'
  BY <1>1
  DEF IInv, TypeOK, ListOK, ScreenOK, AlertOK, Indicators, OneIndicator, ListShowsStored,
      Requests, list, screen, alerts
<1>7. ProviderOK'
  BY <1>1, <1>2, <1>4 DEF IInv, TypeOK, ProviderOK
<1>8. web' \in WebViews /\ Roles' /\ Quiet' /\ Reading' /\ HeaderWhileSwiping'
  <2>1. CASE timer.page = Home
    <3>1. /\ web' \in WebViews /\ web'.completion = "home" /\ web'.nav = "loading"
          /\ ~web'.swiping
      <4> DEFINE v == Load(w, Home, "home", FALSE)
      <4>1. Home \in Locations
        BY Names
      <4>2. /\ v \in WebViews /\ v.completion = "home" /\ v.nav = "loading"
            /\ v.swiping = w.swiping
        BY <1>3, <4>1, LoadFacts
      <4>3. web' = v
        BY <1>4, <2>1
      <4> QED
        BY <1>3, <4>2, <4>3
    <3> QED
      BY <1>2, <2>1, <3>1 DEF Roles, Quiet, Reading, HeaderWhileSwiping
  <2>2. CASE timer.page # Home
    <3>1. /\ timer.page = asked /\ (detached => asked \in outlived)
          /\ header = "invisible" /\ alert # "loading"
          /\ UNCHANGED <<asked, detached, outlived, header, alert>>
      BY <1>1, <2>2 DEF IInv, Roles, Quiet, list, screen, alerts
    <3>2. timer.page \in Locations
      BY <1>1, <2>2, Names DEF Timers
    <3>3. /\ web' \in WebViews /\ web'.completion = "detail" /\ web'.force
          /\ web'.working = timer.page
          /\ ~web'.swiping /\ web'.nav = "loading"
          /\ ~web'.overlap => ~web'.late /\ web'.scripts = <<>>
      <4> DEFINE v == Load(w, timer.page, "detail", TRUE)
      <4>1. /\ v \in WebViews /\ v.completion = "detail" /\ v.force
            /\ v.working = timer.page /\ v.swiping = w.swiping /\ v.nav = "loading"
            /\ ~v.overlap => ~v.late /\ v.scripts = <<>>
        BY <1>3, <3>2, LoadDetailFacts
      <4>2. web' = v
        BY <1>4, <2>2
      <4> QED
        BY <1>3, <4>1, <4>2
    <3> QED
      BY <1>2, <3>1, <3>3 DEF Roles, Quiet, Reading, HeaderWhileSwiping
  <2> QED
    BY <2>1, <2>2
<1> QED
  BY <1>5, <1>6, <1>7, <1>8 DEF IInv, TypeOK

LEMMA NextInvariant == ASSUME IInv, [Next]_vars PROVE IInv'
<1>1. CASE User
  BY <1>1, UpdateFriendsStep, HaltedByUser, SignInStep, TapFriendStep,
     CancelLoadAndSelectStep DEF User
<1>2. CASE Scripts
  BY <1>2, UnusedAnswerStep, ListAnsweredStep, DetailAnsweredStep DEF Scripts
<1>3. CASE TimerFires
  BY <1>3, TimerFiresStep
<1>4. CASE PageResponds \/ PageCommitted \/ PageFinished \/ LatePageFinished
  BY <1>4, PageRespondsStep, PageCommittedStep, PageFinishedStep
<1>5. CASE PageLost \/ PageFailed
  BY <1>5, PageLostStep, PageFailedStep
<1>6. CASE PageGrows \/ CyclicSwipe \/ FinishSwiping
  BY <1>6, SwipingStep
<1>7. CASE UNCHANGED vars
  <2>1. UNCHANGED <<web, session, timer, homeService, asked, current, detached, rows,
                    updating, db, header, alert, tapped, outlived, taps, faults>>
    BY <1>7 DEF vars, provider, list, screen, alerts, bounds
  <2>2. TypeOK'
    BY <2>1 DEF IInv, TypeOK, ProviderOK, ListOK, ScreenOK, AlertOK, HeaderOK, BoundsOK
  <2>3. Indicators' /\ Roles' /\ Quiet' /\ Requests'
    BY <2>1 DEF IInv, Indicators, OneIndicator, Roles, Quiet, Requests
  <2>4. Reading' /\ ListShowsStored' /\ HeaderWhileSwiping'
    BY <2>1 DEF IInv, Reading, ListShowsStored, HeaderWhileSwiping
  <2> QED
    BY <2>2, <2>3, <2>4 DEF IInv
<1> QED
  BY <1>1, <1>2, <1>3, <1>4, <1>5, <1>6, <1>7 DEF Next

LEMMA Invariant == Spec => []IInv
<1>1. Init => IInv
  BY InitInvariant
<1>2. IInv /\ [Next]_vars => IInv'
  BY NextInvariant
<1> QED
  BY <1>1, <1>2, PTL DEF Spec

-----------------------------------------------------------------------------
(* What the loading of friends promises *)

(* Every slot of the web view, the provider, the screen and the list keeps *)
(* its type: the person asked for is one, and a script reads a page.       *)
THEOREM TypeCorrect == Spec => []TypeOK
<1>1. IInv => TypeOK
  BY DEF IInv
<1> QED
  BY <1>1, Invariant, PTL

(* The activity indicators of the list: at most one, and of the person of  *)
(* the running request (currentPerson_), whichever taps, answers and       *)
(* updates of the list come in between.                                    *)
THEOREM IndicatorOfRequest == Spec => []OneIndicator
<1>1. IInv => OneIndicator
  BY DEF IInv, Indicators
<1> QED
  BY <1>1, Invariant, PTL

(* The list on the screen agrees with the database: the completion, the    *)
(* retries and the list change together, so an answer finds its person     *)
(* object replaced only if the request began with an object of an earlier  *)
(* list, which the "Cancel friends loading" alert had kept.                *)
THEOREM ListIsStored == Spec => []ListShowsStored
<1>1. IInv => ListShowsStored
  BY DEF IInv
<1> QED
  BY <1>1, Invariant, PTL

(* The web view swipes only under a visible header: every path that hides  *)
(* the header (cancel, a tap on a friend, the login dialog, a birthday     *)
(* that was found) also stops the swiping.                                 *)
THEOREM SwipingHasHeader == Spec => []HeaderWhileSwiping
<1>1. IInv => HeaderWhileSwiping
  BY DEF IInv
<1> QED
  BY <1>1, Invariant, PTL

(* A stored birthday was read from the person's own page, if the request   *)
(* did not overlap with what was left of an earlier load: the scripts and  *)
(* the page in the web view are those of the person who waits.             *)
THEOREM ResultFromOwnPage == Spec => OwnPage
<1> DEFINE Step == \A f \in Friends :
                     db'[f] # db[f] => db'[f].from \in {f, NoFriend} \/ web.overlap
<1>1. ASSUME IInv, [Next]_vars PROVE Step
  <2>1. db \in [Friends -> Persons]
    BY <1>1 DEF IInv, TypeOK, ListOK
  <2>2. CASE DetailAnswered
    <3>1. /\ web.scripts # <<>> /\ web.completion = "detail"
          /\ \E s : db' = [db EXCEPT ![asked] = [status |-> s, from |-> Answer.page]]
      BY <2>2 DEF DetailAnswered, BirthdayUpdated, Wanted
    <3>2. ~web.overlap => Answer.page = asked
      BY <1>1, <3>1, RestFacts DEF IInv, Roles
    <3> QED
      BY <2>1, <3>1, <3>2
  <2>3. CASE FriendsAnswered
    BY <2>1, <2>3 DEF FriendsAnswered, FriendsUpdated, Ready
  <2>4. CASE db' = db
    BY <2>4
  <2>5. CASE HomeAnswered
    BY <2>4, <2>5 DEF HomeAnswered, FriendsUpdated
  <2>6. CASE [User]_vars
    BY <1>1, <2>4, <2>6
    DEF User, UpdateFriends, TapFriend, TapWhileLoading, CancelLoadAndSelect, PersonSelected,
        SelectFinished, SelectBusy, SelectFriend, CancelFriendsLoad, CancelBirthdayLoad,
        KeepLoading, CloseDialog, SignIn, vars, list
  <2>7. CASE AnswerDropped \/ LoginAnswered \/ TimerFires
    BY <1>1, <2>4, <2>7 DEF AnswerDropped, LoginAnswered, TimerFires, list
  <2>8. CASE PageResponds \/ PageCommitted \/ PageFinished \/ LatePageFinished
    BY <1>1, <2>4, <2>8
    DEF PageResponds, PageCommitted, PageFinished, LatePageFinished, Finished, Network, list
  <2>9. CASE PageLost \/ PageFailed \/ PageGrows \/ CyclicSwipe \/ FinishSwiping
    BY <1>1, <2>4, <2>9
    DEF PageLost, PageFailed, PageGrows, CyclicSwipe, FinishSwiping, list
  <2> QED
    BY <1>1, <2>2, <2>3, <2>5, <2>6, <2>7, <2>8, <2>9 DEF Next, Scripts
<1> QED
  BY <1>1, Invariant, PTL DEF Spec, OwnPage

=============================================================================
