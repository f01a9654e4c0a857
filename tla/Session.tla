------------------------------- MODULE Session -------------------------------
(***************************************************************************)
(* The user's session: the current person in memory and as saved, the      *)
(* screens on the navigation stack, the push settings recorded as sent.    *)
(* A screen is shown by pushing it; when a transition ends, the completion *)
(* in BaseNavigationController's only slot makes its screen the whole      *)
(* stack.  Screens are asked for by the menu, by a push that was tapped    *)
(* and by answers of Facebook and of the friends' pages, which come when   *)
(* they come: also during a transition, and after the screen whose model   *)
(* asked is gone.                                                          *)
(***************************************************************************)
EXTENDS ZodiacDates, Sequences

CONSTANTS
  Births,      \* dates the user can pick
  Profiles,    \* birthdays users have on Facebook
  Texts,       \* birthdays on friends' pages
  Languages,   \* those the detector is asked to try, in order
  NoPerson,    \* person_ is null, no person is saved
  MaxSteps,    \* bound: steps of the user and of services
  MaxLaunches  \* bound: process launches

(* requestUserInformation reads the day first; Facebook writes the month   *)
(* first.                                                                  *)
ReadProfile(date) == [day |-> date.month, month |-> date.day]

Dates   == Births \cup {ReadProfile(d) : d \in Profiles}
Persons == [birth : Dates, facebook : BOOLEAN]

ASSUME SessionAssumption ==
  /\ \A b \in Births : SignOf(b) # Unknown
  /\ NoPerson \notin Persons
  /\ MaxSteps \in Nat /\ MaxLaunches \in Nat \ {0}

VARIABLES
  person,     \* components_->person_
  saved,      \* "currentPerson" in the user defaults
  sent,       \* sign in "sendedPushSettings", or Unknown
  token,      \* of the two requests for a device token: "asked", then "again"
              \* when one is answered, then "answered"
  stack,      \* the navigation controller's screens
  slot,       \* position of the screen in the completion slot, or 0
  animating,  \* transitions that have not ended
  orphans,    \* kinds of screens that are gone while their model's request runs
  process,    \* "running", or why it died
  asked,      \* history: the screen asked for last
  exposed,    \* history: the top was pushed without a completion while one waited
  late,       \* history: a login answered when nothing was to send settings
  loggedOut,  \* history: a logout that was not saved
  steps, launches

account == <<person, saved, loggedOut>>
pushes  == <<sent, token, late>>
nav     == <<stack, slot, animating, asked, exposed>>
vars    == <<account, pushes, nav, orphans, process, steps, launches>>

-----------------------------------------------------------------------------
(* Screens: whose prediction one shows ("me" is the object person_ points  *)
(* to, "old" one it pointed to, "nobody" a bare sign) and the sign it      *)
(* loaded; busy is a request of its model under way.                       *)
Screen(kind) == [kind |-> kind, who |-> "nobody", sign |-> Unknown, busy |-> FALSE]
Prediction(who, sign) == [Screen("prediction") EXCEPT !.who = who, !.sign = sign]
Own(p) == Prediction("me", SignOf(p.birth))

Top == stack[Len(stack)]

(* Screens that are pushed to stay above the one that showed them.         *)
Pushed(s) == s.kind = "pushTime" \/ s.who = "friend"

(* canIgnorePushingViewController: persons are compared by pointer, a      *)
(* person's current sign with a bare one.  No friend is shown twice.       *)
Same(s, t) ==
  /\ s.kind = t.kind
  /\ s.kind = "prediction" =>
       IF "nobody" \in {s.who, t.who}
       THEN t.sign = IF s.who = "me" THEN SignOf(person.birth) ELSE s.sign
       ELSE s.who = t.who /\ s.who # "friend"

(* What a new person object makes of a screen of the old one.              *)
Aged(s) == IF s.who = "me" THEN [s EXCEPT !.who = "old"] ELSE s
AllAged(screens) == [i \in DOMAIN screens |-> Aged(screens[i])]

(* Fault planted in Show: a completion that waits is kept.                 *)
Show_FirstStays(screens, s) ==
  /\ asked' = s
  /\ IF Same(screens[Len(screens)], s)
     THEN stack' = screens /\ UNCHANGED <<slot, animating, exposed>>
     ELSE /\ stack' = Append(screens, s)
          /\ slot' = IF slot = 0 THEN Len(stack') ELSE slot
          /\ animating' = animating + 1
          /\ exposed' = FALSE

(* pushViewController with a completion, which takes the slot.             *)
Show(screens, s) ==
  /\ asked' = s
  /\ IF Same(screens[Len(screens)], s)
     THEN stack' = screens /\ UNCHANGED <<slot, animating, exposed>>
     ELSE /\ stack' = Append(screens, s)
          /\ slot' = Len(stack')
          /\ animating' = animating + 1
          /\ exposed' = FALSE

(* UINavigationController's own push leaves the slot alone.                *)
Push(screens, s) ==
  /\ asked' = s
  /\ UNCHANGED slot
  /\ IF Same(screens[Len(screens)], s)
     THEN stack' = screens /\ UNCHANGED <<animating, exposed>>
     ELSE /\ stack' = Append(screens, s)
          /\ animating' = animating + 1
          /\ exposed' = (slot # 0)

(* sendSettingsIfNeeded, which asserts that there is a person.             *)
SendFor(p) ==
  IF p = NoPerson
  THEN process' = "asserted" /\ UNCHANGED <<sent, late>>
  ELSE sent' = SignOf(p.birth) /\ late' = FALSE /\ UNCHANGED process

Send == SendFor(person)

(* The push-time screen sends when a screen covers it.                     *)
Cover(p, l) ==
  IF Top.kind = "pushTime" THEN SendFor(p) ELSE late' = l /\ UNCHANGED <<sent, process>>

Step == process = "running" /\ steps < MaxSteps /\ steps' = steps + 1 /\ UNCHANGED launches

-----------------------------------------------------------------------------
(* The process starts.  didFinishLaunchingWithOptions constructs the       *)
(* notifications, which asks for a device token; the first prediction that *)
(* is shown asks again.  performShowingOperations shows the first screen.  *)
Launched(p) == IF p = NoPerson THEN Screen("welcome") ELSE Own(p)

Init ==
  /\ person = NoPerson /\ saved = NoPerson /\ loggedOut = FALSE
  /\ sent = Unknown /\ late = FALSE
  /\ asked = Launched(NoPerson) /\ stack = <<asked>> /\ token = "asked"
  /\ slot = 0 /\ animating = 0 /\ exposed = FALSE
  /\ orphans = {} /\ process = "running" /\ steps = 0 /\ launches = 1

Relaunch ==
  /\ launches < MaxLaunches /\ launches' = launches + 1
  /\ person' = saved /\ loggedOut' = FALSE
  /\ asked' = Launched(saved) /\ stack' = <<asked'>> /\ token' = "asked"
  /\ slot' = 0 /\ animating' = 0 /\ exposed' = FALSE
  /\ orphans' = {} /\ process' = "running"
  /\ UNCHANGED <<saved, sent, late, steps>>

-----------------------------------------------------------------------------
(* Transitions *)

(* Faults planted in DidShow: the completion stays in the slot; the screen *)
(* that is freed sends nothing.                                            *)
DidShow_SlotKept ==
  /\ process = "running" /\ animating > 0
  /\ animating' \in 0..animating - 1
  /\ stack' = IF slot = 0 THEN stack ELSE <<stack[slot]>>
  /\ UNCHANGED <<account, pushes, slot, asked, exposed, orphans, process, steps, launches>>

DidShow_Silent ==
  /\ process = "running" /\ animating > 0
  /\ animating' \in 0..animating - 1
  /\ slot' = 0 /\ stack' = IF slot = 0 THEN stack ELSE <<stack[slot]>>
  /\ UNCHANGED <<account, pushes, asked, exposed, orphans, process, steps, launches>>

SendsWhenFreed(i) ==
  \/ stack[i].kind \in {"account", "notifications"}
  \/ stack[i].kind = "pushTime" /\ i = Len(stack)

(* didShowViewController ends one transition or all: the completion makes  *)
(* its screen the stack and leaves the slot.  The other screens are freed, *)
(* and the account and notifications screens send settings when they are,  *)
(* the push-time screen when it disappears.                                *)
DidShow ==
  /\ process = "running" /\ animating > 0
  /\ animating' \in 0..animating - 1
  /\ slot' = 0 /\ stack' = IF slot = 0 THEN stack ELSE <<stack[slot]>>
  /\ LET freed == IF slot = 0 THEN {} ELSE DOMAIN stack \ {slot}
     IN /\ orphans' = orphans \cup {stack[i].kind : i \in {j \in freed : stack[j].busy}}
        /\ IF \E i \in freed : SendsWhenFreed(i)
           THEN Send ELSE UNCHANGED <<sent, late, process>>
  /\ UNCHANGED <<account, token, asked, exposed, steps, launches>>

(* Back from a pushed screen; the push-time screen sends settings.         *)
Back ==
  /\ Step
  /\ animating = 0 /\ Len(stack) > 1 /\ Pushed(Top)
  /\ stack' = SubSeq(stack, 1, Len(stack) - 1)
  /\ asked' = stack[Len(stack) - 1] /\ exposed' = FALSE
  /\ animating' = 1
  /\ IF Top.kind = "pushTime" THEN Send ELSE UNCHANGED <<sent, late, process>>
  /\ UNCHANGED <<account, token, slot, orphans>>

-----------------------------------------------------------------------------
(* Screens asked for *)

(* The menu is opened from every screen that is not pushed nor Welcome.    *)
ShowFromMenu(s) ==
  /\ Step
  /\ Top.kind # "welcome" /\ ~Pushed(Top)
  /\ Show(stack, s)
  /\ UNCHANGED <<account, pushes, orphans, process>>

MenuTapped ==
  \/ \E kind \in {"friends", "account", "notifications"} : ShowFromMenu(Screen(kind))
  \/ ShowFromMenu(Own(person))
  \/ \E b \in Births : ShowFromMenu(Prediction("nobody", SignOf(b)))

PushTimeTapped ==
  /\ Step
  /\ Top.kind = "notifications"
  /\ Push(stack, Screen("pushTime"))
  /\ UNCHANGED <<account, pushes, orphans, process>>

(* handleReceivedRemoteNotification: a push of the sign subscribed to.     *)
PushTapped ==
  /\ Step
  /\ sent # Unknown
  /\ Show(stack, Prediction("nobody", sent))
  /\ Cover(person, late)
  /\ UNCHANGED <<account, token, orphans>>

-----------------------------------------------------------------------------
(* The person *)

(* handlePerson: a new object, saved and current.                          *)
HandlePerson(p) ==
  person' = p /\ saved' = p /\ loggedOut' = FALSE

Late == late \/ token # "asked"

(* showPredictionViewController of the new person.                         *)
ShowNew(screens) ==
  /\ Show(screens, Own(person'))
  /\ Cover(person', Late)
  /\ UNCHANGED token

(* createPersonWithBirthdayDate                                            *)
PickBirthday(b) ==
  /\ Step
  /\ Top.kind = "welcome"
  /\ HandlePerson([birth |-> b, facebook |-> FALSE])
  /\ ShowNew(AllAged(stack))
  /\ UNCHANGED orphans

(* Fault planted in ChangeBirthday: the person is not saved.               *)
ChangeBirthday_NotSaved(b) ==
  /\ Step
  /\ Top.kind = "account"
  /\ person' = [person EXCEPT !.birth = b]
  /\ UNCHANGED <<saved, loggedOut, pushes, nav, orphans, process>>

(* birthdayDateChanged: the object itself changes and is saved.            *)
ChangeBirthday(b) ==
  /\ Step
  /\ Top.kind = "account"
  /\ person' = [person EXCEPT !.birth = b]
  /\ saved' = person' /\ loggedOut' = FALSE
  /\ UNCHANGED <<pushes, nav, orphans, process>>

(* userLoggedOut forgets Facebook's data in memory only.                   *)
LogOut ==
  /\ Step
  /\ Top.kind = "account" /\ person.facebook
  /\ person' = [person EXCEPT !.facebook = FALSE] /\ loggedOut' = TRUE
  /\ UNCHANGED <<saved, pushes, nav, orphans, process>>

(* loginOnFacebook, loggedInOnFacebook, personSelected: a request whose    *)
(* callback holds the model of the screen.                                 *)
Ask ==
  /\ Step
  /\ Top.kind \in {"welcome", "account", "friends"} /\ ~Top.busy
  /\ stack' = [stack EXCEPT ![Len(stack)].busy = TRUE]
  /\ UNCHANGED <<account, pushes, slot, animating, asked, exposed, orphans, process>>

(* Fault planted in Gathered: the sign is not looked at.                   *)
Gathered_AnySign ==
  {[birth |-> ReadProfile(d), facebook |-> TRUE] : d \in Profiles}

(* The persons a login can bring; there is none without a sign.            *)
Gathered ==
  {[birth |-> ReadProfile(d), facebook |-> TRUE] :
     d \in {e \in Profiles : SignOf(ReadProfile(e)) # Unknown}}

(* A request of the screen at i is answered with nothing.                  *)
Rested(i) == [stack EXCEPT ![i].busy = FALSE]

AnsweredEmpty(i) ==
  /\ Step
  /\ stack[i].busy
  /\ stack' = Rested(i)
  /\ UNCHANGED <<account, pushes, slot, animating, asked, exposed, orphans, process>>

(* Fault planted in LoggedIn: the current object takes the data.           *)
LoggedIn_InPlace(i) ==
  /\ Step
  /\ stack[i].busy /\ stack[i].kind = "account"
  /\ \E p \in Gathered : HandlePerson(p)
  /\ stack' = Rested(i)
  /\ UNCHANGED <<pushes, slot, animating, asked, exposed, orphans, process>>

(* Facebook answers with a person.  The welcome screen shows its           *)
(* prediction; the account screen sends settings when it is left.          *)
LoggedIn(i) ==
  /\ Step
  /\ stack[i].busy /\ stack[i].kind \in {"welcome", "account"}
  /\ \E p \in Gathered : HandlePerson(p)
  /\ IF stack[i].kind = "welcome"
     THEN ShowNew(AllAged(Rested(i)))
     ELSE /\ stack' = AllAged(Rested(i))
          /\ asked' = Aged(asked) /\ late' = Late
          /\ UNCHANGED <<sent, token, slot, animating, exposed, process>>
  /\ UNCHANGED orphans

(* A friend's birthday is read, or was before: the friend's prediction is  *)
(* pushed.                                                                 *)
ShowFriend(screens) ==
  /\ \E text \in Texts :
       LET date == timestampForDateString(text, Languages)
       IN date # NoDate /\ Push(screens, Prediction("friend", SignOf(date)))
  /\ Cover(person, late)
  /\ UNCHANGED <<account, token>>

FriendAnswered(i) ==
  /\ Step
  /\ stack[i].busy /\ stack[i].kind = "friends"
  /\ ShowFriend(Rested(i))
  /\ UNCHANGED orphans

(* An answer for a model that is freed: its callback crashes, or finds     *)
(* memory not used again and does what it would have done, for all or for  *)
(* part of the objects that are gone.                                      *)
OrphanAnswered(kind) ==
  /\ Step
  /\ kind \in orphans /\ orphans' = orphans \ {kind}
  /\ \/ process' = "freed" /\ UNCHANGED <<account, pushes, nav>>
     \/ /\ kind \in {"welcome", "account"}
        /\ \E p \in Gathered : HandlePerson(p)
        /\ stack' = AllAged(stack) /\ asked' = Aged(asked) /\ late' = Late
        /\ UNCHANGED <<sent, token, slot, animating, exposed, process>>
     \/ /\ kind = "welcome"
        /\ \E p \in Gathered : HandlePerson(p)
        /\ ShowNew(AllAged(stack))
     \/ kind = "friends" /\ ShowFriend(stack)

-----------------------------------------------------------------------------
(* didRegister and didFailToRegister, which may come on Welcome already,   *)
(* and didEnterBackground: settings are sent.                              *)
TokenArrives ==
  /\ process = "running" /\ token # "answered"
  /\ token' = IF token = "asked" THEN "again" ELSE "answered"
  /\ Send
  /\ UNCHANGED <<account, nav, orphans, steps, launches>>

EnterBackground ==
  /\ Step
  /\ Send
  /\ UNCHANGED <<account, token, nav, orphans>>

Next ==
  \/ Relaunch \/ DidShow \/ Back \/ MenuTapped \/ PushTimeTapped \/ PushTapped
  \/ \E b \in Births : PickBirthday(b) \/ ChangeBirthday(b)
  \/ LogOut \/ Ask
  \/ \E i \in DOMAIN stack : AnsweredEmpty(i) \/ LoggedIn(i) \/ FriendAnswered(i)
  \/ \E kind \in {"welcome", "account", "friends"} : OrphanAnswered(kind)
  \/ TokenArrives \/ EnterBackground

Spec == Init /\ [][Next]_vars

-----------------------------------------------------------------------------
AtRest == process = "running" /\ animating = 0

Kinds   == {"welcome", "prediction", "friends", "account", "notifications", "pushTime"}
Screens == [kind : Kinds, who : {"me", "old", "friend", "nobody"},
            sign : ZodiacTypes \cup {Unknown}, busy : BOOLEAN]

(* Type invariant.                                                         *)
TypeOK ==
  /\ {person, saved} \subseteq Persons \cup {NoPerson}
  /\ sent \in ZodiacTypes \cup {Unknown} /\ token \in {"asked", "again", "answered"}
  /\ stack \in Seq(Screens) /\ stack # <<>>
  /\ slot \in 0..Len(stack) /\ animating \in Nat
  /\ orphans \subseteq {"welcome", "account", "friends"}
  /\ process \in {"running", "asserted", "freed"}
  /\ asked \in Screens /\ {exposed, late, loggedOut} \subseteq BOOLEAN
  /\ steps \in 0..MaxSteps /\ launches \in 0..MaxLaunches

(* Whatever was shown while transitions overlapped, at rest the stack has  *)
(* one root, under it at most screens that are pushed to stay, and no      *)
(* completion is left to remove them later.                                *)
OneRoot ==
  AtRest => slot = 0 /\ \A i \in 2..Len(stack) : Pushed(stack[i])

(* At rest the screen asked for last, or one that shows the same, is on    *)
(* top.  The exception is a screen pushed without a completion during a    *)
(* transition: the completion of the screen before removes it.             *)
AskedIsOnTop == AtRest /\ ~exposed => Top = asked \/ Same(Top, asked)

(* Without a person the user sees nothing but Welcome, so the settings are *)
(* sent without one from there only; and a person always has a sign.       *)
PersonWithSign ==
  /\ person = NoPerson => \A i \in DOMAIN stack : stack[i].kind = "welcome"
  /\ person # NoPerson => SignOf(person.birth) # Unknown
  /\ process = "asserted" => Top.kind = "welcome"

(* The comparison of persons by pointer is enough: at rest a prediction    *)
(* that belongs to the current person object shows its current sign,       *)
(* though the account screen changes the object in place.                  *)
SameObjectSameSign ==
  AtRest => \A i \in DOMAIN stack :
              stack[i].who = "me" => stack[i].sign = SignOf(person.birth)

(* At rest and off the account screen, the settings recorded as sent are   *)
(* those of the current sign once the device token has come, unless a      *)
(* login answered after the screen that would send them was gone.          *)
SettingsFollow ==
  AtRest /\ token # "asked" /\ ~late
    /\ (\A i \in DOMAIN stack : stack[i].kind # "account")
  => sent = SignOf(person.birth)

(* What a relaunch will load is the current person; only Facebook's data   *)
(* of one who logged out come back.                                        *)
SavedIsCurrent ==
  \/ saved = person
  \/ loggedOut /\ saved = [person EXCEPT !.facebook = TRUE]

=============================================================================
