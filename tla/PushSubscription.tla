-------------------------- MODULE PushSubscription --------------------------
(***************************************************************************)
(* Push notifications of the app: NotificationsImpl decides when the       *)
(* user's settings must be sent, NotificationsCC turns them into a room,   *)
(* PushNotificationsWrapper drives the PushNotifications SDK from the main *)
(* thread and from the SDK's callback queue, and the SDK talks to the push *)
(* service over HTTP.  The process can be killed between any two steps.    *)
(*                                                                         *)
(* Main-thread code runs to completion before the next main-queue item,    *)
(* so its steps are sequenced by `main'; completion blocks of the SDK run  *)
(* on the serial delegate queue of URLSession.shared, sequenced by `cb'.   *)
(* The two queues share isRegistered, needsSubscribe and delayedRoomName   *)
(* without a lock: their steps interleave here at every shared access, and *)
(* while both are between the write of their flag and the read of the      *)
(* other's they may even miss each other's writes (MissEachOther).         *)
(***************************************************************************)
EXTENDS Integers, FiniteSets

CONSTANTS
  Signs,        \* zodiac signs a person can have
  Times,        \* hours of the push-time picker
  Zones,        \* time-zone offsets the device can be in, in hours
  Slots,        \* bound: SDK requests in flight at the same time
  NoPerson,     \* person_ is null
  NoRoom,       \* the empty room name
  NeverSent,    \* no "sendedPushSettings" in the user defaults
  Lossy,        \* TRUE: requests may be lost or refused
  MaxChanges,   \* bound: changes of settings, person and time zone
  MaxTokens,    \* bound: device-token callbacks per process
  MaxLaunches   \* bound: process launches

ASSUME SettingsAssumption ==
  /\ Times \subseteq Int /\ Zones \subseteq Int
  /\ Signs # {} /\ Times # {} /\ Zones # {}
  /\ NoPerson \notin Signs
  /\ NoRoom \notin Signs \X Int
ASSUME BoundAssumption ==
  /\ Lossy \in BOOLEAN
  /\ MaxChanges \in Nat /\ MaxTokens \in Nat /\ MaxLaunches \in Nat

(* What generatePushSettingsString prints: type, time and disabled.        *)
PushSettings == [sign : Signs, time : Times, disabled : BOOLEAN]
ASSUME SentinelAssumption == NeverSent \notin PushSettings

VARIABLES
  person,            \* zodiac of components_->person_, also saved in the defaults
  pushTime,          \* Settings "pushTime"
  disabled,          \* Settings "notificationsDisabled"
  sended,            \* the saved string "sendedPushSettings"
  zone,              \* time-zone offset of the device
  isRegistered,      \* wrapper: device known to the service in this process
  needsSubscribe,    \* wrapper: a subscription waits for the registration
  delayedRoomName,   \* wrapper: room of the requested subscription
  subscribedToRoom,  \* wrapper: room of the last completed subscription
  main,              \* main thread: where it is in the running handler
  cb,                \* SDK callback queue: where it is in the completion
  blocks,            \* main queue: number of queued subscription blocks
  calls,             \* SDK requests in flight
  interests,         \* push service: rooms this device is subscribed to
  unseen,            \* flags of the running exchange the other thread has not read
  process,           \* the app process
  disturbed,         \* history: the last request met one of the known hazards
  changes, tokens, launches   \* counters of the bounds

settings == <<person, pushTime, disabled, zone>>
wrapper  == <<isRegistered, needsSubscribe, delayedRoomName, subscribedToRoom>>
bounds   == <<changes, tokens, launches>>
vars == <<settings, sended, wrapper, main, cb, blocks, calls, interests,
          unseen, process, disturbed, bounds>>

-----------------------------------------------------------------------------
(* Rooms and requests *)

Rooms == Signs \X Int

(* getRoomName: zodiac name and the hour of the push in server time.       *)
Room(sign, time, offset) == <<sign, time - offset>>

Ops == {"register", "unsubscribe", "resubscribe", "subscribe"}
Calls == [at : {"sent", "answered", "orphan"}, op : Ops, room : Rooms \cup {NoRoom}]
          \cup {[at |-> "free", op |-> "none", room |-> NoRoom]}
FreeSlot == [at |-> "free", op |-> "none", room |-> NoRoom]

(* A request of the SDK takes a free slot; Slots bounds the requests.      *)
Issue(op) ==
  \E c \in Slots :
    /\ calls[c] = FreeSlot
    /\ calls' = [calls EXCEPT ![c] = [at |-> "sent", op |-> op, room |-> NoRoom]]

(* Work on the subscription has been started and is not finished.          *)
ChainActive ==
  \/ blocks > 0
  \/ \E c \in Slots : calls[c] # FreeSlot /\ calls[c].op # "register"

Settled == main = "idle" /\ cb = "idle" /\ ~ChainActive /\ ~needsSubscribe

CurrentSettings == [sign |-> person, time |-> pushTime, disabled |-> disabled]

(* The flags the two threads share.  A thread writes one and then reads    *)
(* the other's; a write of the value it had already can be missed by none. *)
Flags == {"isRegistered", "needsSubscribe"}
Written(flag, was) == IF was THEN unseen \ {flag} ELSE unseen \cup {flag}

(* What the service should hold for the settings s.                        *)
Expected(s) == IF s.disabled THEN {} ELSE {Room(s.sign, s.time, zone)}

-----------------------------------------------------------------------------
Init ==
  /\ person = NoPerson /\ disabled = FALSE
  /\ pushTime \in Times /\ zone \in Zones
  /\ sended = NeverSent
  /\ isRegistered = FALSE /\ needsSubscribe = FALSE
  /\ delayedRoomName = NoRoom /\ subscribedToRoom = NoRoom
  /\ main = "idle" /\ cb = "idle" /\ blocks = 0
  /\ calls = [c \in Slots |-> FreeSlot]
  /\ interests = {}
  /\ unseen = {}
  /\ process = "running"
  /\ disturbed = FALSE
  /\ changes = 0 /\ tokens = 0 /\ launches = 1

-----------------------------------------------------------------------------
(* User and device *)

UserStep ==
  /\ process = "running" /\ main = "idle" /\ changes < MaxChanges
  /\ changes' = changes + 1
  /\ UNCHANGED <<sended, wrapper, main, cb, blocks, calls, interests, unseen,
                 process, tokens, launches>>

(* A login or a birthday picked on the account screen sets and saves the   *)
(* person.                                                                 *)
SetPerson(sign) ==
  /\ UserStep
  /\ person' = sign
  /\ UNCHANGED <<pushTime, disabled, zone, disturbed>>

(* The picker and the switch are on screens reached with a person only.    *)
SetPushTime(time) ==
  /\ UserStep /\ person # NoPerson
  /\ pushTime' = time
  /\ UNCHANGED <<person, disabled, zone, disturbed>>

SetNotificationsDisabled(value) ==
  /\ UserStep /\ person # NoPerson
  /\ disabled' = value
  /\ UNCHANGED <<person, pushTime, zone, disturbed>>

(* The device moves to another time zone; no handler notices it.           *)
TravelTo(offset) ==
  /\ UserStep
  /\ zone' = offset
  /\ disturbed' = (disturbed \/ offset # zone)
  /\ UNCHANGED <<person, pushTime, disabled>>

(* didEnterBackground, or leaving the push-time, notifications or account  *)
(* screen: sendSettingsIfNeeded runs.                                      *)
Checkpoint ==
  /\ process = "running" /\ main = "idle"
  /\ main' = "send"
  /\ UNCHANGED <<settings, sended, wrapper, cb, blocks, calls, interests,
                 unseen, process, disturbed, bounds>>

(* The system delivers a device token: the wrapper sends it to the         *)
(* service, then sendSettingsIfNeeded runs.                                *)
DidRegister ==
  /\ process = "running" /\ main = "idle" /\ tokens < MaxTokens
  /\ tokens' = tokens + 1
  /\ Issue("register")
  /\ main' = "send"
  /\ UNCHANGED <<settings, sended, wrapper, cb, blocks, interests, unseen,
                 process, disturbed, changes, launches>>

-----------------------------------------------------------------------------
(* Main thread *)

(* generatePushSettingsString reads the zodiac of a person that must be    *)
(* there: without one the assertion fails (in a release build the null     *)
(* pointer is dereferenced) and the process dies.                          *)
PersonMissing ==
  /\ process = "running" /\ main = "send"
  /\ person = NoPerson
  /\ process' = "asserted"
  /\ UNCHANGED <<settings, sended, wrapper, main, cb, blocks, calls,
                 interests, unseen, disturbed, bounds>>

SettingsAlreadySent ==
  /\ process = "running" /\ main = "send"
  /\ person # NoPerson
  /\ sended = CurrentSettings
  /\ main' = "idle"
  /\ UNCHANGED <<settings, sended, wrapper, cb, blocks, calls, interests,
                 unseen, process, disturbed, bounds>>

(* The string is saved before anything is sent.  With notifications off    *)
(* the wrapper unsubscribes from everything, which the SDK does only once  *)
(* it has a device id; a subscription that waits is left waiting.          *)
SendDisabled ==
  /\ process = "running" /\ main = "send"
  /\ person # NoPerson
  /\ sended # CurrentSettings /\ disabled
  /\ sended' = CurrentSettings
  /\ IF isRegistered THEN Issue("unsubscribe") ELSE UNCHANGED calls
  /\ main' = "idle"
  /\ disturbed' = (\/ ChainActive
                   \/ needsSubscribe
                   \/ cb = "perform"
                   \/ ~isRegistered /\ interests # {})
  /\ UNCHANGED <<settings, wrapper, cb, blocks, interests, unseen, process,
                 bounds>>

(* Fault planted in SendEnabled: without the assertions a person that is   *)
(* not there is printed and sent like any other.                           *)
SendEnabled_WithoutPerson ==
  /\ process = "running" /\ main = "send"
  /\ sended # CurrentSettings /\ ~disabled
  /\ sended' = CurrentSettings
  /\ needsSubscribe' = TRUE
  /\ unseen' = Written("needsSubscribe", needsSubscribe)
  /\ delayedRoomName' = Room(person, pushTime, zone)
  /\ main' = "check"
  /\ disturbed' = ChainActive
  /\ UNCHANGED <<settings, isRegistered, subscribedToRoom, cb, blocks, calls,
                 interests, process, bounds>>

(* With notifications on, subscribeToRoom records the room and the wish.   *)
SendEnabled ==
  /\ process = "running" /\ main = "send"
  /\ person # NoPerson
  /\ sended # CurrentSettings /\ ~disabled
  /\ sended' = CurrentSettings
  /\ needsSubscribe' = TRUE
  /\ unseen' = Written("needsSubscribe", needsSubscribe)
  /\ delayedRoomName' = Room(person, pushTime, zone)
  /\ main' = "check"
  /\ disturbed' = ChainActive
  /\ UNCHANGED <<settings, isRegistered, subscribedToRoom, cb, blocks, calls,
                 interests, process, bounds>>

(* performSubscription on the main thread looks whether the device is      *)
(* registered...                                                           *)
MainCheck ==
  /\ process = "running" /\ main = "check"
  /\ main' = IF isRegistered THEN "enqueue" ELSE "idle"
  /\ unseen' = unseen \ {"needsSubscribe"}
  /\ UNCHANGED <<settings, sended, wrapper, cb, blocks, calls, interests,
                 process, disturbed, bounds>>

(* ...and queues the subscription block on the main queue.                 *)
Enqueue ==
  /\ needsSubscribe' = FALSE
  /\ blocks' = blocks + 1
  /\ disturbed' = (disturbed \/ ChainActive)
  /\ UNCHANGED <<settings, sended, isRegistered, delayedRoomName,
                 subscribedToRoom, calls, interests, unseen, process, bounds>>

MainEnqueue ==
  /\ process = "running" /\ main = "enqueue"
  /\ main' = "idle"
  /\ Enqueue
  /\ UNCHANGED cb

(* Fault planted in RunBlock: the block subscribes without unsubscribeAll. *)
RunBlock_KeepsOldRooms ==
  /\ process = "running" /\ main = "idle" /\ blocks > 0
  /\ blocks' = blocks - 1
  /\ \E c \in Slots :
       /\ calls[c] = FreeSlot
       /\ calls' = [calls EXCEPT ![c] =
                      [at |-> "sent", op |-> "subscribe", room |-> delayedRoomName]]
  /\ UNCHANGED <<settings, sended, wrapper, main, cb, interests, unseen,
                 process, disturbed, bounds>>

(* The queued block starts with unsubscribeAll.                            *)
RunBlock ==
  /\ process = "running" /\ main = "idle" /\ blocks > 0
  /\ blocks' = blocks - 1
  /\ Issue("resubscribe")
  /\ UNCHANGED <<settings, sended, wrapper, main, cb, interests, unseen,
                 process, disturbed, bounds>>

-----------------------------------------------------------------------------
(* Callback queue *)

(* Fault planted in RegisterCompletes: the waiting subscription is         *)
(* forgotten.                                                              *)
RegisterCompletes_Forgets(c) ==
  /\ process = "running" /\ cb = "idle"
  /\ calls[c].at = "answered" /\ calls[c].op = "register"
  /\ calls' = [calls EXCEPT ![c] = FreeSlot]
  /\ isRegistered' = TRUE
  /\ UNCHANGED <<settings, sended, needsSubscribe, delayedRoomName,
                 subscribedToRoom, main, cb, blocks, interests, unseen,
                 process, disturbed, bounds>>

(* registerDeviceToken's completion first sets isRegistered...             *)
RegisterCompletes(c) ==
  /\ process = "running" /\ cb = "idle"
  /\ calls[c].at = "answered" /\ calls[c].op = "register"
  /\ calls' = [calls EXCEPT ![c] = FreeSlot]
  /\ isRegistered' = TRUE
  /\ unseen' = Written("isRegistered", isRegistered)
  /\ cb' = "check"
  /\ UNCHANGED <<settings, sended, needsSubscribe, delayedRoomName,
                 subscribedToRoom, main, blocks, interests, process,
                 disturbed, bounds>>

(* ...then looks whether a subscription waits for it...                    *)
CallbackCheck ==
  /\ process = "running" /\ cb = "check"
  /\ cb' = IF needsSubscribe THEN "perform" ELSE "idle"
  /\ unseen' = unseen \ {"isRegistered"}
  /\ UNCHANGED <<settings, sended, wrapper, main, blocks, calls, interests,
                 process, disturbed, bounds>>

(* The flags have no lock and no order: both threads may have written and  *)
(* each read the other's old value.  Any other stale read has the outcome  *)
(* of reading before the other thread's write.                             *)
MissEachOther ==
  /\ process = "running" /\ main = "check" /\ cb = "check"
  /\ unseen = Flags
  /\ main' = "idle" /\ cb' = "idle"
  /\ UNCHANGED <<settings, sended, wrapper, blocks, calls, interests, unseen,
                 process, disturbed, bounds>>

(* ...and performs it.                                                     *)
CallbackEnqueue ==
  /\ process = "running" /\ cb = "perform"
  /\ cb' = "idle"
  /\ Enqueue
  /\ UNCHANGED main

(* Fault planted in ResubscribeCompletes: nothing follows unsubscribeAll.  *)
ResubscribeCompletes_Stops(c) ==
  /\ process = "running" /\ cb = "idle"
  /\ calls[c].at = "answered" /\ calls[c].op = "resubscribe"
  /\ calls' = [calls EXCEPT ![c] = FreeSlot]
  /\ UNCHANGED <<settings, sended, wrapper, main, cb, blocks, interests,
                 unseen, process, disturbed, bounds>>

(* unsubscribeAll of the block has completed: subscribe to the room that   *)
(* delayedRoomName holds now.                                              *)
ResubscribeCompletes(c) ==
  /\ process = "running" /\ cb = "idle"
  /\ calls[c].at = "answered" /\ calls[c].op = "resubscribe"
  /\ calls' = [calls EXCEPT ![c] =
                 [at |-> "sent", op |-> "subscribe", room |-> delayedRoomName]]
  /\ UNCHANGED <<settings, sended, wrapper, main, cb, blocks, interests,
                 unseen, process, disturbed, bounds>>

(* handleSubscribedToRoom remembers the room and cleans delayedRoomName.   *)
SubscribeCompletes(c) ==
  /\ process = "running" /\ cb = "idle"
  /\ calls[c].at = "answered" /\ calls[c].op = "subscribe"
  /\ calls' = [calls EXCEPT ![c] = FreeSlot]
  /\ subscribedToRoom' = calls[c].room
  /\ delayedRoomName' = NoRoom
  /\ UNCHANGED <<settings, sended, isRegistered, needsSubscribe, main, cb,
                 blocks, interests, unseen, process, disturbed, bounds>>

UnsubscribeCompletes(c) ==
  /\ process = "running" /\ cb = "idle"
  /\ calls[c].at = "answered" /\ calls[c].op = "unsubscribe"
  /\ calls' = [calls EXCEPT ![c] = FreeSlot]
  /\ UNCHANGED <<settings, sended, wrapper, main, cb, blocks, interests,
                 unseen, process, disturbed, bounds>>

-----------------------------------------------------------------------------
(* Push service and network *)

(* The service performs a request.  A POST to the empty interest name      *)
(* subscribes to nothing.  The answer to an orphan has nowhere to go.      *)
ServiceApplies(c) ==
  /\ calls[c].at \in {"sent", "orphan"}
  /\ interests' = CASE calls[c].op \in {"unsubscribe", "resubscribe"} -> {}
                    [] calls[c].op = "subscribe" ->
                         interests \cup ({calls[c].room} \ {NoRoom})
                    [] OTHER -> interests
  /\ calls' = [calls EXCEPT ![c] = IF @.at = "orphan" THEN FreeSlot
                                   ELSE [@ EXCEPT !.at = "answered"]]
  /\ UNCHANGED <<settings, sended, wrapper, main, cb, blocks, unseen, process,
                 disturbed, bounds>>

(* NetworkService calls no completion when no data arrives.                *)
Lose(c) ==
  /\ Lossy
  /\ calls[c] # FreeSlot
  /\ calls' = [calls EXCEPT ![c] = FreeSlot]
  /\ disturbed' = (disturbed \/ calls[c].op # "register")
  /\ UNCHANGED <<settings, sended, wrapper, main, cb, blocks, interests,
                 unseen, process, bounds>>

(* When the service answers with a failure the completion of register is   *)
(* skipped and the completions of the others run as if they had succeeded. *)
Refuse(c) ==
  /\ Lossy
  /\ calls[c].at = "sent"
  /\ calls' = [calls EXCEPT ![c] = IF @.op = "register" THEN FreeSlot
                                   ELSE [@ EXCEPT !.at = "answered"]]
  /\ disturbed' = (disturbed \/ calls[c].op # "register")
  /\ UNCHANGED <<settings, sended, wrapper, main, cb, blocks, interests,
                 unseen, process, bounds>>

-----------------------------------------------------------------------------
(* The process is killed, or died, and is launched again: the defaults and *)
(* requests on the wire survive, everything else starts over.              *)
Relaunch ==
  /\ launches < MaxLaunches
  /\ launches' = launches + 1
  /\ tokens' = 0
  /\ process' = "running"
  /\ isRegistered' = FALSE /\ needsSubscribe' = FALSE
  /\ delayedRoomName' = NoRoom /\ subscribedToRoom' = NoRoom
  /\ main' = "idle" /\ cb' = "idle" /\ blocks' = 0 /\ unseen' = {}
  /\ calls' = [c \in Slots |->
                 IF calls[c].at \in {"sent", "orphan"} /\ calls[c].op # "register"
                 THEN [calls[c] EXCEPT !.at = "orphan"] ELSE FreeSlot]
  /\ disturbed' = (\/ disturbed
                   \/ ChainActive
                   \/ needsSubscribe
                   \/ main \in {"check", "enqueue"} \/ cb = "perform")
  /\ UNCHANGED <<settings, sended, interests, changes>>

-----------------------------------------------------------------------------
User ==
  \/ \E sign \in Signs : SetPerson(sign)
  \/ \E time \in Times : SetPushTime(time)
  \/ \E value \in BOOLEAN : SetNotificationsDisabled(value)
  \/ \E offset \in Zones : TravelTo(offset)
  \/ Checkpoint
  \/ DidRegister

MainThread ==
  \/ PersonMissing
  \/ SettingsAlreadySent
  \/ SendDisabled
  \/ SendEnabled
  \/ MainCheck
  \/ MainEnqueue

Callback(c) ==
  \/ RegisterCompletes(c)
  \/ ResubscribeCompletes(c)
  \/ SubscribeCompletes(c)
  \/ UnsubscribeCompletes(c)

Next ==
  \/ User
  \/ MainThread
  \/ RunBlock
  \/ CallbackCheck
  \/ CallbackEnqueue
  \/ MissEachOther
  \/ \E c \in Slots : Callback(c) \/ ServiceApplies(c) \/ Lose(c) \/ Refuse(c)
  \/ Relaunch

Spec == Init /\ [][Next]_vars

(* Both queues keep running what they were given (the main queue is first  *)
(* in, first out: other handlers delay a block only finitely often), and   *)
(* with Lossy = FALSE every request is answered.  Nothing is assumed of    *)
(* the user, the system's token callback or a relaunch.                    *)
Fairness ==
  /\ WF_vars(MainThread)
  /\ SF_vars(RunBlock)
  /\ WF_vars(CallbackCheck)
  /\ WF_vars(CallbackEnqueue)
  /\ \A c \in Slots : WF_vars(Callback(c)) /\ WF_vars(ServiceApplies(c))

FairSpec == Spec /\ Fairness

-----------------------------------------------------------------------------
(* Type invariant: every variable keeps the type of the field it models.   *)
TypeOK ==
  /\ person \in Signs \cup {NoPerson}
  /\ pushTime \in Times /\ zone \in Zones
  /\ disabled \in BOOLEAN
  /\ sended \in PushSettings \cup {NeverSent}
  /\ isRegistered \in BOOLEAN /\ needsSubscribe \in BOOLEAN
  /\ delayedRoomName \in Rooms \cup {NoRoom}
  /\ subscribedToRoom \in Rooms \cup {NoRoom}
  /\ main \in {"idle", "send", "check", "enqueue"}
  /\ cb \in {"idle", "check", "perform"}
  /\ blocks \in Nat
  /\ calls \in [Slots -> Calls]
  /\ interests \subseteq Rooms
  /\ unseen \subseteq Flags
  /\ process \in {"running", "asserted"}
  /\ disturbed \in BOOLEAN
  /\ changes \in Nat /\ tokens \in Nat /\ launches \in Nat

(* Both threads have read the other's flag before its write, though each   *)
(* had written its own.                                                    *)
Missed == unseen = Flags /\ main # "check" /\ cb # "check"

(* No lost request: the main thread publishes needsSubscribe and then      *)
(* reads isRegistered, the completion of the registration publishes        *)
(* isRegistered and then reads needsSubscribe.  Unless both of them read   *)
(* stale values in the same exchange, a wish of a registered device is     *)
(* always about to be handled by one of the two threads.                   *)
NoLostRequest ==
  needsSubscribe /\ isRegistered =>
    main \in {"check", "enqueue"} \/ cb # "idle" \/ Missed

(* The subscription keeps the contract of PushContract: undisturbed, the   *)
(* device leaves its old room before it enters the new one, and nothing    *)
(* but the room of the settings recorded as sent is left in the end.       *)
Wanted == IF sended = NeverSent THEN {} ELSE Expected(sended)

Quiet ==
  /\ ~ChainActive /\ ~needsSubscribe
  /\ main \notin {"check", "enqueue"} /\ cb # "perform"

Contract == INSTANCE PushContract
              WITH want <- Wanted, held <- interests,
                   clean <- ~disturbed, quiet <- Quiet

KeepsContract == Contract!Spec

(* Whenever everything is settled, the service holds exactly the room of   *)
(* the settings recorded as sent, unless the last request was disturbed:   *)
(* overlapped by another, cut by a kill, failed on the network, disabled   *)
(* before the device was registered, or followed by a time-zone change.    *)
AgreesUnlessDisturbed ==
  Settled /\ ~disturbed /\ sended # NeverSent => interests = Expected(sended)

(* The assertion of generatePushSettingsString and sendSettings holds.     *)
PersonPresent == process # "asserted"

(* Settings recorded as sent by a registered device reach the service,     *)
(* unless they are replaced, disturbed, the process dies, or the threads   *)
(* missed each other's flags.                                              *)
Converges ==
  \A s \in PushSettings :
    (sended = s /\ isRegistered /\ ~disturbed)
      ~> (\/ sended # s \/ disturbed \/ process # "running" \/ Missed
          \/ interests = Expected(s))

=============================================================================
