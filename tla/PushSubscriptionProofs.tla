---------------------- MODULE PushSubscriptionProofs ----------------------
(***************************************************************************)
(* Theorems about PushSubscription, for every set of signs, times, zones   *)
(* and request slots and for every value of the bounds; the last part      *)
(* shows that it implements PushContract.                                  *)
(***************************************************************************)
EXTENDS PushSubscription, TLAPS

-----------------------------------------------------------------------------
(* The inductive invariant behind AgreesUnlessDisturbed *)

(* The request in slot c works on the subscription.                        *)
Busy(c) == calls[c] # FreeSlot /\ calls[c].op # "register"

(* Some thread, or the main queue, is still going to subscribe.            *)
Pending ==
  \/ needsSubscribe
  \/ main \in {"check", "enqueue"}
  \/ cb = "perform"
  \/ blocks > 0

(* Undisturbed work is a chain of at most one item, younger than the last  *)
(* handler of the main thread.                                             *)
OneChain ==
  /\ blocks \in {0, 1}
  /\ ChainActive => ~needsSubscribe
  /\ \A c \in Slots : Busy(c) =>
       /\ blocks = 0
       /\ calls[c].at \in {"sent", "answered"}
       /\ main \notin {"check", "enqueue"}
       /\ \A d \in Slots : Busy(d) => d = c

DisabledPhase ==
  /\ ~Pending
  /\ \A c \in Slots : Busy(c) =>
       /\ calls[c].op = "unsubscribe"
       /\ calls[c].at = "answered" => interests = {}
  /\ ~ChainActive => interests = {}

WantedRoom == Room(sended.sign, sended.time, zone)

Unsubscribing(c) ==
  /\ calls[c].op = "resubscribe"
  /\ delayedRoomName = WantedRoom
  /\ calls[c].at = "answered" => interests = {}

Subscribing(c) ==
  /\ calls[c].op = "subscribe"
  /\ calls[c].room = WantedRoom
  /\ cb # "perform"
  /\ calls[c].at = "sent" => interests = {}
  /\ calls[c].at = "answered" => interests = {WantedRoom}

EnabledPhase ==
  /\ Pending => delayedRoomName = WantedRoom
  /\ \A c \in Slots : Busy(c) => Unsubscribing(c) \/ Subscribing(c)
  /\ ~Pending /\ ~ChainActive => interests = {WantedRoom}

(* While main is about to look, the wish it has just recorded is either    *)
(* still recorded or already in the main queue.                            *)
WishRecorded == main = "check" /\ blocks = 0 => needsSubscribe

Phase ==
  /\ OneChain
  /\ sended.disabled => DisabledPhase
  /\ ~sended.disabled => EnabledPhase

Phases == ~disturbed /\ sended # NeverSent => Phase

IInv == TypeOK /\ WishRecorded /\ Phases

-----------------------------------------------------------------------------
(* Type correctness *)

LEMMA FreeSlotType == FreeSlot \in Calls
  BY DEF FreeSlot, Calls

LEMMA RoomType ==
  ASSUME NEW s \in Signs, NEW t \in Times, NEW z \in Zones
  PROVE  Room(s, t, z) \in Rooms
  BY SettingsAssumption DEF Room, Rooms

LEMMA IssueType ==
  ASSUME calls \in [Slots -> Calls], NEW op \in Ops, Issue(op)
  PROVE  calls' \in [Slots -> Calls]
  BY DEF Issue, Calls, FreeSlot

LEMMA WrittenType ==
  ASSUME unseen \subseteq Flags, NEW flag \in Flags, NEW was \in BOOLEAN
  PROVE  Written(flag, was) \subseteq Flags
  BY DEF Written

LEMMA InitType == Init => TypeOK
<1> SUFFICES ASSUME Init PROVE TypeOK
  OBVIOUS
<1>1. calls \in [Slots -> Calls]
  BY FreeSlotType DEF Init
<1>2. QED
  BY <1>1 DEF Init, TypeOK

LEMMA EnqueueType ==
  ASSUME Enqueue, blocks \in Nat
  PROVE  /\ disturbed' \in BOOLEAN /\ needsSubscribe' \in BOOLEAN
         /\ blocks' \in Nat
<1>1. disturbed' \in BOOLEAN
  BY DEF Enqueue, ChainActive
<1>2. needsSubscribe' \in BOOLEAN
  BY DEF Enqueue
<1>3. blocks' \in Nat
  BY DEF Enqueue
<1>4. QED
  BY <1>1, <1>2, <1>3

(* Every step keeps the types, action by action.                           *)
LEMMA NextType == TypeOK /\ [Next]_vars => TypeOK'
<1> SUFFICES ASSUME TypeOK, [Next]_vars PROVE TypeOK'
  OBVIOUS
<1> USE DEF TypeOK
<1>1. CASE User
  <2>1. ASSUME NEW sign \in Signs, SetPerson(sign) PROVE TypeOK'
    BY <2>1 DEF SetPerson, UserStep, wrapper
  <2>2. ASSUME NEW time \in Times, SetPushTime(time) PROVE TypeOK'
    BY <2>2 DEF SetPushTime, UserStep, wrapper
  <2>3. ASSUME NEW value \in BOOLEAN, SetNotificationsDisabled(value)
        PROVE TypeOK'
    BY <2>3 DEF SetNotificationsDisabled, UserStep, wrapper
  <2>4. ASSUME NEW offset \in Zones, TravelTo(offset) PROVE TypeOK'
    BY <2>4 DEF TravelTo, UserStep, wrapper
  <2>5. CASE Checkpoint
    BY <2>5 DEF Checkpoint, settings, wrapper, bounds
  <2>6. CASE DidRegister
    BY <2>6, IssueType DEF DidRegister, settings, wrapper, Ops
  <2>7. QED
    BY <1>1, <2>1, <2>2, <2>3, <2>4, <2>5, <2>6 DEF User
<1>2. CASE MainThread
  <2>1. CASE PersonMissing
    BY <2>1 DEF PersonMissing, settings, wrapper, bounds
  <2>2. CASE SettingsAlreadySent
    BY <2>2 DEF SettingsAlreadySent, settings, wrapper, bounds
  <2>3. CASE SendDisabled
    BY <2>3, IssueType
    DEF SendDisabled, settings, wrapper, bounds, CurrentSettings, PushSettings,
        Ops, ChainActive
  <2>4. CASE SendEnabled
    BY <2>4, RoomType, WrittenType
    DEF SendEnabled, settings, bounds, CurrentSettings, PushSettings,
        ChainActive, Flags
  <2>5. CASE MainCheck
    BY <2>5 DEF MainCheck, settings, wrapper, bounds
  <2>6. CASE MainEnqueue
    BY <2>6, EnqueueType DEF MainEnqueue, Enqueue, settings, bounds
  <2>7. QED
    BY <1>2, <2>1, <2>2, <2>3, <2>4, <2>5, <2>6 DEF MainThread
<1>3. CASE RunBlock
  <2>1. blocks - 1 \in Nat
    BY <1>3 DEF RunBlock
  <2>2. QED
    BY <1>3, <2>1, IssueType DEF RunBlock, settings, wrapper, bounds, Ops
<1>4. CASE CallbackCheck \/ MissEachOther
  BY <1>4 DEF CallbackCheck, MissEachOther, settings, wrapper, bounds
<1>5. CASE CallbackEnqueue
  BY <1>5, EnqueueType DEF CallbackEnqueue, Enqueue, settings, bounds
<1>6. ASSUME NEW c \in Slots, Callback(c) PROVE TypeOK'
  <2>1. CASE RegisterCompletes(c)
    BY <2>1, FreeSlotType, WrittenType DEF RegisterCompletes, settings, bounds, Flags
  <2>2. CASE ResubscribeCompletes(c)
    <3>1. [at |-> "sent", op |-> "subscribe", room |-> delayedRoomName] \in Calls
      BY DEF Calls, Ops
    <3>2. QED
      BY <2>2, <3>1 DEF ResubscribeCompletes, settings, wrapper, bounds
  <2>3. CASE SubscribeCompletes(c)
    <3>1. calls[c].room \in Rooms \cup {NoRoom}
      BY DEF Calls
    <3>2. QED
      BY <2>3, <3>1, FreeSlotType DEF SubscribeCompletes, settings, bounds
  <2>4. CASE UnsubscribeCompletes(c)
    BY <2>4, FreeSlotType DEF UnsubscribeCompletes, settings, wrapper, bounds
  <2>5. QED
    BY <1>6, <2>1, <2>2, <2>3, <2>4 DEF Callback
<1>7. ASSUME NEW c \in Slots, ServiceApplies(c) PROVE TypeOK'
  <2>1. [calls[c] EXCEPT !.at = "answered"] \in Calls
    BY <1>7 DEF ServiceApplies, Calls
  <2>2. calls' \in [Slots -> Calls]
    BY <1>7, <2>1, FreeSlotType DEF ServiceApplies
  <2>3. interests' \subseteq Rooms
    <3>1. calls[c].room \in Rooms \cup {NoRoom}
      BY DEF Calls
    <3>2. QED
      BY <1>7, <3>1 DEF ServiceApplies
  <2>4. QED
    BY <1>7, <2>2, <2>3 DEF ServiceApplies, settings, wrapper, bounds
<1>8. ASSUME NEW c \in Slots, Lose(c) PROVE TypeOK'
  BY <1>8, FreeSlotType DEF Lose, settings, wrapper, bounds
<1>9. ASSUME NEW c \in Slots, Refuse(c) PROVE TypeOK'
  <2>1. [calls[c] EXCEPT !.at = "answered"] \in Calls
    BY <1>9 DEF Refuse, Calls
  <2>2. QED
    BY <1>9, <2>1, FreeSlotType DEF Refuse, settings, wrapper, bounds
<1>10. CASE Relaunch
  <2>1. \A c \in Slots : calls[c].at \in {"sent", "orphan"}
                           => [calls[c] EXCEPT !.at = "orphan"] \in Calls
    BY DEF Calls
  <2>2. calls' \in [Slots -> Calls]
    BY <1>10, <2>1, FreeSlotType DEF Relaunch
  <2>3. disturbed' \in BOOLEAN
    BY <1>10 DEF Relaunch, ChainActive
  <2>4. launches' \in Nat /\ tokens' \in Nat
    BY <1>10 DEF Relaunch
  <2>5. QED
    BY <1>10, <2>2, <2>3, <2>4 DEF Relaunch, settings
<1>11. CASE UNCHANGED vars
  BY <1>11 DEF vars, settings, wrapper, bounds
<1>12. QED
  BY <1>1, <1>2, <1>3, <1>4, <1>5, <1>6, <1>7, <1>8, <1>9, <1>10, <1>11 DEF Next

(* Every variable keeps its type, whatever the parameters.                 *)
THEOREM TypeCorrect == Spec => []TypeOK
  BY InitType, NextType, PTL DEF Spec

-----------------------------------------------------------------------------
(* The handshake of the two threads *)

(* One step keeps NoLostRequest: each thread writes its own flag before it *)
(* reads the other's, and having missed one another both are past reading. *)
LEMMA NextNoLostRequest ==
  ASSUME TypeOK, NoLostRequest, [Next]_vars
  PROVE  NoLostRequest'
<1> USE DEF NoLostRequest, Missed
<1>1. CASE User
  <2>1. CASE Checkpoint
    BY <2>1 DEF Checkpoint, wrapper
  <2>2. CASE DidRegister
    BY <2>2 DEF DidRegister, wrapper
  <2>3. CASE UserStep
    BY <2>3 DEF UserStep, wrapper
  <2>4. QED
    BY <1>1, <2>1, <2>2, <2>3
    DEF User, SetPerson, SetPushTime, SetNotificationsDisabled, TravelTo
<1>2. CASE MainThread
  <2>1. CASE PersonMissing
    BY <2>1 DEF PersonMissing, wrapper
  <2>2. CASE SettingsAlreadySent
    BY <2>2 DEF SettingsAlreadySent, wrapper
  <2>3. CASE SendDisabled
    BY <2>3 DEF SendDisabled, wrapper
  <2>4. CASE SendEnabled
    BY <2>4 DEF SendEnabled
  <2>5. CASE MainCheck
    BY <2>5 DEF MainCheck, wrapper
  <2>6. CASE MainEnqueue
    BY <2>6 DEF MainEnqueue, Enqueue
  <2>7. QED
    BY <1>2, <2>1, <2>2, <2>3, <2>4, <2>5, <2>6 DEF MainThread
<1>3. CASE RunBlock
  BY <1>3 DEF RunBlock, wrapper
<1>4. CASE CallbackCheck \/ MissEachOther
  BY <1>4 DEF CallbackCheck, MissEachOther, wrapper
<1>5. CASE CallbackEnqueue
  BY <1>5 DEF CallbackEnqueue, Enqueue
<1>6. ASSUME NEW c \in Slots, Callback(c) PROVE NoLostRequest'
  <2>1. CASE RegisterCompletes(c)
    BY <2>1 DEF RegisterCompletes
  <2>2. CASE ResubscribeCompletes(c)
    BY <2>2 DEF ResubscribeCompletes, wrapper
  <2>3. CASE SubscribeCompletes(c)
    BY <2>3 DEF SubscribeCompletes
  <2>4. CASE UnsubscribeCompletes(c)
    BY <2>4 DEF UnsubscribeCompletes, wrapper
  <2>5. QED
    BY <1>6, <2>1, <2>2, <2>3, <2>4 DEF Callback
<1>7. ASSUME NEW c \in Slots, ServiceApplies(c) \/ Lose(c) \/ Refuse(c)
      PROVE  NoLostRequest'
  BY <1>7 DEF ServiceApplies, Lose, Refuse, wrapper
<1>8. CASE Relaunch
  BY <1>8 DEF Relaunch
<1>9. CASE UNCHANGED vars
  BY <1>9 DEF vars, wrapper
<1>10. QED
  BY <1>1, <1>2, <1>3, <1>4, <1>5, <1>6, <1>7, <1>8, <1>9 DEF Next

(* A wish of a registered device is always about to be handled by one of   *)
(* the two threads, unless each of them has missed what the other wrote.   *)
THEOREM NeverLost == Spec => []NoLostRequest
<1>1. Init => NoLostRequest
  BY DEF Init, NoLostRequest
<1>2. TypeOK /\ NoLostRequest /\ [Next]_vars => NoLostRequest'
  BY NextNoLostRequest
<1>3. QED
  BY <1>1, <1>2, TypeCorrect, PTL DEF Spec

-----------------------------------------------------------------------------
(* Undisturbed requests *)

(* The step keeps the requests that work on the subscription.              *)
SameBusy ==
  \A c \in Slots : /\ Busy(c)' <=> Busy(c)
                   /\ Busy(c) => calls'[c] = calls[c]

(* A step that touches nothing Phase speaks of keeps Phase.                *)
LEMMA PhaseFrame ==
  ASSUME Phase, SameBusy,
         UNCHANGED <<blocks, needsSubscribe, interests, sended, zone,
                     delayedRoomName>>,
         main' \in {"check", "enqueue"} <=> main \in {"check", "enqueue"},
         cb' = "perform" <=> cb = "perform"
  PROVE  Phase'
<1> USE DEF SameBusy
<1>1. ChainActive' <=> ChainActive
  BY DEF ChainActive, Busy
<1>2. Pending' <=> Pending
  BY DEF Pending
<1>3. OneChain'
  BY <1>1 DEF Phase, OneChain
<1>4. ASSUME sended.disabled PROVE DisabledPhase'
  BY <1>1, <1>2, <1>4 DEF Phase, DisabledPhase
<1>5. ASSUME ~sended.disabled PROVE EnabledPhase'
  <2>1. WantedRoom' = WantedRoom
    BY DEF WantedRoom, Room
  <2>2. ASSUME NEW c \in Slots, Busy(c)'
        PROVE  Unsubscribing(c)' \/ Subscribing(c)'
    <3>1. Unsubscribing(c) \/ Subscribing(c)
      BY <1>5, <2>2 DEF Phase, EnabledPhase
    <3>2. calls'[c] = calls[c]
      BY <2>2
    <3>3. QED
      BY <2>1, <3>1, <3>2 DEF Unsubscribing, Subscribing
  <2>3. QED
    BY <1>1, <1>2, <1>5, <2>1, <2>2 DEF Phase, EnabledPhase
<1>6. QED
  BY <1>3, <1>4, <1>5 DEF Phase

LEMMA SameCalls == ASSUME UNCHANGED calls PROVE SameBusy
  BY DEF SameBusy, Busy

LEMMA IssueRegister ==
  ASSUME calls \in [Slots -> Calls], Issue("register") PROVE SameBusy
  BY DEF SameBusy, Busy, Issue, FreeSlot

(* A request slot that is filled when no chain is active is the only busy  *)
(* one.                                                                    *)
LEMMA IssueFirst ==
  ASSUME calls \in [Slots -> Calls], NEW op \in Ops \ {"register"}, Issue(op),
         \A c \in Slots : ~Busy(c)
  PROVE  \E c \in Slots :
           /\ calls'[c] = [at |-> "sent", op |-> op, room |-> NoRoom]
           /\ Busy(c)'
           /\ \A d \in Slots : Busy(d)' => d = c
  BY DEF Busy, Issue, FreeSlot, Ops

LEMMA NextWishRecorded ==
  ASSUME TypeOK, WishRecorded, [Next]_vars
  PROVE  WishRecorded'
<1> USE DEF WishRecorded, TypeOK
<1>1. CASE User
  BY <1>1 DEF User, SetPerson, SetPushTime, SetNotificationsDisabled, TravelTo,
              UserStep, Checkpoint, DidRegister, wrapper
<1>2. CASE MainThread
  <2>1. CASE PersonMissing \/ SettingsAlreadySent \/ SendDisabled
    BY <2>1 DEF PersonMissing, SettingsAlreadySent, SendDisabled, wrapper
  <2>2. CASE SendEnabled
    BY <2>2 DEF SendEnabled
  <2>3. CASE MainCheck \/ MainEnqueue
    BY <2>3 DEF MainCheck, MainEnqueue, Enqueue
  <2>4. QED
    BY <1>2, <2>1, <2>2, <2>3 DEF MainThread
<1>3. CASE RunBlock
  BY <1>3 DEF RunBlock, wrapper
<1>4. CASE CallbackCheck \/ MissEachOther
  BY <1>4 DEF CallbackCheck, MissEachOther, wrapper
<1>5. CASE CallbackEnqueue
  BY <1>5 DEF CallbackEnqueue, Enqueue
<1>6. ASSUME NEW c \in Slots,
             Callback(c) \/ ServiceApplies(c) \/ Lose(c) \/ Refuse(c)
      PROVE  WishRecorded'
  BY <1>6 DEF Callback, RegisterCompletes, ResubscribeCompletes,
              SubscribeCompletes, UnsubscribeCompletes, ServiceApplies, Lose,
              Refuse, wrapper
<1>7. CASE Relaunch
  BY <1>7 DEF Relaunch
<1>8. CASE UNCHANGED vars
  BY <1>8 DEF vars, wrapper
<1>9. QED
  BY <1>1, <1>2, <1>3, <1>4, <1>5, <1>6, <1>7, <1>8 DEF Next

(* The steps that start from, or stay in, an undisturbed phase.            *)
LEMMA SendDisabledPhases ==
  ASSUME TypeOK, SendDisabled, ~disturbed'
  PROVE  Phase'
<1> USE DEF TypeOK
<1>1. /\ ~ChainActive /\ ~needsSubscribe /\ cb # "perform"
      /\ isRegistered \/ interests = {}
  BY DEF SendDisabled
<1>2. sended'.disabled
  BY DEF SendDisabled, CurrentSettings
<1>3. blocks = 0 /\ \A c \in Slots : ~Busy(c)
  BY <1>1 DEF ChainActive, Busy
<1>4. ~Pending'
  BY <1>1, <1>3 DEF SendDisabled, Pending, wrapper
<1>5. CASE isRegistered
  <2>1. Issue("unsubscribe")
    BY <1>5 DEF SendDisabled
  <2>2. PICK c \in Slots :
           /\ calls'[c] = [at |-> "sent", op |-> "unsubscribe", room |-> NoRoom]
           /\ Busy(c)'
           /\ \A d \in Slots : Busy(d)' => d = c
    BY <2>1, <1>3, IssueFirst DEF Ops
  <2>3. ChainActive'
    BY <2>2 DEF ChainActive, Busy
  <2>4. OneChain'
    BY <2>2, <1>1, <1>3, <1>4 DEF OneChain, Pending, SendDisabled, wrapper
  <2>5. DisabledPhase'
    BY <2>2, <2>3, <1>4 DEF DisabledPhase
  <2>6. QED
    BY <2>4, <2>5, <1>2 DEF Phase
<1>6. CASE ~isRegistered
  <2>1. UNCHANGED calls /\ interests' = {}
    BY <1>1, <1>6 DEF SendDisabled
  <2>2. \A c \in Slots : ~Busy(c)'
    BY <2>1, <1>3 DEF Busy
  <2>3. QED
    BY <2>1, <2>2, <1>2, <1>3, <1>4
    DEF Phase, OneChain, DisabledPhase, SendDisabled, Pending, wrapper
<1>7. QED
  BY <1>5, <1>6

LEMMA SendEnabledPhases ==
  ASSUME TypeOK, SendEnabled, ~disturbed'
  PROVE  Phase'
<1> USE DEF TypeOK
<1>1. ~ChainActive /\ UNCHANGED <<calls, blocks>>
  BY DEF SendEnabled
<1>2. blocks' = 0 /\ (\A c \in Slots : ~Busy(c)') /\ ~ChainActive'
  BY <1>1 DEF ChainActive, Busy
<1>3. ~sended'.disabled /\ delayedRoomName' = WantedRoom' /\ Pending'
  BY DEF SendEnabled, CurrentSettings, WantedRoom, settings, Pending
<1>4. QED
  BY <1>2, <1>3 DEF Phase, OneChain, EnabledPhase

LEMMA EnqueuePhases ==
  ASSUME TypeOK, WishRecorded, Phase, Enqueue, ~disturbed',
         main = "enqueue" \/ cb = "perform",
         main' \in {main, "idle"}
  PROVE  Phase'
<1> USE DEF TypeOK
<1>1. ~ChainActive /\ Pending /\ UNCHANGED calls
  BY DEF Enqueue, Pending
<1>2. blocks = 0 /\ blocks' = 1
  BY <1>1 DEF Enqueue, ChainActive
<1>3. \A c \in Slots : ~Busy(c)'
  BY <1>1 DEF ChainActive, Busy
<1>4. ~sended.disabled
  BY <1>1 DEF Phase, DisabledPhase
<1>5. delayedRoomName' = WantedRoom' /\ ~sended'.disabled
  BY <1>1, <1>4 DEF Phase, EnabledPhase, Enqueue, WantedRoom, settings
<1>6. ~needsSubscribe'
  BY DEF Enqueue
<1>7. Pending'
  BY <1>2 DEF Pending
<1>8. QED
  BY <1>2, <1>3, <1>5, <1>6, <1>7 DEF Phase, OneChain, EnabledPhase

LEMMA MainCheckPhases ==
  ASSUME TypeOK, WishRecorded, Phase, MainCheck
  PROVE  Phase'
<1> USE DEF TypeOK
<1>1. SameBusy
  BY SameCalls DEF MainCheck
<1>2. CASE main' = "enqueue"
  BY <1>1, <1>2, PhaseFrame DEF MainCheck, settings, wrapper
<1>3. CASE main' = "idle"
  <2>1. Pending /\ Pending'
    BY <1>3 DEF MainCheck, WishRecorded, Pending, wrapper
  <2>2. ~sended.disabled
    BY <2>1 DEF Phase, DisabledPhase
  <2>3. \A c \in Slots : ~Busy(c)'
    BY <1>1 DEF SameBusy, Phase, OneChain, MainCheck
  <2>4. delayedRoomName' = WantedRoom' /\ ~sended'.disabled
    BY <2>1, <2>2 DEF Phase, EnabledPhase, MainCheck, WantedRoom, settings, wrapper
  <2>5. blocks' \in {0, 1} /\ (ChainActive' => ~needsSubscribe')
    BY DEF Phase, OneChain, MainCheck, wrapper, ChainActive
  <2>6. QED
    BY <2>1, <2>3, <2>4, <2>5 DEF Phase, OneChain, EnabledPhase
<1>4. QED
  BY <1>2, <1>3 DEF MainCheck

LEMMA RunBlockPhases ==
  ASSUME TypeOK, Phase, RunBlock
  PROVE  Phase'
<1> USE DEF TypeOK
<1>1. Pending /\ ChainActive /\ blocks = 1 /\ blocks' = 0
  BY DEF RunBlock, Pending, ChainActive, Phase, OneChain
<1>2. ~sended.disabled
  BY <1>1 DEF Phase, DisabledPhase
<1>3. \A c \in Slots : ~Busy(c)
  BY <1>1 DEF Phase, OneChain
<1>4. PICK c \in Slots :
         /\ calls'[c] = [at |-> "sent", op |-> "resubscribe", room |-> NoRoom]
         /\ Busy(c)'
         /\ \A d \in Slots : Busy(d)' => d = c
  <2>1. Issue("resubscribe")
    BY DEF RunBlock
  <2>2. QED
    BY <2>1, <1>3, IssueFirst DEF Ops
<1>5. delayedRoomName' = WantedRoom' /\ ~sended'.disabled
  BY <1>1, <1>2 DEF Phase, EnabledPhase, RunBlock, WantedRoom, settings, wrapper
<1>6. ~needsSubscribe' /\ main' = "idle"
  BY <1>1 DEF Phase, OneChain, RunBlock, wrapper
<1>7. OneChain'
  BY <1>1, <1>4, <1>6 DEF OneChain
<1>8. ChainActive'
  BY <1>4 DEF ChainActive, Busy
<1>9. Unsubscribing(c)'
  BY <1>4, <1>5 DEF Unsubscribing
<1>10. QED
  BY <1>4, <1>5, <1>7, <1>8, <1>9 DEF Phase, EnabledPhase

LEMMA CallbackCheckPhases ==
  ASSUME TypeOK, Phase, CallbackCheck
  PROVE  Phase'
<1> USE DEF TypeOK
<1>1. SameBusy
  BY SameCalls DEF CallbackCheck
<1>2. CASE cb' = "idle"
  BY <1>1, <1>2, PhaseFrame DEF CallbackCheck, settings, wrapper
<1>3. CASE cb' = "perform"
  <2>1. needsSubscribe /\ Pending /\ Pending'
    BY <1>3 DEF CallbackCheck, Pending, wrapper
  <2>2. ~ChainActive /\ ~sended.disabled
    BY <2>1 DEF Phase, OneChain, DisabledPhase
  <2>3. blocks = 0 /\ blocks' = 0 /\ (\A c \in Slots : ~Busy(c)')
    BY <2>2, <1>1 DEF ChainActive, Busy, SameBusy, CallbackCheck
  <2>4. ~ChainActive'
    BY <2>3 DEF ChainActive, Busy
  <2>5. delayedRoomName' = WantedRoom' /\ ~sended'.disabled
    BY <2>1, <2>2
    DEF Phase, EnabledPhase, CallbackCheck, WantedRoom, settings, wrapper
  <2>6. QED
    BY <2>1, <2>3, <2>4, <2>5 DEF Phase, OneChain, EnabledPhase
<1>4. QED
  BY <1>2, <1>3 DEF CallbackCheck

(* A wish that was missed waits on: it is still recorded.                  *)
LEMMA MissEachOtherPhases ==
  ASSUME TypeOK, WishRecorded, Phase, MissEachOther
  PROVE  Phase'
<1> USE DEF TypeOK
<1>1. SameBusy
  BY SameCalls DEF MissEachOther
<1>2. Pending /\ Pending'
  BY DEF MissEachOther, WishRecorded, Pending, wrapper
<1>3. ~sended.disabled
  BY <1>2 DEF Phase, DisabledPhase
<1>4. \A c \in Slots : ~Busy(c)'
  BY <1>1 DEF SameBusy, Phase, OneChain, MissEachOther
<1>5. delayedRoomName' = WantedRoom' /\ ~sended'.disabled
  BY <1>2, <1>3 DEF Phase, EnabledPhase, MissEachOther, WantedRoom, settings, wrapper
<1>6. blocks' \in {0, 1} /\ (ChainActive' => ~needsSubscribe')
  BY DEF Phase, OneChain, MissEachOther, wrapper, ChainActive
<1>7. QED
  BY <1>2, <1>4, <1>5, <1>6 DEF Phase, OneChain, EnabledPhase

LEMMA RegisterCompletesPhases ==
  ASSUME TypeOK, Phase, NEW c \in Slots, RegisterCompletes(c)
  PROVE  Phase'
<1>1. SameBusy
  BY DEF SameBusy, Busy, RegisterCompletes, TypeOK, FreeSlot
<1>2. QED
  BY <1>1, PhaseFrame DEF RegisterCompletes, settings

(* The two halves of a chain, and the answer to an unsubscription.         *)
LEMMA ResubscribeCompletesPhases ==
  ASSUME TypeOK, Phase, NEW c \in Slots, ResubscribeCompletes(c)
  PROVE  Phase'
<1> USE DEF TypeOK
<1>1. Busy(c) /\ ~sended.disabled
  BY DEF Busy, ResubscribeCompletes, FreeSlot, Phase, DisabledPhase
<1>2. Unsubscribing(c) /\ interests = {}
  BY <1>1 DEF Phase, EnabledPhase, Unsubscribing, Subscribing, ResubscribeCompletes
<1>3. /\ calls'[c] = [at |-> "sent", op |-> "subscribe", room |-> WantedRoom]
      /\ \A d \in Slots : Busy(d)' => d = c
      /\ Busy(c)'
  BY <1>1, <1>2
  DEF ResubscribeCompletes, Unsubscribing, Phase, OneChain, Busy, FreeSlot
<1>4. WantedRoom' = WantedRoom /\ delayedRoomName' = WantedRoom'
  BY <1>2 DEF WantedRoom, ResubscribeCompletes, settings, wrapper, Unsubscribing
<1>5. Subscribing(c)'
  BY <1>2, <1>3, <1>4 DEF Subscribing, ResubscribeCompletes
<1>6. ChainActive /\ ChainActive'
  BY <1>1, <1>3 DEF ChainActive, Busy
<1>7. OneChain'
  BY <1>1, <1>3, <1>6 DEF Phase, OneChain, ResubscribeCompletes, wrapper
<1>8. QED
  BY <1>1, <1>3, <1>4, <1>5, <1>6, <1>7
  DEF Phase, EnabledPhase, ResubscribeCompletes

LEMMA SubscribeCompletesPhases ==
  ASSUME TypeOK, Phase, NEW c \in Slots, SubscribeCompletes(c)
  PROVE  Phase'
<1> USE DEF TypeOK
<1>1. Busy(c) /\ ~sended.disabled
  BY DEF Busy, SubscribeCompletes, FreeSlot, Phase, DisabledPhase
<1>2. Subscribing(c) /\ interests = {WantedRoom}
  BY <1>1 DEF Phase, EnabledPhase, Unsubscribing, Subscribing, SubscribeCompletes
<1>3. \A d \in Slots : ~Busy(d)'
  BY <1>1 DEF SubscribeCompletes, Phase, OneChain, Busy, FreeSlot
<1>4. ChainActive /\ blocks = 0
  BY <1>1 DEF ChainActive, Busy, Phase, OneChain
<1>5. ~Pending'
  BY <1>1, <1>4 DEF Pending, Phase, OneChain, SubscribeCompletes
<1>6. interests' = {WantedRoom'} /\ ~sended'.disabled
  BY <1>1, <1>2 DEF WantedRoom, SubscribeCompletes, settings
<1>7. OneChain'
  BY <1>3, <1>4, <1>5 DEF OneChain, SubscribeCompletes, Pending
<1>8. QED
  BY <1>3, <1>5, <1>6, <1>7 DEF Phase, EnabledPhase

LEMMA UnsubscribeCompletesPhases ==
  ASSUME TypeOK, Phase, NEW c \in Slots, UnsubscribeCompletes(c)
  PROVE  Phase'
<1> USE DEF TypeOK
<1>1. Busy(c)
  BY DEF Busy, UnsubscribeCompletes, FreeSlot
<1>2. sended.disabled
  BY <1>1 DEF Phase, EnabledPhase, Unsubscribing, Subscribing, UnsubscribeCompletes
<1>3. interests = {} /\ ~Pending
  BY <1>1, <1>2 DEF Phase, DisabledPhase, UnsubscribeCompletes
<1>4. \A d \in Slots : ~Busy(d)'
  BY <1>1 DEF UnsubscribeCompletes, Phase, OneChain, Busy, FreeSlot
<1>5. ~Pending' /\ interests' = {} /\ sended'.disabled
  BY <1>2, <1>3 DEF Pending, UnsubscribeCompletes, wrapper
<1>6. QED
  BY <1>3, <1>4, <1>5
  DEF Phase, OneChain, DisabledPhase, UnsubscribeCompletes, Pending

(* NoRoom is no room: the assumption on NoRoom and the type of sended.     *)
LEMMA WantedRoomExists ==
  ASSUME TypeOK, sended # NeverSent
  PROVE  WantedRoom # NoRoom
<1>1. sended.sign \in Signs /\ sended.time \in Times /\ zone \in Zones
  BY DEF TypeOK, PushSettings
<1>2. WantedRoom \in Rooms
  BY <1>1, RoomType DEF WantedRoom
<1>3. NoRoom \notin Rooms
  BY SettingsAssumption DEF Rooms
<1>4. QED
  BY <1>2, <1>3, Zenon

(* The service answers a request of an undisturbed chain.                  *)
LEMMA ServiceAppliesPhases ==
  ASSUME TypeOK, sended # NeverSent, Phase, NEW c \in Slots, ServiceApplies(c)
  PROVE  Phase'
<1> USE DEF TypeOK
<1>1. CASE ~Busy(c)
  <2>1. SameBusy
    BY <1>1 DEF SameBusy, Busy, ServiceApplies, FreeSlot
  <2>2. interests' = interests
    BY <1>1 DEF Busy, ServiceApplies, FreeSlot
  <2>3. QED
    BY <2>1, <2>2, PhaseFrame DEF ServiceApplies, settings, wrapper
<1>2. CASE Busy(c)
  <2>1. calls[c].at = "sent" /\ \A d \in Slots : Busy(d) => d = c
    BY <1>2 DEF Phase, OneChain, ServiceApplies
  <2>2. calls'[c] = [calls[c] EXCEPT !.at = "answered"]
    BY <2>1 DEF ServiceApplies
  <2>3. /\ calls'[c].at = "answered" /\ calls'[c].op = calls[c].op
        /\ calls'[c].room = calls[c].room
    <3>1. calls[c] \in [at : {"sent", "answered", "orphan"}, op : Ops,
                        room : Rooms \cup {NoRoom}]
      BY <2>1 DEF Calls
    <3>2. QED
      BY <2>2, <3>1
  <2>4. Busy(c)' /\ \A d \in Slots : Busy(d)' => d = c
    BY <1>2, <2>1, <2>3 DEF ServiceApplies, Busy, FreeSlot
  <2>5. ChainActive /\ ChainActive'
    BY <1>2, <2>4 DEF ChainActive, Busy
  <2>6. OneChain'
    BY <1>2, <2>3, <2>4, <2>5 DEF Phase, OneChain, ServiceApplies, wrapper
  <2>7. Pending' <=> Pending
    BY DEF ServiceApplies, Pending, wrapper
  <2>8. ASSUME sended.disabled PROVE DisabledPhase'
    <3>1. calls[c].op = "unsubscribe"
      BY <1>2, <2>8 DEF Phase, DisabledPhase
    <3>2. interests' = {}
      BY <3>1 DEF ServiceApplies
    <3>3. QED
      BY <2>3, <2>4, <2>7, <2>8, <3>1, <3>2 DEF Phase, DisabledPhase
  <2>9. ASSUME ~sended.disabled PROVE EnabledPhase'
    <3>1. WantedRoom' = WantedRoom /\ delayedRoomName' = delayedRoomName
      BY DEF ServiceApplies, WantedRoom, settings, wrapper
    <3>2. CASE Unsubscribing(c)
      <4>1. Unsubscribing(c)'
        BY <2>3, <3>1, <3>2 DEF Unsubscribing, ServiceApplies
      <4>2. QED
        BY <2>4, <2>5, <2>7, <2>9, <3>1, <4>1 DEF Phase, EnabledPhase
    <3>3. CASE Subscribing(c)
      <4>1. calls[c].room = WantedRoom /\ interests = {}
        BY <2>1, <3>3 DEF Subscribing
      <4>2. interests' = {WantedRoom}
        BY <3>3, <4>1, WantedRoomExists DEF ServiceApplies, Subscribing
      <4>3. Subscribing(c)'
        BY <2>3, <3>1, <3>3, <4>2 DEF Subscribing, ServiceApplies
      <4>4. QED
        BY <2>4, <2>5, <2>7, <2>9, <3>1, <4>3 DEF Phase, EnabledPhase
    <3>4. QED
      BY <1>2, <2>9, <3>2, <3>3 DEF Phase, EnabledPhase
  <2>10. QED
    BY <2>6, <2>8, <2>9 DEF Phase, ServiceApplies
<1>3. QED
  BY <1>1, <1>2

(* A lost or refused request of a chain disturbs it; the registration is   *)
(* no part of a chain.                                                     *)
LEMMA FailurePhases ==
  ASSUME TypeOK, Phase, NEW c \in Slots, Lose(c) \/ Refuse(c), ~disturbed'
  PROVE  Phase'
<1>1. calls[c].op = "register"
  BY DEF Lose, Refuse
<1>2. SameBusy
  BY <1>1 DEF SameBusy, Busy, Lose, Refuse, TypeOK, FreeSlot
<1>3. QED
  BY <1>2, PhaseFrame DEF Lose, Refuse, settings, wrapper

(* Only a settled process is relaunched undisturbed.                       *)
LEMMA RelaunchPhases ==
  ASSUME TypeOK, Phase, Relaunch, ~disturbed'
  PROVE  Phase'
<1> USE DEF TypeOK
<1>1. ~ChainActive /\ ~needsSubscribe /\ main \notin {"check", "enqueue"}
      /\ cb # "perform" /\ blocks = 0
  BY DEF Relaunch, ChainActive
<1>2. ~Pending /\ ~Pending'
  BY <1>1 DEF Relaunch, Pending
<1>3. \A c \in Slots : ~Busy(c)'
  BY <1>1 DEF Relaunch, ChainActive, Busy, FreeSlot
<1>4. blocks' = 0 /\ ~needsSubscribe' /\ interests' = interests /\ sended' = sended
  BY DEF Relaunch
<1>5. WantedRoom' = WantedRoom
  BY DEF Relaunch, WantedRoom, settings
<1>6. QED
  BY <1>1, <1>2, <1>3, <1>4, <1>5
  DEF Phase, OneChain, DisabledPhase, EnabledPhase

LEMMA UserPhases ==
  ASSUME TypeOK, Phase, User, ~disturbed'
  PROVE  Phase'
<1>1. CASE Checkpoint
  <2>1. SameBusy
    BY <1>1, SameCalls DEF Checkpoint
  <2>2. QED
    BY <1>1, <2>1, PhaseFrame DEF Checkpoint, settings, wrapper
<1>2. CASE DidRegister
  <2>1. SameBusy
    BY <1>2, IssueRegister DEF DidRegister, TypeOK
  <2>2. QED
    BY <1>2, <2>1, PhaseFrame DEF DidRegister, settings, wrapper
<1>3. CASE UserStep /\ zone' = zone
  <2>1. SameBusy
    BY <1>3, SameCalls DEF UserStep
  <2>2. QED
    BY <1>3, <2>1, PhaseFrame DEF UserStep, wrapper
<1>4. QED
  BY <1>1, <1>2, <1>3
  DEF User, SetPerson, SetPushTime, SetNotificationsDisabled, TravelTo

(* The step, action by action: either it starts an undisturbed phase, or   *)
(* the phase before it was undisturbed and continues.                      *)
LEMMA NextPhases ==
  ASSUME IInv, [Next]_vars
  PROVE  Phases'
<1> SUFFICES ASSUME ~disturbed', sended' # NeverSent PROVE Phase'
  BY DEF Phases
<1>1. TypeOK /\ WishRecorded /\ Phases
  BY DEF IInv
<1>2. CASE SendDisabled
  BY <1>1, <1>2, SendDisabledPhases
<1>3. CASE SendEnabled
  BY <1>1, <1>3, SendEnabledPhases
<1>4. ASSUME ~disturbed, sended # NeverSent, ~SendDisabled, ~SendEnabled
      PROVE  Phase'
  <2>1. Phase
    BY <1>1, <1>4 DEF Phases
  <2>2. CASE User
    BY <1>1, <2>1, <2>2, UserPhases
  <2>3. CASE PersonMissing \/ SettingsAlreadySent
    <3>1. SameBusy
      BY <2>3, SameCalls DEF PersonMissing, SettingsAlreadySent
    <3>2. QED
      BY <2>1, <2>3, <3>1, PhaseFrame
      DEF PersonMissing, SettingsAlreadySent, settings, wrapper
  <2>4. CASE MainCheck
    BY <1>1, <2>1, <2>4, MainCheckPhases
  <2>5. CASE MainEnqueue
    BY <1>1, <2>1, <2>5, EnqueuePhases DEF MainEnqueue
  <2>6. CASE RunBlock
    BY <1>1, <2>1, <2>6, RunBlockPhases
  <2>7. CASE CallbackCheck
    BY <1>1, <2>1, <2>7, CallbackCheckPhases
  <2>8. CASE CallbackEnqueue
    BY <1>1, <2>1, <2>8, EnqueuePhases DEF CallbackEnqueue
  <2>9. ASSUME NEW c \in Slots, Callback(c) PROVE Phase'
    BY <1>1, <2>1, <2>9, RegisterCompletesPhases, ResubscribeCompletesPhases,
       SubscribeCompletesPhases, UnsubscribeCompletesPhases DEF Callback
  <2>10. ASSUME NEW c \in Slots, ServiceApplies(c) PROVE Phase'
    BY <1>1, <1>4, <2>1, <2>10, ServiceAppliesPhases
  <2>11. ASSUME NEW c \in Slots, Lose(c) \/ Refuse(c) PROVE Phase'
    BY <1>1, <2>1, <2>11, FailurePhases
  <2>12. CASE Relaunch
    BY <1>1, <2>1, <2>12, RelaunchPhases
  <2>13. CASE UNCHANGED vars
    <3>1. SameBusy
      BY <2>13, SameCalls DEF vars
    <3>2. QED
      BY <2>1, <2>13, <3>1, PhaseFrame DEF vars, settings, wrapper
  <2>14. CASE MissEachOther
    BY <1>1, <2>1, <2>14, MissEachOtherPhases
  <2>15. QED
    BY <1>4, <2>2, <2>3, <2>4, <2>5, <2>6, <2>7, <2>8, <2>9, <2>10, <2>11,
       <2>12, <2>13, <2>14 DEF Next, MainThread
<1>5. ~SendDisabled /\ ~SendEnabled => ~disturbed /\ sended # NeverSent
  <2>1. ~SendDisabled /\ ~SendEnabled => sended' = sended
    BY DEF Next, User, MainThread, Callback, SetPerson, SetPushTime,
           SetNotificationsDisabled, TravelTo, UserStep, Checkpoint,
           DidRegister, PersonMissing, SettingsAlreadySent, MainCheck,
           MainEnqueue, Enqueue, RunBlock, CallbackCheck, CallbackEnqueue,
           RegisterCompletes, ResubscribeCompletes, SubscribeCompletes,
           UnsubscribeCompletes, MissEachOther, ServiceApplies, Lose,
           Refuse, Relaunch, vars
  <2>2. ~SendDisabled /\ ~SendEnabled /\ disturbed => disturbed'
    BY DEF Next, User, MainThread, Callback, SetPerson, SetPushTime,
           SetNotificationsDisabled, TravelTo, UserStep, Checkpoint,
           DidRegister, PersonMissing, SettingsAlreadySent, MainCheck,
           MainEnqueue, Enqueue, RunBlock, CallbackCheck, CallbackEnqueue,
           RegisterCompletes, ResubscribeCompletes, SubscribeCompletes,
           UnsubscribeCompletes, MissEachOther, ServiceApplies, Lose,
           Refuse, Relaunch, vars
  <2>3. QED
    BY <2>1, <2>2
<1>6. QED
  BY <1>2, <1>3, <1>4, <1>5

LEMMA InvariantImplies == IInv => AgreesUnlessDisturbed
<1> SUFFICES ASSUME IInv, Settled, ~disturbed, sended # NeverSent
             PROVE  interests = Expected(sended)
  BY DEF AgreesUnlessDisturbed
<1>1. Phase /\ ~ChainActive /\ ~Pending
  BY DEF IInv, Phases, Settled, Pending, ChainActive, TypeOK
<1>2. sended \in PushSettings
  BY DEF IInv, TypeOK
<1>3. CASE sended.disabled
  BY <1>1, <1>3 DEF Phase, DisabledPhase, Expected
<1>4. CASE ~sended.disabled
  BY <1>1, <1>4 DEF Phase, EnabledPhase, Expected, WantedRoom
<1>5. QED
  BY <1>3, <1>4

(* After any history of overlaps, kills and network failures, an           *)
(* undisturbed request makes the service agree with the settings recorded  *)
(* as sent, and it keeps agreeing until the next disturbance.              *)
THEOREM Agreement == Spec => []AgreesUnlessDisturbed
<1>1. Init => IInv
  BY InitType DEF Init, IInv, WishRecorded, Phases
<1>2. IInv /\ [Next]_vars => IInv'
  BY NextType, NextWishRecorded, NextPhases DEF IInv
<1>3. QED
  BY <1>1, <1>2, InvariantImplies, PTL DEF Spec

-----------------------------------------------------------------------------
(* PushSubscription implements PushContract *)

(* Nothing has been asked of the service before settings are recorded.     *)
Untouched == sended = NeverSent => Quiet /\ interests = {}

ContractInv == IInv /\ Untouched

LEMMA QuietMeans == TypeOK => (Quiet <=> ~Pending /\ ~ChainActive)
  BY DEF TypeOK, Quiet, Pending, ChainActive

(* Only new settings make the device busy, and only work changes its       *)
(* rooms.                                                                  *)
LEMMA QuietStays ==
  ASSUME TypeOK, Quiet, [Next]_vars, ~SendDisabled, ~SendEnabled
  PROVE  Quiet' /\ interests' = interests
<1> USE DEF TypeOK
<1>1. blocks = 0 /\ \A c \in Slots : ~Busy(c)
  BY DEF Quiet, ChainActive, Busy
<1>2. ASSUME SameBusy, UNCHANGED <<blocks, needsSubscribe, interests>>,
             main' \notin {"check", "enqueue"}, cb' # "perform"
      PROVE  Quiet' /\ interests' = interests
  BY <1>1, <1>2 DEF Quiet, ChainActive, SameBusy, Busy
<1>3. CASE User
  <2>1. SameBusy
    <3>1. CASE DidRegister
      BY <3>1, IssueRegister DEF DidRegister
    <3>2. CASE ~DidRegister
      BY <1>3, <3>2, SameCalls
      DEF User, UserStep, SetPerson, SetPushTime, SetNotificationsDisabled,
          TravelTo, Checkpoint
    <3>3. QED
      BY <3>1, <3>2
  <2>2. QED
    BY <1>2, <1>3, <2>1
    DEF User, UserStep, SetPerson, SetPushTime, SetNotificationsDisabled,
        TravelTo, Checkpoint, DidRegister, Quiet, wrapper
<1>4. CASE MainThread \/ MissEachOther
  <2>1. PersonMissing \/ SettingsAlreadySent
    BY <1>4 DEF MainThread, MainCheck, MainEnqueue, MissEachOther, Quiet
  <2>2. SameBusy
    BY <2>1, SameCalls DEF PersonMissing, SettingsAlreadySent
  <2>3. QED
    BY <1>2, <2>1, <2>2 DEF PersonMissing, SettingsAlreadySent, Quiet, wrapper
<1>5. CASE RunBlock \/ CallbackEnqueue
  BY <1>1, <1>5 DEF RunBlock, CallbackEnqueue, Quiet
<1>6. CASE CallbackCheck
  <2>1. SameBusy
    BY <1>6, SameCalls DEF CallbackCheck
  <2>2. cb' # "perform"
    BY <1>6 DEF CallbackCheck, Quiet
  <2>3. QED
    BY <1>2, <1>6, <2>1, <2>2 DEF CallbackCheck, Quiet, wrapper
<1>7. ASSUME NEW c \in Slots,
             Callback(c) \/ ServiceApplies(c) \/ Lose(c) \/ Refuse(c)
      PROVE  Quiet' /\ interests' = interests
  <2>1. RegisterCompletes(c) \/ ServiceApplies(c) \/ Lose(c) \/ Refuse(c)
    BY <1>1, <1>7
    DEF Callback, ResubscribeCompletes, SubscribeCompletes,
        UnsubscribeCompletes, Busy, FreeSlot
  <2>2. calls[c].op = "register" \/ calls[c] = FreeSlot
    BY <1>1 DEF Busy
  <2>3. SameBusy
    <3>1. \A d \in Slots \ {c} : calls'[d] = calls[d]
      BY <2>1 DEF RegisterCompletes, ServiceApplies, Lose, Refuse
    <3>2. calls'[c] = FreeSlot \/ calls'[c].op = "register"
      BY <2>1, <2>2 DEF RegisterCompletes, ServiceApplies, Lose, Refuse,
                        FreeSlot, Calls
    <3>3. QED
      BY <1>1, <3>1, <3>2 DEF SameBusy, Busy
  <2>4. interests' = interests
    BY <2>1, <2>2 DEF RegisterCompletes, ServiceApplies, Lose, Refuse, FreeSlot
  <2>5. QED
    BY <1>2, <2>1, <2>3, <2>4
    DEF RegisterCompletes, ServiceApplies, Lose, Refuse, Quiet, wrapper
<1>8. CASE Relaunch
  <2>1. \A c \in Slots : ~Busy(c)'
    BY <1>1, <1>8 DEF Relaunch, Busy, FreeSlot
  <2>2. QED
    BY <1>1, <1>8, <2>1 DEF Relaunch, Quiet, ChainActive, Busy
<1>9. CASE UNCHANGED vars
  <2>1. SameBusy
    BY <1>9, SameCalls DEF vars
  <2>2. QED
    BY <1>2, <1>9, <2>1 DEF vars, Quiet, wrapper
<1>10. QED
  BY <1>3, <1>4, <1>5, <1>6, <1>7, <1>8, <1>9 DEF Next

(* Settings are recorded by the two sends only.                            *)
LEMMA OnlySendsRecord ==
  ASSUME [Next]_vars, ~SendDisabled, ~SendEnabled
  PROVE  /\ sended' = sended
         /\ disturbed => disturbed'
         /\ zone' # zone => disturbed'
<1> USE DEF Next, MainThread, Callback, PersonMissing, SettingsAlreadySent,
            MainCheck, MainEnqueue, Enqueue, RunBlock, CallbackCheck,
            CallbackEnqueue, RegisterCompletes, ResubscribeCompletes,
            SubscribeCompletes, UnsubscribeCompletes, ServiceApplies, Lose,
            Refuse, Relaunch, MissEachOther, vars, settings, User, SetPerson, SetPushTime,
            SetNotificationsDisabled, UserStep, Checkpoint, DidRegister
<1>1. sended' = sended
  BY DEF TravelTo
<1>2. disturbed => disturbed'
  BY DEF TravelTo
<1>3. ASSUME zone' # zone PROVE disturbed'
  <2>1. PICK offset \in Zones : TravelTo(offset)
    BY <1>3
  <2>2. QED
    BY <1>3, <2>1 DEF TravelTo
<1>4. QED
  BY <1>1, <1>2, <1>3

LEMMA NextUntouched ==
  ASSUME TypeOK, Untouched, [Next]_vars
  PROVE  Untouched'
<1>1. CASE SendDisabled \/ SendEnabled
  <2>1. sended' = CurrentSettings /\ CurrentSettings \in PushSettings
    BY <1>1 DEF SendDisabled, SendEnabled, CurrentSettings, PushSettings, TypeOK
  <2>2. QED
    BY <2>1, SentinelAssumption DEF Untouched
<1>2. CASE ~SendDisabled /\ ~SendEnabled
  BY <1>2, OnlySendsRecord, QuietStays DEF Untouched
<1>3. QED
  BY <1>1, <1>2

LEMMA ContractInvariant == Spec => []ContractInv
<1>1. Init => ContractInv
  <2>1. Init => IInv
    BY InitType DEF Init, IInv, WishRecorded, Phases
  <2>2. Init => Untouched
    BY DEF Init, Untouched, Quiet, ChainActive
  <2>3. QED
    BY <2>1, <2>2 DEF ContractInv
<1>2. ContractInv /\ [Next]_vars => ContractInv'
  BY NextType, NextWishRecorded, NextPhases, NextUntouched DEF IInv, ContractInv
<1>3. QED
  BY <1>1, <1>2, PTL DEF Spec

-----------------------------------------------------------------------------
(* The step simulation *)

(* Rooms are left all at once and entered one at a time, by the service    *)
(* only.                                                                   *)
LEMMA RoomsStep ==
  ASSUME TypeOK, [Next]_vars
  PROVE  \/ interests' = interests
         \/ \E c \in Slots : /\ ServiceApplies(c) /\ Busy(c)
                             /\ \/ interests' = {}
                                \/ /\ calls[c].op = "subscribe"
                                   /\ calls[c].room # NoRoom
                                   /\ interests' = interests \cup {calls[c].room}
<1>1. CASE \E c \in Slots : ServiceApplies(c)
  <2>1. PICK c \in Slots : ServiceApplies(c)
    BY <1>1
  <2>2. CASE Busy(c)
    BY <2>1, <2>2 DEF ServiceApplies
  <2>3. CASE ~Busy(c)
    BY <2>1, <2>3 DEF ServiceApplies, Busy, FreeSlot
  <2>4. QED
    BY <2>2, <2>3
<1>2. CASE ~(\E c \in Slots : ServiceApplies(c))
  BY <1>2
  DEF Next, User, MainThread, Callback, SetPerson, SetPushTime,
      SetNotificationsDisabled, TravelTo, UserStep, Checkpoint,
      DidRegister, PersonMissing, SettingsAlreadySent, SendDisabled, SendEnabled,
      MainCheck, MainEnqueue, Enqueue, RunBlock, CallbackCheck, CallbackEnqueue,
      RegisterCompletes, ResubscribeCompletes, SubscribeCompletes,
      UnsubscribeCompletes, MissEachOther, Lose, Refuse, Relaunch, vars
<1>3. QED
  BY <1>1, <1>2

(* An undisturbed device at rest holds what is wanted.                     *)
LEMMA QuietHoldsWanted ==
  ASSUME ContractInv, ~disturbed, Quiet
  PROVE  interests = Wanted
<1>1. CASE sended = NeverSent
  BY <1>1 DEF ContractInv, Untouched, Wanted
<1>2. CASE sended # NeverSent
  <2>1. Phase /\ ~Pending /\ ~ChainActive
    BY <1>2, QuietMeans DEF ContractInv, IInv, Phases
  <2>2. CASE sended.disabled
    BY <1>2, <2>1, <2>2 DEF Phase, DisabledPhase, Wanted, Expected
  <2>3. CASE ~sended.disabled
    BY <1>2, <2>1, <2>3 DEF Phase, EnabledPhase, Wanted, Expected, WantedRoom
  <2>4. QED
    BY <2>2, <2>3
<1>3. QED
  BY <1>1, <1>2

LEMMA DisturbedStep ==
  ASSUME TypeOK, [Next]_vars, disturbed'
  PROVE  Contract!Trouble
<1>1. Contract!AtMostOne(Wanted')
  BY DEF Contract!AtMostOne, Wanted, Expected
<1>2. Quiet' \in BOOLEAN
  BY DEF Quiet
<1>3. \/ interests' \in {interests, {}}
      \/ \E r \in interests' : interests' = interests \cup {r}
  BY RoomsStep
<1>4. QED
  BY <1>1, <1>2, <1>3 DEF Contract!Trouble

(* An undisturbed step that records nothing.                               *)
LEMMA WorkStep ==
  ASSUME ContractInv, ContractInv', [Next]_vars, ~disturbed',
         ~SendDisabled, ~SendEnabled
  PROVE  Contract!Leave \/ Contract!Enter \/ Contract!Finish
         \/ UNCHANGED Contract!contract
<1>1. sended' = sended /\ zone' = zone /\ ~disturbed
  BY OnlySendsRecord
<1>2. Wanted' = Wanted /\ (~disturbed)' = ~disturbed
  BY <1>1 DEF Wanted, Expected, Room
<1>3. Quiet => Quiet' /\ interests' = interests
  BY QuietStays DEF ContractInv, IInv
<1>4. CASE interests' = interests
  <2>1. CASE Quiet' = Quiet
    BY <1>2, <1>4, <2>1 DEF Contract!contract
  <2>2. CASE Quiet' # Quiet
    <3>1. ~Quiet /\ Quiet'
      BY <1>3, <2>2 DEF Quiet
    <3>2. interests' = Wanted'
      <4>1. (ContractInv /\ ~disturbed /\ Quiet => interests = Wanted)'
        BY QuietHoldsWanted, PTL
      <4>2. QED
        BY <3>1, <4>1
    <3>3. QED
      BY <1>1, <1>2, <1>4, <3>1, <3>2 DEF Contract!Finish, Quiet
  <2>3. QED
    BY <2>1, <2>2
<1>5. CASE interests' # interests
  <2>1. PICK c \in Slots :
          /\ ServiceApplies(c) /\ Busy(c)
          /\ \/ interests' = {}
             \/ /\ calls[c].op = "subscribe"
                /\ interests' = interests \cup {calls[c].room}
    BY <1>5, RoomsStep DEF ContractInv, IInv
  <2>2. sended # NeverSent /\ Phase /\ calls[c].at = "sent"
    <3>1. sended # NeverSent /\ Phase
      BY <1>1, <1>3, <1>5 DEF ContractInv, Untouched, IInv, Phases
    <3>2. QED
      BY <2>1, <3>1 DEF Phase, OneChain, ServiceApplies
  <2>3. ~Quiet /\ ~Quiet'
    <3>1. ~Quiet
      BY <1>3, <1>5
    <3>2. Busy(c)'
      BY <2>1, <2>2 DEF ServiceApplies, Busy, FreeSlot
    <3>3. ChainActive'
      BY <3>2 DEF ChainActive, Busy
    <3>4. QED
      BY <3>1, <3>3 DEF Quiet
  <2>4. CASE interests' = {}
    BY <1>1, <1>2, <2>3, <2>4 DEF Contract!Leave, Quiet
  <2>5. CASE calls[c].op = "subscribe" /\ interests' = interests \cup {calls[c].room}
    <3>1. ~sended.disabled /\ Subscribing(c)
      BY <2>2, <2>1, <2>5
      DEF Phase, DisabledPhase, EnabledPhase, Unsubscribing
    <3>2. interests = {} /\ calls[c].room = WantedRoom
      BY <2>2, <3>1 DEF Subscribing
    <3>3. interests' = Wanted
      BY <2>2, <2>5, <3>1, <3>2 DEF Wanted, WantedRoom, Expected
    <3>4. QED
      BY <1>1, <1>2, <2>3, <3>2, <3>3 DEF Contract!Enter, Quiet
  <2>6. QED
    BY <2>1, <2>4, <2>5
<1>6. QED
  BY <1>4, <1>5

LEMMA SendStep ==
  ASSUME ContractInv', SendDisabled \/ SendEnabled
  PROVE  Contract!Request
<1>1. Contract!AtMostOne(Wanted')
  BY DEF Contract!AtMostOne, Wanted, Expected
<1>2. (~disturbed)' \in BOOLEAN /\ Quiet' \in BOOLEAN
  BY DEF Quiet
<1>3. ~disturbed' /\ Quiet' => interests' = Wanted'
  <2>1. (ContractInv /\ ~disturbed /\ Quiet => interests = Wanted)'
    BY QuietHoldsWanted, PTL
  <2>2. QED
    BY <2>1
<1>4. interests' = interests
  BY DEF SendDisabled, SendEnabled
<1>5. QED
  BY <1>1, <1>2, <1>3, <1>4 DEF Contract!Request

(* Whatever the parameters, with missed flags, losses and kills: an        *)
(* undisturbed device leaves its rooms before it enters the one wanted,    *)
(* and rests in that one only.                                             *)
THEOREM Implements == Spec => KeepsContract
<1>1. Init => Contract!Init
  BY DEF Init, Contract!Init, Wanted, Quiet, ChainActive
<1>2. ContractInv /\ ContractInv' /\ [Next]_vars
        => [Contract!Next]_(Contract!contract)
  <2> SUFFICES ASSUME ContractInv, ContractInv', [Next]_vars
                 PROVE  [Contract!Next]_(Contract!contract)
    OBVIOUS
  <2>2. CASE disturbed'
    BY <2>2, DisturbedStep DEF ContractInv, IInv, Contract!Next
  <2>3. CASE SendDisabled \/ SendEnabled
    BY <2>3, SendStep DEF Contract!Next
  <2>4. CASE ~disturbed' /\ ~SendDisabled /\ ~SendEnabled
    BY <2>4, WorkStep DEF Contract!Next
  <2>5. QED
    BY <2>2, <2>3, <2>4
<1>3. QED
  BY <1>1, <1>2, ContractInvariant, PTL DEF Spec, KeepsContract, Contract!Spec

=============================================================================
