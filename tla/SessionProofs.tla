----------------------------- MODULE SessionProofs -----------------------------
(***************************************************************************)
(* Session's invariants about the person and about the stack, for any      *)
(* dates, any languages and any bounds.  The inductive invariant has four  *)
(* parts: what the stack and the slot may be (Stacked), who may be         *)
(* remembered (Known), the settings, requests and the process (Settled),   *)
(* and what there is before the user has picked a birthday (Alone).  A     *)
(* second one, with the first, says what the screens show (Shown) and      *)
(* whose settings were sent (Followed).                                    *)
(***************************************************************************)
EXTENDS Session, SequenceTheorems, TLAPS

Askers == {"welcome", "account", "friends"}
Signs  == ZodiacTypes \cup {Unknown}

(* A stack whose screens above position k are pushed to stay, and whose    *)
(* screens with a request are of kinds that make one.                      *)
Layered(screens, k) ==
  /\ screens \in Seq(Screens) /\ screens # <<>>
  /\ \A i \in 2..Len(screens) : i > k => Pushed(screens[i])
  /\ \A i \in 1..Len(screens) : screens[i].busy => screens[i].kind \in Askers

Stacked ==
  /\ Layered(stack, slot)
  /\ slot \in 0..Len(stack) /\ animating \in Nat
  /\ animating = 0 => slot = 0
  /\ asked \in Screens /\ exposed \in BOOLEAN

Known ==
  /\ {person, saved} \subseteq Persons \cup {NoPerson}
  /\ (person = NoPerson) <=> (saved = NoPerson)
  /\ \A p \in {person, saved} : p # NoPerson => SignOf(p.birth) # Unknown
  /\ loggedOut \in BOOLEAN
  /\ saved = person \/ (loggedOut /\ person # NoPerson /\ saved = [person EXCEPT !.facebook = TRUE])

Settled ==
  /\ sent \in Signs /\ late \in BOOLEAN
  /\ token \in {"asked", "again", "answered"}
  /\ orphans \subseteq Askers
  /\ process \in {"running", "asserted", "freed"}
  /\ process = "asserted" => person = NoPerson
  /\ steps \in 0..MaxSteps /\ launches \in 0..MaxLaunches

Alone ==
  person = NoPerson =>
    /\ Len(stack) = 1 /\ stack[1].kind = "welcome" /\ animating = 0
    /\ orphans = {} /\ sent = Unknown

IInv == Stacked /\ Known /\ Settled /\ Alone

-------------------------------------------------------------------------------
(* Operators *)

LEMMA SignType == \A month, day : zodiacTypeByDate(month, day) \in Signs
BY DEF zodiacTypeByDate, Signs

LEMMA ScreenType ==
  /\ \A kind \in Kinds : /\ Screen(kind) \in Screens /\ ~Screen(kind).busy
                         /\ Screen(kind).kind = kind /\ Screen(kind).who = "nobody"
  /\ \A who \in {"me", "old", "friend", "nobody"}, sign \in Signs :
       /\ Prediction(who, sign) \in Screens /\ ~Prediction(who, sign).busy
       /\ Prediction(who, sign).who = who /\ Prediction(who, sign).kind = "prediction"
  /\ \A p : Own(p) \in Screens /\ ~Own(p).busy
<1>1. \A kind \in Kinds : /\ Screen(kind) \in Screens /\ ~Screen(kind).busy
                          /\ Screen(kind).kind = kind /\ Screen(kind).who = "nobody"
  BY DEF Screen, Screens
<1>2. \A who \in {"me", "old", "friend", "nobody"}, sign \in Signs :
        /\ Prediction(who, sign) \in Screens /\ ~Prediction(who, sign).busy
        /\ Prediction(who, sign).who = who /\ Prediction(who, sign).kind = "prediction"
  BY DEF Prediction, Screen, Screens, Kinds, Signs
<1>3. \A p : Own(p) \in Screens /\ ~Own(p).busy
  BY <1>2, SignType DEF Own, SignOf
<1> QED
  BY <1>1, <1>2, <1>3

(* A screen of the old person is as pushed and as busy as it was.          *)
LEMMA AgedType ==
  ASSUME NEW s \in Screens
  PROVE  /\ Aged(s) \in Screens /\ (Pushed(Aged(s)) <=> Pushed(s))
         /\ Aged(s).kind = s.kind /\ Aged(s).busy = s.busy
BY DEF Aged, Screens, Pushed

LEMMA AgedLayers ==
  ASSUME NEW k, NEW screens, Layered(screens, k)
  PROVE  Layered(AllAged(screens), k) /\ Len(AllAged(screens)) = Len(screens)
<1>1. /\ AllAged(screens) \in Seq(Screens) /\ Len(AllAged(screens)) = Len(screens)
      /\ \A i \in 1..Len(screens) : AllAged(screens)[i] = Aged(screens[i])
  BY AgedType DEF AllAged, Layered
<1>2. \A i \in 1..Len(screens) : screens[i] \in Screens
  BY DEF Layered
<1> QED
  BY <1>1, <1>2, AgedType DEF Layered

LEMMA RestedLayers ==
  ASSUME Layered(stack, slot), NEW i \in DOMAIN stack
  PROVE  Layered(Rested(i), slot) /\ Len(Rested(i)) = Len(stack)
<1>1. \A s \in Screens : /\ [s EXCEPT !.busy = FALSE] \in Screens
                         /\ ~[s EXCEPT !.busy = FALSE].busy
                         /\ Pushed([s EXCEPT !.busy = FALSE]) <=> Pushed(s)
  BY DEF Screens, Pushed
<1>2. /\ Rested(i) \in Seq(Screens)
      /\ Len(Rested(i)) = Len(stack)
      /\ \A j \in 1..Len(stack) :
           Rested(i)[j] = IF j = i THEN [stack[j] EXCEPT !.busy = FALSE] ELSE stack[j]
  <2>1. stack \in Seq(Screens) /\ i \in 1..Len(stack) /\ stack[i] \in Screens
    BY DEF Layered
  <2>2. [stack[i] EXCEPT !.busy = FALSE] \in Screens
    BY <1>1, <2>1
  <2>3. Rested(i) = [stack EXCEPT ![i] = [stack[i] EXCEPT !.busy = FALSE]]
    BY DEF Rested
  <2> DEFINE e == [stack[i] EXCEPT !.busy = FALSE]
  <2>4. e \in Screens /\ Rested(i) = [stack EXCEPT ![i] = e]
    BY <2>2, <2>3
  <2>5. /\ Rested(i) \in Seq(Screens)
        /\ Len(Rested(i)) = Len(stack)
        /\ \A j \in 1..Len(stack) : Rested(i)[j] = IF j = i THEN e ELSE stack[j]
    <3> HIDE DEF e
    <3> QED
      BY <2>1, <2>4, ExceptSeq
  <2> QED
    BY <2>5
<1>3. Rested(i) \in Seq(Screens)
  BY <1>2
<1>4. Rested(i) # <<>>
  BY <1>2 DEF Layered
<1>5. ASSUME NEW j \in 2..Len(stack), j > slot
      PROVE  Pushed(Rested(i)[j])
  <2>1. stack[j] \in Screens /\ Pushed(stack[j]) /\ j \in 1..Len(stack)
    BY <1>5 DEF Layered
  <2> QED
    BY <1>1, <1>2, <2>1
<1>6. ASSUME NEW j \in 1..Len(stack), Rested(i)[j].busy
      PROVE  Rested(i)[j].kind \in Askers
  <2>1. stack[j] \in Screens
    BY DEF Layered
  <2>2. j # i
    BY <1>1, <1>2, <1>6, <2>1
  <2> QED
    BY <1>2, <1>6, <2>2 DEF Layered
<1> QED
  BY <1>2, <1>3, <1>4, <1>5, <1>6 DEF Layered

(* A screen on top of layered ones, if it is pushed to stay or its         *)
(* completion is the one that waits.                                       *)
LEMMA AppendLayers ==
  ASSUME NEW k, NEW screens, Layered(screens, k), NEW s \in Screens, ~s.busy,
         NEW l, l = Len(Append(screens, s)) \/ (l = k /\ Pushed(s))
  PROVE  /\ Layered(Append(screens, s), l)
         /\ Len(Append(screens, s)) = Len(screens) + 1
<1>1. /\ Append(screens, s) \in Seq(Screens) /\ Append(screens, s) # <<>>
      /\ Len(screens) \in Nat /\ Len(Append(screens, s)) = Len(screens) + 1
      /\ \A i \in 1..Len(screens) : Append(screens, s)[i] = screens[i]
      /\ Append(screens, s)[Len(screens) + 1] = s
  BY DEF Layered
<1> DEFINE t == Append(screens, s)
<1> HIDE DEF t
<1>2. \A i \in 2..Len(t) : i > l => Pushed(t[i])
  <2>1. CASE l = Len(t)
    BY <1>1, <2>1 DEF t
  <2>2. CASE l = k /\ Pushed(s)
    BY <1>1, <2>2 DEF Layered, t
  <2> QED
    BY <2>1, <2>2 DEF t
<1>3. \A i \in 1..Len(t) : t[i].busy => t[i].kind \in Askers
  <2> SUFFICES ASSUME NEW i \in 1..Len(t), t[i].busy
               PROVE  t[i].kind \in Askers
    OBVIOUS
  <2>1. i \in 1..Len(screens)
    BY <1>1 DEF t
  <2> QED
    BY <1>1, <2>1 DEF Layered, t
<1> QED
  BY <1>1, <1>2, <1>3 DEF Layered, t

(* Show and Push keep the stack layered, whatever they start from.         *)
LEMMA ShowStacks ==
  ASSUME Stacked, NEW screens, Layered(screens, slot), Len(screens) = Len(stack),
         NEW s \in Screens, ~s.busy, Show(screens, s)
  PROVE  Stacked'
<1>1. CASE Same(screens[Len(screens)], s)
  BY <1>1 DEF Show, Stacked
<1>2. CASE ~Same(screens[Len(screens)], s)
  <2>1. /\ stack' = Append(screens, s) /\ slot' = Len(stack')
        /\ animating' = animating + 1 /\ asked' = s /\ exposed' = FALSE
    BY <1>2 DEF Show
  <2>2. Layered(stack', slot') /\ Len(stack') = Len(screens) + 1
    BY <2>1, AppendLayers
  <2>3. slot' \in 0..Len(stack') /\ animating' \in Nat /\ animating' # 0
    BY <2>1, <2>2 DEF Stacked, Layered
  <2> QED
    BY <2>1, <2>2, <2>3 DEF Stacked
<1> QED
  BY <1>1, <1>2

LEMMA PushStacks ==
  ASSUME Stacked, NEW screens, Layered(screens, slot), Len(screens) = Len(stack),
         NEW s \in Screens, ~s.busy, Pushed(s), Push(screens, s)
  PROVE  Stacked'
<1>1. CASE Same(screens[Len(screens)], s)
  BY <1>1 DEF Push, Stacked
<1>2. CASE ~Same(screens[Len(screens)], s)
  <2>1. /\ stack' = Append(screens, s) /\ slot' = slot
        /\ animating' = animating + 1 /\ asked' = s
    BY <1>2 DEF Push
  <2>2. exposed' \in BOOLEAN
    BY <1>2 DEF Push
  <2>3. Layered(stack', slot') /\ Len(stack') = Len(screens) + 1
    BY <2>1, AppendLayers
  <2>4. slot' \in 0..Len(stack') /\ animating' \in Nat /\ animating' # 0
    BY <2>1, <2>3 DEF Stacked
  <2> QED
    BY <2>1, <2>2, <2>3, <2>4 DEF Stacked
<1> QED
  BY <1>1, <1>2
-------------------------------------------------------------------------------
(* Sending, and the person *)

LEMMA SendKeeps ==
  ASSUME NEW p, sent \in Signs, late \in BOOLEAN, process = "running", SendFor(p)
  PROVE  /\ sent' \in Signs /\ late' \in BOOLEAN
         /\ process' \in {"running", "asserted"}
         /\ process' = "asserted" => p = NoPerson
         /\ p = NoPerson => sent' = sent
<1>1. CASE p = NoPerson
  BY <1>1 DEF SendFor
<1>2. CASE p # NoPerson
  BY <1>2, SignType DEF SendFor, SignOf
<1> QED
  BY <1>1, <1>2

LEMMA CoverKeeps ==
  ASSUME NEW p, NEW l \in BOOLEAN, sent \in Signs, late \in BOOLEAN,
         process = "running", Cover(p, l)
  PROVE  /\ sent' \in Signs /\ late' \in BOOLEAN
         /\ process' \in {"running", "asserted"}
         /\ process' = "asserted" => p = NoPerson
         /\ p = NoPerson => sent' = sent
<1>1. CASE Top.kind = "pushTime"
  BY <1>1, SendKeeps DEF Cover
<1>2. CASE Top.kind # "pushTime"
  BY <1>2 DEF Cover
<1> QED
  BY <1>1, <1>2

LEMMA Someone ==
  ASSUME IInv, NEW i \in DOMAIN stack, stack[i].kind # "welcome"
  PROVE  person # NoPerson
<1>1. i \in 1..Len(stack)
  BY DEF IInv, Stacked, Layered
<1> QED
  BY <1>1 DEF IInv, Alone

LEMMA TopIsThere == IInv => Len(stack) \in DOMAIN stack
BY DEF IInv, Stacked, Layered

LEMMA KnownSame == Known /\ UNCHANGED account => Known'
BY DEF Known, account

LEMMA PersonFields ==
  ASSUME NEW p \in Persons, NEW b \in Dates, NEW f \in BOOLEAN
  PROVE  /\ [p EXCEPT !.birth = b] \in Persons /\ [p EXCEPT !.birth = b].birth = b
         /\ [p EXCEPT !.facebook = f] \in Persons
         /\ [p EXCEPT !.facebook = f].birth = p.birth
BY DEF Persons

LEMMA KnownNew ==
  ASSUME NEW p \in Persons, SignOf(p.birth) # Unknown, HandlePerson(p)
  PROVE  Known' /\ person' # NoPerson
<1>1. p # NoPerson
  BY SessionAssumption
<1>2. person' = p /\ saved' = p /\ loggedOut' = FALSE
  BY DEF HandlePerson
<1> QED
  BY <1>1, <1>2 DEF Known

LEMMA GatheredType ==
  ASSUME NEW p \in Gathered
  PROVE  p \in Persons /\ SignOf(p.birth) # Unknown
<1>1. PICK d \in Profiles :
        p = [birth |-> ReadProfile(d), facebook |-> TRUE] /\ SignOf(ReadProfile(d)) # Unknown
  BY DEF Gathered
<1> QED
  BY <1>1 DEF Persons, Dates

LEMMA LateType == late \in BOOLEAN => Late \in BOOLEAN
BY DEF Late

LEMMA SettledStep ==
  ASSUME Settled, Step,
         sent' \in Signs, late' \in BOOLEAN, token' \in {"asked", "again", "answered"},
         orphans' \subseteq Askers, process' \in {"running", "asserted", "freed"},
         process' = "asserted" => person' = NoPerson
  PROVE  Settled'
<1>1. steps' \in 0..MaxSteps
  BY SessionAssumption DEF Settled, Step
<1> QED
  BY <1>1 DEF Settled, Step

(* A step that changes neither the account nor the settings, requests or   *)
(* process.                                                                *)
LEMMA NavStep ==
  ASSUME IInv, Step, UNCHANGED <<account, pushes, orphans, process>>
  PROVE  Known' /\ Settled'
<1>1. Known'
  BY KnownSame DEF IInv, account
<1>2. Settled'
  BY SettledStep DEF IInv, Settled, account, pushes
<1> QED
  BY <1>1, <1>2

(* Somebody is there after the step: nothing is Alone.                     *)
LEMMA NotAlone == person' # NoPerson => Alone'
BY DEF Alone
-------------------------------------------------------------------------------
(* The first state and the next launch *)

LEMMA LaunchedStacks ==
  ASSUME NEW p, NEW s, s = IF p = NoPerson THEN Screen("welcome") ELSE Own(p)
  PROVE  /\ s \in Screens /\ ~s.busy /\ Layered(<<s>>, 0)
         /\ p = NoPerson => s.kind = "welcome"
<1>1. s \in Screens /\ ~s.busy /\ (p = NoPerson => s.kind = "welcome")
  BY ScreenType DEF Kinds
<1>2. <<s>> \in Seq(Screens) /\ <<s>> # <<>> /\ Len(<<s>>) = 1 /\ <<s>>[1] = s
  BY <1>1
<1> QED
  BY <1>1, <1>2 DEF Layered

LEMMA InitInv == Init => IInv
<1> SUFFICES ASSUME Init PROVE IInv
  OBVIOUS
<1>1. stack = <<Screen("welcome")>> /\ asked = Screen("welcome") /\ token = "asked"
  BY DEF Init, Launched
<1>2. /\ Screen("welcome") \in Screens /\ Layered(stack, 0)
      /\ Screen("welcome").kind = "welcome"
  BY <1>1, LaunchedStacks
<1>3. Len(stack) = 1 /\ stack[1] = Screen("welcome")
  BY <1>1
<1>4. Stacked
  <2>1. slot = 0 /\ animating = 0 /\ exposed = FALSE
    BY DEF Init
  <2>2. 0 \in 0..Len(stack) /\ 0 \in Nat
    BY <1>3
  <2> QED
    BY <1>1, <1>2, <2>1, <2>2 DEF Stacked
<1>5. Known
  BY DEF Known, Init
<1>6. Settled
  <2>1. /\ sent = Unknown /\ late = FALSE /\ orphans = {} /\ process = "running"
        /\ steps = 0 /\ launches = 1
    BY DEF Init
  <2>2. 0 \in 0..MaxSteps /\ 1 \in 0..MaxLaunches
    BY SessionAssumption
  <2> QED
    BY <1>1, <2>1, <2>2 DEF Settled, Signs
<1>7. Alone
  BY <1>2, <1>3 DEF Alone, Init
<1> QED
  BY <1>4, <1>5, <1>6, <1>7 DEF IInv

LEMMA RelaunchInv == IInv /\ Relaunch => IInv'
<1> SUFFICES ASSUME IInv, Relaunch PROVE IInv'
  OBVIOUS
<1> DEFINE s == IF saved = NoPerson THEN Screen("welcome") ELSE Own(saved)
<1>1. /\ s \in Screens /\ Layered(<<s>>, 0)
      /\ saved = NoPerson => s.kind = "welcome"
  BY LaunchedStacks
<1>2. /\ stack' = <<s>> /\ asked' = s
      /\ token' \in {"asked", "again", "answered"}
  BY DEF Relaunch, Launched
<1> HIDE DEF s
<1>3. Len(stack') = 1 /\ stack'[1] = s
  BY <1>2
<1>4. Stacked'
  <2>1. slot' = 0 /\ animating' = 0 /\ exposed' = FALSE
    BY DEF Relaunch
  <2>2. 0 \in 0..Len(stack') /\ 0 \in Nat
    BY <1>3
  <2> QED
    BY <1>1, <1>2, <2>1, <2>2 DEF Stacked
<1>5. Known'
  BY DEF IInv, Known, Relaunch
<1>6. Settled'
  BY <1>2, SessionAssumption DEF IInv, Settled, Relaunch
<1>7. Alone'
  BY <1>1, <1>3 DEF IInv, Known, Alone, Relaunch
<1> QED
  BY <1>4, <1>5, <1>6, <1>7 DEF IInv

-------------------------------------------------------------------------------
(* Transitions *)

(* The completion leaves one screen; without one the screens are those     *)
(* that are pushed to stay.                                                *)
LEMMA DidShowStacks == IInv /\ DidShow => Stacked'
<1> SUFFICES ASSUME IInv, DidShow PROVE Stacked'
  OBVIOUS
<1>1. /\ stack' = (IF slot = 0 THEN stack ELSE <<stack[slot]>>) /\ slot' = 0
      /\ animating' \in 0..animating - 1 /\ asked' = asked /\ exposed' = exposed
  BY DEF DidShow
<1>2. animating' \in Nat
  BY <1>1
<1>3. Layered(stack', 0)
  <2>1. CASE slot = 0
    BY <1>1, <2>1 DEF IInv, Stacked
  <2>2. CASE slot # 0
    <3>1. slot \in 1..Len(stack) /\ stack[slot] \in Screens
      BY <2>2 DEF IInv, Stacked, Layered
    <3>2. /\ stack' \in Seq(Screens) /\ stack' # <<>> /\ Len(stack') = 1
          /\ stack'[1] = stack[slot]
      BY <1>1, <2>2, <3>1
    <3> QED
      BY <3>1, <3>2 DEF IInv, Stacked, Layered
  <2> QED
    BY <2>1, <2>2
<1>4. 0 \in 0..Len(stack')
  BY <1>3 DEF Layered
<1> QED
  BY <1>1, <1>2, <1>3, <1>4 DEF IInv, Stacked

LEMMA DidShowInv == IInv /\ DidShow => IInv'
<1> SUFFICES ASSUME IInv, DidShow PROVE IInv'
  OBVIOUS
<1>1. Stacked'
  BY DidShowStacks
<1>2. Known' /\ person' = person
  BY KnownSame DEF IInv, DidShow, account
<1>3. person # NoPerson
  BY DEF IInv, Stacked, Alone, DidShow
<1>4. orphans' \subseteq Askers
  <2>1. PICK freed \in SUBSET DOMAIN stack :
          orphans' = orphans \cup {stack[i].kind : i \in {j \in freed : stack[j].busy}}
    BY DEF DidShow
  <2>2. \A i \in DOMAIN stack : stack[i].busy => stack[i].kind \in Askers
    BY DEF IInv, Stacked, Layered
  <2> QED
    BY <2>1, <2>2 DEF IInv, Settled
<1>5. /\ sent' \in Signs /\ late' \in BOOLEAN /\ process' \in {"running", "asserted"}
      /\ process' = "asserted" => person = NoPerson
  <2>1. CASE Send
    BY <2>1, SendKeeps DEF IInv, Settled, DidShow, Send
  <2>2. CASE UNCHANGED <<sent, late, process>>
    BY <2>2 DEF IInv, Settled, DidShow
  <2> QED
    BY <2>1, <2>2 DEF DidShow
<1>6. Settled'
  BY <1>2, <1>4, <1>5 DEF IInv, Settled, DidShow
<1> QED
  BY <1>1, <1>2, <1>3, <1>6, NotAlone DEF IInv

(* The screens under the top, when nothing moves.                          *)
LEMMA BackInv == IInv /\ Back => IInv'
<1> SUFFICES ASSUME IInv, Back PROVE IInv'
  OBVIOUS
<1>1. person # NoPerson
  <2>1. Len(stack) > 1
    BY DEF Back
  <2>2. Len(stack) # 1
    BY <2>1 DEF IInv, Stacked, Layered
  <2> QED
    BY <2>2 DEF IInv, Alone
<1>2. Known' /\ person' = person
  BY KnownSame DEF IInv, Back, account
<1>3. Layered(stack', 0) /\ Len(stack') = Len(stack) - 1
  <2>1. /\ stack \in Seq(Screens) /\ Len(stack) \in Nat /\ Len(stack) > 1
        /\ slot = 0 /\ stack' = SubSeq(stack, 1, Len(stack) - 1)
    BY DEF IInv, Stacked, Layered, Back
  <2>2. /\ stack' \in Seq(Screens) /\ Len(stack') = Len(stack) - 1
        /\ \A i \in 1..Len(stack) - 1 : stack'[i] = stack[i]
    <3> DEFINE n == Len(stack) - 1
    <3>1. n \in 1..Len(stack) /\ 1 \in 1..n + 1
      BY <2>1
    <3>2. n \in Nat /\ n - 1 + 1 = n
      BY <2>1
    <3>3. \A i \in 1..n : stack[i] \in Screens
      BY <2>1
    <3> HIDE DEF n
    <3>4. /\ SubSeq(stack, 1, n) \in Seq(Screens) /\ Len(SubSeq(stack, 1, n)) = n
          /\ \A i \in 1..n : SubSeq(stack, 1, n)[i] = stack[i]
      BY <3>1, <3>2, <3>3, SubSeqProperties
    <3> QED
      BY <2>1, <3>4 DEF n
  <2>3. stack' # <<>>
    <3>1. Len(stack') # 0
      BY <2>1, <2>2
    <3>2. Len(<<>>) = 0
      OBVIOUS
    <3> QED
      BY <3>1, <3>2, Zenon
  <2> QED
    BY <2>1, <2>2, <2>3 DEF IInv, Stacked, Layered
<1>4. Stacked'
  <2>1. asked' \in Screens
    <3>1. Len(stack) - 1 \in 1..Len(stack) /\ asked' = stack[Len(stack) - 1]
      BY DEF IInv, Stacked, Layered, Back
    <3> QED
      BY <3>1 DEF IInv, Stacked, Layered
  <2>2. slot' = 0 /\ animating' = 1 /\ exposed' = FALSE
    BY DEF IInv, Stacked, Back
  <2>3. 0 \in 0..Len(stack') /\ 1 \in Nat
    BY <1>3 DEF Layered
  <2> QED
    BY <1>3, <2>1, <2>2, <2>3 DEF Stacked
<1>5. /\ sent' \in Signs /\ late' \in BOOLEAN /\ process' \in {"running", "asserted"}
      /\ process' = "asserted" => person = NoPerson
  <2>1. CASE Send
    BY <2>1, SendKeeps DEF IInv, Settled, Back, Send, Step
  <2>2. CASE UNCHANGED <<sent, late, process>>
    BY <2>2 DEF IInv, Settled, Back, Step
  <2> QED
    BY <2>1, <2>2 DEF Back
<1>6. Settled'
  BY <1>2, <1>5, SettledStep DEF IInv, Settled, Back
<1> QED
  BY <1>1, <1>2, <1>4, <1>6, NotAlone DEF IInv

-------------------------------------------------------------------------------
(* Screens asked for *)

LEMMA MenuTappedInv == IInv /\ MenuTapped => IInv'
<1> SUFFICES ASSUME IInv, MenuTapped PROVE IInv'
  OBVIOUS
<1>1. PICK s \in Screens : ~s.busy /\ ShowFromMenu(s)
  <2>1. /\ \A kind \in {"friends", "account", "notifications"} :
             Screen(kind) \in Screens /\ ~Screen(kind).busy
        /\ Own(person) \in Screens /\ ~Own(person).busy
        /\ \A b : /\ Prediction("nobody", SignOf(b)) \in Screens
                  /\ ~Prediction("nobody", SignOf(b)).busy
    BY ScreenType, SignType DEF Kinds, SignOf
  <2> QED
    BY <2>1 DEF MenuTapped
<1>2. Stacked'
  BY <1>1, ShowStacks DEF IInv, Stacked, ShowFromMenu
<1>3. Known' /\ Settled'
  BY <1>1, NavStep DEF ShowFromMenu
<1>4. person # NoPerson /\ person' = person
  BY <1>1, Someone, TopIsThere DEF ShowFromMenu, Top, account
<1> QED
  BY <1>2, <1>3, <1>4, NotAlone DEF IInv

LEMMA PushTimeTappedInv == IInv /\ PushTimeTapped => IInv'
<1> SUFFICES ASSUME IInv, PushTimeTapped PROVE IInv'
  OBVIOUS
<1>1. /\ Screen("pushTime") \in Screens /\ ~Screen("pushTime").busy
      /\ Pushed(Screen("pushTime"))
  BY ScreenType DEF Kinds, Pushed
<1>2. Stacked'
  BY <1>1, PushStacks DEF IInv, Stacked, PushTimeTapped
<1>3. Known' /\ Settled'
  BY NavStep DEF PushTimeTapped
<1>4. person # NoPerson /\ person' = person
  BY Someone, TopIsThere DEF PushTimeTapped, Top, account
<1> QED
  BY <1>2, <1>3, <1>4, NotAlone DEF IInv

LEMMA PushTappedInv == IInv /\ PushTapped => IInv'
<1> SUFFICES ASSUME IInv, PushTapped PROVE IInv'
  OBVIOUS
<1>1. Prediction("nobody", sent) \in Screens /\ ~Prediction("nobody", sent).busy
  BY ScreenType DEF IInv, Settled
<1>2. Stacked'
  BY <1>1, ShowStacks DEF IInv, Stacked, PushTapped
<1>3. Known' /\ person' = person
  BY KnownSame DEF IInv, PushTapped, account
<1>4. Settled'
  <2>1. /\ sent' \in Signs /\ late' \in BOOLEAN /\ process' \in {"running", "asserted"}
        /\ process' = "asserted" => person = NoPerson
    BY CoverKeeps DEF IInv, Settled, PushTapped, Step
  <2> QED
    BY <1>3, <2>1, SettledStep DEF IInv, Settled, PushTapped
<1>5. person # NoPerson
  BY DEF IInv, Alone, PushTapped
<1> QED
  BY <1>2, <1>3, <1>4, <1>5, NotAlone DEF IInv

-------------------------------------------------------------------------------
(* The person *)

(* Showing the prediction of a new person.                                 *)
LEMMA ShowNewKeeps ==
  ASSUME IInv, process = "running",
         NEW p \in Persons, SignOf(p.birth) # Unknown, HandlePerson(p),
         NEW screens, Layered(screens, slot), Len(screens) = Len(stack), ShowNew(screens)
  PROVE  /\ Stacked' /\ Known' /\ person' # NoPerson
         /\ token' \in {"asked", "again", "answered"}
         /\ sent' \in Signs /\ late' \in BOOLEAN /\ process' = "running"
<1>1. Known' /\ person' # NoPerson
  BY KnownNew
<1>2. Own(person') \in Screens /\ ~Own(person').busy
  BY ScreenType
<1>3. Stacked'
  BY <1>2, ShowStacks DEF IInv, ShowNew
<1>4. token' \in {"asked", "again", "answered"}
  BY DEF IInv, Settled, ShowNew
<1>5. Late \in BOOLEAN /\ Cover(person', Late)
  BY LateType DEF IInv, Settled, ShowNew
<1>6. sent' \in Signs /\ late' \in BOOLEAN /\ process' = "running"
  BY <1>1, <1>5, CoverKeeps DEF IInv, Settled
<1> QED
  BY <1>1, <1>3, <1>4, <1>6

LEMMA PickBirthdayInv ==
  ASSUME IInv, NEW b \in Births, PickBirthday(b)
  PROVE  IInv'
<1> DEFINE p == [birth |-> b, facebook |-> FALSE]
<1>1. p \in Persons /\ SignOf(p.birth) # Unknown
  BY SessionAssumption DEF Persons, Dates
<1>2. Layered(AllAged(stack), slot) /\ Len(AllAged(stack)) = Len(stack)
  BY AgedLayers DEF IInv, Stacked
<1>3. HandlePerson(p) /\ ShowNew(AllAged(stack)) /\ process = "running"
  BY DEF PickBirthday, Step
<1> HIDE DEF p
<1>4. /\ Stacked' /\ Known' /\ person' # NoPerson
      /\ token' \in {"asked", "again", "answered"}
      /\ sent' \in Signs /\ late' \in BOOLEAN /\ process' = "running"
  BY <1>1, <1>2, <1>3, ShowNewKeeps
<1>5. Settled'
  BY <1>4, SettledStep DEF IInv, Settled, PickBirthday
<1> QED
  BY <1>4, <1>5, NotAlone DEF IInv

(* A change of the current person while its account is shown.              *)
LEMMA AccountShown ==
  ASSUME IInv, Top.kind = "account"
  PROVE  person # NoPerson /\ person \in Persons
<1>1. person # NoPerson
  BY Someone, TopIsThere DEF Top
<1> QED
  BY <1>1 DEF IInv, Known

LEMMA ChangeBirthdayInv ==
  ASSUME IInv, NEW b \in Births, ChangeBirthday(b)
  PROVE  IInv'
<1>1. person # NoPerson /\ person \in Persons
  BY AccountShown DEF ChangeBirthday
<1> DEFINE p == [person EXCEPT !.birth = b]
<1>2. p \in Persons /\ SignOf(p.birth) # Unknown
  BY <1>1, PersonFields, SessionAssumption DEF Dates
<1>3. HandlePerson(p)
  BY DEF ChangeBirthday, HandlePerson
<1> HIDE DEF p
<1>4. Known' /\ person' # NoPerson
  BY <1>2, <1>3, KnownNew
<1>5. Stacked'
  BY DEF IInv, Stacked, ChangeBirthday, nav
<1>6. Settled'
  BY SettledStep DEF IInv, Settled, ChangeBirthday, pushes, Step
<1> QED
  BY <1>4, <1>5, <1>6, NotAlone DEF IInv

LEMMA LogOutInv == IInv /\ LogOut => IInv'
<1> SUFFICES ASSUME IInv, LogOut PROVE IInv'
  OBVIOUS
<1>1. person # NoPerson /\ person \in Persons /\ person.facebook
  BY AccountShown DEF LogOut
<1> DEFINE p == [person EXCEPT !.facebook = FALSE]
<1>2. /\ p \in Persons /\ p.birth = person.birth /\ p # NoPerson
  <2>1. p \in Persons /\ p.birth = person.birth
    BY <1>1 DEF Persons
  <2> QED
    BY <2>1, SessionAssumption
<1>3. person' = p /\ loggedOut' = TRUE /\ saved' = saved
  BY DEF LogOut
<1>4. saved' = [p EXCEPT !.facebook = TRUE]
  <2>1. person = [p EXCEPT !.facebook = TRUE]
    BY <1>1 DEF Persons
  <2>2. [person EXCEPT !.facebook = TRUE] = person
    BY <1>1 DEF Persons
  <2>3. saved = person
    BY <2>2 DEF IInv, Known
  <2> QED
    BY <1>3, <2>1, <2>3
<1> HIDE DEF p
<1>5. Known'
  BY <1>1, <1>2, <1>3, <1>4 DEF IInv, Known
<1>6. Stacked'
  BY DEF IInv, Stacked, LogOut, nav
<1>7. Settled'
  BY SettledStep DEF IInv, Settled, LogOut, pushes, Step
<1>8. person' # NoPerson
  BY <1>2, <1>3
<1> QED
  BY <1>5, <1>6, <1>7, <1>8, NotAlone DEF IInv

-------------------------------------------------------------------------------
(* Requests and answers *)

(* A request, and an answer with nothing.                                  *)
LEMMA AskInv == IInv /\ Ask => IInv'
<1> SUFFICES ASSUME IInv, Ask PROVE IInv'
  OBVIOUS
<1>1. Known' /\ Settled' /\ person' = person
  BY NavStep DEF Ask, account
<1>2. Layered(stack', slot) /\ Len(stack') = Len(stack) /\ stack'[1].kind = stack[1].kind
  <2> DEFINE n == Len(stack)
             e == [stack[n] EXCEPT !.busy = TRUE]
  <2>1. /\ stack \in Seq(Screens) /\ n \in 1..Len(stack) /\ stack[n] \in Screens
        /\ stack[n].kind \in Askers
    BY DEF IInv, Stacked, Layered, Ask, Top, Askers
  <2>2. /\ e \in Screens /\ e.kind = stack[n].kind /\ (Pushed(e) <=> Pushed(stack[n]))
    BY <2>1 DEF Screens, Pushed
  <2>3. stack' = [stack EXCEPT ![n] = e]
    BY DEF Ask
  <2> HIDE DEF e, n
  <2>4. /\ stack' \in Seq(Screens) /\ Len(stack') = Len(stack)
        /\ \A j \in 1..Len(stack) : stack'[j] = IF j = n THEN e ELSE stack[j]
    BY <2>1, <2>2, <2>3, ExceptSeq
  <2>5. stack' # <<>> /\ 1 \in 1..Len(stack)
    <3>1. Len(stack') # 0 /\ 1 \in 1..Len(stack)
      BY <2>1, <2>4
    <3>2. Len(<<>>) = 0
      OBVIOUS
    <3> QED
      BY <3>1, <3>2, Zenon
  <2>6. \A j \in 2..Len(stack') : j > slot => Pushed(stack'[j])
    BY <2>2, <2>4 DEF IInv, Stacked, Layered
  <2>7. \A j \in 1..Len(stack') : stack'[j].busy => stack'[j].kind \in Askers
    BY <2>1, <2>2, <2>4 DEF IInv, Stacked, Layered
  <2> QED
    BY <2>2, <2>4, <2>5, <2>6, <2>7 DEF Layered
<1>3. Stacked'
  BY <1>2 DEF IInv, Stacked, Ask
<1>4. Alone'
  BY <1>1, <1>2 DEF IInv, Alone, Ask, pushes
<1> QED
  BY <1>1, <1>3, <1>4 DEF IInv

LEMMA AnsweredEmptyInv ==
  ASSUME IInv, NEW i \in DOMAIN stack, AnsweredEmpty(i)
  PROVE  IInv'
<1>1. Known' /\ Settled' /\ person' = person
  BY NavStep DEF AnsweredEmpty, account
<1>2. Layered(stack', slot) /\ Len(stack') = Len(stack)
  BY RestedLayers DEF IInv, Stacked, AnsweredEmpty
<1>3. stack'[1].kind = stack[1].kind
  BY DEF IInv, Stacked, Layered, AnsweredEmpty, Rested, Screens
<1>4. Stacked'
  BY <1>2 DEF IInv, Stacked, AnsweredEmpty
<1>5. Alone'
  BY <1>1, <1>2, <1>3 DEF IInv, Alone, AnsweredEmpty, pushes
<1> QED
  BY <1>1, <1>4, <1>5 DEF IInv

LEMMA LoggedInInv ==
  ASSUME IInv, NEW i \in DOMAIN stack, LoggedIn(i)
  PROVE  IInv'
<1>1. PICK p \in Gathered : HandlePerson(p)
  BY DEF LoggedIn
<1>2. p \in Persons /\ SignOf(p.birth) # Unknown
  BY GatheredType
<1>3. Known' /\ person' # NoPerson
  BY <1>1, <1>2, KnownNew
<1>4. Layered(AllAged(Rested(i)), slot) /\ Len(AllAged(Rested(i))) = Len(stack)
  BY RestedLayers, AgedLayers DEF IInv, Stacked
<1>5. process = "running" /\ orphans' = orphans
  BY DEF LoggedIn, Step
<1>6. CASE stack[i].kind = "welcome"
  <2>1. ShowNew(AllAged(Rested(i)))
    BY <1>6 DEF LoggedIn
  <2>2. /\ Stacked' /\ token' \in {"asked", "again", "answered"}
        /\ sent' \in Signs /\ late' \in BOOLEAN /\ process' = "running"
    BY <1>1, <1>2, <1>4, <1>5, <2>1, ShowNewKeeps
  <2>3. Settled'
    BY <1>5, <2>2, SettledStep DEF IInv, Settled, LoggedIn
  <2> QED
    BY <1>3, <2>2, <2>3, NotAlone DEF IInv
<1>7. CASE stack[i].kind # "welcome"
  <2>1. /\ stack' = AllAged(Rested(i)) /\ asked' = Aged(asked)
        /\ UNCHANGED <<sent, token, slot, animating, exposed, process>>
    BY <1>7 DEF LoggedIn
  <2>2. Stacked'
    BY <1>4, <2>1, AgedType DEF IInv, Stacked
  <2>3. late' \in BOOLEAN
    BY <1>7, LateType DEF IInv, Settled, LoggedIn
  <2>4. Settled'
    BY <1>5, <2>1, <2>3, SettledStep DEF IInv, Settled, LoggedIn
  <2> QED
    BY <1>3, <2>2, <2>4, NotAlone DEF IInv
<1> QED
  BY <1>6, <1>7

(* A friend's prediction is pushed on a layered stack.                     *)
LEMMA ShowFriendKeeps ==
  ASSUME IInv, process = "running", person # NoPerson,
         NEW screens, Layered(screens, slot), Len(screens) = Len(stack), ShowFriend(screens)
  PROVE  /\ Stacked' /\ Known' /\ person' = person /\ token' = token
         /\ sent' \in Signs /\ late' \in BOOLEAN /\ process' = "running"
<1>1. PICK date : Push(screens, Prediction("friend", SignOf(date)))
  BY DEF ShowFriend
<1>2. /\ Prediction("friend", SignOf(date)) \in Screens
      /\ ~Prediction("friend", SignOf(date)).busy
      /\ Pushed(Prediction("friend", SignOf(date)))
  BY ScreenType, SignType DEF SignOf, Pushed
<1>3. Stacked'
  BY <1>1, <1>2, PushStacks DEF IInv
<1>4. Known' /\ person' = person /\ token' = token
  BY KnownSame DEF IInv, ShowFriend, account
<1>5. sent' \in Signs /\ late' \in BOOLEAN /\ process' = "running"
  BY CoverKeeps DEF IInv, Settled, ShowFriend
<1> QED
  BY <1>3, <1>4, <1>5

LEMMA FriendAnsweredInv ==
  ASSUME IInv, NEW i \in DOMAIN stack, FriendAnswered(i)
  PROVE  IInv'
<1>1. person # NoPerson /\ process = "running"
  BY Someone DEF FriendAnswered, Step
<1>2. Layered(Rested(i), slot) /\ Len(Rested(i)) = Len(stack)
  BY RestedLayers DEF IInv, Stacked
<1>3. /\ Stacked' /\ Known' /\ person' = person /\ token' = token
      /\ sent' \in Signs /\ late' \in BOOLEAN /\ process' = "running"
  BY <1>1, <1>2, ShowFriendKeeps DEF FriendAnswered
<1>4. Settled'
  BY <1>3, SettledStep DEF IInv, Settled, FriendAnswered
<1> QED
  BY <1>1, <1>3, <1>4, NotAlone DEF IInv

(* An answer for a freed model: there is a person, for the screen was left *)
(* by showing another.                                                     *)
LEMMA OrphanAnsweredInv ==
  ASSUME IInv, NEW kind \in Askers, OrphanAnswered(kind)
  PROVE  IInv'
<1>1. person # NoPerson /\ process = "running" /\ orphans' \subseteq Askers
  BY DEF IInv, Alone, Settled, OrphanAnswered, Step
<1>2. Layered(AllAged(stack), slot) /\ Len(AllAged(stack)) = Len(stack)
  BY AgedLayers DEF IInv, Stacked
<1>3. CASE process' = "freed" /\ UNCHANGED <<account, pushes, nav>>
  <2>1. Known' /\ person' = person
    BY <1>3, KnownSame DEF IInv, account
  <2>2. Stacked'
    BY <1>3 DEF IInv, Stacked, nav
  <2>3. Settled'
    BY <1>1, <1>3, <2>1, SettledStep DEF IInv, Settled, pushes, OrphanAnswered
  <2> QED
    BY <1>1, <2>1, <2>2, <2>3, NotAlone DEF IInv
<1>4. CASE /\ \E p \in Gathered : HandlePerson(p)
           /\ stack' = AllAged(stack) /\ asked' = Aged(asked) /\ late' = Late
           /\ UNCHANGED <<sent, token, slot, animating, exposed, process>>
  <2>1. Known' /\ person' # NoPerson
    BY <1>4, GatheredType, KnownNew
  <2>2. Stacked'
    BY <1>2, <1>4, AgedType DEF IInv, Stacked
  <2>3. late' \in BOOLEAN
    BY <1>4, LateType DEF IInv, Settled
  <2>4. Settled'
    BY <1>1, <1>4, <2>3, SettledStep DEF IInv, Settled, OrphanAnswered
  <2> QED
    BY <2>1, <2>2, <2>4, NotAlone DEF IInv
<1>5. CASE (\E p \in Gathered : HandlePerson(p)) /\ ShowNew(AllAged(stack))
  <2>1. PICK p \in Gathered : HandlePerson(p)
    BY <1>5
  <2>2. p \in Persons /\ SignOf(p.birth) # Unknown
    BY GatheredType
  <2>3. /\ Stacked' /\ Known' /\ person' # NoPerson
        /\ token' \in {"asked", "again", "answered"}
        /\ sent' \in Signs /\ late' \in BOOLEAN /\ process' = "running"
    BY <1>1, <1>2, <1>5, <2>1, <2>2, ShowNewKeeps
  <2>4. Settled'
    BY <1>1, <2>3, SettledStep DEF IInv, Settled, OrphanAnswered
  <2> QED
    BY <2>3, <2>4, NotAlone DEF IInv
<1>6. CASE ShowFriend(stack)
  <2>1. /\ Stacked' /\ Known' /\ person' = person /\ token' = token
        /\ sent' \in Signs /\ late' \in BOOLEAN /\ process' = "running"
    BY <1>1, <1>6, ShowFriendKeeps DEF IInv, Stacked
  <2>2. Settled'
    BY <1>1, <2>1, SettledStep DEF IInv, Settled, OrphanAnswered
  <2> QED
    BY <1>1, <2>1, <2>2, NotAlone DEF IInv
<1> QED
  BY <1>3, <1>4, <1>5, <1>6 DEF OrphanAnswered

LEMMA TokenArrivesInv == IInv /\ TokenArrives => IInv'
<1> SUFFICES ASSUME IInv, TokenArrives PROVE IInv'
  OBVIOUS
<1>1. person' = person /\ Known'
  BY KnownSame DEF IInv, TokenArrives, account
<1>2. Stacked'
  BY DEF IInv, Stacked, TokenArrives, nav
<1>3. /\ sent' \in Signs /\ late' \in BOOLEAN /\ process' \in {"running", "asserted"}
      /\ process' = "asserted" => person = NoPerson
      /\ person = NoPerson => sent' = sent
  BY SendKeeps DEF IInv, Settled, TokenArrives, Send
<1>4. Settled'
  BY <1>1, <1>3 DEF IInv, Settled, TokenArrives
<1>5. Alone'
  BY <1>1, <1>3 DEF IInv, Alone, TokenArrives, nav
<1> QED
  BY <1>1, <1>2, <1>4, <1>5 DEF IInv

LEMMA EnterBackgroundInv == IInv /\ EnterBackground => IInv'
<1> SUFFICES ASSUME IInv, EnterBackground PROVE IInv'
  OBVIOUS
<1>1. person' = person /\ Known'
  BY KnownSame DEF IInv, EnterBackground, account
<1>2. Stacked'
  BY DEF IInv, Stacked, EnterBackground, nav
<1>3. /\ sent' \in Signs /\ late' \in BOOLEAN /\ process' \in {"running", "asserted"}
      /\ process' = "asserted" => person = NoPerson
      /\ person = NoPerson => sent' = sent
  BY SendKeeps DEF IInv, Settled, EnterBackground, Send, Step
<1>4. Settled'
  BY <1>1, <1>3, SettledStep DEF IInv, Settled, EnterBackground
<1>5. Alone'
  BY <1>1, <1>3 DEF IInv, Alone, EnterBackground, nav
<1> QED
  BY <1>1, <1>2, <1>4, <1>5 DEF IInv

-------------------------------------------------------------------------------
(* The inductive invariant, and what it gives *)

LEMMA StepInv == IInv /\ [Next]_vars => IInv'
<1> SUFFICES ASSUME IInv, [Next]_vars PROVE IInv'
  OBVIOUS
<1>1. CASE UNCHANGED vars
  BY <1>1 DEF IInv, Stacked, Known, Settled, Alone, vars, account, pushes, nav
<1>2. ASSUME NEW b \in Births, PickBirthday(b) \/ ChangeBirthday(b)
      PROVE  IInv'
  BY <1>2, PickBirthdayInv, ChangeBirthdayInv
<1>3. ASSUME NEW i \in DOMAIN stack, AnsweredEmpty(i) \/ LoggedIn(i) \/ FriendAnswered(i)
      PROVE  IInv'
  BY <1>3, AnsweredEmptyInv, LoggedInInv, FriendAnsweredInv
<1>4. ASSUME NEW kind \in Askers, OrphanAnswered(kind)
      PROVE  IInv'
  BY <1>4, OrphanAnsweredInv
<1>5. CASE Relaunch \/ DidShow \/ Back \/ MenuTapped \/ PushTimeTapped \/ PushTapped
  BY <1>5, RelaunchInv, DidShowInv, BackInv, MenuTappedInv, PushTimeTappedInv, PushTappedInv
<1>6. CASE LogOut \/ Ask \/ TokenArrives \/ EnterBackground
  BY <1>6, LogOutInv, AskInv, TokenArrivesInv, EnterBackgroundInv
<1> QED
  BY <1>1, <1>2, <1>3, <1>4, <1>5, <1>6 DEF Next, Askers

LEMMA Invariance == Spec => []IInv
BY InitInv, StepInv, PTL DEF Spec

(* The variables keep their types.                                         *)
THEOREM TypeCorrect == Spec => []TypeOK
<1>1. IInv => TypeOK
  BY DEF IInv, Stacked, Layered, Known, Settled, TypeOK, Signs, Askers
<1> QED
  BY <1>1, Invariance, PTL

(* Whatever overlaps, when transitions have ended the stack has one root,  *)
(* above it only screens pushed to stay, and no completion waits           *)
(* (BaseNavigationController, ScreensManagerOBJC).                         *)
THEOREM RootedAtRest == Spec => []OneRoot
<1>1. IInv => OneRoot
  BY DEF IInv, Stacked, Layered, OneRoot, AtRest
<1> QED
  BY <1>1, Invariance, PTL

(* Nobody uses the app without a sign: before there is a person the only   *)
(* screen is Welcome, a person's sign is known, and the assertion on the   *)
(* person in sendSettings can fail on Welcome only.                        *)
THEOREM NobodyWithoutASign == Spec => []PersonWithSign
<1>1. IInv => PersonWithSign
  <2> SUFFICES ASSUME IInv PROVE PersonWithSign
    OBVIOUS
  <2>1. ASSUME person = NoPerson
        PROVE  \A i \in DOMAIN stack : stack[i].kind = "welcome"
    BY <2>1, Someone
  <2>2. person # NoPerson => SignOf(person.birth) # Unknown
    BY DEF IInv, Known
  <2>3. process = "asserted" => Top.kind = "welcome"
    BY <2>1, TopIsThere DEF IInv, Settled, Top
  <2> QED
    BY <2>1, <2>2, <2>3 DEF PersonWithSign
<1> QED
  BY <1>1, Invariance, PTL

(* A relaunch loads the current person, but for a logout that was not      *)
(* saved: then Facebook's data come back (Settings, AccountScreenModel).   *)
THEOREM RelaunchLoadsThePerson == Spec => []SavedIsCurrent
<1>1. IInv => SavedIsCurrent
  BY DEF IInv, Known, SavedIsCurrent
<1> QED
  BY <1>1, Invariance, PTL

-------------------------------------------------------------------------------
(* What the screens show: a second invariant, inductive together with the  *)
(* first one                                                               *)

(* Only a prediction is somebody's.                                        *)
Whose(s) == s.who # "nobody" => s.kind = "prediction"
AllWhose == Whose(asked) /\ \A i \in 1..Len(stack) : Whose(stack[i])

(* The screens that will stay show the current person's current sign.      *)
MySign  == SignOf(person.birth)
Current ==
  \A i \in 1..Len(stack) : i >= slot /\ stack[i].who = "me" => stack[i].sign = MySign

(* Same, for a person with this sign.                                      *)
Twins(sign, s, t) ==
  /\ s.kind = t.kind
  /\ s.kind = "prediction" =>
       IF "nobody" \in {s.who, t.who}
       THEN t.sign = IF s.who = "me" THEN sign ELSE s.sign
       ELSE s.who = t.who /\ s.who # "friend"

(* The completion that waits, if any, is the top's, which is what was      *)
(* asked for.                                                              *)
OnTop ==
  ~exposed => slot \in {0, Len(stack)} /\ (Top = asked \/ Twins(MySign, Top, asked))

Shown == AllWhose /\ Current /\ OnTop

(* The settings are those of the person, or the account screen is there,   *)
(* which sends them when it is left.                                       *)
NoAccount == \A i \in 1..Len(stack) : stack[i].kind # "account"

Followed ==
  process = "running" /\ token # "asked" /\ ~late /\ NoAccount => sent = MySign

-------------------------------------------------------------------------------
(* The screens, one by one *)

LEMMA SameTwins == \A s, t : Same(s, t) <=> Twins(MySign, s, t)
BY DEF Same, Twins, MySign

LEMMA StackFacts ==
  ASSUME Stacked
  PROVE  /\ stack \in Seq(Screens) /\ Len(stack) \in Nat /\ Len(stack) \in 1..Len(stack)
         /\ slot \in 0..Len(stack) /\ asked \in Screens /\ exposed \in BOOLEAN
         /\ Top = stack[Len(stack)] /\ DOMAIN stack = 1..Len(stack)
         /\ \A i \in 1..Len(stack) : stack[i] \in Screens
BY DEF Stacked, Layered, Top

LEMMA AgedFacts ==
  ASSUME NEW s \in Screens
  PROVE  /\ Aged(s) \in Screens /\ Aged(s).kind = s.kind /\ Aged(s).sign = s.sign
         /\ Aged(s).who = (IF s.who = "me" THEN "old" ELSE s.who)
         /\ Whose(s) => Whose(Aged(s))
BY DEF Aged, Screens, Whose

LEMMA AgedRows ==
  ASSUME NEW screens \in Seq(Screens)
  PROVE  /\ AllAged(screens) \in Seq(Screens) /\ Len(AllAged(screens)) = Len(screens)
         /\ \A i \in 1..Len(screens) : AllAged(screens)[i] = Aged(screens[i])
<1>1. \A i \in 1..Len(screens) : screens[i] \in Screens /\ Aged(screens[i]) \in Screens
  BY AgedFacts
<1> QED
  BY <1>1 DEF AllAged

LEMMA RestedRows ==
  ASSUME Stacked, NEW i \in DOMAIN stack
  PROVE  /\ Rested(i) \in Seq(Screens) /\ Len(Rested(i)) = Len(stack)
         /\ \A j \in 1..Len(stack) :
              /\ Rested(i)[j] \in Screens
              /\ Rested(i)[j].kind = stack[j].kind /\ Rested(i)[j].who = stack[j].who
              /\ Rested(i)[j].sign = stack[j].sign
              /\ j # i => Rested(i)[j] = stack[j]
<1>1. stack \in Seq(Screens) /\ i \in 1..Len(stack) /\ stack[i] \in Screens
  BY StackFacts
<1> DEFINE e == [stack[i] EXCEPT !.busy = FALSE]
<1>2. /\ e \in Screens /\ e.kind = stack[i].kind /\ e.who = stack[i].who
      /\ e.sign = stack[i].sign
  BY <1>1 DEF Screens
<1>3. Rested(i) = [stack EXCEPT ![i] = e]
  BY DEF Rested
<1> HIDE DEF e
<1>4. /\ Rested(i) \in Seq(Screens) /\ Len(Rested(i)) = Len(stack)
      /\ \A j \in 1..Len(stack) : Rested(i)[j] = IF j = i THEN e ELSE stack[j]
  BY <1>1, <1>2, <1>3, ExceptSeq
<1> QED
  BY <1>1, <1>2, <1>4

(* Screens that get old are alike if they were, whatever the new person's  *)
(* sign; and an old screen and a new one are compared by their signs.      *)
LEMMA AgedTwins ==
  ASSUME NEW s \in Screens, NEW t \in Screens, NEW sign, NEW new,
         s.who = "me" => s.sign = sign, Twins(sign, s, t)
  PROVE  Twins(new, Aged(s), Aged(t))
BY AgedFacts DEF Twins

LEMMA OldTwins ==
  ASSUME NEW s, NEW t, NEW sign, NEW new, s.who # "me", Twins(sign, s, t)
  PROVE  Twins(new, s, t)
BY DEF Twins

-------------------------------------------------------------------------------
(* Steps that change screens in place, and steps that show one *)

(* A request begins or ends; nothing is shown.                             *)
LEMMA SameScreens ==
  ASSUME Stacked, Shown,
         stack' \in Seq(Screens), Len(stack') = Len(stack),
         \A j \in 1..Len(stack) :
           /\ stack'[j].kind = stack[j].kind /\ stack'[j].who = stack[j].who
           /\ stack'[j].sign = stack[j].sign
         , Top' = Top \/ Top.kind # "prediction",
         MySign' = MySign \/ Top.kind = "account",
         UNCHANGED <<slot, asked, exposed>>
  PROVE  Shown'
<1>1. /\ Len(stack) \in 1..Len(stack) /\ Top = stack[Len(stack)] /\ Top \in Screens
      /\ Top' = stack'[Len(stack)] /\ slot \in 0..Len(stack) /\ Len(stack) \in Nat
  BY StackFacts DEF Top
<1>2. AllWhose'
  BY DEF Shown, AllWhose, Whose
<1>3. Current'
  <2>1. CASE MySign' = MySign
    BY <2>1 DEF Shown, Current
  <2>2. CASE Top.kind = "account"
    <3> SUFFICES ASSUME NEW i \in 1..Len(stack), i >= slot, stack[i].who = "me"
                 PROVE  FALSE
      BY DEF Current
    <3>1. stack[i].kind = "prediction"
      BY DEF Shown, AllWhose, Whose
    <3>2. ~Pushed(Top)
      BY <1>1, <2>2 DEF Shown, AllWhose, Whose, Pushed
    <3>3. Len(stack) <= slot \/ Len(stack) = 1
      BY <1>1, <3>2 DEF Stacked, Layered
    <3>4. i = Len(stack)
      BY <1>1, <3>3
    <3> QED
      BY <1>1, <2>2, <3>1, <3>4
  <2> QED
    BY <2>1, <2>2
<1>4. OnTop'
  <2> SUFFICES ASSUME ~exposed
               PROVE  slot' \in {0, Len(stack')} /\ (Top' = asked' \/ Twins(MySign', Top', asked'))
    BY DEF OnTop
  <2>1. slot \in {0, Len(stack)} /\ (Top = asked \/ Twins(MySign, Top, asked))
    BY DEF Shown, OnTop
  <2>2. Top'.kind = Top.kind
    BY <1>1
  <2>3. CASE Top.kind # "prediction"
    BY <2>1, <2>2, <2>3 DEF Twins
  <2>4. CASE Top.kind = "prediction"
    BY <2>1, <2>4
  <2> QED
    BY <2>1, <2>3, <2>4
<1> QED
  BY <1>2, <1>3, <1>4 DEF Shown

(* A new person object makes the screens old.                              *)
LEMMA AgedScreens ==
  ASSUME Stacked, Shown, NEW screens \in Seq(Screens), Len(screens) = Len(stack),
         \A j \in 1..Len(stack) :
           /\ screens[j].kind = stack[j].kind /\ screens[j].who = stack[j].who
           /\ screens[j].sign = stack[j].sign,
         screens[Len(stack)] = Top \/ Top.kind # "prediction",
         stack' = AllAged(screens), asked' = Aged(asked), UNCHANGED <<slot, exposed>>
  PROVE  Shown'
<1>1. /\ Len(stack) \in 1..Len(stack) /\ Top = stack[Len(stack)] /\ Top \in Screens
      /\ slot \in 0..Len(stack) /\ asked \in Screens /\ Len(stack) \in Nat
  BY StackFacts
<1>2. /\ Len(stack') = Len(stack)
      /\ \A j \in 1..Len(stack) : stack'[j] = Aged(screens[j]) /\ screens[j] \in Screens
  BY AgedRows
<1>3. Top' = Aged(screens[Len(stack)])
  BY <1>1, <1>2 DEF Top
<1>4. AllWhose'
  <2>1. \A j \in 1..Len(stack) : Whose(screens[j])
    BY DEF Shown, AllWhose, Whose
  <2>2. Whose(asked)
    BY DEF Shown, AllWhose
  <2> QED
    BY <1>1, <1>2, <2>1, <2>2, AgedFacts DEF AllWhose
<1>5. Current'
  BY <1>2, AgedFacts DEF Current
<1>6. OnTop'
  <2> SUFFICES ASSUME ~exposed
               PROVE  slot' \in {0, Len(stack')} /\ (Top' = asked' \/ Twins(MySign', Top', asked'))
    BY DEF OnTop
  <2>1. slot \in {0, Len(stack)} /\ (Top = asked \/ Twins(MySign, Top, asked))
    BY DEF Shown, OnTop
  <2>2. CASE Top.kind # "prediction"
    <3>1. Top'.kind = Top.kind /\ asked'.kind = asked.kind
      BY <1>1, <1>2, <1>3, AgedFacts
    <3> QED
      BY <1>2, <2>1, <2>2, <3>1 DEF Twins
  <2>3. CASE Top.kind = "prediction"
    <3>1. Top' = Aged(Top)
      BY <1>3, <2>3
    <3>2. Top.who = "me" => Top.sign = MySign
      BY <1>1 DEF Shown, Current
    <3>3. Top = asked => Top' = asked'
      BY <3>1
    <3>4. Twins(MySign, Top, asked) => Twins(MySign', Top', asked')
      BY <1>1, <3>1, <3>2, AgedTwins
    <3> QED
      BY <1>2, <2>1, <3>3, <3>4
  <2> QED
    BY <2>2, <2>3
<1> QED
  BY <1>4, <1>5, <1>6 DEF Shown

(* What Show and Push need: screens that stay and a screen that are right  *)
(* for the person after the step.                                          *)
Showable(screens, s, sign) ==
  /\ screens \in Seq(Screens) /\ Len(screens) = Len(stack)
  /\ \A j \in 1..Len(screens) : Whose(screens[j])
  /\ \A j \in 1..Len(screens) :
       j >= slot /\ screens[j].who = "me" => screens[j].sign = sign
  /\ s \in Screens /\ Whose(s) /\ (s.who = "me" => s.sign = sign)
  /\ Same(screens[Len(screens)], s) => Twins(sign, screens[Len(screens)], s)

LEMMA AppendRows ==
  ASSUME NEW screens \in Seq(Screens), NEW s
  PROVE  /\ Len(Append(screens, s)) = Len(screens) + 1 /\ Len(screens) \in Nat
         /\ \A j \in 1..Len(screens) : Append(screens, s)[j] = screens[j]
         /\ Append(screens, s)[Len(screens) + 1] = s
         /\ \A j \in 1..Len(screens) + 1 : j \in 1..Len(screens) \/ j = Len(screens) + 1
OBVIOUS

LEMMA ShowShows ==
  ASSUME Stacked, Shown, NEW screens, NEW s, Showable(screens, s, MySign'),
         Show(screens, s) \/ Push(screens, s)
  PROVE  Shown'
<1>1. slot \in 0..Len(stack) /\ Len(stack) \in 1..Len(stack) /\ Len(stack) \in Nat
  BY StackFacts
<1>2. asked' = s
  BY DEF Show, Push
<1>3. CASE Same(screens[Len(screens)], s)
  <2>1. stack' = screens /\ UNCHANGED <<slot, exposed>>
    BY <1>3 DEF Show, Push
  <2>2. AllWhose' /\ Current'
    BY <1>2, <2>1 DEF AllWhose, Current, Showable
  <2>3. Twins(MySign', Top', asked')
    BY <1>2, <1>3, <2>1 DEF Showable, Top
  <2>4. OnTop'
    BY <2>1, <2>3 DEF Shown, OnTop, Showable
  <2> QED
    BY <2>2, <2>4 DEF Shown
<1>4. CASE ~Same(screens[Len(screens)], s)
  <2>1. /\ stack' = Append(screens, s)
        /\ \/ slot' = Len(stack') /\ exposed' = FALSE
           \/ slot' = slot /\ exposed' = (slot # 0)
    BY <1>4 DEF Show, Push
  <2>2. /\ Len(stack') = Len(stack) + 1
        /\ \A j \in 1..Len(stack) : stack'[j] = screens[j]
        /\ stack'[Len(stack) + 1] = s
        /\ \A j \in 1..Len(stack) + 1 : j \in 1..Len(stack) \/ j = Len(stack) + 1
    BY <2>1, AppendRows DEF Showable
  <2>3. AllWhose'
    BY <1>2, <2>2 DEF AllWhose, Showable
  <2>4. Current'
    <3> SUFFICES ASSUME NEW i \in 1..Len(stack'), i >= slot', stack'[i].who = "me"
                 PROVE  stack'[i].sign = MySign'
      BY DEF Current
    <3>1. CASE i = Len(stack) + 1
      BY <2>2, <3>1 DEF Showable
    <3>2. CASE i \in 1..Len(stack)
      <4>1. slot' = slot
        BY <1>1, <2>1, <2>2, <3>2
      <4> QED
        BY <2>2, <3>2, <4>1 DEF Showable
    <3> QED
      BY <2>2, <3>1, <3>2
  <2>5. Top' = asked'
    BY <1>1, <1>2, <2>2 DEF Top
  <2>6. ~exposed' => slot' \in {0, Len(stack')}
    BY <2>1
  <2> QED
    BY <2>3, <2>4, <2>5, <2>6 DEF Shown, OnTop
<1> QED
  BY <1>3, <1>4

(* The screens there are, for a person who does not change.                *)
LEMMA StackShowable ==
  ASSUME Stacked, Shown, MySign' = MySign,
         NEW s \in Screens, Whose(s), s.who = "me" => s.sign = MySign
  PROVE  Showable(stack, s, MySign')
<1>1. stack \in Seq(Screens) /\ Len(stack) \in Nat
  BY StackFacts
<1>2. Same(stack[Len(stack)], s) => Twins(MySign', stack[Len(stack)], s)
  BY SameTwins
<1> QED
  BY <1>1, <1>2 DEF Shown, AllWhose, Current, Showable

-------------------------------------------------------------------------------
(* The second invariant is inductive: what is shown *)

LEMMA PredictionFields ==
  /\ \A kind \in Kinds : /\ Screen(kind) \in Screens /\ Screen(kind).kind = kind
                         /\ Screen(kind).who = "nobody"
  /\ \A who \in {"me", "old", "friend", "nobody"}, sign \in Signs :
       /\ Prediction(who, sign) \in Screens /\ Prediction(who, sign).kind = "prediction"
       /\ Prediction(who, sign).who = who /\ Prediction(who, sign).sign = sign
  /\ \A p : /\ Own(p) \in Screens /\ Own(p).kind = "prediction"
            /\ Own(p).who = "me" /\ Own(p).sign = SignOf(p.birth)
<1>1. \A kind \in Kinds : /\ Screen(kind) \in Screens /\ Screen(kind).kind = kind
                          /\ Screen(kind).who = "nobody"
  BY DEF Screen, Screens
<1>2. \A who \in {"me", "old", "friend", "nobody"}, sign \in Signs :
        /\ Prediction(who, sign) \in Screens /\ Prediction(who, sign).kind = "prediction"
        /\ Prediction(who, sign).who = who /\ Prediction(who, sign).sign = sign
  BY DEF Prediction, Screen, Screens, Kinds, Signs
<1>3. \A p : SignOf(p.birth) \in Signs
  BY SignType DEF SignOf
<1> QED
  BY <1>1, <1>2, <1>3 DEF Own

(* The first screen of a process.                                          *)
LEMMA FirstScreen ==
  ASSUME NEW p
  PROVE  /\ Launched(p) \in Screens /\ Whose(Launched(p))
         /\ Launched(p).who = "me" => Launched(p).sign = SignOf(p.birth)
<1>1. \A kind \in Kinds : /\ Screen(kind) \in Screens /\ Screen(kind).kind = kind
                          /\ Screen(kind).who = "nobody"
  BY PredictionFields
<1>2. /\ Own(p) \in Screens /\ Own(p).kind = "prediction"
      /\ Own(p).who = "me" /\ Own(p).sign = SignOf(p.birth)
  BY PredictionFields
<1>3. Launched(p) = IF p = NoPerson THEN Screen("welcome") ELSE Own(p)
  BY DEF Launched
<1> QED
  BY <1>1, <1>2, <1>3 DEF Whose, Kinds

LEMMA InitShown == ASSUME Init PROVE Shown
<1> DEFINE s == Launched(NoPerson)
<1>1. Whose(s) /\ (s.who = "me" => s.sign = SignOf(NoPerson.birth))
  BY FirstScreen
<1>2. stack = <<s>> /\ asked = s /\ person = NoPerson /\ slot = 0
  BY DEF Init
<1> HIDE DEF s
<1>3. Len(stack) = 1 /\ stack[1] = s /\ Top = s
  BY <1>2 DEF Top
<1> QED
  BY <1>1, <1>2, <1>3 DEF Shown, AllWhose, Current, OnTop, MySign

LEMMA RelaunchShown == ASSUME Relaunch PROVE Shown'
<1> DEFINE s == Launched(saved)
<1>1. Whose(s) /\ (s.who = "me" => s.sign = SignOf(saved.birth))
  BY FirstScreen
<1>2. stack' = <<s>> /\ asked' = s /\ person' = saved /\ slot' = 0
  BY DEF Relaunch
<1> HIDE DEF s
<1>3. Len(stack') = 1 /\ stack'[1] = s /\ Top' = s
  BY <1>2 DEF Top
<1> QED
  BY <1>1, <1>2, <1>3 DEF Shown, AllWhose, Current, OnTop, MySign

LEMMA DidShowShown == ASSUME Stacked, Shown, DidShow PROVE Shown'
<1>1. /\ stack' = (IF slot = 0 THEN stack ELSE <<stack[slot]>>) /\ slot' = 0
      /\ asked' = asked /\ exposed' = exposed /\ MySign' = MySign
  BY DEF DidShow, account, MySign
<1>2. /\ Len(stack) \in 1..Len(stack) /\ slot \in 0..Len(stack) /\ Top = stack[Len(stack)]
      /\ Len(stack) \in Nat
  BY StackFacts
<1>3. CASE slot = 0
  <2>1. UNCHANGED <<stack, slot>> /\ Top' = Top
    BY <1>1, <1>3 DEF Top
  <2> QED
    BY <1>1, <2>1 DEF Shown, AllWhose, Current, OnTop
<1>4. CASE slot # 0
  <2>1. slot \in 1..Len(stack)
    BY <1>2, <1>4
  <2>2. Len(stack') = 1 /\ stack'[1] = stack[slot] /\ Top' = stack[slot]
    BY <1>1, <1>4 DEF Top
  <2>3. AllWhose'
    BY <1>1, <2>1, <2>2 DEF Shown, AllWhose
  <2>4. Current'
    BY <1>1, <2>1, <2>2 DEF Shown, Current
  <2>5. OnTop'
    <3> SUFFICES ASSUME ~exposed PROVE Top' = asked \/ Twins(MySign, Top', asked)
      BY <1>1 DEF OnTop
    <3>1. slot = Len(stack) /\ (Top = asked \/ Twins(MySign, Top, asked))
      BY <1>4 DEF Shown, OnTop
    <3> QED
      BY <1>2, <2>2, <3>1
  <2> QED
    BY <2>3, <2>4, <2>5 DEF Shown
<1> QED
  BY <1>3, <1>4

(* Going back leaves the screens under the top.                            *)
LEMMA BackRows ==
  ASSUME Stacked, Back
  PROVE  /\ slot = 0 /\ slot' = 0 /\ Len(stack) > 1 /\ Len(stack') = Len(stack) - 1
         /\ \A i \in 1..Len(stack') : stack'[i] = stack[i] /\ i \in 1..Len(stack)
         /\ Len(stack') \in 1..Len(stack')
<1>1. /\ stack \in Seq(Screens) /\ Len(stack) \in Nat /\ Len(stack) > 1
      /\ slot = 0 /\ slot' = 0 /\ stack' = SubSeq(stack, 1, Len(stack) - 1)
  BY DEF Stacked, Layered, Back
<1> DEFINE n == Len(stack) - 1
<1>2. n \in Nat /\ n \in 1..Len(stack) /\ 1 \in 1..n + 1 /\ n - 1 + 1 = n
  BY <1>1
<1>3. \A i \in 1..n : stack[i] \in Screens /\ i \in 1..Len(stack)
  BY <1>1
<1> HIDE DEF n
<1>4. /\ Len(SubSeq(stack, 1, n)) = n
      /\ \A i \in 1..n : SubSeq(stack, 1, n)[i] = stack[i]
  BY <1>2, <1>3, SubSeqProperties
<1>5. stack' = SubSeq(stack, 1, n)
  BY <1>1 DEF n
<1>6. Len(stack') = n /\ (\A i \in 1..n : stack'[i] = stack[i]) /\ n \in 1..n
  BY <1>2, <1>4, <1>5
<1> QED
  BY <1>1, <1>3, <1>6 DEF n

LEMMA BackShown == ASSUME Stacked, Shown, Back PROVE Shown'
<1>1. /\ slot = 0 /\ slot' = 0 /\ Len(stack') = Len(stack) - 1
      /\ \A i \in 1..Len(stack') : stack'[i] = stack[i] /\ i \in 1..Len(stack)
      /\ Len(stack') \in 1..Len(stack')
  BY BackRows
<1>2. asked' = stack[Len(stack')] /\ MySign' = MySign
  BY <1>1 DEF Back, MySign, account
<1>3. AllWhose'
  BY <1>1, <1>2 DEF Shown, AllWhose
<1>4. Current'
  BY <1>1, <1>2 DEF Shown, Current
<1>5. Top' = asked'
  BY <1>1, <1>2 DEF Top
<1> QED
  BY <1>1, <1>3, <1>4, <1>5 DEF Shown, OnTop

(* Screens shown to a person who does not change.                          *)
LEMMA AskedForShown ==
  ASSUME IInv, Shown, MenuTapped \/ PushTimeTapped \/ PushTapped PROVE Shown'
<1>1. Stacked /\ MySign' = MySign
  BY DEF IInv, MenuTapped, ShowFromMenu, PushTimeTapped, PushTapped, account, MySign
<1>2. PICK s \in Screens : /\ Whose(s) /\ (s.who = "me" => s.sign = MySign)
                           /\ Show(stack, s) \/ Push(stack, s)
  <2> DEFINE Good(s) == s \in Screens /\ Whose(s) /\ (s.who = "me" => s.sign = MySign)
  <2>1. \A kind \in Kinds : Good(Screen(kind))
    BY PredictionFields DEF Whose
  <2>2. Good(Own(person))
    BY PredictionFields DEF Whose, MySign
  <2>3. \A sign \in Signs : Good(Prediction("nobody", sign))
    BY PredictionFields DEF Whose
  <2>4. CASE MenuTapped
    <3>1. \A b : SignOf(b) \in Signs
      BY SignType DEF SignOf
    <3> QED
      BY <2>1, <2>2, <2>3, <2>4, <3>1 DEF MenuTapped, ShowFromMenu, Kinds
  <2>5. CASE PushTimeTapped
    BY <2>1, <2>5 DEF PushTimeTapped, Kinds
  <2>6. CASE PushTapped
    BY <2>3, <2>6 DEF PushTapped, IInv, Settled
  <2> QED
    BY <2>4, <2>5, <2>6
<1>3. Showable(stack, s, MySign')
  BY <1>1, <1>2, StackShowable
<1> QED
  BY <1>1, <1>2, <1>3, ShowShows

(* The prediction of a new person, over old screens.                       *)
LEMMA NewPersonShown ==
  ASSUME Stacked, Shown, NEW screens \in Seq(Screens), Len(screens) = Len(stack),
         \A j \in 1..Len(stack) :
           screens[j].kind = stack[j].kind /\ screens[j].who = stack[j].who,
         ShowNew(AllAged(screens))
  PROVE  Shown'
<1> DEFINE aged == AllAged(screens)
           own  == Own(person')
<1>1. /\ aged \in Seq(Screens) /\ Len(aged) = Len(stack)
      /\ \A j \in 1..Len(stack) : aged[j] = Aged(screens[j]) /\ screens[j] \in Screens
      /\ Len(stack) \in 1..Len(stack)
  BY AgedRows, StackFacts
<1>2. \A j \in 1..Len(stack) : Whose(aged[j]) /\ aged[j].who # "me"
  BY <1>1, AgedFacts DEF Shown, AllWhose, Whose
<1>3. own \in Screens /\ Whose(own) /\ own.sign = MySign'
  BY PredictionFields DEF Whose, MySign
<1>4. Show(aged, own)
  BY DEF ShowNew
<1> HIDE DEF aged, own
<1>5. Same(aged[Len(aged)], own) => Twins(MySign', aged[Len(aged)], own)
  BY <1>1, <1>2, SameTwins, OldTwins
<1>6. Showable(aged, own, MySign')
  BY <1>1, <1>2, <1>3, <1>5 DEF Showable
<1> QED
  BY <1>4, <1>6, ShowShows

LEMMA FriendShown ==
  ASSUME Stacked, Shown, NEW screens \in Seq(Screens), Len(screens) = Len(stack),
         \A j \in 1..Len(stack) :
           /\ screens[j].kind = stack[j].kind /\ screens[j].who = stack[j].who
           /\ screens[j].sign = stack[j].sign,
         ShowFriend(screens)
  PROVE  Shown'
<1>1. PICK date : Push(screens, Prediction("friend", SignOf(date)))
  BY DEF ShowFriend
<1> DEFINE s == Prediction("friend", SignOf(date))
<1>2. s \in Screens /\ Whose(s) /\ s.who = "friend"
  <2>1. SignOf(date) \in Signs
    BY SignType DEF SignOf
  <2> QED
    BY <2>1, PredictionFields DEF Whose
<1>3. MySign' = MySign
  BY DEF ShowFriend, account, MySign
<1> HIDE DEF s
<1>4. Same(screens[Len(screens)], s) => Twins(MySign', screens[Len(screens)], s)
  BY <1>3, SameTwins
<1>5. Showable(screens, s, MySign')
  BY <1>2, <1>3, <1>4 DEF Showable, Shown, AllWhose, Whose, Current
<1> QED
  BY <1>1, <1>5, ShowShows DEF s

(* Requests, and the account screen.                                       *)
LEMMA InPlaceShown ==
  ASSUME IInv, Shown,
         \/ Ask \/ LogOut \/ TokenArrives \/ EnterBackground
         \/ \E b \in Births : ChangeBirthday(b)
         \/ \E i \in DOMAIN stack : AnsweredEmpty(i)
         \/ UNCHANGED <<account, nav>>
  PROVE  Shown'
<1>1. /\ Stacked /\ stack \in Seq(Screens) /\ Len(stack) \in 1..Len(stack)
      /\ Top = stack[Len(stack)] /\ \A i \in 1..Len(stack) : stack[i] \in Screens
  BY StackFacts DEF IInv
<1> DEFINE Kept == /\ stack' \in Seq(Screens) /\ Len(stack') = Len(stack)
                   /\ \A j \in 1..Len(stack) :
                        /\ stack'[j].kind = stack[j].kind /\ stack'[j].who = stack[j].who
                        /\ stack'[j].sign = stack[j].sign
                   /\ Top' = Top \/ Top.kind # "prediction"
                   /\ MySign' = MySign \/ Top.kind = "account"
                   /\ UNCHANGED <<slot, asked, exposed>>
<1>2. ASSUME Ask PROVE Kept
  <2> DEFINE n == Len(stack)
             e == [stack[n] EXCEPT !.busy = TRUE]
  <2>1. /\ e \in Screens /\ e.kind = stack[n].kind /\ e.who = stack[n].who
        /\ e.sign = stack[n].sign
    BY <1>1 DEF Screens
  <2>2. stack' = [stack EXCEPT ![n] = e]
    BY <1>2 DEF Ask
  <2> HIDE DEF e, n
  <2>3. /\ stack' \in Seq(Screens) /\ Len(stack') = Len(stack)
        /\ \A j \in 1..Len(stack) : stack'[j] = IF j = n THEN e ELSE stack[j]
    BY <1>1, <2>1, <2>2, ExceptSeq DEF n
  <2> QED
    BY <1>2, <2>1, <2>3 DEF Ask, account, MySign
<1>3. ASSUME NEW i \in DOMAIN stack, AnsweredEmpty(i) PROVE Kept
  <2>1. stack' = Rested(i) /\ stack[i].busy /\ UNCHANGED <<account, slot, asked, exposed>>
    BY <1>3 DEF AnsweredEmpty
  <2>2. Top' = Top \/ Top.kind # "prediction"
    <3>1. CASE i = Len(stack)
      BY <1>1, <2>1, <3>1 DEF Stacked, Layered, Askers
    <3>2. CASE i # Len(stack)
      BY <1>1, <2>1, <3>2, RestedRows DEF Top
    <3> QED
      BY <3>1, <3>2
  <2> QED
    BY <1>1, <2>1, <2>2, RestedRows DEF account, MySign
<1>4. ASSUME UNCHANGED <<stack, slot, asked, exposed>>, MySign' = MySign \/ Top.kind = "account"
      PROVE  Kept
  BY <1>1, <1>4 DEF Top
<1>5. ASSUME LogOut PROVE Kept
  <2>1. person \in Persons
    BY <1>5, AccountShown DEF LogOut
  <2>2. MySign' = MySign
    BY <1>5, <2>1 DEF LogOut, MySign, Persons
  <2> QED
    BY <1>4, <1>5, <2>2 DEF LogOut, nav
<1>6. ASSUME NEW b \in Births, ChangeBirthday(b) PROVE Kept
  BY <1>4, <1>6 DEF ChangeBirthday, nav
<1>7. ASSUME TokenArrives \/ EnterBackground \/ UNCHANGED <<account, nav>> PROVE Kept
  BY <1>4, <1>7 DEF TokenArrives, EnterBackground, account, nav, MySign
<1>8. Kept
  BY <1>2, <1>3, <1>5, <1>6, <1>7
<1> QED
  BY <1>1, <1>8, SameScreens

LEMMA AnswersShown ==
  ASSUME IInv, Shown,
         \/ \E b \in Births : PickBirthday(b)
         \/ \E i \in DOMAIN stack : LoggedIn(i) \/ FriendAnswered(i)
         \/ \E kind \in Askers : OrphanAnswered(kind)
  PROVE  Shown'
<1>1. /\ Stacked /\ stack \in Seq(Screens) /\ Len(stack) \in 1..Len(stack)
      /\ Top = stack[Len(stack)]
  BY StackFacts DEF IInv
<1>2. ASSUME NEW b \in Births, PickBirthday(b) PROVE Shown'
  BY <1>1, <1>2, NewPersonShown DEF PickBirthday
<1>3. ASSUME NEW i \in DOMAIN stack, LoggedIn(i) PROVE Shown'
  <2>1. CASE stack[i].kind = "welcome"
    BY <1>1, <1>3, <2>1, RestedRows, NewPersonShown DEF LoggedIn
  <2>2. CASE stack[i].kind # "welcome"
    <3>1. /\ stack' = AllAged(Rested(i)) /\ asked' = Aged(asked) /\ UNCHANGED <<slot, exposed>>
          /\ stack[i].kind = "account"
      BY <1>3, <2>2 DEF LoggedIn
    <3>2. Rested(i)[Len(stack)] = Top \/ Top.kind # "prediction"
      BY <1>1, <3>1, RestedRows
    <3> QED
      BY <1>1, <3>1, <3>2, RestedRows, AgedScreens
  <2> QED
    BY <2>1, <2>2
<1>4. ASSUME NEW i \in DOMAIN stack, FriendAnswered(i) PROVE Shown'
  BY <1>1, <1>4, RestedRows, FriendShown DEF FriendAnswered
<1>5. ASSUME NEW kind \in Askers, OrphanAnswered(kind) PROVE Shown'
  <2>1. CASE UNCHANGED <<account, nav>>
    BY <2>1, InPlaceShown
  <2>2. CASE stack' = AllAged(stack) /\ asked' = Aged(asked) /\ UNCHANGED <<slot, exposed>>
    BY <1>1, <2>2, AgedScreens
  <2>3. CASE ShowNew(AllAged(stack))
    BY <1>1, <2>3, NewPersonShown
  <2>4. CASE ShowFriend(stack)
    BY <1>1, <2>4, FriendShown
  <2> QED
    BY <1>5, <2>1, <2>2, <2>3, <2>4 DEF OrphanAnswered
<1> QED
  BY <1>2, <1>3, <1>4, <1>5

LEMMA StepShown == IInv /\ Shown /\ [Next]_vars => Shown'
<1> SUFFICES ASSUME IInv, Shown, [Next]_vars PROVE Shown'
  OBVIOUS
<1>1. CASE Relaunch
  BY <1>1, RelaunchShown
<1>2. CASE DidShow \/ Back
  BY <1>2, DidShowShown, BackShown DEF IInv
<1>3. CASE MenuTapped \/ PushTimeTapped \/ PushTapped
  BY <1>3, AskedForShown
<1>4. CASE LogOut \/ Ask \/ TokenArrives \/ EnterBackground \/ UNCHANGED vars
  BY <1>4, InPlaceShown DEF vars
<1>5. ASSUME NEW b \in Births, PickBirthday(b) \/ ChangeBirthday(b) PROVE Shown'
  BY <1>5, AnswersShown, InPlaceShown
<1>6. ASSUME NEW i \in DOMAIN stack, AnsweredEmpty(i) \/ LoggedIn(i) \/ FriendAnswered(i)
      PROVE  Shown'
  BY <1>6, AnswersShown, InPlaceShown
<1>7. ASSUME NEW kind \in Askers, OrphanAnswered(kind) PROVE Shown'
  BY <1>7, AnswersShown
<1> QED
  BY <1>1, <1>2, <1>3, <1>4, <1>5, <1>6, <1>7 DEF Next, Askers

-------------------------------------------------------------------------------
(* The second invariant is inductive: the settings *)

LEMMA SentFollows == ASSUME SendFor(person') PROVE Followed'
BY DEF SendFor, Followed, MySign

LEMMA CoverFollows ==
  ASSUME NEW l, Cover(person', l), late' = l /\ UNCHANGED <<sent, process>> => Followed'
  PROVE  Followed'
<1>1. CASE Top.kind = "pushTime"
  BY <1>1, SentFollows DEF Cover
<1>2. CASE Top.kind # "pushTime"
  BY <1>2 DEF Cover
<1> QED
  BY <1>1, <1>2

LEMMA KeptFollows ==
  ASSUME Followed, process' = "running" => process = "running",
         MySign' = MySign, UNCHANGED <<sent, late, token>>, NoAccount' => NoAccount
  PROVE  Followed'
BY DEF Followed

(* Showing a screen takes no other away.                                   *)
LEMMA ShownOver ==
  ASSUME Stacked, NEW screens \in Seq(Screens), Len(screens) = Len(stack),
         \A j \in 1..Len(stack) : screens[j].kind = stack[j].kind,
         NEW s, Show(screens, s) \/ Push(screens, s)
  PROVE  NoAccount' => NoAccount
<1>1. stack' = screens \/ stack' = Append(screens, s)
  BY DEF Show, Push
<1>2. /\ \A j \in 1..Len(stack) : j \in 1..Len(stack') /\ stack'[j] = screens[j]
  BY <1>1, AppendRows, StackFacts
<1> QED
  BY <1>2 DEF NoAccount

(* The account screen sends the settings when it is freed.                 *)
LEMMA DidShowFollows == ASSUME Stacked, Followed, DidShow PROVE Followed'
<1>1. /\ stack' = (IF slot = 0 THEN stack ELSE <<stack[slot]>>)
      /\ UNCHANGED <<account, token>> /\ process = "running"
      /\ LET freed == IF slot = 0 THEN {} ELSE DOMAIN stack \ {slot}
         IN IF \E i \in freed : SendsWhenFreed(i)
            THEN Send ELSE UNCHANGED <<sent, late, process>>
  BY DEF DidShow
<1>2. MySign' = MySign /\ person' = person
  BY <1>1 DEF account, MySign
<1>3. CASE Send
  BY <1>2, <1>3, SentFollows DEF Send
<1>4. CASE UNCHANGED <<sent, late, process>> /\
           ~\E i \in (IF slot = 0 THEN {} ELSE DOMAIN stack \ {slot}) : SendsWhenFreed(i)
  <2>1. NoAccount' => NoAccount
    <3>1. CASE slot = 0
      BY <1>1, <3>1 DEF NoAccount
    <3>2. CASE slot # 0
      <4>1. \A i \in DOMAIN stack \ {slot} : stack[i].kind # "account"
        BY <1>4, <3>2 DEF SendsWhenFreed
      <4>2. Len(stack') = 1 /\ stack'[1] = stack[slot]
        BY <1>1, <3>2
      <4> QED
        BY <4>1, <4>2, StackFacts DEF NoAccount
    <3> QED
      BY <3>1, <3>2
  <2> QED
    BY <1>1, <1>2, <1>4, <2>1, KeptFollows
<1> QED
  BY <1>1, <1>3, <1>4

LEMMA BackFollows == ASSUME Stacked, Shown, Followed, Back PROVE Followed'
<1>1. MySign' = MySign /\ person' = person /\ token' = token /\ process = "running"
  BY DEF Back, MySign, account, Step
<1>2. CASE Send
  BY <1>1, <1>2, SentFollows DEF Send
<1>3. CASE UNCHANGED <<sent, late, process>>
  <2>1. /\ Len(stack') = Len(stack) - 1 /\ Len(stack) \in Nat /\ Top = stack[Len(stack)]
        /\ \A i \in 1..Len(stack') : stack'[i] = stack[i]
        /\ Len(stack) \in 1..Len(stack)
    BY BackRows, StackFacts
  <2>2. Top.kind # "account"
    BY <2>1 DEF Back, Pushed, Shown, AllWhose, Whose
  <2>3. \A i \in 1..Len(stack) : i \in 1..Len(stack') \/ i = Len(stack)
    BY <2>1
  <2>4. NoAccount' => NoAccount
    BY <2>1, <2>2, <2>3 DEF NoAccount
  <2> QED
    BY <1>1, <1>3, <2>4, KeptFollows
<1> QED
  BY <1>2, <1>3 DEF Back

LEMMA AskedForFollows ==
  ASSUME Stacked, Followed, MenuTapped \/ PushTimeTapped \/ PushTapped PROVE Followed'
<1>1. /\ MySign' = MySign /\ person' = person /\ token' = token /\ process = "running"
      /\ \E s : Show(stack, s) \/ Push(stack, s)
  BY DEF MenuTapped, ShowFromMenu, PushTimeTapped, PushTapped, account, pushes, MySign, Step
<1>2. NoAccount' => NoAccount
  BY <1>1, ShownOver, StackFacts
<1>3. UNCHANGED <<sent, late>> => Followed'
  BY <1>1, <1>2, KeptFollows
<1>4. CASE MenuTapped \/ PushTimeTapped
  BY <1>3, <1>4 DEF MenuTapped, ShowFromMenu, PushTimeTapped, pushes
<1>5. CASE PushTapped
  <2>1. Cover(person', late)
    BY <1>1, <1>5 DEF PushTapped
  <2> QED
    BY <1>3, <2>1, CoverFollows
<1> QED
  BY <1>4, <1>5

(* A new person: settings that had been sent are too late, or sent again.  *)
LEMMA NewPersonFollows ==
  ASSUME Settled, NEW screens, ShowNew(screens) PROVE Followed'
<1>1. Cover(person', Late) /\ token' = token
  BY DEF ShowNew
<1>2. late' = Late => Followed'
  BY <1>1 DEF Late, Followed
<1> QED
  BY <1>1, <1>2, CoverFollows

LEMMA FriendFollows ==
  ASSUME Stacked, Followed, process = "running",
         NEW screens \in Seq(Screens), Len(screens) = Len(stack),
         \A j \in 1..Len(stack) : screens[j].kind = stack[j].kind,
         ShowFriend(screens)
  PROVE  Followed'
<1>1. /\ MySign' = MySign /\ person' = person /\ token' = token
      /\ \E s : Push(screens, s)
  BY DEF ShowFriend, account, MySign
<1>2. NoAccount' => NoAccount
  BY <1>1, ShownOver
<1>3. UNCHANGED <<sent, late>> => Followed'
  BY <1>1, <1>2, KeptFollows
<1>4. Cover(person', late)
  BY <1>1 DEF ShowFriend
<1> QED
  BY <1>3, <1>4, CoverFollows

LEMMA AnswersFollow ==
  ASSUME IInv, Followed,
         \/ \E b \in Births : PickBirthday(b)
         \/ \E i \in DOMAIN stack : LoggedIn(i) \/ FriendAnswered(i)
         \/ \E kind \in Askers : OrphanAnswered(kind)
  PROVE  Followed'
<1>1. Stacked /\ Settled /\ stack \in Seq(Screens) /\ process = "running"
  BY StackFacts DEF IInv, PickBirthday, LoggedIn, FriendAnswered, OrphanAnswered, Step
<1>2. ASSUME late' = Late, token' = token PROVE Followed'
  BY <1>2 DEF Late, Followed
<1>3. ASSUME NEW b \in Births, PickBirthday(b) PROVE Followed'
  BY <1>1, <1>3, NewPersonFollows DEF PickBirthday
<1>4. ASSUME NEW i \in DOMAIN stack, LoggedIn(i) PROVE Followed'
  BY <1>1, <1>2, <1>4, NewPersonFollows DEF LoggedIn
<1>5. ASSUME NEW i \in DOMAIN stack, FriendAnswered(i) PROVE Followed'
  BY <1>1, <1>5, RestedRows, FriendFollows DEF FriendAnswered
<1>6. ASSUME NEW kind \in Askers, OrphanAnswered(kind) PROVE Followed'
  <2>1. CASE process' = "freed"
    BY <2>1 DEF Followed
  <2>2. CASE late' = Late /\ token' = token
    BY <1>2, <2>2
  <2>3. CASE ShowNew(AllAged(stack))
    BY <1>1, <2>3, NewPersonFollows
  <2>4. CASE ShowFriend(stack)
    BY <1>1, <2>4, FriendFollows
  <2> QED
    BY <1>6, <2>1, <2>2, <2>3, <2>4 DEF OrphanAnswered
<1> QED
  BY <1>3, <1>4, <1>5, <1>6

(* The account screen itself, and requests of screens.                     *)
LEMMA InPlaceFollows ==
  ASSUME IInv, Followed,
         \/ Ask \/ LogOut \/ \E b \in Births : ChangeBirthday(b)
         \/ \E i \in DOMAIN stack : AnsweredEmpty(i)
  PROVE  Followed'
<1>1. /\ Stacked /\ Len(stack) \in 1..Len(stack) /\ Top = stack[Len(stack)]
      /\ stack \in Seq(Screens) /\ \A i \in 1..Len(stack) : stack[i] \in Screens
  BY StackFacts DEF IInv
<1>2. UNCHANGED <<sent, late, token>> /\ process = "running"
  BY DEF Ask, LogOut, ChangeBirthday, AnsweredEmpty, pushes, Step
<1>3. ASSUME NEW b \in Births, ChangeBirthday(b) PROVE Followed'
  <2>1. ~NoAccount'
    BY <1>1, <1>3 DEF ChangeBirthday, NoAccount, nav
  <2> QED
    BY <2>1 DEF Followed
<1>4. ASSUME LogOut PROVE Followed'
  <2>1. MySign' = MySign /\ stack' = stack
    BY <1>4, AccountShown DEF LogOut, MySign, Persons, nav
  <2> QED
    BY <1>2, <2>1, KeptFollows DEF NoAccount
<1>5. ASSUME Ask PROVE Followed'
  <2>1. /\ MySign' = MySign
        /\ stack' = [stack EXCEPT ![Len(stack)] = [stack[Len(stack)] EXCEPT !.busy = TRUE]]
    BY <1>5 DEF Ask, MySign, account
  <2>2. /\ Len(stack') = Len(stack)
        /\ \A i \in 1..Len(stack) : stack'[i].kind = stack[i].kind
    BY <1>1, <2>1 DEF Screens
  <2>3. NoAccount' => NoAccount
    BY <2>2 DEF NoAccount
  <2> QED
    BY <1>2, <2>1, <2>3, KeptFollows
<1>6. ASSUME NEW i \in DOMAIN stack, AnsweredEmpty(i) PROVE Followed'
  <2>1. MySign' = MySign /\ stack' = Rested(i)
    BY <1>6 DEF AnsweredEmpty, MySign, account
  <2>2. NoAccount' => NoAccount
    BY <1>1, <2>1, RestedRows DEF NoAccount
  <2> QED
    BY <1>2, <2>1, <2>2, KeptFollows
<1> QED
  BY <1>3, <1>4, <1>5, <1>6

LEMMA StepFollows == IInv /\ Shown /\ Followed /\ [Next]_vars => Followed'
<1> SUFFICES ASSUME IInv, Shown, Followed, [Next]_vars PROVE Followed'
  OBVIOUS
<1>1. CASE Relaunch
  BY <1>1 DEF Relaunch, Launched, Followed
<1>2. CASE DidShow \/ Back
  BY <1>2, DidShowFollows, BackFollows DEF IInv
<1>3. CASE MenuTapped \/ PushTimeTapped \/ PushTapped
  BY <1>3, AskedForFollows DEF IInv
<1>4. CASE TokenArrives \/ EnterBackground
  <2>1. SendFor(person')
    BY <1>4 DEF TokenArrives, EnterBackground, Send, account
  <2> QED
    BY <2>1, SentFollows
<1>5. CASE UNCHANGED vars
  BY <1>5, KeptFollows DEF vars, account, pushes, nav, NoAccount, MySign
<1>6. CASE LogOut \/ Ask
  BY <1>6, InPlaceFollows
<1>7. ASSUME NEW b \in Births, PickBirthday(b) \/ ChangeBirthday(b) PROVE Followed'
  BY <1>7, AnswersFollow, InPlaceFollows
<1>8. ASSUME NEW i \in DOMAIN stack, AnsweredEmpty(i) \/ LoggedIn(i) \/ FriendAnswered(i)
      PROVE  Followed'
  BY <1>8, AnswersFollow, InPlaceFollows
<1>9. ASSUME NEW kind \in Askers, OrphanAnswered(kind) PROVE Followed'
  BY <1>9, AnswersFollow
<1> QED
  BY <1>1, <1>2, <1>3, <1>4, <1>5, <1>6, <1>7, <1>8, <1>9 DEF Next, Askers

-------------------------------------------------------------------------------
(* What the second invariant gives *)

LEMMA ShownInvariance == Spec => [](IInv /\ Shown /\ Followed)
<1>1. Init => Shown
  BY InitShown
<1>2. Init => Followed
  BY DEF Init, Launched, Followed
<1> QED
  BY <1>1, <1>2, InitInv, StepInv, StepShown, StepFollows, PTL DEF Spec

(* When transitions have ended, what was asked for last is on top, or a    *)
(* screen canIgnorePushingViewController took for the same; but for a      *)
(* screen pushed above one whose completion waited.                        *)
THEOREM AskedForIsSeen == Spec => []AskedIsOnTop
<1>1. Shown => AskedIsOnTop
  BY SameTwins DEF Shown, OnTop, AskedIsOnTop
<1> QED
  BY <1>1, ShownInvariance, PTL

(* A prediction of the current person object that stays on the stack shows *)
(* the current sign: the account screen, which changes the object in       *)
(* place, never has one below it when transitions have ended.              *)
THEOREM PointersTellSigns == Spec => []SameObjectSameSign
<1>1. IInv /\ Shown => SameObjectSameSign
  <2> SUFFICES ASSUME IInv, Shown, AtRest,
                      NEW i \in DOMAIN stack, stack[i].who = "me"
               PROVE  stack[i].sign = SignOf(person.birth)
    BY DEF SameObjectSameSign
  <2>1. i \in 1..Len(stack) /\ i \in Nat /\ slot = 0
    BY StackFacts DEF IInv, Stacked, AtRest
  <2> QED
    BY <2>1 DEF Shown, Current, MySign
<1> QED
  BY <1>1, ShownInvariance, PTL

(* The settings recorded as sent are those of the person's sign, once the  *)
(* token has come and no account screen is open: whatever frees an account *)
(* screen sends them, but for a login answered after that.                 *)
THEOREM SettingsFollowSign == Spec => []SettingsFollow
<1>1. IInv /\ Followed => SettingsFollow
  BY StackFacts DEF IInv, Followed, NoAccount, MySign, SettingsFollow, AtRest
<1> QED
  BY <1>1, ShownInvariance, PTL

================================================================================
