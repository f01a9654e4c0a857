-------------------------- MODULE TtyDocumentsProofs --------------------------
(***************************************************************************)
(* TtyDocuments' invariants, for any number of jobs, signs and failures,   *)
(* any types the server has and any days.                                  *)
(*                                                                         *)
(* For JobInHand: a sign that reads has a read under way and one that      *)
(* writes has its document under way (InHand).  For UndisturbedIsOwn: who  *)
(* reads undisturbed reads alone (ReadsAlone), so the dictionary, emptied  *)
(* when the reading began, holds the answers to this sign's reads and      *)
(* nothing else (Collected).                                               *)
(***************************************************************************)
EXTENDS TtyDocuments, FiniteSetTheorems, TLAPS

Days == FirstDay..LastDay

(* The reads there can be: finitely many.                                  *)
PossibleReads ==
  {[task |-> q[1], type |-> q[2], text |-> TextOf(q[2], q[1][2], q[3])] :
     q \in Tasks \X Types \X Days}

(* A read was sent today or earlier.                                       *)
Sent ==
  /\ reads \subseteq PossibleReads
  /\ \A r \in reads : r.text.date <= DateFor(r.type, day)

Asking  == {r.task : r \in reads}
Storing == {w.task : w \in writes}

TasksInHand ==
  \A k \in Tasks :
    /\ sign[k] = "idle" => k \notin Asking /\ k \notin Storing
    /\ sign[k] = "reading" => k \in Asking
    /\ sign[k] = "writing" => k \in Storing
    /\ sign[k] = "done" => documents[k[2]] # NoDocument

JobsInHand ==
  \A j \in Jobs :
    /\ job[j] = "new" => \A s \in Signs : sign[<<j, s>>] = "idle"
    /\ job[j] = "running" =>
         \E s \in Signs : sign[<<j, s>>] \in {"reading", "writing", "stuck"}
    /\ job[j] = "ended" => \A s \in Signs : documents[s] # NoDocument

InHand == TasksInHand /\ JobsInHand

ReadsAlone == \A k \in Reading \ disturbed : Reading = {k}

(* What the dictionary or a document has for a type of a sign.             *)
OwnText(x, k, t) ==
  x = Blank \/ (x \in Texts /\ x.sign = k[2] /\ x.date <= DateFor(t, day))

Collected ==
  \A k \in Tasks \ disturbed : sign[k] = "reading" =>
    \A t \in asked[k] : (\E r \in reads : r.task = k /\ r.type = t)
                        \/ OwnText(dictionary[t], k, t)

(* UndisturbedIsOwn of one document, which keeps the day of its making.    *)
OwnDocument(w) ==
  w.alone =>
    \A t \in Types : /\ Own(w, t)
                     /\ w.entries[t].text # Blank =>
                          w.entries[t].text.date <= w.entries[t].date

Made ==
  /\ \A w \in writes : OwnDocument(w)
  /\ \A s \in Signs : documents[s] # NoDocument =>
       OwnDocument(documents[s]) /\ documents[s].task[2] = s

IInv == TypeOK /\ Sent /\ InHand /\ ReadsAlone /\ Collected /\ Made

-------------------------------------------------------------------------------
(* Dates *)

LEMMA DaysAreInts ==
  /\ FirstDay \in Days /\ LastDay \in Int
  /\ \A d \in Days : d \in Int /\ (d < LastDay => d + 1 \in Days)
<1>1. FirstDay \in Int /\ LastDay \in Int /\ FirstDay <= LastDay
  BY TtyAssumption
<1> QED
  BY <1>1 DEF Days

LEMMA FirstFacts ==
  ASSUME NEW d \in Days
  PROVE  /\ FirstOfMonth(d) \in MonthStarts /\ FirstOfMonth(d) \in Int /\ FirstOfMonth(d) <= d
         /\ \A n \in MonthStarts : n <= d => n <= FirstOfMonth(d)
BY TtyAssumption, CalendarAssumption DEF FirstOfMonth, Days

LEMMA MondayMoves ==
  ASSUME NEW d \in Int, NEW e \in Int, d <= e
  PROVE  Monday(d) \in Int /\ Monday(d) <= Monday(e)
<1>1. /\ Monday(d) = 7 * ((d + 3) \div 7) - 3
      /\ Monday(e) = 7 * ((e + 3) \div 7) - 3
  BY DEF Monday
<1>2. (d + 3) \div 7 \in Int /\ (e + 3) \div 7 \in Int /\ (d + 3) \div 7 <= (e + 3) \div 7
  OBVIOUS
<1> QED
  BY <1>1, <1>2

(* Predictions of a type are never dated back.                             *)
LEMMA DatesMove ==
  ASSUME NEW t \in Types, NEW d \in Days, NEW e \in Days, d <= e
  PROVE  DateFor(t, d) \in Int /\ DateFor(t, d) <= DateFor(t, e)
<1>1. d \in Int /\ e \in Int
  BY DaysAreInts
<1>2. t \in {"yesterday", "today", "tomorrow", "weekly", "monthly"}
  BY TtyAssumption DEF ServerTypes
<1>3. CASE t = "weekly"
  BY <1>1, <1>3, MondayMoves DEF DateFor
<1>4. CASE t = "monthly"
  <2>1. FirstOfMonth(d) <= e
    BY <1>1, FirstFacts
  <2>2. FirstOfMonth(d) <= FirstOfMonth(e)
    BY <2>1, FirstFacts
  <2> QED
    BY <2>2, <1>4, FirstFacts DEF DateFor
<1> QED
  BY <1>1, <1>2, <1>3, <1>4 DEF DateFor

LEMMA TextType ==
  ASSUME NEW t \in Types, NEW s \in Signs, NEW d \in Days
  PROVE  TextOf(t, s, d) \in Texts
<1>1. DateFor(t, d) \in Int
  <2>1. d <= d
    BY DaysAreInts
  <2> QED
    BY <2>1, DatesMove
<1>2. KindOf(t) \in {"days", "week", "month"}
  BY DEF KindOf
<1> QED
  BY <1>1, <1>2 DEF TextOf, Texts

(* A read that is sent on some day.                                        *)
LEMMA ReadType ==
  ASSUME NEW k \in Tasks, NEW t \in Types, day \in Days
  PROVE  /\ Read(k, t) \in PossibleReads
         /\ Read(k, t).task = k /\ Read(k, t).type = t
         /\ Read(k, t).text.date = DateFor(t, day)
<1>1. <<k, t, day>> \in Tasks \X Types \X Days
  OBVIOUS
<1>2. Read(k, t) = [task |-> k, type |-> t, text |-> TextOf(t, k[2], day)]
  BY DEF Read
<1>3. Read(k, t) \in PossibleReads
  BY <1>1, <1>2 DEF PossibleReads
<1>4. TextOf(t, k[2], day).date = DateFor(t, day)
  BY DEF TextOf
<1> QED
  BY <1>2, <1>3, <1>4

LEMMA PossibleType ==
  ASSUME NEW r \in PossibleReads
  PROVE  /\ r \in [task : Tasks, type : Types, text : Texts]
         /\ r.text.sign = r.task[2]
<1>1. PICK q \in Tasks \X Types \X Days :
        r = [task |-> q[1], type |-> q[2], text |-> TextOf(q[2], q[1][2], q[3])]
  BY DEF PossibleReads
<1>2. q[1] \in Tasks /\ q[2] \in Types /\ q[3] \in Days /\ q[1][2] \in Signs
  BY DEF Tasks
<1>3. TextOf(q[2], q[1][2], q[3]) \in Texts /\ TextOf(q[2], q[1][2], q[3]).sign = q[1][2]
  BY <1>2, TextType DEF TextOf
<1> QED
  BY <1>1, <1>2, <1>3

-------------------------------------------------------------------------------
(* Counting *)

LEMMA TasksFinite == IsFiniteSet(Tasks)
BY TtyAssumption, FS_Product DEF Tasks

LEMMA TypesFinite == IsFiniteSet(Types)
<1>1. IsFiniteSet({"yesterday", "today", "tomorrow", "weekly", "monthly"})
  <2>1. IsFiniteSet({"monthly"})
    BY FS_Singleton
  <2>2. IsFiniteSet({"weekly", "monthly"})
    <3>1. {"weekly", "monthly"} = {"monthly"} \cup {"weekly"}
      OBVIOUS
    <3> QED BY <2>1, <3>1, FS_AddElement
  <2>3. IsFiniteSet({"tomorrow", "weekly", "monthly"})
    <3>1. {"tomorrow", "weekly", "monthly"} = {"weekly", "monthly"} \cup {"tomorrow"}
      OBVIOUS
    <3> QED BY <2>2, <3>1, FS_AddElement
  <2>4. IsFiniteSet({"today", "tomorrow", "weekly", "monthly"})
    <3>1. {"today", "tomorrow", "weekly", "monthly"}
            = {"tomorrow", "weekly", "monthly"} \cup {"today"}
      OBVIOUS
    <3> QED BY <2>3, <3>1, FS_AddElement
  <2>5. {"yesterday", "today", "tomorrow", "weekly", "monthly"}
          = {"today", "tomorrow", "weekly", "monthly"} \cup {"yesterday"}
    OBVIOUS
  <2> QED
    BY <2>4, <2>5, FS_AddElement
<1>2. Types \subseteq {"yesterday", "today", "tomorrow", "weekly", "monthly"}
  BY TtyAssumption DEF ServerTypes
<1> QED
  BY <1>1, <1>2, FS_Subset

LEMMA ReadsFinite == IsFiniteSet(PossibleReads)
<1> DEFINE S == Tasks \X Types \X Days
           f == [q \in S |-> [task |-> q[1], type |-> q[2], text |-> TextOf(q[2], q[1][2], q[3])]]
<1>1. IsFiniteSet(Days)
  BY TtyAssumption, FS_Interval DEF Days
<1>2. IsFiniteSet(Types \X Days)
  BY <1>1, TypesFinite, FS_Product
<1>3. IsFiniteSet(Tasks \X Types)
  BY TasksFinite, TypesFinite, FS_Product
<1>4. IsFiniteSet((Tasks \X Types) \X Days)
  BY <1>1, <1>3, FS_Product
<1>5. IsFiniteSet(S)
  <2> DEFINE g == [p \in (Tasks \X Types) \X Days |-> <<p[1][1], p[1][2], p[2]>>]
  <2>1. \A q \in S : <<<<q[1], q[2]>>, q[3]>> \in (Tasks \X Types) \X Days
                     /\ g[<<<<q[1], q[2]>>, q[3]>>] = q
    OBVIOUS
  <2>2. g \in [(Tasks \X Types) \X Days -> S]
    OBVIOUS
  <2>3. g \in Surjection((Tasks \X Types) \X Days, S)
    <3> HIDE DEF g, S
    <3> QED
      BY <2>1, <2>2 DEF Surjection
  <2> HIDE DEF g, S
  <2> QED
    BY <1>4, <2>3, FS_Surjection
<1>6. f \in [S -> PossibleReads] /\ \A r \in PossibleReads : \E q \in S : f[q] = r
  BY DEF PossibleReads
<1>7. f \in Surjection(S, PossibleReads)
  <2> HIDE DEF f, S
  <2> QED
    BY <1>6 DEF Surjection
<1> HIDE DEF f, S
<1> QED
  BY <1>5, <1>7, FS_Surjection

(* The read that is the last of its sign is the only one.                  *)
LEMMA LastIsOnly ==
  ASSUME Sent, NEW k, NEW r \in reads, r.task = k
  PROVE  Cardinality({x \in reads : x.task = k}) = 1
           <=> \A x \in reads : x.task = k => x = r
<1> DEFINE S == {x \in reads : x.task = k}
<1>1. IsFiniteSet(S)
  <2>1. S \subseteq PossibleReads
    BY DEF Sent
  <2> QED
    BY <2>1, ReadsFinite, FS_Subset
<1>2. r \in S
  OBVIOUS
<1>3. (\E x : S = {x}) <=> S = {r}
  BY <1>2
<1>4. S = {r} <=> \A x \in reads : x.task = k => x = r
  BY <1>2
<1> HIDE DEF S
<1>5. Cardinality(S) = 1 <=> \E x : S = {x}
  BY <1>1, FS_Singleton
<1> QED
  BY <1>3, <1>4, <1>5 DEF S

(* Whoever begins to read while another reads disturbs it.                 *)
LEMMA TwoAreDisturbed ==
  ASSUME TypeOK, NEW ks \in SUBSET Tasks, NEW ts, NEW states, Begin(ks, ts, states),
         NEW k \in Reading \cup ks, k \notin disturbed'
  PROVE  Reading \cup ks = {k}
<1> DEFINE S == Reading \cup ks
<1>1. IsFiniteSet(S)
  BY TasksFinite, FS_Subset DEF Reading
<1>2. ~(Cardinality(S) > 1)
  BY DEF Begin
<1>3. Cardinality(S) \in Nat /\ (Cardinality(S) = 0 <=> S = {})
      /\ (Cardinality(S) = 1 <=> \E x : S = {x})
  <2> HIDE DEF S
  <2> QED
    BY <1>1, FS_CardinalityType, FS_EmptySet, FS_Singleton
<1>4. S # {}
  OBVIOUS
<1>5. Cardinality(S) = 1
  <2> HIDE DEF S
  <2> QED
    BY <1>2, <1>3, <1>4
<1>6. PICK x : S = {x}
  <2> HIDE DEF S
  <2> QED
    BY <1>3, <1>5
<1> QED
  BY <1>6

-------------------------------------------------------------------------------
(* Steps *)

States == {"idle", "reading", "writing", "done", "stuck"}

LEMMA InitIInv == Init => IInv
<1> SUFFICES ASSUME Init PROVE IInv
  OBVIOUS
<1> USE DEF Init
<1>1. TypeOK
  <2>1. dictionary \in [Types -> Texts \cup {Blank, Undefined}]
    BY DEF Empty
  <2>2. day \in FirstDay..LastDay /\ failures \in Nat
    BY DaysAreInts DEF Days
  <2> QED
    BY <2>1, <2>2 DEF TypeOK
<1>2. Sent /\ InHand /\ ReadsAlone /\ Collected /\ Made
  BY DEF Sent, InHand, TasksInHand, JobsInHand, Asking, Storing, ReadsAlone, Reading, Collected, Made, Tasks
<1> QED
  BY <1>1, <1>2 DEF IInv

(* What a step leaves of a reading that begins, for some signs, while      *)
(* others' states stay or become "done".                                   *)
Begun(ks, states) ==
  /\ sign' \in [Tasks -> States]
  /\ \A k \in Tasks : sign'[k] = IF k \in ks THEN "reading" ELSE states[k]
  /\ asked' \in [Tasks -> SUBSET Types]
  /\ dictionary' \in [Types -> Texts \cup {Blank, Undefined}]
  /\ disturbed' \subseteq Tasks
  /\ \A k \in Tasks : /\ sign'[k] = "idle" => k \notin Asking'
                      /\ sign'[k] = "reading" => k \in Asking'
  /\ Sent' /\ ReadsAlone' /\ Collected'

LEMMA BeginKeeps ==
  ASSUME IInv, NEW ks \in SUBSET Tasks, ks # {}, NEW ts \in SUBSET Types, ts # {},
         NEW states \in [Tasks -> States], Begin(ks, ts, states), day' = day,
         \A k \in Tasks : states[k] = sign[k] \/ states[k] = "done"
  PROVE  Begun(ks, states)
<1> DEFINE new == {Read(k, t) : k \in ks, t \in ts}
<1>1. /\ sign' = [k \in Tasks |-> IF k \in ks THEN "reading" ELSE states[k]]
      /\ asked' = [k \in Tasks |-> IF k \in ks THEN ts ELSE asked[k]]
      /\ reads' = reads \cup new /\ dictionary' = Empty
      /\ \/ disturbed' = disturbed
         \/ disturbed' = disturbed \cup Reading \cup ks
  BY DEF Begin
<1>2. \A k \in ks, t \in ts : Read(k, t) \in PossibleReads /\ Read(k, t).task = k
        /\ Read(k, t).type = t /\ Read(k, t).text.date = DateFor(t, day) /\ DateFor(t, day) \in Int
  <2>1. day \in Days /\ day <= day
    BY DaysAreInts DEF IInv, TypeOK, Days
  <2> QED
    BY <2>1, ReadType, DatesMove
<1>3. \A x \in new : x.task \in ks /\ x.type \in ts
  BY <1>2
<1>4. \A k \in ks, t \in ts : Read(k, t) \in reads' /\ Read(k, t).task = k /\ Read(k, t).type = t
  BY <1>1, <1>2
<1>5. reads' \subseteq PossibleReads /\ \A x \in reads' : x.text.date <= DateFor(x.type, day)
  <2>1. \A x \in new : x \in PossibleReads /\ x.text.date <= DateFor(x.type, day)
    BY <1>2
  <2> HIDE DEF new
  <2> QED
    BY <2>1, <1>1 DEF IInv, Sent
<1> HIDE DEF new
<1>6. sign' \in [Tasks -> States] /\ asked' \in [Tasks -> SUBSET Types]
      /\ \A k \in Tasks : sign'[k] = IF k \in ks THEN "reading" ELSE states[k]
  BY <1>1 DEF States, IInv, TypeOK
<1>7. dictionary' \in [Types -> Texts \cup {Blank, Undefined}]
  BY <1>1 DEF Empty
<1>8. disturbed' \subseteq Tasks
  BY <1>1 DEF IInv, TypeOK, Reading
<1>9. ASSUME NEW k \in Tasks
      PROVE  /\ sign'[k] = "idle" => k \notin Asking'
             /\ sign'[k] = "reading" => k \in Asking'
  <2>1. CASE k \in ks
    BY <2>1, <1>4, <1>6 DEF Asking
  <2>2. CASE k \notin ks
    <3>1. sign'[k] = states[k] /\ (sign'[k] \in {"idle", "reading"} => sign[k] = sign'[k])
      BY <2>2, <1>6
    <3>2. (\E x \in reads' : x.task = k) <=> \E x \in reads : x.task = k
      BY <2>2, <1>1, <1>3
    <3> QED
      BY <3>1, <3>2 DEF IInv, InHand, TasksInHand, JobsInHand, Asking
  <2> QED
    BY <2>1, <2>2
<1>10. Reading' \subseteq Reading \cup ks
  BY <1>1, <1>3, <1>6 DEF Reading
<1>11. \A k \in Reading' : k \notin disturbed' => Reading \cup ks = {k} /\ ks = {k}
  BY <1>10, TwoAreDisturbed DEF IInv
<1>12. ReadsAlone'
  BY <1>10, <1>11 DEF ReadsAlone
<1>13. Collected'
  <2> SUFFICES ASSUME NEW k \in Tasks, k \notin disturbed', sign'[k] = "reading", NEW t \in asked'[k]
               PROVE  \E x \in reads' : x.task = k /\ x.type = t
    BY DEF Collected
  <2>1. k \in Reading'
    BY DEF Reading
  <2>2. k \in ks
    BY <2>1, <1>11
  <2>3. t \in ts
    BY <2>2, <1>1
  <2> QED
    BY <2>2, <2>3, <1>4
<1>14. Sent'
  BY <1>5 DEF Sent
<1> QED
  BY <1>6, <1>7, <1>8, <1>9, <1>12, <1>13, <1>14 DEF Begun

LEMMA CreateKeeps ==
  ASSUME IInv, NEW j \in Jobs, CreateTTYHoroscopes(j)
  PROVE  IInv'
<1>1. sign \in [Tasks -> States] /\ \A s \in Signs : <<j, s>> \in Tasks
  BY DEF IInv, TypeOK, States, Tasks
<1>2. PICK ks \in SUBSET Tasks, ts \in SUBSET Types :
        ks # {} /\ ts # {} /\ (\A k \in ks : k[1] = j) /\ Begin(ks, ts, sign)
  <2>1. CASE Begin({j} \X Signs, Types, sign)
    <3>1. PICK s \in Signs : TRUE
      BY TtyAssumption
    <3>2. <<j, s>> \in {j} \X Signs
      OBVIOUS
    <3>3. {j} \X Signs \in SUBSET Tasks /\ \A k \in {j} \X Signs : k[1] = j
      BY DEF Tasks
    <3>4. Types \in SUBSET Types /\ Types # {}
      BY TtyAssumption
    <3> QED
      BY <2>1, <3>2, <3>3, <3>4
  <2>2. CASE \E s \in Signs, t \in Types : Begin({<<j, s>>}, {t}, sign)
    <3>1. PICK s \in Signs, t \in Types : Begin({<<j, s>>}, {t}, sign)
      BY <2>2
    <3>2. {<<j, s>>} \in SUBSET Tasks /\ {t} \in SUBSET Types
      BY <1>1
    <3> QED
      BY <3>1, <3>2
  <2> QED
    BY <2>1, <2>2 DEF CreateTTYHoroscopes
<1>3. /\ job' = [job EXCEPT ![j] = "running"] /\ job[j] = "new"
      /\ UNCHANGED <<day, writes, documents, failures>>
  BY DEF CreateTTYHoroscopes
<1>4. Begun(ks, sign)
  <2>1. day' = day /\ \A k \in Tasks : sign[k] = sign[k] \/ sign[k] = "done"
    BY <1>3
  <2> QED
    BY <1>1, <1>2, <2>1, BeginKeeps
<1>5. TypeOK'
  <2>1. reads' \subseteq [task : Tasks, type : Types, text : Texts]
    BY <1>4, PossibleType DEF Sent, Begun
  <2>2. job' \in [Jobs -> {"new", "running", "ended"}]
    BY <1>3 DEF IInv, TypeOK
  <2> QED
    BY <1>3, <1>4, <2>1, <2>2 DEF IInv, TypeOK, States, Begun
<1>6. InHand'
  <2>1. ASSUME NEW k \in Tasks
        PROVE  /\ sign'[k] = "idle" => k \notin Asking' /\ k \notin Storing'
               /\ sign'[k] = "reading" => k \in Asking'
               /\ sign'[k] = "writing" => k \in Storing'
               /\ sign'[k] = "done" => documents'[k[2]] # NoDocument
    <3>1. k \in Storing' <=> k \in Storing
      BY <1>3 DEF Storing
    <3>2. sign'[k] # "reading" => sign'[k] = sign[k]
      BY <1>4 DEF Begun
    <3>3. /\ sign[k] = "idle" => k \notin Storing
          /\ sign[k] = "writing" => k \in Storing
          /\ sign[k] = "done" => documents[k[2]] # NoDocument
      BY DEF IInv, InHand, TasksInHand, JobsInHand
    <3>4. /\ sign'[k] = "idle" => k \notin Asking'
          /\ sign'[k] = "reading" => k \in Asking'
      BY <1>4 DEF Begun
    <3>5. documents' = documents
      BY <1>3
    <3> QED
      BY <3>1, <3>2, <3>3, <3>4, <3>5
  <2>2. ASSUME NEW i \in Jobs
        PROVE  /\ job'[i] = "new" => \A s \in Signs : sign'[<<i, s>>] = "idle"
               /\ job'[i] = "running" =>
                    \E s \in Signs : sign'[<<i, s>>] \in {"reading", "writing", "stuck"}
               /\ job'[i] = "ended" => \A s \in Signs : documents'[s] # NoDocument
    <3>1. CASE i = j
      <4>1. job'[i] = "running"
        BY <3>1, <1>3 DEF IInv, TypeOK
      <4>2. PICK k \in ks : TRUE
        BY <1>2
      <4>3. k \in Tasks /\ k[1] = i /\ sign'[k] = "reading"
        BY <3>1, <4>2, <1>2, <1>4 DEF Begun
      <4>4. k[2] \in Signs /\ k = <<i, k[2]>>
        BY <4>3 DEF Tasks
      <4> QED
        BY <4>1, <4>3, <4>4
    <3>2. CASE i # j
      <4>1. job'[i] = job[i]
        BY <3>2, <1>3 DEF IInv, TypeOK
      <4>2. \A s \in Signs : sign'[<<i, s>>] = sign[<<i, s>>]
        <5> SUFFICES ASSUME NEW s \in Signs PROVE sign'[<<i, s>>] = sign[<<i, s>>]
          OBVIOUS
        <5>1. <<i, s>> \in Tasks /\ <<i, s>> \notin ks
          BY <3>2, <1>2 DEF Tasks
        <5> QED
          BY <5>1, <1>4 DEF Begun
      <4> QED
        BY <4>1, <4>2, <1>3 DEF IInv, InHand, TasksInHand, JobsInHand
    <3> QED
      BY <3>1, <3>2
  <2> QED
    BY <2>1, <2>2 DEF InHand, TasksInHand, JobsInHand
<1>7. Made'
  BY <1>3 DEF IInv, Made, OwnDocument, Own
<1> QED
  BY <1>4, <1>5, <1>6, <1>7 DEF IInv, Begun

(* Steps that leave the dictionary's owner alone *)

(* A sign's next state keeps its job in hand.                              *)
LEMMA JobsFrame ==
  ASSUME IInv, NEW k \in Tasks, sign[k] # "idle", NEW v \in {"reading", "writing", "stuck"},
         sign' = [sign EXCEPT ![k] = v], job' = job, documents' = documents
  PROVE  JobsInHand'
<1> SUFFICES ASSUME NEW j \in Jobs
             PROVE  /\ job[j] = "new" => \A s \in Signs : sign'[<<j, s>>] = "idle"
                    /\ job[j] = "running" =>
                         \E s \in Signs : sign'[<<j, s>>] \in {"reading", "writing", "stuck"}
                    /\ job[j] = "ended" => \A s \in Signs : documents[s] # NoDocument
  BY DEF JobsInHand
<1>1. \A s \in Signs : <<j, s>> \in Tasks
                       /\ sign'[<<j, s>>] = IF <<j, s>> = k THEN v ELSE sign[<<j, s>>]
  BY DEF IInv, TypeOK, Tasks
<1>2. /\ job[j] = "new" => \A s \in Signs : sign[<<j, s>>] = "idle"
      /\ job[j] = "running" =>
           \E s \in Signs : sign[<<j, s>>] \in {"reading", "writing", "stuck"}
      /\ job[j] = "ended" => \A s \in Signs : documents[s] # NoDocument
  BY DEF IInv, InHand, JobsInHand
<1>3. CASE job[j] = "running"
  <2>1. PICK s \in Signs : sign[<<j, s>>] \in {"reading", "writing", "stuck"}
    BY <1>2, <1>3
  <2>2. sign'[<<j, s>>] \in {"reading", "writing", "stuck"}
    BY <2>1, <1>1
  <2> QED
    BY <2>2, <1>3
<1>4. CASE job[j] # "running"
  BY <1>1, <1>2, <1>4
<1> QED
  BY <1>3, <1>4

LEMMA NextDayKeeps ==
  ASSUME IInv, NextDay
  PROVE  IInv'
<1>1. /\ day \in Days /\ day' \in Days /\ day <= day'
      /\ UNCHANGED <<job, sign, asked, reads, dictionary, writes, documents, failures, disturbed>>
  <2>1. day \in Days
    BY DEF IInv, TypeOK, Days
  <2> QED
    BY <2>1, DaysAreInts DEF NextDay
<1>2. \A t \in Types : DateFor(t, day) \in Int /\ DateFor(t, day') \in Int
                       /\ DateFor(t, day) <= DateFor(t, day')
  <2>1. day' <= day'
    BY <1>1, DaysAreInts
  <2> QED
    BY <1>1, <2>1, DatesMove
<1>3. TypeOK'
  BY <1>1 DEF IInv, TypeOK, Days
<1>4. Sent'
  <2> SUFFICES ASSUME NEW r \in reads PROVE r.text.date <= DateFor(r.type, day')
    BY <1>1 DEF IInv, Sent
  <2>1. r.text.date <= DateFor(r.type, day) /\ r.type \in Types /\ r.text.date \in Int
    BY DEF IInv, Sent, TypeOK, Texts
  <2> QED
    BY <2>1, <1>2
<1>5. InHand' /\ ReadsAlone'
  BY <1>1 DEF IInv, InHand, TasksInHand, JobsInHand, Asking, Storing, ReadsAlone, Reading
<1>6. Collected'
  <2> SUFFICES ASSUME NEW k \in Tasks, k \notin disturbed, sign[k] = "reading", NEW t \in asked[k],
                      OwnText(dictionary[t], k, t)
               PROVE  OwnText(dictionary[t], k, t)'
    BY <1>1 DEF IInv, Collected
  <2>1. t \in Types
    BY DEF IInv, TypeOK
  <2>2. CASE dictionary[t] = Blank
    BY <2>2, <1>1 DEF OwnText
  <2>3. CASE dictionary[t] # Blank
    <3>1. dictionary[t].date \in Int
      BY <2>3 DEF OwnText, Texts
    <3> QED
      BY <2>1, <2>3, <3>1, <1>1, <1>2 DEF OwnText
  <2> QED
    BY <2>2, <2>3
<1>7. Made'
  BY <1>1 DEF IInv, Made, OwnDocument, Own
<1> QED
  BY <1>3, <1>4, <1>5, <1>6, <1>7 DEF IInv

LEMMA ReadRejectedKeeps ==
  ASSUME IInv, NEW r \in reads, ReadRejected(r)
  PROVE  IInv'
<1>1. /\ reads' = reads \ {r} /\ sign' = [sign EXCEPT ![r.task] = "stuck"] /\ failures' = failures + 1
      /\ UNCHANGED <<day, job, asked, dictionary, writes, documents, disturbed>>
  BY DEF ReadRejected, Failure
<1>2. r.task \in Tasks /\ sign[r.task] # "idle"
  BY DEF IInv, TypeOK, InHand, TasksInHand, Asking
<1>3. \A k \in Tasks : sign'[k] = IF k = r.task THEN "stuck" ELSE sign[k]
  BY <1>1 DEF IInv, TypeOK
<1>4. TypeOK'
  <2>1. sign' \in [Tasks -> {"idle", "reading", "writing", "done", "stuck"}]
    BY <1>1 DEF IInv, TypeOK
  <2> QED
    BY <1>1, <2>1 DEF IInv, TypeOK
<1>5. Sent'
  BY <1>1 DEF IInv, Sent
<1>6. TasksInHand'
  <2> SUFFICES ASSUME NEW k \in Tasks
               PROVE  /\ sign'[k] = "idle" => k \notin Asking' /\ k \notin Storing'
                      /\ sign'[k] = "reading" => k \in Asking'
                      /\ sign'[k] = "writing" => k \in Storing'
                      /\ sign'[k] = "done" => documents'[k[2]] # NoDocument
    BY DEF TasksInHand
  <2>1. CASE k = r.task
    BY <2>1, <1>3
  <2>2. CASE k # r.task
    <3>1. (k \in Asking' <=> k \in Asking) /\ (k \in Storing' <=> k \in Storing)
      BY <2>2, <1>1 DEF Asking, Storing
    <3> QED
      BY <2>2, <3>1, <1>1, <1>3 DEF IInv, InHand, TasksInHand
  <2> QED
    BY <2>1, <2>2
<1>7. JobsInHand'
  BY <1>1, <1>2, JobsFrame
<1>8. ReadsAlone'
  <2>1. Reading' \subseteq Reading
    BY <1>1, <1>3 DEF Reading
  <2> QED
    BY <2>1, <1>1 DEF IInv, ReadsAlone
<1>9. Collected'
  <2> SUFFICES ASSUME NEW k \in Tasks, k \notin disturbed, sign'[k] = "reading", NEW t \in asked[k]
               PROVE  \/ \E x \in reads' : x.task = k /\ x.type = t
                      \/ OwnText(dictionary[t], k, t)
    BY <1>1 DEF Collected, OwnText
  <2>1. k # r.task /\ sign[k] = "reading"
    BY <1>3
  <2> QED
    BY <2>1, <1>1 DEF IInv, Collected
<1>10. Made'
  BY <1>1 DEF IInv, Made, OwnDocument, Own
<1> QED
  BY <1>4, <1>5, <1>6, <1>7, <1>8, <1>9, <1>10 DEF IInv, InHand

LEMMA DocumentRejectedKeeps ==
  ASSUME IInv, NEW w \in writes, DocumentRejected(w)
  PROVE  IInv'
<1>1. /\ writes' = writes \ {w} /\ sign' = [sign EXCEPT ![w.task] = "stuck"] /\ failures' = failures + 1
      /\ UNCHANGED <<day, job, asked, reads, dictionary, documents, disturbed>>
  BY DEF DocumentRejected, Failure
<1>2. w.task \in Tasks /\ sign[w.task] # "idle"
  BY DEF IInv, TypeOK, Documents, InHand, TasksInHand, Storing
<1>3. \A k \in Tasks : sign'[k] = IF k = w.task THEN "stuck" ELSE sign[k]
  BY <1>1 DEF IInv, TypeOK
<1>4. TypeOK'
  <2>1. sign' \in [Tasks -> {"idle", "reading", "writing", "done", "stuck"}]
    BY <1>1 DEF IInv, TypeOK
  <2> QED
    BY <1>1, <2>1 DEF IInv, TypeOK
<1>5. Sent'
  BY <1>1 DEF IInv, Sent
<1>6. TasksInHand'
  <2> SUFFICES ASSUME NEW k \in Tasks
               PROVE  /\ sign'[k] = "idle" => k \notin Asking' /\ k \notin Storing'
                      /\ sign'[k] = "reading" => k \in Asking'
                      /\ sign'[k] = "writing" => k \in Storing'
                      /\ sign'[k] = "done" => documents'[k[2]] # NoDocument
    BY DEF TasksInHand
  <2>1. CASE k = w.task
    BY <2>1, <1>3
  <2>2. CASE k # w.task
    <3>1. (k \in Asking' <=> k \in Asking) /\ (k \in Storing' <=> k \in Storing)
      BY <2>2, <1>1 DEF Asking, Storing
    <3> QED
      BY <2>2, <3>1, <1>1, <1>3 DEF IInv, InHand, TasksInHand
  <2> QED
    BY <2>1, <2>2
<1>7. JobsInHand'
  BY <1>1, <1>2, JobsFrame
<1>8. ReadsAlone'
  <2>1. Reading' \subseteq Reading
    BY <1>1, <1>3 DEF Reading
  <2> QED
    BY <2>1, <1>1 DEF IInv, ReadsAlone
<1>9. Collected'
  <2> SUFFICES ASSUME NEW k \in Tasks, k \notin disturbed, sign'[k] = "reading", NEW t \in asked[k]
               PROVE  \/ \E x \in reads : x.task = k /\ x.type = t
                      \/ OwnText(dictionary[t], k, t)
    BY <1>1 DEF Collected, OwnText
  <2>1. sign[k] = "reading"
    BY <1>3
  <2> QED
    BY <2>1 DEF IInv, Collected
<1>10. Made'
  BY <1>1 DEF IInv, Made, OwnDocument, Own
<1> QED
  BY <1>4, <1>5, <1>6, <1>7, <1>8, <1>9, <1>10 DEF IInv, InHand

-------------------------------------------------------------------------------
(* A read is answered *)

(* The answer is put into the dictionary under the read's type; whoever    *)
(* reads undisturbed is the sign it was read for.                          *)
LEMMA AnswerIsOwn ==
  ASSUME IInv, NEW r \in reads, Answer(r)
  PROVE  /\ r.task \in Tasks /\ r.type \in Types /\ sign[r.task] # "idle"
         /\ \A k \in Reading \ disturbed : k = r.task
         /\ dictionary' \in [Types -> Texts \cup {Blank, Undefined}]
         /\ OwnText(dictionary'[r.type], r.task, r.type)
         /\ \A t \in Types \ {r.type} : dictionary'[t] = dictionary[t]
         /\ failures' \in Nat
<1>1. PICK x \in {r.text, Blank} : dictionary' = [dictionary EXCEPT ![r.type] = x]
  BY DEF Answer
<1>2. r \in PossibleReads /\ r.text.date <= DateFor(r.type, day)
  BY DEF IInv, Sent
<1>3. r.task \in Tasks /\ r.type \in Types /\ r.text \in Texts /\ r.text.sign = r.task[2]
  BY <1>2, PossibleType
<1>4. OwnText(x, r.task, r.type) /\ x \in Texts \cup {Blank}
  BY <1>2, <1>3 DEF OwnText
<1>5. r.task \in Reading /\ sign[r.task] # "idle"
  BY <1>3 DEF Reading, IInv, InHand, TasksInHand, Asking
<1>6. \A k \in Reading \ disturbed : k = r.task
  BY <1>5 DEF IInv, ReadsAlone
<1>7. failures' \in Nat
  BY DEF Answer, Failure, IInv, TypeOK
<1>8. /\ dictionary' \in [Types -> Texts \cup {Blank, Undefined}]
      /\ dictionary'[r.type] = x
      /\ \A t \in Types \ {r.type} : dictionary'[t] = dictionary[t]
  BY <1>1, <1>3, <1>4 DEF IInv, TypeOK
<1> QED
  BY <1>3, <1>4, <1>5, <1>6, <1>7, <1>8

(* An answer after which the sign still reads.                             *)
LEMMA ReadOnKeeps ==
  ASSUME IInv, NEW r \in reads, Answer(r),
         NEW more \in SUBSET Types,
         reads' = (reads \ {r}) \cup {Read(r.task, t) : t \in more},
         asked' = [asked EXCEPT ![r.task] = @ \cup more],
         sign[r.task] = "reading" => r.task \in Asking',
         UNCHANGED <<sign, writes, day, job, documents, disturbed>>
  PROVE  IInv'
<1> DEFINE k == r.task
           new == {Read(k, t) : t \in more}
<1>1. /\ k \in Tasks /\ r.type \in Types /\ sign[k] # "idle"
      /\ \A l \in Reading \ disturbed : l = k
      /\ dictionary' \in [Types -> Texts \cup {Blank, Undefined}]
      /\ OwnText(dictionary'[r.type], k, r.type)
      /\ \A t \in Types \ {r.type} : dictionary'[t] = dictionary[t]
      /\ failures' \in Nat
  BY AnswerIsOwn
<1>2. \A t \in more : Read(k, t) \in PossibleReads /\ Read(k, t).task = k
        /\ Read(k, t).type = t /\ Read(k, t).text.date = DateFor(t, day) /\ DateFor(t, day) \in Int
  <2>1. day \in Days /\ day <= day
    BY DaysAreInts DEF IInv, TypeOK, Days
  <2> QED
    BY <1>1, <2>1, ReadType, DatesMove
<1>3. \A x \in new : x \in PossibleReads /\ x.task = k /\ x.text.date <= DateFor(x.type, day)
  BY <1>2
<1>4. \A t \in more : \E x \in reads' : x.task = k /\ x.type = t
  BY <1>2
<1>5. reads' = (reads \ {r}) \cup new
  OBVIOUS
<1> HIDE DEF new
<1>6. Sent'
  BY <1>3, <1>5 DEF IInv, Sent
<1>7. TypeOK'
  <2>1. reads' \subseteq [task : Tasks, type : Types, text : Texts]
    BY <1>6, PossibleType DEF Sent
  <2>2. asked' \in [Tasks -> SUBSET Types]
    BY <1>1 DEF IInv, TypeOK
  <2> QED
    BY <1>1, <2>1, <2>2 DEF IInv, TypeOK
<1>8. \A l \in Tasks \ {k} : l \in Asking' <=> l \in Asking
  BY <1>3, <1>5 DEF Asking
<1>9. InHand'
  <2>1. Storing' = Storing
    BY DEF Storing
  <2>2. TasksInHand'
    <3> SUFFICES ASSUME NEW l \in Tasks
                 PROVE  /\ sign[l] = "idle" => l \notin Asking' /\ l \notin Storing
                        /\ sign[l] = "reading" => l \in Asking'
                        /\ sign[l] = "writing" => l \in Storing
                        /\ sign[l] = "done" => documents[l[2]] # NoDocument
      BY <2>1 DEF TasksInHand
    <3>1. CASE l = k
      BY <3>1, <1>1 DEF IInv, InHand, TasksInHand
    <3>2. CASE l # k
      BY <3>2, <1>8 DEF IInv, InHand, TasksInHand
    <3> QED
      BY <3>1, <3>2
  <2>3. JobsInHand'
    BY DEF IInv, InHand, JobsInHand
  <2> QED
    BY <2>2, <2>3 DEF InHand
<1>10. ReadsAlone'
  <2>1. Reading' \subseteq Reading
    <3>1. k \in Reading
      BY <1>1 DEF Reading
    <3> QED
      BY <3>1, <1>3, <1>5 DEF Reading
  <2> QED
    BY <2>1 DEF IInv, ReadsAlone
<1>11. Collected'
  <2> SUFFICES ASSUME NEW l \in Tasks, l \notin disturbed, sign[l] = "reading", NEW t \in asked'[l]
               PROVE  \/ \E x \in reads' : x.task = l /\ x.type = t
                      \/ OwnText(dictionary'[t], l, t)
    BY DEF Collected, OwnText
  <2>1. l = k
    BY <1>1 DEF Reading
  <2>2. CASE t = r.type
    BY <2>1, <2>2, <1>1
  <2>3. CASE t \in more
    BY <2>1, <2>3, <1>4
  <2>4. CASE t \in asked[k] /\ t # r.type
    <3>1. CASE \E x \in reads : x.task = k /\ x.type = t
      BY <2>1, <2>4, <3>1, <1>5
    <3>2. CASE OwnText(dictionary[t], k, t)
      <4>1. t \in Types
        BY <2>4, <1>1 DEF IInv, TypeOK
      <4> QED
        BY <4>1, <2>1, <2>4, <3>2, <1>1
    <3> QED
      BY <2>1, <2>4, <3>1, <3>2 DEF IInv, Collected
  <2>5. asked'[k] = asked[k] \cup more
    BY <1>1 DEF IInv, TypeOK
  <2> QED
    BY <2>1, <2>2, <2>3, <2>4, <2>5
<1>12. Made'
  BY DEF IInv, Made, OwnDocument, Own
<1> QED
  BY <1>6, <1>7, <1>9, <1>10, <1>11, <1>12 DEF IInv

(* The last answer of a sign: its document is made.                        *)
LEMMA LastAnswerKeeps ==
  ASSUME IInv, NEW r \in reads, Answer(r), sign[r.task] = "reading", LastOf(r.task),
         reads' = reads \ {r}, sign' = [sign EXCEPT ![r.task] = "writing"],
         writes' = writes \cup {[task |-> r.task, entries |-> DocumentFrom(dictionary'),
                                 alone |-> r.task \notin disturbed]},
         UNCHANGED <<asked, day, job, documents, disturbed>>
  PROVE  IInv'
<1> DEFINE k == r.task
           made == [task |-> k, entries |-> DocumentFrom(dictionary'), alone |-> k \notin disturbed]
<1>1. /\ k \in Tasks /\ r.type \in Types /\ sign[k] # "idle"
      /\ \A l \in Reading \ disturbed : l = k
      /\ dictionary' \in [Types -> Texts \cup {Blank, Undefined}]
      /\ OwnText(dictionary'[r.type], k, r.type)
      /\ \A t \in Types \ {r.type} : dictionary'[t] = dictionary[t]
      /\ failures' \in Nat
  BY AnswerIsOwn
<1>2. asked[k] = Types /\ \A x \in reads : x.task = k => x = r
  BY LastIsOnly DEF LastOf, IInv
<1>3. \A l \in Tasks : sign'[l] = IF l = k THEN "writing" ELSE sign[l]
  BY <1>1 DEF IInv, TypeOK
<1>4. \A t \in Types : DateFor(t, day) \in Int
  <2>1. day \in Days /\ day <= day
    BY DaysAreInts DEF IInv, TypeOK, Days
  <2> QED
    BY <2>1, DatesMove
<1>5. \A t \in Types :
        DocumentFrom(dictionary')[t] = IF dictionary'[t] = Undefined THEN Undefined
                                       ELSE [date |-> DateFor(t, day), text |-> dictionary'[t]]
  BY DEF DocumentFrom
<1>6. made \in Documents
  <2>1. DocumentFrom(dictionary') \in [Types -> Entries \cup {Undefined}]
    <3>1. ASSUME NEW t \in Types PROVE DocumentFrom(dictionary')[t] \in Entries \cup {Undefined}
      <4>1. CASE dictionary'[t] = Undefined
        BY <4>1, <1>5
      <4>2. CASE dictionary'[t] # Undefined
        <5>1. dictionary'[t] \in Texts \cup {Blank} /\ DateFor(t, day) \in Int
          BY <4>2, <1>1, <1>4
        <5>2. DocumentFrom(dictionary')[t] = [date |-> DateFor(t, day), text |-> dictionary'[t]]
          BY <4>2, <1>5
        <5> QED
          BY <5>1, <5>2 DEF Entries
      <4> QED
        BY <4>1, <4>2
    <3> QED
      BY <3>1 DEF DocumentFrom
  <2> QED
    BY <1>1, <2>1 DEF Documents
<1>7. OwnDocument(made)
  <2> SUFFICES ASSUME k \notin disturbed, NEW t \in Types
               PROVE  /\ DocumentFrom(dictionary')[t] # Undefined
                      /\ \/ DocumentFrom(dictionary')[t].text = Blank
                         \/ /\ DocumentFrom(dictionary')[t].text.sign = k[2]
                            /\ DocumentFrom(dictionary')[t].text.date
                                 <= DocumentFrom(dictionary')[t].date
    BY DEF OwnDocument, Own
  <2>1. OwnText(dictionary'[t], k, t)
    <3>1. CASE t = r.type
      BY <3>1, <1>1
    <3>2. CASE t # r.type
      <4>1. OwnText(dictionary[t], k, t)
        BY <3>2, <1>1, <1>2 DEF IInv, Collected
      <4> QED
        BY <4>1, <3>2, <1>1
    <3> QED
      BY <3>1, <3>2
  <2>2. dictionary'[t] # Undefined
    BY <2>1, TtyAssumption DEF OwnText
  <2>3. DocumentFrom(dictionary')[t] = [date |-> DateFor(t, day), text |-> dictionary'[t]]
    BY <2>2, <1>5
  <2>4. DocumentFrom(dictionary')[t] \in Entries
    BY <2>1, <2>3, <1>4 DEF Entries, OwnText
  <2>5. DocumentFrom(dictionary')[t] # Undefined
    BY <2>4, TtyAssumption
  <2> QED
    BY <2>1, <2>3, <2>5 DEF OwnText
<1>8. writes' = writes \cup {made}
  OBVIOUS
<1>9. made.task = k
  OBVIOUS
<1> HIDE DEF made
<1>10. TypeOK'
  <2>1. sign' \in [Tasks -> {"idle", "reading", "writing", "done", "stuck"}]
    BY DEF IInv, TypeOK
  <2> QED
    BY <1>1, <1>6, <1>8, <2>1 DEF IInv, TypeOK
<1>11. Sent'
  BY DEF IInv, Sent
<1>12. TasksInHand'
  <2> SUFFICES ASSUME NEW l \in Tasks
               PROVE  /\ sign'[l] = "idle" => l \notin Asking' /\ l \notin Storing'
                      /\ sign'[l] = "reading" => l \in Asking'
                      /\ sign'[l] = "writing" => l \in Storing'
                      /\ sign'[l] = "done" => documents[l[2]] # NoDocument
    BY DEF TasksInHand
  <2>1. CASE l = k
    BY <2>1, <1>3, <1>8, <1>9 DEF Storing
  <2>2. CASE l # k
    <3>1. (l \in Asking' <=> l \in Asking) /\ (l \in Storing' <=> l \in Storing)
      BY <2>2, <1>8, <1>9 DEF Asking, Storing
    <3> QED
      BY <2>2, <3>1, <1>3 DEF IInv, InHand, TasksInHand
  <2> QED
    BY <2>1, <2>2
<1>13. JobsInHand'
  BY <1>1, JobsFrame
<1>14. ReadsAlone'
  <2>1. Reading' \subseteq Reading
    BY <1>3 DEF Reading
  <2> QED
    BY <2>1 DEF IInv, ReadsAlone
<1>15. Collected'
  <2>1. ASSUME NEW l \in Tasks, l \notin disturbed, sign'[l] = "reading"
        PROVE  FALSE
    BY <2>1, <1>1, <1>3 DEF Reading
  <2> QED
    BY <2>1 DEF Collected
<1>16. Made'
  BY <1>7, <1>8 DEF IInv, Made, OwnDocument, Own
<1> QED
  BY <1>10, <1>11, <1>12, <1>13, <1>14, <1>15, <1>16 DEF IInv, InHand

LEMMA GetDocumentDataKeeps ==
  ASSUME IInv, NEW r \in reads, GetDocumentData(r)
  PROVE  IInv'
<1> DEFINE k == r.task
<1>1. Answer(r) /\ UNCHANGED <<day, job, documents, disturbed>>
  BY DEF GetDocumentData
<1>2. k \in Tasks /\ asked \in [Tasks -> SUBSET Types]
  BY <1>1, AnswerIsOwn DEF IInv, TypeOK
<1>3. CASE /\ sign[k] = "reading" /\ LastOf(k)
           /\ reads' = reads \ {r}
           /\ sign' = [sign EXCEPT ![k] = "writing"]
           /\ writes' = writes \cup {[task |-> k, entries |-> DocumentFrom(dictionary'),
                                      alone |-> k \notin disturbed]}
           /\ UNCHANGED asked
  BY <1>1, <1>3, LastAnswerKeeps
<1>4. CASE \E t \in Types \ asked[k] :
             /\ asked' = [asked EXCEPT ![k] = @ \cup {t}]
             /\ reads' = (reads \ {r}) \cup {Read(k, t)}
             /\ UNCHANGED <<sign, writes>>
  <2>1. PICK t \in Types \ asked[k] :
             /\ asked' = [asked EXCEPT ![k] = @ \cup {t}]
             /\ reads' = (reads \ {r}) \cup {Read(k, t)}
             /\ UNCHANGED <<sign, writes>>
    BY <1>4
  <2>2. k \in Asking'
    BY <2>1 DEF Asking, Read
  <2>3. reads' = (reads \ {r}) \cup {Read(k, u) : u \in {t}} /\ {t} \in SUBSET Types
    BY <2>1
  <2> QED
    BY <1>1, <2>1, <2>2, <2>3, ReadOnKeeps
<1>5. CASE /\ asked[k] = Types /\ ~(sign[k] = "reading" /\ LastOf(k))
           /\ reads' = reads \ {r}
           /\ UNCHANGED <<asked, sign, writes>>
  <2>1. sign[k] = "reading" => k \in Asking'
    <3>1. sign[k] = "reading" => \E x \in reads : x.task = k /\ x # r
      BY <1>5, LastIsOnly DEF LastOf, IInv
    <3> QED
      BY <3>1, <1>5 DEF Asking
  <2>2. {Read(k, u) : u \in {}} = {}
    OBVIOUS
  <2>3. asked' = [asked EXCEPT ![k] = @ \cup {}]
    BY <1>2, <1>5
  <2>4. reads' = (reads \ {r}) \cup {Read(k, u) : u \in {}} /\ {} \in SUBSET Types
    BY <1>5, <2>2
  <2> QED
    BY <1>1, <1>5, <2>1, <2>3, <2>4, ReadOnKeeps
<1> QED
  BY <1>3, <1>4, <1>5 DEF GetDocumentData

-------------------------------------------------------------------------------
(* A document is written *)

(* What all outcomes of the callback have in common: the document of the   *)
(* sign is there, other signs are as they were.                            *)
LEMMA DocumentWrittenKeeps ==
  ASSUME IInv, NEW w \in writes, DocumentWritten(w)
  PROVE  IInv'
<1> DEFINE k == w.task
           j == k[1]
           states == [sign EXCEPT ![k] = "done"]
<1>1. /\ writes' = writes \ {w} /\ documents' = [documents EXCEPT ![k[2]] = w]
      /\ SignCallback(j, states) /\ UNCHANGED <<day, failures>>
  BY DEF DocumentWritten
<1>2. k \in Tasks /\ j \in Jobs /\ k[2] \in Signs /\ k = <<j, k[2]>> /\ w \in Documents
  BY DEF IInv, TypeOK, Documents, Tasks
<1>3. /\ states \in [Tasks -> States]
      /\ \A l \in Tasks : states[l] = IF l = k THEN "done" ELSE sign[l]
  BY <1>2 DEF IInv, TypeOK, States
<1>4. /\ documents' \in [Signs -> Documents \cup {NoDocument}]
      /\ documents'[k[2]] = w /\ w # NoDocument
      /\ \A s \in Signs \ {k[2]} : documents'[s] = documents[s]
  BY <1>1, <1>2, TtyAssumption DEF IInv, TypeOK
<1>5. \A l \in Tasks \ {k} : l \in Storing' <=> l \in Storing
  BY <1>1 DEF Storing
<1>6. sign[k] # "idle"
  BY <1>2 DEF IInv, InHand, TasksInHand, Storing
<1>7. \A s \in Signs : documents[s] # NoDocument => documents'[s] # NoDocument
  BY <1>4
<1>8. Made'
  <2>1. \A x \in writes' : OwnDocument(x)
    BY <1>1 DEF IInv, Made
  <2>2. ASSUME NEW s \in Signs, documents'[s] # NoDocument
        PROVE  OwnDocument(documents'[s]) /\ documents'[s].task[2] = s
    <3>1. CASE s = k[2]
      BY <3>1, <1>4 DEF IInv, Made
    <3>2. CASE s # k[2]
      BY <2>2, <3>2, <1>4 DEF IInv, Made
    <3> QED
      BY <3>1, <3>2
  <2> QED
    BY <2>1, <2>2 DEF Made, OwnDocument, Own
<1> HIDE DEF states

(* The sign is done and no other begins.                                   *)
<1>9. ASSUME sign' = states, UNCHANGED <<asked, reads, dictionary, disturbed>>,
             job' \in [Jobs -> {"new", "running", "ended"}],
             \A i \in Jobs \ {j} : job'[i] = job[i],
             \/ /\ job'[j] = "ended"
                /\ \A s \in Signs : states[<<j, s>>] = "done"
             \/ /\ job'[j] = job[j]
                /\ \E s \in Signs : states[<<j, s>>] \in {"reading", "writing", "stuck"}
      PROVE  IInv'
  <2>1. TypeOK'
    BY <1>1, <1>3, <1>4, <1>9 DEF IInv, TypeOK, States
  <2>2. Sent'
    BY <1>1, <1>9 DEF IInv, Sent
  <2>3. ASSUME NEW l \in Tasks
        PROVE  /\ sign'[l] = "idle" => l \notin Asking' /\ l \notin Storing'
               /\ sign'[l] = "reading" => l \in Asking'
               /\ sign'[l] = "writing" => l \in Storing'
               /\ sign'[l] = "done" => documents'[l[2]] # NoDocument
    <3>1. Asking' = Asking
      BY <1>9 DEF Asking
    <3>2. CASE l = k
      BY <3>2, <1>3, <1>4, <1>9
    <3>3. CASE l # k
      <4>1. sign'[l] = sign[l] /\ l[2] \in Signs
        BY <3>3, <1>3, <1>9 DEF Tasks
      <4> QED
        BY <3>1, <3>3, <4>1, <1>5, <1>7 DEF IInv, InHand, TasksInHand
    <3> QED
      BY <3>2, <3>3
  <2>4. ASSUME NEW i \in Jobs
        PROVE  /\ job'[i] = "new" => \A s \in Signs : sign'[<<i, s>>] = "idle"
               /\ job'[i] = "running" =>
                    \E s \in Signs : sign'[<<i, s>>] \in {"reading", "writing", "stuck"}
               /\ job'[i] = "ended" => \A s \in Signs : documents'[s] # NoDocument
    <3>1. /\ job[i] = "new" => \A s \in Signs : sign[<<i, s>>] = "idle"
          /\ job[i] = "running" =>
               \E s \in Signs : sign[<<i, s>>] \in {"reading", "writing", "stuck"}
          /\ job[i] = "ended" => \A s \in Signs : documents'[s] # NoDocument
      BY <1>7 DEF IInv, InHand, JobsInHand
    <3>2. CASE i # j
      <4>1. \A s \in Signs : sign'[<<i, s>>] = sign[<<i, s>>]
        <5> SUFFICES ASSUME NEW s \in Signs PROVE sign'[<<i, s>>] = sign[<<i, s>>]
          OBVIOUS
        <5>1. <<i, s>> \in Tasks /\ <<i, s>> # k
          BY <3>2 DEF Tasks
        <5> QED
          BY <5>1, <1>3, <1>9
      <4>2. job'[i] = job[i]
        BY <3>2, <1>9
      <4> QED
        BY <3>1, <4>1, <4>2
    <3>3. CASE i = j /\ job'[j] = "ended" /\ \A s \in Signs : states[<<j, s>>] = "done"
      <4>1. \A s \in Signs : <<j, s>> \in Tasks /\ sign'[<<j, s>>] = "done"
        BY <3>3, <1>2, <1>9 DEF Tasks
      <4>2. \A s \in Signs : documents'[s] # NoDocument
        BY <2>3, <4>1
      <4> QED
        BY <3>3, <4>2
    <3>4. CASE /\ i = j /\ job'[j] = job[j]
               /\ \E s \in Signs : states[<<j, s>>] \in {"reading", "writing", "stuck"}
      <4>1. job[j] # "new"
        BY <3>1, <3>4, <1>2, <1>6
      <4> QED
        BY <3>1, <3>4, <4>1, <1>9
    <3> QED
      BY <3>2, <3>3, <3>4, <1>9
  <2>5. InHand'
    BY <2>3, <2>4 DEF InHand, TasksInHand, JobsInHand
  <2>6. ReadsAlone'
    <3>1. Reading' \subseteq Reading
      BY <1>3, <1>9 DEF Reading
    <3> QED
      BY <3>1, <1>9 DEF IInv, ReadsAlone
  <2>7. Collected'
    <3> SUFFICES ASSUME NEW l \in Tasks, l \notin disturbed, sign'[l] = "reading", NEW t \in asked[l]
                 PROVE  \/ \E x \in reads : x.task = l /\ x.type = t
                        \/ OwnText(dictionary[t], l, t)
      BY <1>1, <1>9 DEF Collected, OwnText
    <3>1. sign[l] = "reading"
      BY <1>3, <1>9
    <3> QED
      BY <3>1 DEF IInv, Collected
  <2> QED
    BY <2>1, <2>2, <2>5, <2>6, <2>7, <1>8 DEF IInv

(* The last sign ends the job.                                             *)
<1>10. CASE /\ \A s \in Signs : states[<<j, s>>] = "done"
            /\ job' = [job EXCEPT ![j] = "ended"]
            /\ sign' = states /\ UNCHANGED <<asked, reads, dictionary, disturbed>>
  <2>1. /\ job' \in [Jobs -> {"new", "running", "ended"}]
        /\ job'[j] = "ended" /\ \A i \in Jobs \ {j} : job'[i] = job[i]
    BY <1>10, <1>2 DEF IInv, TypeOK
  <2> QED
    BY <1>10, <2>1, <1>9

(* None is left that could begin.                                          *)
<1>11. CASE /\ UNCHANGED job
            /\ \A s \in Signs : states[<<j, s>>] # "idle"
            /\ \E s \in Signs : states[<<j, s>>] # "done"
            /\ sign' = states /\ UNCHANGED <<asked, reads, dictionary, disturbed>>
  <2>1. PICK s \in Signs : states[<<j, s>>] # "done"
    BY <1>11
  <2>2. <<j, s>> \in Tasks
    BY <1>2 DEF Tasks
  <2>3. states[<<j, s>>] \in {"reading", "writing", "stuck"}
    BY <1>3, <1>11, <2>1, <2>2 DEF States
  <2>4. job' \in [Jobs -> {"new", "running", "ended"}]
    BY <1>11 DEF IInv, TypeOK
  <2> QED
    BY <1>11, <2>3, <2>4, <1>9

(* The next sign begins.                                                   *)
<1>12. CASE /\ UNCHANGED job
            /\ \E s \in Signs, t \in Types :
                 states[<<j, s>>] = "idle" /\ Begin({<<j, s>>}, {t}, states)
  <2>1. PICK s \in Signs, t \in Types :
          states[<<j, s>>] = "idle" /\ Begin({<<j, s>>}, {t}, states)
    BY <1>12
  <2> DEFINE b == <<j, s>>
  <2>2. b \in Tasks /\ b # k
    BY <1>2, <1>3, <2>1 DEF Tasks
  <2>3. Begun({b}, states)
    <3>1. {b} \in SUBSET Tasks /\ {b} # {} /\ {t} \in SUBSET Types /\ {t} # {}
      BY <2>2
    <3>2. \A l \in Tasks : states[l] = sign[l] \/ states[l] = "done"
      BY <1>3
    <3> QED
      BY <1>1, <1>3, <2>1, <3>1, <3>2, BeginKeeps
  <2>4. \A l \in Tasks : sign'[l] = IF l = b THEN "reading" ELSE IF l = k THEN "done" ELSE sign[l]
    BY <1>3, <2>3 DEF Begun
  <2>5. TypeOK'
    <3>1. reads' \subseteq [task : Tasks, type : Types, text : Texts]
      BY <2>3, PossibleType DEF Sent, Begun
    <3>2. writes' \subseteq Documents /\ job' \in [Jobs -> {"new", "running", "ended"}]
      BY <1>1, <1>12 DEF IInv, TypeOK
    <3> QED
      BY <1>1, <1>4, <2>3, <3>1, <3>2 DEF IInv, TypeOK, States, Begun
  <2>6. TasksInHand'
    <3> SUFFICES ASSUME NEW l \in Tasks
                 PROVE  /\ sign'[l] = "idle" => l \notin Asking' /\ l \notin Storing'
                        /\ sign'[l] = "reading" => l \in Asking'
                        /\ sign'[l] = "writing" => l \in Storing'
                        /\ sign'[l] = "done" => documents'[l[2]] # NoDocument
      BY DEF TasksInHand
    <3>1. /\ sign'[l] = "idle" => l \notin Asking'
          /\ sign'[l] = "reading" => l \in Asking'
      BY <2>3 DEF Begun
    <3>2. CASE l = b
      BY <3>1, <3>2, <2>4
    <3>3. CASE l = k
      BY <3>3, <2>2, <2>4, <1>4
    <3>4. CASE l # b /\ l # k
      <4>1. sign'[l] = sign[l] /\ l[2] \in Signs
        BY <3>4, <2>4 DEF Tasks
      <4> QED
        BY <3>1, <3>4, <4>1, <1>5, <1>7 DEF IInv, InHand, TasksInHand
    <3> QED
      BY <3>2, <3>3, <3>4
  <2>7. JobsInHand'
    <3> SUFFICES ASSUME NEW i \in Jobs
                 PROVE  /\ job[i] = "new" => \A u \in Signs : sign'[<<i, u>>] = "idle"
                        /\ job[i] = "running" =>
                             \E u \in Signs : sign'[<<i, u>>] \in {"reading", "writing", "stuck"}
                        /\ job[i] = "ended" => \A u \in Signs : documents'[u] # NoDocument
      BY <1>12 DEF JobsInHand
    <3>1. /\ job[i] = "new" => \A u \in Signs : sign[<<i, u>>] = "idle"
          /\ job[i] = "running" =>
               \E u \in Signs : sign[<<i, u>>] \in {"reading", "writing", "stuck"}
          /\ job[i] = "ended" => \A u \in Signs : documents'[u] # NoDocument
      BY <1>7 DEF IInv, InHand, JobsInHand
    <3>2. CASE i = j
      <4>1. job[i] # "new"
        BY <3>1, <3>2, <1>2, <1>6
      <4>2. sign'[<<i, s>>] = "reading"
        BY <3>2, <2>2, <2>4
      <4> QED
        BY <3>1, <4>1, <4>2
    <3>3. CASE i # j
      <4>1. \A u \in Signs : sign'[<<i, u>>] = sign[<<i, u>>]
        <5> SUFFICES ASSUME NEW u \in Signs PROVE sign'[<<i, u>>] = sign[<<i, u>>]
          OBVIOUS
        <5>1. <<i, u>> \in Tasks /\ <<i, u>> # k /\ <<i, u>> # b
          BY <3>3 DEF Tasks
        <5> QED
          BY <5>1, <2>4
      <4> QED
        BY <3>1, <4>1
    <3> QED
      BY <3>2, <3>3
  <2> QED
    BY <2>3, <2>5, <2>6, <2>7, <1>8 DEF IInv, InHand, Begun
<1>13. \A s \in Signs : First(s, {q \in Signs : states[<<j, q>>] = "idle"})
                            => states[<<j, s>>] = "idle"
  BY DEF First
<1> QED
  BY <1>1, <1>10, <1>11, <1>12, <1>13 DEF SignCallback

-------------------------------------------------------------------------------
LEMMA StepKeeps == IInv /\ [Next]_vars => IInv'
<1> SUFFICES ASSUME IInv, [Next]_vars PROVE IInv'
  OBVIOUS
<1>1. CASE NextDay
  BY <1>1, NextDayKeeps
<1>2. CASE \E j \in Jobs : CreateTTYHoroscopes(j)
  BY <1>2, CreateKeeps
<1>3. CASE \E k \in Tasks : TaskStep(k)
  BY <1>3, GetDocumentDataKeeps, ReadRejectedKeeps, DocumentWrittenKeeps, DocumentRejectedKeeps
     DEF TaskStep
<1>4. CASE UNCHANGED vars
  <2> USE <1>4 DEF vars, IInv
  <2>1. TypeOK' /\ Sent'
    BY DEF TypeOK, Sent
  <2>2. InHand' /\ ReadsAlone'
    BY DEF InHand, TasksInHand, JobsInHand, Asking, Storing, ReadsAlone, Reading
  <2>3. Collected' /\ Made'
    BY DEF Collected, OwnText, Made, OwnDocument, Own
  <2> QED
    BY <2>1, <2>2, <2>3
<1> QED
  BY <1>1, <1>2, <1>3, <1>4 DEF Next

LEMMA Inductive == Spec => []IInv
BY InitIInv, StepKeeps, PTL DEF Spec

(* The variables keep their types.                                         *)
THEOREM TypeCorrect == Spec => []TypeOK
BY Inductive, PTL DEF IInv

(* However many jobs share the dictionary of ttycreator.js, a document     *)
(* made of readings that nothing overlapped has all types of its own sign, *)
(* dated no earlier than the texts.                                        *)
THEOREM OwnUndisturbed == Spec => []UndisturbedIsOwn
<1>1. IInv => UndisturbedIsOwn
  <2> SUFFICES ASSUME IInv, NEW s \in Signs, documents[s] # NoDocument, documents[s].alone,
                      NEW t \in Types
               PROVE  /\ Own(documents[s], t)
                      /\ documents[s].entries[t].text # Blank =>
                           documents[s].entries[t].text.date <= documents[s].entries[t].date
    BY DEF UndisturbedIsOwn
  <2> QED
    BY DEF IInv, Made, OwnDocument
<1> QED
  BY <1>1, Inductive, PTL

(* A job of ttycreator.js stops nowhere but at a rejected promise, and when *)
(* it ends it has written a document for every sign.                       *)
THEOREM StopsAtRejection == Spec => []JobInHand
<1>1. IInv => JobInHand
  <2> SUFFICES ASSUME IInv, NEW j \in Jobs
               PROVE  /\ job[j] = "running" =>
                           \/ \E r \in reads : r.task[1] = j
                           \/ \E w \in writes : w.task[1] = j
                           \/ \E s \in Signs : sign[<<j, s>>] = "stuck"
                      /\ job[j] = "ended" => \A s \in Signs : documents[s] # NoDocument
    BY DEF JobInHand
  <2>1. ASSUME job[j] = "running"
        PROVE  \/ \E r \in reads : r.task[1] = j
               \/ \E w \in writes : w.task[1] = j
               \/ \E s \in Signs : sign[<<j, s>>] = "stuck"
    <3>1. PICK s \in Signs : sign[<<j, s>>] \in {"reading", "writing", "stuck"}
      BY <2>1 DEF IInv, InHand, JobsInHand
    <3>2. <<j, s>> \in Tasks
      BY DEF Tasks
    <3> QED
      BY <3>1, <3>2 DEF IInv, InHand, TasksInHand, Asking, Storing
  <2> QED
    BY <2>1 DEF IInv, InHand, JobsInHand
<1> QED
  BY <1>1, Inductive, PTL

===============================================================================
