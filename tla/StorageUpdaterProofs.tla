------------------------- MODULE StorageUpdaterProofs -------------------------
(***************************************************************************)
(* StorageUpdater's invariants, for any signs, pages, cycles and days.     *)
(* That the damage of an odd page is local is not inductive by itself: the *)
(* misfiled row may still be on its way to the storage (Damage).           *)
(***************************************************************************)
EXTENDS StorageUpdater, FiniteSetTheorems, TLAPS

Days == FirstDay..LastDay

(* The damage done and the damage on its way.                              *)
Spoiled  == {r \in storage : Misfiled(r)}
Spoiling == {w \in writes : Misfiled(w.row)}

Finite == IsFiniteSet(storage) /\ IsFiniteSet(writes)
Damage == Cardinality(Spoiled) + Cardinality(Spoiling) <= odd

IInv == TypeOK /\ day \in Days /\ Finite /\ Damage

-----------------------------------------------------------------------------
(* Dates, texts and sets *)

LEMMA DaysAreInts ==
  /\ FirstDay \in Days
  /\ \A d \in Days : d \in Int /\ (d < LastDay => d + 1 \in Days)
<1>1. FirstDay \in Int /\ LastDay \in Int /\ FirstDay <= LastDay
  BY UpdaterAssumption
<1> QED
  BY <1>1 DEF Days

LEMMA TextType ==
  ASSUME NEW type \in ServerTypes, NEW sign \in Signs, NEW d \in Days
  PROVE  TextOf(type, sign, d) \in Texts
<1>1. d \in Int /\ Monday(d) \in Int
  BY DaysAreInts DEF Monday
<1>2. FirstOfMonth(d) \in Int
  BY UpdaterAssumption, CalendarAssumption DEF FirstOfMonth, Days
<1>3. DateFor(type, d) \in Int
  BY <1>1, <1>2 DEF DateFor, ServerTypes
<1> QED
  BY <1>3 DEF TextOf, Texts

LEMMA KindType == \A type \in ServerTypes : KindOf(type) \in {"days", "week", "month"}
BY DEF KindOf, ServerTypes

LEMMA PageType ==
  ASSUME NEW p \in Pages PROVE p[1] \in ServerTypes /\ p[2] \in Signs
BY UpdaterAssumption

LEMMA SpoiledFinite ==
  ASSUME Finite
  PROVE  /\ IsFiniteSet(Spoiled) /\ Cardinality(Spoiled) \in Nat
         /\ IsFiniteSet(Spoiling) /\ Cardinality(Spoiling) \in Nat
<1>1. Spoiled \in SUBSET storage /\ Spoiling \in SUBSET writes
  BY DEF Spoiled, Spoiling
<1>2. IsFiniteSet(Spoiled) /\ IsFiniteSet(Spoiling)
  BY <1>1, FS_Subset DEF Finite
<1> QED
  BY <1>2, FS_CardinalityType

(* A set with at most one member more than another.                        *)
LEMMA OneMore ==
  ASSUME NEW S, NEW T, NEW x, IsFiniteSet(S), T \subseteq S \cup {x}
  PROVE  IsFiniteSet(T) /\ Cardinality(T) \in Nat /\ Cardinality(T) <= Cardinality(S) + 1
<1>1. /\ IsFiniteSet(S \cup {x}) /\ Cardinality(S) \in Nat
      /\ Cardinality(S \cup {x}) <= Cardinality(S) + 1
  <2>1. Cardinality(S) \in Nat
    BY FS_CardinalityType
  <2>2. /\ IsFiniteSet(S \cup {x})
        /\ Cardinality(S \cup {x}) = IF x \in S THEN Cardinality(S) ELSE Cardinality(S) + 1
    BY FS_AddElement
  <2> QED
    BY <2>1, <2>2
<1>2. IsFiniteSet(T) /\ Cardinality(T) <= Cardinality(S \cup {x})
  BY <1>1, FS_Subset
<1>3. Cardinality(T) \in Nat /\ Cardinality(S \cup {x}) \in Nat
  BY <1>1, <1>2, FS_CardinalityType
<1> QED
  BY <1>1, <1>2, <1>3

LEMMA NoMore ==
  ASSUME NEW S, NEW T, IsFiniteSet(S), T \subseteq S
  PROVE  IsFiniteSet(T) /\ Cardinality(T) \in Nat /\ Cardinality(T) <= Cardinality(S)
<1>1. IsFiniteSet(T) /\ Cardinality(T) <= Cardinality(S)
  BY FS_Subset
<1> QED
  BY <1>1, FS_CardinalityType

-----------------------------------------------------------------------------
(* The invariant is inductive: cycles *)

LEMMA InitInvariant == ASSUME Init PROVE IInv
<1>1. storage = {} /\ writes = {} /\ odd = 0
  BY DEF Init
<1>2. Spoiled = {} /\ Spoiling = {} /\ Finite
  BY <1>1, FS_EmptySet DEF Spoiled, Spoiling, Finite
<1>3. Damage
  BY <1>1, <1>2, FS_EmptySet DEF Damage
<1>4. TypeOK /\ day \in Days
  BY DaysAreInts DEF Init, TypeOK, CyclesOK, ParserOK, RowsOK
<1> QED
  BY <1>2, <1>3, <1>4 DEF IInv

(* Pages and cycles go on; nothing is sent or stored.                      *)
LEMMA QuietStep ==
  ASSUME IInv, CyclesOK', day' \in Days, odd' \in Nat, odd <= odd',
         UNCHANGED <<writes, storage>>,
         ParserOK'
  PROVE  IInv'
<1>1. RowsOK' /\ Finite' /\ Spoiled' = Spoiled /\ Spoiling' = Spoiling
  BY DEF IInv, TypeOK, RowsOK, Finite, Spoiled, Spoiling
<1>2. Damage'
  <2>1. odd \in Nat /\ Cardinality(Spoiled) \in Nat /\ Cardinality(Spoiling) \in Nat
    BY SpoiledFinite DEF IInv, TypeOK
  <2> QED
    BY <1>1, <2>1 DEF IInv, Damage
<1> QED
  BY <1>1, <1>2, DaysAreInts DEF IInv, TypeOK

LEMMA BeginStep ==
  ASSUME IInv, NEW c \in Cycles, Boot(c) \/ MakeJobs(c) PROVE IInv'
<1>1. CyclesOK'
  <2>1. PICK order \in Orders :
          page' = [page EXCEPT ![c] =
                     [p \in Pages |-> IF order = "at once" THEN "fetching" ELSE "idle"]]
    BY DEF Boot, MakeJobs, BeginUpdate
  <2>2. page' \in [Cycles -> [Pages -> {"idle", "fetching", "writing", "done", "stuck"}]]
    BY <2>1 DEF IInv, TypeOK, CyclesOK
  <2>3. up' \in BOOLEAN /\ cycle' = [cycle EXCEPT ![c] = "running"]
    BY DEF IInv, TypeOK, CyclesOK, Boot, MakeJobs, BeginUpdate
  <2> QED
    BY <2>2, <2>3 DEF IInv, TypeOK, CyclesOK
<1>2. ParserOK'
  BY DEF IInv, TypeOK, ParserOK, Boot, MakeJobs
<1>3. UNCHANGED <<day, writes, storage, odd>>
  BY DEF Boot, MakeJobs
<1> QED
  BY <1>1, <1>2, <1>3, QuietStep DEF IInv, TypeOK

LEMMA NextDayStep == ASSUME IInv, NextDay PROVE IInv'
<1>1. CyclesOK' /\ ParserOK'
  BY DEF IInv, TypeOK, CyclesOK, ParserOK, NextDay
<1>2. day' \in Days /\ UNCHANGED <<writes, storage, odd>>
  BY DaysAreInts DEF IInv, NextDay
<1> QED
  BY <1>1, <1>2, QuietStep DEF IInv, TypeOK

LEMMA CountedType ==
  ASSUME CyclesOK, NEW c \in Cycles, NEW p \in Pages, up' = up,
         IndexCallback(c, p) \/ Forgotten(c, p)
  PROVE  CyclesOK'
<1> DEFINE Of == [Pages -> {"idle", "fetching", "writing", "done", "stuck"}]
<1>1. PICK state \in {"done", "stuck"} :
        page' = [page EXCEPT ![c] = [page[c] EXCEPT ![p] = state]]
  BY DEF IndexCallback, Forgotten
<1>2. page' \in [Cycles -> Of]
  <2>1. page \in [Cycles -> Of] /\ page[c] \in Of
    BY DEF CyclesOK
  <2>2. [page[c] EXCEPT ![p] = state] \in Of
    BY <2>1
  <2> HIDE DEF Of
  <2> QED
    BY <1>1, <2>1, <2>2
<1>3. cycle' \in {cycle, [cycle EXCEPT ![c] = "ended"]}
  <2>1. cycle = [cycle EXCEPT ![c] = cycle[c]]
    BY DEF CyclesOK
  <2> QED
    BY <2>1 DEF IndexCallback, Forgotten
<1> QED
  BY <1>2, <1>3 DEF CyclesOK

(* What the parser can hold after a page.                                  *)
LEMMA ParsedType ==
  ASSUME IInv, NEW p \in Pages, NEW class \in {"sign", "empty", "missing"},
         NEW hasText \in BOOLEAN
  PROVE  /\ ParsedKey(p[2], class) \in Signs \cup {NoSign}
         /\ \A key : ParsedText(TextOf(p[1], p[2], day), key, hasText)
                      \in Texts \cup {NoText}
<1>1. /\ p[2] \in Signs /\ TextOf(p[1], p[2], day) \in Texts
      /\ zodiacKey \in Signs \cup {NoSign} /\ textStorage \in Texts \cup {NoText}
  BY PageType, TextType DEF IInv, TypeOK, ParserOK
<1> QED
  BY <1>1 DEF ParsedKey, ParsedText

(* A page is requested, its download fails or its parsing throws.          *)
LEMMA PageWithoutText ==
  ASSUME IInv, NEW c \in Cycles, NEW p \in Pages,
         NextPage(c, p) \/ BodyNull(c, p) \/ ParseThrows(c, p)
  PROVE  IInv'
<1>1. CyclesOK'
  <2>1. CASE NextPage(c, p)
    BY <2>1 DEF IInv, TypeOK, CyclesOK, NextPage
  <2>2. CASE BodyNull(c, p) \/ ParseThrows(c, p)
    BY <2>2, CountedType DEF IInv, TypeOK, BodyNull, ParseThrows
  <2> QED
    BY <2>1, <2>2
<1>2. ParserOK'
  <2>1. CASE NextPage(c, p) \/ BodyNull(c, p)
    BY <2>1 DEF IInv, TypeOK, ParserOK, NextPage, BodyNull
  <2>2. CASE ParseThrows(c, p)
    <3>1. /\ \E class \in {"sign", "empty", "missing"} : zodiacKey' = ParsedKey(p[2], class)
          /\ textStorage' \in {textStorage, NoText,
                               ParsedText(TextOf(p[1], p[2], day), zodiacKey', TRUE)}
      BY <2>2 DEF ParseThrows
    <3>2. zodiacKey' \in Signs \cup {NoSign}
      BY <3>1, ParsedType
    <3>3. textStorage' \in Texts \cup {NoText}
      BY <3>1, ParsedType DEF IInv, TypeOK, ParserOK
    <3> QED
      BY <3>2, <3>3 DEF ParserOK
  <2> QED
    BY <2>1, <2>2
<1>3. UNCHANGED <<day, writes, storage>> /\ odd' \in {odd, odd + 1}
  BY DEF NextPage, BodyNull, ParseThrows
<1> QED
  BY <1>1, <1>2, <1>3, QuietStep DEF IInv, TypeOK

-----------------------------------------------------------------------------
(* The invariant is inductive: a page that arrives *)

(* The one row that is sent, if any; a page with its sign and its text is  *)
(* filed where it belongs.                                                 *)
LEMMA PageArrivesStep ==
  ASSUME IInv, NEW c \in Cycles, NEW p \in Pages, PageArrives(c, p) PROVE IInv'
<1> PICK class \in {"sign", "empty", "missing"}, hasText \in BOOLEAN :
      LET key  == ParsedKey(p[2], class)
          text == ParsedText(TextOf(p[1], p[2], day), key, hasText)
      IN /\ odd' = odd + (IF class = "sign" /\ hasText THEN 0 ELSE 1)
         /\ zodiacKey' = key /\ textStorage' = text
         /\ WriteHoroscope(c, p, key, text)
  BY DEF PageArrives
<1> DEFINE key  == zodiacKey'
           text == textStorage'
           row  == [kind |-> KindOf(p[1]), sign |-> key, date |-> text.date, text |-> text]
           sent == [cycle |-> c, page |-> p, row |-> row]
           own  == TextOf(p[1], p[2], day)
<1>1. /\ key = ParsedKey(p[2], class) /\ text = ParsedText(own, key, hasText)
      /\ odd' = odd + (IF class = "sign" /\ hasText THEN 0 ELSE 1)
      /\ UNCHANGED <<day, storage>>
  BY DEF PageArrives
<1>2. WriteHoroscope(c, p, key, text)
  OBVIOUS
<1>3. /\ p[1] \in ServerTypes /\ p[2] \in Signs /\ own \in Texts /\ odd \in Nat
      /\ zodiacKey \in Signs \cup {NoSign} /\ textStorage \in Texts \cup {NoText}
      /\ NoSign \notin Signs
  BY PageType, TextType, UpdaterAssumption DEF IInv, TypeOK, ParserOK
<1>4. \/ /\ Dated(text, p[1]) /\ key # NoSign
         /\ page' = [page EXCEPT ![c][p] = "writing"]
         /\ writes' = writes \cup {sent}
         /\ UNCHANGED <<up, cycle>>
      \/ Forgotten(c, p) /\ UNCHANGED <<up, writes>>
      \/ Exit /\ writes' = writes
  BY <1>2 DEF WriteHoroscope
<1>5. ParserOK'
  BY <1>1, ParsedType DEF ParserOK
<1> HIDE DEF own
<1>6. CyclesOK'
  <2>1. CyclesOK
    BY DEF IInv, TypeOK
  <2>2. CASE page' = [page EXCEPT ![c][p] = "writing"] /\ UNCHANGED <<up, cycle>>
    BY <2>1, <2>2 DEF CyclesOK
  <2>3. CASE Exit
    BY <2>1, <2>3 DEF CyclesOK, Exit
  <2>4. CASE Forgotten(c, p) /\ up' = up
    BY <2>1, <2>4, CountedType
  <2> QED
    BY <1>4, <2>2, <2>3, <2>4
<1>7. CASE writes' = writes
  BY <1>1, <1>3, <1>5, <1>6, <1>7, QuietStep DEF IInv
<1>8. CASE Dated(text, p[1]) /\ key # NoSign /\ writes' = writes \cup {sent}
  <2>1. key \in Signs /\ text \in Texts
    BY <1>5, <1>8 DEF ParserOK, Dated
  <2>2. row \in Rows
    BY <1>3, <2>1, KindType DEF Rows, Texts
  <2>3. class = "sign" /\ hasText => ~Misfiled(row)
    <3> SUFFICES ASSUME class = "sign", hasText PROVE ~Misfiled(row)
      OBVIOUS
    <3>1. key = p[2] /\ text = own
      BY <1>1, <1>3 DEF ParsedKey, ParsedText
    <3>2. own.sign = p[2] /\ own.type = p[1]
      BY DEF own, TextOf
    <3> QED
      BY <3>1, <3>2 DEF Misfiled
  <2> HIDE DEF row
  <2>4. RowsOK'
    BY <1>1, <1>8, <2>2 DEF IInv, TypeOK, RowsOK
  <2>5. Finite'
    BY <1>1, <1>8, FS_AddElement DEF IInv, Finite
  <2>6. Damage'
    <3>1. /\ IsFiniteSet(Spoiling) /\ Cardinality(Spoiling) \in Nat
          /\ Cardinality(Spoiled) \in Nat
      BY SpoiledFinite DEF IInv
    <3>2. Spoiled' = Spoiled
      BY <1>1 DEF Spoiled
    <3>3. CASE Misfiled(row)
      <4>1. odd' = odd + 1
        BY <1>1, <2>3, <3>3
      <4>2. Spoiling' \subseteq Spoiling \cup {sent}
        BY <1>8 DEF Spoiling
      <4>3. Cardinality(Spoiling') \in Nat /\ Cardinality(Spoiling') <= Cardinality(Spoiling) + 1
        BY <3>1, <4>2, OneMore
      <4> QED
        BY <1>3, <3>1, <3>2, <4>1, <4>3 DEF IInv, Damage
    <3>4. CASE ~Misfiled(row)
      <4>1. odd' = odd \/ odd' = odd + 1
        BY <1>1, <1>3
      <4>2. sent.row = row
        OBVIOUS
      <4>3. Spoiling' = Spoiling
        BY <1>8, <3>4, <4>2 DEF Spoiling
      <4> QED
        BY <1>3, <3>1, <3>2, <4>1, <4>3 DEF IInv, Damage
    <3> QED
      BY <3>3, <3>4
  <2> QED
    BY <1>1, <1>3, <1>5, <1>6, <2>4, <2>5, <2>6 DEF IInv, TypeOK
<1> QED
  BY <1>4, <1>7, <1>8

-----------------------------------------------------------------------------
(* The invariant is inductive: writes *)

(* A write that ends leaves the writes for the storage, where it replaces  *)
(* the row of its path, or is lost.                                        *)
LEMMA WriteStep ==
  ASSUME IInv, NEW w \in writes, WriteDone(w) \/ WriteRejected(w) PROVE IInv'
<1>1. /\ w.cycle \in Cycles /\ w.page \in Pages /\ w.row \in Rows
      /\ writes' = writes \ {w}
      /\ storage' \in {storage, Stored(w.row)}
      /\ WriteRejected(w) => storage' = storage
      /\ UNCHANGED <<up, day, zodiacKey, textStorage, odd>>
  BY DEF IInv, TypeOK, RowsOK, WriteDone, WriteRejected
<1>2. CyclesOK'
  <2>1. CyclesOK
    BY DEF IInv, TypeOK
  <2>2. CASE UNCHANGED <<page, cycle>>
    BY <1>1, <2>1, <2>2 DEF CyclesOK
  <2>3. CASE IndexCallback(w.cycle, w.page) \/ Forgotten(w.cycle, w.page)
    BY <1>1, <2>1, <2>3, CountedType
  <2> QED
    BY <2>2, <2>3 DEF WriteDone, WriteRejected
<1>3. ParserOK'
  BY <1>1 DEF IInv, TypeOK, ParserOK
<1>4. storage' \subseteq storage \cup {w.row}
  BY <1>1 DEF Stored
<1>5. RowsOK' /\ Finite'
  <2>1. RowsOK'
    BY <1>1, <1>4 DEF IInv, TypeOK, RowsOK
  <2>2. IsFiniteSet(writes')
    BY <1>1, FS_RemoveElement DEF IInv, Finite
  <2>3. IsFiniteSet(storage')
    BY <1>4, OneMore DEF IInv, Finite
  <2> QED
    BY <2>1, <2>2, <2>3 DEF Finite
<1>6. Damage'
  <2>1. /\ IsFiniteSet(Spoiling) /\ Cardinality(Spoiling) \in Nat
        /\ IsFiniteSet(Spoiled) /\ Cardinality(Spoiled) \in Nat /\ odd \in Nat
    BY SpoiledFinite DEF IInv, TypeOK
  <2>2. CASE Misfiled(w.row)
    <3>1. Spoiling' = Spoiling \ {w} /\ w \in Spoiling
      BY <1>1, <2>2 DEF Spoiling
    <3>2. Cardinality(Spoiling') = Cardinality(Spoiling) - 1
      BY <2>1, <3>1, FS_RemoveElement
    <3>3. Spoiled' \subseteq Spoiled \cup {w.row}
      BY <1>4 DEF Spoiled
    <3>4. Cardinality(Spoiled') \in Nat /\ Cardinality(Spoiled') <= Cardinality(Spoiled) + 1
      BY <2>1, <3>3, OneMore
    <3> QED
      BY <1>1, <2>1, <3>2, <3>4 DEF IInv, Damage
  <2>3. CASE ~Misfiled(w.row)
    <3>1. Spoiling' = Spoiling
      BY <1>1, <2>3 DEF Spoiling
    <3>2. Spoiled' \subseteq Spoiled
      BY <1>4, <2>3 DEF Spoiled
    <3>3. Cardinality(Spoiled') \in Nat /\ Cardinality(Spoiled') <= Cardinality(Spoiled)
      BY <2>1, <3>2, NoMore
    <3> QED
      BY <1>1, <2>1, <3>1, <3>3 DEF IInv, Damage
  <2> QED
    BY <2>2, <2>3
<1> QED
  BY <1>1, <1>2, <1>3, <1>5, <1>6 DEF IInv, TypeOK

LEMMA NextInvariant == ASSUME IInv, [Next]_vars PROVE IInv'
<1>1. CASE NextDay
  BY <1>1, NextDayStep
<1>2. ASSUME NEW c \in Cycles, Boot(c) \/ MakeJobs(c) PROVE IInv'
  BY <1>2, BeginStep
<1>3. ASSUME NEW c \in Cycles, NEW p \in Pages, PageStep(c, p) PROVE IInv'
  BY <1>3, PageWithoutText, PageArrivesStep, WriteStep DEF PageStep
<1>4. CASE UNCHANGED vars
  <2>1. CyclesOK' /\ ParserOK'
    BY <1>4 DEF vars, IInv, TypeOK, CyclesOK, ParserOK
  <2>2. UNCHANGED <<day, odd, writes, storage>>
    BY <1>4 DEF vars
  <2> QED
    BY <2>1, <2>2, QuietStep DEF IInv, TypeOK
<1> QED
  BY <1>1, <1>2, <1>3, <1>4 DEF Next

LEMMA Invariant == Spec => []IInv
<1>1. Init => IInv
  BY InitInvariant
<1>2. IInv /\ [Next]_vars => IInv'
  BY NextInvariant
<1> QED
  BY <1>1, <1>2, PTL DEF Spec

-----------------------------------------------------------------------------
(* What the updater promises *)

(* Every row of the storage has a sign, a kind and a text with a date, and *)
(* the parser never holds anything but a text it read, whatever pages come *)
(* without their sign or their text.                                       *)
THEOREM TypeCorrect == Spec => []TypeOK
<1>1. IInv => TypeOK
  BY DEF IInv
<1> QED
  BY <1>1, Invariant, PTL

(* zodiacKey and textStorage survive from page to page, yet of all rows    *)
(* there are at most as many under a wrong sign or kind as pages came      *)
(* without their sign or their text or threw, however cycles overlap and writes are *)
(* delayed, lost or left over by a process that exited.                    *)
THEOREM DamageStaysLocal == Spec => []DamageIsLocal
<1>1. ASSUME IInv PROVE DamageIsLocal
  <2>1. Cardinality(Spoiled) \in Nat /\ Cardinality(Spoiling) \in Nat /\ odd \in Nat
    BY <1>1, SpoiledFinite DEF IInv, TypeOK
  <2>2. Cardinality(Spoiled) <= odd
    BY <1>1, <2>1 DEF IInv, Damage
  <2> QED
    BY <2>2 DEF DamageIsLocal, Spoiled
<1> QED
  BY <1>1, Invariant, PTL

=============================================================================
