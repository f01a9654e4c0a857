---------------------------- MODULE StorageUpdater ----------------------------
(***************************************************************************)
(* The server's updater: every cycle downloads one page per type and sign, *)
(* parses it and writes its text to storage/<kind>/<sign>/<date>.  The     *)
(* parser keeps the sign and the text it found in module variables, which  *)
(* a page lacking either leaves as the page before set them.  Cycles start *)
(* by the clock whether or not earlier ones have ended; when all pages of  *)
(* a cycle are done the documents of the signs are rebuilt.                *)
(***************************************************************************)
EXTENDS ServerDates, FiniteSets

CONSTANTS
  Signs,     \* zodiac signs
  Pages,     \* pages of a cycle: a type and a sign each
  Cycles,    \* bound: cycles started, in all
  NoSign,    \* zodiacKey is ""
  NoText,    \* textStorage is ""
  Orders,    \* async-arrays hands out the pages "at once" or "in turn"
  FirstDay,  \* bound: days of the site
  LastDay,
  MaxOdd     \* bound: pages without their sign or their text, or that throw

ASSUME UpdaterAssumption ==
  /\ NoSign \notin Signs /\ Orders \subseteq {"at once", "in turn"}
  /\ Pages \subseteq ServerTypes \X Signs
  /\ FirstDay \in Int /\ LastDay \in Int /\ FirstDay <= LastDay /\ MaxOdd \in Nat
  /\ \A d \in FirstDay..LastDay :
       \E m \in MonthStarts : m <= d /\ \A n \in MonthStarts : n <= d => n <= m

VARIABLES
  up,           \* the updater's process runs
  day,          \* the site's day
  cycle,        \* state of each cycle
  page,         \* state of each page of each cycle
  zodiacKey,    \* module variables of the parser
  textStorage,
  writes,       \* writes sent to Firestore
  storage,      \* rows of the storage
  odd           \* pages without their sign or their text, or that threw

vars == <<up, day, cycle, page, zodiacKey, textStorage, writes, storage, odd>>

(* The site dates its pages by its own day, in the way the server does.    *)
TextOf(type, sign, d) == [sign |-> sign, type |-> type, date |-> DateFor(type, d)]

(* dateStringFromPredictionText finds a date only in a text that has the   *)
(* form of the type: a month's text begins with the month's name and year. *)
Dated(text, type) ==
  text # NoText /\ (type = "monthly" <=> text.type = "monthly")

-----------------------------------------------------------------------------
Init ==
  /\ up = FALSE /\ day = FirstDay
  /\ cycle = [c \in Cycles |-> "new"]
  /\ page = [c \in Cycles |-> [p \in Pages |-> "idle"]]
  /\ zodiacKey = NoSign /\ textStorage = NoText
  /\ writes = {} /\ storage = {} /\ odd = 0

(* beginUpdate *)
BeginUpdate(c) ==
  /\ cycle[c] = "new"
  /\ cycle' = [cycle EXCEPT ![c] = "running"]
  /\ \E order \in Orders :
       page' = [page EXCEPT ![c] =
                  [p \in Pages |-> IF order = "at once" THEN "fetching" ELSE "idle"]]

(* The process starts with fresh module variables and a first cycle.       *)
Boot(c) ==
  /\ ~up /\ up' = TRUE
  /\ zodiacKey' = NoSign /\ textStorage' = NoText
  /\ BeginUpdate(c)
  /\ UNCHANGED <<day, writes, storage, odd>>

(* The scheduler's hour has come.                                          *)
MakeJobs(c) ==
  /\ up
  /\ BeginUpdate(c)
  /\ UNCHANGED <<up, day, zodiacKey, textStorage, writes, storage, odd>>

(* In turn: the next page is requested when none is under way.             *)
NextPage(c, p) ==
  /\ up /\ cycle[c] = "running" /\ page[c][p] = "idle"
  /\ \A q \in Pages : page[c][q] \in {"idle", "done"}
  /\ page' = [page EXCEPT ![c][p] = "fetching"]
  /\ UNCHANGED <<up, day, cycle, zodiacKey, textStorage, writes, storage, odd>>

NextDay ==
  /\ day < LastDay /\ day' = day + 1
  /\ UNCHANGED <<up, cycle, page, zodiacKey, textStorage, writes, storage, odd>>

-----------------------------------------------------------------------------
(* Fault planted in IndexCallback: the last page is not counted.           *)
IndexCallback_NotLast(c, p) ==
  /\ page' = [page EXCEPT ![c][p] = "done"]
  /\ cycle' = [cycle EXCEPT ![c] =
                 IF \A q \in Pages : page[c][q] = "done" THEN "ended" ELSE @]

(* indexCallback: with the last page, the cycle ends and the documents are *)
(* rebuilt.                                                                *)
IndexCallback(c, p) ==
  /\ page' = [page EXCEPT ![c][p] = "done"]
  /\ cycle' = [cycle EXCEPT ![c] =
                 IF \A q \in Pages \ {p} : page[c][q] = "done" THEN "ended" ELSE @]

(* An exception is logged and a rejected write ignored; neither calls      *)
(* indexCallback.                                                          *)
Forgotten(c, p) ==
  /\ page' = [page EXCEPT ![c][p] = "stuck"]
  /\ UNCHANGED cycle

(* process.exit: cycles end where they are, and a write that was sent may  *)
(* still arrive.                                                           *)
Exit ==
  /\ up' = FALSE
  /\ cycle' = [c \in Cycles |-> IF cycle[c] = "running" THEN "killed" ELSE cycle[c]]
  /\ UNCHANGED page

(* Nothing arrives for a process that exited.                              *)
Fetching(c, p) == up /\ cycle[c] = "running" /\ page[c][p] = "fetching"

(* The download fails.                                                     *)
BodyNull(c, p) ==
  /\ Fetching(c, p)
  /\ IndexCallback(c, p)
  /\ UNCHANGED <<up, day, zodiacKey, textStorage, writes, storage, odd>>

(* Fault planted in ParsedKey: a sign once found is kept.                  *)
ParsedKey_Once(sign, class) ==
  IF zodiacKey # NoSign THEN zodiacKey ELSE IF class = "sign" THEN sign ELSE NoSign

(* The class of the body names the sign, is empty or is missing.           *)
ParsedKey(sign, class) ==
  CASE class = "sign" -> sign [] class = "empty" -> NoSign [] class = "missing" -> zodiacKey

(* The element horoscope-content resets the text; without a sign nothing   *)
(* is read from it.                                                        *)
ParsedText(text, key, hasText) ==
  IF ~hasText THEN textStorage ELSE IF key = NoSign THEN NoText ELSE text

(* writeHoroscope, in the same turn of the event loop as the parser: a     *)
(* text without a date ends the process; without a sign the path has an    *)
(* empty part, for which firestore.doc throws.                             *)
WriteHoroscope(c, p, key, text) ==
  LET type == p[1]
      row  == [kind |-> KindOf(type), sign |-> key, date |-> text.date, text |-> text]
  IN \/ /\ ~Dated(text, type)
        /\ Exit /\ UNCHANGED writes
     \/ /\ Dated(text, type) /\ key = NoSign
        /\ Forgotten(c, p) /\ UNCHANGED <<up, writes>>
     \/ /\ Dated(text, type) /\ key # NoSign
        /\ page' = [page EXCEPT ![c][p] = "writing"]
        /\ writes' = writes \cup {[cycle |-> c, page |-> p, row |-> row]}
        /\ UNCHANGED <<up, cycle>>

(* The page arrives, perhaps without the sign or without the text.         *)
PageArrives(c, p) ==
  /\ Fetching(c, p)
  /\ \E class \in {"sign", "empty", "missing"}, hasText \in BOOLEAN :
       LET key  == ParsedKey(p[2], class)
           text == ParsedText(TextOf(p[1], p[2], day), key, hasText)
       IN /\ odd' = odd + (IF class = "sign" /\ hasText THEN 0 ELSE 1)
          /\ odd' <= MaxOdd
          /\ zodiacKey' = key /\ textStorage' = text
          /\ WriteHoroscope(c, p, key, text)
  /\ UNCHANGED <<day, storage>>

(* gumbo or the traversal throws, before or after the sign is set and the  *)
(* text is reset or read.                                                  *)
ParseThrows(c, p) ==
  /\ Fetching(c, p)
  /\ odd < MaxOdd /\ odd' = odd + 1
  /\ \E class \in {"sign", "empty", "missing"} : zodiacKey' = ParsedKey(p[2], class)
  /\ textStorage' \in {textStorage, NoText,
                       ParsedText(TextOf(p[1], p[2], day), zodiacKey', TRUE)}
  /\ Forgotten(c, p)
  /\ UNCHANGED <<up, day, writes, storage>>

-----------------------------------------------------------------------------
SamePath(r, q) == r.kind = q.kind /\ r.sign = q.sign /\ r.date = q.date

Stored(row) == {r \in storage : ~SamePath(r, row)} \cup {row}

(* set() replaces the row and its promise calls back, if the process that  *)
(* sent it still runs.                                                     *)
WriteDone(w) ==
  /\ w \in writes /\ writes' = writes \ {w}
  /\ storage' = Stored(w.row)
  /\ IF cycle[w.cycle] = "running" THEN IndexCallback(w.cycle, w.page)
     ELSE UNCHANGED <<page, cycle>>
  /\ UNCHANGED <<up, day, zodiacKey, textStorage, odd>>

(* The write is rejected, or was never sent by the process that exited.    *)
WriteRejected(w) ==
  /\ w \in writes /\ writes' = writes \ {w}
  /\ IF cycle[w.cycle] = "running" THEN Forgotten(w.cycle, w.page)
     ELSE UNCHANGED <<page, cycle>>
  /\ UNCHANGED <<up, day, zodiacKey, textStorage, storage, odd>>

-----------------------------------------------------------------------------
PageStep(c, p) ==
  \/ NextPage(c, p) \/ BodyNull(c, p) \/ PageArrives(c, p) \/ ParseThrows(c, p)
  \/ \E w \in writes : w.cycle = c /\ w.page = p /\ (WriteDone(w) \/ WriteRejected(w))

Next ==
  \/ NextDay
  \/ \E c \in Cycles : Boot(c) \/ MakeJobs(c) \/ \E p \in Pages : PageStep(c, p)

Spec == Init /\ [][Next]_vars

(* Firestore and the site answer, the library hands out the next page.     *)
Fairness == \A c \in Cycles, p \in Pages : WF_vars(PageStep(c, p))

FairSpec == Spec /\ Fairness

-----------------------------------------------------------------------------
(* Type invariant.                                                         *)
Texts == [sign : Signs, type : ServerTypes, date : Int]
Rows  == [kind : {"days", "week", "month"}, sign : Signs, date : Int, text : Texts]

CyclesOK ==
  /\ up \in BOOLEAN
  /\ cycle \in [Cycles -> {"new", "running", "ended", "killed"}]
  /\ page \in [Cycles -> [Pages -> {"idle", "fetching", "writing", "done", "stuck"}]]

ParserOK ==
  zodiacKey \in Signs \cup {NoSign} /\ textStorage \in Texts \cup {NoText}

RowsOK ==
  /\ storage \subseteq Rows
  /\ \A w \in writes : w.cycle \in Cycles /\ w.page \in Pages /\ w.row \in Rows

TypeOK == CyclesOK /\ ParserOK /\ RowsOK /\ day \in Int /\ odd \in Nat

Misfiled(r) == r.sign # r.text.sign \/ r.kind # KindOf(r.text.type)

(* The parser's module variables are shared by all pages under way, yet a  *)
(* page that comes without its sign or its text, or whose parsing throws,  *)
(* spoils at most one row: no page after it inherits more than that.       *)
DamageIsLocal == Cardinality({r \in storage : Misfiled(r)}) <= odd

(* While no page is forgotten and the process does not exit, a cycle ends, *)
(* whatever downloads fail, and the documents are rebuilt.                 *)
CycleEnds ==
  \A c \in Cycles :
    cycle[c] = "running" ~>
      \/ cycle[c] \in {"ended", "killed"}
      \/ \E p \in Pages : page[c][p] = "stuck"

=============================================================================
