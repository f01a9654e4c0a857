----------------------------- MODULE TtyDocuments -----------------------------
(***************************************************************************)
(* Rebuilding the documents the app reads, horoscopes/<sign>: a job reads  *)
(* the texts of every type for every sign from the storage and writes one  *)
(* document per sign.  The texts are collected in `dictionary`, which is   *)
(* not declared and therefore one global variable for all signs of all     *)
(* jobs that run at the same time.                                         *)
(***************************************************************************)
EXTENDS ServerDates, FiniteSets

CONSTANTS
  Signs, Types,
  Position,    \* place of each sign in `zodiacs`, of each type in `types`
  Jobs,        \* bound: jobs started, in all
  Blank,       \* the text of a row the storage does not have
  Undefined,   \* a key the dictionary does not have
  NoDocument,  \* the document has never been written
  Orders,      \* async-arrays hands out elements "at once" or "in turn"
  FirstDay,    \* bound: days of the server
  LastDay,
  MaxFailures  \* bound: rows that are missing and requests that are rejected

Tasks == Jobs \X Signs
Texts == [kind : {"days", "week", "month"}, sign : Signs, date : Int]
Entries   == [date : Int, text : Texts \cup {Blank}]
Documents == [task : Tasks, entries : [Types -> Entries \cup {Undefined}], alone : BOOLEAN]

ASSUME TtyAssumption ==
  /\ IsFiniteSet(Jobs) /\ IsFiniteSet(Signs) /\ Signs # {}
  /\ Types \subseteq ServerTypes /\ Types # {} /\ Orders \subseteq {"at once", "in turn"}
  /\ Position \in [Signs \cup Types -> Nat]
  /\ Undefined # Blank /\ Undefined \notin Texts \cup Entries /\ NoDocument \notin Documents
  /\ FirstDay \in Int /\ LastDay \in Int /\ FirstDay <= LastDay /\ MaxFailures \in Nat
  /\ \A d \in FirstDay..LastDay :
       \E m \in MonthStarts : m <= d /\ \A n \in MonthStarts : n <= d => n <= m

VARIABLES
  day,         \* the server's day
  job,         \* state of each job
  sign,        \* state of each sign of each job
  asked,       \* types whose reading has begun, per job and sign
  reads,       \* reads sent to Firestore
  dictionary,
  writes,      \* documents sent to Firestore
  documents,
  failures,    \* counter of the bound
  disturbed    \* history: signs of jobs whose reading overlapped another

vars == <<day, job, sign, asked, reads, dictionary, writes, documents, failures,
          disturbed>>

Empty == [t \in Types |-> Undefined]
TextOf(type, s, d) == [kind |-> KindOf(type), sign |-> s, date |-> DateFor(type, d)]
Read(k, t) == [task |-> k, type |-> t, text |-> TextOf(t, k[2], day)]

-----------------------------------------------------------------------------
Init ==
  /\ day = FirstDay
  /\ job = [j \in Jobs |-> "new"]
  /\ sign = [k \in Tasks |-> "idle"]
  /\ asked = [k \in Tasks |-> {}]
  /\ reads = {} /\ writes = {}
  /\ dictionary = Empty
  /\ documents = [s \in Signs |-> NoDocument]
  /\ disturbed = {} /\ failures = 0

(* Signs whose callbacks may still write to the dictionary.                *)
Reading == {k \in Tasks : sign[k] = "reading" \/ \E r \in reads : r.task = k}

(* async-arrays takes the elements in turn in the order of the array.      *)
First(x, rest) == x \in rest /\ \A y \in rest : Position[x] <= Position[y]

(* requestPredictionsForZodiac of the signs ks, which begins to read the    *)
(* types ts; the other signs are in the given states.                      *)
Begin(ks, ts, states) ==
  /\ sign' = [k \in Tasks |-> IF k \in ks THEN "reading" ELSE states[k]]
  /\ asked' = [k \in Tasks |-> IF k \in ks THEN ts ELSE asked[k]]
  /\ reads' = reads \cup {Read(k, t) : k \in ks, t \in ts}
  /\ disturbed' =
       IF Cardinality(Reading \cup ks) > 1 THEN disturbed \cup Reading \cup ks ELSE disturbed
  /\ dictionary' = Empty

(* createTTYHoroscopes, called when an update of the storage ends.         *)
CreateTTYHoroscopes(j) ==
  /\ job[j] = "new"
  /\ job' = [job EXCEPT ![j] = "running"]
  /\ \/ /\ "at once" \in Orders
        /\ Begin({j} \X Signs, Types, sign)
     \/ /\ "in turn" \in Orders
        /\ \E s \in Signs, t \in Types :
             First(s, Signs) /\ First(t, Types) /\ Begin({<<j, s>>}, {t}, sign)
  /\ UNCHANGED <<day, writes, documents, failures>>

NextDay ==
  /\ day < LastDay /\ day' = day + 1
  /\ UNCHANGED <<job, sign, asked, reads, dictionary, writes, documents, failures, disturbed>>

-----------------------------------------------------------------------------
(* createTTYDocument dates the entries by the day on which it is called.   *)
DocumentFrom(texts) ==
  [t \in Types |-> IF texts[t] = Undefined THEN Undefined
                   ELSE [date |-> DateFor(t, day), text |-> texts[t]]]

(* Fault planted in LastOf: only the reads under way are counted.          *)
LastOf_Pending(k) == Cardinality({r \in reads : r.task = k}) = 1

(* All types of the sign have called back but the one that is about to.    *)
LastOf(k) == asked[k] = Types /\ Cardinality({r \in reads : r.task = k}) = 1

Failure == failures < MaxFailures /\ failures' = failures + 1

(* The text of a row, or a blank one if there is no such row.              *)
Answer(r) ==
  \/ dictionary' = [dictionary EXCEPT ![r.type] = r.text] /\ UNCHANGED failures
  \/ dictionary' = [dictionary EXCEPT ![r.type] = Blank] /\ Failure

(* A row is read.  After the last one the document is made of whatever is  *)
(* in the dictionary; in turn, the next type is read after any other.      *)
GetDocumentData(r) ==
  LET k == r.task
  IN /\ r \in reads /\ Answer(r)
     /\ \/ /\ sign[k] = "reading" /\ LastOf(k)
           /\ reads' = reads \ {r}
           /\ sign' = [sign EXCEPT ![k] = "writing"]
           /\ writes' = writes \cup {[task |-> k, entries |-> DocumentFrom(dictionary'),
                                      alone |-> k \notin disturbed]}
           /\ UNCHANGED asked
        \/ \E t \in Types \ asked[k] :
             /\ First(t, Types \ asked[k])
             /\ asked' = [asked EXCEPT ![k] = @ \cup {t}]
             /\ reads' = (reads \ {r}) \cup {Read(k, t)}
             /\ UNCHANGED <<sign, writes>>
        \/ /\ asked[k] = Types /\ ~(sign[k] = "reading" /\ LastOf(k))
           /\ reads' = reads \ {r}
           /\ UNCHANGED <<asked, sign, writes>>
     /\ UNCHANGED <<day, job, documents, disturbed>>

(* A promise that is rejected calls nobody.                                *)
ReadRejected(r) ==
  /\ r \in reads /\ Failure
  /\ reads' = reads \ {r}
  /\ sign' = [sign EXCEPT ![r.task] = "stuck"]
  /\ UNCHANGED <<day, job, asked, dictionary, writes, documents, disturbed>>

(* Fault planted in SignCallback: the last sign is not counted.            *)
SignCallback_NotLast(j, states) ==
  IF \A s \in Signs : sign[<<j, s>>] = "done"
  THEN /\ job' = [job EXCEPT ![j] = "ended"] /\ sign' = states
       /\ UNCHANGED <<asked, reads, dictionary, disturbed>>
  ELSE /\ sign' = states /\ UNCHANGED <<job, asked, reads, dictionary, disturbed>>

(* After the last sign the job ends; in turn, the next sign begins after   *)
(* one that is not.                                                        *)
SignCallback(j, states) ==
  \/ /\ \A s \in Signs : states[<<j, s>>] = "done"
     /\ job' = [job EXCEPT ![j] = "ended"]
     /\ sign' = states /\ UNCHANGED <<asked, reads, dictionary, disturbed>>
  \/ /\ \E s \in Signs, t \in Types :
          /\ First(s, {q \in Signs : states[<<j, q>>] = "idle"}) /\ First(t, Types)
          /\ Begin({<<j, s>>}, {t}, states)
     /\ UNCHANGED job
  \/ /\ \A s \in Signs : states[<<j, s>>] # "idle"
     /\ \E s \in Signs : states[<<j, s>>] # "done"
     /\ sign' = states /\ UNCHANGED <<job, asked, reads, dictionary, disturbed>>

(* The document is replaced whole.                                         *)
DocumentWritten(w) ==
  /\ w \in writes
  /\ writes' = writes \ {w}
  /\ documents' = [documents EXCEPT ![w.task[2]] = w]
  /\ SignCallback(w.task[1], [sign EXCEPT ![w.task] = "done"])
  /\ UNCHANGED <<day, failures>>

DocumentRejected(w) ==
  /\ w \in writes /\ Failure
  /\ writes' = writes \ {w}
  /\ sign' = [sign EXCEPT ![w.task] = "stuck"]
  /\ UNCHANGED <<day, job, asked, reads, dictionary, documents, disturbed>>

-----------------------------------------------------------------------------
TaskStep(k) ==
  \/ \E r \in reads : r.task = k /\ (GetDocumentData(r) \/ ReadRejected(r))
  \/ \E w \in writes : w.task = k /\ (DocumentWritten(w) \/ DocumentRejected(w))

Next ==
  \/ NextDay
  \/ \E j \in Jobs : CreateTTYHoroscopes(j)
  \/ \E k \in Tasks : TaskStep(k)

Spec == Init /\ [][Next]_vars

-----------------------------------------------------------------------------
(* Type invariant.                                                         *)
TypeOK ==
  /\ day \in FirstDay..LastDay /\ failures \in Nat
  /\ job \in [Jobs -> {"new", "running", "ended"}]
  /\ sign \in [Tasks -> {"idle", "reading", "writing", "done", "stuck"}]
  /\ asked \in [Tasks -> SUBSET Types]
  /\ reads \subseteq [task : Tasks, type : Types, text : Texts]
  /\ dictionary \in [Types -> Texts \cup {Blank, Undefined}]
  /\ writes \subseteq Documents
  /\ documents \in [Signs -> Documents \cup {NoDocument}]
  /\ disturbed \subseteq Tasks

Own(w, t) ==
  /\ w.entries[t] # Undefined
  /\ w.entries[t].text = Blank \/ w.entries[t].text.sign = w.task[2]

(* A document made while nothing else was reading has every type, with the *)
(* texts of its own sign, dated no earlier than the texts themselves: what *)
(* an earlier reading left in the dictionary does not get in.              *)
UndisturbedIsOwn ==
  \A s \in Signs :
    documents[s] # NoDocument /\ documents[s].alone =>
      \A t \in Types :
        /\ Own(documents[s], t)
        /\ documents[s].entries[t].text # Blank =>
             documents[s].entries[t].text.date <= documents[s].entries[t].date

(* A job goes on only by the callbacks of its reads and writes: as long as *)
(* it runs, one is under way, unless a request of it has been rejected, and *)
(* when it has ended every sign has a document.                            *)
JobInHand ==
  \A j \in Jobs :
    /\ job[j] = "running" =>
         \/ \E r \in reads : r.task[1] = j
         \/ \E w \in writes : w.task[1] = j
         \/ \E s \in Signs : sign[<<j, s>>] = "stuck"
    /\ job[j] = "ended" => \A s \in Signs : documents[s] # NoDocument

(* The texts in a document are those of the sign it is written for.        *)
DocumentOfItsSign ==
  \A s \in Signs : documents[s] # NoDocument =>
    \A t \in Types :
      documents[s].entries[t] # Undefined /\ documents[s].entries[t].text # Blank =>
        documents[s].entries[t].text.sign = s

=============================================================================
