----------------------------- MODULE ZodiacDates -----------------------------
(***************************************************************************)
(* The sign of a date (data/zodiac.cc) and the date in the text of a       *)
(* friend's birthday (managers/birthdaydetector).  A date is a record of a *)
(* day and a month; whether the month has that day is nobody's concern.    *)
(***************************************************************************)
EXTENDS Integers, FiniteSets

Unknown == "unknown"

(* Start month and day, end month and day of each sign.                    *)
zodiacTypesDatasource ==
  [aries       |-> <<3, 21, 4, 19>>,   taurus    |-> <<4, 20, 5, 20>>,
   gemini      |-> <<5, 21, 6, 20>>,   cancer    |-> <<6, 21, 7, 22>>,
   leo         |-> <<7, 23, 8, 22>>,   virgo     |-> <<8, 23, 9, 22>>,
   libra       |-> <<9, 23, 10, 22>>,  scorpio   |-> <<10, 23, 11, 21>>,
   sagittarius |-> <<11, 22, 12, 21>>, capricorn |-> <<12, 22, 1, 19>>,
   aquarius    |-> <<1, 20, 2, 18>>,   pisces    |-> <<2, 19, 3, 20>>]

ZodiacTypes == DOMAIN zodiacTypesDatasource

Covers(type, month, day) ==
  LET i == zodiacTypesDatasource[type]
  IN (i[1] = month /\ day >= i[2]) \/ (i[3] = month /\ day <= i[4])

(* The first sign that covers the date; no second one does (ZodiacProofs). *)
zodiacTypeByDate(month, day) ==
  IF \E type \in ZodiacTypes : Covers(type, month, day)
  THEN CHOOSE type \in ZodiacTypes : Covers(type, month, day)
  ELSE Unknown

SignOf(date) == zodiacTypeByDate(date.month, date.day)

-----------------------------------------------------------------------------
(* A text is a day, the words of three letters or more in it (others are   *)
(* not compared) and a year, or no year (0).  A language maps each month   *)
(* to such words of its sample date.                                       *)
NoDate == [day |-> 0, month |-> 0, year |-> 0]

NinesRemain(number) ==
  Cardinality({k \in 0..3 : (number \div 10^k) % 10 = 9}) >= 3

(* process(): digits 0 to 8 are removed, three nines remain as a word.     *)
longWords(text) ==
  text.words \cup (IF NinesRemain(text.year) THEN {"999"} ELSE {})

(* The months whose sample has every word of the text.                     *)
Matching(text, language) == {m \in 1..12 : longWords(text) \subseteq language[m]}

(* timestampForDateString: the first matching month of the first language  *)
(* that has one; of the numbers, one above 1900 is the year, one below 32  *)
(* the day.                                                                *)
timestampForDateString(text, languages) ==
  LET matching == {k \in DOMAIN languages : Matching(text, languages[k]) # {}}
      language == CHOOSE k \in matching : \A l \in matching : k <= l
      months   == Matching(text, languages[language])
  IN IF matching = {} \/ text.day \notin 1..31 THEN NoDate
     ELSE [day |-> text.day,
           month |-> CHOOSE m \in months : \A n \in months : m <= n,
           year |-> IF text.year > 1900 THEN text.year ELSE 0]

(* Languages in which no month is lost to another or to an earlier one.    *)
Distinct(languages) ==
  \A k, l \in DOMAIN languages : \A m, n \in 1..12 :
    languages[k][m] \subseteq languages[l][n] => k = l /\ m = n

=============================================================================
