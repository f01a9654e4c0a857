----------------------------- MODULE ZodiacProofs -----------------------------
(***************************************************************************)
(* What zodiacTypeByDate returns for every date, and what                  *)
(* timestampForDateString reads in every language.                         *)
(***************************************************************************)
EXTENDS ZodiacDates, TLAPS

LEMMA Types ==
  ZodiacTypes = {"aries", "taurus", "gemini", "cancer", "leo", "virgo", "libra", "scorpio",
                 "sagittarius", "capricorn", "aquarius", "pisces"}
BY DEF ZodiacTypes, zodiacTypesDatasource

(* The limits of the signs, sign by sign.                                  *)
LEMMA Limits ==
  ASSUME NEW month, NEW day
  PROVE  /\ Covers("aries", month, day) <=> (month = 3 /\ day >= 21) \/ (month = 4 /\ day <= 19)
         /\ Covers("taurus", month, day) <=> (month = 4 /\ day >= 20) \/ (month = 5 /\ day <= 20)
         /\ Covers("gemini", month, day) <=> (month = 5 /\ day >= 21) \/ (month = 6 /\ day <= 20)
         /\ Covers("cancer", month, day) <=> (month = 6 /\ day >= 21) \/ (month = 7 /\ day <= 22)
         /\ Covers("leo", month, day) <=> (month = 7 /\ day >= 23) \/ (month = 8 /\ day <= 22)
         /\ Covers("virgo", month, day) <=> (month = 8 /\ day >= 23) \/ (month = 9 /\ day <= 22)
         /\ Covers("libra", month, day) <=> (month = 9 /\ day >= 23) \/ (month = 10 /\ day <= 22)
         /\ Covers("scorpio", month, day) <=> (month = 10 /\ day >= 23) \/ (month = 11 /\ day <= 21)
         /\ Covers("sagittarius", month, day) <=> (month = 11 /\ day >= 22) \/ (month = 12 /\ day <= 21)
         /\ Covers("capricorn", month, day) <=> (month = 12 /\ day >= 22) \/ (month = 1 /\ day <= 19)
         /\ Covers("aquarius", month, day) <=> (month = 1 /\ day >= 20) \/ (month = 2 /\ day <= 18)
         /\ Covers("pisces", month, day) <=> (month = 2 /\ day >= 19) \/ (month = 3 /\ day <= 20)
BY DEF Covers, zodiacTypesDatasource

(* Every day of every month has exactly one sign: the limits of the        *)
(* neighbours in zodiac.cc neither overlap nor leave a gap, so the order   *)
(* in which zodiacTypeByDate tries the signs does not matter.              *)
THEOREM OneSignPerDate ==
  ASSUME NEW month \in 1..12, NEW day \in Int
  PROVE  \E type \in ZodiacTypes :
           \A other \in ZodiacTypes : Covers(other, month, day) <=> other = type
<1>1. \E type \in ZodiacTypes : Covers(type, month, day)
  BY Types, Limits
<1>2. \A s, t \in ZodiacTypes : Covers(s, month, day) /\ Covers(t, month, day) => s = t
  BY Types, Limits
<1> QED
  BY <1>1, <1>2

(* So zodiacTypeByDate is never Unknown for a month of the year, whatever  *)
(* the day: a login with a wrong day still gets a sign.                    *)
COROLLARY AlwaysASign ==
  ASSUME NEW month \in 1..12, NEW day \in Int
  PROVE  zodiacTypeByDate(month, day) \in ZodiacTypes
BY OneSignPerDate DEF zodiacTypeByDate

(* A month beyond the year has no sign, so a login whose birthday has the  *)
(* day where the month is read fails.                                      *)
THEOREM NoSignBeyondTheYear ==
  ASSUME NEW month \in Int, NEW day \in Int, month \notin 1..12
  PROVE  zodiacTypeByDate(month, day) = Unknown
<1>1. \A type \in ZodiacTypes : ~Covers(type, month, day)
  BY Types, Limits
<1> QED
  BY <1>1 DEF zodiacTypeByDate

-------------------------------------------------------------------------------
(* A birthday written in one of the languages the detector tries is read   *)
(* as written, provided no month of these languages is lost to another     *)
(* (Distinct) and the year has fewer than three nines.                     *)
THEOREM ReadsWhatIsWritten ==
  ASSUME NEW languages, Distinct(languages),
         NEW k \in DOMAIN languages, DOMAIN languages \subseteq Nat,
         NEW month \in 1..12, NEW text,
         text.words = languages[k][month],
         text.day \in 1..31, ~NinesRemain(text.year)
  PROVE  timestampForDateString(text, languages)
           = [day |-> text.day, month |-> month,
              year |-> IF text.year > 1900 THEN text.year ELSE 0]
<1>1. longWords(text) = languages[k][month]
  BY DEF longWords
<1> DEFINE matching == {l \in DOMAIN languages : Matching(text, languages[l]) # {}}
<1>2. Matching(text, languages[k]) = {month}
  BY <1>1 DEF Matching, Distinct
<1>3. matching = {k}
  <2>1. k \in matching
    BY <1>2
  <2>2. \A l \in matching : l = k
    BY <1>1 DEF Matching, Distinct
  <2> QED
    BY <2>1, <2>2
<1>4. (CHOOSE l \in matching : \A j \in matching : l <= j) = k
  <2>1. k <= k
    OBVIOUS
  <2> HIDE DEF matching
  <2> QED
    BY <1>3, <2>1
<1>5. (CHOOSE m \in {month} : \A n \in {month} : m <= n) = month
  OBVIOUS
<1>6. matching # {}
  BY <1>3
<1> QED
  BY <1>2, <1>4, <1>5, <1>6 DEF timestampForDateString

(* Without a Distinct list of languages that fails: a text none of whose   *)
(* words is long matches the first month of the first language, so it is   *)
(* read as January whatever month it was written for.                      *)
THEOREM ShortWordsAreJanuary ==
  ASSUME NEW languages, 1 \in DOMAIN languages, DOMAIN languages \subseteq Nat \ {0},
         NEW text, text.words = {}, text.day \in 1..31, ~NinesRemain(text.year)
  PROVE  timestampForDateString(text, languages).month = 1
<1>1. longWords(text) = {}
  BY DEF longWords
<1>2. \A l \in DOMAIN languages : Matching(text, languages[l]) = 1..12
  BY <1>1 DEF Matching
<1> DEFINE matching == {l \in DOMAIN languages : Matching(text, languages[l]) # {}}
           language == CHOOSE l \in matching : \A j \in matching : l <= j
<1>3. matching = DOMAIN languages /\ matching # {}
  <2>1. 1 \in 1..12
    OBVIOUS
  <2>2. \A l \in DOMAIN languages : Matching(text, languages[l]) # {}
    BY <1>2, <2>1
  <2>3. matching = DOMAIN languages
    BY <2>2
  <2> QED
    BY <2>3
<1>4. language \in DOMAIN languages
  <2>1. \E l \in matching : \A j \in matching : l <= j
    BY <1>3
  <2> HIDE DEF matching
  <2> QED
    BY <1>3, <2>1
<1>5. (CHOOSE m \in 1..12 : \A n \in 1..12 : m <= n) = 1
  OBVIOUS
<1>6. Matching(text, languages[language]) = 1..12
  BY <1>2, <1>4
<1> HIDE DEF language
<1> QED
  BY <1>3, <1>5, <1>6 DEF timestampForDateString, language
===============================================================================
