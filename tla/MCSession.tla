------------------------------ MODULE MCSession ------------------------------
(* Dates whose day and month make two signs when they are swapped, one on  *)
(* Facebook that has no 25th month, and friends' birthdays in English: one *)
(* in 1990 and one in 1999.                                                *)
EXTENDS Session

Date(d, m) == [day |-> d, month |-> m]
Picked   == {Date(5, 4), Date(4, 5)}
Facebook == {Date(5, 4), Date(25, 12)}

Months  == <<"january", "february", "march", "april", "may", "june", "july",
             "august", "september", "october", "november", "december">>
English == [m \in 1..12 |-> {Months[m]}]
OnlyEnglish == <<English>>
Text(d, m, y) == [words |-> English[m], day |-> d, year |-> y]
Pages   == {Text(4, 5, 1990), Text(4, 5, 1999)}

(* The detector, for every date with every kind of year: right in a        *)
(* language whose months differ, but for 1999, where it finds none; with a *)
(* language tried first in which May has no long word (as in Hindi), a     *)
(* date in that May is taken for January.                                  *)
NoLongMay == <<[m \in 1..12 |-> IF m = 5 THEN {} ELSE {<<m>>}], English>>
Years == {0, 1901, 1990, 1999, 2018}
ASSUME EnglishIsRead ==
  /\ Distinct(OnlyEnglish)
  /\ \A d \in 1..31, m \in 1..12, y \in Years :
       timestampForDateString(Text(d, m, y), OnlyEnglish)
         = IF y = 1999 THEN NoDate ELSE [day |-> d, month |-> m, year |-> y]
ASSUME MayIsJanuary ==
  \A d \in 1..31, y \in Years \ {1999} :
    timestampForDateString([words |-> {}, day |-> d, year |-> y], NoLongMay).month = 1
=============================================================================
