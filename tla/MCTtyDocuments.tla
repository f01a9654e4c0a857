---------------------------- MODULE MCTtyDocuments ----------------------------
(* Two types of two signs, in the order of the code, around the midnight   *)
(* of 31 January 2018 (day 17562): the month's text changes with the day.  *)
EXTENDS TtyDocuments, TLC

CONSTANTS aries, leo

Months   == {17532, 17563}
InArrays == [x \in {aries, leo, "today", "monthly"} |-> IF x \in {aries, "today"} THEN 1 ELSE 2]
Symmetry == Permutations(Jobs)
=============================================================================
