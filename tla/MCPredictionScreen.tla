-------------------------- MODULE MCPredictionScreen --------------------------
(* Two screens and three documents around 3 January 2018 (day 17534): the  *)
(* one of the day with a blank week, the one of the next day without its   *)
(* month, and one without an entry for today.                              *)
EXTENDS PredictionScreen

Months == {17501, 17532, 17563}
Docs == {[DocumentOf(17534) EXCEPT !.blank = {"week"}],
         [DocumentOf(17535) EXCEPT !.day["month"] = NoDay],
         [DocumentOf(17534) EXCEPT !.day["today"] = NoDay]}
OneHour == {17534 * 24 + 9}
=============================================================================
