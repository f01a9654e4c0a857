-------------------------- MODULE MCPredictionDates --------------------------
(* Eight days around 1 January 2018 (day 17532, a Monday), in every zone   *)
(* from UTC-12 to UTC+14.                                                  *)
EXTENDS PredictionDates

AllZones == -12..14
DaylightSaving == -1..1
Months == {17501, 17532, 17563}
=============================================================================
