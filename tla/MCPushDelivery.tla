--------------------------- MODULE MCPushDelivery ---------------------------
(* Two days around 1 January 2018 (day 17532, a Monday), in every zone     *)
(* from UTC-12 to UTC+14.  A half hour beside the zone counts for the      *)
(* push; the dates under the tabs are those of the whole hours.            *)
EXTENDS PushDelivery

AllZones == -12..14
DaylightSaving == -1..1
Months == {17501, 17532, 17563}
=============================================================================
