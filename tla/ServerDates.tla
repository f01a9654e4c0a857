------------------------------ MODULE ServerDates ------------------------------
(***************************************************************************)
(* Types of predictions on the server: the kind each is stored under and   *)
(* the date each has on a day (server/common/common.js).                   *)
(***************************************************************************)
EXTENDS PredictionTabs

ServerTypes == {"yesterday", "today", "tomorrow", "weekly", "monthly"}

(* Fault planted in KindOf: days are kept apart by type.                   *)
KindOf_PerType(type) ==
  CASE type = "weekly" -> "week" [] type = "monthly" -> "month" [] OTHER -> type

(* horoTypeByTabsType *)
KindOf(type) ==
  CASE type = "weekly" -> "week" [] type = "monthly" -> "month" [] OTHER -> "days"

(* dateStringFromType *)
DateFor(type, d) ==
  CASE type = "yesterday" -> d - 1
    [] type = "today"     -> d
    [] type = "tomorrow"  -> d + 1
    [] type = "weekly"    -> Monday(d)
    [] type = "monthly"   -> FirstOfMonth(d)

=============================================================================
