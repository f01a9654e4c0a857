---------------------------- MODULE PushContract ----------------------------
(***************************************************************************)
(* What the push settings promise the user, with nothing of how it is      *)
(* done: the app wants its device in the room of the settings it recorded  *)
(* as sent, or in none.  A change that nothing disturbs empties the        *)
(* device's rooms and then enters the one wanted: the device is never in a *)
(* room that is not wanted beside one that is, and work ends only with     *)
(* what was wanted.  Once disturbed it promises only that rooms are        *)
(* entered one at a time and left all at once, until the next request.     *)
(***************************************************************************)
VARIABLES
  want,    \* the rooms of the settings recorded as sent: one or none
  held,    \* the rooms the push service holds for the device
  clean,   \* nothing disturbed the last request
  quiet    \* no work on the last request is left

contract == <<want, held, clean, quiet>>

AtMostOne(rooms) == \A r, s \in rooms : r = s

Init == want = {} /\ held = {} /\ clean = TRUE /\ quiet = TRUE

(* New settings are recorded; nothing may be left to do.                   *)
Request ==
  /\ AtMostOne(want')
  /\ clean' \in BOOLEAN /\ quiet' \in BOOLEAN
  /\ clean' /\ quiet' => held = want'
  /\ UNCHANGED held

(* All rooms are left...                                                   *)
Leave ==
  /\ clean /\ ~quiet
  /\ held' = {}
  /\ UNCHANGED <<want, clean, quiet>>

(* ...before the one wanted is entered.                                    *)
Enter ==
  /\ clean /\ ~quiet
  /\ held = {} /\ held' = want
  /\ UNCHANGED <<want, clean, quiet>>

Finish ==
  /\ clean /\ ~quiet
  /\ held = want
  /\ quiet' = TRUE
  /\ UNCHANGED <<want, held, clean>>

(* A disturbance, and what happens after one.                              *)
Trouble ==
  /\ clean' = FALSE
  /\ AtMostOne(want') /\ quiet' \in BOOLEAN
  /\ \/ held' \in {held, {}}
     \/ \E r \in held' : held' = held \cup {r}

Next == Request \/ Leave \/ Enter \/ Finish \/ Trouble

Spec == Init /\ [][Next]_contract

=============================================================================
