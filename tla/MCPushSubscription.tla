------------------------ MODULE MCPushSubscription ------------------------
(* Small instance of PushSubscription: the slots of SDK requests are       *)
(* interchangeable, and so are the signs.                                  *)
EXTENDS PushSubscription, TLC

Symmetry == Permutations(Slots) \cup Permutations(Signs)
=============================================================================
