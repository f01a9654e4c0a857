--------------------------- MODULE MCFriendsLoad ---------------------------
(* Small instance of FriendsLoad.                                          *)
EXTENDS FriendsLoad

CONSTANTS ann, bob
=============================================================================
