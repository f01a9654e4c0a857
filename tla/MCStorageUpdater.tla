--------------------------- MODULE MCStorageUpdater ---------------------------
(* Two cycles that may overlap, with a daily page of one sign and a        *)
(* weekly one of another.  31 January 2018 (day 17562) was a Wednesday.    *)
EXTENDS StorageUpdater

CONSTANTS aries, leo

Months     == {17532, 17563}
TwoPages   == {<<"today", aries>>, <<"weekly", leo>>}
=============================================================================
