---------------------------- MODULE MCVampsHandoff ----------------------------
(* The hand-over with the real look-ahead and sentinel and two lengths of GOP. *)
EXTENDS VampsHandoff
MCLens == {5, 11}
MCHeaders == {1, 4, 5, 8}
===============================================================================
