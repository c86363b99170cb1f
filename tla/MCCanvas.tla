------------------------------ MODULE MCCanvas ------------------------------
(* Canvas with up to four hosts and two links, five of them on the page at  *)
(* a time: four hosts, so that two groups can be merged and a chain has a   *)
(* middle, with one link, or three with two, which may join the same hosts. *)
EXTENDS Canvas, TLC

CONSTANT MaxOnPage  (* bound: hosts and links on the page *)

MCNext == Next /\ Cardinality(OnPage(np')) + Cardinality(Allocated(np')) <= MaxOnPage

MCSpec == Init /\ [][MCNext]_vars

MCSymmetry == Permutations(Objects) \union Permutations(Links)
=============================================================================
