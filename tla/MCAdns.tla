------------------------------- MODULE MCAdns -------------------------------
(* Adns with memory for a name to be checked and two children, two servers, *)
(* and two tries by UDP.                                                    *)
EXTENDS Adns

(* A connection is made at once, and the second write to it fails; nothing  *)
(* goes through; both servers refuse, and the first write to the one that   *)
(* does not fails; there are no sockets; all connects are refused.          *)
MCSockets ==
  {[writes |-> 1, error |-> TRUE,  refused |-> 0, atonce |-> TRUE,  down |-> FALSE],
   [writes |-> 0, error |-> FALSE, refused |-> 0, atonce |-> FALSE, down |-> FALSE],
   [writes |-> 0, error |-> TRUE,  refused |-> 2, atonce |-> TRUE,  down |-> FALSE],
   [writes |-> 0, error |-> FALSE, refused |-> 0, atonce |-> FALSE, down |-> TRUE],
   [writes |-> 0, error |-> FALSE, refused |-> 2, atonce |-> FALSE, down |-> TRUE]}
=============================================================================
