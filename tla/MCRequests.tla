----------------------------- MODULE MCRequests -----------------------------
(* Requests with one name and two addresses, the higher one its own and not *)
(* the first of its network; the lookups of two structures and of objects   *)
(* share a list of two.                                                     *)
(*                                                                         *)
(* And HostInfo, with two hosts, two windows, one system that has no pixmap *)
(* at first and one service.  The modules look at the handlers of           *)
(* gui-handlers.c from two sides and share no variable, so a behaviour is   *)
(* one of either: the variable part says of which.                          *)
EXTENDS Requests, HostInfo, TLC

VARIABLE part

MCInit ==
  /\ Init /\ InfoInit
  /\ part \in {"requests", "info"} /\ (part # "requests" => options = {})

MCNext ==
  \/ part = "requests" /\ Next /\ UNCHANGED <<part, infoVars>>
  \/ part = "info" /\ InfoNext /\ UNCHANGED <<part, vars>>

MCSpec == MCInit /\ [][MCNext]_<<part, vars, infoVars>>

MCAddrs     == {3, 5}
MCResolve   == [n \in Names |-> 5]
MCSettings  == {{}, {"reverse", "map"}}
MCDiscovers == {<<h, None>> : h \in Names} \union (Names \X {GoodMask, BadMask})
MCRanges    == {<<h, 3>> : h \in Names} \union {<<3, h>> : h \in Names}

MCSymmetry == Permutations(Objects) \union Permutations(Structs)
                \union Permutations(Windows) \union Permutations(Hosts)
                \union Permutations(HostAddrs)

MCScans == {<<>>} \union {<< <<p, TRUE>> >> : p \in Ports}
=============================================================================
