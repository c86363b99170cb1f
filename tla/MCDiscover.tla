----------------------------- MODULE MCDiscover -----------------------------
(* Discover with three addresses, the last a broadcast one, a cache of one, *)
(* two structures for two requests that overlap, and a timeout of three     *)
(* clock steps where the interval between pings is two.                     *)
EXTENDS Discover

MCAddrs     == 1..3
MCHosts     == {1, 2}
MCBroadcast == {3}
MCRetries   == {0, 1}
MCRequests  == {[lo |-> 1, hi |-> 3, force |-> FALSE], [lo |-> 2, hi |-> 2, force |-> TRUE]}
=============================================================================
