----------------------------- MODULE MCMapTrace -----------------------------
(* MapTrace with a host behind a router and one that is directly connected. *)
EXTENDS MapTrace, TLC

CONSTANTS h1, h2, r1

MCPath == (h1 :> <<r1, h1>>) @@ (h2 :> <<h2>>)
=============================================================================
