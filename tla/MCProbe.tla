------------------------------ MODULE MCProbe ------------------------------
(* Probe with two structures for three requests and one id more than two    *)
(* probes need: memory of structures and ids is used again.                 *)
EXTENDS Probe
=============================================================================
