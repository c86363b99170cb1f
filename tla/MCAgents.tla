------------------------------ MODULE MCAgents ------------------------------
(* Agents with two addresses for three connections, so that memory is used  *)
(* again while requests of its last owner are under way.                    *)
EXTENDS Agents
=============================================================================
