----------------------------- MODULE MCIoTable -----------------------------
(* IoTable with three owners, so that a removal can move an entry that is   *)
(* neither the removed nor the running one; freed ids are allocated again.  *)
EXTENDS IoTable
=============================================================================
