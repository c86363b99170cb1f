----------------------------- MODULE MCFraming -----------------------------
(* Framing with a length field of two bytes and a buffer of seven: three    *)
(* events may be joined in one read or split anywhere, one length fills the *)
(* buffer and one is too large for it.                                      *)
EXTENDS Framing

MCMsgLens == {3, 5, 7, 8}
=============================================================================
