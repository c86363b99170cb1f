------------------------------ MODULE MCSched ------------------------------
(* Sched on a small scale of time: two milliseconds in a second and two    *)
(* microseconds in a millisecond, so that every carry and every truncation  *)
(* happens within a few ticks.                                              *)
EXTENDS Sched

MCDelays == {1, 2, 3}
=============================================================================
