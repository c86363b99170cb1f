------------------------------- MODULE Timers -------------------------------
(***************************************************************************)
(* What the timer queue of the agent promises its callers, without the     *)
(* queue: a set of pending events, each due at a time counted in whole     *)
(* units of the clock, and at most one event whose callback is running.    *)
(* Sched implements it with a sorted list of struct timeval.               *)
(***************************************************************************)
EXTENDS Integers

CONSTANTS
  Delays,  (* the delays, in ms, that callers ask for                      *)
  Unit,    (* units of the clock in a millisecond                          *)
  None     (* no callback is running                                       *)

VARIABLES
  now,      (* the clock                                                   *)
  pending,  (* the events that wait                                        *)
  running,  (* the event whose callback is running, or None                *)
  next      (* the id of the next event                                    *)

vars == <<now, pending, running, next>>

Init ==
  /\ now = 0
  /\ pending = {}
  /\ running = None
  /\ next = 1

(* A caller asks for a call in ms milliseconds: exactly then it is due.     *)
Add(ms) ==
  /\ pending' = pending \union {[id |-> next, due |-> now + ms * Unit, every |-> ms]}
  /\ next' = next + 1
  /\ UNCHANGED <<now, running>>

(* A caller takes one event back. *)
Cancel(e) ==
  /\ pending' = pending \ {e}
  /\ UNCHANGED <<now, running, next>>

(* A callback starts: less than a millisecond too early, and no other event *)
(* is due before it.                                                        *)
Fire(e) ==
  /\ running = None
  /\ e.due < now + Unit
  /\ \A f \in pending : e.due <= f.due
  /\ pending' = pending \ {e}
  /\ running' = e
  /\ UNCHANGED <<now, next>>

(* It wants to be called again, the same delay from now ... *)
Again ==
  /\ running # None
  /\ pending' = pending \union {[running EXCEPT !.due = now + running.every * Unit]}
  /\ running' = None
  /\ UNCHANGED <<now, next>>

(* ... or has had its last call. *)
Finish ==
  /\ running # None
  /\ running' = None
  /\ UNCHANGED <<now, pending, next>>

Clock ==
  /\ now' = now + 1
  /\ UNCHANGED <<pending, running, next>>

Next ==
  \/ \E ms \in Delays : Add(ms)
  \/ \E e \in pending : Cancel(e) \/ Fire(e)
  \/ Again
  \/ Finish
  \/ Clock

Spec == Init /\ [][Next]_vars
=============================================================================
