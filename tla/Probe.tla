------------------------------- MODULE Probe -------------------------------
(***************************************************************************)
(* Probes of a port (src/probe.c, src/agent-probe.c): connect, wait until  *)
(* something can be sent, read the first answer and tell the client what   *)
(* runs there.  Two entries of the descriptor table and a timer share one  *)
(* struct probe_data; the first end, an answer or the timeout, has to take *)
(* the others back before it frees the structure.                          *)
(*                                                                         *)
(* A cell is an address malloc() may return for a struct probe_data, a     *)
(* handle one for the int behind an id of the descriptor table (IoTable);  *)
(* both are used again after free().  What a freed structure holds is      *)
(* still there.  Ids of timers are never used again (Sched,                *)
(* IdsNameOneEvent), so a probe's number serves as the id of its timer.    *)
(*                                                                         *)
(* A definition marked "Wrong:" is the one below it as a plausible bug     *)
(* would have it; no action uses it (README.md, Sensitivity).              *)
(***************************************************************************)
EXTENDS Integers

CONSTANTS
  Cells,      (* the addresses of struct probe_data                        *)
  Handles,    (* the addresses of the ints behind ids                      *)
  NULL,       (* no id                                                     *)
  MaxProbes   (* bound: requests                                           *)

ASSUME ProbeAssumption ==
  /\ NULL \notin Handles
  /\ MaxProbes \in Nat

VARIABLES
  count,      (* requests so far                                           *)
  used,       (* the cells that are allocated                              *)
  pd,         (* what the structures hold                                  *)
  table,      (* the entries of the descriptor table                       *)
  timers,     (* the timers                                                *)
  ud,         (* requests whose user data (who asked) is allocated         *)
  outcome     (* history: how each request ended                           *)

probeVars == <<count, used, pd, table, timers, ud, outcome>>

Probes  == 1..MaxProbes
Data    == [no : Probes \union {0}, sent : BOOLEAN, tid : Probes \union {-1},
            soid : Handles \union {NULL}, siid : Handles \union {NULL}]
Entries == [id : Handles, callback : {"send_cb", "recieve_cb"}, cell : Cells]
Timers  == [id : Probes, cell : Cells]
Ended   == {"refused", "reply", "silent", "timeout"}

IdsInUse == {e.id : e \in table}

ProbeInit ==
  /\ count = 0
  /\ used = {}
  /\ pd = [c \in Cells |-> [no |-> 0, sent |-> FALSE, tid |-> -1, soid |-> NULL, siid |-> NULL]]
  /\ table = {}
  /\ timers = {}
  /\ ud = {}
  /\ outcome = [n \in Probes |-> "none"]

-----------------------------------------------------------------------------

(* handle_probe_request allocates the user data.  Without a probe for the   *)
(* port or without a connection get_version does nothing more: nobody is    *)
(* told, and nobody frees the user data.                                    *)
Refuse ==
  /\ count < MaxProbes
  /\ count' = count + 1
  /\ ud' = ud \union {count + 1}
  /\ outcome' = [outcome EXCEPT ![count + 1] = "refused"]
  /\ UNCHANGED <<used, pd, table, timers>>

(* The two entries that get_version adds. *)
EntriesFor(c, so, si) == {[id |-> so, callback |-> "send_cb", cell |-> c],
                          [id |-> si, callback |-> "recieve_cb", cell |-> c]}

(* Wrong: the flags of the last user. *)
NewDataUnset(c, so, si, timed) ==
  [no |-> count + 1, sent |-> pd[c].sent, tid |-> IF timed THEN count + 1 ELSE -1,
   soid |-> so, siid |-> si]

(* What get_version puts into the structure.  Without a timeout (0 ms)      *)
(* cheops_sched_add has answered -1.                                        *)
NewData(c, so, si, timed) ==
  [no |-> count + 1, sent |-> FALSE, tid |-> IF timed THEN count + 1 ELSE -1,
   soid |-> so, siid |-> si]

get_version(c, so, si, timed) ==
  /\ count < MaxProbes
  /\ c \notin used
  /\ so # si /\ {so, si} \intersect IdsInUse = {}
  /\ count' = count + 1
  /\ ud' = ud \union {count + 1}
  /\ used' = used \union {c}
  /\ pd' = [pd EXCEPT ![c] = NewData(c, so, si, timed)]
  /\ timers' = IF timed THEN timers \union {[id |-> count + 1, cell |-> c]} ELSE timers
  /\ table' = table \union EntriesFor(c, so, si)
  /\ outcome' = [outcome EXCEPT ![count + 1] = "open"]

(* Wrong: connected in time is good enough. *)
send_cbStoppingTimer(e) ==
  /\ e.callback = "send_cb"
  /\ pd' = [pd EXCEPT ![e.cell].sent = TRUE, ![e.cell].soid = NULL]
  /\ table' = table \ {e}
  /\ timers' = {t \in timers : t.id # pd[e.cell].tid}
  /\ UNCHANGED <<count, used, ud, outcome>>

(* send_cb: the socket is connected, or has failed.  The entry goes with    *)
(* the 0 that is returned.                                                  *)
send_cb(e) ==
  /\ e.callback = "send_cb"
  /\ pd' = [pd EXCEPT ![e.cell].sent = TRUE, ![e.cell].soid = NULL]
  /\ table' = table \ {e}
  /\ UNCHANGED <<count, used, timers, ud, outcome>>

(* cheops_io_remove, if there is an id: the entry that the id leads to.     *)
Removed(ids) == {e \in table : e.id \in ids \ {NULL}}

(* Wrong: the timer is left to run out. *)
recieve_cbKeepingTimer(e, said) ==
  /\ e.callback = "recieve_cb"
  /\ pd[e.cell].sent
  /\ table' = table \ ({e} \union Removed({pd[e.cell].soid}))
  /\ pd' = [pd EXCEPT ![e.cell].siid = NULL]
  /\ used' = used \ {e.cell}
  /\ outcome' = [outcome EXCEPT ![pd[e.cell].no] = said]
  /\ UNCHANGED <<count, timers, ud>>

(* recieve_cb: an answer, or the end of the connection.  The client gets a  *)
(* reply if the answer tells a version.  Before send_cb has run there is    *)
(* nothing but a return of 1.                                               *)
recieve_cb(e, said) ==
  /\ e.callback = "recieve_cb"
  /\ pd[e.cell].sent
  /\ timers' = {t \in timers : t.id # pd[e.cell].tid}
  /\ table' = table \ ({e} \union Removed({pd[e.cell].soid}))
  /\ pd' = [pd EXCEPT ![e.cell].siid = NULL]
  /\ used' = used \ {e.cell}
  /\ outcome' = [outcome EXCEPT ![pd[e.cell].no] = said]
  /\ UNCHANGED <<count, ud>>

(* timeout_cb: my_probe_timeout frees the user data; the timer ends with    *)
(* the return of 0.                                                         *)
timeout_cb(t) ==
  /\ table' = table \ Removed({pd[t.cell].soid, pd[t.cell].siid})
  /\ timers' = timers \ {t}
  /\ pd' = [pd EXCEPT ![t.cell].tid = -1]
  /\ used' = used \ {t.cell}
  /\ ud' = ud \ {pd[t.cell].no}
  /\ outcome' = [outcome EXCEPT ![pd[t.cell].no] = "timeout"]
  /\ UNCHANGED count

ProbeNext ==
  \/ Refuse
  \/ \E c \in Cells, so, si \in Handles, timed \in BOOLEAN : get_version(c, so, si, timed)
  \/ \E e \in table : send_cb(e)
  \/ \E e \in table, said \in {"reply", "silent"} : recieve_cb(e, said)
  \/ \E t \in timers : timeout_cb(t)

ProbeSpec == ProbeInit /\ [][ProbeNext]_probeVars

(* Timers run (Sched, EveryEventRuns).  The host that is probed may accept  *)
(* the connection or not, and answer or not.                                *)
ProbeFairness == \A n \in Probes : WF_probeVars(\E t \in timers : t.id = n /\ timeout_cb(t))

FairProbeSpec == ProbeSpec /\ ProbeFairness

-----------------------------------------------------------------------------
(* Properties. *)

(* The state keeps the types of src/probe.c's variables, and no two entries *)
(* have the same id.                                                        *)
ProbeTypeOK ==
  /\ count \in 0..MaxProbes
  /\ used \subseteq Cells
  /\ pd \in [Cells -> Data]
  /\ table \subseteq Entries
  /\ \A e, f \in table : e.id = f.id => e = f
  /\ timers \subseteq Timers
  /\ ud \subseteq Probes
  /\ outcome \in [Probes -> {"none", "open"} \union Ended]

(* No callback is left behind: whatever is registered is registered by the  *)
(* structure that it will be called with, which is allocated and knows it,  *)
(* and whose user data is allocated.  A probe that is under way has what it *)
(* needs to end: its timer, its entry for the answer and, until it has sent,*)
(* the one for sending.  Once it has sent it knows no other entry, so that  *)
(* recieve_cb removes nothing but its own from the table while              *)
(* cheops_io_wait walks over it (IoTable relies on this).                   *)
CallbacksAreLive ==
  /\ \A e \in table :
       /\ e.cell \in used
       /\ e.id = IF e.callback = "send_cb" THEN pd[e.cell].soid ELSE pd[e.cell].siid
  /\ \A t \in timers : t.cell \in used /\ t.id = pd[t.cell].tid
  /\ \A c \in used :
       /\ pd[c].no \in ud
       /\ [id |-> pd[c].siid, callback |-> "recieve_cb", cell |-> c] \in table
       /\ IF pd[c].sent
          THEN pd[c].soid = NULL
          ELSE [id |-> pd[c].soid, callback |-> "send_cb", cell |-> c] \in table
       /\ pd[c].tid # -1 => [id |-> pd[c].tid, cell |-> c] \in timers

(* A probe ends once: with an answer or with the timeout, never both, and   *)
(* never with what was meant for a later probe in the same memory.          *)
OneOutcome ==
  [][\A n \in Probes : outcome[n] \in Ended => outcome'[n] = outcome[n]]_probeVars

(* A probe with a timeout ends, whatever the host does.                     *)
EveryProbeEnds ==
  \A n \in Probes : (\E t \in timers : t.id = n) ~> outcome[n] \in Ended
=============================================================================
