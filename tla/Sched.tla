------------------------------- MODULE Sched -------------------------------
(***************************************************************************)
(* The timer queue of the agent (src/sched.c) and the main loop that       *)
(* drives it (src/cheops-main.c): sleep until the first timer is due or a  *)
(* descriptor is ready, let the descriptor callbacks run, then run every   *)
(* timer that is due.                                                      *)
(*                                                                         *)
(* A time is a struct timeval: seconds and microseconds, compared field by *)
(* field.  The scale (milliseconds in a second, microseconds in a          *)
(* millisecond) is a parameter, 1000 and 1000 in the code.  The module is  *)
(* about the width of these fields: the carry of sched_settime, the        *)
(* truncating division of cheops_sched_wait and the millisecond of slack   *)
(* that cheops_sched_runq adds without a carry.                            *)
(*                                                                         *)
(* A definition marked "Wrong:" is the one below it as a plausible bug      *)
(* would have it; no action uses it (README.md, Sensitivity).              *)
(***************************************************************************)
EXTENDS Integers, Sequences, SequencesExt

CONSTANTS
  MsPerSec,     (* milliseconds in a second                                *)
  UsecPerMs,    (* microseconds in a millisecond                           *)
  Delays,       (* the delays, in ms, that callers ask for                 *)
  MaxCache,     (* SCHED_MAX_CACHE                                         *)
  NoEvent,      (* current when no callback is running                     *)
  MaxSec,       (* bound: the clock stops before this second               *)
  MaxEvents     (* bound: number of cheops_sched_add calls                 *)

ASSUME SchedAssumption ==
  /\ MsPerSec \in Nat \ {0}
  /\ UsecPerMs \in Nat \ {0}
  /\ Delays \subseteq Nat \ {0}
  /\ MaxCache \in Nat
  /\ MaxSec \in Nat
  /\ MaxEvents \in Nat
  /\ NoEvent \notin [id : Nat, when : [sec : Nat, usec : Nat], resched : Nat]
  /\ NoEvent \notin [id : Nat, due : Nat, every : Nat]

VARIABLES
  now,        (* what gettimeofday() answers                               *)
  schedq,     (* the queue, head first                                     *)
  eventcnt,   (* the next id                                               *)
  schedcnt,   (* the number of queued entries, as the code counts them     *)
  schedccnt,  (* the number of cached free structures                      *)
  current,    (* the entry whose callback is running, or NoEvent           *)
  pc,         (* where the main loop is                                    *)
  sleep,      (* what cheops_sched_wait() returned, and when               *)
  dead        (* history: ids deleted, or whose callback returned 0        *)

vars == <<now, schedq, eventcnt, schedcnt, schedccnt, current, pc, sleep, dead>>
loop == <<pc, sleep>>

UsecPerSec == MsPerSec * UsecPerMs

(* A clock reading; a deadline, where the carry of sched_settime leaves    *)
(* tv_usec = 1000000 alone; an entry of the queue.                         *)
Clock    == [sec : Nat, usec : 0..(UsecPerSec - 1)]
Deadline == [sec : Nat, usec : 0..UsecPerSec]
Entry    == [id : Nat \ {0}, when : Deadline, resched : Nat \ {0}]

(* The macro SOONER(a, b): a is strictly before b. *)
SOONER(a, b) == \/ b.sec > a.sec
                \/ b.sec = a.sec /\ b.usec > a.usec

(* sched_settime: the time that is ms from t. *)
sched_settime(t, ms) ==
  LET sec  == t.sec + (ms \div MsPerSec)
      usec == t.usec + (ms % MsPerSec) * UsecPerMs
  IN  IF usec > UsecPerSec THEN [sec |-> sec + 1, usec |-> usec - UsecPerSec]
                           ELSE [sec |-> sec, usec |-> usec]

(* C's integer division truncates towards zero. *)
Trunc(a, b) == IF a >= 0 THEN a \div b ELSE -((-a) \div b)

(* Wrong: one millisecond more; an overdue head taken for an empty queue. *)
cheops_sched_waitLonger(q, t) ==
  IF q = <<>> THEN -1
  ELSE LET w  == q[1].when
           ms == (w.sec - t.sec) * MsPerSec + Trunc(w.usec - t.usec, UsecPerMs)
       IN  IF ms < 0 THEN 0 ELSE ms + 1

cheops_sched_waitUnclamped(q, t) ==
  IF q = <<>> THEN -1
  ELSE LET w  == q[1].when
           ms == (w.sec - t.sec) * MsPerSec + Trunc(w.usec - t.usec, UsecPerMs)
       IN  IF ms < 0 THEN -1 ELSE ms

(* cheops_sched_wait: milliseconds until the head is due, -1 if there is none. *)
cheops_sched_wait(q, t) ==
  IF q = <<>> THEN -1
  ELSE LET w  == q[1].when
           ms == (w.sec - t.sec) * MsPerSec + Trunc(w.usec - t.usec, UsecPerMs)
       IN  IF ms < 0 THEN 0 ELSE ms

(* Wrong: a second of slack. *)
RunLimitSecond(t) == [t EXCEPT !.sec = @ + 1]

(* cheops_sched_runq runs the head if it is sooner than this: one more     *)
(* millisecond in tv_usec, with no carry into tv_sec.                      *)
RunLimit(t) == [t EXCEPT !.usec = @ + UsecPerMs]

(* schedule(): insert s in front of the first entry that is later. *)
schedule(s) ==
  /\ \E k \in 1..(Len(schedq) + 1) :
       /\ \A i \in 1..(k - 1) : ~SOONER(s.when, schedq[i].when)
       /\ k <= Len(schedq) => SOONER(s.when, schedq[k].when)
       /\ schedq' = InsertAt(schedq, k, s)
  /\ schedcnt' = schedcnt + 1

(* A time in microseconds. *)
Micros(t) == t.sec * UsecPerSec + t.usec

(* waittime is not used again once poll() has returned. *)
Awake == [ms |-> -1, at |-> [sec |-> 0, usec |-> 0]]

-----------------------------------------------------------------------------

Init ==
  /\ now = [sec |-> 0, usec |-> 0]
  /\ schedq = <<>>
  /\ eventcnt = 1
  /\ schedcnt = 0
  /\ schedccnt = 0
  /\ current = NoEvent
  /\ pc = "wait"
  /\ sleep = Awake
  /\ dead = {}

(* Code of a callback: the main loop is inside cheops_io_wait's callbacks   *)
(* ("io") or inside a timer's callback ("callback").                        *)
InCallback == pc \in {"io", "callback"}

(* cheops_sched_add with a delay other than 0 (0 is refused with -1). *)
cheops_sched_add(ms) ==
  /\ InCallback
  /\ eventcnt <= MaxEvents
  /\ LET when == sched_settime(now, ms)
     IN  /\ when.sec < MaxSec
         /\ schedule([id |-> eventcnt, when |-> when, resched |-> ms])
  /\ eventcnt' = eventcnt + 1
  /\ schedccnt' = IF schedccnt > 0 THEN schedccnt - 1 ELSE 0
  /\ UNCHANGED <<now, current, loop, dead>>

(* cheops_sched_del: unlinks the entry but neither caches nor frees it.     *)
(* An id that is not queued, the running one's included, changes nothing.   *)
cheops_sched_del(k) ==
  /\ InCallback
  /\ dead' = dead \union {schedq[k].id}
  /\ schedq' = RemoveAt(schedq, k)
  /\ schedcnt' = schedcnt - 1
  /\ UNCHANGED <<now, eventcnt, schedccnt, current, loop>>

(* cheops_main: waittime = cheops_sched_wait(), then into poll(). *)
SleepUntilHead ==
  /\ pc = "wait"
  /\ sleep' = [ms |-> cheops_sched_wait(schedq, now), at |-> now]
  /\ pc' = "poll"
  /\ UNCHANGED <<now, schedq, eventcnt, schedcnt, schedccnt, current, dead>>

(* poll() returns: a descriptor is ready, or the wait is over. *)
PollReady ==
  /\ pc = "poll"
  /\ pc' = "io"
  /\ sleep' = Awake
  /\ UNCHANGED <<now, schedq, eventcnt, schedcnt, schedccnt, current, dead>>

PollTimeout ==
  /\ pc = "poll"
  /\ sleep.ms >= 0
  /\ Micros(now) >= Micros(sleep.at) + sleep.ms * UsecPerMs
  /\ pc' = "runq"
  /\ sleep' = Awake
  /\ UNCHANGED <<now, schedq, eventcnt, schedcnt, schedccnt, current, dead>>

(* The descriptor callbacks have returned. *)
IoDone ==
  /\ pc = "io"
  /\ pc' = "runq"
  /\ UNCHANGED <<now, schedq, eventcnt, schedcnt, schedccnt, current, sleep, dead>>

Due == schedq # <<>> /\ SOONER(schedq[1].when, RunLimit(now))

(* cheops_sched_runq takes the head off the queue and calls it. *)
RunHead ==
  /\ pc = "runq"
  /\ Due
  /\ current' = Head(schedq)
  /\ schedq' = Tail(schedq)
  /\ schedcnt' = schedcnt - 1
  /\ pc' = "callback"
  /\ UNCHANGED <<now, eventcnt, schedccnt, sleep, dead>>

(* The callback returned non-zero: the entry goes back into the queue. *)
RunAgain ==
  /\ pc = "callback"
  /\ LET when == sched_settime(now, current.resched)
     IN  /\ when.sec < MaxSec
         /\ schedule([current EXCEPT !.when = when])
  /\ current' = NoEvent
  /\ pc' = "runq"
  /\ UNCHANGED <<now, eventcnt, schedccnt, sleep, dead>>

(* The callback returned 0: sched_release() the structure. *)
RunOnce ==
  /\ pc = "callback"
  /\ schedccnt' = IF schedccnt < MaxCache THEN schedccnt + 1 ELSE schedccnt
  /\ dead' = dead \union {current.id}
  /\ current' = NoEvent
  /\ pc' = "runq"
  /\ UNCHANGED <<now, schedq, eventcnt, schedcnt, sleep>>

(* No entry is due any more: round the loop again. *)
RunqDone ==
  /\ pc = "runq"
  /\ ~Due
  /\ pc' = "wait"
  /\ UNCHANGED <<now, schedq, eventcnt, schedcnt, schedccnt, current, sleep, dead>>

(* Time passes, between any two steps. *)
Tick ==
  /\ now' = IF now.usec + 1 < UsecPerSec THEN [now EXCEPT !.usec = @ + 1]
                                         ELSE [sec |-> now.sec + 1, usec |-> 0]
  /\ now'.sec <= MaxSec
  /\ UNCHANGED <<schedq, eventcnt, schedcnt, schedccnt, current, loop, dead>>

Next ==
  \/ \E ms \in Delays : cheops_sched_add(ms)
  \/ \E k \in 1..Len(schedq) : cheops_sched_del(k)
  \/ SleepUntilHead
  \/ PollReady
  \/ PollTimeout
  \/ IoDone
  \/ RunHead
  \/ RunAgain
  \/ RunOnce
  \/ RunqDone
  \/ Tick

Spec == Init /\ [][Next]_vars

(* The clock runs, the loop takes its steps, a callback returns (with 0 or  *)
(* not: which one is not fair).  Nothing says that a descriptor is ready or *)
(* that a callback adds or deletes a timer.                                 *)
Fairness ==
  /\ WF_vars(Tick)
  /\ WF_vars(SleepUntilHead)
  /\ WF_vars(PollTimeout)
  /\ WF_vars(IoDone)
  /\ WF_vars(RunHead)
  /\ WF_vars(RunAgain \/ RunOnce)
  /\ WF_vars(RunqDone)

FairSpec == Spec /\ Fairness

-----------------------------------------------------------------------------
(* Properties. *)

(* The state keeps the types of src/sched.c's variables; the counters of    *)
(* queued and of cached structures are what they count.                     *)
TypeOK ==
  /\ now \in Clock
  /\ schedq \in Seq(Entry)
  /\ eventcnt \in Nat \ {0}
  /\ schedcnt = Len(schedq)
  /\ schedccnt \in 0..MaxCache
  /\ current \in Entry \union {NoEvent}
  /\ pc \in {"wait", "poll", "io", "runq", "callback"}
  /\ pc = "callback" <=> current # NoEvent
  /\ sleep \in [ms : Nat \union {-1}, at : Clock]
  /\ dead \subseteq Nat \ {0}

Ordered(q) ==
  \A i, j \in 1..Len(q) : i < j => ~SOONER(q[j].when, q[i].when)

(* schedule() keeps the soonest event first: no entry is sooner than one in *)
(* front of it, whatever mixture of adds, deletes and reschedules built the *)
(* queue, denormalised deadlines (tv_usec = 1000000) included.  What        *)
(* ImplementsTimers and WaitMatchesHead rest on.                            *)
SoonestFirst == Ordered(schedq)

IdsOf(q)  == {q[i].id : i \in 1..Len(q)}
QueuedIds == IdsOf(schedq)
LiveIds   == QueuedIds \union (IF current = NoEvent THEN {} ELSE {current.id})

UniqueIds(q) == \A i, j \in 1..Len(q) : q[i].id = q[j].id => i = j

(* An event id names one event: no two queued entries share it, the entry   *)
(* whose callback runs is not queued as well, and an id that was deleted or *)
(* that returned 0 never comes back, so a stale cheops_sched_del() of the   *)
(* id cannot hit a later event.                                             *)
IdsNameOneEvent ==
  /\ UniqueIds(schedq)
  /\ current # NoEvent => current.id \notin QueuedIds
  /\ LiveIds \intersect dead = {}
  /\ \A id \in LiveIds \union dead : id < eventcnt

(* cheops_main never sleeps past a timer: the wait that cheops_sched_wait   *)
(* computes with its truncating division ends less than a millisecond after *)
(* the deadline of every queued event, or is 0.  And it never spins: when   *)
(* the wait is 0, cheops_sched_runq would have found the head due at the    *)
(* very time the wait was computed (the comment "this will help us get more *)
(* than one event at one time", sched.c:301).                               *)
WaitMatchesHead ==
  pc = "poll" =>
    \/ sleep.ms = -1 /\ schedq = <<>>
    \/ sleep.ms = 0 /\ schedq # <<>> /\ SOONER(schedq[1].when, RunLimit(sleep.at))
    \/ /\ sleep.ms > 0
       /\ \A i \in 1..Len(schedq) :
            Micros(sleep.at) + sleep.ms * UsecPerMs < Micros(schedq[i].when) + UsecPerMs

(* The queue of timevals implements the set of pending events of Timers:    *)
(* every deadline is exact whatever carries, a callback starts less than a  *)
(* millisecond early and never before one that is due sooner, it is pending *)
(* again after a return other than 0, and a delete takes back one event.    *)
Event(s)  == [id |-> s.id, due |-> Micros(s.when), every |-> s.resched]
Pending   == {Event(schedq[i]) : i \in 1..Len(schedq)}
Queue     == INSTANCE Timers WITH
               Unit <- UsecPerMs, None <- NoEvent, now <- Micros(now), pending <- Pending,
               running <- IF current = NoEvent THEN NoEvent ELSE Event(current),
               next <- eventcnt

ImplementsTimers == Queue!Spec

(* Every scheduled event leaves the queue: it runs, or it is deleted.       *)
EveryEventRuns ==
  \A id \in 1..MaxEvents : id \in QueuedIds ~> id \notin QueuedIds
=============================================================================
