------------------------------ MODULE Discover ------------------------------
(***************************************************************************)
(* Host discovery in the agent (src/agent-discover.c) with its cache of    *)
(* hosts that have answered (src/cache.c) and the setting of the number of *)
(* retries (src/agent-settings.c).                                         *)
(*                                                                         *)
(* A request sweeps its range of addresses ping_retries + 1 times, one     *)
(* echo request for each call of its timer.  An address in the cache is    *)
(* reported instead of pinged, in the first sweep.  The echo carries the   *)
(* address of the request's structure; an answer is matched by looking     *)
(* that address up in pingQ.  Memory that was freed may be used again.     *)
(*                                                                         *)
(* Time is counted in steps of the clock: a timer knows how long it still  *)
(* has, a request how long ago its sweep began.  Whether the asking client *)
(* is still connected when event_send is called is the subject of Agents.  *)
(*                                                                         *)
(* A definition marked "Wrong:" is the one below it as a plausible bug      *)
(* would have it; no action uses it (README.md, Sensitivity).              *)
(***************************************************************************)
EXTENDS Integers, Sequences

CONSTANTS
  Addrs,      (* addresses, as numbers                                     *)
  Broadcast,  (* those that IP_CLASSx_BROADCAST takes for broadcasts       *)
  Hosts,      (* those where a host may answer                             *)
  Requests,   (* the ranges that clients ask for                           *)
  Cells,      (* memory for struct ping_q                                  *)
  Free,       (* a cell that is not allocated                              *)
  Unset,      (* pp->time = 0: no sweep has begun                          *)
  Retries,    (* the values a client sets ping_retries to                  *)
  Timeout,    (* PING_TIMEOUT_INTERVAL                                     *)
  Interval,   (* PING_INTERVAL                                             *)
  MaxCache,   (* MAX_PING_CACHE_ENTRIES                                    *)
  MaxReqs     (* bound: discover requests                                  *)

ASSUME DiscoverAssumption ==
  /\ Addrs \subseteq Nat \ {0}
  /\ Broadcast \subseteq Addrs /\ Hosts \subseteq Addrs
  /\ Requests \subseteq [lo : Addrs, hi : Addrs, force : BOOLEAN]
  /\ Retries \subseteq Nat
  /\ Timeout \in Nat /\ Interval \in Nat
  /\ 1 <= Interval /\ Interval <= Timeout
  /\ MaxCache \in Nat \ {0}
  /\ MaxReqs \in Nat
  /\ Free \notin [id : Nat, lo : Nat, hi : Nat, force : BOOLEAN, cur : Nat,
                  retry : Nat, since : Nat \union {Unset}]
  /\ Unset \notin Nat

VARIABLES
  pingQ,         (* what each cell holds: an entry of pingQ, or Free       *)
  timers,        (* scheduled calls of ping_send                           *)
  ping_retries,
  Cache,         (* the addresses in the cache, newest first               *)
  echoes,        (* echo requests sent; each may be answered, any number   *)
                 (* of times and at any later time                         *)
  asked,         (* history: the requests, in order                        *)
  tried,         (* history: for each request the addresses it pinged      *)
  found,         (* history: the discover replies, with the request        *)
  answered,      (* history: the addresses an answer was accepted from     *)
  stranded       (* history: requests whose next call sched.c refused      *)

discoverVars == <<pingQ, timers, ping_retries, Cache, echoes, asked, tried, found,
          answered, stranded>>
history == <<asked, tried, found, answered, stranded>>

Ids     == 1..MaxReqs
Entry   == [id : Ids, lo : Addrs, hi : Addrs, force : BOOLEAN,
            cur : Nat, retry : Nat, since : (0..(Timeout + 1)) \union {Unset}]
Timer   == [p : Cells, left : 0..Timeout, every : 1..Timeout]

DiscoverTypeOK ==
  /\ pingQ \in [Cells -> Entry \union {Free}]
  /\ timers \subseteq Timer
  /\ ping_retries \in Nat
  /\ Cache \in Seq(Hosts) /\ Len(Cache) <= MaxCache
  /\ echoes \subseteq [p : Cells, ip : Nat]
  /\ asked \in Seq(Requests) /\ Len(asked) <= MaxReqs
  /\ tried \in [Ids -> SUBSET Nat]
  /\ found \subseteq [id : Ids, ip : Nat]
  /\ answered \subseteq Hosts
  /\ stranded \subseteq Ids

Live == {p \in Cells : pingQ[p] # Free}

DiscoverInit ==
  /\ pingQ = [p \in Cells |-> Free]
  /\ timers = {}
  /\ ping_retries = 1
  /\ Cache = <<>>
  /\ echoes = {}
  /\ asked = <<>>
  /\ tried = [id \in Ids |-> {}]
  /\ found = {}
  /\ answered = {}
  /\ stranded = {}

-----------------------------------------------------------------------------
(* src/cache.c *)

in_cache(ip) == \E i \in 1..Len(Cache) : Cache[i] = ip

(* The search for the entry to replace keeps the latest time it has seen;   *)
(* the list is in order of time, so it is the first one.                    *)
add_to_cache(ip) ==
  Cache' = IF Len(Cache) < MaxCache THEN <<ip>> \o Cache ELSE [Cache EXCEPT ![1] = ip]

-----------------------------------------------------------------------------
(* src/agent-settings.c *)

handle_set_settings(n) ==
  /\ ping_retries' = n
  /\ UNCHANGED <<pingQ, timers, Cache, echoes, history>>

-----------------------------------------------------------------------------
(* src/agent-discover.c *)

(* A request for a range that is not empty.  One with an address 0 or with  *)
(* its start behind its end is answered with an error and changes nothing.  *)
handle_discover_request(e) ==
  /\ e.lo <= e.hi
  /\ Len(asked) < MaxReqs
  /\ \E p \in Cells \ Live :
       /\ pingQ' = [pingQ EXCEPT ![p] =
                      [id |-> Len(asked) + 1, lo |-> e.lo, hi |-> e.hi, force |-> e.force,
                       cur |-> e.lo, retry |-> 0, since |-> Unset]]
       /\ timers' = timers \union {[p |-> p, left |-> 1, every |-> 1]}
  /\ asked' = Append(asked, e)
  /\ UNCHANGED <<ping_retries, Cache, echoes, tried, found, answered, stranded>>

(* A sweep visits the addresses of the range in order: place k is address   *)
(* k mod Width of sweep k div Width.                                        *)
Width(q)      == q.hi - q.lo + 1
Place(q)      == q.retry * Width(q) + (q.cur - q.lo)
AddrAt(q, k)  == q.lo + (k % Width(q))
Cached(q, k)  == ~q.force /\ in_cache(AddrAt(q, k))
Pings(q, k)   == ~Cached(q, k) /\ AddrAt(q, k) \notin Broadcast

(* The loop of ping_send gives up when retry > ping_retries.                *)
PlacesLeft(q) == Place(q)..((ping_retries + 1) * Width(q) - 1)

(* Wrong: an address that is in the cache is not reported. *)
ReportedNever(q, S) == {}

(* Cached addresses among the places S that the loop passes in sweep 0.     *)
Reported(q, S) == {AddrAt(q, k) : k \in {j \in S : j < Width(q) /\ Cached(q, j)}}

(* The delay before the last address of a sweep: what is left of the        *)
(* interval since the sweep began, computed unsigned.                       *)
WaitBeforeEnd(q) ==
  CASE q.retry > ping_retries -> Timeout
    [] q.since = Unset        -> Timeout
    [] q.since > Timeout      -> 1
    [] OTHER                  -> Timeout - q.since

(* The next call for q, which has just advanced: a new timer that replaces  *)
(* t at either end of the range (cheops_sched_add refuses a delay of 0),    *)
(* else the same one again.                                                 *)
Reschedule(t, q) ==
  IF q.cur = q.hi
  THEN IF WaitBeforeEnd(q) = 0 THEN {}
       ELSE {[p |-> t.p, left |-> WaitBeforeEnd(q), every |-> WaitBeforeEnd(q)]}
  ELSE IF q.cur = q.lo
       THEN {[p |-> t.p, left |-> Interval, every |-> Interval]}
       ELSE {[t EXCEPT !.left = t.every]}

(* Wrong: the sweeps are not counted. *)
AdvanceUncounted(q, k) ==
  [q EXCEPT !.cur = AddrAt(q, k + 1),
            !.since = IF AddrAt(q, k + 1) = q.lo THEN 0 ELSE @]

(* q after the ping at place k; the clock reading at the start of a sweep   *)
(* is taken unless that address is also the end.                            *)
Advance(q, k) ==
  LET cur == AddrAt(q, k + 1)
  IN  [q EXCEPT !.cur = cur, !.retry = (k + 1) \div Width(q),
                !.since = IF cur = q.lo /\ cur # q.hi THEN 0 ELSE @]

(* ping_send, when nothing is left to ping: remove_ping_q and return 0. *)
ping_send_done(t) ==
  LET q == pingQ[t.p]
  IN  /\ t.left = 0
      /\ \A k \in PlacesLeft(q) : ~Pings(q, k)
      /\ pingQ' = [pingQ EXCEPT ![t.p] = Free]
      /\ timers' = timers \ {t}
      /\ found' = found \union {[id |-> q.id, ip |-> ip] : ip \in Reported(q, PlacesLeft(q))}
      /\ UNCHANGED <<ping_retries, Cache, echoes, asked, tried, answered, stranded>>

(* ping_send, at the first place that wants a ping.  sendto may fail: after *)
(* five attempts the address counts as pinged.                              *)
ping_send(t) ==
  LET q == pingQ[t.p]
  IN  /\ t.left = 0
      /\ \E k \in PlacesLeft(q) :
           /\ Pings(q, k)
           /\ \A j \in Place(q)..(k - 1) : ~Pings(q, j)
           /\ LET next == Advance(q, k)
                  then == Reschedule(t, next)
              IN  /\ pingQ' = [pingQ EXCEPT ![t.p] = next]
                  /\ timers' = (timers \ {t}) \union then
                  /\ stranded' = IF then = {} THEN stranded \union {q.id} ELSE stranded
           /\ tried' = [tried EXCEPT ![q.id] = @ \union {AddrAt(q, k)}]
           /\ \/ echoes' = echoes \union {[p |-> t.p, ip |-> AddrAt(q, k)]}
              \/ UNCHANGED echoes
           /\ found' = found \union
                       {[id |-> q.id, ip |-> ip] : ip \in Reported(q, Place(q)..(k - 1))}
      /\ UNCHANGED <<ping_retries, Cache, asked, answered>>

(* Wrong: an answer is good for whatever request lives at that address now. *)
in_ping_q_anyRange(p, ip) == p \in Live

in_ping_q_range(p, ip) == p \in Live /\ pingQ[p].lo <= ip /\ ip <= pingQ[p].hi

(* An answer that names a structure in pingQ whose range holds the sender;  *)
(* any other answer is dropped.                                             *)
handle_ping_recieve(e) ==
  /\ e.ip \in Hosts
  /\ in_ping_q_range(e.p, e.ip)
  /\ add_to_cache(e.ip)
  /\ found' = found \union {[id |-> pingQ[e.p].id, ip |-> e.ip]}
  /\ answered' = answered \union {e.ip}
  /\ UNCHANGED <<pingQ, timers, ping_retries, echoes, asked, tried, stranded>>

(* The clock. *)
Tick ==
  /\ timers' = {[t EXCEPT !.left = IF @ = 0 THEN 0 ELSE @ - 1] : t \in timers}
  /\ pingQ' = [p \in Cells |->
       IF p \notin Live \/ pingQ[p].since \in {Unset, Timeout + 1} THEN pingQ[p]
       ELSE [pingQ[p] EXCEPT !.since = @ + 1]]
  /\ UNCHANGED <<ping_retries, Cache, echoes, history>>

DiscoverNext ==
  \/ \E e \in Requests : handle_discover_request(e)
  \/ \E n \in Retries : handle_set_settings(n)
  \/ \E t \in timers : ping_send(t)
  \/ \E t \in timers : ping_send_done(t)
  \/ \E e \in echoes : handle_ping_recieve(e)
  \/ Tick

DiscoverSpec == DiscoverInit /\ [][DiscoverNext]_discoverVars

(* The clock runs and sched.c calls every timer that is due (Sched). *)
DiscoverFairness ==
  /\ WF_discoverVars(Tick)
  /\ \A p \in Cells : WF_discoverVars(\E t \in timers : t.p = p /\ (ping_send(t) \/ ping_send_done(t)))

DiscoverFairSpec == DiscoverSpec /\ DiscoverFairness

-----------------------------------------------------------------------------
(* Properties. *)

QueuedIds == {pingQ[p].id : p \in Live}

(* A discover reply names an address of the asker's own range from which an *)
(* answer has come, whatever late answers to earlier requests at the same   *)
(* memory and whatever cache entries it rests on.                           *)
RepliesAreTrue ==
  \A f \in found :
    /\ f.id <= Len(asked)
    /\ asked[f.id].lo <= f.ip /\ f.ip <= asked[f.id].hi
    /\ f.ip \in answered

(* A request that left pingQ has seen its whole range: every address was    *)
(* pinged, or reported from the cache, or is a broadcast address.  A change *)
(* of ping_retries in the middle of a sweep makes no hole.                  *)
EveryAddressTried ==
  \A id \in 1..Len(asked) :
    id \notin QueuedIds =>
      \A ip \in asked[id].lo..asked[id].hi :
        ip \in Broadcast \/ ip \in tried[id] \/ [id |-> id, ip |-> ip] \in found

(* Every request ends, unless it was stranded.                              *)
EveryRequestEnds ==
  \A id \in Ids : id \in QueuedIds ~> id \notin QueuedIds \/ id \in stranded
=============================================================================
