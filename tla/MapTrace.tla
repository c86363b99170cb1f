------------------------------ MODULE MapTrace ------------------------------
(***************************************************************************)
(* Traces of the route to a host (src/agent-map.c): an ICMP probe for hop  *)
(* 1, 2, 3, ... of each request, the answers of the routers and of the     *)
(* host, a link sent to the client for each answer, and a timer that sends *)
(* again what got no answer for MAP_REQUEST_TIMEOUT seconds.               *)
(*                                                                         *)
(* The traces are numbered as they are started; the list mrq, which is     *)
(* newest first, is the set of the numbers in it.  The network loses,      *)
(* delays and reorders answers and delivers some twice.  The socket hears  *)
(* every ICMP packet, so an ICMP_DEST_UNREACH of a traced host may come at *)
(* any time, whatever packet the host refused as a router or as a host.    *)
(* Left out: ICMP_TIME_EXCEEDED about packets of others to a traced host.  *)
(*                                                                         *)
(* A definition marked "Wrong:" is the one below it as a plausible bug     *)
(* would have it; no action uses it (README.md, Sensitivity).              *)
(***************************************************************************)
EXTENDS Integers, Sequences, FiniteSets, Bags

CONSTANTS
  Dests,        (* hosts to trace, other than the agent's own address      *)
  Pages,        (* np: the clients' pointers, given back with each link    *)
  Local,        (* the agent's address towards them                        *)
  Path,         (* the hops to each host, the host itself last             *)
  MAP_MAX,      (* no probe goes further                                   *)
  MaxRetries,   (* MAX_MAP_REQUEST_RETRIES                                 *)
  TimeoutMax,   (* MAP_TIMEOUT_MAX                                         *)
  MaxTraces,    (* bound: traces started                                   *)
  MaxTwice      (* bound: answers delivered twice                          *)

Hops == UNION {{Path[d][k] : k \in 1..Len(Path[d])} : d \in Dests}

ASSUME MapAssumption ==
  /\ \A d \in Dests : Len(Path[d]) \in Nat \ {0} /\ Path[d][Len(Path[d])] = d
  /\ MAP_MAX \in Nat \ {0}
  /\ MaxRetries \in Nat
  /\ TimeoutMax \in Nat \ {0}
  /\ MaxTraces \in Nat /\ MaxTwice \in Nat

VARIABLES
  trace,      (* the requests; history: links, the links sent so far, and  *)
              (* cut, whether an ICMP_DEST_UNREACH ended the request       *)
  mrq,        (* the requests in the list                                  *)
  overdue,    (* those whose last probe is too long ago                    *)
  timer,      (* timeout_installed                                         *)
  listening,  (* the socket that the answers arrive on is open: a          *)
              (* discovery has pinged something (agent-discover.c:318)     *)
  net,        (* answers on their way                                      *)
  twice,      (* number of answers that were delivered and kept            *)
  disturbed   (* history: hosts whose answers may have been mixed up       *)

vars == <<trace, mrq, overdue, timer, listening, net, twice, disturbed>>

Answers == [type : {"exceeded", "reply"}, dest : Dests, from : Hops, ttl : 1..MAP_MAX]

Link  == [from : Hops \union {Local}, to : Hops]
Trace == [dest : Dests, np : Pages, ttl : 1..MAP_MAX, retries : 1..(MaxRetries + 1),
          last : Hops \union {Local}, links : Seq(Link), cut : BOOLEAN]

Init ==
  /\ trace = <<>> /\ mrq = {} /\ overdue = {}
  /\ timer = FALSE /\ listening = FALSE
  /\ net = EmptyBag /\ twice = 0 /\ disturbed = {}

(* What comes back for a probe of d with this ttl. *)
Answer(d, ttl) ==
  IF ttl < Len(Path[d])
  THEN [type |-> "exceeded", dest |-> d, from |-> Path[d][ttl], ttl |-> ttl]
  ELSE [type |-> "reply", dest |-> d, from |-> d, ttl |-> ttl]

(* mr_probe for each of the requests ns, as they are in tr: the answers.    *)
Probes(ns, tr) ==
  LET answer(n) == Answer(tr[n].dest, tr[n].ttl)
  IN  [a \in {answer(n) : n \in ns} |-> Cardinality({n \in ns : answer(n) = a})]

(* "check to see if there is already a request" *)
Requested(d, np) == \E n \in mrq : trace[n].dest = d /\ trace[n].np = np

(* Somebody else's answers for d are still to come. *)
Awaited(d) == \/ \E n \in mrq : trace[n].dest = d
              \/ \E a \in BagToSet(net) : a.dest = d

(* Wrong: the timer is left to the next caller. *)
InstallOnce == timer' = (timer \/ trace = <<>>)

InstallTimer == timer' = TRUE

(* handle_map_icmp_request and start_mapping.  A request for the same host  *)
(* and page is ignored.                                                     *)
start_mapping(d, np) ==
  /\ Len(trace) < MaxTraces
  /\ ~Requested(d, np)
  /\ trace' = Append(trace, [dest |-> d, np |-> np, ttl |-> 1, retries |-> 1,
                             last |-> Local, links |-> <<>>, cut |-> FALSE])
  /\ mrq' = mrq \union {Len(trace) + 1}
  /\ InstallTimer
  /\ net' = net (+) Probes({Len(trace) + 1}, trace')
  /\ disturbed' = IF Awaited(d) THEN disturbed \union {d} ELSE disturbed
  /\ UNCHANGED <<overdue, listening, twice>>

(* Ten seconds have passed since the last probe. *)
Late(n) ==
  /\ overdue' = overdue \union {n}
  /\ UNCHANGED <<trace, mrq, timer, listening, net, twice, disturbed>>

(* The first TimeoutMax late requests of the list. *)
InSweep == {n \in overdue : Cardinality({m \in overdue : m >= n}) <= TimeoutMax}

GivenUp == {n \in InSweep : trace[n].retries > MaxRetries}

(* map_timeout, every 100 ms: late requests are given up or probed again.   *)
map_timeout ==
  /\ timer
  /\ mrq # {}
  /\ LET again == InSweep \ GivenUp
     IN  /\ trace' = [n \in 1..Len(trace) |->
                        IF n \in again THEN [trace[n] EXCEPT !.retries = @ + 1]
                                       ELSE trace[n]]
         /\ net' = net (+) Probes(again, trace')
         /\ disturbed' = disturbed \union {trace[n].dest : n \in again}
  /\ mrq' = mrq \ GivenUp
  /\ overdue' = overdue \ InSweep
  /\ UNCHANGED <<timer, listening, twice>>

(* ... and the timer ends when there is nothing to do. *)
TimerEnds ==
  /\ timer
  /\ mrq = {}
  /\ timer' = FALSE
  /\ UNCHANGED <<trace, mrq, overdue, listening, net, twice, disturbed>>

(* An answer is taken from the network, or delivered and kept. *)
Arrives(a) ==
  /\ listening
  /\ a \in BagToSet(net)

Kept(a) ==
  \/ twice' = twice /\ UNCHANGED disturbed
  \/ /\ twice < MaxTwice
     /\ twice' = twice + 1
     /\ disturbed' = disturbed \union {a.dest}

Rest(a) == IF twice' = twice THEN net (-) SetToBag({a}) ELSE net

(* map_connect sends the link from the last hop to this one. *)
Linked(tr, hop) == [tr EXCEPT !.links = Append(@, [from |-> tr.last, to |-> hop])]

(* Wrong: the hop before stays the last one. *)
NextHopKeepingLast(tr, hop) ==
  [Linked(tr, hop) EXCEPT !.ttl = @ + 1, !.retries = 1]

(* The request goes on with the next hop. *)
NextHop(tr, hop) ==
  [Linked(tr, hop) EXCEPT !.ttl = @ + 1, !.retries = 1, !.last = hop]

(* handle_map, ICMP_TIME_EXCEEDED: every request for the host goes on,      *)
(* whatever hop the answer is from (`ttl = mr->ttl`), or ends at MAP_MAX.   *)
TimeExceeded(a) ==
  /\ Arrives(a)
  /\ a.type = "exceeded"
  /\ Kept(a)
  /\ LET hits == {n \in mrq : trace[n].dest = a.dest}
         goOn == {n \in hits : trace[n].ttl < MAP_MAX}
     IN  /\ trace' = [n \in 1..Len(trace) |->
                        IF n \in goOn THEN NextHop(trace[n], a.from) ELSE trace[n]]
         /\ mrq' = mrq \ (hits \ goOn)
         /\ overdue' = overdue \ hits
         /\ net' = Rest(a) (+) Probes(goOn, trace')
  /\ UNCHANGED <<timer, listening>>

(* Wrong: the answers of the other hosts end the request as well. *)
EndedByAny(a) == mrq

(* The requests that an ICMP_ECHOREPLY ends: those for its sender. *)
EndedBy(a) == {n \in mrq : trace[n].dest = a.from}

(* handle_map, ICMP_ECHOREPLY: the last link. *)
EchoReply(a) ==
  /\ Arrives(a)
  /\ a.type = "reply"
  /\ Kept(a)
  /\ LET ended == IF a.ttl < MAP_MAX THEN EndedBy(a) ELSE {}
     IN  /\ trace' = [n \in 1..Len(trace) |->
                        IF n \in ended THEN Linked(trace[n], a.from) ELSE trace[n]]
         /\ mrq' = mrq \ ended
         /\ overdue' = overdue \ ended
  /\ net' = Rest(a)
  /\ UNCHANGED <<timer, listening>>

(* The request ends at a host that refused a packet. *)
Cut(tr, hop) == [Linked(tr, hop) EXCEPT !.cut = TRUE]

(* handle_map, ICMP_DEST_UNREACH, which "falls through" to the echo reply:  *)
(* the sender is taken for the last hop of the requests for it, wherever    *)
(* these have got to.  Dropped when the checksum of the packet it quotes,   *)
(* read as a port, is below EMPTY_PORT.                                     *)
DestUnreach(h) ==
  /\ listening
  /\ LET ended == {n \in mrq : trace[n].dest = h}
     IN  /\ ended # {}
         /\ trace' = [n \in 1..Len(trace) |->
                        IF n \in ended THEN Cut(trace[n], h) ELSE trace[n]]
         /\ mrq' = mrq \ ended
         /\ overdue' = overdue \ ended
  /\ UNCHANGED <<timer, listening, net, twice, disturbed>>

Lose(a) ==
  /\ a \in BagToSet(net)
  /\ net' = net (-) SetToBag({a})
  /\ UNCHANGED <<trace, mrq, overdue, timer, listening, twice, disturbed>>

(* ping_send opens the socket. *)
OpenSocket ==
  /\ ~listening
  /\ listening' = TRUE
  /\ UNCHANGED <<trace, mrq, overdue, timer, net, twice, disturbed>>

Next ==
  \/ \E d \in Dests, np \in Pages : start_mapping(d, np)
  \/ \E n \in mrq : Late(n)
  \/ map_timeout
  \/ TimerEnds
  \/ \E a \in BagToSet(net) : TimeExceeded(a)
  \/ \E a \in BagToSet(net) : EchoReply(a)
  \/ \E h \in Dests : DestUnreach(h)
  \/ \E a \in BagToSet(net) : Lose(a)
  \/ OpenSocket

Spec == Init /\ [][Next]_vars

(* Time passes and the timer runs (Sched, EveryEventRuns).  The network     *)
(* promises nothing.                                                        *)
Fairness ==
  /\ \A n \in 1..MaxTraces : WF_vars(n \in mrq /\ Late(n))
  /\ WF_vars(map_timeout)

FairSpec == Spec /\ Fairness

-----------------------------------------------------------------------------
(* Properties. *)

(* The state keeps the types of src/agent-map.c's variables; no hop is      *)
(* probed more often than once and MAX_MAP_REQUEST_RETRIES times again.     *)
TypeOK ==
  /\ trace \in Seq(Trace)
  /\ mrq \subseteq 1..Len(trace)
  /\ overdue \subseteq mrq
  /\ timer \in BOOLEAN
  /\ listening \in BOOLEAN
  /\ BagToSet(net) \subseteq Answers
  /\ twice \in 0..MaxTwice
  /\ disturbed \subseteq Dests

(* While a request is in the list its timer runs, although the timer ends   *)
(* itself whenever it finds the list empty (map_timeout, start_mapping).    *)
TimerWatches == mrq # {} => timer

(* The links that a client gets for a request are one path: each begins     *)
(* where the one before ended, the first at the agent, whatever answers     *)
(* are lost, late or doubled.                                               *)
LinksFormPath ==
  \A n \in 1..Len(trace) :
    LET tr == trace[n]
    IN  \A k \in 1..Len(tr.links) :
          tr.links[k].from = IF k = 1 THEN Local ELSE tr.links[k - 1].to

(* The path is the one the packets took as long as nothing could be mixed   *)
(* up: one request for the host at a time, no probe sent again, no answer   *)
(* delivered twice.  Losses do no harm.  An ICMP_DEST_UNREACH of the host   *)
(* cuts the path short: what was found is true, but the last link leads     *)
(* from there to the host, over hops nobody has seen.                       *)
UndisturbedPathIsTrue ==
  \A n \in 1..Len(trace) :
    LET tr == trace[n]
    IN  tr.dest \notin disturbed =>
          /\ Len(tr.links) <= Len(Path[tr.dest])
          /\ \A k \in 1..Len(tr.links) :
               \/ tr.links[k].to = Path[tr.dest][k]
               \/ tr.cut /\ k = Len(tr.links) /\ tr.links[k].to = tr.dest

(* Every request leaves the list: the host answers, the path is too long,   *)
(* or the retries run out.                                                  *)
EveryTraceEnds ==
  \A n \in 1..MaxTraces : n \in mrq ~> n \notin mrq
=============================================================================
