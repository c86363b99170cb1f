------------------------------ MODULE Requests ------------------------------
(***************************************************************************)
(* What the GUI asks of its agent and does with the replies                 *)
(* (src/gui-handlers.c), the name lookups that come first (src/gui-dns.c)   *)
(* and the pages that the replies are for (src/gui-viewspace.c).            *)
(*                                                                         *)
(* A request waits for its names in a structure that one callback hands to  *)
(* the next; a reply names its page by the address of that page.  While a   *)
(* lookup is made, and while a dialog is open, the handler that did it runs *)
(* the GTK loop, and with it other handlers: the variable stack holds the   *)
(* handlers that wait for such an inner loop, innermost first.  A gtk       *)
(* timeout is not called again while its callback runs.                     *)
(*                                                                         *)
(* A host is written as a text: its name, or its address itself.  Memory    *)
(* that was freed may be used again.  What merging and deleting do to the   *)
(* objects of a page in detail is the subject of Canvas.                    *)
(*                                                                         *)
(* A definition marked "Wrong:" is the one below it as a plausible bug      *)
(* would have it; no action uses it (README.md, Sensitivity).              *)
(***************************************************************************)
EXTENDS Integers, FiniteSets, Sequences, SequencesExt

CONSTANTS
  Names,       (* names of hosts                                           *)
  Addrs,       (* addresses                                                *)
  Resolve,     (* the address of each name                                 *)
  NetSize,     (* the number of addresses in a network                     *)
  Discovers,   (* the hosts, and networks with their masks, that are asked *)
               (* for ...                                                  *)
  Ranges,      (* ... and the ranges, from one text to another             *)
  Pages,       (* memory for net_page                                      *)
  Objects,     (* memory for page_object                                   *)
  Structs,     (* memory for discover_dns                                  *)
  Free,        (* memory that is not allocated                             *)
  None,        (* NULL                                                     *)
  GoodMask,    (* a netmask that do_network_discover_after_dns accepts     *)
  BadMask,     (* one that it does not                                     *)
  Settings,    (* the sets of options that the user switches between       *)
  MaxRequests, (* bound: discover requests                                 *)
  MaxLookups,  (* bound: lookups at a time                                 *)
  MaxNest,     (* bound: inner loops                                       *)
  MaxSent      (* bound: requests that the agent has at a time             *)

Text   == Names \union Addrs
Object == [np : Pages, ip : Addrs, name : Text]
Struct == [start : Text \union {None}, end : Text \union {None, GoodMask, BadMask},
           lo : Nat, hi : Nat, np : Pages, net : BOOLEAN]

ASSUME RequestsAssumption ==
  /\ Addrs \subseteq Nat \ {0} /\ Names \intersect Addrs = {}
  /\ Resolve \in [Names -> Addrs]
  /\ NetSize \in Nat \ {0}
  /\ Discovers \subseteq Text \X {None, GoodMask, BadMask} /\ Ranges \subseteq Text \X Text
  /\ Settings \subseteq SUBSET {"map", "reverse"}
  /\ Free \notin Object /\ Free \notin Struct

VARIABLES
  open,            (* the pages of main_window->net_pages                  *)
  objects,         (* what each cell holds: an object of a page, or Free   *)
  links,           (* the links on the pages, as sets of two objects       *)
  structs,         (* what each struct discover_dns holds, or Free         *)
  dns_query_list,  (* the lookups that adns works at, newest first         *)
  dns_timer_int,   (* whether the timer of the lookups is set              *)
  stack,           (* the handlers inside of which a GTK loop runs         *)
  IP_cache,        (* the names of hosts that were asked for               *)
  sent,            (* what the agent has still to answer                   *)
  options,         (* the options that are switched on                     *)
  misnamed,        (* history: a name was given to an object that is freed *)
  asked            (* bound: the number of discover requests so far        *)

vars == <<open, objects, links, structs, dns_query_list, dns_timer_int, stack,
          IP_cache, sent, options, misnamed, asked>>

Query  == [ask : Text, cb : {"host", "net", "first", "last", "node"}, data : Structs \union Objects]
Frame  == [at : {"timer", "dialog"}, q : Query, loop : BOOLEAN]
            \union [at : {"ip1", "ip2", "link"}, np : Pages, ip1 : Addrs, ip2 : Addrs, loop : BOOLEAN]

TypeOK ==
  /\ open \subseteq Pages
  /\ objects \in [Objects -> Object \union {Free}]
  /\ links \subseteq SUBSET Objects
  /\ structs \in [Structs -> Struct \union {Free}]
  /\ dns_query_list \in Seq(Query)
  /\ dns_timer_int \in BOOLEAN
  /\ stack \in Seq(Frame)
  /\ IP_cache \in Seq([ip : Nat, name : Text])
  /\ \A m \in sent : m.type \in {"discover", "map"} /\ m.np \in Pages
  /\ options \subseteq {"map", "reverse"}
  /\ misnamed \in BOOLEAN

Init ==
  /\ open = {}
  /\ objects = [o \in Objects |-> Free]
  /\ links = {}
  /\ structs = [s \in Structs |-> Free]
  /\ dns_query_list = <<>>
  /\ dns_timer_int = FALSE
  /\ stack = <<>>
  /\ IP_cache = <<>>
  /\ sent = {}
  /\ options \in Settings
  /\ misnamed = FALSE
  /\ asked = 0

(* A handler may start: none is running, or the innermost runs the loop. *)
Looping == stack # <<>> => stack[1].loop
Nest(f) == stack' = <<f>> \o stack

(* The agent has the requests S to answer. *)
Agent(S) == sent' = S /\ Cardinality(S) <= MaxSent

-----------------------------------------------------------------------------
(* src/gui-dns.c and src/gui-handlers.c: from a text to a request *)

(* The lookups: with dns is their list and timer, as a handler finds them,  *)
(* or as dns_timer leaves them once it has taken one off: the timer stays   *)
(* set unless nothing is left to wait for.                                  *)
Lookups == [list |-> dns_query_list, timer |-> dns_timer_int]

(* Wrong: the lookup stays on the list; the timer does not stay set. *)
WithoutTimer(q)   == [list |-> RemoveFirst(dns_query_list, q), timer |-> FALSE]
Without(q) ==
  LET list == RemoveFirst(dns_query_list, q) IN [list |-> list, timer |-> list # <<>>]

(* dns_name_lookup and dns_reverse_lookup. *)
Lookup(ask, cb, data, dns) ==
  /\ dns_query_list' = <<[ask |-> ask, cb |-> cb, data |-> data]>> \o dns.list
  /\ dns_timer_int' = TRUE

NoLookup(dns) == dns_query_list' = dns.list /\ dns_timer_int' = dns.timer

(* send_discover_request, after which every caller frees the structure.  The *)
(* agent has nothing to answer for a range whose ends are the wrong way      *)
(* round: it takes no reply for one of that range.                           *)
send_discover_request(s, d) ==
  /\ IP_cache' = IF d.start = None THEN IP_cache
                 ELSE <<[ip |-> d.lo, name |-> d.start]>> \o IP_cache
  /\ IF d.lo > d.hi THEN UNCHANGED sent
     ELSE Agent(sent \union {[type |-> "discover", np |-> d.np, ips |-> d.lo..d.hi]})
  /\ structs' = [structs EXCEPT ![s] = Free]

Network(ip) == ip - (ip % NetSize)

do_host_discover_after_dns(s, d, ip, dns) ==
  /\ send_discover_request(s, [d EXCEPT !.lo = ip, !.hi = ip])
  /\ NoLookup(dns)

(* A bad netmask: the handler returns and the structure stays allocated. *)
do_network_discover_after_dns(s, d, ip, dns) ==
  /\ IF d.end = BadMask
     THEN structs' = [structs EXCEPT ![s] = d] /\ UNCHANGED <<IP_cache, sent>>
     ELSE send_discover_request(s, [d EXCEPT !.lo = Network(ip), !.hi = Network(ip) + NetSize - 1])
  /\ NoLookup(dns)

(* Wrong: the addresses are swapped and the names are not. *)
SwapAddresses(d, ip) == [d EXCEPT !.lo = ip, !.hi = d.lo]

(* The ends of the range, name and address together. *)
SwapEnds(d, ip) == [d EXCEPT !.lo = ip, !.hi = d.lo, !.start = d.end, !.end = d.start]

(* The ends are swapped if the first is the higher one; but their bytes are *)
(* compared in the order of the network, in which it may be either.         *)
do_discover_range_after_last_dns(s, d, ip, dns) ==
  /\ \/ send_discover_request(s, [d EXCEPT !.hi = ip])
     \/ send_discover_request(s, SwapEnds(d, ip))
  /\ NoLookup(dns)

do_discover_range_after_first_dns(s, d, ip, dns) ==
  LET e == [d EXCEPT !.lo = ip]
  IN  IF d.end \in Addrs
      THEN do_discover_range_after_last_dns(s, e, d.end, dns)
      ELSE /\ structs' = [structs EXCEPT ![s] = e]
           /\ Lookup(d.end, "last", s, dns)
           /\ UNCHANGED <<IP_cache, sent>>

(* The callback cb for the structure s, which holds d. *)
AfterDns(cb, s, d, ip, dns) ==
  CASE cb = "host"  -> do_host_discover_after_dns(s, d, ip, dns)
    [] cb = "net"   -> do_network_discover_after_dns(s, d, ip, dns)
    [] cb = "first" -> do_discover_range_after_first_dns(s, d, ip, dns)
    [] cb = "last"  -> do_discover_range_after_last_dns(s, d, ip, dns)

(* Look text up, or go on at once if it is an address. *)
Ask(text, cb, s, d) ==
  IF text \in Addrs THEN AfterDns(cb, s, d, text, Lookups)
  ELSE /\ structs' = [structs EXCEPT ![s] = d]
       /\ Lookup(text, cb, s, Lookups)
       /\ UNCHANGED <<IP_cache, sent>>

MayAsk ==
  /\ Looping
  /\ asked < MaxRequests /\ asked' = asked + 1
  /\ Len(dns_query_list) < MaxLookups
  /\ UNCHANGED <<open, objects, links, stack, options>>

(* do_discover: a host, or a network with its mask, on page np. *)
do_discover(np, host, mask) ==
  /\ MayAsk
  /\ \E s \in Structs :
       /\ structs[s] = Free
       /\ Ask(host, IF mask = None THEN "host" ELSE "net", s,
              [start |-> IF mask = None /\ host \in Addrs THEN None ELSE host,
               end |-> mask, lo |-> 0, hi |-> 0, np |-> np, net |-> mask # None])

do_discover_range(np, first, last) ==
  /\ MayAsk
  /\ \E s \in Structs :
       /\ structs[s] = Free
       /\ Ask(first, "first", s, [start |-> first, end |-> last, lo |-> 0, hi |-> 0,
                                  np |-> np, net |-> FALSE])

(* dns_timer finds that adns has done with a lookup.  It lets GTK run       *)
(* before it takes the lookup off the list.                                 *)
dns_timer_finds(q) ==
  /\ Looping
  /\ dns_timer_int
  /\ \A i \in 1..Len(stack) : stack[i].at \notin {"timer", "dialog"}
  /\ Len(stack) < MaxNest
  /\ Nest([at |-> "timer", q |-> q, loop |-> TRUE])
  /\ UNCHANGED <<open, objects, links, structs, dns_query_list, dns_timer_int, IP_cache,
                 sent, options, asked>>

(* The object may be gone, and another live at its address: only one with   *)
(* the address that was asked for is renamed.                               *)
reverse_lookup_cb(o, ip, name) ==
  /\ objects[o] # Free
  /\ objects' = IF objects[o].ip = ip THEN [objects EXCEPT ![o].name = name] ELSE objects

(* dns_timer with an answer. *)
dns_timer_answer ==
  /\ stack # <<>> /\ stack[1].at = "timer"
  /\ stack' = Tail(stack)
  /\ LET q == stack[1].q
     IN  \/ /\ q.cb = "node"
            /\ \E n \in Names : Resolve[n] = q.ask /\ reverse_lookup_cb(q.data, q.ask, n)
            /\ NoLookup(Without(q))
            /\ UNCHANGED <<structs, IP_cache, sent>>
         \/ /\ q.cb # "node" /\ q.ask \in Names
            /\ AfterDns(q.cb, q.data, structs[q.data], Resolve[q.ask], Without(q))
            /\ UNCHANGED objects
  /\ UNCHANGED <<open, links, options, asked>>

(* The same with an object that is gone, whose memory still has the address *)
(* that was asked for: its name is freed again, and it is shown.  Nothing   *)
(* is said of the program after that.  (With another address there, nothing *)
(* happens, as after a failure.)                                            *)
NameForNothing ==
  /\ stack # <<>> /\ stack[1].at = "timer"
  /\ LET q == stack[1].q
     IN  q.cb = "node" /\ objects[q.data] = Free /\ \E n \in Names : Resolve[n] = q.ask
  /\ misnamed' = TRUE
  /\ UNCHANGED <<open, objects, links, structs, dns_query_list, dns_timer_int, stack, IP_cache,
                 sent, options, asked>>

(* dns_timer with a failure: dns_timeout opens a dialog, and GTK runs; a    *)
(* reverse lookup has no such callback.                                     *)
dns_timer_fail ==
  /\ stack # <<>> /\ stack[1].at = "timer"
  /\ LET q == stack[1].q
     IN  /\ IF q.cb = "node" THEN stack' = Tail(stack)
            ELSE stack' = <<[at |-> "dialog", q |-> q, loop |-> TRUE]>> \o Tail(stack)
         /\ IF q.cb = "node" THEN NoLookup(Without(q))
            ELSE NoLookup([Without(q) EXCEPT !.timer = TRUE])
  /\ UNCHANGED <<open, objects, links, structs, IP_cache, sent, options, asked>>

(* dns_timeout: "Do you want me to try it again?"  What is asked again is   *)
(* always the start, with the callback for a host or a network.             *)
dns_timeout_yes ==
  /\ stack # <<>> /\ stack[1].at = "dialog"
  /\ stack' = Tail(stack)
  /\ LET s == stack[1].q.data
     IN  Lookup(structs[s].start, IF structs[s].net THEN "net" ELSE "host", s, Lookups)
  /\ UNCHANGED <<open, objects, links, structs, IP_cache, sent, options, asked>>

dns_timeout_no ==
  /\ stack # <<>> /\ stack[1].at = "dialog"
  /\ stack' = Tail(stack)
  /\ structs' = [structs EXCEPT ![stack[1].q.data] = Free]
  /\ NoLookup([Lookups EXCEPT !.timer = dns_query_list # <<>>])
  /\ UNCHANGED <<open, objects, links, IP_cache, sent, options, asked>>

-----------------------------------------------------------------------------
(* src/gui-handlers.c: replies *)

Found(np, ip) == {o \in Objects : /\ objects[o] # Free /\ np \in open
                                  /\ objects[o].np = np /\ objects[o].ip = ip}

Request(type, np, ip) == [type |-> type, np |-> np, ips |-> {ip}]

(* m without the answer about ip. *)
Answered(m, ip) ==
  (sent \ {m}) \union (IF m.ips = {ip} THEN {} ELSE {[m EXCEPT !.ips = @ \ {ip}]})

(* add_host_entry_to_net_page looks for the host first. *)
ObjectFor(np, ip) ==
  IF Found(np, ip) # {} THEN Found(np, ip) ELSE {o \in Objects : objects[o] = Free}

(* add_discovered_node and add_host_entry_to_net_page on a page that is     *)
(* open; a host without a name is shown by its address.                     *)
add_discovered_node(np, ip, name, mapit, requests) ==
  \E o \in ObjectFor(np, ip) :
    /\ objects' = [objects EXCEPT ![o] =
         IF @ = Free THEN [np |-> np, ip |-> ip, name |-> IF name = None THEN ip ELSE name]
         ELSE IF name = None THEN @ ELSE [@ EXCEPT !.name = name]]
    /\ Agent(requests
         \union (IF "map" \in options /\ mapit THEN {Request("map", np, ip)} ELSE {}))
    /\ IF name = None /\ "reverse" \in options
       THEN Len(dns_query_list) < MaxLookups /\ Lookup(ip, "node", o, Lookups)
       ELSE NoLookup(Lookups)

(* get_ip_cache: the newest name for ip, which it takes off the list. *)
CachedAt(ip)   == SelectInSeq(IP_cache, LAMBDA c : c.ip = ip)
CachedName(ip) == IF CachedAt(ip) = 0 THEN None ELSE IP_cache[CachedAt(ip)].name

(* Wrong: the page is taken to be there. *)
is_valid_net_pageUnchecked(np) == TRUE
is_valid_net_page(np) == np \in open

(* The name is taken off the cache whether or not the page is still there. *)
handle_discover_reply(m, ip) ==
  /\ Looping
  /\ m.type = "discover" /\ ip \in m.ips
  /\ IP_cache' = IF CachedAt(ip) = 0 THEN IP_cache ELSE RemoveAt(IP_cache, CachedAt(ip))
  /\ IF is_valid_net_page(m.np)
     THEN add_discovered_node(m.np, ip, CachedName(ip), TRUE, Answered(m, ip))
     ELSE sent' = Answered(m, ip) /\ UNCHANGED <<objects, dns_query_list, dns_timer_int>>
  /\ UNCHANGED <<open, links, structs, stack, options, asked>>

(* handle_map_icmp_reply: the link from ip1 to ip2, if they differ. *)
handle_map_icmp_reply(m, ip, ip1, ip2) ==
  /\ Looping
  /\ m.type = "map" /\ ip \in m.ips
  /\ Len(stack) < MaxNest
  /\ sent' = Answered(m, ip)
  /\ IF ip1 = ip2 THEN UNCHANGED stack
     ELSE Nest([at |-> "ip1", np |-> m.np, ip1 |-> ip1, ip2 |-> ip2, loop |-> FALSE])
  /\ UNCHANGED <<open, objects, links, structs, dns_query_list, dns_timer_int, IP_cache, options, asked>>

(* It adds either end that is not there.  A reverse lookup runs GTK, after  *)
(* which the page may be gone.                                              *)
MapEnd(at, ip, then) ==
  /\ stack # <<>> /\ stack[1].at = at
  /\ LET f == stack[1]
     IN  IF Found(f.np, ip) = {} /\ is_valid_net_page(f.np)
         THEN /\ add_discovered_node(f.np, ip, None, FALSE, sent)
              /\ stack' = [stack EXCEPT ![1].at = then, ![1].loop = "reverse" \in options]
         ELSE /\ stack' = [stack EXCEPT ![1].at = then, ![1].loop = FALSE]
              /\ UNCHANGED <<objects, dns_query_list, dns_timer_int, sent>>
  /\ UNCHANGED <<open, links, structs, IP_cache, options, asked>>

MapFirstEnd  == MapEnd("ip1", stack[1].ip1, "ip2")
MapSecondEnd == MapEnd("ip2", stack[1].ip2, "link")

(* Both ends are looked up again, and linked if they are found. *)
MapLink ==
  /\ stack # <<>> /\ stack[1].at = "link"
  /\ links' = links \union {{a, b} : a \in Found(stack[1].np, stack[1].ip1),
                                     b \in Found(stack[1].np, stack[1].ip2)}
  /\ stack' = Tail(stack)
  /\ UNCHANGED <<open, objects, structs, dns_query_list, dns_timer_int, IP_cache, sent, options, asked>>

-----------------------------------------------------------------------------
(* src/gui-viewspace.c, src/gui-canvas.c, src/gui-settings.c: the user *)

make_viewspace(np) ==
  /\ Looping /\ np \notin open
  /\ open' = open \union {np}
  /\ UNCHANGED <<objects, links, structs, dns_query_list, dns_timer_int, stack, IP_cache,
                 sent, options, asked>>

(* page_object_delete, with the links of the object. *)
DropObjects(gone) ==
  /\ objects' = [o \in Objects |-> IF o \in gone THEN Free ELSE objects[o]]
  /\ links' = {l \in links : l \intersect gone = {}}

net_page_remove(np) ==
  /\ Looping /\ np \in open
  /\ DropObjects({o \in Objects : objects[o] # Free /\ objects[o].np = np})
  /\ open' = open \ {np}
  /\ UNCHANGED <<structs, dns_query_list, dns_timer_int, stack, IP_cache, sent, options, asked>>

page_object_delete(o) ==
  /\ Looping /\ objects[o] # Free
  /\ DropObjects({o})
  /\ UNCHANGED <<open, structs, dns_query_list, dns_timer_int, stack, IP_cache, sent, options, asked>>

(* The user asks for one thing about a selected object. *)
net_page_dns_plink(o) ==
  /\ Looping /\ objects[o] # Free
  /\ Len(dns_query_list) < MaxLookups
  /\ Lookup(objects[o].ip, "node", o, Lookups)
  /\ UNCHANGED <<open, objects, links, structs, stack, IP_cache, sent, options, asked>>

net_page_map_plink(o) ==
  /\ Looping /\ objects[o] # Free
  /\ Agent(sent \union {Request("map", objects[o].np, objects[o].ip)})
  /\ UNCHANGED <<open, objects, links, structs, dns_query_list, dns_timer_int, stack, IP_cache,
                 options, asked>>

apply_settings(set) ==
  /\ Looping
  /\ options' = set
  /\ UNCHANGED <<open, objects, links, structs, dns_query_list, dns_timer_int, stack, IP_cache,
                 sent, asked>>

-----------------------------------------------------------------------------

Step ==
  \/ \E np \in open, d \in Discovers : do_discover(np, d[1], d[2])
  \/ \E np \in open, r \in Ranges : do_discover_range(np, r[1], r[2])
  \/ \E i \in 1..Len(dns_query_list) : dns_timer_finds(dns_query_list[i])
  \/ dns_timer_answer
  \/ dns_timer_fail
  \/ dns_timeout_yes
  \/ dns_timeout_no
  \/ \E m \in sent, ip \in Addrs : handle_discover_reply(m, ip)
  \/ \E m \in sent, ip, ip1, ip2 \in Addrs : handle_map_icmp_reply(m, ip, ip1, ip2)
  \/ MapFirstEnd
  \/ MapSecondEnd
  \/ MapLink
  \/ \E np \in Pages : make_viewspace(np)
  \/ \E np \in Pages : net_page_remove(np)
  \/ \E o \in Objects : page_object_delete(o)
  \/ \E o \in Objects : net_page_dns_plink(o)
  \/ \E o \in Objects : net_page_map_plink(o)
  \/ \E set \in Settings : apply_settings(set)

Next ==
  /\ ~misnamed
  /\ \/ Step /\ UNCHANGED misnamed
     \/ NameForNothing

Spec == Init /\ [][Next]_vars

-----------------------------------------------------------------------------
(* Properties. *)

(* The lookups that carry a structure: in the list, with dns_timer, or      *)
(* behind its dialog.                                                       *)
Waiting(s) ==
  {<<"list", i>> : i \in {j \in 1..Len(dns_query_list) :
                            dns_query_list[j].cb # "node" /\ dns_query_list[j].data = s}}
  \union
  {<<"dialog", i>> : i \in {j \in 1..Len(stack) :
                              stack[j].at = "dialog" /\ stack[j].q.data = s}}

(* A structure is handed from callback to callback and freed by the last:   *)
(* as long as it is allocated exactly one lookup or dialog has it, and none *)
(* has one that was freed.  Only a bad netmask leaves one behind.           *)
StructsHeld ==
  \A s \in Structs :
    /\ structs[s] = Free => Waiting(s) = {}
    /\ structs[s] # Free => \/ \E w \in Waiting(s) : Waiting(s) = {w}
                            \/ structs[s].end = BadMask /\ Waiting(s) = {}

(* No lookup waits without the timer that looks after it, although one that *)
(* is made in the middle of dns_timer, from its callback or from a handler  *)
(* that runs in its inner loop, finds the timer set and sets no other.      *)
LookupsAreTimed == dns_query_list # <<>> => dns_timer_int

(* No lookup is lost: its structure has one keeper, and its timer runs      *)
(* (gui-dns.c:135).                                                         *)
LookupsAreHeld == StructsHeld /\ LookupsAreTimed

(* However late a reply, and whatever ran in an inner loop of its handler:  *)
(* an object belongs to an open page, a page has one object for a host, and *)
(* a link joins two objects of one page.                                    *)
PagesHoldHosts ==
  /\ \A o \in Objects : objects[o] # Free => objects[o].np \in open
  /\ \A o, p \in Objects :
       objects[o] # Free /\ objects[p] # Free
         /\ objects[o].np = objects[p].np /\ objects[o].ip = objects[p].ip => o = p
  /\ \A l \in links : \A o, p \in l :
       objects[o] # Free /\ objects[p] # Free /\ objects[o].np = objects[p].np

(* An object bears the name of its own host, or of the network that begins  *)
(* at its address: names of other hosts never reach it through the cache of *)
(* names or a late reverse lookup.                                          *)
NamesBelong ==
  \A o \in Objects : objects[o] # Free =>
    LET name == objects[o].name
        host == IF name \in Names THEN Resolve[name] ELSE name
    IN  objects[o].ip \in {host, Network(host)}

(* Pages hold the hosts that were asked for, under their own names, however *)
(* late what is said of them arrives (gui-handlers.c:510).                  *)
PagesAreTrue == PagesHoldHosts /\ NamesBelong

=============================================================================
