----------------------------- MODULE ScanReports -----------------------------
(* From the document that nmap prints to what the GUI knows of a host: the   *)
(* parser (src/agent-nmapxml.c), the reply that the agent puts together in   *)
(* memory (src/agent-osscan.c), and the GUI that takes it apart and shows it *)
(* (src/gui-handlers.c, src/cheops-osscan.c, src/gui-canvas.c).  How a       *)
(* request gets to nmap is in ScanOptions, the two threads of the agent are  *)
(* in OsScan, and what becomes of the host and its windows is in HostInfo.   *)
(*                                                                           *)
(* Memory is a sequence of cells: the fixed part of an option, a character,  *)
(* a NUL.  The numbers of a port and of its RPC program, and the kinds of    *)
(* nodes that the parser skips, are left out.                                *)
(*                                                                           *)
(* A definition marked "Wrong:" is the one below it as a plausible bug would *)
(* have it; no action uses it (README.md, Sensitivity).                      *)
EXTENDS Integers, Sequences, SequencesExt, FiniteSets

CONSTANTS
  Documents,   (* what nmap may print: the root node and at most one host,    *)
               (* with its addrs, ports, matches and uptime; or None, if it   *)
               (* was not found, printed no XML or more than 80000 bytes      *)
  SystemNames, (* the ports that getservbyport has a UDP service for: the     *)
               (* menu asks for TCP if the protocol is 6, which none is       *)
  Room,        (* the cells of ebuf_os after the fixed part of the reply      *)
  None

(* An attribute that a node has not is None. *)
Texts       == {None} \union Seq(STRING)
AddrNodes   == [addr : {None} \union STRING, addrtype : {None} \union STRING]
PortNodes   == [id : Nat, protocol : STRING, state : ({None} \union STRING) \ {"UNfilitered"},
                service : Texts, owner : Texts]
UptimeNodes == [seconds : {None} \union Nat, lastboot : Texts]
HostNodes   == [addrs : Seq(AddrNodes), ports : Seq(PortNodes), matches : Seq(Texts),
                uptime : {None} \union UptimeNodes]

ASSUME ScanReportsAssumption ==
  /\ Room \in Nat \ {0}
  /\ \A d \in Documents \ {None} :
       d \in [root : STRING, hosts : Seq(HostNodes)] /\ Len(d.hosts) <= 1

VARIABLES
  ebuf_os,     (* static memory: what the last reply had there stays          *)
  reply,       (* on its way to the GUI, or None                              *)
  os_data,     (* of the host, or None                                        *)
  services,    (* the cache of names: a sequence, the latest first            *)
  printed,     (* history: the document of os_data                            *)
  menu,        (* history: the menu was opened since the reply                *)
  broken       (* history: how the agent went wrong, and over which document  *)

reportsVars == <<ebuf_os, reply, os_data, services, printed, menu, broken>>

Nul     == [is |-> "nul"]
Chr(c)  == [is |-> "char", char |-> c]
Text(t) == IF t = None THEN <<>> ELSE t
NulEnded(t) == [i \in DOMAIN Text(t) |-> Chr(Text(t)[i])] \o <<Nul>>

(* What state becomes by Op with one element of seq after the other. *)
Thread(Op(_, _), state, seq) ==
  LET after[i \in 0..Len(seq)] == IF i = 0 THEN state ELSE Op(after[i - 1], seq[i])
  IN  after[Len(seq)]

-----------------------------------------------------------------------------
(* src/agent-nmapxml.c: a node without the attribute changes nothing, and of *)
(* several the last counts.                                                  *)

LastOf(s, default) ==
  LET has == {i \in DOMAIN s : s[i] # None}
  IN  IF has = {} THEN default ELSE s[Max(has)]

parseNmapScanOS(n, matches) == [n EXCEPT !.os = LastOf(matches, @)]

IPv4(node) == IF node.addrtype = "ipv4" THEN node.addr ELSE None

parseNmapScanAddress(n, addrs) ==
  [n EXCEPT !.addr = LastOf([i \in DOMAIN addrs |-> IPv4(addrs[i])], @)]

parseNmapScanUptime(n, up) ==
  IF up = None THEN n
  ELSE [n EXCEPT !.uptime_seconds = IF up.seconds = None THEN @ ELSE up.seconds,
                 !.uptime_last_boot = IF up.lastboot = None THEN @ ELSE up.lastboot]

(* "UNfilitered" is no state of nmap's.                                      *)
parseNmapScanPortState(state) ==
  IF state \in {"open", "closed", "filtered", "UNfilitered"} THEN state ELSE "unknown"

parseNmapScanPort(node) ==
  [node EXCEPT !.state = parseNmapScanPortState(@)]

(* Prepended one after the other. *)
parseNmapScanPorts(n, nodes) ==
  [n EXCEPT !.ports = Reverse([i \in DOMAIN nodes |-> parseNmapScanPort(nodes[i])]) \o @]

parseNmapScanHost(n, host) ==
  parseNmapScanUptime(
    parseNmapScanPorts(parseNmapScanOS(parseNmapScanAddress(n, host.addrs), host.matches),
                       host.ports),
    host.uptime)

Nothing ==
  [addr |-> None, os |-> None, ports |-> <<>>, uptime_seconds |-> None, uptime_last_boot |-> None]

parseNmapScan(doc) ==
  IF doc.root # "nmaprun" THEN None ELSE Thread(parseNmapScanHost, Nothing, doc.hosts)

nmap_scan(doc) == IF doc = None THEN None ELSE parseNmapScan(doc)

-----------------------------------------------------------------------------
(* src/agent-osscan.c: send_osscan_reply.  An option is written at opt and   *)
(* opt then moved by its length; m is [mem, opt, options].                   *)

Written(mem, at, cells) ==
  [i \in 1..(IF at + Len(cells) - 1 > Len(mem) THEN at + Len(cells) - 1 ELSE Len(mem)) |->
     IF i >= at /\ i < at + Len(cells) THEN cells[i - at + 1]
     ELSE IF i <= Len(mem) THEN mem[i] ELSE Nul]

Add(m, fixed, text, len) ==
  [mem     |-> Written(m.mem, m.opt,
                       <<[is |-> "option", length |-> len, fixed |-> fixed]>> \o NulEnded(text)),
   opt     |-> m.opt + len,
   options |-> m.options + 1]

AddOs(m, os) ==
  IF os = None THEN m ELSE Add(m, [type |-> "OS"], os, 1 + Len(os) + 1)

(* Wrong: the NUL after the name of a service is not counted. *)
OwnerAtNul(port) == 1 + (IF port.service # None THEN Len(port.service) ELSE 1)

(* Where the owner goes: one cell for an empty name, too. *)
OwnerAt(port) == 1 + (IF port.service # None THEN Len(port.service) + 1 ELSE 1)

AddPort(m, port) ==
  LET fixed == [type |-> "PORT", id |-> port.id, protocol |-> port.protocol,
                state |-> port.state]
      added == Add(m, fixed, port.service, OwnerAt(port) + Len(Text(port.owner)) + 1)
  IN  [added EXCEPT !.mem = Written(@, m.opt + OwnerAt(port), NulEnded(port.owner))]

AddUptime(m, seconds, boot) ==
  IF seconds = None THEN m
  ELSE Add(m, [type |-> "UPTIME", seconds |-> seconds], boot, 1 + Len(Text(boot)) + 1)

Options(n, mem) ==
  AddUptime(Thread(AddPort, AddOs([mem |-> mem, opt |-> 1, options |-> 0], n.os), n.ports),
            n.uptime_seconds, n.uptime_last_boot)

(* The scanning thread.  The address is taken from the document, and nothing *)
(* is done about a reply that does not fit.  Without a scan there is no      *)
(* reply.                                                                    *)
dequeue_osscan ==
  /\ reply = None /\ broken = None
  /\ \E doc \in Documents :
       LET n == nmap_scan(doc)
           m == Options(n, ebuf_os)
       IN  /\ n # None
           /\ \/ /\ n.addr = None
                 /\ broken' = [how |-> "no address", doc |-> doc]
                 /\ UNCHANGED <<ebuf_os, reply>>
              \/ /\ n.addr # None /\ Len(m.mem) > Room
                 /\ broken' = [how |-> "overrun", doc |-> doc]
                 /\ UNCHANGED <<ebuf_os, reply>>
              \/ /\ n.addr # None /\ Len(m.mem) = Room
                 /\ ebuf_os' = m.mem
                 /\ reply' = [cells |-> SubSeq(m.mem, 1, m.opt - 1), num_options |-> m.options,
                              doc |-> doc]
                 /\ UNCHANGED broken
  /\ UNCHANGED <<os_data, services, printed, menu>>

-----------------------------------------------------------------------------
(* The GUI. *)

(* The characters from a cell on, up to what ends them *)
StringAt(mem, at) ==
  LET end == CHOOSE e \in at..(Len(mem) + 1) :
               /\ \A i \in at..(e - 1) : mem[i].is = "char"
               /\ e \in DOMAIN mem => mem[e].is # "char"
  IN  [i \in 1..(end - at) |-> mem[at + i - 1].char]

KeyOf(port) == [id |-> port.id, protocol |-> port.protocol]

(* src/cheops-osscan.c: the first name that was heard of stays. *)
add_service(list, key, name) ==
  IF \E i \in DOMAIN list : list[i].key = key THEN list
  ELSE <<[key |-> key, name |-> name]>> \o list

get_service(key) ==
  LET hits == {i \in DOMAIN services : services[i].key = key}
  IN  IF hits = {} THEN None ELSE services[Min(hits)].name

(* The i-th option of the reply; g is [mem, ptr, os_data, services].  An     *)
(* option of a type that is not known is skipped.                            *)
TakeOption(g, i) ==
  IF g.ptr \notin DOMAIN g.mem \/ g.mem[g.ptr].is # "option" THEN [g EXCEPT !.ptr = @ + 1]
  ELSE
    LET opt  == g.mem[g.ptr].fixed
        text == StringAt(g.mem, g.ptr + 1)
        next == [g EXCEPT !.ptr = @ + g.mem[g.ptr].length]
    IN  CASE opt.type = "OS" -> [next EXCEPT !.os_data.os = text]
          [] opt.type = "UPTIME" ->
               [next EXCEPT !.os_data.uptime_seconds = opt.seconds,
                            !.os_data.uptime_last_boot = IF text = <<>> THEN @ ELSE text]
          [] opt.type = "PORT" ->
               [next EXCEPT
                  !.os_data.ports =
                    <<[id |-> opt.id, protocol |-> opt.protocol, state |-> opt.state,
                       name |-> text, owner |-> StringAt(g.mem, g.ptr + 1 + Len(text) + 1)]>> \o @,
                  !.services = add_service(@, KeyOf(opt), text)]

(* src/gui-handlers.c, for a host that is still on its page *)
handle_os_scan_reply ==
  /\ reply # None
  /\ LET g == Thread(TakeOption,
                     [mem |-> reply.cells, ptr |-> 1, services |-> services,
                      os_data |-> [os |-> None, uptime_seconds |-> 0,
                                   uptime_last_boot |-> None, ports |-> <<>>]],
                     [i \in 1..reply.num_options |-> i])
     IN  os_data' = g.os_data /\ services' = g.services
  /\ printed' = reply.doc /\ menu' = FALSE
  /\ reply' = None
  /\ UNCHANGED <<ebuf_os, broken>>

(* src/gui-canvas.c: the name in the menu, which the port then keeps *)
MenuName(port) ==
  IF port.id \in SystemNames THEN <<"system">>
  ELSE IF get_service(KeyOf(port)) \notin {None, <<>>} THEN get_service(KeyOf(port))
  ELSE <<"number">>

page_object_menu ==
  /\ os_data # None
  /\ LET Titled(port) == IF port.state = "open" THEN [port EXCEPT !.name = MenuName(port)]
                         ELSE port
     IN  os_data' = [os_data EXCEPT !.ports = [i \in DOMAIN @ |-> Titled(@[i])]]
  /\ menu' = TRUE
  /\ UNCHANGED <<ebuf_os, reply, services, printed, broken>>

-----------------------------------------------------------------------------
ReportsInit ==
  /\ ebuf_os = [i \in 1..Room |-> Nul]
  /\ reply = None /\ os_data = None /\ services = <<>>
  /\ printed = None /\ menu = FALSE /\ broken = None

ReportsNext == dequeue_osscan \/ handle_os_scan_reply \/ page_object_menu

ReportsSpec == ReportsInit /\ [][ReportsNext]_reportsVars

-----------------------------------------------------------------------------
(* Properties. *)

(* Without the seconds nothing is said of the last boot, either. *)
Unknown(up) == up = None \/ up.seconds = None

(* What is shown of a host is what nmap printed of it last, port by port and *)
(* in the order of the document, whatever was in the memory of the reply     *)
(* before; but a port that is "unfiltered" is shown as unknown               *)
(* (agent-nmapxml.c:111), and an open port may be called what another host's *)
(* was (gui-canvas.c:2302).                                                  *)
ReportIsShown ==
  os_data # None =>
    LET host == printed.hosts[1]
    IN  /\ IF ToSet(host.matches) \subseteq {None} THEN os_data.os = None
           ELSE \E i \in DOMAIN host.matches :
                  /\ os_data.os = host.matches[i] /\ os_data.os # None
                  /\ \A j \in DOMAIN host.matches : j > i => host.matches[j] = None
        /\ IF Unknown(host.uptime)
           THEN os_data.uptime_seconds = 0 /\ os_data.uptime_last_boot = None
           ELSE /\ os_data.uptime_seconds = host.uptime.seconds
                /\ Text(os_data.uptime_last_boot) = Text(host.uptime.lastboot)
        /\ Len(os_data.ports) = Len(host.ports)
        /\ \A i \in DOMAIN host.ports :
             LET node  == host.ports[i]
                 shown == os_data.ports[i]
             IN  /\ KeyOf(shown) = KeyOf(node)
                 /\ shown.state = IF node.state \in {"open", "closed", "filtered"} THEN node.state
                                  ELSE "unknown"
                 /\ shown.name = IF menu /\ node.state = "open" THEN MenuName(node)
                                 ELSE Text(node.service)
                 /\ shown.owner = Text(node.owner)

(* The cells that host takes, its last port first *)
PlusPort(sum, node) == sum + Len(Text(node.service)) + Len(Text(node.owner)) + 3

Size(host) ==
  (IF LastOf(host.matches, None) = None THEN 0 ELSE Len(LastOf(host.matches, None)) + 2)
  + Thread(PlusPort, 0, Reverse(host.ports))
  + (IF Unknown(host.uptime) THEN 0 ELSE Len(Text(host.uptime.lastboot)) + 2)

(* The agent dies of a document without an IPv4 address, and writes past the *)
(* reply if nmap had more to say than fits; of nothing else                  *)
(* (agent-osscan.c:161, 166).  Of the 80000 bytes that runNmapScan reads a   *)
(* port takes 58 or more and of the 65536 of a reply 38, so that more than   *)
(* fits is names of thousands of characters.                                 *)
ReportBreaksOnlyWhere ==
  broken # None =>
    \/ \A i \in DOMAIN broken.doc.hosts :
         \A a \in ToSet(broken.doc.hosts[i].addrs) : a.addrtype # "ipv4" \/ a.addr = None
    \/ broken.how = "overrun" /\ Size(broken.doc.hosts[1]) > Room

(* What nmap printed reaches the GUI, and the agent dies of two kinds of     *)
(* documents only (agent-osscan.c:144, gui-handlers.c:580).                  *)
ReportsAreTrue == ReportIsShown /\ ReportBreaksOnlyWhere
=============================================================================
