------------------------------ MODULE HostInfo ------------------------------
(***************************************************************************)
(* What the GUI knows of the hosts of a page and how it shows it: replies   *)
(* about operating systems, services and their versions                     *)
(* (src/gui-handlers.c), the icon of a host, its menu and its properties    *)
(* window (src/gui-canvas.c), and the login that the agent may ask for.     *)
(*                                                                         *)
(* Showing a host whose system has no pixmap opens a dialog, and GTK runs   *)
(* inside of it.  The variable handlers has those that are running,         *)
(* innermost first: of the user, of a reply, of the timer of the lookups.   *)
(* The dialogs are modal, so the user starts nothing while one is open; the *)
(* timer does not call a handler again that it is still inside of, but a    *)
(* reply can be handled inside of another.                                  *)
(*                                                                         *)
(* What is known carries the address it is about.  Memory that was freed,   *)
(* an object or a window, may be used again.  The page, with its one agent, *)
(* stays open (closing it is in Requests), and of a group only its head is  *)
(* shown (HostGroups).  Names, uptimes, versions and positions are left     *)
(* out, and the notes of a host, which go the way of its system's name.     *)
(*                                                                         *)
(* A definition marked "Wrong:" is the one below it as a plausible bug      *)
(* would have it; no action uses it (README.md, Sensitivity).              *)
(***************************************************************************)
EXTENDS Integers, FiniteSets, Sequences, SequencesExt

CONSTANTS
  Hosts,      (* memory for page_object                                    *)
  Windows,    (* memory for the widgets of a properties window             *)
  HostAddrs,  (* addresses of hosts                                        *)
  OsNames,    (* names of operating systems                                *)
  UnknownOs,  (* the one that handle_probe_reply makes up                  *)
  EmptyText,  (* an empty entry                                            *)
  HasPixmap,  (* the systems that os_pixmap_list has a pixmap for at first *)
  Ports,      (* port numbers                                              *)
  Named,      (* those that getservbyport knows                            *)
  Scans,      (* the services a scan may find, as <<port, open>> in order  *)
  NULL,
  MaxAsked,   (* bound: requests and lookups at a time                     *)
  MaxEdits    (* bound: operations of the user                             *)

(* What is known of a host carries the address it is about. *)
Known   == [of : HostAddrs, text : OsNames \union {EmptyText}]
Service == [of : HostAddrs, port : Ports, open : BOOLEAN]

HostData ==
  [ip : HostAddrs, head : Hosts \union {NULL}, group : BOOLEAN, os_data : BOOLEAN,
   os : Known \union {NULL}, ports : Seq(Service), icon : {"held", "freed"},
   info_window : Windows \union {NULL}, widgets : Windows \union {NULL}]

Window ==
  [po : Hosts, of : HostAddrs, os : Known,
   pages : SUBSET [ip : HostAddrs, services : SUBSET HostAddrs]]

Menu == [plink : SUBSET Hosts, services : SUBSET [ip : HostAddrs, of : HostAddrs]]

(* A handler displays the hosts todo, and then deletes the hosts drop. *)
Handler ==
  [kind : {"user", "reply", "timer"}, at : {"display", "pixmap", "login"},
   todo : Seq(Hosts), drop : Seq(Hosts)]

Answer ==
  [type : {"auth"}, good : BOOLEAN] \union [type : {"os"}, ip : HostAddrs]
    \union [type : {"probe"}, ip : HostAddrs, port : Ports]

(* A lookup of the name of an address, for an object. *)
NameLookup == [po : Hosts, ip : HostAddrs]

ASSUME HostInfoAssumption ==
  /\ IsFiniteSet(Hosts)
  /\ NULL \notin HostData /\ NULL \notin Window /\ NULL \notin Hosts /\ NULL \notin Windows
  /\ UnknownOs \in OsNames /\ HasPixmap \subseteq OsNames /\ EmptyText \notin OsNames
  /\ Named \subseteq Ports /\ Scans \subseteq Seq(Ports \X BOOLEAN)

VARIABLES
  hosts,      (* what each cell holds: a host of the page, or NULL         *)
  windows,    (* the open properties windows                               *)
  menu,       (* the hosts it is open for, np->plink, and whose services   *)
              (* it lists for which address                                *)
  handlers,   (* the handlers that are running                             *)
  answers,    (* what the agent has still to answer                        *)
  lookups,    (* the reverse lookups that are not answered                 *)
  os_pixmap_list,
  logged_in,  (* AGENT_FLAGS_LOGGED_IN                                     *)
  misused,    (* history: what the user did that the code is not made for  *)
  broken,     (* history: how memory was used that had been freed          *)
  edits       (* bound: the number of operations of the user so far        *)

shown == <<hosts, windows>>
infoVars == <<hosts, windows, menu, handlers, answers, lookups, os_pixmap_list, logged_in,
              misused, broken, edits>>

Host(ip) == [ip |-> ip, head |-> NULL, group |-> TRUE, os_data |-> FALSE, os |-> NULL, ports |-> <<>>,
             icon |-> "held", info_window |-> NULL, widgets |-> NULL]

Live       == {o \in Hosts : hosts[o] # NULL}
Head1(o)   == IF hosts[o].head = NULL THEN o ELSE hosts[o].head
Group(o)   == {p \in Live : Head1(p) = Head1(o)}

(* Wrong: the search ends with some host if there is none with that address. *)
HostsAtOrAny(ip) == LET S == {o \in Live : hosts[o].ip = ip} IN IF S = {} THEN Live ELSE S
HostsAt(ip) == {o \in Live : hosts[o].ip = ip}

Auth(good) == [type |-> "auth", good |-> good]

InfoInit ==
  /\ hosts = [o \in Hosts |-> NULL]
  /\ windows = [w \in Windows |-> NULL]
  /\ menu = NULL
  /\ handlers = <<>>
  /\ answers = {Auth(FALSE)}
  /\ lookups = {}
  /\ os_pixmap_list = HasPixmap
  /\ logged_in = FALSE
  /\ misused = {} /\ broken = {}
  /\ edits = 0

-----------------------------------------------------------------------------
(* Handlers *)

(* Nothing runs, or the innermost handler waits for its dialog. *)
AtRest == handlers # <<>> => handlers[1].at # "display"
Idle(kind) ==
  /\ broken = {} /\ AtRest
  /\ kind = "timer" => \A i \in 1..Len(handlers) : handlers[i].kind # "timer"

(* What the user does is done with no dialog and no menu open. *)
UserIdle == broken = {} /\ handlers = <<>> /\ menu = NULL

(* A handler of that kind goes on to show the objects todo, and then to     *)
(* delete the objects drop.                                                 *)
Handle(kind, todo, drop) ==
  IF todo = <<>> /\ drop = <<>> THEN UNCHANGED handlers
  ELSE handlers' = <<[kind |-> kind, at |-> "display", todo |-> todo, drop |-> drop]>> \o handlers

(* The innermost handler goes on, or returns. *)
GoOn(f) ==
  handlers' = IF f.todo = <<>> /\ f.drop = <<>> THEN Tail(handlers) ELSE <<f>> \o Tail(handlers)

(* The agent has S to answer, and adns L. *)
Asks(S, L) == answers' = S /\ lookups' = L /\ Cardinality(S) + Cardinality(L) <= MaxAsked
Unasked    == UNCHANGED <<answers, lookups>>

Same == UNCHANGED <<os_pixmap_list, logged_in, misused, broken>>

Edit   == edits < MaxEdits /\ edits' = edits + 1
NoEdit == UNCHANGED edits

-----------------------------------------------------------------------------
(* Showing an object *)

At(at) == handlers # <<>> /\ handlers[1].at = at /\ broken = {}
Shown  == handlers[1].todo[1]
Next1  == [handlers[1] EXCEPT !.todo = Tail(@), !.at = "display"]

HasOs(p) == p.os_data /\ p.os # NULL

(* os_pixmap_list_get knows what to answer. *)
Answers(text) == text = EmptyText \/ text \in os_pixmap_list

(* The dialog that asks for a pixmap is needed. *)
Exotic(p) == HasOs(p) /\ ~Answers(p.os.text)

(* Wrong: an empty text leaves the file name of the icon freed. *)
IconForNamed(p) == IF HasOs(p) /\ p.os.text \notin os_pixmap_list THEN "freed" ELSE "held"

(* The file name of the icon is freed before the pixmap is looked up, and   *)
(* held again after it.                                                     *)
IconFor(p) == IF Exotic(p) THEN "freed" ELSE "held"

(* A member of a group that is not its head is not shown. *)
page_object_display ==
  /\ At("display") /\ handlers[1].todo # <<>>
  /\ LET o == Shown
         p == hosts[o]
     IN  /\ IF Head1(o) # o
            THEN /\ hosts' = [hosts EXCEPT ![o].group = FALSE]
                 /\ GoOn(Next1)
                 /\ UNCHANGED <<misused, broken>>
            ELSE /\ hosts' = [hosts EXCEPT ![o].group = TRUE, ![o].icon = IconFor(p)]
                 /\ IF Exotic(p) THEN handlers' = [handlers EXCEPT ![1].at = "pixmap"]
                    ELSE GoOn(Next1)
                 /\ broken' = IF p.icon = "freed" THEN broken \union {"icon"} ELSE broken
                 /\ misused' = IF \E i \in 2..Len(handlers) : handlers[i].at = "pixmap" /\ handlers[i].todo[1] = o
                               THEN misused \union {"shown again"} ELSE misused
  /\ UNCHANGED <<windows, menu, os_pixmap_list, logged_in>> /\ Unasked /\ NoEdit

(* The user adds a pixmap, for this system or another one, or cancels.      *)
os_pixmap_list_get ==
  /\ At("pixmap")
  /\ os_pixmap_list' \in {os_pixmap_list} \union {os_pixmap_list \union {n} : n \in OsNames}
  /\ hosts' = [hosts EXCEPT ![Shown].icon = "held"]
  /\ GoOn(Next1)
  /\ UNCHANGED <<windows, menu, logged_in, misused, broken>> /\ Unasked /\ NoEdit

(* set_pixels_per_unit, after a zoom, shows every object. *)
net_page_set_pixels_per_unit ==
  /\ UserIdle
  /\ Handle("user", SetToSeq(Live), <<>>)
  /\ UNCHANGED <<shown, menu>> /\ Unasked /\ Same /\ Edit

(* The end of a reverse lookup: there is no name, or reverse_lookup_cb asks *)
(* the object for its address, whether or not it was deleted, and names and *)
(* shows it if it is the one that was looked up.                            *)
ShowNamed(l) ==
  /\ Idle("timer")
  /\ lookups' = lookups \ {l}
  /\ \/ UNCHANGED <<handlers, broken>>
     \/ hosts[l.po] = NULL /\ broken' = broken \union {"name"} /\ UNCHANGED handlers
     \/ /\ hosts[l.po] # NULL /\ UNCHANGED broken
        /\ IF hosts[l.po].ip = l.ip THEN Handle("timer", <<l.po>>, <<>>) ELSE UNCHANGED handlers
  /\ UNCHANGED <<shown, menu, answers, os_pixmap_list, logged_in, misused>> /\ NoEdit

-----------------------------------------------------------------------------
(* Replies *)

OsScan(ip)      == [type |-> "os", ip |-> ip]
Probe(ip, port) == [type |-> "probe", ip |-> ip, port |-> port]

(* A host that is on the page already is not shown again; scan and lookup   *)
(* are the options to scan each host and to look up its name.               *)
ShowDiscovered(ip, scan, lookup) ==
  /\ Idle("reply") /\ logged_in
  /\ \E o \in Hosts :
       /\ Asks(IF scan THEN answers \union {OsScan(ip)} ELSE answers,
               IF lookup THEN lookups \union {[po |-> o, ip |-> ip]} ELSE lookups)
       /\ \/ o \in HostsAt(ip) /\ UNCHANGED <<hosts, handlers>>
          \/ /\ HostsAt(ip) = {} /\ o \notin Live
             /\ hosts' = [hosts EXCEPT ![o] = Host(ip)]
             /\ Handle("reply", <<o>>, <<>>)
  /\ UNCHANGED <<windows, menu>> /\ Same /\ NoEdit

(* The services are put in front of one another as they are read. *)
ScannedPorts(ip, scan) ==
  Reverse([i \in 1..Len(scan) |-> [of |-> ip, port |-> scan[i][1], open |-> scan[i][2]]])

(* probe is the option to probe the ports that are found. *)
handle_os_scan_reply(m, os, scan, probe) ==
  /\ Idle("reply")
  /\ m.type = "os"
  /\ IF HostsAt(m.ip) = {}
     THEN Asks(answers \ {m}, lookups) /\ UNCHANGED <<hosts, handlers>>
     ELSE \E o \in HostsAt(m.ip) :
            /\ Asks((answers \ {m}) \union
                      (IF probe THEN {Probe(m.ip, scan[i][1]) : i \in 1..Len(scan)} ELSE {}), lookups)
            /\ hosts' = [hosts EXCEPT
                 ![o].os_data = TRUE,
                 ![o].os = IF os = NULL THEN NULL ELSE [of |-> m.ip, text |-> os],
                 ![o].ports = ScannedPorts(m.ip, scan)]
            /\ Handle("reply", <<o>>, <<>>)
  /\ UNCHANGED <<windows, menu>> /\ Same /\ NoEdit

(* A service that is in the list gets its version.  One that is not, and    *)
(* that has a name, is put in front of the list if the first in it has a    *)
(* greater number; else it is lost.  Its state is not set.                  *)
WithService(ports, ip, port) ==
  IF /\ port \in Named
     /\ \A i \in 1..Len(ports) : ports[i].port # port
     /\ ports # <<>> => ports[1].port > port
  THEN <<[of |-> ip, port |-> port, open |-> FALSE]>> \o ports
  ELSE ports

handle_probe_reply(m) ==
  /\ Idle("reply")
  /\ m.type = "probe"
  /\ Asks(answers \ {m}, lookups)
  /\ hosts' = [o \in Hosts |->
       IF o \notin HostsAt(m.ip) THEN hosts[o]
       ELSE [hosts[o] EXCEPT
               !.os_data = TRUE,
               !.os = IF hosts[o].os_data THEN @ ELSE [of |-> m.ip, text |-> UnknownOs],
               !.ports = WithService(@, m.ip, m.port)]]
  /\ UNCHANGED <<windows, menu, handlers>> /\ Same /\ NoEdit

-----------------------------------------------------------------------------
(* Login *)

(* A refusal, also the one that an agent begins with, opens the dialog. *)
handle_auth_reply(m) ==
  /\ Idle("reply")
  /\ m.type = "auth"
  /\ logged_in' = m.good
  /\ answers' = answers \ {m}
  /\ IF ~m.good
     THEN handlers' = <<[kind |-> "reply", at |-> "login", todo |-> <<>>, drop |-> <<>>]>> \o handlers
     ELSE UNCHANGED handlers
  /\ UNCHANGED <<shown, menu, lookups, os_pixmap_list, misused, broken>> /\ NoEdit

(* Whether the name and the password are good is for the agent to say. *)
send_auth_request(good) ==
  /\ At("login")
  /\ Asks(answers \union {Auth(good)}, lookups)
  /\ handlers' = Tail(handlers)
  /\ UNCHANGED <<shown, menu>> /\ Same /\ NoEdit

CancelLogin ==
  /\ At("login")
  /\ handlers' = Tail(handlers)
  /\ UNCHANGED <<shown, menu>> /\ Unasked /\ Same /\ NoEdit

-----------------------------------------------------------------------------
(* The menu of a host *)

OpenPorts(o) == {s \in ToSet(hosts[o].ports) : s.open}

(* plink: the hosts that are highlighted.  Services are listed for one      *)
(* host, with those of its group.                                           *)
page_object_show_option_list(plink) ==
  /\ UserIdle
  /\ plink # {} /\ \A o \in plink : hosts[o].group
  /\ menu' = [plink |-> plink,
              services |-> IF Cardinality(plink) > 1 THEN {}
                           ELSE UNION {{[ip |-> hosts[p].ip, of |-> s.of] : s \in OpenPorts(p)} :
                                         p \in UNION {Group(o) : o \in plink}}]
  /\ UNCHANGED <<shown, handlers>> /\ Unasked /\ Same /\ NoEdit

(* An item is chosen. *)
Chosen == broken = {} /\ handlers = <<>> /\ menu # NULL /\ menu' = NULL

(* The one host it is open for. *)
ChosenFor(o) == Chosen /\ menu.plink = {o}

CloseMenu ==
  /\ Chosen
  /\ UNCHANGED <<shown, handlers>> /\ Unasked /\ Same /\ NoEdit

net_page_osscan_plink ==
  /\ Chosen
  /\ Asks(answers \union {OsScan(hosts[o].ip) : o \in menu.plink}, lookups)
  /\ UNCHANGED <<shown, handlers>> /\ Same /\ NoEdit

(* net_page_dns_plink. *)
LookUpNames ==
  /\ Chosen
  /\ Asks(answers, lookups \union {[po |-> o, ip |-> hosts[o].ip] : o \in menu.plink})
  /\ UNCHANGED <<shown, handlers>> /\ Same /\ NoEdit

(* Without a scan every port up to a limit is probed. *)
PortsToProbe(o) ==
  IF hosts[o].os_data THEN {s.port : s \in ToSet(hosts[o].ports)} ELSE Ports

net_page_probe_plink ==
  /\ Chosen
  /\ Asks(answers \union UNION {{Probe(hosts[o].ip, port) : port \in PortsToProbe(o)} : o \in menu.plink},
          lookups)
  /\ UNCHANGED <<shown, handlers>> /\ Same /\ NoEdit

(* Two hosts, or their groups, become one. *)
net_page_merge_plink ==
  /\ Chosen
  /\ Cardinality(menu.plink) = 2
  /\ \E p, s \in menu.plink :
       /\ p # s
       /\ hosts' = [o \in Hosts |->
            IF o \in Live /\ (o = p \/ (Head1(o) = s)) THEN [hosts[o] EXCEPT !.head = p] ELSE hosts[o]]
       /\ Handle("user", <<s, p>>, <<>>)
  /\ UNCHANGED windows /\ Unasked /\ Same /\ Edit

Alone(S) == [o \in Hosts |-> IF o \in S THEN [hosts[o] EXCEPT !.head = NULL] ELSE hosts[o]]

net_page_unmerge_plink(o) ==
  /\ ChosenFor(o) /\ Group(o) # {o}
  /\ hosts' = Alone(Group(o))
  /\ Handle("user", SetToSeq(Group(o) \ {o}) \o <<o>>, <<>>)
  /\ UNCHANGED windows /\ Unasked /\ Same /\ Edit

net_page_delete_page_object ==
  /\ Chosen
  /\ Handle("user", <<>>, SetToSeq(menu.plink))
  /\ UNCHANGED shown /\ Unasked /\ Same /\ Edit

(* Wrong: the windows of what is deleted stay. *)
OpenAfterNothing(gone) == windows

(* gtk_widget_destroy of the window that each object knows of. *)
OpenAfter(gone) ==
  [w \in Windows |-> IF \E o \in gone : hosts[o].info_window = w THEN NULL ELSE windows[w]]

(* Nothing tells the lookups that an object is deleted. *)
Drop(gone) ==
  /\ hosts' = [o \in Hosts |-> IF o \in gone THEN NULL ELSE hosts[o]]
  /\ windows' = OpenAfter(gone)
  /\ broken' = IF \E o \in gone : hosts[o].info_window # NULL /\ windows[hosts[o].info_window] = NULL
               THEN broken \union {"window"} ELSE broken
  /\ misused' = IF \E l \in lookups : l.po \in gone THEN misused \union {"deleted"} ELSE misused

(* The next object to delete.  With the head of a group go its members, or  *)
(* they leave it first; each is then shown, and the head with it.           *)
DeleteHost ==
  /\ At("display") /\ handlers[1].todo = <<>>
  /\ LET o    == handlers[1].drop[1]
         rest == [handlers[1] EXCEPT !.drop = Tail(@)]
     IN  \/ Drop(Group(o)) /\ GoOn(rest)
         \/ LET members == SetToSeq(Group(o) \ {o})
            IN  /\ Group(o) # {o}
                /\ hosts' = Alone(Group(o))
                /\ GoOn([handlers[1] EXCEPT !.todo =
                           [i \in 1..(2 * Len(members)) |->
                              IF i % 2 = 1 THEN members[(i + 1) \div 2] ELSE o]])
                /\ UNCHANGED <<windows, misused, broken>>
  /\ UNCHANGED <<menu, os_pixmap_list, logged_in>> /\ Unasked /\ NoEdit

-----------------------------------------------------------------------------
(* The properties window *)

(* What the window says of one host. *)
PropertyPage(o) == [ip |-> hosts[o].ip, services |-> {s.of : s \in ToSet(hosts[o].ports)}]

(* One page for a host of its own, or one for each member of a group. *)
PropertyPages(o) ==
  IF hosts[o].head = NULL THEN {PropertyPage(o)} ELSE {PropertyPage(q) : q \in Group(o)}

page_object_show_properties(o, w) ==
  /\ ChosenFor(o) /\ windows[w] = NULL
  /\ LET p == hosts[o]
     IN  /\ windows' = [windows EXCEPT ![w] =
              [po |-> o, of |-> p.ip, pages |-> PropertyPages(o),
               os |-> IF HasOs(p) THEN p.os ELSE [of |-> p.ip, text |-> EmptyText]]]
         /\ hosts' = [hosts EXCEPT ![o].info_window = w, ![o].widgets = w]
         /\ misused' = IF \E v \in Windows : windows[v] # NULL /\ windows[v].po = o
                       THEN misused \union {"two windows"} ELSE misused
  /\ UNCHANGED <<handlers, os_pixmap_list, logged_in, broken>> /\ Unasked /\ Edit

(* The user types. *)
EditOs(w, text) ==
  /\ UserIdle /\ windows[w] # NULL
  /\ windows' = [windows EXCEPT ![w].os = [of |-> windows[w].of, text |-> text]]
  /\ UNCHANGED <<hosts, menu, handlers>> /\ Unasked /\ Same /\ Edit

(* Wrong: the object goes on to know of the window. *)
WithoutWindowKept(p) == p
WithoutWindow(p) == [p EXCEPT !.info_window = NULL]

(* The close button of w: the entries are read of the window that was       *)
(* opened last for the object, and that window is destroyed.                *)
page_object_hide_properties(w) ==
  /\ UserIdle /\ windows[w] # NULL
  /\ LET o == windows[w].po
         p == hosts[o]
         Harm(what) == broken' = broken \union {what} /\ UNCHANGED <<shown, handlers>>
     IN  IF p = NULL THEN Harm("object")
         ELSE IF p.widgets = NULL \/ windows[p.widgets] = NULL THEN Harm("widgets")
         ELSE LET v == p.widgets
              IN  /\ hosts' = [hosts EXCEPT ![o] =
                       WithoutWindow([p EXCEPT !.os_data = TRUE, !.os = windows[v].os])]
                  /\ windows' = [x \in Windows |-> IF x = p.info_window THEN NULL ELSE windows[x]]
                  /\ Handle("user", <<o>>, <<>>)
                  /\ UNCHANGED broken
  /\ UNCHANGED <<menu, os_pixmap_list, logged_in, misused>> /\ Unasked /\ NoEdit

(* The window manager closes w: it is destroyed, and no handler is called.  *)
DeleteEvent(w) ==
  /\ UserIdle /\ windows[w] # NULL
  /\ windows' = [windows EXCEPT ![w] = NULL]
  /\ misused' = misused \union {"closed"}
  /\ UNCHANGED <<hosts, menu, handlers, os_pixmap_list, logged_in, broken>> /\ Unasked /\ Edit

-----------------------------------------------------------------------------

InfoNext ==
  \/ page_object_display
  \/ os_pixmap_list_get
  \/ net_page_set_pixels_per_unit
  \/ \E l \in lookups : ShowNamed(l)
  \/ \E ip \in HostAddrs, scan, lookup \in BOOLEAN : ShowDiscovered(ip, scan, lookup)
  \/ \E m \in answers, os \in OsNames \union {NULL}, scan \in Scans, probe \in BOOLEAN :
       handle_os_scan_reply(m, os, scan, probe)
  \/ \E m \in answers : handle_probe_reply(m)
  \/ \E m \in answers : handle_auth_reply(m)
  \/ \E good \in BOOLEAN : send_auth_request(good)
  \/ CancelLogin
  \/ \E plink \in SUBSET Live : page_object_show_option_list(plink)
  \/ CloseMenu
  \/ net_page_osscan_plink
  \/ LookUpNames
  \/ net_page_probe_plink
  \/ net_page_merge_plink
  \/ \E o \in Hosts : net_page_unmerge_plink(o)
  \/ net_page_delete_page_object
  \/ DeleteHost
  \/ \E o \in Hosts, w \in Windows : page_object_show_properties(o, w)
  \/ \E w \in Windows, text \in OsNames \union {EmptyText} : EditOs(w, text)
  \/ \E w \in Windows : page_object_hide_properties(w)
  \/ \E w \in Windows : DeleteEvent(w)

InfoSpec == InfoInit /\ [][InfoNext]_infoVars

-----------------------------------------------------------------------------
(* Properties. *)

InfoTypeOK ==
  /\ hosts \in [Hosts -> HostData \union {NULL}]
  /\ windows \in [Windows -> Window \union {NULL}]
  /\ menu \in Menu \union {NULL}
  /\ handlers \in Seq(Handler)
  /\ answers \subseteq Answer
  /\ lookups \subseteq NameLookup
  /\ os_pixmap_list \subseteq OsNames
  /\ logged_in \in BOOLEAN
  /\ misused \subseteq {"shown again", "two windows", "closed", "deleted"}
  /\ broken \subseteq {"icon", "window", "object", "widgets", "name"}

OneWindow == misused \intersect {"two windows", "closed"} = {}

(* Windows and objects know of one another, whatever is scanned, merged and *)
(* deleted while a window is open, and memory is used again: as long as no  *)
(* object has two windows and each is closed with its button.               *)
WindowsServe ==
  OneWindow =>
    /\ \A w \in Windows : windows[w] # NULL =>
         LET o == windows[w].po
         IN  /\ o \in Live /\ hosts[o].ip = windows[w].of
             /\ hosts[o].info_window = w /\ hosts[o].widgets = w
    /\ \A o \in Live : hosts[o].info_window # NULL =>
         windows[hosts[o].info_window] # NULL /\ windows[hosts[o].info_window].po = o

(* What is known and shown of a host was answered for its address or typed  *)
(* in a window that was opened for it, however late it arrives.             *)
InfoBelongs ==
  OneWindow =>
    /\ \A o \in Live :
         /\ HasOs(hosts[o]) => hosts[o].os.of = hosts[o].ip
         /\ \A s \in ToSet(hosts[o].ports) : s.of = hosts[o].ip
    /\ \A w \in Windows : windows[w] # NULL =>
         \A pg \in windows[w].pages : pg.services \subseteq {pg.ip}
    /\ menu # NULL => \A s \in menu.services : s.of = s.ip

(* Freed memory is used in three situations only: a host is shown again     *)
(* while the dialog is open that was opened to show it, which finds the     *)
(* name of its icon freed; a name arrives for a host that was deleted while *)
(* it was looked up, and whose memory is not that of another host yet; and  *)
(* the user has opened two windows for one host, or closed one through the  *)
(* window manager.                                                          *)
MisuseOnly ==
  /\ "icon" \in broken => "shown again" \in misused
  /\ "name" \in broken => "deleted" \in misused
  /\ broken \ {"icon", "name"} # {} => ~OneWindow

(* The hosts of a page, their icons, windows and menus stay together, what   *)
(* they say is about the host, and freed memory is used in three situations *)
(* only (gui-canvas.c:285, 1322, 1379; gui-handlers.c:442, 555).            *)
WindowsAreTrue == WindowsServe /\ InfoBelongs /\ MisuseOnly
=============================================================================
