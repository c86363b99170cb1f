------------------------------- MODULE Agents -------------------------------
(***************************************************************************)
(* The agent's list of connections (src/event.c): accepted, served,        *)
(* destroyed, and written to by address.  A request that takes time (a     *)
(* scan, a probe, a trace, a discovery) keeps the pointer of the agent     *)
(* that asked; when its answer is ready, event_send looks whether that     *)
(* address is in the list and writes to whatever connection it finds.      *)
(*                                                                         *)
(* A cell is an address that malloc() may return for a struct agent; the   *)
(* memory of a destroyed connection is given to a later one.  Connections  *)
(* are numbered as they are accepted; the number exists in the model only. *)
(* The list is a set of cells: nothing depends on its order.  Names that    *)
(* Framing has too begin with Agents, for one module to extend both.        *)
(*                                                                         *)
(* A definition marked "Wrong:" is the one below it as a plausible bug     *)
(* would have it; no action uses it (README.md, Sensitivity).              *)
(***************************************************************************)
EXTENDS Integers, FiniteSets

CONSTANTS
  Cells,         (* the addresses of struct agent                          *)
  NoCell,        (* no connection is being destroyed                       *)
  Authenticate,  (* authenticating_clients(): the option -p                *)
  MaxConns,      (* bound: connections accepted                            *)
  MaxRequests    (* bound: requests accepted                               *)

ASSUME AgentsAssumption ==
  /\ NoCell \notin Cells
  /\ Authenticate \in BOOLEAN
  /\ MaxConns \in Nat
  /\ MaxRequests \in Nat

VARIABLES
  count,     (* connections accepted so far                                *)
  agents,    (* the list agents                                            *)
  mem,       (* the connection that the memory of a cell is in use for, or *)
             (* 0: it is free                                              *)
  loggedIn,  (* AGENT_FLAGS_LOGGED_IN in the memory of a cell, free or not *)
  id,        (* a->id: "held", or "stale" when the int it points to was    *)
             (* freed with the entry                                       *)
  polled,    (* connections that have an entry in the descriptor table     *)
  dying,     (* the cell event_destroy_agent has unlinked but not freed    *)
  exited,    (* SIGINT or SIGTERM: event_cleanup() and exit()              *)
  hungUp,    (* connections whose client has gone                          *)
  pending,   (* requests under way: the pointer they keep, and who asked   *)
  requests,  (* number of requests so far                                  *)
  sent,      (* history: replies written                                   *)
  served,    (* history: connections for which a request handler ran       *)
  proven     (* history: connections that gave the right password          *)

agentsVars == <<count, agents, mem, loggedIn, id, polled, dying, exited, hungUp,
                pending, requests, sent, served, proven>>
table   == <<count, agents, mem, loggedIn, id, polled, dying>>
work    == <<pending, requests, sent, served>>

Conns    == 1..count
Requests == [no : 1..MaxRequests, cell : Cells, asker : Conns]
Replies  == [no : 1..MaxRequests, to : Conns, asker : Conns]

AgentsInit ==
  /\ count = 0
  /\ agents = {}
  /\ mem = [c \in Cells |-> 0]
  /\ loggedIn = [c \in Cells |-> FALSE]
  /\ id = [c \in Cells |-> "held"]
  /\ polled = {}
  /\ dying = NoCell
  /\ exited = FALSE
  /\ hungUp = {}
  /\ pending = {}
  /\ requests = 0
  /\ sent = {} /\ served = {} /\ proven = {}

(* The main loop is between two callbacks. *)
Idle == ~exited /\ dying = NoCell

(* A callback of cheops_io_wait for the connection in c. *)
Called(c) == Idle /\ c \in agents /\ mem[c] \in polled

(* Wrong: the flags of the last owner of the memory. *)
new_agentUnset(c) ==
  /\ mem[c] = 0
  /\ mem' = [mem EXCEPT ![c] = count + 1]
  /\ UNCHANGED loggedIn

(* new_agent(): memory for the next connection, with flags = 0. *)
new_agent(c) ==
  /\ mem[c] = 0
  /\ mem' = [mem EXCEPT ![c] = count + 1]
  /\ loggedIn' = [loggedIn EXCEPT ![c] = FALSE]

(* handle_unix_connect and handle_ipv4_connect: accept(), new_agent(),      *)
(* cheops_io_add() and into the list (the reply "not authenticated" that    *)
(* IPv4 clients get at once is not a reply to a request).                   *)
Accept(c) ==
  /\ Idle
  /\ count < MaxConns
  /\ new_agent(c)
  /\ count' = count + 1
  /\ id' = [id EXCEPT ![c] = "held"]
  /\ polled' = polled \union {count + 1}
  /\ agents' = agents \union {c}
  /\ UNCHANGED <<dying, exited, hungUp, work, proven>>

(* handle_agent: which connections have their events handled.  The others   *)
(* get an error reply for anything but EVENT_AUTH_REQUEST.                  *)
Allowed(c) == loggedIn[c] \/ ~Authenticate

(* A request is dispatched; its handler starts the work and keeps a.  What  *)
(* a client sent before it hung up may still be read.                       *)
Request(c) ==
  /\ Called(c)
  /\ requests < MaxRequests
  /\ Allowed(c)
  /\ requests' = requests + 1
  /\ pending' = pending \union {[no |-> requests + 1, cell |-> c, asker |-> mem[c]]}
  /\ served' = served \union {mem[c]}
  /\ UNCHANGED <<table, exited, hungUp, sent, proven>>

(* handle_auth_request: the right password sets the flag; a wrong one, even *)
(* of a client that is logged in, changes nothing.                          *)
Login(c) ==
  /\ Called(c)
  /\ loggedIn' = [loggedIn EXCEPT ![c] = TRUE]
  /\ proven' = proven \union {mem[c]}
  /\ UNCHANGED <<count, agents, mem, id, polled, dying, exited, hungUp, work>>

(* Wrong: the connection is destroyed at once.                              *)
TooLargeDestroying(c) ==
  /\ Called(c)
  /\ polled' = polled \ {mem[c]}
  /\ agents' = agents \ {c}
  /\ mem' = [mem EXCEPT ![c] = 0]
  /\ UNCHANGED <<count, loggedIn, id, dying, exited, hungUp, work, proven>>

(* "event too large": handle_agent returns 0, the entry and its int go; the *)
(* agent stays in the list.                                                 *)
TooLarge(c) ==
  /\ Called(c)
  /\ polled' = polled \ {mem[c]}
  /\ id' = [id EXCEPT ![c] = "stale"]
  /\ UNCHANGED <<count, agents, mem, loggedIn, dying, exited, hungUp, work, proven>>

(* Wrong: nobody takes the agent out of the list. *)
NoticeLinked(c) ==
  /\ Called(c)
  /\ mem[c] \in hungUp
  /\ dying' = c
  /\ UNCHANGED <<count, agents, mem, loggedIn, id, polled, exited, hungUp, work, proven>>

(* POLLHUP, a read error or a read of nothing: event_destroy_agent takes    *)
(* the agent out of the list ...                                            *)
Notice(c) ==
  /\ Called(c)
  /\ mem[c] \in hungUp
  /\ agents' = agents \ {c}
  /\ dying' = c
  /\ UNCHANGED <<count, mem, loggedIn, id, polled, exited, hungUp, work, proven>>

(* ... closes the socket, removes the entry and frees the memory.           *)
DestroyAgent ==
  /\ ~exited
  /\ dying # NoCell
  /\ polled' = polled \ {mem[dying]}
  /\ mem' = [mem EXCEPT ![dying] = 0]
  /\ dying' = NoCell
  /\ UNCHANGED <<count, agents, loggedIn, id, exited, hungUp, work, proven>>

(* chk_agent: the address is in the list. *)
chk_agent(c) == c \in agents

(* The answer to a request is ready: event_send writes it to the connection *)
(* at the address, or drops it.                                             *)
event_send(p) ==
  /\ Idle
  /\ pending' = pending \ {p}
  /\ IF chk_agent(p.cell)
     THEN sent' = sent \union {[no |-> p.no, to |-> mem[p.cell], asker |-> p.asker]}
     ELSE UNCHANGED sent
  /\ UNCHANGED <<table, exited, hungUp, requests, served, proven>>

(* myexit() on a signal, between any two steps: event_cleanup() destroys    *)
(* every agent that is in the list.  One whose id is stale has it read all  *)
(* the same (cheops_io_remove): the freed int names the entry of somebody   *)
(* else, or none, or the program ends right there, with part of this undone.*)
myexit ==
  /\ ~exited
  /\ exited' = TRUE
  /\ \E unlinked, freed \in SUBSET agents, left \in SUBSET polled :
       /\ freed \subseteq unlinked
       /\ (\A c \in agents : id[c] = "held") =>
             freed = agents /\ left = polled \ {mem[c] : c \in agents}
       /\ agents' = agents \ unlinked
       /\ mem' = [c \in Cells |-> IF c \in freed THEN 0 ELSE mem[c]]
       /\ polled' = left
  /\ UNCHANGED <<count, loggedIn, id, dying, hungUp, work, proven>>

(* A client closes its end. *)
HangUp(n) ==
  /\ n \notin hungUp
  /\ hungUp' = hungUp \union {n}
  /\ UNCHANGED <<table, exited, work, proven>>

AgentsNext ==
  \/ \E c \in Cells : Accept(c)
  \/ \E c \in Cells : Request(c)
  \/ \E c \in Cells : Login(c)
  \/ \E c \in Cells : TooLarge(c)
  \/ \E c \in Cells : Notice(c)
  \/ DestroyAgent
  \/ \E p \in pending : event_send(p)
  \/ myexit
  \/ \E n \in Conns : HangUp(n)

AgentsSpec == AgentsInit /\ [][AgentsNext]_agentsVars

-----------------------------------------------------------------------------
(* Properties. *)

(* The state keeps the types of src/event.c's variables. *)
AgentsTypeOK ==
  /\ count \in Nat
  /\ agents \subseteq Cells
  /\ mem \in [Cells -> Conns \union {0}]
  /\ loggedIn \in [Cells -> BOOLEAN]
  /\ id \in [Cells -> {"held", "stale"}]
  /\ polled \subseteq Conns
  /\ dying \in Cells \union {NoCell}
  /\ exited \in BOOLEAN
  /\ hungUp \subseteq Conns
  /\ requests \in 0..MaxRequests
  /\ pending \subseteq Requests
  /\ sent \subseteq Replies
  /\ served \subseteq Conns
  /\ proven \subseteq Conns

(* Every agent in the list is allocated and no two are the same connection, *)
(* and the one that is being destroyed is not in it, so neither a second    *)
(* destroy nor event_cleanup() in a signal handler frees a cell twice       *)
(* (src/event.c:827-879, src/cheops-agent.c:137-141).  The one that is      *)
(* being destroyed still has its id: the id that went with too large an     *)
(* event (src/event.c:340, 372) is used by event_cleanup() alone, when the  *)
(* program ends.                                                            *)
ListIsAllocated ==
  /\ \A c \in agents : mem[c] # 0 /\ c # dying
  /\ \A c, d \in Cells : mem[c] = mem[d] /\ mem[c] # 0 => c = d
  /\ dying # NoCell => id[dying] = "held"

(* The descriptor table and the list agree while the program runs: what is  *)
(* polled is a connection of the list, or the one that is being destroyed,  *)
(* so no callback is ever made with freed memory as its data; what is in    *)
(* the list is polled, unless it sent too large an event.                   *)
PolledAreListed ==
  ~exited =>
    /\ \A n \in polled : \E c \in agents \union {dying} : c # NoCell /\ mem[c] = n
    /\ \A c \in agents : mem[c] \in polled <=> id[c] = "held"

(* With passwords required, no handler ever runs for a connection that has  *)
(* not given one, in whatever memory its agent lies.                        *)
ServedAfterLogin == Authenticate => served \subseteq proven

(* A reply goes to the client that asked, or else that client has hung up   *)
(* and its connection is destroyed: as long as it is there nobody else      *)
(* gets its replies (chk_agent, src/event.c:951-964).                       *)
RepliesOfTheLiving ==
  \A r \in sent : r.to = r.asker \/ r.asker \in hungUp

=============================================================================
