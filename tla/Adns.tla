-------------------------------- MODULE Adns --------------------------------
(***************************************************************************)
(* The DNS resolver that the GUI is linked with (src/adns-1.0/src): queries *)
(* on their way through the queues udpw, tcpw, childw and output, the TCP   *)
(* connection that all long queries share, and the retries, timeouts and    *)
(* child queries.                                                           *)
(*                                                                         *)
(* Every function of the library runs to its end before the next; one call  *)
(* is one action, an operator from a state of the library to the next.      *)
(* adns_processany calls adns_processtimeouts and then, for each socket,    *)
(* the others, each of which is an action here.                             *)
(* What the sockets do in a call is its parameter io: how many writes go    *)
(* through and whether the next one fails or is put off, how many connects  *)
(* are refused at once, and what becomes of the next one: it is made at     *)
(* once, or later, or (down) no connect is made any more, because all are   *)
(* refused or because there is no socket for one.                           *)
(* Whether a timeout lies in the past is a flag that time sets.  Of the     *)
(* buffer tcpsend only whether it is empty is kept.  Which servers a query, *)
(* or the connection, is to and the ids that tell the answers of one query  *)
(* from those of another are left out: every packet has an id of its own    *)
(* until 65536 have been sent.                                              *)
(*                                                                         *)
(* An assertion that fails, memory used after free or through a pointer     *)
(* that was overwritten, a list that is taken apart, and a loop that cannot *)
(* end, end the program: the history variable aborted says which, and       *)
(* nothing is claimed of what comes after.  Malloc is taken not to      *)
(* fail; names, records and the packets themselves are left out.            *)
(*                                                                         *)
(* A definition marked "Wrong:" is the one below it as a plausible bug      *)
(* would have it; no action uses it (README.md, Sensitivity).              *)
(***************************************************************************)
EXTENDS Integers, FiniteSets, Sequences, SequencesExt

CONSTANTS
  Queries,        (* memory for struct adns__query                         *)
  NULL,
  nservers,
  UDPMAXRETRIES,
  Kinds,          (* what is asked for: addresses "addr", a checked name   *)
                  (* "ptr", hosts with their addresses "hosts"             *)
  SearchNames,    (* the numbers of names that a search has still to try   *)
  Sockets,        (* what the sockets may do in a call                     *)
  MaxAsked        (* bound: queries of the user                            *)

(* struct adns__query *)
QueryRecords ==
  [state : {"tosend", "tcpw", "childw", "done"}, kind : {"addr", "ptr", "hosts"},
   parent : Queries \union {NULL}, children : Seq(Queries), names : Nat, loose : BOOLEAN,
   cname : BOOLEAN, usevc : BOOLEAN, retries : Nat, late : BOOLEAN, sent : BOOLEAN]

ASSUME AdnsAssumption ==
  /\ IsFiniteSet(Queries) /\ NULL \notin Queries \union QueryRecords
  /\ nservers \in Nat \ {0} /\ UDPMAXRETRIES \in Nat \ {0}
  /\ Kinds \subseteq {"addr", "ptr", "hosts"}
  /\ SearchNames \subseteq Nat
  /\ Sockets \subseteq [writes : Nat, error : BOOLEAN, refused : 0..nservers, atonce : BOOLEAN,
                        down : BOOLEAN]

VARIABLES
  ads,      (* the library                                                 *)
  aborted   (* history: what ended the program                             *)

vars == <<ads, aborted>>

(* io is what the sockets do in this call, bad what went wrong in it;       *)
(* smashed: tcprecv.buf no longer points to the buffer.                     *)
Nothing ==
  [q |-> [s \in Queries |-> NULL], udpw |-> <<>>, tcpw |-> <<>>, childw |-> <<>>, output |-> <<>>,
   tcpstate |-> "disconnected", tcptimeout |-> "none", tcpsend |-> FALSE, smashed |-> FALSE,
   io |-> NULL, bad |-> "no"]

Init == ads = Nothing /\ aborted = "no"

Allocated(h) == {s \in Queries : h.q[s] # NULL}
Listed(seq)  == {seq[i] : i \in 1..Len(seq)}
Bad(h, what) == [h EXCEPT !.bad = IF @ = "no" THEN what ELSE @]

(* sent (history): on the present connection, or in the buffer for it. *)
query_alloc(kind, parent, names, loose) ==
  [state |-> "tosend", kind |-> kind, parent |-> parent, children |-> <<>>, names |-> names,
   loose |-> loose, cname |-> FALSE, usevc |-> FALSE, retries |-> 0,
   late |-> FALSE, sent |-> FALSE]

(* Op(h, x), with h computed once. *)
Apply(Op(_, _), h, x) == CHOOSE r \in {Op(g, x) : g \in {h}} : TRUE

(* What h becomes by Op with one element of seq after the other. *)
Thread(Op(_, _), h, seq) ==
  LET after[i \in 0..Len(seq)] == IF i = 0 THEN h ELSE Apply(Op, after[i - 1], seq[i])
  IN  after[Len(seq)]

Times(n) == [i \in 1..n |-> i]

-----------------------------------------------------------------------------
(* Queues *)

(* How a query that is not sent again was asked is forgotten. *)
Settled(qu, state) ==
  [query_alloc(qu.kind, qu.parent, 0, TRUE) EXCEPT !.state = state, !.children = qu.children]

QueueOf(state) ==
  CASE state = "tosend" -> "udpw" [] state = "tcpw" -> "tcpw"
    [] state = "childw" -> "childw" [] state = "done" -> "output"

Without(seq, s) == RemoveAt(seq, CHOOSE i \in DOMAIN seq : seq[i] = s)

Link(h, list, s) == [h EXCEPT ![list] = Append(@, s)]

(* LIST_UNLINK of one that is not in the list would empty it. *)
Unlink(h, list, s) ==
  IF s \in Listed(h[list]) THEN [h EXCEPT ![list] = Without(@, s)] ELSE Bad(h, "unlink")

CancelOne(h, s) == [Unlink(h, QueueOf(h.q[s].state), s) EXCEPT !.q[s] = NULL]

cancel_children(h, s) ==
  [Thread(CancelOne, h, h.q[s].children) EXCEPT !.q[s].children = <<>>]

(* Of one that has no parent: children are never given to the user. *)
adns__cancel(h, s) == CancelOne(cancel_children(h, s), s)

-----------------------------------------------------------------------------
(* The end of a query. *)

DoneTop(h, s) == Link([cancel_children(h, s) EXCEPT !.q[s] = Settled(@, "done")], "output", s)

GoesOn(h, p) == IF h.q[p].children = <<>> THEN DoneTop(h, p) ELSE Link(h, "childw", p)

(* right: the addresses of the name include the one that was asked for. *)
icb_ptr(h, p, right) == IF right THEN GoesOn(h, p) ELSE DoneTop(h, p)

(* A host without addresses is part of the answer. *)
icb_hostaddr(h, p, right) == GoesOn(h, p)

(* Wrong: the others are not waited for, nor cancelled. *)
DoneChildFirst(h, s, right) ==
  LET p == h.q[s].parent
      g == [Unlink(h, "childw", p) EXCEPT !.q[p].children = Without(@, s), !.q[s] = NULL]
  IN  Link([g EXCEPT !.q[p] = Settled(@, "done")], "output", p)

DoneChild(h, s, right) ==
  LET p == h.q[s].parent
      g == [Unlink(h, "childw", p) EXCEPT !.q[p].children = Without(@, s), !.q[s] = NULL]
  IN  IF h.q[p].kind = "ptr" THEN icb_ptr(g, p, right) ELSE icb_hostaddr(g, p, right)

adns__query_done(h, s, right) ==
  IF h.q[s].parent = NULL THEN DoneTop(h, s) ELSE DoneChild(cancel_children(h, s), s, right)

adns__query_fail(h, s) == adns__query_done(h, s, FALSE)

-----------------------------------------------------------------------------
(* The TCP connection. *)

tcp_close(h) ==
  [h EXCEPT !.tcpsend = FALSE,
            !.q = [s \in Queries |-> IF @[s] = NULL THEN NULL ELSE [@[s] EXCEPT !.sent = FALSE]]]

(* A connection that cannot be made is a try of all that wait for it. *)
adns__tcp_broken(h) ==
  IF h.tcpstate \notin {"connecting", "ok"} THEN Bad(h, "broken")
  ELSE LET g        == tcp_close(h)
           tried(s) == [g.q[s] EXCEPT !.retries = @ + 1]
           q        == [s \in Queries |-> IF h.tcpstate = "connecting" /\ s \in Listed(h.tcpw)
                                          THEN tried(s) ELSE g.q[s]]
       IN  [g EXCEPT !.q = q, !.tcpstate = "broken"]

(* Behind what waits to be written already, or written at once. *)
adns__querysend_tcp(h, s) ==
  IF h.tcpstate # "ok" THEN h
  ELSE LET g == [h EXCEPT !.q[s].retries = @ + 1, !.q[s].sent = TRUE, !.tcptimeout = "none"]
       IN  CASE g.tcpsend                       -> g
             [] ~g.tcpsend /\ g.io.writes > 0   -> [g EXCEPT !.io.writes = @ - 1]
             [] ~g.tcpsend /\ g.io.writes = 0   -> IF g.io.error THEN adns__tcp_broken([g EXCEPT !.io.error = FALSE])
                                                  ELSE [g EXCEPT !.tcpsend = TRUE]

tcp_connected(h) ==
  Thread(adns__querysend_tcp, [h EXCEPT !.tcpstate = "ok"], h.tcpw)

TryServer(h, n) ==
  LET c == [h EXCEPT !.tcpstate = "connecting"]
  IN  CASE h.tcpstate # "disconnected" -> h
        [] h.tcpstate = "disconnected" /\ h.io.refused > 0 ->
             [adns__tcp_broken([c EXCEPT !.io.refused = @ - 1]) EXCEPT !.tcpstate = "disconnected"]
        [] h.tcpstate = "disconnected" /\ h.io.refused = 0 ->
             CASE h.io.down                  -> h
               [] ~h.io.down /\ h.io.atonce  -> tcp_connected(c)
               [] ~h.io.down /\ ~h.io.atonce -> [c EXCEPT !.tcptimeout = "ahead"]

(* Every server is tried once, until one does not refuse at once. *)
adns__tcp_tryconnect(h) == Thread(TryServer, h, Times(nservers))

-----------------------------------------------------------------------------
(* Sending *)

query_usetcp(h, s) ==
  adns__tcp_tryconnect(
    adns__querysend_tcp(Link([h EXCEPT !.q[s].state = "tcpw", !.q[s].late = FALSE], "tcpw", s), s))

(* assert(qu->state == query_tosend) *)
adns__query_send(h, s) ==
  IF h.q[s].state # "tosend" THEN Bad(h, "send")
  ELSE IF h.q[s].usevc THEN query_usetcp(h, s)
  ELSE IF h.q[s].retries >= UDPMAXRETRIES THEN adns__query_fail(h, s)
  ELSE Link([h EXCEPT !.q[s].late = FALSE, !.q[s].retries = @ + 1], "udpw", s)

adns__search_next(h, s) ==
  IF h.q[s].names = 0 THEN adns__query_fail(h, s)
  ELSE adns__query_send([h EXCEPT !.q[s].names = @ - 1], s)

adns__internal_submit(h, p, loose) ==
  LET s == CHOOSE s \in Queries : h.q[s] = NULL
  IN  [adns__query_send([h EXCEPT !.q[s] = query_alloc("addr", NULL, 0, loose)], s)
         EXCEPT !.q[s].parent = p, !.q[p].children = Append(@, s)]

-----------------------------------------------------------------------------
(* A datagram that answers a query; an alias may come before what it says.  *)
(* A failure is an error, or that there is nothing of what is wanted.       *)
Dgrams ==
  {d \in [says : {"failure", "nxdomain", "truncated", "referral", "records", "garbled"},
          alias : BOOLEAN, children : 0..2, right : BOOLEAN] :
     /\ d.says \in {"failure", "nxdomain", "truncated", "referral"} => d.children = 0
     /\ d.says = "failure" => ~d.alias
     /\ d.says = "referral" => d.alias
     /\ d.says = "garbled" => d.children > 0
     /\ d.says # "records" => d.right}

(* Wrong: what was sent by TCP is still in that state. *)
RestartInState(h, s) == adns__query_send(cancel_children([h EXCEPT !.q[s].retries = 0], s), s)

(* x_restartquery *)
Restart(h, s) ==
  adns__query_send(cancel_children([h EXCEPT !.q[s].state = "tosend", !.q[s].retries = 0], s), s)

(* The records that are wanted, each of which may need a child. *)
Parse(h, s, d) ==
  Thread(LAMBDA g, k : adns__internal_submit(g, s, g.q[s].kind = "ptr"), h, Times(d.children))

Records(h, s, d) ==
  LET g == Parse(h, s, d)
  IN  IF d.says = "garbled" THEN adns__query_fail(g, s)
      ELSE IF g.q[s].children # <<>> THEN Link([g EXCEPT !.q[s] = Settled(@, "childw")], "childw", s)
      ELSE adns__query_done(g, s, d.right)

(* s is found in udpw or in tcpw, by its id and its question. *)
adns__procdgram(h, s, d) ==
  LET h1 == Unlink(h, QueueOf(h.q[s].state), s)
      g  == IF d.alias THEN [h1 EXCEPT !.q[s].cname = TRUE] ELSE h1
  IN  CASE d.says = "failure" \/ (d.alias /\ (h.q[s].cname \/ ~h.q[s].loose)) -> adns__query_fail(h1, s)
        [] OTHER ->
             CASE d.says = "nxdomain"  -> adns__search_next(g, s)
               [] d.says = "truncated" -> Restart([g EXCEPT !.q[s].usevc = TRUE], s)
               [] d.says = "referral"  -> Restart(g, s)
               [] OTHER                -> Records(g, s, d)

-----------------------------------------------------------------------------
(* Timeouts *)

LateIn(h, list) == {s \in Listed(h[list]) : h.q[s].late}

FirstLate(h, list) ==
  h[list][CHOOSE i \in DOMAIN h[list] :
            h[list][i] \in LateIn(h, list) /\ \A j \in 1..(i - 1) : h[list][j] \notin LateIn(h, list)]

(* Wrong: what waits for TCP is sent again. *)
TimedOutResend(h, s) ==
  IF h.q[s].state = "tosend" THEN adns__query_send(h, s) ELSE query_usetcp(h, s)

TimedOut(h, s) ==
  IF h.q[s].state = "tosend" THEN adns__query_send(h, s) ELSE adns__query_fail(h, s)

OneTimedOut(h, list) ==
  IF LateIn(h, list) = {} THEN h
  ELSE LET s == FirstLate(h, list) IN Apply(TimedOut, Unlink(h, list, s), s)

(* The queue is searched from its head again after each that was late. *)
timeouts_queue(h, list) ==
  Thread(LAMBDA g, n : OneTimedOut(g, list), h, Times(Cardinality(Queries)))

After(seq, s) ==
  LET i == CHOOSE i \in DOMAIN seq : seq[i] = s
  IN  IF i = Len(seq) THEN NULL ELSE seq[i + 1]

(* a is a state and the query that is next.                                 *)
GiveUpNext(a, n) ==
  IF a.next = NULL THEN a
  ELSE IF a.next \notin Listed(a.h.tcpw) THEN [h |-> Bad(a.h, "freed"), next |-> NULL]
  ELSE [h    |-> IF a.h.q[a.next].retries > nservers
                 THEN adns__query_fail(Unlink(a.h, "tcpw", a.next), a.next) ELSE a.h,
        next |-> After(a.h.tcpw, a.next)]

(* Those that no server is left for.  The next one is taken before a query  *)
(* is failed, which may cancel it.                                          *)
GiveUp(h) ==
  Thread(GiveUpNext, [h |-> h, next |-> IF h.tcpw = <<>> THEN NULL ELSE Head(h.tcpw)],
         Times(Len(h.tcpw))).h

(* Once around the loop of tcp_events. *)
TcpEvent(h) ==
  CASE h.tcpstate \in {"broken", "disconnected"} ->
         LET g == IF h.tcpstate = "broken" THEN [GiveUp(h) EXCEPT !.tcpstate = "disconnected"] ELSE h
         IN  IF g.tcpw = <<>> THEN g ELSE adns__tcp_tryconnect(g)
    [] h.tcpstate = "connecting" -> IF h.tcptimeout = "past" THEN adns__tcp_broken(h) ELSE h
    [] h.tcpstate = "ok" /\ h.tcpw # <<>> -> h
    [] OTHER ->
         IF h.tcptimeout = "past" THEN [tcp_close(h) EXCEPT !.tcpstate = "disconnected"]
         ELSE [h EXCEPT !.tcptimeout = "ahead"]

(* The loop comes to rest once a connect is not refused.  When none is made *)
(* any more it goes on for ever, and no query is given up.                  *)
TcpTurns(h) ==
  Thread(LAMBDA g, n : TcpEvent(g), h, Times(nservers + 4))

tcp_events(h) ==
  LET g == TcpTurns(h)
  IN  IF g.io.down /\ g.tcpstate = "disconnected" /\ g.tcpw # <<>> THEN Bad(g, "spins") ELSE g

adns__timeouts(h) ==
  LET g == Apply(timeouts_queue, Apply(timeouts_queue, h, "udpw"), "tcpw") IN tcp_events(g)

(* Wrong: a connection that nobody has tried to make is not thought of. *)
FirstTimeoutMade(h) ==
  CASE \/ LateIn(h, "udpw") \union LateIn(h, "tcpw") # {}
       \/ h.tcpstate = "broken"
       \/ h.tcpstate = "connecting" /\ h.tcptimeout = "past"
       \/ h.tcpstate = "ok" /\ h.tcpw = <<>> /\ h.tcptimeout = "past" -> "now"
    [] h.udpw = <<>> /\ h.tcpw = <<>> /\ h.tcpstate = "disconnected" -> "never"
    [] OTHER -> "later"

(* How long adns_beforeselect lets the caller sleep: not at all, until the  *)
(* first timeout, or for ever.                                              *)
FirstTimeout(h) ==
  CASE \/ LateIn(h, "udpw") \union LateIn(h, "tcpw") # {}
       \/ h.tcpstate = "broken"
       \/ h.tcpstate = "disconnected" /\ h.tcpw # <<>>
       \/ h.tcpstate = "connecting" /\ h.tcptimeout = "past"
       \/ h.tcpstate = "ok" /\ h.tcpw = <<>> /\ h.tcptimeout = "past" -> "now"
    [] h.udpw = <<>> /\ h.tcpw = <<>> /\ h.tcpstate = "disconnected" -> "never"
    [] OTHER -> "later"

-----------------------------------------------------------------------------
(* What the user and the sockets do. *)

Query(s) == ads.q[s]
Call(io) == [ads EXCEPT !.io = io]

Idle == [writes |-> 0, error |-> FALSE, refused |-> 0, atonce |-> FALSE, down |-> FALSE]

(* What the sockets do in a call that may, or cannot, use TCP. *)
Outcomes(tcp) == IF tcp THEN Sockets ELSE {Idle}

(* The call leaves the library as h, if nothing went wrong in it. *)
Becomes(h) ==
  /\ aborted = "no"
  /\ \E g \in {h} :
       IF g.bad = "no" THEN ads' = [g EXCEPT !.io = NULL] /\ UNCHANGED aborted
                      ELSE aborted' = g.bad /\ ads' = Nothing

IsTop(s) == ads.q[s] # NULL /\ ads.q[s].parent = NULL

adns_submit(kind, names, usevc) ==
  /\ Allocated(ads) # Queries /\ Cardinality({s \in Queries : IsTop(s)}) < MaxAsked
  /\ LET s == CHOOSE s \in Queries : ads.q[s] = NULL
         new == [query_alloc(kind, NULL, names, TRUE) EXCEPT !.usevc = usevc]
     IN  \E io \in Outcomes(usevc) : Becomes(adns__query_send([Call(io) EXCEPT !.q[s] = new], s))

adns_cancel(s) == IsTop(s) /\ Becomes(adns__cancel(ads, s))

(* The answer is handed out. *)
adns_check(s) ==
  /\ IsTop(s) /\ ads.q[s].state = "done"
  /\ Becomes([Unlink(ads, "output", s) EXCEPT !.q[s] = NULL])

(* Before the caller sleeps: an idle connection gets its timeout. *)
adns_beforeselect ==
  /\ ads.tcpstate = "ok" /\ ads.tcpw = <<>> /\ ads.tcptimeout = "none"
  /\ Becomes([ads EXCEPT !.tcptimeout = "ahead"])

adns_processtimeouts == \E io \in Outcomes(ads.tcpw # <<>>) : Becomes(adns__timeouts(Call(io)))

(* A datagram is read. *)
adns_processreadable(s, d) ==
  /\ s \in Listed(ads.udpw \o ads.tcpw)
  /\ Query(s).state = "tcpw" => ads.tcpstate = "ok" /\ ~ads.smashed
  /\ d.says \in {"records", "garbled"} =>
       /\ IF Query(s).kind = "addr" THEN d.children = 0
          ELSE d.children <= Cardinality(Queries \ Allocated(ads))
       /\ Query(s).kind = "ptr" /\ d.says = "records" => d.children > 0
  /\ \E io \in Outcomes(Query(s).usevc \/ d.says = "truncated") :
       Becomes(adns__procdgram(Call(io), s, d))

(* adns_processreadable where the buffer of the connection is elsewhere. *)
ReadAstray == ads.tcpstate = "ok" /\ ads.smashed /\ Becomes(Bad(ads, "pointer"))

(* The socket is writable: it is connected, or the server has sent data     *)
(* before it was asked, the first byte of which is read over the pointer to *)
(* the buffer (same: as it is the byte that was there), or it takes what    *)
(* waits.                                                                   *)
adns_processwriteable ==
  \/ ads.tcpstate = "connecting" /\ \E io \in Outcomes(ads.tcpw # <<>>) : Becomes(tcp_connected(Call(io)))
  \/ /\ ads.tcpstate = "connecting"
     /\ \E same \in BOOLEAN : Becomes([adns__tcp_broken(ads) EXCEPT !.smashed = ~same])
  \/ ads.tcpstate = "ok" /\ Becomes([ads EXCEPT !.tcpsend = FALSE])

(* A read or a write fails, the server closes, or there is an exception     *)
(* (adns_processexceptional).                                               *)
TcpFails == ads.tcpstate \in {"connecting", "ok"} /\ Becomes(adns__tcp_broken(ads))

(* Those that are failed stay in their queues, and are failed again. *)
adns_globalsystemfailure ==
  Becomes(IF ads.udpw \o ads.tcpw # <<>> THEN Bad(ads, "systemfailure")
          ELSE IF ads.tcpstate \in {"connecting", "ok"} THEN adns__tcp_broken(ads) ELSE ads)

(* Time passes: a queue is in the order of its timeouts. *)
Late(s) ==
  /\ \E list \in {"udpw", "tcpw"} : \E i \in DOMAIN ads[list] :
       /\ s = ads[list][i] /\ ~Query(s).late
       /\ \A j \in 1..(i - 1) : Query(ads[list][j]).late
  /\ Becomes([ads EXCEPT !.q[s].late = TRUE])

TcpLate ==
  /\ ads.tcpstate \in {"connecting", "ok"} /\ ads.tcptimeout = "ahead"
  /\ Becomes([ads EXCEPT !.tcptimeout = "past"])

Next ==
  \/ \E kind \in Kinds, names \in SearchNames, usevc \in BOOLEAN : adns_submit(kind, names, usevc)
  \/ \E s \in Queries : adns_cancel(s) \/ adns_check(s) \/ Late(s)
  \/ adns_beforeselect
  \/ adns_processtimeouts
  \/ \E s \in Queries, d \in Dgrams : adns_processreadable(s, d)
  \/ adns_processwriteable
  \/ ReadAstray
  \/ TcpFails
  \/ adns_globalsystemfailure
  \/ TcpLate

(* A caller that is told not to sleep. *)
WokenByTimeout == aborted = "no" /\ FirstTimeout(ads) = "now" /\ adns_processtimeouts

Spec == Init /\ [][Next]_vars /\ WF_vars(WokenByTimeout) /\ \A s \in Queries : WF_vars(Late(s))

-----------------------------------------------------------------------------
(* Properties. *)

Ends == {"no", "unlink", "broken", "send", "freed", "pointer", "spins", "systemfailure"}

IoRecords == [writes : Nat, error : BOOLEAN, refused : Nat, atonce : BOOLEAN, down : BOOLEAN]

States ==
  [q : [Queries -> QueryRecords \union {NULL}],
   udpw : Seq(Queries), tcpw : Seq(Queries), childw : Seq(Queries), output : Seq(Queries),
   tcpstate : {"disconnected", "connecting", "ok", "broken"},
   tcptimeout : {"none", "ahead", "past"}, tcpsend : BOOLEAN,
   smashed : BOOLEAN, io : IoRecords \union {NULL}, bad : Ends]

AdnsTypeOK == ads \in States /\ ads.io = NULL /\ aborted \in Ends

Unfinished == {s \in Allocated(ads) : Query(s).state # "done"}

(* Every query is in the queue of its state, and in no other. *)
InItsQueue ==
  \A list \in {"udpw", "tcpw", "childw", "output"} :
    /\ IsInjective(ads[list])
    /\ Listed(ads[list]) = {s \in Allocated(ads) : QueueOf(Query(s).state) = list}

Families ==
  \A s \in Allocated(ads) :
    /\ IsInjective(Query(s).children)
    /\ Listed(Query(s).children) = {c \in Allocated(ads) : Query(c).parent = s}
    /\ (Query(s).state = "childw") <=> (Query(s).children # <<>>)
    /\ Query(s).state = "done" => Query(s).parent = NULL

Tries == \A s \in Listed(ads.udpw) : Query(s).retries \in 1..UDPMAXRETRIES

(* "sent (or are in the to-send buffer) iff the tcp connection is in state  *)
(* server_ok" (internal.h)                                                  *)
SentWhileConnected ==
  /\ \A s \in Listed(ads.tcpw) : Query(s).sent <=> ads.tcpstate = "ok"
  /\ ads.tcpsend => ads.tcpstate = "ok"

(* What check.c asserts and the table of internal.h says of the states,     *)
(* queues, children and buffers, but for one thing that does not hold: that *)
(* a query by TCP has had no more than nservers + 1 tries (check.c:126).    *)
(* Every connect that is refused while others are submitted is one.         *)
Consistent == InItsQueue /\ Families /\ Tries /\ SentWhileConnected

(* The two ways through adns__timeouts agree: the caller is told not to     *)
(* sleep if and only if there is something to do, and never to sleep for    *)
(* ever while a query is unfinished (the assertion of adns_wait).  The very *)
(* instant of a timeout counts as before it: there the caller is told to    *)
(* sleep for no time at all, and nothing is done yet.                       *)
WaitMatchesWork ==
  LET done == [adns__timeouts(Call(Idle)) EXCEPT !.tcptimeout = ads.tcptimeout, !.io = NULL]
  IN  /\ (FirstTimeout(ads) = "now") <=> (done # ads)
      /\ Unfinished # {} => FirstTimeout(ads) # "never"

(* The program is aborted, or hangs, in five situations only: a search goes *)
(* on with the next name after an answer that came by TCP; a name to be     *)
(* checked has two children that wait for TCP, and the one that is given up *)
(* takes the other along; a server has sent data before the first request   *)
(* (event.c:445), and the next connection that is made is read from; no     *)
(* connection can be made for a query that waits for one; the system fails  *)
(* while queries are unanswered.                                            *)
AbortsOnlyWhere ==
  [][aborted' # aborted =>
       \/ aborted' = "send" /\ \E s \in Listed(ads.tcpw) : Query(s).names > 0
       \/ aborted' = "freed" /\ \E s, t \in Listed(ads.tcpw) :
            s # t /\ Query(s).parent = Query(t).parent /\ Query(s).parent # NULL
       \/ aborted' = "pointer" /\ ads.smashed
       \/ aborted' = "spins" /\ ads.tcpw # <<>> /\ ads.tcpstate # "ok"
       \/ aborted' = "systemfailure" /\ Unfinished # {}]_vars

(* A server says, by TCP, that its answer is truncated. *)
TruncatedByTCP ==
  \E s \in Listed(ads.tcpw), d \in Dgrams : d.says = "truncated" /\ adns_processreadable(s, d)

(* A query that the user does not cancel comes to an end, as long as        *)
(* timeouts are processed, whatever servers answer or do not answer, but    *)
(* for this: a server that answers by TCP, each time, that its answer is    *)
(* truncated, has it asked again for ever, with tries and timeout anew.     *)
EveryQueryEnds ==
  \A s \in Queries :
    \/ []<>(aborted # "no" \/ ~IsTop(s) \/ ads.q[s].state = "done")
    \/ []<><<TruncatedByTCP>>_vars
=============================================================================
