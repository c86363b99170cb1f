------------------------------- MODULE OsScan -------------------------------
(***************************************************************************)
(* OS scans (src/agent-osscan.c): the main thread queues requests, a       *)
(* scanner thread runs nmap for one after the other, and a timer of the    *)
(* main thread sends the reply, because only the main thread may write to  *)
(* the connections.  The reply is handed over in one place: the buffer     *)
(* ebuf_os and agent_to_send, with os_read_mutex as its flag (unlocked by  *)
(* the scanner: there is a reply; locked by the timer: taken).  A report   *)
(* that names no IPv4 address ends the agent, both threads and all.        *)
(*                                                                         *)
(* Scans are numbered in the order of the requests.  A definition marked   *)
(* "Wrong:" is the one below it as a plausible bug would have it; no       *)
(* action uses it (README.md, Sensitivity).                                *)
(***************************************************************************)
EXTENDS Integers, Sequences

CONSTANTS
  Agents,     (* the connected clients                                     *)
  NoAgent,    (* agent_to_send before the first reply                      *)
  MaxScans    (* bound: requests                                           *)

ASSUME OsScanAssumption ==
  /\ NoAgent \notin Agents
  /\ MaxScans \in Nat

VARIABLES
  asker,        (* the agent of each request                               *)
  queue,        (* os_detect_q: scans that wait                            *)
  outstanding,  (* os_detect_q_outstanding                                 *)
  sem,          (* os_detect_go_sem                                        *)
  job,          (* the scan the scanner works on, 0 when it has none       *)
  spc,          (* where dequeue_osscan is                                 *)
  mpc,          (* where the main thread is                                *)
  buffer,       (* ebuf_os: the scan it is about, and whether it is whole  *)
  to,           (* agent_to_send                                           *)
  taken,        (* os_read_mutex is locked                                 *)
  writer,       (* the thread that holds os_write_mutex, or "nobody"       *)
  sent,         (* history: event_send calls, with the agent and the reply *)
  failed,       (* history: scans that nmap did not answer                 *)
  rushed        (* history: a reply was built before the last was sent     *)

vars == <<asker, queue, outstanding, sem, job, spc, mpc, buffer, to, taken,
          writer, sent, failed, rushed>>
requests == <<asker, queue, outstanding, sem>>
history  == <<sent, failed, rushed>>

Scans == 1..Len(asker)

(* init_osscan: the read mutex starts locked. *)
Init ==
  /\ asker = <<>> /\ queue = <<>> /\ outstanding = 0 /\ sem = 0
  /\ job = 0 /\ spc = "sleep" /\ mpc = "loop"
  /\ buffer = [scan |-> 0, whole |-> FALSE] /\ to = NoAgent
  /\ taken = TRUE /\ writer = "nobody"
  /\ sent = <<>> /\ failed = {} /\ rushed = FALSE

-----------------------------------------------------------------------------
(* The main thread. *)

(* Wrong: a request that the counter does not know of. *)
EnqueueUncounted(a) ==
  /\ mpc = "loop"
  /\ Len(asker) < MaxScans
  /\ asker' = Append(asker, a)
  /\ queue' = Append(queue, Len(asker) + 1)
  /\ mpc' = "post"
  /\ UNCHANGED <<outstanding, sem, job, spc, buffer, to, taken, writer, history>>

(* handle_osscan_request and enqueue_osscan under os_list_mutex ... (A      *)
(* request whose np is NULL is dropped before that and changes nothing.)    *)
Enqueue(a) ==
  /\ mpc = "loop"
  /\ Len(asker) < MaxScans
  /\ asker' = Append(asker, a)
  /\ queue' = Append(queue, Len(asker) + 1)
  /\ outstanding' = outstanding + 1
  /\ mpc' = "post"
  /\ UNCHANGED <<sem, job, spc, buffer, to, taken, writer, history>>

(* ... and the sem_post after it. *)
Post ==
  /\ mpc = "post"
  /\ sem' = sem + 1
  /\ mpc' = "loop"
  /\ UNCHANGED <<asker, queue, outstanding, job, spc, buffer, to, taken, writer, history>>

(* osscan_timer: trylock succeeds when there is a reply (else nothing       *)
(* happens until the next 800 ms are over).                                 *)
TimerTakes ==
  /\ mpc = "loop"
  /\ ~taken
  /\ taken' = TRUE
  /\ mpc' = "took"
  /\ UNCHANGED <<requests, job, spc, buffer, to, writer, history>>

(* Wrong: without os_write_mutex. *)
TimerLocksNothing ==
  /\ mpc = "took"
  /\ mpc' = "send"
  /\ UNCHANGED <<requests, job, spc, buffer, to, taken, writer, history>>

(* The timer gets os_write_mutex. *)
TimerLocksBuffer ==
  /\ mpc = "took"
  /\ writer = "nobody"
  /\ writer' = "main"
  /\ mpc' = "send"
  /\ UNCHANGED <<requests, job, spc, buffer, to, taken, history>>

(* event_send(agent_to_send, event_to_send), and the mutex is free again. *)
TimerSends ==
  /\ mpc = "send"
  /\ sent' = Append(sent, [scan |-> buffer.scan, whole |-> buffer.whole, agent |-> to])
  /\ writer' = "nobody"
  /\ mpc' = "loop"
  /\ UNCHANGED <<requests, job, spc, buffer, to, taken, failed, rushed>>

-----------------------------------------------------------------------------
(* The scanner thread. *)

WakeUp ==
  /\ spc = "sleep"
  /\ sem > 0
  /\ sem' = sem - 1
  /\ spc' = "pop"
  /\ UNCHANGED <<asker, queue, outstanding, job, mpc, buffer, to, taken, writer, history>>

(* Under os_list_mutex: the first of the queue; nothing to do without one. *)
Pop ==
  /\ spc = "pop"
  /\ IF queue = <<>>
     THEN spc' = "sleep" /\ UNCHANGED <<queue, outstanding, job>>
     ELSE /\ job' = Head(queue)
          /\ queue' = Tail(queue)
          /\ outstanding' = outstanding - 1
          /\ spc' = "scan"
  /\ UNCHANGED <<asker, sem, mpc, buffer, to, taken, writer, history>>

(* nmap_scan returned NULL: the host is not there, and nobody is told. *)
ScanFails ==
  /\ spc = "scan"
  /\ failed' = failed \union {job}
  /\ job' = 0
  /\ spc' = "sleep"
  /\ UNCHANGED <<requests, mpc, buffer, to, taken, writer, sent, rushed>>

(* A reply waits in the buffer, or the timer has just taken it. *)
ReplyWaits == ~taken \/ mpc = "took"

(* send_osscan_reply takes os_write_mutex and starts to fill ebuf_os. *)
StartReply ==
  /\ spc = "scan"
  /\ writer = "nobody"
  /\ writer' = "scanner"
  /\ buffer' = [scan |-> job, whole |-> FALSE]
  /\ rushed' = (rushed \/ ReplyWaits)
  /\ spc' = "fill"
  /\ UNCHANGED <<requests, job, mpc, to, taken, sent, failed>>

(* ... unless the report has no address: inet_addr(NULL) ends the agent.    *)
NoAddress ==
  /\ spc = "scan"
  /\ writer = "nobody"
  /\ spc' = "ended"
  /\ UNCHANGED <<requests, job, mpc, buffer, to, taken, writer, history>>

EndReply ==
  /\ spc = "fill"
  /\ buffer' = [buffer EXCEPT !.whole = TRUE]
  /\ writer' = "nobody"
  /\ spc' = "filled"
  /\ UNCHANGED <<requests, job, mpc, to, taken, history>>

(* Wrong: the mutex is unlocked before the agent is set. *)
SetAgentLate ==
  /\ spc = "filled"
  /\ taken' = FALSE
  /\ spc' = "set"
  /\ UNCHANGED <<requests, job, mpc, buffer, to, writer, history>>

(* agent_osscan_send_event, outside every mutex: event_to_send is always    *)
(* ebuf_os; agent_to_send changes ...                                       *)
SetAgent ==
  /\ spc = "filled"
  /\ to' = asker[job]
  /\ spc' = "set"
  /\ UNCHANGED <<requests, job, mpc, buffer, taken, writer, history>>

(* Wrong: the reply is left for a timer that never learns of it. *)
HandOverNothing ==
  /\ spc = "set"
  /\ job' = 0
  /\ spc' = "sleep"
  /\ UNCHANGED <<requests, mpc, buffer, to, taken, writer, history>>

(* ... and then os_read_mutex is unlocked, locked or not. *)
HandOver ==
  /\ spc = "set"
  /\ taken' = FALSE
  /\ job' = 0
  /\ spc' = "sleep"
  /\ UNCHANGED <<requests, mpc, buffer, to, writer, history>>

AgentEnded == spc = "ended"

Next ==
  /\ ~AgentEnded
  /\ \/ \E a \in Agents : Enqueue(a)
     \/ Post
     \/ TimerTakes
     \/ TimerLocksBuffer
     \/ TimerSends
     \/ WakeUp
     \/ Pop
     \/ ScanFails
     \/ StartReply
     \/ NoAddress
     \/ EndReply
     \/ SetAgent
     \/ HandOver

Spec == Init /\ [][Next]_vars

(* The timer fires every 800 ms, both threads take their steps, and nmap    *)
(* comes to an end, one way or the other.  The timer may find the main loop *)
(* busy with a request each time, hence the strong fairness; the mutex may  *)
(* go back and forth between the threads.                                   *)
Fairness ==
  /\ WF_vars(~AgentEnded /\ Post)
  /\ SF_vars(~AgentEnded /\ TimerTakes)
  /\ SF_vars(~AgentEnded /\ TimerLocksBuffer)
  /\ WF_vars(~AgentEnded /\ TimerSends)
  /\ WF_vars(WakeUp)
  /\ WF_vars(Pop)
  /\ SF_vars(ScanFails \/ StartReply \/ NoAddress)
  /\ WF_vars(EndReply)
  /\ WF_vars(SetAgent)
  /\ WF_vars(HandOver)

FairSpec == Spec /\ Fairness

-----------------------------------------------------------------------------
(* Properties. *)

(* The state keeps the types of src/agent-osscan.c's variables. *)
TypeOK ==
  /\ asker \in Seq(Agents)
  /\ queue \in Seq(Nat) /\ \A i \in 1..Len(queue) : queue[i] \in Scans
  /\ outstanding \in Nat
  /\ sem \in Nat
  /\ job \in Scans \union {0}
  /\ spc \in {"sleep", "pop", "scan", "fill", "filled", "set", "ended"}
  /\ mpc \in {"loop", "post", "took", "send"}
  /\ buffer \in [scan : Scans \union {0}, whole : BOOLEAN]
  /\ to \in Agents \union {NoAgent}
  /\ taken \in BOOLEAN
  /\ writer \in {"nobody", "main", "scanner"}
  /\ failed \subseteq Scans
  /\ rushed \in BOOLEAN

(* The semaphore, the counter and the list agree although they change at    *)
(* different times: the scanner never wakes up to an empty queue, and no    *)
(* request waits without a wake-up on its way.                              *)
WakeUpsMatchRequests ==
  /\ outstanding = Len(queue)
  /\ Len(queue) = sem + (IF mpc = "post" THEN 1 ELSE 0) + (IF spc = "pop" THEN 1 ELSE 0)

(* What is sent is never a reply that the scanner is still writing: the     *)
(* write mutex separates the two, and the timer has nothing to send before  *)
(* the first reply.                                                         *)
RepliesAreWhole ==
  \A i \in 1..Len(sent) : sent[i].whole /\ sent[i].agent # NoAgent

(* Replies leave in the order of the requests.                              *)
RepliesInOrder ==
  \A i, j \in 1..Len(sent) : i < j => sent[i].scan <= sent[j].scan

(* A reply goes to the agent that asked, once.  It does so only as long as  *)
(* no scan ends within the 800 ms that its predecessor's reply may have to  *)
(* wait: there is one buffer and one agent_to_send, and the scanner does    *)
(* not look whether they are in use.                                        *)
RepliesReachAsker ==
  ~rushed =>
    /\ \A i \in 1..Len(sent) : sent[i].agent = asker[sent[i].scan]
    /\ \A i, j \in 1..Len(sent) : sent[i].scan = sent[j].scan => i = j

(* Every request is scanned, and answered unless nmap finds no host, the    *)
(* replies run into each other, or a report without an address has ended    *)
(* the agent.                                                               *)
EveryScanAnswered ==
  \A n \in 1..MaxScans :
    Len(asker) >= n ~> \/ \E i \in 1..Len(sent) : sent[i].scan = n
                       \/ n \in failed
                       \/ rushed
                       \/ AgentEnded
=============================================================================
