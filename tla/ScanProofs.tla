----------------------------- MODULE ScanProofs -----------------------------
(***************************************************************************)
(* Proofs about OsScan, Probe and ScanReports, which examine a host for    *)
(* the client.                                                             *)
(*                                                                         *)
(* OsScan, for any clients and number of requests: wake-ups match          *)
(* requests, replies leave whole and in order, and each reaches the client *)
(* that asked unless one scan ends before the reply of the last one was    *)
(* sent.                                                                   *)
(*                                                                         *)
(* Probe, for any number of requests and whatever addresses malloc()       *)
(* returns: no callback outlives its structure, and a probe ends at most   *)
(* once.                                                                   *)
(*                                                                         *)
(* ScanReports, for any documents of nmap and any room for the reply: what *)
(* was printed reaches the GUI.  The operators that fold a sequence are    *)
(* recursive functions; what one has after each element is a trace of      *)
(* states (PortThread, TakeThread, SizeThread), and UpTo is the induction  *)
(* over it.  The agent's trace says where each option and string is in     *)
(* memory (WritePorts), the GUI's that it reads from there (ReplyRead).    *)
(***************************************************************************)
EXTENDS OsScan, Probe, ScanReports, SequenceTheorems, WellFoundedInduction, TLAPS

Working == {"scan", "fill", "filled", "set", "ended"}

(* The write mutex is held by who uses the buffer; the scanner has a job    *)
(* when it works on one; the counter counts the queue.                      *)
Control ==
  /\ outstanding = Len(queue)
  /\ writer = "main" <=> mpc = "send"
  /\ writer = "scanner" <=> spc = "fill"
  /\ job # 0 <=> spc \in Working

(* There is a reply for the timer, or the timer is about to send it.        *)
HandedOver == ~taken \/ mpc \in {"took", "send"}

(* What is in the buffer.                                                   *)
BufferIsReady ==
  /\ buffer.scan # 0 /\ ~buffer.whole => spc = "fill"
  /\ spc \in {"fill", "filled", "set"} => buffer.scan = job
  /\ HandedOver => buffer.scan # 0 /\ to # NoAgent
  /\ spc = "set" => to # NoAgent

(* Replies sent, the buffer, the job and the queue: in this order.          *)
ScansInOrder ==
  /\ \A i \in 1..Len(sent) : sent[i].scan <= buffer.scan
  /\ spc = "scan" => buffer.scan < job
  /\ \A i \in 1..Len(queue) : queue[i] > buffer.scan /\ queue[i] > job
  /\ \A i, j \in 1..Len(queue) : i < j => queue[i] < queue[j]

(* As long as no scan ended too early: the reply that waits is about the    *)
(* buffer's scan, goes to its asker, and was not sent before; the scanner   *)
(* does not touch it.                                                       *)
ReplyIsCurrent ==
  ~rushed =>
    /\ HandedOver => /\ spc \notin {"fill", "filled", "set"}
                     /\ to = asker[buffer.scan]
                     /\ \A i \in 1..Len(sent) : sent[i].scan < buffer.scan
    /\ ~taken => mpc \notin {"took", "send"}
    /\ spc \in {"fill", "filled", "set"} => \A i \in 1..Len(sent) : sent[i].scan < buffer.scan
    /\ spc = "set" => to = asker[job]

SentType == sent \in Seq([scan : Scans, whole : BOOLEAN, agent : Agents \union {NoAgent}])

Base == TypeOK /\ SentType /\ Control

-----------------------------------------------------------------------------
LEMMA NextCases ==
  ASSUME [Next]_vars, NEW ACTION P,
         \A a \in Agents : Enqueue(a) => P,
         Post => P, TimerTakes => P, TimerLocksBuffer => P, TimerSends => P,
         WakeUp => P, Pop => P, ScanFails => P, StartReply => P,
         NoAddress => P, EndReply => P, SetAgent => P, HandOver => P,
         UNCHANGED vars => P
  PROVE  P
BY DEF Next

(* One request more. *)
LEMMA EnqueueStep ==
  ASSUME TypeOK, NEW a \in Agents, Enqueue(a)
  PROVE  /\ Len(asker) \in Nat /\ Len(queue) \in Nat
         /\ asker' \in Seq(Agents) /\ Len(asker') = Len(asker) + 1
         /\ \A n \in Scans : asker'[n] = asker[n]
         /\ queue' \in Seq(Nat) /\ Len(queue') = Len(queue) + 1
         /\ \A i \in 1..Len(queue) : queue'[i] = queue[i]
         /\ queue'[Len(queue) + 1] = Len(asker) + 1
         /\ Scans' = Scans \union {Len(asker) + 1}
<1>1. Len(asker) \in Nat /\ Len(queue) \in Nat
  BY LenProperties DEF TypeOK
<1>2. /\ asker' \in Seq(Agents) /\ Len(asker') = Len(asker) + 1
      /\ \A n \in 1..Len(asker) : asker'[n] = asker[n]
  BY AppendProperties DEF Enqueue, TypeOK
<1>3. Len(asker) + 1 \in Nat
  BY <1>1
<1>4. /\ queue' \in Seq(Nat) /\ Len(queue') = Len(queue) + 1
      /\ \A i \in 1..Len(queue) : queue'[i] = queue[i]
      /\ queue'[Len(queue) + 1] = Len(asker) + 1
  BY <1>3, AppendProperties DEF Enqueue, TypeOK
<1>. QED BY <1>1, <1>2, <1>4 DEF Scans

(* The first of a queue that is not empty. *)
LEMMA PopStep ==
  ASSUME TypeOK, Pop, queue # <<>>
  PROVE  /\ Len(queue) \in Nat \ {0}
         /\ job' = queue[1] /\ queue[1] \in Scans
         /\ queue' \in Seq(Nat) /\ Len(queue') = Len(queue) - 1
         /\ \A i \in 1..Len(queue') : i + 1 \in 1..Len(queue) /\ queue'[i] = queue[i + 1]
         /\ spc' = "scan"
<1>1. queue \in Seq(Nat) /\ Len(queue) \in Nat
  BY LenProperties DEF TypeOK
<1>2. Len(queue) # 0
  BY <1>1, EmptySeq
<1>3. job' = Head(queue) /\ queue' = Tail(queue) /\ spc' = "scan"
  BY DEF Pop
<1>4. Head(queue) = queue[1]
  BY <1>1
<1>5. /\ queue' \in Seq(Nat) /\ Len(queue') = Len(queue) - 1
      /\ \A i \in 1..Len(queue') : queue'[i] = queue[i + 1]
  BY <1>1, <1>2, <1>3, HeadTailProperties
<1>6. 1 \in 1..Len(queue)
  BY <1>1, <1>2
<1>7. \A i \in 1..Len(queue') : i + 1 \in 1..Len(queue)
  BY <1>1, <1>2, <1>5
<1>. QED BY <1>1, <1>2, <1>3, <1>4, <1>5, <1>6, <1>7 DEF TypeOK

(* One reply more. *)
LEMMA SendStep ==
  ASSUME SentType, BufferIsReady, TypeOK, TimerSends
  PROVE  LET new == [scan |-> buffer.scan, whole |-> buffer.whole, agent |-> to]
         IN  /\ Len(sent) \in Nat
             /\ SentType' /\ Len(sent') = Len(sent) + 1
             /\ \A i \in 1..Len(sent) : sent'[i] = sent[i]
             /\ sent'[Len(sent) + 1] = new
<1> DEFINE new == [scan |-> buffer.scan, whole |-> buffer.whole, agent |-> to]
           T == [scan : Scans, whole : BOOLEAN, agent : Agents \union {NoAgent}]
<1>1. buffer.scan # 0
  BY DEF TimerSends, BufferIsReady, HandedOver
<1>2. new \in T
  BY <1>1 DEF TypeOK
<1>3. sent' = Append(sent, new) /\ sent \in Seq(T) /\ Scans' = Scans
  BY DEF TimerSends, SentType, requests, Scans
<1> HIDE DEF new
<1>4. /\ sent' \in Seq(T) /\ Len(sent') = Len(sent) + 1 /\ Len(sent) \in Nat
      /\ \A i \in 1..Len(sent) : sent'[i] = sent[i]
      /\ sent'[Len(sent) + 1] = new
  BY <1>2, <1>3, AppendProperties, LenProperties
<1>. QED BY <1>3, <1>4 DEF SentType, new

-----------------------------------------------------------------------------
(* Types, control and the buffer. *)

Inv1 == Base /\ BufferIsReady

LEMMA InitInv1 == Init => Inv1
<1> SUFFICES ASSUME Init PROVE Inv1
  OBVIOUS
<1>1. asker \in Seq(Agents) /\ queue \in Seq(Nat) /\ Len(queue) = 0
  BY EmptySeq DEF Init
<1>2. SentType
  BY EmptySeq DEF Init, SentType
<1>3. buffer \in [scan : Scans \union {0}, whole : BOOLEAN]
  BY DEF Init
<1>4. TypeOK
  <2>1. queue \in Seq(Nat) /\ \A i \in 1..Len(queue) : queue[i] \in Scans
    BY <1>1
  <2>2. taken \in BOOLEAN /\ rushed \in BOOLEAN /\ failed \subseteq Scans
    BY DEF Init
  <2>3. outstanding \in Nat /\ sem \in Nat /\ job \in Scans \union {0} /\ to \in Agents \union {NoAgent}
    BY DEF Init
  <2>4. /\ spc \in {"sleep", "pop", "scan", "fill", "filled", "set", "ended"}
        /\ mpc \in {"loop", "post", "took", "send"}
        /\ writer \in {"nobody", "main", "scanner"}
    BY DEF Init
  <2>. QED BY <1>1, <1>3, <2>1, <2>2, <2>3, <2>4 DEF TypeOK
<1>. QED BY <1>1, <1>2, <1>4 DEF Init, Inv1, Base, Control, BufferIsReady, HandedOver, Working

(* Steps that leave the requests, the queue and what was sent alone.        *)
LEMMA Inv1Quiet ==
  ASSUME Inv1, UNCHANGED <<asker, queue, sent>>,
         outstanding' = outstanding, sem' \in Nat,
         job' \in Scans \union {0}, job' # 0 <=> spc' \in Working,
         spc' \in {"sleep", "pop", "scan", "fill", "filled", "set", "ended"},
         mpc' \in {"loop", "post", "took", "send"},
         buffer' \in [scan : Scans \union {0}, whole : BOOLEAN],
         to' \in Agents \union {NoAgent},
         taken' \in BOOLEAN,
         writer' \in {"nobody", "main", "scanner"},
         writer' = "main" <=> mpc' = "send",
         writer' = "scanner" <=> spc' = "fill",
         failed' \subseteq Scans, rushed' \in BOOLEAN,
         BufferIsReady'
  PROVE  Inv1'
<1>1. Scans' = Scans
  BY DEF Scans
<1>2. SentType'
  BY <1>1 DEF Inv1, Base, SentType
<1>3. TypeOK'
  BY <1>1 DEF Inv1, Base, TypeOK
<1>4. outstanding' = Len(queue)'
  BY DEF Inv1, Base, Control
<1>. QED BY <1>2, <1>3, <1>4 DEF Inv1, Base, Control

LEMMA Inv1Step == Inv1 /\ [Next]_vars => Inv1'
<1> SUFFICES ASSUME Inv1, [Next]_vars PROVE Inv1'
  OBVIOUS
<1> USE DEF requests, history
<1>0. TypeOK /\ SentType /\ Control /\ BufferIsReady
  BY DEF Inv1, Base
<1>1. ASSUME NEW a \in Agents, Enqueue(a) PROVE Inv1'
  <2>1. /\ Len(asker) \in Nat /\ Len(queue) \in Nat
        /\ asker' \in Seq(Agents) /\ Len(asker') = Len(asker) + 1
        /\ queue' \in Seq(Nat) /\ Len(queue') = Len(queue) + 1
        /\ \A i \in 1..Len(queue) : queue'[i] = queue[i]
        /\ queue'[Len(queue) + 1] = Len(asker) + 1
        /\ Scans' = Scans \union {Len(asker) + 1}
    BY <1>0, <1>1, EnqueueStep
  <2>2. \A i \in 1..Len(queue') : queue'[i] \in Scans'
    <3>1. \A i \in 1..Len(queue') : i \in 1..Len(queue) \/ i = Len(queue) + 1
      BY <2>1
    <3>2. \A i \in 1..Len(queue) : queue[i] \in Scans
      BY <1>0 DEF TypeOK
    <3>. QED BY <2>1, <3>1, <3>2
  <2>3. SentType'
    <3> DEFINE S == [scan : Scans, whole : BOOLEAN, agent : Agents \union {NoAgent}]
               T == [scan : Scans', whole : BOOLEAN, agent : Agents \union {NoAgent}]
    <3>1. S \subseteq T
      BY <2>1
    <3>2. sent' = sent /\ sent \in Seq(S)
      BY <1>0, <1>1 DEF Enqueue, SentType
    <3> HIDE DEF S, T
    <3>3. sent \in [1..Len(sent) -> S] /\ Len(sent) \in Nat
      BY <3>2, LenProperties
    <3>4. sent \in [1..Len(sent) -> T]
      BY <3>1, <3>3
    <3>5. sent \in Seq(T)
      BY <3>3, <3>4, SeqDef
    <3>. QED BY <3>2, <3>5 DEF SentType, T
  <2>4. outstanding' \in Nat /\ mpc' = "post" /\ mpc = "loop"
    BY <1>0, <1>1 DEF Enqueue, TypeOK
  <2>5. UNCHANGED <<sem, job, spc, buffer, to, taken, writer, failed, rushed>>
    BY <1>1 DEF Enqueue
  <2>6. TypeOK'
    BY <1>0, <2>1, <2>2, <2>4, <2>5 DEF TypeOK
  <2>7. Control' /\ BufferIsReady'
    <3>1. outstanding' = Len(queue')
      BY <1>0, <1>1, <2>1 DEF Enqueue, Control
    <3>. QED BY <1>0, <2>4, <2>5, <3>1 DEF Control, BufferIsReady, HandedOver
  <2>. QED BY <2>3, <2>6, <2>7 DEF Inv1, Base
<1>2. ASSUME Post PROVE Inv1'
  <2>1. sem' \in Nat
    BY <1>0, <1>2 DEF Post, TypeOK
  <2>2. BufferIsReady'
    BY <1>0, <1>2 DEF Post, BufferIsReady, HandedOver
  <2>. QED BY <1>0, <1>2, <2>1, <2>2, Inv1Quiet DEF Post, TypeOK, Control
<1>3. ASSUME TimerTakes PROVE Inv1'
  <2>1. BufferIsReady'
    BY <1>0, <1>3 DEF TimerTakes, BufferIsReady, HandedOver
  <2>. QED BY <1>0, <1>3, <2>1, Inv1Quiet DEF TimerTakes, TypeOK, Control
<1>4. ASSUME TimerLocksBuffer PROVE Inv1'
  <2>1. BufferIsReady'
    BY <1>0, <1>4 DEF TimerLocksBuffer, BufferIsReady, HandedOver
  <2>. QED BY <1>0, <1>4, <2>1, Inv1Quiet DEF TimerLocksBuffer, TypeOK, Control
<1>5. ASSUME TimerSends PROVE Inv1'
  <2>1. SentType'
    BY <1>0, <1>5, SendStep
  <2>2. UNCHANGED <<asker, queue, outstanding, sem, job, spc, buffer, to, taken, failed, rushed>>
    BY <1>5 DEF TimerSends
  <2>3. mpc' = "loop" /\ writer' = "nobody" /\ mpc = "send" /\ Scans' = Scans
    BY <1>5, <2>2 DEF TimerSends, Scans
  <2>4. writer = "main"
    BY <1>0, <2>3 DEF Control
  <2>5. TypeOK'
    BY <1>0, <2>2, <2>3 DEF TypeOK
  <2>6. Control' /\ BufferIsReady'
    BY <1>0, <2>2, <2>3, <2>4 DEF Control, BufferIsReady, HandedOver
  <2>. QED BY <2>1, <2>5, <2>6 DEF Inv1, Base
<1>6. ASSUME WakeUp PROVE Inv1'
  <2>1. sem' \in Nat
    BY <1>0, <1>6 DEF WakeUp, TypeOK
  <2>2. BufferIsReady'
    BY <1>0, <1>6 DEF WakeUp, BufferIsReady, HandedOver
  <2>. QED BY <1>0, <1>6, <2>1, <2>2, Inv1Quiet DEF WakeUp, TypeOK, Control, Working
<1>8. ASSUME ScanFails PROVE Inv1'
  <2>1. BufferIsReady'
    BY <1>0, <1>8 DEF ScanFails, BufferIsReady, HandedOver
  <2>2. job \in Scans
    BY <1>0, <1>8 DEF ScanFails, Control, Working, TypeOK
  <2>3. failed' \subseteq Scans
    BY <1>0, <1>8, <2>2 DEF ScanFails, TypeOK
  <2>. QED BY <1>0, <1>8, <2>1, <2>3, Inv1Quiet DEF ScanFails, TypeOK, Control, Working
<1>9. ASSUME StartReply PROVE Inv1'
  <2>1. job \in Scans
    BY <1>0, <1>9 DEF StartReply, Control, Working, TypeOK
  <2>2. buffer' \in [scan : Scans \union {0}, whole : BOOLEAN] /\ buffer'.scan = job /\ job # 0
    BY <1>0, <1>9, <2>1 DEF StartReply, Control, Working
  <2>3. BufferIsReady'
    BY <1>0, <1>9, <2>2 DEF StartReply, BufferIsReady, HandedOver
  <2>4. rushed' \in BOOLEAN
    BY <1>0, <1>9, Zenon DEF StartReply, ReplyWaits, TypeOK
  <2>. QED BY <1>0, <1>9, <2>2, <2>3, <2>4, Inv1Quiet DEF StartReply, TypeOK, Control, Working
<1>10. ASSUME EndReply PROVE Inv1'
  <2>1. /\ buffer' \in [scan : Scans \union {0}, whole : BOOLEAN]
        /\ buffer'.scan = buffer.scan /\ buffer'.whole
    BY <1>0, <1>10 DEF EndReply, TypeOK
  <2>2. BufferIsReady'
    BY <1>0, <1>10, <2>1 DEF EndReply, BufferIsReady, HandedOver
  <2>. QED BY <1>0, <1>10, <2>1, <2>2, Inv1Quiet DEF EndReply, TypeOK, Control, Working
<1>11. ASSUME SetAgent PROVE Inv1'
  <2>1. job \in Scans
    BY <1>0, <1>11 DEF SetAgent, Control, Working, TypeOK
  <2>2. to' \in Agents
    BY <1>0, <1>11, <2>1, ElementOfSeq DEF SetAgent, TypeOK, Scans
  <2>3. BufferIsReady'
    BY <1>0, <1>11, <2>2, OsScanAssumption DEF SetAgent, BufferIsReady, HandedOver
  <2>. QED BY <1>0, <1>11, <2>2, <2>3, Inv1Quiet DEF SetAgent, TypeOK, Control, Working
<1>12. ASSUME HandOver PROVE Inv1'
  <2>1. buffer.scan # 0 /\ to # NoAgent
    BY <1>0, <1>12 DEF HandOver, BufferIsReady, Control, Working
  <2>2. BufferIsReady'
    BY <1>0, <1>12, <2>1 DEF HandOver, BufferIsReady, HandedOver
  <2>. QED BY <1>0, <1>12, <2>2, Inv1Quiet DEF HandOver, TypeOK, Control, Working
<1>7. ASSUME Pop PROVE Inv1'
  <2>1. CASE queue = <<>>
    <3>1. BufferIsReady'
      BY <1>0, <1>7, <2>1 DEF Pop, BufferIsReady, HandedOver
    <3>. QED BY <1>0, <1>7, <2>1, <3>1, Inv1Quiet DEF Pop, TypeOK, Control, Working
  <2>2. CASE queue # <<>>
    <3>1. /\ Len(queue) \in Nat \ {0}
          /\ job' = queue[1] /\ queue[1] \in Scans
          /\ queue' \in Seq(Nat)
          /\ \A i \in 1..Len(queue') : i + 1 \in 1..Len(queue) /\ queue'[i] = queue[i + 1]
          /\ spc' = "scan"
      BY <1>0, <1>7, <2>2, PopStep
    <3>2. UNCHANGED <<asker, sem, mpc, buffer, to, taken, writer, sent, failed, rushed>>
      BY <1>7 DEF Pop
    <3>3. outstanding' = outstanding - 1
      BY <1>7, <2>2 DEF Pop
    <3>4. Len(queue') = Len(queue) - 1 /\ outstanding' = Len(queue') /\ outstanding' \in Nat
      BY <1>0, <1>7, <2>2, <3>1, <3>3, PopStep DEF Control
    <3>5. Scans' = Scans /\ SentType'
      BY <1>0, <3>2 DEF Scans, SentType
    <3>6. \A i \in 1..Len(queue') : queue'[i] \in Scans'
      BY <1>0, <3>1, <3>5 DEF TypeOK
    <3>7. TypeOK'
      BY <1>0, <3>1, <3>2, <3>4, <3>5, <3>6 DEF TypeOK
    <3>8. job' # 0
      BY <3>1 DEF Scans
    <3>9. spc = "pop"
      BY <1>7 DEF Pop
    <3>10. Control' /\ BufferIsReady'
      BY <1>0, <3>1, <3>2, <3>4, <3>8, <3>9 DEF Control, BufferIsReady, HandedOver, Working
    <3>. QED BY <3>5, <3>7, <3>10 DEF Inv1, Base
  <2>. QED BY <2>1, <2>2
<1>13. ASSUME UNCHANGED vars PROVE Inv1'
  <2>1. BufferIsReady'
    BY <1>0, <1>13 DEF vars, BufferIsReady, HandedOver
  <2>. QED BY <1>0, <1>13, <2>1, Inv1Quiet DEF vars, TypeOK, Control
<1>14. ASSUME NoAddress PROVE Inv1'
  <2>1. BufferIsReady'
    BY <1>0, <1>14 DEF NoAddress, BufferIsReady, HandedOver
  <2>. QED BY <1>0, <1>14, <2>1, Inv1Quiet DEF NoAddress, TypeOK, Control, Working
<1>. QED BY <1>1, <1>2, <1>3, <1>4, <1>5, <1>6, <1>7, <1>8, <1>9, <1>10, <1>11, <1>12, <1>13,
            <1>14, NextCases

(* Types, for any clients and number of requests (src/agent-osscan.c). *)
THEOREM OsScanTypeCorrect == Spec => []TypeOK
<1>1. Inv1 => TypeOK
  BY DEF Inv1, Base
<1>. QED BY InitInv1, Inv1Step, <1>1, PTL DEF Spec

(* The counter, the queue and the semaphore agree although they change at   *)
(* different times (enqueue_osscan, dequeue_osscan).                        *)
THEOREM OsScanWakeUpsMatchRequests == Spec => []WakeUpsMatchRequests
<1> DEFINE I == Inv1 /\ WakeUpsMatchRequests
<1>1. Init => I
  BY InitInv1, EmptySeq DEF Init, WakeUpsMatchRequests
<1>2. I /\ [Next]_vars => I'
  <2> SUFFICES ASSUME Inv1, WakeUpsMatchRequests, [Next]_vars PROVE WakeUpsMatchRequests'
    BY Inv1Step
  <2> USE DEF requests, history, WakeUpsMatchRequests
  <2>0. TypeOK /\ sem \in Nat /\ Len(queue) \in Nat
    BY LenProperties DEF Inv1, Base, TypeOK
  <2>1. ASSUME NEW a \in Agents, Enqueue(a) PROVE WakeUpsMatchRequests'
    <3>1. Len(queue') = Len(queue) + 1
      BY <2>0, <2>1, EnqueueStep
    <3>. QED BY <2>0, <2>1, <3>1 DEF Enqueue
  <2>2. ASSUME Pop PROVE WakeUpsMatchRequests'
    <3>1. CASE queue = <<>>
      <4>1. Len(queue) = 0
        BY <3>1, EmptySeq
      <4>2. spc = "pop" /\ FALSE
        BY <2>0, <2>2, <4>1 DEF Pop
      <4>. QED BY <4>2
    <3>2. CASE queue # <<>>
      <4>1. Len(queue') = Len(queue) - 1
        BY <2>0, <2>2, <3>2, PopStep
      <4>2. spc = "pop" /\ spc' = "scan" /\ outstanding' = outstanding - 1 /\ UNCHANGED <<sem, mpc>>
        BY <2>2, <3>2 DEF Pop
      <4>. QED BY <2>0, <4>1, <4>2
    <3>. QED BY <3>1, <3>2
  <2>3. ASSUME Post PROVE WakeUpsMatchRequests'
    BY <2>0, <2>3 DEF Post
  <2>4. ASSUME WakeUp PROVE WakeUpsMatchRequests'
    BY <2>0, <2>4 DEF WakeUp
  <2>5. ASSUME TimerTakes \/ TimerLocksBuffer \/ TimerSends PROVE WakeUpsMatchRequests'
    BY <2>0, <2>5 DEF TimerTakes, TimerLocksBuffer, TimerSends
  <2>6. ASSUME ScanFails \/ StartReply \/ NoAddress \/ EndReply \/ SetAgent \/ HandOver
        PROVE  WakeUpsMatchRequests'
    BY <2>0, <2>6 DEF ScanFails, StartReply, NoAddress, EndReply, SetAgent, HandOver
  <2>7. ASSUME UNCHANGED vars PROVE WakeUpsMatchRequests'
    BY <2>7 DEF vars
  <2>. QED BY <2>1, <2>2, <2>3, <2>4, <2>5, <2>6, <2>7, NextCases
<1>. QED BY <1>1, <1>2, PTL DEF Spec

(* The timer never sends what the scanner is still writing, nor before the  *)
(* first reply (os_write_mutex and os_read_mutex).                          *)
THEOREM OsScanRepliesAreWhole == Spec => []RepliesAreWhole
<1> DEFINE I == Inv1 /\ RepliesAreWhole
<1>1. Init => I
  BY InitInv1, EmptySeq DEF Init, RepliesAreWhole
<1>2. I /\ [Next]_vars => I'
  <2> SUFFICES ASSUME Inv1, RepliesAreWhole, [Next]_vars PROVE RepliesAreWhole'
    BY Inv1Step
  <2>1. ASSUME TimerSends PROVE RepliesAreWhole'
    <3> DEFINE new == [scan |-> buffer.scan, whole |-> buffer.whole, agent |-> to]
    <3>1. /\ Len(sent) \in Nat /\ Len(sent') = Len(sent) + 1
          /\ \A i \in 1..Len(sent) : sent'[i] = sent[i]
          /\ sent'[Len(sent) + 1] = new
      BY <2>1, SendStep DEF Inv1, Base
    <3>2. HandedOver /\ writer = "main"
      BY <2>1 DEF TimerSends, HandedOver, Inv1, Base, Control
    <3>3. spc # "fill"
      BY <3>2 DEF Inv1, Base, Control
    <3>4. new.whole /\ new.agent # NoAgent
      BY <3>2, <3>3 DEF Inv1, BufferIsReady
    <3> HIDE DEF new
    <3>5. \A i \in 1..Len(sent') : i \in 1..Len(sent) \/ i = Len(sent) + 1
      BY <3>1
    <3>. QED BY <3>1, <3>4, <3>5 DEF RepliesAreWhole
  <2>2. ASSUME UNCHANGED sent PROVE RepliesAreWhole'
    BY <2>2 DEF RepliesAreWhole
  <2>. QED BY <2>1, <2>2, NextCases DEF Enqueue, Post, TimerTakes, TimerLocksBuffer, WakeUp, Pop,
              ScanFails, StartReply, NoAddress, EndReply, SetAgent, HandOver, requests, history, vars
<1>. QED BY <1>1, <1>2, PTL DEF Spec

-----------------------------------------------------------------------------
(* Order. *)

Inv2 == Inv1 /\ ScansInOrder

LEMMA Inv2Step == Inv2 /\ [Next]_vars => Inv2'
<1> SUFFICES ASSUME Inv1, ScansInOrder, [Next]_vars PROVE ScansInOrder'
  BY Inv1Step DEF Inv2
<1> USE DEF requests, history
<1>0. /\ TypeOK /\ SentType /\ Control /\ BufferIsReady
      /\ Len(asker) \in Nat /\ Len(queue) \in Nat /\ Len(sent) \in Nat
      /\ buffer.scan \in 0..Len(asker) /\ job \in 0..Len(asker)
      /\ \A i \in 1..Len(queue) : queue[i] \in 1..Len(asker)
      /\ \A i \in 1..Len(sent) : sent[i].scan \in 1..Len(asker)
  <2>1. TypeOK /\ SentType /\ Control /\ BufferIsReady
    BY DEF Inv1, Base
  <2>2. Len(asker) \in Nat /\ Len(queue) \in Nat /\ Len(sent) \in Nat
    BY <2>1, LenProperties DEF TypeOK, SentType
  <2>3. Scans \union {0} \subseteq 0..Len(asker)
    BY <2>2 DEF Scans
  <2>4. buffer.scan \in 0..Len(asker) /\ job \in 0..Len(asker)
    BY <2>1, <2>3 DEF TypeOK
  <2>5. \A i \in 1..Len(sent) : sent[i].scan \in 1..Len(asker)
    <3>1. \A i \in 1..Len(sent) : sent[i] \in [scan : Scans, whole : BOOLEAN, agent : Agents \union {NoAgent}]
      BY <2>1, ElementOfSeq DEF SentType
    <3>. QED BY <3>1 DEF Scans
  <2>. QED BY <2>1, <2>2, <2>4, <2>5 DEF TypeOK, Scans
<1>1. ASSUME NEW a \in Agents, Enqueue(a) PROVE ScansInOrder'
  <2>1. /\ Len(queue') = Len(queue) + 1
        /\ \A i \in 1..Len(queue) : queue'[i] = queue[i]
        /\ queue'[Len(queue) + 1] = Len(asker) + 1
    BY <1>0, <1>1, EnqueueStep
  <2>2. UNCHANGED <<sent, buffer, spc, job>>
    BY <1>1 DEF Enqueue
  <2>3. \A i \in 1..Len(queue') : i \in 1..Len(queue) \/ i = Len(queue) + 1
    <3>1. Len(queue) \in Nat /\ Len(queue') = Len(queue) + 1
      BY <1>0, <2>1
    <3>. QED BY <3>1
  <2>4. \A i \in 1..Len(queue') : queue'[i] > buffer.scan /\ queue'[i] > job
    BY <1>0, <2>1, <2>3 DEF ScansInOrder
  <2>5. ASSUME NEW i \in 1..Len(queue'), NEW j \in 1..Len(queue'), i < j
        PROVE  queue'[i] < queue'[j]
    <3>1. i \in 1..Len(queue)
      BY <1>0, <2>1, <2>5
    <3>2. CASE j \in 1..Len(queue)
      BY <2>1, <2>5, <3>1, <3>2 DEF ScansInOrder
    <3>3. CASE j = Len(queue) + 1
      <4>1. queue'[j] = Len(asker) + 1 /\ queue'[i] = queue[i] /\ queue[i] \in 1..Len(asker)
        BY <1>0, <2>1, <3>1, <3>3
      <4>. QED BY <1>0, <4>1
    <3>. QED BY <2>3, <3>2, <3>3
  <2>. QED BY <2>2, <2>4, <2>5 DEF ScansInOrder
<1>2. ASSUME TimerSends PROVE ScansInOrder'
  <2> DEFINE new == [scan |-> buffer.scan, whole |-> buffer.whole, agent |-> to]
  <2>1. /\ Len(sent') = Len(sent) + 1
        /\ \A i \in 1..Len(sent) : sent'[i] = sent[i]
        /\ sent'[Len(sent) + 1] = new
    BY <1>0, <1>2, SendStep
  <2>2. new.scan = buffer.scan
    OBVIOUS
  <2> HIDE DEF new
  <2>3. UNCHANGED <<queue, buffer, spc, job>>
    BY <1>2 DEF TimerSends
  <2>4. \A i \in 1..Len(sent') : i \in 1..Len(sent) \/ i = Len(sent) + 1
    BY <1>0, <2>1
  <2>5. \A i \in 1..Len(sent') : sent'[i].scan <= buffer.scan
    BY <1>0, <2>1, <2>2, <2>4 DEF ScansInOrder
  <2>. QED BY <2>3, <2>5 DEF ScansInOrder
<1>3. ASSUME Pop PROVE ScansInOrder'
  <2>1. CASE queue = <<>>
    BY <1>3, <2>1 DEF Pop, ScansInOrder
  <2>2. CASE queue # <<>>
    <3>1. /\ Len(queue) \in Nat \ {0}
          /\ job' = queue[1]
          /\ \A i \in 1..Len(queue') : i + 1 \in 1..Len(queue) /\ queue'[i] = queue[i + 1]
          /\ Len(queue') = Len(queue) - 1
      BY <1>0, <1>3, <2>2, PopStep
    <3>2. UNCHANGED <<sent, buffer>>
      BY <1>3 DEF Pop
    <3>3. 1 \in 1..Len(queue)
      BY <3>1
    <3>4. buffer.scan < job'
      BY <1>0, <3>1, <3>3 DEF ScansInOrder
    <3>5. ASSUME NEW i \in 1..Len(queue') PROVE queue'[i] > buffer.scan /\ queue'[i] > job'
      <4>1. i + 1 \in 1..Len(queue) /\ queue'[i] = queue[i + 1] /\ 1 < i + 1
        BY <3>1
      <4>2. queue[i + 1] > buffer.scan /\ queue[1] < queue[i + 1]
        BY <3>3, <4>1 DEF ScansInOrder
      <4>3. queue[1] \in Nat /\ queue[i + 1] \in Nat
        BY <1>0, <3>3, <4>1
      <4>. QED BY <3>1, <4>1, <4>2, <4>3
    <3>6. ASSUME NEW i \in 1..Len(queue'), NEW j \in 1..Len(queue'), i < j
          PROVE  queue'[i] < queue'[j]
      <4>1. i + 1 \in 1..Len(queue) /\ j + 1 \in 1..Len(queue) /\ i + 1 < j + 1
        BY <3>1, <3>6
      <4>. QED BY <3>1, <4>1 DEF ScansInOrder
    <3>. QED BY <3>2, <3>4, <3>5, <3>6 DEF ScansInOrder
  <2>. QED BY <2>1, <2>2
<1>4. ASSUME StartReply PROVE ScansInOrder'
  <2>1. buffer'.scan = job /\ spc' = "fill" /\ spc = "scan" /\ UNCHANGED <<sent, queue, job>>
    BY <1>4 DEF StartReply
  <2>2. buffer.scan < job
    BY <2>1 DEF ScansInOrder
  <2>3. \A i \in 1..Len(sent) : sent[i].scan <= job
    BY <1>0, <2>2 DEF ScansInOrder
  <2>. QED BY <2>1, <2>3 DEF ScansInOrder
<1>5. ASSUME EndReply PROVE ScansInOrder'
  <2>1. buffer'.scan = buffer.scan /\ spc' = "filled" /\ UNCHANGED <<sent, queue, job>>
    BY <1>0, <1>5 DEF EndReply, TypeOK
  <2>. QED BY <2>1 DEF ScansInOrder
<1>6. ASSUME ScanFails \/ HandOver PROVE ScansInOrder'
  <2>1. job' = 0 /\ spc' = "sleep" /\ UNCHANGED <<sent, queue, buffer>>
    BY <1>6 DEF ScanFails, HandOver
  <2>2. \A i \in 1..Len(queue) : queue[i] > 0
    BY <1>0
  <2>. QED BY <2>1, <2>2 DEF ScansInOrder
<1>7. ASSUME UNCHANGED <<sent, queue, buffer, job>>, spc' # "scan" \/ spc' = spc PROVE ScansInOrder'
  BY <1>7 DEF ScansInOrder
<1>8. ASSUME \/ Post \/ TimerTakes \/ TimerLocksBuffer
             \/ WakeUp \/ SetAgent \/ NoAddress \/ UNCHANGED vars
      PROVE  ScansInOrder'
  BY <1>7, <1>8 DEF Post, TimerTakes, TimerLocksBuffer, WakeUp, SetAgent, NoAddress, vars
<1>. QED BY <1>1, <1>2, <1>3, <1>4, <1>5, <1>6, <1>8, NextCases

LEMMA InitInv2 == Init => Inv2
  BY InitInv1, EmptySeq DEF Init, Inv2, ScansInOrder

(* Replies leave in the order of the requests (os_detect_q is first in,     *)
(* first out, and there is one scanner thread).                             *)
THEOREM OsScanRepliesInOrder == Spec => []RepliesInOrder
<1> DEFINE I == Inv2 /\ RepliesInOrder
<1>1. Init => I
  BY InitInv2, EmptySeq DEF Init, RepliesInOrder
<1>2. I /\ [Next]_vars => I'
  <2> SUFFICES ASSUME Inv2, RepliesInOrder, [Next]_vars PROVE RepliesInOrder'
    BY Inv2Step
  <2>1. ASSUME TimerSends PROVE RepliesInOrder'
    <3> DEFINE new == [scan |-> buffer.scan, whole |-> buffer.whole, agent |-> to]
    <3>1. /\ Len(sent) \in Nat /\ Len(sent') = Len(sent) + 1
          /\ \A i \in 1..Len(sent) : sent'[i] = sent[i]
          /\ sent'[Len(sent) + 1] = new
      BY <2>1, SendStep DEF Inv2, Inv1, Base
    <3>2. new.scan = buffer.scan
      OBVIOUS
    <3> HIDE DEF new
    <3>3. ASSUME NEW i \in 1..Len(sent'), NEW j \in 1..Len(sent'), i < j
          PROVE  sent'[i].scan <= sent'[j].scan
      <4>1. i \in 1..Len(sent) /\ (j \in 1..Len(sent) \/ j = Len(sent) + 1)
        BY <3>1, <3>3
      <4>2. CASE j \in 1..Len(sent)
        BY <3>1, <3>3, <4>1, <4>2 DEF RepliesInOrder
      <4>3. CASE j = Len(sent) + 1
        BY <3>1, <3>2, <4>1, <4>3 DEF Inv2, ScansInOrder
      <4>. QED BY <4>1, <4>2, <4>3
    <3>. QED BY <3>3 DEF RepliesInOrder
  <2>2. ASSUME UNCHANGED sent PROVE RepliesInOrder'
    BY <2>2 DEF RepliesInOrder
  <2>. QED BY <2>1, <2>2, NextCases DEF Enqueue, Post, TimerTakes, TimerLocksBuffer, WakeUp, Pop,
              ScanFails, StartReply, NoAddress, EndReply, SetAgent, HandOver, requests, history, vars
<1>. QED BY <1>1, <1>2, PTL DEF Spec

-----------------------------------------------------------------------------
(* Replies and askers. *)

Inv3 == Inv2 /\ ReplyIsCurrent

(* Steps of the main thread and the scanner that leave the reply alone.     *)
LEMMA ReplyLeftAlone ==
  ASSUME ReplyIsCurrent, UNCHANGED <<asker, sent, taken, rushed, to>>,
         buffer'.scan = buffer.scan, job' = job \/ spc' # "set",
         mpc' \in {"took", "send"} <=> mpc \in {"took", "send"},
         spc' \in {"fill", "filled", "set"} => spc \in {"fill", "filled", "set"},
         spc' = "set" => spc = "set"
  PROVE  ReplyIsCurrent'
<1>1. HandedOver' <=> HandedOver
  BY DEF HandedOver
<1>. QED BY <1>1 DEF ReplyIsCurrent

LEMMA Inv3Step == Inv3 /\ [Next]_vars => Inv3'
<1> SUFFICES ASSUME Inv2, ReplyIsCurrent, [Next]_vars PROVE ReplyIsCurrent'
  BY Inv2Step DEF Inv3
<1> USE DEF requests, history
<1>0. /\ TypeOK /\ SentType /\ Control /\ BufferIsReady /\ ScansInOrder
      /\ Len(asker) \in Nat /\ Len(sent) \in Nat
  <2>1. TypeOK /\ SentType /\ Control /\ BufferIsReady /\ ScansInOrder
    BY DEF Inv2, Inv1, Base
  <2>. QED BY <2>1, LenProperties DEF TypeOK, SentType
<1>1. ASSUME NEW a \in Agents, Enqueue(a) PROVE ReplyIsCurrent'
  <2>1. \A n \in Scans : asker'[n] = asker[n]
    BY <1>0, <1>1, EnqueueStep
  <2>2. UNCHANGED <<sent, taken, rushed, to, buffer, job, spc>> /\ mpc = "loop" /\ mpc' = "post"
    BY <1>1 DEF Enqueue
  <2>3. HandedOver' <=> HandedOver
    BY <2>2 DEF HandedOver
  <2>4. HandedOver => buffer.scan \in Scans
    BY <1>0 DEF BufferIsReady, TypeOK
  <2>5. spc = "set" => job \in Scans
    BY <1>0 DEF Control, Working, TypeOK
  <2>. QED BY <2>1, <2>2, <2>3, <2>4, <2>5 DEF ReplyIsCurrent
<1>2. ASSUME TimerTakes PROVE ReplyIsCurrent'
  <2>1. HandedOver /\ HandedOver' /\ taken'
    BY <1>2 DEF TimerTakes, HandedOver
  <2>2. UNCHANGED <<asker, sent, rushed, to, buffer, job, spc>>
    BY <1>2 DEF TimerTakes
  <2>. QED BY <2>1, <2>2 DEF ReplyIsCurrent
<1>3. ASSUME TimerSends PROVE ReplyIsCurrent'
  <2>1. HandedOver /\ mpc = "send" /\ mpc' = "loop" /\ UNCHANGED <<taken, rushed, spc>>
    BY <1>3 DEF TimerSends, HandedOver
  <2>2. ~rushed => ~HandedOver' /\ spc \notin {"fill", "filled", "set"}
    BY <2>1 DEF ReplyIsCurrent, HandedOver
  <2>. QED BY <2>1, <2>2 DEF ReplyIsCurrent, HandedOver
<1>4. ASSUME StartReply PROVE ReplyIsCurrent'
  <2>1. /\ buffer'.scan = job /\ spc = "scan" /\ spc' = "fill" /\ writer = "nobody"
        /\ UNCHANGED <<asker, sent, taken, to, job, mpc>>
        /\ rushed' = (rushed \/ ReplyWaits)
    BY <1>4 DEF StartReply
  <2>2. mpc # "send"
    BY <1>0, <2>1 DEF Control
  <2>3. ~rushed' => ~HandedOver'
    BY <2>1, <2>2, Zenon DEF ReplyWaits, HandedOver
  <2>4. \A i \in 1..Len(sent) : sent[i].scan <= buffer.scan
    BY <1>0 DEF ScansInOrder
  <2>5. buffer.scan < job /\ buffer.scan \in Int /\ job \in Int
    <3>1. Scans \union {0} \subseteq Int
      BY <1>0 DEF Scans
    <3>. QED BY <1>0, <2>1, <3>1 DEF ScansInOrder, TypeOK
  <2>6. ASSUME NEW i \in 1..Len(sent) PROVE sent[i].scan < buffer'.scan
    <3>1. sent[i] \in [scan : Scans, whole : BOOLEAN, agent : Agents \union {NoAgent}]
      BY <1>0, ElementOfSeq DEF SentType
    <3>2. sent[i].scan \in Int
      BY <1>0, <3>1 DEF Scans
    <3>. QED BY <2>1, <2>4, <2>5, <3>2
  <2>. QED BY <2>1, <2>3, <2>6 DEF ReplyIsCurrent, HandedOver
<1>5. ASSUME SetAgent PROVE ReplyIsCurrent'
  <2>1. /\ spc = "filled" /\ spc' = "set" /\ to' = asker[job]
        /\ UNCHANGED <<asker, sent, taken, rushed, buffer, job, mpc>>
    BY <1>5 DEF SetAgent
  <2>2. ~rushed => ~HandedOver /\ ~HandedOver'
    BY <2>1 DEF ReplyIsCurrent, HandedOver
  <2>. QED BY <2>1, <2>2 DEF ReplyIsCurrent, HandedOver
<1>6. ASSUME HandOver PROVE ReplyIsCurrent'
  <2>1. /\ spc = "set" /\ spc' = "sleep" /\ taken' = FALSE
        /\ UNCHANGED <<asker, sent, rushed, buffer, to, mpc>>
    BY <1>6 DEF HandOver
  <2>2. ~rushed => ~HandedOver /\ to = asker[job]
                   /\ \A i \in 1..Len(sent) : sent[i].scan < buffer.scan
    BY <2>1 DEF ReplyIsCurrent
  <2>3. buffer.scan = job
    BY <1>0, <2>1 DEF BufferIsReady
  <2>. QED BY <2>1, <2>2, <2>3 DEF ReplyIsCurrent, HandedOver
<1>7. ASSUME TimerLocksBuffer \/ Post \/ WakeUp \/ Pop \/ ScanFails \/ NoAddress PROVE ReplyIsCurrent'
  <2>1. ASSUME Pop PROVE ReplyIsCurrent'
    <3>1. spc' \in {"sleep", "scan"} /\ UNCHANGED <<asker, sent, taken, rushed, to, buffer, mpc>>
      BY <2>1 DEF Pop
    <3>. QED BY <3>1, ReplyLeftAlone
  <2>. QED BY <1>7, <2>1, ReplyLeftAlone DEF TimerLocksBuffer, Post, WakeUp, ScanFails, NoAddress
<1>8. ASSUME EndReply PROVE ReplyIsCurrent'
  <2>1. buffer'.scan = buffer.scan
    BY <1>0, <1>8 DEF EndReply, TypeOK
  <2>. QED BY <1>8, <2>1, ReplyLeftAlone DEF EndReply
<1>9. ASSUME UNCHANGED vars PROVE ReplyIsCurrent'
  BY <1>9, ReplyLeftAlone DEF vars
<1>. QED BY <1>1, <1>2, <1>3, <1>4, <1>5, <1>6, <1>7, <1>8, <1>9, NextCases

(* A reply reaches the client that asked, once, unless a scan ended before  *)
(* the reply of the last one had been sent (agent_osscan_send_event).       *)
THEOREM OsScanRepliesReachAsker == Spec => []RepliesReachAsker
<1> DEFINE I == Inv3 /\ RepliesReachAsker
<1>1. Init => I
  BY InitInv2, EmptySeq DEF Init, Inv3, ReplyIsCurrent, HandedOver, RepliesReachAsker
<1>2. I /\ [Next]_vars => I'
  <2> SUFFICES ASSUME Inv3, RepliesReachAsker, [Next]_vars PROVE RepliesReachAsker'
    BY Inv3Step
  <2>0. TypeOK /\ SentType /\ BufferIsReady
    BY DEF Inv3, Inv2, Inv1, Base
  <2>1. ASSUME TimerSends PROVE RepliesReachAsker'
    <3> DEFINE new == [scan |-> buffer.scan, whole |-> buffer.whole, agent |-> to]
    <3>1. /\ Len(sent) \in Nat /\ Len(sent') = Len(sent) + 1
          /\ \A i \in 1..Len(sent) : sent'[i] = sent[i]
          /\ sent'[Len(sent) + 1] = new
      BY <2>0, <2>1, SendStep
    <3>2. new.scan = buffer.scan /\ new.agent = to
      OBVIOUS
    <3> HIDE DEF new
    <3>3. HandedOver /\ UNCHANGED <<asker, rushed>>
      BY <2>1 DEF TimerSends, HandedOver, requests
    <3>4. SUFFICES ASSUME ~rushed
                   PROVE  /\ \A i \in 1..Len(sent') : sent'[i].agent = asker[sent'[i].scan]
                          /\ \A i, j \in 1..Len(sent') : sent'[i].scan = sent'[j].scan => i = j
      BY <3>3 DEF RepliesReachAsker
    <3>5. to = asker[buffer.scan] /\ \A i \in 1..Len(sent) : sent[i].scan < buffer.scan
      BY <3>3, <3>4 DEF Inv3, ReplyIsCurrent
    <3>6. \A i \in 1..Len(sent') : i \in 1..Len(sent) \/ i = Len(sent) + 1
      BY <3>1
    <3>7. buffer.scan \in Int
      <4>1. Len(asker) \in Nat
        BY <2>0, LenProperties DEF TypeOK
      <4>. QED BY <2>0, <4>1 DEF TypeOK, Scans
    <3>8. \A i \in 1..Len(sent) : sent[i].scan # buffer.scan
      BY <3>5, <3>7
    <3>9. \A i \in 1..Len(sent') : sent'[i].agent = asker[sent'[i].scan]
      BY <3>1, <3>2, <3>4, <3>5, <3>6 DEF RepliesReachAsker
    <3>10. ASSUME NEW i \in 1..Len(sent'), NEW j \in 1..Len(sent'), sent'[i].scan = sent'[j].scan
           PROVE  i = j
      BY <3>1, <3>2, <3>4, <3>6, <3>8, <3>10 DEF RepliesReachAsker
    <3>. QED BY <3>9, <3>10
  <2>2. ASSUME NEW a \in Agents, Enqueue(a) PROVE RepliesReachAsker'
    <3>1. /\ \A n \in Scans : asker'[n] = asker[n]
          /\ UNCHANGED <<sent, rushed>>
      BY <2>0, <2>2, EnqueueStep DEF Enqueue, history
    <3>2. \A i \in 1..Len(sent) : sent[i].scan \in Scans
      <4>1. \A i \in 1..Len(sent) :
              sent[i] \in [scan : Scans, whole : BOOLEAN, agent : Agents \union {NoAgent}]
        BY <2>0, ElementOfSeq DEF SentType
      <4>. QED BY <4>1
    <3>. QED BY <3>1, <3>2 DEF RepliesReachAsker
  <2>3. ASSUME UNCHANGED <<asker, sent>>, rushed => rushed' PROVE RepliesReachAsker'
    BY <2>3 DEF RepliesReachAsker
  <2>4. ASSUME StartReply PROVE RepliesReachAsker'
    BY <2>3, <2>4, Zenon DEF StartReply, requests
  <2>5. ASSUME UNCHANGED <<asker, sent, rushed>> PROVE RepliesReachAsker'
    BY <2>3, <2>5, Zenon
  <2>6. Post => RepliesReachAsker'
    BY <2>5, Zenon DEF Post, history
  <2>7. TimerTakes \/ TimerLocksBuffer => RepliesReachAsker'
    BY <2>5, Zenon DEF TimerTakes, TimerLocksBuffer, requests, history
  <2>8. WakeUp \/ Pop => RepliesReachAsker'
    BY <2>5, Zenon DEF WakeUp, Pop, history
  <2>9. ScanFails \/ NoAddress \/ EndReply \/ SetAgent \/ HandOver => RepliesReachAsker'
    BY <2>5, Zenon DEF ScanFails, NoAddress, EndReply, SetAgent, HandOver, requests, history
  <2>10. UNCHANGED vars => RepliesReachAsker'
    BY <2>5, Zenon DEF vars
  <2>. QED BY <2>1, <2>2, <2>4, <2>6, <2>7, <2>8, <2>9, <2>10, NextCases
<1>. QED BY <1>1, <1>2, PTL DEF Spec

-----------------------------------------------------------------------------
(* Probe. *)

(* A structure in use is about a request that is open; its timer, if any,   *)
(* has the request's number as id.                                          *)
UsedAreOpen ==
  \A c \in used :
    /\ pd[c].no \in 1..count
    /\ outcome[pd[c].no] = "open"
    /\ pd[c].tid \in {-1, pd[c].no}

(* No two structures are about the same request. *)
OneCellEach == \A c, d \in used : pd[c].no = pd[d].no => c = d

(* A request that was not made has no outcome. *)
NoneYet == \A n \in Probes : n > count => outcome[n] = "none"

ProbeInv ==
  /\ ProbeTypeOK
  /\ CallbacksAreLive
  /\ UsedAreOpen
  /\ OneCellEach
  /\ NoneYet

-----------------------------------------------------------------------------
LEMMA ProbeNextCases ==
  ASSUME [ProbeNext]_probeVars, NEW ACTION P,
         Refuse => P,
         \A c \in Cells, so, si \in Handles, timed \in BOOLEAN :
           get_version(c, so, si, timed) => P,
         \A e \in table : send_cb(e) => P,
         \A e \in table, said \in {"reply", "silent"} : recieve_cb(e, said) => P,
         \A t \in timers : timeout_cb(t) => P,
         UNCHANGED probeVars => P
  PROVE  P
BY DEF ProbeNext

LEMMA InitProbeInv == ProbeInit => ProbeInv
BY ProbeAssumption
   DEF ProbeInit, ProbeInv, ProbeTypeOK, CallbacksAreLive, UsedAreOpen, OneCellEach, NoneYet, Data, Probes

(* The entries of a structure: only its own have its ids. *)
LEMMA IdsAreOwn ==
  ASSUME ProbeTypeOK, CallbacksAreLive, NEW e \in table, NEW c \in used,
         e.id \in {pd[c].soid, pd[c].siid} \ {NULL}
  PROVE  e.cell = c
<1>1. CASE e.id = pd[c].siid
  <2>1. PICK f \in table : f.id = pd[c].siid /\ f.cell = c
    BY DEF CallbacksAreLive
  <2>. QED BY <1>1, <2>1 DEF ProbeTypeOK
<1>2. CASE e.id = pd[c].soid /\ e.id # NULL
  <2>1. PICK f \in table : f.id = pd[c].soid /\ f.cell = c
    BY <1>2 DEF CallbacksAreLive
  <2>. QED BY <1>2, <2>1 DEF ProbeTypeOK
<1>. QED BY <1>1, <1>2

(* ... and all of its own have them. *)
LEMMA OwnHaveIds ==
  ASSUME ProbeTypeOK, CallbacksAreLive, NEW e \in table
  PROVE  e.id \in {pd[e.cell].soid, pd[e.cell].siid} \ {NULL}
BY ProbeAssumption DEF ProbeTypeOK, CallbacksAreLive, Entries

(* A request that is refused: nothing but the history changes. *)
LEMMA RefuseKeeps ==
  ASSUME ProbeInv, Refuse
  PROVE  ProbeInv'
<1>1. ProbeTypeOK'
  BY ProbeAssumption DEF ProbeInv, ProbeTypeOK, Refuse, Probes, Ended
<1>2. CallbacksAreLive'
  BY DEF ProbeInv, CallbacksAreLive, Refuse
<1>3. UsedAreOpen'
  <2>1. count \in Nat /\ MaxProbes \in Nat /\ count' = count + 1 /\ count + 1 \in Probes
    BY ProbeAssumption DEF ProbeInv, ProbeTypeOK, Refuse, Probes
  <2>2. \A n \in 1..count : n \in 1..(count + 1) /\ n # count + 1 /\ n \in Probes
    BY <2>1, ProbeAssumption DEF Probes
  <2>3. \A n \in 1..count : outcome'[n] = outcome[n]
    BY <2>2 DEF ProbeInv, ProbeTypeOK, Refuse
  <2>. QED BY <2>1, <2>2, <2>3 DEF ProbeInv, UsedAreOpen, Refuse
<1>4. OneCellEach'
  BY DEF ProbeInv, OneCellEach, Refuse
<1>5. NoneYet'
  BY ProbeAssumption DEF ProbeInv, ProbeTypeOK, NoneYet, Refuse, Probes
<1>. QED BY <1>1, <1>2, <1>3, <1>4, <1>5 DEF ProbeInv

(* A new probe. *)
LEMMA GetVersionKeeps ==
  ASSUME ProbeInv, NEW c \in Cells, NEW so \in Handles, NEW si \in Handles,
         NEW timed \in BOOLEAN, get_version(c, so, si, timed)
  PROVE  ProbeInv'
<1> DEFINE n == count + 1
           new == NewData(c, so, si, timed)
<1>1. /\ count \in Nat /\ n \in Probes /\ n \in 1..(count + 1) /\ count' = n
      /\ n # -1 /\ n # 0
  BY ProbeAssumption DEF ProbeInv, ProbeTypeOK, get_version, Probes
<1>2. /\ new \in Data /\ new.no = n /\ new.sent = FALSE
      /\ new.soid = so /\ new.siid = si
      /\ new.tid = IF timed THEN n ELSE -1
  BY <1>1 DEF NewData, Data
<1>3. /\ pd' = [pd EXCEPT ![c] = new]
      /\ pd'[c] = new
      /\ \A d \in Cells : d # c => pd'[d] = pd[d]
  BY DEF ProbeInv, ProbeTypeOK, get_version
<1>4. /\ c \notin used /\ used' = used \union {c} /\ used \subseteq Cells
      /\ \A e \in table : e.cell \in used /\ e.cell # c
      /\ \A t \in timers : t.cell \in used /\ t.cell # c
  BY DEF ProbeInv, ProbeTypeOK, CallbacksAreLive, get_version
<1> DEFINE out == [id |-> so, callback |-> "send_cb", cell |-> c]
           in  == [id |-> si, callback |-> "recieve_cb", cell |-> c]
<1>5. /\ table' = table \union {out, in}
      /\ out \in Entries /\ in \in Entries
      /\ out.id = so /\ in.id = si /\ so # si
      /\ out.cell = c /\ in.cell = c
      /\ out.callback = "send_cb" /\ in.callback = "recieve_cb"
      /\ \A e \in table : e.id # so /\ e.id # si
  BY DEF get_version, EntriesFor, Entries, IdsInUse
<1> DEFINE tm == [id |-> n, cell |-> c]
<1>6. /\ timers' = IF timed THEN timers \union {tm} ELSE timers
      /\ tm \in Timers /\ tm.id = n /\ tm.cell = c
  BY <1>1 DEF get_version, Timers
<1>7. /\ ud' = ud \union {n} /\ outcome' = [outcome EXCEPT ![n] = "open"]
  BY DEF get_version
<1> HIDE DEF new, out, in, tm
<1>8. ProbeTypeOK'
  <2>1. used' \subseteq Cells /\ pd' \in [Cells -> Data]
    BY <1>2, <1>3, <1>4 DEF ProbeInv, ProbeTypeOK
  <2>2. table' \subseteq Entries /\ \A e, f \in table' : e.id = f.id => e = f
    BY <1>5 DEF ProbeInv, ProbeTypeOK
  <2>3. timers' \subseteq Timers
    BY <1>6 DEF ProbeInv, ProbeTypeOK
  <2>4. count' \in 0..MaxProbes /\ ud' \subseteq Probes
        /\ outcome' \in [Probes -> {"none", "open"} \union Ended]
    BY <1>1, <1>7, ProbeAssumption DEF ProbeInv, ProbeTypeOK, Probes
  <2>. QED BY <2>1, <2>2, <2>3, <2>4 DEF ProbeTypeOK
<1>9. CallbacksAreLive'
  <2>1. ASSUME NEW e \in table'
        PROVE  /\ e.cell \in used'
               /\ e.id = IF e.callback = "send_cb" THEN pd'[e.cell].soid ELSE pd'[e.cell].siid
    <3>1. CASE e \in table
      BY <3>1, <1>3, <1>4 DEF ProbeInv, CallbacksAreLive
    <3>2. CASE e \in {out, in}
      BY <3>2, <1>2, <1>3, <1>4, <1>5
    <3>. QED BY <3>1, <3>2, <1>5
  <2>2. ASSUME NEW t \in timers' PROVE t.cell \in used' /\ t.id = pd'[t.cell].tid
    <3>1. CASE t \in timers
      BY <3>1, <1>3, <1>4 DEF ProbeInv, CallbacksAreLive
    <3>2. CASE timed /\ t = tm
      BY <3>2, <1>2, <1>3, <1>4, <1>6
    <3>. QED BY <3>1, <3>2, <1>6
  <2> DEFINE Lives(d) ==
        /\ pd'[d].no \in ud'
        /\ [id |-> pd'[d].siid, callback |-> "recieve_cb", cell |-> d] \in table'
        /\ IF pd'[d].sent
           THEN pd'[d].soid = NULL
           ELSE [id |-> pd'[d].soid, callback |-> "send_cb", cell |-> d] \in table'
        /\ pd'[d].tid # -1 => [id |-> pd'[d].tid, cell |-> d] \in timers'
  <2>3. ASSUME NEW d \in used PROVE Lives(d)
    <3>1. pd'[d] = pd[d]
      BY <1>3, <1>4
    <3>2. ud \subseteq ud' /\ table \subseteq table' /\ timers \subseteq timers'
      BY <1>5, <1>6, <1>7
    <3>. QED BY <3>1, <3>2 DEF ProbeInv, CallbacksAreLive
  <2>4. Lives(c)
    <3>1. pd'[c].no \in ud'
      BY <1>2, <1>3, <1>7
    <3>2. in = [id |-> pd'[c].siid, callback |-> "recieve_cb", cell |-> c]
          /\ out = [id |-> pd'[c].soid, callback |-> "send_cb", cell |-> c]
      BY <1>2, <1>3 DEF in, out
    <3>3. pd'[c].tid # -1 => timed /\ [id |-> pd'[c].tid, cell |-> c] = tm
      BY <1>2, <1>3 DEF tm
    <3>4. ~pd'[c].sent
      BY <1>2, <1>3
    <3>5. in \in table' /\ out \in table' /\ (timed => tm \in timers')
      BY <1>5, <1>6
    <3>. QED BY <3>1, <3>2, <3>3, <3>4, <3>5
  <2>. QED BY <2>1, <2>2, <2>3, <2>4, <1>4 DEF CallbacksAreLive
<1>10. \A d \in used : pd'[d] = pd[d] /\ pd[d].no \in 1..count /\ pd[d].no # n /\ pd[d].no \in Probes
  <2>1. \A m \in 1..count : m # n /\ m \in Probes
    BY <1>1, ProbeAssumption DEF ProbeInv, ProbeTypeOK, Probes
  <2>. QED BY <2>1, <1>3, <1>4 DEF ProbeInv, UsedAreOpen
<1>11. UsedAreOpen'
  <2>1. 1..count \subseteq 1..(count + 1)
    BY <1>1
  <2>2. outcome'[n] = "open" /\ \A m \in Probes : m # n => outcome'[m] = outcome[m]
    BY <1>1, <1>7 DEF ProbeInv, ProbeTypeOK
  <2>. QED BY <2>1, <2>2, <1>1, <1>2, <1>3, <1>4, <1>10 DEF ProbeInv, UsedAreOpen
<1>12. OneCellEach'
  BY <1>2, <1>3, <1>4, <1>10 DEF ProbeInv, OneCellEach
<1>13. NoneYet'
  BY <1>1, <1>7, ProbeAssumption DEF ProbeInv, ProbeTypeOK, NoneYet, Probes
<1>. QED BY <1>8, <1>9, <1>11, <1>12, <1>13 DEF ProbeInv

(* send_cb: one entry and its id go together. *)
LEMMA SendKeeps ==
  ASSUME ProbeInv, NEW e \in table, send_cb(e)
  PROVE  ProbeInv'
<1> DEFINE c == e.cell
<1>1. /\ c \in used /\ c \in Cells /\ e.callback = "send_cb" /\ e.id = pd[c].soid
      /\ pd[c] \in Data
  BY DEF ProbeInv, ProbeTypeOK, CallbacksAreLive, send_cb
<1>2. /\ pd' \in [Cells -> Data]
      /\ pd'[c].sent /\ pd'[c].soid = NULL
      /\ pd'[c].no = pd[c].no /\ pd'[c].tid = pd[c].tid /\ pd'[c].siid = pd[c].siid
      /\ \A d \in Cells : d # c => pd'[d] = pd[d]
  <2>1. pd' = [pd EXCEPT ![c] = [pd[c] EXCEPT !.sent = TRUE, !.soid = NULL]]
    BY <1>1 DEF send_cb, ProbeInv, ProbeTypeOK
  <2>2. [pd[c] EXCEPT !.sent = TRUE, !.soid = NULL] \in Data
    BY <1>1 DEF Data
  <2>. QED BY <1>1, <2>1, <2>2 DEF ProbeInv, ProbeTypeOK, Data
<1>3. table' = table \ {e} /\ UNCHANGED <<count, used, timers, ud, outcome>>
  BY DEF send_cb
<1>4. \A f \in table' : f \in table /\ f # e
  BY <1>3
<1>5. \A f \in table' : f.cell = c => f.callback = "recieve_cb"
  <2>1. \A f \in table : f.cell = c /\ f.callback = "send_cb" => f.id = e.id
    BY <1>1 DEF ProbeInv, CallbacksAreLive
  <2>. QED BY <1>4, <2>1 DEF ProbeInv, ProbeTypeOK, Entries
<1> HIDE DEF c
<1>6. ProbeTypeOK'
  BY <1>2, <1>3 DEF ProbeInv, ProbeTypeOK
<1>7. CallbacksAreLive'
  <2>1. ASSUME NEW f \in table'
        PROVE  /\ f.cell \in used'
               /\ f.id = IF f.callback = "send_cb" THEN pd'[f.cell].soid ELSE pd'[f.cell].siid
    <3>1. /\ f.cell \in used /\ f.cell \in Cells
          /\ f.id = IF f.callback = "send_cb" THEN pd[f.cell].soid ELSE pd[f.cell].siid
      BY <1>4 DEF ProbeInv, ProbeTypeOK, CallbacksAreLive
    <3>2. CASE f.cell = c
      BY <3>1, <3>2, <1>2, <1>3, <1>5
    <3>3. CASE f.cell # c
      BY <3>1, <3>3, <1>2, <1>3
    <3>. QED BY <3>2, <3>3
  <2>2. ASSUME NEW t \in timers' PROVE t.cell \in used' /\ t.id = pd'[t.cell].tid
    <3>1. t \in timers /\ t.cell \in used /\ t.cell \in Cells /\ t.id = pd[t.cell].tid
      BY <1>3 DEF ProbeInv, ProbeTypeOK, CallbacksAreLive
    <3>. QED BY <3>1, <1>2, <1>3
  <2>3. ASSUME NEW d \in used'
        PROVE  /\ pd'[d].no \in ud'
               /\ [id |-> pd'[d].siid, callback |-> "recieve_cb", cell |-> d] \in table'
               /\ IF pd'[d].sent
                  THEN pd'[d].soid = NULL
                  ELSE [id |-> pd'[d].soid, callback |-> "send_cb", cell |-> d] \in table'
               /\ pd'[d].tid # -1 => [id |-> pd'[d].tid, cell |-> d] \in timers'
    <3>1. d \in used /\ d \in Cells
      BY <1>3 DEF ProbeInv, ProbeTypeOK
    <3>2. /\ pd'[d].no = pd[d].no /\ pd'[d].tid = pd[d].tid /\ pd'[d].siid = pd[d].siid
      BY <3>1, <1>2
    <3>3. [id |-> pd[d].siid, callback |-> "recieve_cb", cell |-> d] # e
      BY <1>1
    <3>4. [id |-> pd[d].siid, callback |-> "recieve_cb", cell |-> d] \in table'
      BY <3>1, <3>3, <1>3 DEF ProbeInv, CallbacksAreLive
    <3>5. CASE d = c
      BY <3>1, <3>2, <3>4, <3>5, <1>2, <1>3 DEF ProbeInv, CallbacksAreLive
    <3>6. CASE d # c
      <4>1. pd'[d] = pd[d]
        BY <3>1, <3>6, <1>2
      <4>2. [id |-> pd[d].soid, callback |-> "send_cb", cell |-> d] # e
        BY <3>6 DEF c
      <4>. QED BY <3>1, <3>4, <4>1, <4>2, <1>3 DEF ProbeInv, CallbacksAreLive
    <3>. QED BY <3>5, <3>6
  <2>. QED BY <2>1, <2>2, <2>3 DEF CallbacksAreLive
<1>8. \A d \in used : pd'[d].no = pd[d].no /\ pd'[d].tid = pd[d].tid
  BY <1>2 DEF ProbeInv, ProbeTypeOK
<1>9. UsedAreOpen'
  BY <1>3, <1>8 DEF ProbeInv, UsedAreOpen
<1>10. OneCellEach'
  BY <1>3, <1>8 DEF ProbeInv, OneCellEach
<1>11. NoneYet'
  BY <1>3 DEF ProbeInv, NoneYet
<1>. QED BY <1>6, <1>7, <1>9, <1>10, <1>11 DEF ProbeInv

(* The end of a probe: its structure goes with all that was registered. *)
LEMMA EndKeeps ==
  ASSUME ProbeInv, NEW c \in used, NEW said \in Ended,
         table' = {e \in table : e.cell # c},
         timers' = {t \in timers : t.cell # c},
         pd' \in [Cells -> Data], \A d \in Cells : d # c => pd'[d] = pd[d],
         used' = used \ {c}, count' = count,
         ud' \subseteq ud, ud \subseteq ud' \union {pd[c].no},
         outcome' = [outcome EXCEPT ![pd[c].no] = said]
  PROVE  ProbeInv'
<1>1. ProbeTypeOK'
  BY DEF ProbeInv, ProbeTypeOK
<1>2. \A d \in used' : /\ d \in used /\ d # c /\ d \in Cells /\ pd'[d] = pd[d]
                       /\ pd[d].no # pd[c].no
  BY DEF ProbeInv, ProbeTypeOK, OneCellEach
<1>3. CallbacksAreLive'
  <2>1. ASSUME NEW e \in table'
        PROVE  /\ e.cell \in used'
               /\ e.id = IF e.callback = "send_cb" THEN pd'[e.cell].soid ELSE pd'[e.cell].siid
    BY <1>2 DEF ProbeInv, CallbacksAreLive
  <2>2. ASSUME NEW t \in timers' PROVE t.cell \in used' /\ t.id = pd'[t.cell].tid
    BY <1>2 DEF ProbeInv, CallbacksAreLive
  <2>3. ASSUME NEW d \in used'
        PROVE  /\ pd'[d].no \in ud'
               /\ [id |-> pd'[d].siid, callback |-> "recieve_cb", cell |-> d] \in table'
               /\ IF pd'[d].sent
                  THEN pd'[d].soid = NULL
                  ELSE [id |-> pd'[d].soid, callback |-> "send_cb", cell |-> d] \in table'
               /\ pd'[d].tid # -1 => [id |-> pd'[d].tid, cell |-> d] \in timers'
    BY <1>2 DEF ProbeInv, CallbacksAreLive
  <2>. QED BY <2>1, <2>2, <2>3 DEF CallbacksAreLive
<1>4. UsedAreOpen'
  <2>1. ASSUME NEW d \in used' PROVE outcome'[pd[d].no] = outcome[pd[d].no]
    BY <1>2 DEF ProbeInv, ProbeTypeOK
  <2>. QED BY <1>2, <2>1 DEF ProbeInv, UsedAreOpen
<1>5. OneCellEach'
  BY <1>2 DEF ProbeInv, OneCellEach
<1>6. NoneYet'
  <2>1. pd[c].no \in 1..count
    BY DEF ProbeInv, UsedAreOpen
  <2>. QED BY <2>1, ProbeAssumption DEF ProbeInv, ProbeTypeOK, NoneYet, Probes
<1>. QED BY <1>1, <1>3, <1>4, <1>5, <1>6 DEF ProbeInv

(* Only a probe's own timer has its id. *)
LEMMA TimersAreOwn ==
  ASSUME ProbeInv, NEW c \in used, NEW t \in timers
  PROVE  t.id = pd[c].tid <=> t.cell = c
<1>0. t.id \in Probes
  BY DEF ProbeInv, ProbeTypeOK, Timers
<1>1. t.cell \in used /\ t.id = pd[t.cell].tid /\ t.id # -1
  BY <1>0, ProbeAssumption DEF ProbeInv, CallbacksAreLive, Probes
<1>2. t.id = pd[t.cell].no
  BY <1>1 DEF ProbeInv, UsedAreOpen
<1>3. t.id = pd[c].tid => pd[c].tid = pd[c].no
  BY <1>1 DEF ProbeInv, UsedAreOpen
<1>. QED BY <1>1, <1>2, <1>3 DEF ProbeInv, OneCellEach
(* An answer: recieve_cb has sent before, so it knows no other entry. *)
LEMMA ReceiveKeeps ==
  ASSUME ProbeInv, NEW e \in table, NEW said \in {"reply", "silent"}, recieve_cb(e, said)
  PROVE  ProbeInv'
<1> DEFINE c == e.cell
<1>1. /\ c \in used /\ c \in Cells /\ e.callback = "recieve_cb"
      /\ pd[c].sent /\ pd[c].soid = NULL /\ e.id = pd[c].siid
  BY DEF ProbeInv, ProbeTypeOK, CallbacksAreLive, recieve_cb
<1>2. table' = {f \in table : f.cell # c}
  <2>1. Removed({pd[c].soid}) = {}
    BY <1>1 DEF Removed
  <2>2. ASSUME NEW f \in table, f.cell = c PROVE f = e
    <3>1. f.id = pd[c].siid
      BY <1>1, <2>2, OwnHaveIds DEF ProbeInv
    <3>. QED BY <1>1, <3>1 DEF ProbeInv, ProbeTypeOK
  <2>3. table' = table \ {e}
    BY <2>1 DEF recieve_cb
  <2>. QED BY <2>2, <2>3
<1>3. timers' = {t \in timers : t.cell # c}
  BY <1>1, TimersAreOwn DEF recieve_cb
<1>4. pd' \in [Cells -> Data] /\ \A d \in Cells : d # c => pd'[d] = pd[d]
  <2>1. pd' = [pd EXCEPT ![c] = [pd[c] EXCEPT !.siid = NULL]]
    BY <1>1 DEF recieve_cb, ProbeInv, ProbeTypeOK
  <2>2. [pd[c] EXCEPT !.siid = NULL] \in Data
    BY <1>1 DEF ProbeInv, ProbeTypeOK, Data
  <2>. QED BY <1>1, <2>1, <2>2 DEF ProbeInv, ProbeTypeOK
<1>5. /\ used' = used \ {c} /\ count' = count /\ ud' = ud
      /\ outcome' = [outcome EXCEPT ![pd[c].no] = said]
  BY DEF recieve_cb
<1>6. said \in Ended
  BY DEF Ended
<1> HIDE DEF c
<1>. QED BY <1>1, <1>2, <1>3, <1>4, <1>5, <1>6, EndKeeps

(* The timeout takes back the entries that the structure still knows. *)
LEMMA TimeoutKeeps ==
  ASSUME ProbeInv, NEW t \in timers, timeout_cb(t)
  PROVE  ProbeInv'
<1> DEFINE c == t.cell
<1>1. c \in used /\ c \in Cells /\ t.id = pd[c].tid
  BY DEF ProbeInv, ProbeTypeOK, CallbacksAreLive
<1>2. table' = {f \in table : f.cell # c}
  <2>1. ASSUME NEW f \in table PROVE f \in Removed({pd[c].soid, pd[c].siid}) <=> f.cell = c
    BY <1>1, IdsAreOwn, OwnHaveIds DEF ProbeInv, Removed
  <2>. QED BY <2>1 DEF timeout_cb
<1>3. timers' = {u \in timers : u.cell # c}
  <2>1. ASSUME NEW u \in timers PROVE u.cell = c <=> u = t
    <3>1. u.cell = c => u.id = t.id
      BY <1>1, TimersAreOwn
    <3>. QED BY <3>1 DEF ProbeInv, ProbeTypeOK, Timers
  <2>. QED BY <2>1 DEF timeout_cb
<1>4. pd' \in [Cells -> Data] /\ \A d \in Cells : d # c => pd'[d] = pd[d]
  <2>1. pd' = [pd EXCEPT ![c] = [pd[c] EXCEPT !.tid = -1]]
    BY <1>1 DEF timeout_cb, ProbeInv, ProbeTypeOK
  <2>2. [pd[c] EXCEPT !.tid = -1] \in Data
    BY <1>1 DEF ProbeInv, ProbeTypeOK, Data
  <2>. QED BY <1>1, <2>1, <2>2 DEF ProbeInv, ProbeTypeOK
<1>5. /\ used' = used \ {c} /\ count' = count /\ ud' = ud \ {pd[c].no}
      /\ outcome' = [outcome EXCEPT ![pd[c].no] = "timeout"]
  BY DEF timeout_cb
<1>6. "timeout" \in Ended
  BY DEF Ended
<1> HIDE DEF c
<1>. QED BY <1>1, <1>2, <1>3, <1>4, <1>5, <1>6, EndKeeps

LEMMA NextProbeInv == ProbeInv /\ [ProbeNext]_probeVars => ProbeInv'
<1> SUFFICES ASSUME ProbeInv, [ProbeNext]_probeVars PROVE ProbeInv'
  OBVIOUS
<1>1. UNCHANGED probeVars => ProbeInv'
  BY DEF probeVars, ProbeInv, ProbeTypeOK, CallbacksAreLive, UsedAreOpen, OneCellEach, NoneYet
<1>. QED BY <1>1, ProbeNextCases, RefuseKeeps, GetVersionKeeps, SendKeeps, ReceiveKeeps, TimeoutKeeps

LEMMA SpecProbeInv == ProbeSpec => []ProbeInv
BY InitProbeInv, NextProbeInv, PTL DEF ProbeSpec

(* The variables of src/probe.c keep their types, and ids of entries are    *)
(* different.                                                               *)
THEOREM ProbeTypeCorrect == ProbeSpec => []ProbeTypeOK
BY SpecProbeInv, PTL DEF ProbeInv

(* No callback or timer outlives its struct probe_data, and a probe under   *)
(* way has what it needs to end (src/probe.c:327-402).                      *)
THEOREM ProbeCallbacksAreLive == ProbeSpec => []CallbacksAreLive
BY SpecProbeInv, PTL DEF ProbeInv

(* A probe ends with an answer or with its timeout, never with both         *)
(* (recieve_cb, timeout_cb).                                                *)
THEOREM ProbeOneOutcome == ProbeSpec => OneOutcome
<1>1. ProbeInv /\ [ProbeNext]_probeVars =>
        \A n \in Probes : outcome[n] \in Ended => outcome'[n] = outcome[n]
  <2> SUFFICES ASSUME ProbeInv, [ProbeNext]_probeVars, NEW n \in Probes, outcome[n] \in Ended
               PROVE  outcome'[n] = outcome[n]
    OBVIOUS
  <2>1. /\ outcome \in [Probes -> {"none", "open"} \union Ended]
        /\ outcome[n] # "open" /\ outcome[n] # "none"
    BY DEF ProbeInv, ProbeTypeOK, Ended
  <2>2. \A c \in used : pd[c].no # n
    BY <2>1 DEF ProbeInv, UsedAreOpen
  <2>3. count + 1 # n
    BY <2>1, ProbeAssumption DEF ProbeInv, ProbeTypeOK, NoneYet, Probes
  <2>4. Refuse => outcome'[n] = outcome[n]
    BY <2>1, <2>3 DEF Refuse
  <2>5. \A c \in Cells, so, si \in Handles, timed \in BOOLEAN :
          get_version(c, so, si, timed) => outcome'[n] = outcome[n]
    BY <2>1, <2>3 DEF get_version
  <2>6. \A e \in table : send_cb(e) => outcome'[n] = outcome[n]
    BY DEF send_cb
  <2>7. \A e \in table, said \in {"reply", "silent"} :
          recieve_cb(e, said) => outcome'[n] = outcome[n]
    BY <2>1, <2>2 DEF recieve_cb, ProbeInv, CallbacksAreLive
  <2>8. \A t \in timers : timeout_cb(t) => outcome'[n] = outcome[n]
    BY <2>1, <2>2 DEF timeout_cb, ProbeInv, CallbacksAreLive
  <2>9. UNCHANGED probeVars => outcome'[n] = outcome[n]
    BY DEF probeVars
  <2>. QED BY <2>4, <2>5, <2>6, <2>7, <2>8, <2>9, ProbeNextCases
<1>. QED BY <1>1, SpecProbeInv, PTL DEF ProbeSpec, OneOutcome

-----------------------------------------------------------------------------
(* ScanReports.                                                              *)

PortStates == {"open", "closed", "filtered", "UNfilitered", "unknown"}

(* What may be in memory                                                     *)
FixedParts ==
  [type : {"OS"}]
    \union [type : {"PORT"}, id : Nat, protocol : STRING, state : PortStates]
    \union [type : {"UPTIME"}, seconds : Nat]

Memory ==
  {Nul} \union [is : {"char"}, char : STRING]
        \union [is : {"option"}, length : Nat, fixed : FixedParts]

(* A port as the parser has it *)
ParsedPorts == [id : Nat, protocol : STRING, state : PortStates, service : Texts, owner : Texts]

-----------------------------------------------------------------------------
(* Threads: what holds after each step. *)

(* Some natural number of a set of them is the least. *)
LEMMA LeastNat ==
  ASSUME NEW T, T \subseteq Nat, T # {}
  PROVE  \E m \in T : \A n \in T : m <= n
<1>1. \E m \in T : \A n \in T : ~(<<n, m>> \in OpToRel(<, Nat))
  BY NatLessThanWellFounded, WFMin
<1>2. PICK m \in T : \A n \in T : ~(<<n, m>> \in OpToRel(<, Nat))
  BY <1>1
<1>3. ASSUME NEW n \in T
      PROVE  m <= n
  <2>1. <<n, m>> \in Nat \X Nat /\ <<n, m>>[1] = n /\ <<n, m>>[2] = m
    OBVIOUS
  <2>2. OpToRel(<, Nat) = {ss \in Nat \X Nat : ss[1] < ss[2]}
    BY DEF OpToRel
  <2>3. n < m => <<n, m>> \in OpToRel(<, Nat)
    BY <2>1, <2>2
  <2>4. ~(n < m)
    BY <1>2, <2>3, Zenon
  <2>5. m \in Nat /\ n \in Nat
    OBVIOUS
  <2>. QED BY <2>4, <2>5
<1>. QED BY <1>3

(* Induction up to n. *)
LEMMA UpTo ==
  ASSUME NEW n \in Nat, NEW T, 0 \in T,
         \A i \in 1..n : i - 1 \in T => i \in T
  PROVE  \A i \in 0..n : i \in T
<1> DEFINE B == {i \in 0..n : i \notin T}
<1>1. SUFFICES ASSUME B # {} PROVE FALSE
  OBVIOUS
<1>2. B \subseteq Nat
  OBVIOUS
<1>3. PICK m \in B : \A k \in B : m <= k
  BY <1>1, <1>2, LeastNat
<1>4. m \in 1..n
  <2>1. m \in 0..n /\ m # 0
    BY <1>3
  <2>. QED BY <2>1
<1>5. m - 1 \in 0..n /\ ~(m <= m - 1)
  BY <1>4
<1>6. m - 1 \in T
  BY <1>3, <1>5
<1>. QED BY <1>3, <1>4, <1>6

(* The operations that are done one after another. *)
Do(what, g, x) ==
  IF what = "host" THEN parseNmapScanHost(g, x)
  ELSE IF what = "port" THEN AddPort(g, x)
  ELSE IF what = "take" THEN TakeOption(g, x)
  ELSE PlusPort(g, x)

(* g are the states from h on through the first m elements of seq: as a      *)
(* function, and what is known of it.                                        *)
Trace(g, what, h, seq, m) ==
  g = [i \in 0..m |-> IF i = 0 THEN h ELSE Do(what, g[i - 1], seq[i])]

Steps(g, what, h, seq, n) ==
  g[0] = h /\ \A i \in 1..n : g[i] = Do(what, g[i - 1], seq[i])

LEMMA TraceExists ==
  ASSUME NEW what, NEW h, NEW seq, NEW n \in Nat
  PROVE  \E g : Trace(g, what, h, seq, n)
<1> DEFINE T == {m \in Nat : \E g : Trace(g, what, h, seq, m)}
<1>1. 0 \in T
  <2> DEFINE g == [i \in 0..0 |-> h]
  <2>1. \A i \in 0..0 : i = 0
    OBVIOUS
  <2>2. g = [i \in 0..0 |-> IF i = 0 THEN h ELSE Do(what, g[i - 1], seq[i])]
    BY <2>1
  <2>. QED BY <2>2 DEF Trace
<1>2. ASSUME NEW k \in 1..n, k - 1 \in T
      PROVE  k \in T
  <2>1. PICK g : Trace(g, what, h, seq, k - 1)
    BY <1>2
  <2> DEFINE V == Do(what, g[k - 1], seq[k])
             e == [i \in 0..k |-> IF i = k THEN V ELSE g[i]]
  <2>2. \A i \in 0..(k - 1) : g[i] = IF i = 0 THEN h ELSE Do(what, g[i - 1], seq[i])
    BY <2>1 DEF Trace
  <2>3. ASSUME NEW i \in 0..k
        PROVE  e[i] = IF i = 0 THEN h ELSE Do(what, e[i - 1], seq[i])
    <3>1. CASE i = k
      <4>1. e[i] = V /\ k # 0 /\ k - 1 \in 0..k /\ k - 1 # k
        BY <3>1
      <4>2. e[i - 1] = g[k - 1]
        BY <3>1, <4>1
      <4> HIDE DEF e
      <4>. QED BY <3>1, <4>1, <4>2
    <3>2. CASE i # k
      <4>1. i \in 0..(k - 1) /\ (i # 0 => i - 1 \in 0..k /\ i - 1 # k)
        BY <3>2
      <4>2. e[i] = g[i] /\ (i # 0 => e[i - 1] = g[i - 1])
        BY <3>2, <4>1
      <4> HIDE DEF e
      <4>. QED BY <2>2, <4>1, <4>2
    <3>. QED BY <3>1, <3>2
  <2>4. e = [i \in 0..k |-> e[i]]
    OBVIOUS
  <2> HIDE DEF e
  <2>5. e = [i \in 0..k |-> IF i = 0 THEN h ELSE Do(what, e[i - 1], seq[i])]
    BY <2>3, <2>4
  <2>. QED BY <2>5 DEF Trace
<1> HIDE DEF T
<1>3. n \in T
  BY <1>1, <1>2, UpTo
<1>. QED BY <1>3 DEF T

LEMMA TraceSteps ==
  ASSUME NEW what, NEW h, NEW seq, NEW n \in Nat, NEW g, Trace(g, what, h, seq, n)
  PROVE  Steps(g, what, h, seq, n)
<1>1. /\ 0 \in 0..n /\ \A i \in 1..n : i \in 0..n /\ i # 0
  OBVIOUS
<1>. QED BY <1>1 DEF Trace, Steps

LEMMA OneHost ==
  ASSUME NEW h, NEW seq, Len(seq) \in Nat
  PROVE  /\ Len(seq) = 0 => Thread(parseNmapScanHost, h, seq) = h
         /\ Len(seq) = 1 => Thread(parseNmapScanHost, h, seq) = parseNmapScanHost(h, seq[1])
<1> DEFINE P(g) == g = [i \in 0..Len(seq) |-> IF i = 0 THEN h ELSE parseNmapScanHost(g[i - 1], seq[i])]
           c == CHOOSE g : P(g)
<1>1. Thread(parseNmapScanHost, h, seq) = c[Len(seq)]
  BY Zenon DEF Thread
<1>2. \A g : Trace(g, "host", h, seq, Len(seq)) <=> P(g)
  BY Zenon DEF Trace, Do
<1>3. \E g : Trace(g, "host", h, seq, Len(seq))
  BY TraceExists
<1>4. Trace(c, "host", h, seq, Len(seq))
  BY <1>2, <1>3, Zenon
<1> HIDE DEF c, P
<1>5. /\ c[0] = h
      /\ \A i \in 1..Len(seq) : c[i] = Do("host", c[i - 1], seq[i])
  BY <1>4, TraceSteps DEF Steps
<1>6. Len(seq) = 1 => c[1] = parseNmapScanHost(h, seq[1])
  <2>1. Len(seq) = 1 => 1 \in 1..Len(seq) /\ 1 - 1 = 0
    OBVIOUS
  <2>. QED BY <1>5, <2>1 DEF Do
<1>. QED BY <1>1, <1>5, <1>6

LEMMA PortThread ==
  ASSUME NEW h, NEW seq, NEW n \in Nat, Len(seq) = n
  PROVE  \E g : Steps(g, "port", h, seq, n) /\ Thread(AddPort, h, seq) = g[n]
<1> DEFINE P(g) == g = [i \in 0..Len(seq) |-> IF i = 0 THEN h ELSE AddPort(g[i - 1], seq[i])]
           c == CHOOSE g : P(g)
<1>1. Thread(AddPort, h, seq) = c[Len(seq)]
  BY Zenon DEF Thread
<1>2. \A g : Trace(g, "port", h, seq, Len(seq)) <=> P(g)
  BY Zenon DEF Trace, Do
<1>3. \E g : Trace(g, "port", h, seq, Len(seq))
  BY TraceExists
<1>4. Trace(c, "port", h, seq, Len(seq))
  BY <1>2, <1>3, Zenon
<1> HIDE DEF c, P
<1>5. Steps(c, "port", h, seq, n)
  BY <1>4, TraceSteps
<1>. QED BY <1>1, <1>5

LEMMA TakeThread ==
  ASSUME NEW h, NEW seq, NEW n \in Nat, Len(seq) = n
  PROVE  \E g : Steps(g, "take", h, seq, n) /\ Thread(TakeOption, h, seq) = g[n]
<1> DEFINE P(g) == g = [i \in 0..Len(seq) |-> IF i = 0 THEN h ELSE TakeOption(g[i - 1], seq[i])]
           c == CHOOSE g : P(g)
<1>1. Thread(TakeOption, h, seq) = c[Len(seq)]
  BY Zenon DEF Thread
<1>2. \A g : Trace(g, "take", h, seq, Len(seq)) <=> P(g)
  BY Zenon DEF Trace, Do
<1>3. \E g : Trace(g, "take", h, seq, Len(seq))
  BY TraceExists
<1>4. Trace(c, "take", h, seq, Len(seq))
  BY <1>2, <1>3, Zenon
<1> HIDE DEF c, P
<1>5. Steps(c, "take", h, seq, n)
  BY <1>4, TraceSteps
<1>. QED BY <1>1, <1>5

LEMMA SizeThread ==
  ASSUME NEW seq, NEW n \in Nat, Len(seq) = n
  PROVE  \E g : Steps(g, "size", 0, seq, n) /\ Thread(PlusPort, 0, seq) = g[n]
<1> DEFINE h == 0
           P(g) == g = [i \in 0..Len(seq) |-> IF i = 0 THEN h ELSE PlusPort(g[i - 1], seq[i])]
           c == CHOOSE g : P(g)
<1>1. Thread(PlusPort, h, seq) = c[Len(seq)]
  BY Zenon DEF Thread
<1>2. \A g : Trace(g, "size", h, seq, Len(seq)) <=> P(g)
  BY Zenon DEF Trace, Do
<1>3. \E g : Trace(g, "size", h, seq, Len(seq))
  BY TraceExists
<1>4. Trace(c, "size", h, seq, Len(seq))
  BY <1>2, <1>3, Zenon
<1> HIDE DEF c, P
<1>5. Steps(c, "size", h, seq, n)
  BY <1>4, TraceSteps
<1>. QED BY <1>1, <1>5

-----------------------------------------------------------------------------
(* Memory and the strings in it. *)

(* The cells are in mem from at on. *)
Holds(mem, at, cells) ==
  \A k \in 1..Len(cells) : at + k - 1 \in 1..Len(mem) /\ mem[at + k - 1] = cells[k]

LEMMA TextTyped ==
  ASSUME NEW t \in Texts
  PROVE  Text(t) \in Seq(STRING) /\ Len(Text(t)) \in Nat
<1>1. <<>> \in Seq(STRING)
  BY EmptySeq
<1>2. t # None => t \in Seq(STRING)
  BY DEF Texts
<1>3. Text(t) \in Seq(STRING)
  BY <1>1, <1>2 DEF Text
<1>. QED BY <1>3, LenProperties

LEMMA NulEndedFacts ==
  ASSUME NEW t \in Texts
  PROVE  /\ NulEnded(t) \in Seq(Memory)
         /\ Len(NulEnded(t)) = Len(Text(t)) + 1
         /\ \A k \in 1..Len(Text(t)) : NulEnded(t)[k] = Chr(Text(t)[k])
         /\ NulEnded(t)[Len(Text(t)) + 1] = Nul
<1> DEFINE n == Len(Text(t))
           c == [i \in 1..n |-> Chr(Text(t)[i])]
<1>1. Text(t) \in Seq(STRING) /\ n \in Nat /\ DOMAIN Text(t) = 1..n
  BY TextTyped, LenProperties
<1>2. NulEnded(t) = c \o <<Nul>>
  BY <1>1 DEF NulEnded
<1>3. \A i \in 1..n : Chr(Text(t)[i]) \in Memory
  BY <1>1, ElementOfSeq DEF Chr, Memory
<1>4. c \in Seq(Memory) /\ Len(c) = n
  BY <1>1, <1>3, IsASeq
<1>5. <<Nul>> \in Seq(Memory) /\ Len(<<Nul>>) = 1 /\ <<Nul>>[1] = Nul
  BY DEF Memory
<1>6. \A k \in 1..n : c[k] = Chr(Text(t)[k])
  OBVIOUS
<1> HIDE DEF c, n
<1>7. /\ c \o <<Nul>> \in Seq(Memory) /\ Len(c \o <<Nul>>) = n + 1
      /\ \A i \in 1..(n + 1) : (c \o <<Nul>>)[i] = IF i <= n THEN c[i] ELSE <<Nul>>[i - n]
  BY <1>4, <1>5, ConcatProperties
<1>8. /\ \A k \in 1..n : NulEnded(t)[k] = Chr(Text(t)[k])
      /\ NulEnded(t)[n + 1] = Nul
  BY <1>1, <1>2, <1>5, <1>6, <1>7 DEF n
<1>. QED BY <1>2, <1>7, <1>8 DEF n

(* What strdup reads where a text was written. *)
LEMMA StringFound ==
  ASSUME NEW mem \in Seq(Memory), NEW at \in Nat \ {0}, NEW t \in Texts,
         Holds(mem, at, NulEnded(t))
  PROVE  StringAt(mem, at) = Text(t)
<1> DEFINE n == Len(Text(t))
           Ends(e) == /\ \A i \in at..(e - 1) : mem[i].is = "char"
                      /\ e \in DOMAIN mem => mem[e].is # "char"
<1>1. n \in Nat /\ Text(t) \in Seq(STRING) /\ DOMAIN mem = 1..Len(mem) /\ Len(mem) \in Nat
  BY TextTyped, LenProperties
<1>2. \A k \in 1..n : at + k - 1 \in 1..Len(mem) /\ mem[at + k - 1] = Chr(Text(t)[k])
  BY <1>1, NulEndedFacts DEF Holds
<1>3. at + n \in 1..Len(mem) /\ mem[at + n] = Nul
  <2>1. n + 1 \in 1..Len(NulEnded(t)) /\ at + (n + 1) - 1 = at + n
    BY <1>1, NulEndedFacts
  <2>. QED BY <2>1, NulEndedFacts DEF Holds
<1>4. ASSUME NEW i \in at..(at + n - 1)
      PROVE  mem[i].is = "char"
  <2>1. i - at + 1 \in 1..n /\ at + (i - at + 1) - 1 = i
    BY <1>1
  <2>2. mem[i] = Chr(Text(t)[i - at + 1])
    BY <1>2, <2>1
  <2>. QED BY <2>2 DEF Chr
<1>5. mem[at + n].is # "char"
  BY <1>3 DEF Nul
<1>6. Ends(at + n) /\ at + n \in at..(Len(mem) + 1)
  BY <1>1, <1>3, <1>4, <1>5
<1>7. ASSUME NEW e \in at..(Len(mem) + 1), Ends(e)
      PROVE  e = at + n
  <2>1. ~(e > at + n)
    <3>1. e > at + n => at + n \in at..(e - 1)
      BY <1>1
    <3>. QED BY <1>5, <1>7, <3>1
  <2>2. ~(e < at + n)
    <3>1. e < at + n => e \in at..(at + n - 1) /\ e \in 1..Len(mem)
      BY <1>1, <1>3
    <3>. QED BY <1>1, <1>4, <1>7, <3>1
  <2>. QED BY <1>1, <2>1, <2>2
<1> DEFINE end == CHOOSE e \in at..(Len(mem) + 1) : Ends(e)
<1>8. end = at + n
  <2> HIDE DEF Ends
  <2>. QED BY <1>6, <1>7
<1>9. StringAt(mem, at) = [i \in 1..(end - at) |-> mem[at + i - 1].char]
  BY DEF StringAt
<1> HIDE DEF end
<1>10. StringAt(mem, at) = [i \in 1..n |-> mem[at + i - 1].char]
  <2>1. end - at = n
    BY <1>1, <1>8
  <2>. QED BY <1>9, <2>1
<1>11. ASSUME NEW i \in 1..n
       PROVE  mem[at + i - 1].char = Text(t)[i]
  <2>1. mem[at + i - 1] = Chr(Text(t)[i])
    BY <1>2
  <2>. QED BY <2>1 DEF Chr
<1>12. Text(t) = [i \in 1..n |-> Text(t)[i]]
  BY <1>1, LenProperties
<1>. QED BY <1>10, <1>11, <1>12

LEMMA WrittenFacts ==
  ASSUME NEW mem \in Seq(Memory), NEW at \in Nat \ {0}, NEW cells \in Seq(Memory)
  PROVE  LET w == Written(mem, at, cells)
             end == at + Len(cells) - 1
         IN  /\ w \in Seq(Memory)
             /\ Len(w) = IF end > Len(mem) THEN end ELSE Len(mem)
             /\ Holds(w, at, cells)
             /\ \A i \in 1..Len(mem) : i < at \/ i > end => w[i] = mem[i]
<1> DEFINE w == Written(mem, at, cells)
           n == Len(cells)
           l == Len(mem)
           N == IF at + n - 1 > l THEN at + n - 1 ELSE l
           E(i) == IF i >= at /\ i < at + n THEN cells[i - at + 1]
                   ELSE IF i <= l THEN mem[i] ELSE Nul
<1>1. l \in Nat /\ n \in Nat /\ N \in Nat /\ (\A i \in 1..l : mem[i] \in Memory)
      /\ (\A i \in 1..n : cells[i] \in Memory)
  BY LenProperties, ElementOfSeq
<1>2. w = [i \in 1..N |-> E(i)]
  BY DEF Written
<1>3. ASSUME NEW i \in 1..N
      PROVE  E(i) \in Memory
  <2>1. i >= at /\ i < at + n => i - at + 1 \in 1..n
    BY <1>1
  <2>2. i <= l => i \in 1..l
    BY <1>1
  <2>3. Nul \in Memory
    BY DEF Memory
  <2>. QED BY <1>1, <2>1, <2>2, <2>3
<1>4. \A i \in 1..N : w[i] = E(i)
  BY <1>2
<1>5. [i \in 1..N |-> E(i)] \in Seq(Memory)
  <2> HIDE DEF E, N
  <2>. QED BY <1>1, <1>3, IsASeq
<1>6. w \in Seq(Memory) /\ Len(w) = N
  <2>1. DOMAIN w = 1..N
    BY <1>2
  <2> HIDE DEF w, E, N
  <2>2. w \in Seq(Memory)
    BY <1>2, <1>5
  <2>3. DOMAIN w = 1..Len(w) /\ Len(w) \in Nat
    BY <2>2, LenProperties
  <2>. QED BY <1>1, <2>1, <2>2, <2>3
<1>7. ASSUME NEW k \in 1..n
      PROVE  at + k - 1 \in 1..N /\ w[at + k - 1] = cells[k]
  <2>1. /\ at + k - 1 \in 1..N /\ at + k - 1 >= at /\ at + k - 1 < at + n
        /\ (at + k - 1) - at + 1 = k
    BY <1>1
  <2> HIDE DEF w, N
  <2>. QED BY <1>4, <2>1
<1>8. ASSUME NEW i \in 1..l, i < at \/ i > at + n - 1
      PROVE  w[i] = mem[i]
  <2>1. i \in 1..N /\ i <= l /\ ~(i >= at /\ i < at + n)
    BY <1>1, <1>8
  <2> HIDE DEF w, N
  <2>. QED BY <1>4, <2>1
<1> HIDE DEF w
<1>. QED BY <1>6, <1>7, <1>8 DEF Holds, w

-----------------------------------------------------------------------------
(* What the agent writes. *)

OptionAt(mem, at, fixed, len) ==
  at \in 1..Len(mem) /\ mem[at] = [is |-> "option", length |-> len, fixed |-> fixed]

TextAt(mem, at, fixed, t) ==
  OptionAt(mem, at, fixed, Len(Text(t)) + 2) /\ Holds(mem, at + 1, NulEnded(t))

PortFixed(p) == [type |-> "PORT", id |-> p.id, protocol |-> p.protocol, state |-> p.state]

PortLen(p) == Len(Text(p.service)) + Len(Text(p.owner)) + 3

PortAt(mem, at, p) ==
  /\ OptionAt(mem, at, PortFixed(p), PortLen(p))
  /\ Holds(mem, at + 1, NulEnded(p.service))
  /\ Holds(mem, at + OwnerAt(p), NulEnded(p.owner))

(* Nothing is written behind the options, and the reply is Room cells long  *)
(* if they fit.                                                             *)
Writer(m) ==
  /\ m \in [mem : Seq(Memory), opt : Nat \ {0}, options : Nat]
  /\ Len(m.mem) = IF m.opt - 1 > Room THEN m.opt - 1 ELSE Room

(* The options of m are in mem. *)
Kept(m, mem) == m.opt - 1 <= Len(mem) /\ \A i \in 1..(m.opt - 1) : mem[i] = m.mem[i]

LEMMA AddFacts ==
  ASSUME NEW m, m \in [mem : Seq(Memory), opt : Nat \ {0}, options : Nat],
         m.opt - 1 <= Len(m.mem),
         NEW fixed \in FixedParts, NEW t \in Texts, NEW len \in Nat
  PROVE  LET r   == Add(m, fixed, t, len)
             end == m.opt + Len(Text(t)) + 1
         IN  /\ r \in [mem : Seq(Memory), opt : Nat \ {0}, options : Nat]
             /\ r.opt = m.opt + len /\ r.options = m.options + 1
             /\ Len(r.mem) = IF end > Len(m.mem) THEN end ELSE Len(m.mem)
             /\ OptionAt(r.mem, m.opt, fixed, len)
             /\ Holds(r.mem, m.opt + 1, NulEnded(t))
             /\ Kept(m, r.mem)
<1> DEFINE o     == [is |-> "option", length |-> len, fixed |-> fixed]
           cells == <<o>> \o NulEnded(t)
           r     == Add(m, fixed, t, len)
           w     == Written(m.mem, m.opt, cells)
           n     == Len(Text(t))
           end   == m.opt + n + 1
<1>1. n \in Nat /\ m.mem \in Seq(Memory) /\ m.opt \in Nat \ {0} /\ m.options \in Nat
      /\ Len(m.mem) \in Nat
  BY TextTyped, LenProperties
<1>2. <<o>> \in Seq(Memory) /\ Len(<<o>>) = 1 /\ <<o>>[1] = o
  BY DEF Memory
<1>3. NulEnded(t) \in Seq(Memory) /\ Len(NulEnded(t)) = n + 1
  BY NulEndedFacts
<1> HIDE DEF o
<1>4. /\ cells \in Seq(Memory) /\ Len(cells) = n + 2
      /\ \A i \in 1..(n + 2) : cells[i] = IF i <= 1 THEN <<o>>[i] ELSE NulEnded(t)[i - 1]
  <2>1. 1 + (n + 1) = n + 2
    BY <1>1
  <2>. QED BY <1>2, <1>3, <2>1, ConcatProperties
<1> HIDE DEF cells
<1>5. /\ w \in Seq(Memory) /\ Len(w) = IF end > Len(m.mem) THEN end ELSE Len(m.mem)
      /\ Holds(w, m.opt, cells)
      /\ \A i \in 1..Len(m.mem) : i < m.opt \/ i > end => w[i] = m.mem[i]
  <2>1. m.opt + Len(cells) - 1 = end
    BY <1>1, <1>4
  <2>. QED BY <1>1, <1>4, <2>1, WrittenFacts
<1>6. r = [mem |-> w, opt |-> m.opt + len, options |-> m.options + 1]
  BY DEF Add, cells, o
<1> HIDE DEF r, w
<1>7. r.mem = w /\ r.opt = m.opt + len /\ r.options = m.options + 1
      /\ r \in [mem : Seq(Memory), opt : Nat \ {0}, options : Nat]
  BY <1>1, <1>5, <1>6
<1>8. OptionAt(w, m.opt, fixed, len)
  <2>1. 1 \in 1..(n + 2) /\ m.opt + 1 - 1 = m.opt
    BY <1>1
  <2>2. m.opt + 1 - 1 \in 1..Len(w) /\ w[m.opt + 1 - 1] = cells[1]
    BY <1>4, <1>5, <2>1 DEF Holds
  <2>. QED BY <1>2, <1>4, <2>1, <2>2 DEF OptionAt, o
<1>9. Holds(w, m.opt + 1, NulEnded(t))
  <2>1. ASSUME NEW k \in 1..(n + 1)
        PROVE  (m.opt + 1) + k - 1 \in 1..Len(w) /\ w[(m.opt + 1) + k - 1] = NulEnded(t)[k]
    <3>1. k + 1 \in 1..(n + 2) /\ m.opt + (k + 1) - 1 = (m.opt + 1) + k - 1
          /\ ~(k + 1 <= 1) /\ (k + 1) - 1 = k
      BY <1>1
    <3>2. m.opt + (k + 1) - 1 \in 1..Len(w) /\ w[m.opt + (k + 1) - 1] = cells[k + 1]
      BY <1>4, <1>5, <3>1 DEF Holds
    <3>3. cells[k + 1] = NulEnded(t)[k]
      BY <1>4, <3>1
    <3>. QED BY <3>1, <3>2, <3>3
  <2>. QED BY <1>3, <2>1 DEF Holds
<1>10. Kept(m, w)
  <2>1. m.opt - 1 <= Len(w)
    BY <1>1, <1>5
  <2>2. \A i \in 1..(m.opt - 1) : i \in 1..Len(m.mem) /\ i < m.opt
    BY <1>1
  <2>. QED BY <1>5, <2>1, <2>2 DEF Kept
<1>. QED BY <1>5, <1>7, <1>8, <1>9, <1>10 DEF r

LEMMA KeptOn ==
  ASSUME NEW m, NEW r, NEW mem, Kept(m, r.mem), Kept(r, mem), m.opt \in Nat, r.opt \in Nat,
         m.opt <= r.opt, Len(mem) \in Nat
  PROVE  Kept(m, mem)
<1>1. r.opt - 1 <= Len(mem) /\ \A i \in 1..(r.opt - 1) : mem[i] = r.mem[i]
  BY DEF Kept
<1>2. \A i \in 1..(m.opt - 1) : r.mem[i] = m.mem[i]
  BY DEF Kept
<1>3. m.opt - 1 <= Len(mem) /\ \A i \in 1..(m.opt - 1) : i \in 1..(r.opt - 1)
  BY <1>1
<1>. QED BY <1>1, <1>2, <1>3 DEF Kept

(* The options os and uptime *)
LEMMA AddedText ==
  ASSUME NEW m, Writer(m), NEW fixed \in FixedParts, NEW t \in Texts
  PROVE  LET r == Add(m, fixed, t, 1 + Len(Text(t)) + 1)
         IN  /\ Writer(r) /\ Kept(m, r.mem)
             /\ r.opt = m.opt + Len(Text(t)) + 2 /\ r.options = m.options + 1
             /\ TextAt(r.mem, m.opt, fixed, t)
<1> DEFINE n == Len(Text(t))
           r == Add(m, fixed, t, 1 + n + 1)
<1>1. /\ n \in Nat /\ m \in [mem : Seq(Memory), opt : Nat \ {0}, options : Nat]
      /\ Room \in Nat \ {0} /\ m.opt \in Nat \ {0}
      /\ Len(m.mem) = IF m.opt - 1 > Room THEN m.opt - 1 ELSE Room
  BY TextTyped, ScanReportsAssumption DEF Writer
<1>2. 1 + n + 1 \in Nat /\ 1 + n + 1 = n + 2 /\ m.opt - 1 <= Len(m.mem)
  BY <1>1
<1>3. /\ r \in [mem : Seq(Memory), opt : Nat \ {0}, options : Nat]
      /\ r.opt = m.opt + (n + 2) /\ r.options = m.options + 1
      /\ Len(r.mem) = IF m.opt + n + 1 > Len(m.mem) THEN m.opt + n + 1 ELSE Len(m.mem)
      /\ OptionAt(r.mem, m.opt, fixed, n + 2)
      /\ Holds(r.mem, m.opt + 1, NulEnded(t))
      /\ Kept(m, r.mem)
  BY <1>1, <1>2, AddFacts
<1> HIDE DEF r
<1>4. r.opt = m.opt + n + 2 /\ Writer(r)
  <2>1. r.opt - 1 = m.opt + n + 1
    BY <1>1, <1>3
  <2>2. Len(r.mem) = IF r.opt - 1 > Room THEN r.opt - 1 ELSE Room
    BY <1>1, <1>3, <2>1
  <2>3. m.opt + (n + 2) = m.opt + n + 2
    BY <1>1
  <2>. QED BY <1>3, <2>2, <2>3 DEF Writer
<1>. QED BY <1>3, <1>4 DEF TextAt, r

LEMMA OwnerAtFacts ==
  ASSUME NEW p \in ParsedPorts
  PROVE  /\ OwnerAt(p) = Len(Text(p.service)) + 2
         /\ Len(Text(p.service)) \in Nat /\ Len(Text(p.owner)) \in Nat
         /\ PortLen(p) = OwnerAt(p) + Len(Text(p.owner)) + 1
         /\ p.service \in Texts /\ p.owner \in Texts
<1>1. p.service \in Texts /\ p.owner \in Texts
  BY DEF ParsedPorts
<1>2. Len(Text(p.service)) \in Nat /\ Len(Text(p.owner)) \in Nat
  BY <1>1, TextTyped
<1>3. CASE p.service = None
  <2>1. Len(Text(p.service)) = 0
    BY <1>3, EmptySeq DEF Text
  <2>. QED BY <1>1, <1>2, <1>3, <2>1 DEF OwnerAt, PortLen
<1>4. CASE p.service # None
  <2>1. Text(p.service) = p.service
    BY <1>4 DEF Text
  <2>2. OwnerAt(p) = 1 + (Len(Text(p.service)) + 1)
    BY <1>4, <2>1 DEF OwnerAt
  <2>. QED BY <1>1, <1>2, <2>2 DEF PortLen
<1>. QED BY <1>3, <1>4

(* How long the memory becomes. *)
LEMMA Lengths ==
  ASSUME NEW o \in Nat, o >= 1, NEW s \in Nat, NEW n \in Nat, NEW room \in Nat,
         NEW a, NEW b, NEW c,
         a = IF o - 1 > room THEN o - 1 ELSE room,
         b = IF o + s + 1 > a THEN o + s + 1 ELSE a,
         c = IF o + s + n + 2 > b THEN o + s + n + 2 ELSE b
  PROVE  /\ a \in Nat /\ b \in Nat /\ c \in Nat
         /\ a >= o - 1 /\ b >= o + s + 1 /\ b <= c /\ c >= o - 1
         /\ c = IF o + s + n + 2 > room THEN o + s + n + 2 ELSE room
<1>1. a \in Nat /\ a >= o - 1
  OBVIOUS
<1>2. b \in Nat /\ b >= o + s + 1 /\ b >= a
  BY <1>1
<1>3. c \in Nat /\ b <= c
  BY <1>2
<1>. QED BY <1>1, <1>2, <1>3

LEMMA AddedPort ==
  ASSUME NEW m, Writer(m), NEW p \in ParsedPorts
  PROVE  LET r == AddPort(m, p)
         IN  /\ Writer(r) /\ Kept(m, r.mem)
             /\ r.opt = m.opt + PortLen(p) /\ r.options = m.options + 1
             /\ PortAt(r.mem, m.opt, p)
<1> DEFINE fixed == PortFixed(p)
           s     == Len(Text(p.service))
           n     == Len(Text(p.owner))
           added == Add(m, fixed, p.service, PortLen(p))
           w     == Written(added.mem, m.opt + OwnerAt(p), NulEnded(p.owner))
           r     == AddPort(m, p)
<1>1. /\ m \in [mem : Seq(Memory), opt : Nat \ {0}, options : Nat]
      /\ Room \in Nat \ {0} /\ m.opt \in Nat \ {0}
      /\ Len(m.mem) = IF m.opt - 1 > Room THEN m.opt - 1 ELSE Room
  BY ScanReportsAssumption DEF Writer
<1>2. /\ s \in Nat /\ n \in Nat /\ OwnerAt(p) = s + 2 /\ PortLen(p) = s + 2 + n + 1
      /\ p.service \in Texts /\ p.owner \in Texts
  BY OwnerAtFacts
<1>3. fixed \in FixedParts
  BY DEF PortFixed, FixedParts, ParsedPorts
<1>4. PortLen(p) \in Nat /\ m.opt - 1 <= Len(m.mem)
  BY <1>1, <1>2
<1> HIDE DEF fixed
<1>5. /\ added \in [mem : Seq(Memory), opt : Nat \ {0}, options : Nat]
      /\ added.opt = m.opt + PortLen(p) /\ added.options = m.options + 1
      /\ Len(added.mem) = IF m.opt + s + 1 > Len(m.mem) THEN m.opt + s + 1 ELSE Len(m.mem)
      /\ OptionAt(added.mem, m.opt, fixed, PortLen(p))
      /\ Holds(added.mem, m.opt + 1, NulEnded(p.service))
      /\ Kept(m, added.mem)
  BY <1>1, <1>2, <1>3, <1>4, AddFacts
<1>6. r = [added EXCEPT !.mem = w]
  <2>1. /\ OwnerAt(p) + Len(Text(p.owner)) + 1 = PortLen(p)
    BY <1>2
  <2>. QED BY <2>1, Zenon DEF AddPort, PortFixed, fixed
<1> HIDE DEF added, r, s, n
<1>0. m.opt \in Nat /\ m.opt >= 1 /\ s \in Nat /\ n \in Nat /\ Room \in Nat
      /\ OwnerAt(p) = s + 2 /\ PortLen(p) = s + 2 + n + 1
  BY <1>1, <1>2
<1>7. NulEnded(p.owner) \in Seq(Memory) /\ Len(NulEnded(p.owner)) = n + 1
      /\ NulEnded(p.service) \in Seq(Memory) /\ Len(NulEnded(p.service)) = s + 1
  BY <1>2, NulEndedFacts DEF s, n
<1>8. /\ w \in Seq(Memory)
      /\ Len(w) = IF m.opt + s + n + 2 > Len(added.mem) THEN m.opt + s + n + 2 ELSE Len(added.mem)
      /\ Holds(w, m.opt + OwnerAt(p), NulEnded(p.owner))
      /\ \A i \in 1..Len(added.mem) : i < m.opt + s + 2 => w[i] = added.mem[i]
  <2>1. /\ m.opt + OwnerAt(p) \in Nat \ {0} /\ m.opt + OwnerAt(p) = m.opt + s + 2
        /\ (m.opt + OwnerAt(p)) + (n + 1) - 1 = m.opt + s + n + 2
    BY <1>0
  <2>2. added.mem \in Seq(Memory)
    BY <1>5
  <2>3. /\ w \in Seq(Memory)
        /\ Len(w) = IF (m.opt + OwnerAt(p)) + Len(NulEnded(p.owner)) - 1 > Len(added.mem)
                    THEN (m.opt + OwnerAt(p)) + Len(NulEnded(p.owner)) - 1 ELSE Len(added.mem)
        /\ Holds(w, m.opt + OwnerAt(p), NulEnded(p.owner))
        /\ \A i \in 1..Len(added.mem) : i < m.opt + OwnerAt(p) => w[i] = added.mem[i]
    BY <1>7, <2>1, <2>2, WrittenFacts
  <2> HIDE DEF w
  <2>. QED BY <1>7, <2>1, <2>3
<1> HIDE DEF w
<1>a. /\ Len(m.mem) = IF m.opt - 1 > Room THEN m.opt - 1 ELSE Room
      /\ Len(added.mem) = IF m.opt + s + 1 > Len(m.mem) THEN m.opt + s + 1 ELSE Len(m.mem)
      /\ Len(w) = IF m.opt + s + n + 2 > Len(added.mem) THEN m.opt + s + n + 2 ELSE Len(added.mem)
  BY <1>1, <1>5, <1>8 DEF s
<1>b. /\ Len(m.mem) \in Nat /\ Len(added.mem) \in Nat /\ Len(w) \in Nat
      /\ Len(m.mem) >= m.opt - 1 /\ Len(added.mem) >= m.opt + s + 1 /\ Len(added.mem) <= Len(w)
      /\ Len(w) >= m.opt - 1
      /\ Len(w) = IF m.opt + s + n + 2 > Room THEN m.opt + s + n + 2 ELSE Room
  <2> DEFINE o == m.opt
             a == Len(m.mem)
             b == Len(added.mem)
             c == Len(w)
  <2>1. /\ o \in Nat /\ o >= 1 /\ s \in Nat /\ n \in Nat /\ Room \in Nat
        /\ a = IF o - 1 > Room THEN o - 1 ELSE Room
        /\ b = IF o + s + 1 > a THEN o + s + 1 ELSE a
        /\ c = IF o + s + n + 2 > b THEN o + s + n + 2 ELSE b
    BY <1>0, <1>a
  <2> HIDE DEF a, b, c, o
  <2>2. /\ a \in Nat /\ b \in Nat /\ c \in Nat
        /\ a >= o - 1 /\ b >= o + s + 1 /\ b <= c /\ c >= o - 1
        /\ c = IF o + s + n + 2 > Room THEN o + s + n + 2 ELSE Room
    BY <2>1, Lengths
  <2>. QED BY <2>2, Zenon DEF a, b, c, o
<1>9. r.mem = w /\ r.opt = m.opt + PortLen(p) /\ r.options = m.options + 1
      /\ r \in [mem : Seq(Memory), opt : Nat \ {0}, options : Nat]
  BY <1>5, <1>6, <1>8
<1>10. Writer(r)
  <2>1. r.opt - 1 = m.opt + s + n + 2
    BY <1>0, <1>9
  <2>2. Len(w) = IF r.opt - 1 > Room THEN r.opt - 1 ELSE Room
    BY <1>b, <2>1
  <2>. QED BY <1>9, <2>2 DEF Writer
<1>11. \A i \in 1..(m.opt + s + 1) : i \in 1..Len(added.mem) /\ i \in 1..Len(w) /\ w[i] = added.mem[i]
  <2>2. ASSUME NEW i \in 1..(m.opt + s + 1)
        PROVE  i \in 1..Len(added.mem) /\ i \in 1..Len(w) /\ i < m.opt + s + 2
    <3> DEFINE o == m.opt
               b == Len(added.mem)
               c == Len(w)
    <3>1. /\ o \in Nat /\ s \in Nat /\ b \in Nat /\ c \in Nat /\ b >= o + s + 1 /\ b <= c
          /\ i \in 1..(o + s + 1)
      BY <1>0, <1>b
    <3> HIDE DEF o, b, c
    <3>2. i \in 1..b /\ i \in 1..c /\ i < o + s + 2
      BY <3>1
    <3>. QED BY <3>2 DEF o, b, c
  <2>. QED BY <1>8, <2>2
<1>12. Kept(m, w)
  <2>1. m.opt - 1 <= Len(w)
    BY <1>b
  <2>2. \A i \in 1..(m.opt - 1) : i \in 1..(m.opt + s + 1)
    BY <1>0
  <2>3. \A i \in 1..(m.opt - 1) : added.mem[i] = m.mem[i]
    BY <1>5 DEF Kept
  <2>. QED BY <1>11, <2>1, <2>2, <2>3 DEF Kept
<1>13. OptionAt(w, m.opt, fixed, PortLen(p))
  <2>1. m.opt \in 1..(m.opt + s + 1)
    BY <1>0
  <2>. QED BY <1>5, <1>11, <2>1 DEF OptionAt
<1>14. Holds(w, m.opt + 1, NulEnded(p.service))
  <2>1. \A k \in 1..(s + 1) : (m.opt + 1) + k - 1 \in 1..(m.opt + s + 1)
    BY <1>0
  <2>2. \A k \in 1..(s + 1) : added.mem[(m.opt + 1) + k - 1] = NulEnded(p.service)[k]
    BY <1>5, <1>7 DEF Holds
  <2>3. ASSUME NEW k \in 1..(s + 1)
        PROVE  (m.opt + 1) + k - 1 \in 1..Len(w) /\ w[(m.opt + 1) + k - 1] = NulEnded(p.service)[k]
    BY <1>11, <2>1, <2>2
  <2>. QED BY <1>7, <2>3 DEF Holds
<1>. QED BY <1>8, <1>9, <1>10, <1>12, <1>13, <1>14 DEF PortAt, r, fixed

LEMMA KeptHolds ==
  ASSUME NEW m, NEW mem, Kept(m, mem), m.opt \in Nat, Len(mem) \in Nat,
         NEW at \in Nat \ {0}, NEW cells, Len(cells) \in Nat,
         Holds(m.mem, at, cells), at + Len(cells) <= m.opt
  PROVE  Holds(mem, at, cells)
<1>1. ASSUME NEW k \in 1..Len(cells)
      PROVE  at + k - 1 \in 1..Len(mem) /\ mem[at + k - 1] = cells[k]
  <2> DEFINE o == m.opt
             l == Len(mem)
             n == Len(cells)
  <2>1. o \in Nat /\ l \in Nat /\ n \in Nat /\ o - 1 <= l /\ at + n <= o /\ k \in 1..n
    BY DEF Kept
  <2>2. m.mem[at + k - 1] = cells[k]
    BY DEF Holds
  <2> HIDE DEF o, l, n
  <2>3. at + k - 1 \in 1..l /\ at + k - 1 \in 1..(o - 1)
    BY <2>1
  <2>. QED BY <2>2, <2>3 DEF Kept, o, l
<1>. QED BY <1>1 DEF Holds

LEMMA KeptOption ==
  ASSUME NEW m, NEW mem, Kept(m, mem), m.opt \in Nat, Len(mem) \in Nat,
         NEW at \in Nat \ {0}, NEW fixed, NEW len,
         OptionAt(m.mem, at, fixed, len), at < m.opt
  PROVE  OptionAt(mem, at, fixed, len)
<1> DEFINE o == m.opt
           l == Len(mem)
<1>1. o \in Nat /\ l \in Nat /\ o - 1 <= l /\ at < o
  BY DEF Kept
<1> HIDE DEF o, l
<1>2. at \in 1..l /\ at \in 1..(o - 1)
  BY <1>1
<1>. QED BY <1>2 DEF Kept, OptionAt, o, l

LEMMA KeptText ==
  ASSUME NEW m, NEW mem, Kept(m, mem), m.opt \in Nat, Len(mem) \in Nat,
         NEW at \in Nat \ {0}, NEW fixed, NEW t \in Texts,
         TextAt(m.mem, at, fixed, t), at + Len(Text(t)) + 2 <= m.opt
  PROVE  TextAt(mem, at, fixed, t)
<1>1. Len(Text(t)) \in Nat /\ Len(NulEnded(t)) = Len(Text(t)) + 1
  BY TextTyped, NulEndedFacts
<1>2. at < m.opt /\ at + 1 \in Nat \ {0} /\ (at + 1) + Len(NulEnded(t)) <= m.opt
      /\ Len(NulEnded(t)) \in Nat
  BY <1>1
<1>3. OptionAt(mem, at, fixed, Len(Text(t)) + 2)
  BY <1>2, KeptOption DEF TextAt
<1>4. Holds(mem, at + 1, NulEnded(t))
  BY <1>2, KeptHolds DEF TextAt
<1>. QED BY <1>3, <1>4 DEF TextAt

LEMMA KeptPort ==
  ASSUME NEW m, NEW mem, Kept(m, mem), m.opt \in Nat, Len(mem) \in Nat,
         NEW at \in Nat \ {0}, NEW p \in ParsedPorts,
         PortAt(m.mem, at, p), at + PortLen(p) <= m.opt
  PROVE  PortAt(mem, at, p)
<1> DEFINE s == Len(Text(p.service))
           n == Len(Text(p.owner))
           o == m.opt
<1>1. /\ s \in Nat /\ n \in Nat /\ OwnerAt(p) = s + 2 /\ PortLen(p) = OwnerAt(p) + n + 1
      /\ Len(NulEnded(p.service)) = s + 1 /\ Len(NulEnded(p.owner)) = n + 1
      /\ o \in Nat /\ at + PortLen(p) <= o
  BY OwnerAtFacts, NulEndedFacts
<1> HIDE DEF s, n, o
<1>2. /\ at < o /\ at + 1 \in Nat \ {0} /\ (at + 1) + (s + 1) <= o
      /\ at + OwnerAt(p) \in Nat \ {0} /\ (at + OwnerAt(p)) + (n + 1) <= o
      /\ s + 1 \in Nat /\ n + 1 \in Nat
  BY <1>1
<1>3. OptionAt(mem, at, PortFixed(p), PortLen(p))
  BY <1>2, KeptOption DEF PortAt, o
<1>4. Holds(mem, at + 1, NulEnded(p.service))
  BY <1>1, <1>2, KeptHolds DEF PortAt, o
<1>5. Holds(mem, at + OwnerAt(p), NulEnded(p.owner))
  BY <1>1, <1>2, KeptHolds DEF PortAt, o
<1>. QED BY <1>3, <1>4, <1>5 DEF PortAt

LEMMA WriterTyped ==
  ASSUME NEW m, Writer(m)
  PROVE  /\ m.mem \in Seq(Memory) /\ m.opt \in Nat \ {0} /\ m.options \in Nat
         /\ Len(m.mem) \in Nat /\ m.opt - 1 <= Len(m.mem) /\ Kept(m, m.mem)
<1>1. m.mem \in Seq(Memory) /\ m.opt \in Nat \ {0} /\ m.options \in Nat
  BY DEF Writer
<1>2. Room \in Nat /\ Len(m.mem) = IF m.opt - 1 > Room THEN m.opt - 1 ELSE Room
  BY ScanReportsAssumption DEF Writer
<1>3. Len(m.mem) \in Nat /\ m.opt - 1 <= Len(m.mem)
  BY <1>1, <1>2
<1>. QED BY <1>1, <1>3 DEF Kept

(* One port after the other *)
LEMMA WritePorts ==
  ASSUME NEW ports \in Seq(ParsedPorts), NEW e, Writer(e[0]),
         \A i \in 1..Len(ports) : e[i] = AddPort(e[i - 1], ports[i])
  PROVE  \A i \in 0..Len(ports) :
           /\ Writer(e[i]) /\ e[i].options = e[0].options + i
           /\ e[0].opt <= e[i].opt /\ Kept(e[0], e[i].mem)
           /\ \A j \in 1..i : /\ e[j - 1].opt \in Nat \ {0}
                              /\ e[j].opt = e[j - 1].opt + PortLen(ports[j])
                              /\ e[j].opt <= e[i].opt
                              /\ PortAt(e[i].mem, e[j - 1].opt, ports[j])
<1> DEFINE q == Len(ports)
           P(i) == /\ Writer(e[i]) /\ e[i].options = e[0].options + i
                   /\ e[0].opt <= e[i].opt /\ Kept(e[0], e[i].mem)
                   /\ \A j \in 1..i : /\ e[j - 1].opt \in Nat \ {0}
                                      /\ e[j].opt = e[j - 1].opt + PortLen(ports[j])
                                      /\ e[j].opt <= e[i].opt
                                      /\ PortAt(e[i].mem, e[j - 1].opt, ports[j])
           T == {i \in 0..q : P(i)}
<1>1. q \in Nat /\ \A i \in 1..q : ports[i] \in ParsedPorts
  BY LenProperties, ElementOfSeq
<1>2. e[0].opt \in Nat \ {0} /\ e[0].options \in Nat /\ Kept(e[0], e[0].mem)
  BY WriterTyped
<1>3. 0 \in T
  <2>1. P(0)
    BY <1>2
  <2>. QED BY <1>1, <2>1
<1>4. ASSUME NEW i \in 1..q, i - 1 \in T
      PROVE  i \in T
  <2> DEFINE f == e[i - 1]
             p == ports[i]
             r == e[i]
  <2>1. P(i - 1)
    BY <1>4
  <2>2. Writer(f) /\ p \in ParsedPorts /\ r = AddPort(f, p)
    BY <1>1, <2>1
  <2> HIDE DEF f, p, r
  <2>3. /\ Writer(r) /\ Kept(f, r.mem) /\ r.opt = f.opt + PortLen(p) /\ r.options = f.options + 1
        /\ PortAt(r.mem, f.opt, p)
    BY <2>2, AddedPort
  <2>4. /\ f.opt \in Nat \ {0} /\ f.options \in Nat /\ r.opt \in Nat /\ Len(r.mem) \in Nat
        /\ PortLen(p) \in Nat
    <3>1. f.opt \in Nat \ {0} /\ f.options \in Nat
      BY <2>2, WriterTyped
    <3>2. r.opt \in Nat /\ Len(r.mem) \in Nat
      BY <2>3, WriterTyped
    <3>3. PortLen(p) \in Nat
      BY <2>2, OwnerAtFacts DEF PortLen
    <3>. QED BY <3>1, <3>2, <3>3
  <2>5. /\ f.options = e[0].options + (i - 1) /\ e[0].opt <= f.opt /\ Kept(e[0], f.mem)
    BY <2>1 DEF f
  <2>6. r.options = e[0].options + i /\ e[0].opt <= r.opt /\ f.opt <= r.opt
    <3> DEFINE e0opt     == e[0].opt
               e0options == e[0].options
               size      == PortLen(p)
               ropt      == r.opt
               roptions  == r.options
               fopt      == f.opt
               foptions  == f.options
    <3>1. /\ i \in Nat /\ e0opt \in Nat /\ e0options \in Nat /\ size \in Nat
          /\ fopt \in Nat /\ foptions \in Nat
      BY <1>1, <1>2, <2>4
    <3>2. /\ foptions = e0options + (i - 1) /\ e0opt <= fopt
          /\ ropt = fopt + size /\ roptions = foptions + 1
      BY <2>3, <2>5
    <3> HIDE DEF e0opt, e0options, size, ropt, roptions, fopt, foptions
    <3>3. roptions = e0options + i /\ e0opt <= ropt /\ fopt <= ropt
      BY <3>1, <3>2
    <3>. QED BY <3>3 DEF e0opt, e0options, ropt, roptions, fopt
  <2>7. Kept(e[0], r.mem)
    BY <1>2, <2>3, <2>4, <2>5, KeptOn
  <2>8. ASSUME NEW j \in 1..i
        PROVE  /\ e[j - 1].opt \in Nat \ {0}
               /\ e[j].opt = e[j - 1].opt + PortLen(ports[j])
               /\ e[j].opt <= r.opt
               /\ PortAt(r.mem, e[j - 1].opt, ports[j])
    <3>1. CASE j = i
      BY <2>3, <2>4, <3>1 DEF f, p, r
    <3>2. CASE j # i
      <4>1. j \in 1..(i - 1) /\ j \in 1..q
        BY <1>1, <3>2
      <4>2. /\ e[j - 1].opt \in Nat \ {0}
            /\ e[j].opt = e[j - 1].opt + PortLen(ports[j])
            /\ e[j].opt <= f.opt
            /\ PortAt(f.mem, e[j - 1].opt, ports[j])
        BY <2>1, <4>1 DEF f
      <4>3. ports[j] \in ParsedPorts /\ PortLen(ports[j]) \in Nat
        <5>1. ports[j] \in ParsedPorts
          BY <1>1, <4>1
        <5>. QED BY <5>1, OwnerAtFacts DEF PortLen
      <4>4. PortAt(r.mem, e[j - 1].opt, ports[j])
        BY <2>3, <2>4, <4>2, <4>3, KeptPort
      <4>5. e[j].opt <= r.opt
        BY <2>4, <2>6, <4>2, <4>3
      <4>. QED BY <4>2, <4>4, <4>5
    <3>. QED BY <3>1, <3>2
  <2>9. P(i)
    BY <2>3, <2>6, <2>7, <2>8 DEF r
  <2> HIDE DEF P
  <2>. QED BY <1>4, <2>9
<1>5. \A i \in 0..q : i \in T
  <2> HIDE DEF T
  <2>. QED BY <1>1, <1>3, <1>4, UpTo
<1>. QED BY <1>5

(* What the parser makes of a host *)
ParsedHosts ==
  [addr : {None} \union STRING, os : Texts, ports : Seq(ParsedPorts),
   uptime_seconds : {None} \union Nat, uptime_last_boot : Texts]

OsLen(n)     == IF n.os = None THEN 0 ELSE Len(Text(n.os)) + 2
UptimeLen(n) == IF n.uptime_seconds = None THEN 0 ELSE Len(Text(n.uptime_last_boot)) + 2

(* The options of n are in mem: the first port is at pos[0], and the cell    *)
(* behind the last one at pos[Len(n.ports)].                                 *)
Encoded(mem, n, num, pos) ==
  LET q == Len(n.ports)
  IN  /\ \A j \in 0..q : pos[j] \in Nat \ {0}
      /\ pos[0] = 1 + OsLen(n)
      /\ n.os # None => TextAt(mem, 1, [type |-> "OS"], n.os)
      /\ \A j \in 1..q : /\ pos[j] = pos[j - 1] + PortLen(n.ports[j])
                         /\ PortAt(mem, pos[j - 1], n.ports[j])
      /\ n.uptime_seconds # None =>
           TextAt(mem, pos[q], [type |-> "UPTIME", seconds |-> n.uptime_seconds],
                  n.uptime_last_boot)
      /\ num = (IF n.os = None THEN 0 ELSE 1) + q + (IF n.uptime_seconds = None THEN 0 ELSE 1)

LEMMA WriteOs ==
  ASSUME NEW n \in ParsedHosts, NEW mem \in Seq(Memory), Len(mem) = Room
  PROVE  LET a == AddOs([mem |-> mem, opt |-> 1, options |-> 0], n.os)
         IN  /\ Writer(a) /\ a.opt = 1 + OsLen(n)
             /\ a.options = IF n.os = None THEN 0 ELSE 1
             /\ n.os # None => TextAt(a.mem, 1, [type |-> "OS"], n.os)
<1> DEFINE m == [mem |-> mem, opt |-> 1, options |-> 0]
           a == AddOs(m, n.os)
<1>1. /\ m \in [mem : Seq(Memory), opt : Nat \ {0}, options : Nat]
      /\ m.opt = 1 /\ m.options = 0 /\ m.mem = mem
  OBVIOUS
<1> HIDE DEF m
<1>2. Writer(m)
  <2>1. Room \in Nat \ {0}
    BY ScanReportsAssumption
  <2>2. ~(m.opt - 1 > Room)
    BY <1>1, <2>1
  <2>. QED BY <1>1, <2>2 DEF Writer
<1>3. n.os \in Texts
  BY DEF ParsedHosts
<1>4. CASE n.os = None
  <2>1. a = m /\ OsLen(n) = 0
    BY <1>4 DEF AddOs, OsLen
  <2>. QED BY <1>1, <1>2, <1>4, <2>1 DEF m
<1>5. CASE n.os # None
  <2> DEFINE fixed == [type |-> "OS"]
             r == Add(m, fixed, n.os, 1 + Len(Text(n.os)) + 1)
  <2>1. Text(n.os) = n.os /\ OsLen(n) = Len(Text(n.os)) + 2
    BY <1>5 DEF Text, OsLen
  <2>2. a = r
    BY <1>5, <2>1, Zenon DEF AddOs
  <2>3. fixed \in FixedParts
    BY DEF FixedParts
  <2> HIDE DEF fixed
  <2>4. /\ Writer(r) /\ r.opt = m.opt + Len(Text(n.os)) + 2 /\ r.options = m.options + 1
        /\ TextAt(r.mem, m.opt, fixed, n.os)
    BY <1>2, <1>3, <2>3, AddedText
  <2>5. Len(Text(n.os)) \in Nat
    BY <1>3, TextTyped
  <2> HIDE DEF r, a
  <2>6. Writer(a) /\ a.opt = 1 + OsLen(n) /\ a.options = 1 /\ TextAt(a.mem, 1, fixed, n.os)
    BY <1>1, <2>1, <2>2, <2>4, <2>5
  <2>. QED BY <1>5, <2>6 DEF a, m, fixed
<1>. QED BY <1>4, <1>5

LEMMA WriteUptime ==
  ASSUME NEW n \in ParsedHosts, NEW m, Writer(m)
  PROVE  LET r == AddUptime(m, n.uptime_seconds, n.uptime_last_boot)
         IN  /\ Writer(r) /\ Kept(m, r.mem) /\ r.opt = m.opt + UptimeLen(n)
             /\ r.options = m.options + (IF n.uptime_seconds = None THEN 0 ELSE 1)
             /\ n.uptime_seconds # None =>
                  TextAt(r.mem, m.opt, [type |-> "UPTIME", seconds |-> n.uptime_seconds],
                         n.uptime_last_boot)
<1> DEFINE boot == n.uptime_last_boot
           r == AddUptime(m, n.uptime_seconds, boot)
<1>1. boot \in Texts /\ n.uptime_seconds \in {None} \union Nat /\ Len(Text(boot)) \in Nat
  BY TextTyped DEF ParsedHosts
<1>2. m.opt \in Nat \ {0} /\ m.options \in Nat /\ Kept(m, m.mem)
  BY WriterTyped
<1>3. CASE n.uptime_seconds = None
  <2>1. r = m /\ UptimeLen(n) = 0
    BY <1>3 DEF AddUptime, UptimeLen
  <2>. QED BY <1>2, <1>3, <2>1
<1>4. CASE n.uptime_seconds # None
  <2> DEFINE fixed == [type |-> "UPTIME", seconds |-> n.uptime_seconds]
             s == Add(m, fixed, boot, 1 + Len(Text(boot)) + 1)
  <2>1. UptimeLen(n) = Len(Text(boot)) + 2 /\ r = s
    BY <1>4, Zenon DEF AddUptime, UptimeLen
  <2>2. fixed \in FixedParts
    BY <1>1, <1>4 DEF FixedParts
  <2> HIDE DEF fixed
  <2>3. /\ Writer(s) /\ Kept(m, s.mem) /\ s.opt = m.opt + Len(Text(boot)) + 2
        /\ s.options = m.options + 1
        /\ TextAt(s.mem, m.opt, fixed, boot)
    BY <1>1, <2>2, AddedText
  <2> HIDE DEF r, s
  <2>4. /\ Writer(r) /\ Kept(m, r.mem) /\ r.opt = m.opt + UptimeLen(n)
        /\ r.options = m.options + 1 /\ TextAt(r.mem, m.opt, fixed, boot)
    <3>1. m.opt + Len(Text(boot)) + 2 = m.opt + UptimeLen(n)
      BY <1>1, <1>2, <2>1
    <3>. QED BY <2>1, <2>3, <3>1
  <2>. QED BY <1>4, <2>4 DEF r, fixed
<1>. QED BY <1>3, <1>4

(* send_osscan_reply *)
LEMMA OptionsEncoded ==
  ASSUME NEW n \in ParsedHosts, NEW mem \in Seq(Memory), Len(mem) = Room
  PROVE  /\ Writer(Options(n, mem))
         /\ \E pos : /\ Options(n, mem).opt = pos[Len(n.ports)] + UptimeLen(n)
                     /\ \A cells \in Seq(Memory) :
                          Kept(Options(n, mem), cells) =>
                            Encoded(cells, n, Options(n, mem).options, pos)
<1> DEFINE q == Len(n.ports)
           first == AddOs([mem |-> mem, opt |-> 1, options |-> 0], n.os)
           f == Options(n, mem)
<1>1. /\ n.ports \in Seq(ParsedPorts) /\ n.os \in Texts /\ n.uptime_last_boot \in Texts
  BY DEF ParsedHosts
<1>2. q \in Nat /\ \A i \in 1..q : n.ports[i] \in ParsedPorts
  BY <1>1, LenProperties, ElementOfSeq
<1>3. /\ Writer(first) /\ first.opt = 1 + OsLen(n)
      /\ first.options = IF n.os = None THEN 0 ELSE 1
      /\ n.os # None => TextAt(first.mem, 1, [type |-> "OS"], n.os)
  BY WriteOs
<1>4. PICK e : /\ e[0] = first
               /\ \A i \in 1..q : e[i] = AddPort(e[i - 1], n.ports[i])
               /\ Thread(AddPort, first, n.ports) = e[q]
  <2> DEFINE ports == n.ports
  <2>1. Len(ports) = q /\ q \in Nat
    BY <1>2
  <2> HIDE DEF first, ports, q
  <2>2. PICK e : Steps(e, "port", first, ports, q) /\ Thread(AddPort, first, ports) = e[q]
    BY <2>1, PortThread, Zenon
  <2>3. e[0] = first /\ \A i \in 1..q : e[i] = AddPort(e[i - 1], ports[i])
    BY <2>2, Zenon DEF Steps, Do
  <2>. QED BY <2>2, <2>3, Zenon DEF ports
<1>5. f = AddUptime(e[q], n.uptime_seconds, n.uptime_last_boot)
  BY <1>4, Zenon DEF Options
<1> DEFINE U == [type |-> "UPTIME", seconds |-> n.uptime_seconds]
           u == IF n.uptime_seconds = None THEN 0 ELSE 1
           o == IF n.os = None THEN 0 ELSE 1
           pos == [j \in 0..q |-> e[j].opt]
<1> HIDE DEF first, f
<1>6. \A i \in 0..q :
        /\ Writer(e[i]) /\ e[i].options = first.options + i
        /\ first.opt <= e[i].opt /\ Kept(first, e[i].mem)
        /\ \A j \in 1..i : /\ e[j - 1].opt \in Nat \ {0}
                           /\ e[j].opt = e[j - 1].opt + PortLen(n.ports[j])
                           /\ e[j].opt <= e[i].opt
                           /\ PortAt(e[i].mem, e[j - 1].opt, n.ports[j])
  BY <1>1, <1>3, <1>4, WritePorts
<1>7. Writer(e[q]) /\ e[q].opt \in Nat \ {0} /\ e[q].options = o + q /\ first.opt <= e[q].opt
      /\ Kept(first, e[q].mem) /\ first.opt \in Nat \ {0}
  <2>1. q \in 0..q
    BY <1>2
  <2>2. Writer(e[q]) /\ e[q].options = first.options + q /\ first.opt <= e[q].opt
        /\ Kept(first, e[q].mem)
    BY <1>6, <2>1
  <2>. QED BY <1>3, <2>2, WriterTyped
<1>8. /\ Writer(f) /\ Kept(e[q], f.mem) /\ f.opt = e[q].opt + UptimeLen(n)
      /\ f.options = e[q].options + u
      /\ n.uptime_seconds # None => TextAt(f.mem, e[q].opt, U, n.uptime_last_boot)
  BY <1>5, <1>7, WriteUptime
<1>9. /\ f.mem \in Seq(Memory) /\ f.opt \in Nat \ {0} /\ Len(f.mem) \in Nat
      /\ UptimeLen(n) \in Nat /\ e[q].opt <= f.opt
  <2>1. UptimeLen(n) \in Nat
    BY <1>1, TextTyped DEF UptimeLen
  <2>2. f.mem \in Seq(Memory) /\ f.opt \in Nat \ {0} /\ Len(f.mem) \in Nat
    BY <1>8, WriterTyped
  <2>. QED BY <1>7, <1>8, <2>1, <2>2
<1>10. /\ \A j \in 0..q : pos[j] = e[j].opt /\ pos[j] \in Nat \ {0}
       /\ pos[q] = e[q].opt /\ pos[0] = first.opt
  <2>1. \A j \in 0..q : e[j].opt \in Nat \ {0}
    BY <1>6, WriterTyped
  <2>2. q \in 0..q /\ 0 \in 0..q
    BY <1>2
  <2>. QED BY <1>4, <2>1, <2>2
<1> HIDE DEF pos, U, u, o
<1>11. ASSUME NEW cells \in Seq(Memory), Kept(f, cells)
       PROVE  Encoded(cells, n, f.options, pos)
  <2>1. Len(cells) \in Nat
    BY LenProperties
  <2>2. Kept(e[q], cells)
    BY <1>7, <1>8, <1>9, <1>11, <2>1, KeptOn
  <2>3. Kept(first, cells)
    BY <1>7, <2>1, <2>2, KeptOn
  <2>4. n.os # None => TextAt(cells, 1, [type |-> "OS"], n.os)
    <3> SUFFICES ASSUME n.os # None
                 PROVE  TextAt(cells, 1, [type |-> "OS"], n.os)
      OBVIOUS
    <3>1. 1 + Len(Text(n.os)) + 2 <= first.opt /\ Len(Text(n.os)) \in Nat
      BY <1>1, <1>3, TextTyped DEF OsLen
    <3>2. TextAt(first.mem, 1, [type |-> "OS"], n.os)
      BY <1>3
    <3>3. first.opt \in Nat /\ 1 \in Nat \ {0}
      BY <1>7
    <3> DEFINE fixed == [type |-> "OS"]
    <3> HIDE DEF fixed
    <3>. QED BY <1>1, <2>1, <2>3, <3>1, <3>2, <3>3, KeptText DEF fixed
  <2>5. ASSUME NEW j \in 1..q
        PROVE  /\ pos[j] = pos[j - 1] + PortLen(n.ports[j])
               /\ PortAt(cells, pos[j - 1], n.ports[j])
    <3>1. q \in 0..q /\ j - 1 \in 0..q /\ j \in 0..q
      BY <1>2
    <3>2. /\ e[j - 1].opt \in Nat \ {0}
          /\ e[j].opt = e[j - 1].opt + PortLen(n.ports[j])
          /\ e[j].opt <= e[q].opt
          /\ PortAt(e[q].mem, e[j - 1].opt, n.ports[j])
      BY <1>6, <3>1
    <3>3. n.ports[j] \in ParsedPorts
      BY <1>2
    <3>4. PortAt(cells, e[j - 1].opt, n.ports[j])
      BY <1>7, <2>1, <2>2, <3>2, <3>3, KeptPort
    <3>. QED BY <1>10, <3>1, <3>2, <3>4
  <2>6. n.uptime_seconds # None => TextAt(cells, pos[q], U, n.uptime_last_boot)
    <3> SUFFICES ASSUME n.uptime_seconds # None
                 PROVE  TextAt(cells, pos[q], U, n.uptime_last_boot)
      OBVIOUS
    <3>1. TextAt(f.mem, e[q].opt, U, n.uptime_last_boot)
      BY <1>8
    <3>2. e[q].opt + Len(Text(n.uptime_last_boot)) + 2 <= f.opt
      <4>1. UptimeLen(n) = Len(Text(n.uptime_last_boot)) + 2
        BY DEF UptimeLen
      <4>2. Len(Text(n.uptime_last_boot)) \in Nat
        BY <1>1, TextTyped
      <4>. QED BY <1>7, <1>8, <1>9, <4>1, <4>2
    <3>3. f.opt \in Nat
      BY <1>9
    <3>. QED BY <1>1, <1>7, <1>10, <1>11, <2>1, <3>1, <3>2, <3>3, KeptText
  <2>7. f.options = o + q + u
    BY <1>7, <1>8
  <2>8. pos[0] = 1 + OsLen(n)
    BY <1>3, <1>10
  <2>. QED BY <1>10, <2>4, <2>5, <2>6, <2>7, <2>8 DEF Encoded, o, u, U
<1>12. f.opt = pos[q] + UptimeLen(n)
  BY <1>8, <1>10
<1>. QED BY <1>8, <1>11, <1>12 DEF f

-----------------------------------------------------------------------------
(* What the GUI reads. *)

(* The reader before an option, and what it has of the host so far           *)
Reader(mem, ptr, known, os, seconds, boot, ports) ==
  [mem |-> mem, ptr |-> ptr, services |-> known,
   os_data |-> [os |-> os, uptime_seconds |-> seconds, uptime_last_boot |-> boot,
                ports |-> ports]]

ReadPort(p) ==
  [id |-> p.id, protocol |-> p.protocol, state |-> p.state,
   name |-> Text(p.service), owner |-> Text(p.owner)]

(* The first i ports, the last one first *)
ReadPorts(n, i) == [k \in 1..i |-> ReadPort(n.ports[i + 1 - k])]

(* What a reply says of n *)
DataOf(n) ==
  [os |-> IF n.os = None THEN None ELSE Text(n.os),
   uptime_seconds |-> IF n.uptime_seconds = None THEN 0 ELSE n.uptime_seconds,
   uptime_last_boot |-> IF n.uptime_seconds = None \/ Text(n.uptime_last_boot) = <<>> THEN None
                        ELSE Text(n.uptime_last_boot),
   ports |-> ReadPorts(n, Len(n.ports))]

LEMMA TakeText ==
  ASSUME NEW mem \in Seq(Memory), NEW at \in Nat \ {0}, NEW fixed, NEW t \in Texts,
         TextAt(mem, at, fixed, t),
         NEW known, NEW os, NEW seconds, NEW boot, NEW ports, NEW x
  PROVE  LET g == Reader(mem, at, known, os, seconds, boot, ports)
             next == at + Len(Text(t)) + 2
         IN  /\ fixed = [type |-> "OS"] =>
                  TakeOption(g, x) = Reader(mem, next, known, Text(t), seconds, boot, ports)
             /\ \A s : fixed = [type |-> "UPTIME", seconds |-> s] =>
                  TakeOption(g, x) =
                    Reader(mem, next, known, os, s,
                           IF Text(t) = <<>> THEN boot ELSE Text(t), ports)
<1> DEFINE g == Reader(mem, at, known, os, seconds, boot, ports)
           len == Len(Text(t)) + 2
           next == [g EXCEPT !.ptr = @ + mem[at].length]
<1>1. /\ at \in DOMAIN mem
      /\ mem[at] = [is |-> "option", length |-> len, fixed |-> fixed]
  BY LenProperties DEF TextAt, OptionAt
<1>2. StringAt(mem, at + 1) = Text(t)
  BY StringFound DEF TextAt
<1>3. g.mem = mem /\ g.ptr = at
  BY DEF Reader
<1>4. at + len = at + Len(Text(t)) + 2
  BY TextTyped
<1>5. mem[at].is = "option" /\ mem[at].fixed = fixed /\ mem[at].length = len
  BY <1>1
<1>6. next = Reader(mem, at + len, known, os, seconds, boot, ports)
  <2> HIDE DEF len
  <2>. QED BY <1>5 DEF Reader
<1>7. ASSUME fixed = [type |-> "OS"]
      PROVE  TakeOption(g, x) = Reader(mem, at + len, known, Text(t), seconds, boot, ports)
  <2>1. fixed.type = "OS"
    BY <1>7
  <2>2. TakeOption(g, x) = [next EXCEPT !.os_data.os = Text(t)]
    <3> HIDE DEF g, next
    <3>1. TakeOption(g, x) = [[g EXCEPT !.ptr = @ + mem[at].length] EXCEPT !.os_data.os = Text(t)]
      BY <1>1, <1>2, <1>3, <1>5, <2>1 DEF TakeOption
    <3>. QED BY <3>1 DEF next
  <2> HIDE DEF next, g
  <2>. QED BY <1>6, <2>2 DEF Reader
<1>8. ASSUME NEW s, fixed = [type |-> "UPTIME", seconds |-> s]
      PROVE  TakeOption(g, x) =
               Reader(mem, at + len, known, os, s, IF Text(t) = <<>> THEN boot ELSE Text(t), ports)
  <2>1. fixed.type = "UPTIME" /\ fixed.seconds = s
    BY <1>8
  <2>2. TakeOption(g, x) = [next EXCEPT !.os_data.uptime_seconds = s,
                               !.os_data.uptime_last_boot = IF Text(t) = <<>> THEN @ ELSE Text(t)]
    <3> HIDE DEF g, next
    <3>. QED BY <1>1, <1>2, <1>3, <1>5, <2>1 DEF TakeOption, next
  <2> HIDE DEF next, g
  <2>. QED BY <1>6, <2>2 DEF Reader
<1>. QED BY <1>4, <1>7, <1>8

LEMMA TakePort ==
  ASSUME NEW mem \in Seq(Memory), NEW at \in Nat \ {0}, NEW p \in ParsedPorts,
         PortAt(mem, at, p),
         NEW known, NEW os, NEW seconds, NEW boot, NEW ports, NEW x
  PROVE  \E new : TakeOption(Reader(mem, at, known, os, seconds, boot, ports), x) =
                    Reader(mem, at + PortLen(p), new, os, seconds, boot,
                           <<ReadPort(p)>> \o ports)
<1> DEFINE g == Reader(mem, at, known, os, seconds, boot, ports)
           fixed == PortFixed(p)
           next == [g EXCEPT !.ptr = @ + mem[at].length]
           s == Text(p.service)
           key == [id |-> p.id, protocol |-> p.protocol]
           new == add_service(known, key, s)
<1>1. /\ at \in DOMAIN mem
      /\ mem[at] = [is |-> "option", length |-> PortLen(p), fixed |-> fixed]
  BY LenProperties DEF PortAt, OptionAt
<1>2. OwnerAt(p) = Len(s) + 2 /\ Len(s) \in Nat /\ p.service \in Texts /\ p.owner \in Texts
  BY OwnerAtFacts
<1>3. StringAt(mem, at + 1) = s
  BY <1>2, StringFound DEF PortAt
<1>4. StringAt(mem, at + 1 + Len(s) + 1) = Text(p.owner)
  <2>1. at + OwnerAt(p) = at + 1 + Len(s) + 1 /\ at + OwnerAt(p) \in Nat \ {0}
    BY <1>2
  <2>2. StringAt(mem, at + OwnerAt(p)) = Text(p.owner)
    BY <1>2, <2>1, StringFound DEF PortAt
  <2>. QED BY <2>1, <2>2
<1>5. mem[at].is = "option" /\ mem[at].fixed = fixed /\ mem[at].length = PortLen(p)
  BY <1>1
<1>6. g.mem = mem /\ g.ptr = at
  BY DEF Reader
<1>7. next = Reader(mem, at + PortLen(p), known, os, seconds, boot, ports)
  BY <1>5 DEF Reader
<1>8. /\ fixed.type = "PORT" /\ fixed.id = p.id /\ fixed.protocol = p.protocol
      /\ fixed.state = p.state /\ KeyOf(fixed) = key
  BY DEF PortFixed, KeyOf
<1> HIDE DEF s, fixed, key
<1>9. TakeOption(g, x) = [next EXCEPT !.os_data.ports = <<ReadPort(p)>> \o @,
                                      !.services = add_service(@, key, s)]
  <2>1. [id |-> fixed.id, protocol |-> fixed.protocol, state |-> fixed.state,
         name |-> s, owner |-> Text(p.owner)] = ReadPort(p)
    BY <1>8 DEF ReadPort, s
  <2> HIDE DEF g, next
  <2>2. TakeOption(g, x) =
          [next EXCEPT !.os_data.ports =
             <<[id |-> fixed.id, protocol |-> fixed.protocol, state |-> fixed.state,
                name |-> s, owner |-> Text(p.owner)]>> \o @,
             !.services = add_service(@, KeyOf(fixed), s)]
    BY <1>1, <1>3, <1>4, <1>5, <1>6, <1>8 DEF TakeOption, next
  <2>. QED BY <1>8, <2>1, <2>2
<1> HIDE DEF next, g
<1>10. TakeOption(g, x) =
         Reader(mem, at + PortLen(p), new, os, seconds, boot, <<ReadPort(p)>> \o ports)
  BY <1>7, <1>9 DEF Reader
<1>. QED BY <1>10 DEF g

LEMMA ReadPortsFacts ==
  ASSUME NEW n, n.ports \in Seq(ParsedPorts), NEW i \in 0..Len(n.ports)
  PROVE  /\ ReadPorts(n, 0) = <<>>
         /\ i > 0 => <<ReadPort(n.ports[i])>> \o ReadPorts(n, i - 1) = ReadPorts(n, i)
<1> DEFINE S == {ReadPort(n.ports[k]) : k \in 1..Len(n.ports)}
<1>1. Len(n.ports) \in Nat
  BY LenProperties
<1>2. ASSUME NEW j \in 0..Len(n.ports)
      PROVE  ReadPorts(n, j) \in Seq(S) /\ Len(ReadPorts(n, j)) = j
             /\ \A k \in 1..j : ReadPorts(n, j)[k] = ReadPort(n.ports[j + 1 - k])
  <2>1. j \in Nat
    BY <1>1
  <2>2. \A k \in 1..j : ReadPort(n.ports[j + 1 - k]) \in S
    <3>1. \A k \in 1..j : j + 1 - k \in 1..Len(n.ports)
      BY <1>1
    <3>. QED BY <3>1
  <2> HIDE DEF S
  <2>3. [k \in 1..j |-> ReadPort(n.ports[j + 1 - k])] \in Seq(S)
    BY <2>1, <2>2, IsASeq
  <2>4. ReadPorts(n, j) \in Seq(S) /\ DOMAIN ReadPorts(n, j) = 1..j
        /\ \A k \in 1..j : ReadPorts(n, j)[k] = ReadPort(n.ports[j + 1 - k])
    BY <2>3 DEF ReadPorts
  <2>5. Len(ReadPorts(n, j)) = j
    <3>1. Len(ReadPorts(n, j)) \in Nat /\ DOMAIN ReadPorts(n, j) = 1..Len(ReadPorts(n, j))
      BY <2>4, LenProperties
    <3>. QED BY <2>1, <2>4, <3>1
  <2>. QED BY <2>4, <2>5
<1>3. ReadPorts(n, 0) = <<>>
  <2>1. 0 \in 0..Len(n.ports)
    BY <1>1
  <2>2. ReadPorts(n, 0) \in Seq(S) /\ Len(ReadPorts(n, 0)) = 0
    BY <1>2, <2>1
  <2> HIDE DEF S
  <2>. QED BY <2>2, EmptySeq
<1>4. ASSUME i > 0
      PROVE  <<ReadPort(n.ports[i])>> \o ReadPorts(n, i - 1) = ReadPorts(n, i)
  <2> DEFINE a == <<ReadPort(n.ports[i])>>
             b == ReadPorts(n, i - 1)
             c == ReadPorts(n, i)
  <2>1. i - 1 \in 0..Len(n.ports) /\ i \in 1..Len(n.ports)
    BY <1>1, <1>4
  <2>2. a \in Seq(S) /\ Len(a) = 1 /\ a[1] = ReadPort(n.ports[i])
    BY <2>1
  <2>3. /\ b \in Seq(S) /\ Len(b) = i - 1
        /\ \A k \in 1..(i - 1) : b[k] = ReadPort(n.ports[i - 1 + 1 - k])
        /\ c \in Seq(S) /\ Len(c) = i
        /\ \A k \in 1..i : c[k] = ReadPort(n.ports[i + 1 - k])
    BY <1>2, <2>1
  <2> HIDE DEF S, a, b, c
  <2>4. /\ a \o b \in Seq(S) /\ Len(a \o b) = 1 + (i - 1)
        /\ \A k \in 1..(1 + (i - 1)) : (a \o b)[k] = IF k <= 1 THEN a[k] ELSE b[k - 1]
    <3>1. /\ a \o b \in Seq(S) /\ Len(a \o b) = Len(a) + Len(b)
          /\ \A k \in 1..Len(a) + Len(b) : (a \o b)[k] = IF k <= Len(a) THEN a[k] ELSE b[k - Len(a)]
      BY <2>2, <2>3, ConcatProperties, Zenon
    <3>. QED BY <2>2, <2>3, <3>1
  <2>5. 1 + (i - 1) = i
    OBVIOUS
  <2>6. ASSUME NEW k \in 1..i
        PROVE  (a \o b)[k] = c[k]
    <3>1. CASE k = 1
      <4>1. i + 1 - k = i
        BY <3>1
      <4>. QED BY <2>2, <2>3, <2>4, <2>5, <3>1, <4>1
    <3>2. CASE k # 1
      <4>1. k - 1 \in 1..(i - 1) /\ ~(k <= 1) /\ i - 1 + 1 - (k - 1) = i + 1 - k
        BY <3>2
      <4>. QED BY <2>3, <2>4, <2>5, <4>1
    <3>. QED BY <3>1, <3>2
  <2>7. a \o b = c
    BY <2>3, <2>4, <2>5, <2>6, SeqEqual
  <2>. QED BY <2>7 DEF a, b, c
<1>. QED BY <1>3, <1>4

(* handle_os_scan_reply gets what was encoded. *)
LEMMA ReplyRead ==
  ASSUME NEW n \in ParsedHosts, NEW mem \in Seq(Memory), NEW num, NEW pos,
         Encoded(mem, n, num, pos), NEW known
  PROVE  /\ num \in Nat
         /\ Thread(TakeOption, Reader(mem, 1, known, None, 0, None, <<>>), [i \in 1..num |-> i]).os_data
              = DataOf(n)
<1> DEFINE first == Reader(mem, 1, known, None, 0, None, <<>>)
           seq   == [i \in 1..num |-> i]
           q     == Len(n.ports)
           o     == IF n.os = None THEN 0 ELSE 1
           u     == IF n.uptime_seconds = None THEN 0 ELSE 1
           os    == IF n.os = None THEN None ELSE Text(n.os)
           U     == [type |-> "UPTIME", seconds |-> n.uptime_seconds]
<1>1. /\ n.ports \in Seq(ParsedPorts) /\ n.os \in Texts /\ n.uptime_last_boot \in Texts
      /\ q \in Nat /\ \A i \in 1..q : n.ports[i] \in ParsedPorts
  <2>1. /\ n.ports \in Seq(ParsedPorts) /\ n.os \in Texts /\ n.uptime_last_boot \in Texts
    BY DEF ParsedHosts
  <2>. QED BY <2>1, LenProperties, ElementOfSeq
<1>2. /\ \A j \in 0..q : pos[j] \in Nat \ {0}
      /\ pos[0] = 1 + OsLen(n)
      /\ n.os # None => TextAt(mem, 1, [type |-> "OS"], n.os)
      /\ \A j \in 1..q : /\ pos[j] = pos[j - 1] + PortLen(n.ports[j])
                         /\ PortAt(mem, pos[j - 1], n.ports[j])
      /\ n.uptime_seconds # None => TextAt(mem, pos[q], U, n.uptime_last_boot)
      /\ num = o + q + u
  BY DEF Encoded
<1>3. o \in {0, 1} /\ u \in {0, 1} /\ num \in Nat
  <2>1. o \in {0, 1} /\ u \in {0, 1}
    OBVIOUS
  <2> HIDE DEF o, u
  <2>. QED BY <1>1, <1>2, <2>1
<1>4. seq \in Seq(Nat) /\ Len(seq) = num /\ \A i \in 1..num : seq[i] = i
  <2>1. seq \in [1..num -> Nat] /\ DOMAIN seq = 1..num
    OBVIOUS
  <2>2. seq \in Seq(Nat)
    BY <1>3, <2>1
  <2>3. Len(seq) \in Nat /\ DOMAIN seq = 1..Len(seq)
    BY <2>2, LenProperties
  <2>. QED BY <1>3, <2>1, <2>2, <2>3
<1> HIDE DEF seq, first, o, u, os, U
<1>5. PICK d : /\ d[0] = first
               /\ \A i \in 1..num : d[i] = TakeOption(d[i - 1], seq[i])
               /\ Thread(TakeOption, first, seq) = d[num]
  <2>1. Len(seq) = num /\ Len(seq) \in Nat
    BY <1>3, <1>4
  <2>2. PICK d : Steps(d, "take", first, seq, num) /\ Thread(TakeOption, first, seq) = d[num]
    BY <1>3, <2>1, TakeThread, Zenon
  <2>3. d[0] = first /\ \A i \in 1..num : d[i] = TakeOption(d[i - 1], seq[i])
    BY <2>2, Zenon DEF Steps, Do
  <2>. QED BY <2>2, <2>3, Zenon
<1> DEFINE J(i) == \E s : d[o + i] = Reader(mem, pos[i], s, os, 0, None, ReadPorts(n, i))
           T == {i \in 0..q : J(i)}
<1>6. 0 \in T
  <2>1. ReadPorts(n, 0) = <<>>
    <3>1. 0 \in 0..q
      BY <1>1
    <3>. QED BY <1>1, <3>1, ReadPortsFacts
  <2>2. CASE n.os = None
    <3>1. o = 0 /\ os = None /\ pos[0] = 1
      BY <1>2, <2>2 DEF o, os, OsLen
    <3>2. d[o + 0] = Reader(mem, pos[0], known, os, 0, None, ReadPorts(n, 0))
      BY <1>5, <2>1, <3>1 DEF first
    <3>. QED BY <1>1, <3>2
  <2>3. CASE n.os # None
    <3>1. o = 1 /\ os = Text(n.os) /\ pos[0] = 1 + Len(Text(n.os)) + 2 /\ 1 \in 1..num
      <4>1. OsLen(n) = Len(Text(n.os)) + 2 /\ Len(Text(n.os)) \in Nat
        BY <1>1, <2>3, TextTyped DEF OsLen
      <4>2. o = 1 /\ os = Text(n.os)
        BY <2>3 DEF o, os
      <4>. QED BY <1>1, <1>2, <1>3, <4>1, <4>2
    <3>2. d[1] = TakeOption(first, seq[1])
      BY <1>5, <3>1
    <3> DEFINE fixed == [type |-> "OS"]
    <3>3. TakeOption(first, seq[1]) =
            Reader(mem, 1 + Len(Text(n.os)) + 2, known, Text(n.os), 0, None, <<>>)
      <4>1. 1 \in Nat \ {0} /\ TextAt(mem, 1, fixed, n.os) /\ fixed = [type |-> "OS"]
        BY <1>2, <2>3
      <4> HIDE DEF fixed
      <4>. QED BY <1>1, <4>1, TakeText DEF first
    <3>4. d[o + 0] = Reader(mem, pos[0], known, os, 0, None, ReadPorts(n, 0))
      BY <2>1, <3>1, <3>2, <3>3
    <3>. QED BY <1>1, <3>4
  <2>. QED BY <2>2, <2>3
<1>7. ASSUME NEW i \in 1..q, i - 1 \in T
      PROVE  i \in T
  <2>1. PICK s : d[o + (i - 1)] = Reader(mem, pos[i - 1], s, os, 0, None, ReadPorts(n, i - 1))
    BY <1>7
  <2>2. /\ o + i \in 1..num /\ (o + i) - 1 = o + (i - 1) /\ i - 1 \in 0..q /\ i \in 0..q /\ i > 0
    BY <1>1, <1>2, <1>3
  <2>3. d[o + i] = TakeOption(d[o + (i - 1)], seq[o + i])
    BY <1>5, <2>2
  <2>4. /\ n.ports[i] \in ParsedPorts /\ pos[i - 1] \in Nat \ {0}
        /\ PortAt(mem, pos[i - 1], n.ports[i]) /\ pos[i] = pos[i - 1] + PortLen(n.ports[i])
    BY <1>1, <1>2, <2>2
  <2>5. PICK new :
          TakeOption(d[o + (i - 1)], seq[o + i]) =
            Reader(mem, pos[i - 1] + PortLen(n.ports[i]), new, os, 0, None,
                   <<ReadPort(n.ports[i])>> \o ReadPorts(n, i - 1))
    <3> DEFINE mine == ReadPorts(n, i - 1)
               at == pos[i - 1]
               p == n.ports[i]
               x == seq[o + i]
    <3>1. p \in ParsedPorts /\ at \in Nat \ {0} /\ PortAt(mem, at, p)
      BY <2>4
    <3> HIDE DEF mine, at, p, x
    <3>2. \E new : TakeOption(Reader(mem, at, s, os, 0, None, mine), x) =
                     Reader(mem, at + PortLen(p), new, os, 0, None, <<ReadPort(p)>> \o mine)
      BY <3>1, TakePort, SMTT(40)
    <3>. QED BY <2>1, <3>2 DEF mine, at, p, x
  <2>6. <<ReadPort(n.ports[i])>> \o ReadPorts(n, i - 1) = ReadPorts(n, i)
    BY <1>1, <2>2, ReadPortsFacts
  <2>7. d[o + i] = Reader(mem, pos[i], new, os, 0, None, ReadPorts(n, i))
    BY <2>3, <2>4, <2>5, <2>6
  <2>8. J(i)
    BY <2>7
  <2> HIDE DEF J
  <2>. QED BY <2>2, <2>8
<1>8. q \in T
  <2>1. q \in 0..q
    BY <1>1
  <2> HIDE DEF T
  <2>. QED BY <1>1, <1>6, <1>7, <2>1, UpTo
<1>9. PICK s : d[o + q] = Reader(mem, pos[q], s, os, 0, None, ReadPorts(n, q))
  BY <1>8
<1>10. CASE n.uptime_seconds = None
  <2>1. num = o + q
    BY <1>1, <1>2, <1>3, <1>10 DEF u
  <2>2. d[num].os_data = [os |-> os, uptime_seconds |-> 0, uptime_last_boot |-> None,
                          ports |-> ReadPorts(n, q)]
    BY <1>9, <2>1 DEF Reader
  <2>. QED BY <1>3, <1>5, <1>10, <2>2 DEF DataOf, os, first, seq
<1>11. CASE n.uptime_seconds # None
  <2> DEFINE boot == Text(n.uptime_last_boot)
             data == [os |-> os, uptime_seconds |-> n.uptime_seconds,
                      uptime_last_boot |-> IF boot = <<>> THEN None ELSE boot,
                      ports |-> ReadPorts(n, q)]
  <2>1. num \in 1..num /\ num - 1 = o + q
    BY <1>1, <1>2, <1>3, <1>11 DEF u
  <2>2. d[num] = TakeOption(d[o + q], seq[num])
    BY <1>5, <2>1
  <2>3. pos[q] \in Nat \ {0} /\ TextAt(mem, pos[q], U, n.uptime_last_boot)
    <3>1. q \in 0..q
      BY <1>1
    <3>. QED BY <1>2, <1>11, <3>1
  <2>4. TakeOption(d[o + q], seq[num]) =
          Reader(mem, pos[q] + Len(Text(n.uptime_last_boot)) + 2, s, os, n.uptime_seconds,
                 IF boot = <<>> THEN None ELSE boot, ReadPorts(n, q))
    <3>1. U = [type |-> "UPTIME", seconds |-> n.uptime_seconds]
      BY DEF U
    <3>. QED BY <1>1, <1>9, <2>3, <3>1, TakeText
  <2>5. d[num].os_data = data
    BY <2>2, <2>4 DEF Reader
  <2>6. data = DataOf(n)
    BY <1>11 DEF DataOf, os
  <2>. QED BY <1>3, <1>5, <2>5, <2>6 DEF first, seq
<1>. QED BY <1>10, <1>11

-----------------------------------------------------------------------------
(* What the parser makes of a document. *)

LEMMA Greatest ==
  ASSUME NEW n \in Nat, NEW T, T \subseteq 1..n, T # {}
  PROVE  \E m \in T : \A k \in T : m >= k
<1> DEFINE B == {n - k : k \in T}
<1>1. B \subseteq Nat /\ B # {}
  <2>1. \A k \in T : k \in 1..n
    OBVIOUS
  <2>2. \A k \in T : n - k \in Nat
    BY <2>1
  <2>. QED BY <2>2
<1>2. PICK b \in B : \A c \in B : b <= c
  BY <1>1, LeastNat
<1>3. PICK m \in T : b = n - m
  BY <1>2
<1>4. ASSUME NEW k \in T
      PROVE  m >= k
  <2>1. n - m <= n - k
    BY <1>2, <1>3
  <2>2. m \in 1..n /\ k \in 1..n
    OBVIOUS
  <2>. QED BY <2>1, <2>2
<1>. QED BY <1>4

(* The last that is not None *)
LEMMA LastOfFacts ==
  ASSUME NEW S, NEW s \in Seq(S), NEW default
  PROVE  \/ /\ \A i \in 1..Len(s) : s[i] = None
            /\ LastOf(s, default) = default
         \/ \E i \in 1..Len(s) : /\ LastOf(s, default) = s[i] /\ s[i] # None /\ s[i] \in S
                                 /\ \A j \in 1..Len(s) : j > i => s[j] = None
<1> DEFINE has == {i \in DOMAIN s : s[i] # None}
<1>1. DOMAIN s = 1..Len(s) /\ Len(s) \in Nat
  BY LenProperties
<1>2. CASE has = {}
  BY <1>1, <1>2 DEF LastOf
<1>3. CASE has # {}
  <2>1. \E m \in has : \A k \in has : m >= k
    <3>1. has \subseteq 1..Len(s)
      BY <1>1
    <3> HIDE DEF has
    <3>. QED BY <1>1, <1>3, <3>1, Greatest
  <2> DEFINE m == Max(has)
  <2>2. m \in has /\ \A k \in has : m >= k
    <3> HIDE DEF has
    <3>. QED BY <2>1 DEF Max
  <2>3. LastOf(s, default) = s[m]
    BY <1>3 DEF LastOf
  <2> HIDE DEF m
  <2>4. ASSUME NEW j \in 1..Len(s), j > m
        PROVE  s[j] = None
    <3>1. m \in Nat
      BY <1>1, <2>2
    <3>2. j \notin has
      BY <2>2, <2>4, <3>1
    <3>. QED BY <1>1, <3>2
  <2>5. m \in 1..Len(s) /\ s[m] # None /\ s[m] \in S
    BY <1>1, <2>2, ElementOfSeq
  <2>. QED BY <2>3, <2>4, <2>5
<1>. QED BY <1>2, <1>3

LEMMA ReverseFacts ==
  ASSUME NEW S, NEW s \in Seq(S)
  PROVE  /\ Reverse(s) \in Seq(S) /\ Len(Reverse(s)) = Len(s)
         /\ \A k \in 1..Len(s) : /\ Len(s) + 1 - k \in 1..Len(s)
                                 /\ Reverse(s)[k] = s[Len(s) + 1 - k]
<1> DEFINE q == Len(s)
<1>1. q \in Nat /\ \A i \in 1..q : s[i] \in S
  BY LenProperties, ElementOfSeq
<1>2. \A k \in 1..q : q + 1 - k \in 1..q /\ (q - k) + 1 = q + 1 - k
  BY <1>1
<1>3. Reverse(s) = [i \in 1..q |-> s[(q - i) + 1]]
  BY DEF Reverse
<1> HIDE DEF q
<1>4. [i \in 1..q |-> s[(q - i) + 1]] \in Seq(S)
  <2>1. \A i \in 1..q : s[(q - i) + 1] \in S
    BY <1>1, <1>2
  <2>. QED BY <1>1, <2>1, IsASeq
<1>5. Len(Reverse(s)) = q
  <2>1. DOMAIN Reverse(s) = 1..q
    BY <1>3
  <2>2. Len(Reverse(s)) \in Nat /\ DOMAIN Reverse(s) = 1..Len(Reverse(s))
    BY <1>3, <1>4, LenProperties
  <2>. QED BY <1>1, <2>1, <2>2
<1>. QED BY <1>2, <1>3, <1>4, <1>5 DEF q

(* What the parser makes of the node of a host *)
HostOf(h) ==
  [addr |-> LastOf([i \in DOMAIN h.addrs |-> IPv4(h.addrs[i])], None),
   os |-> LastOf(h.matches, None),
   ports |-> Reverse([i \in DOMAIN h.ports |-> parseNmapScanPort(h.ports[i])]),
   uptime_seconds |-> IF h.uptime = None THEN None ELSE h.uptime.seconds,
   uptime_last_boot |-> IF h.uptime = None THEN None ELSE h.uptime.lastboot]

LEMMA PortParsed ==
  ASSUME NEW node \in PortNodes
  PROVE  /\ parseNmapScanPort(node) \in ParsedPorts
         /\ parseNmapScanPort(node) =
              [id |-> node.id, protocol |-> node.protocol,
               state |-> parseNmapScanPortState(node.state),
               service |-> node.service, owner |-> node.owner]
<1>1. parseNmapScanPortState(node.state) \in PortStates
  BY DEF parseNmapScanPortState, PortStates
<1>2. parseNmapScanPort(node) =
        [id |-> node.id, protocol |-> node.protocol,
         state |-> parseNmapScanPortState(node.state),
         service |-> node.service, owner |-> node.owner]
  BY DEF parseNmapScanPort, PortNodes
<1>. QED BY <1>1, <1>2 DEF ParsedPorts, PortNodes

LEMMA PortsParsed ==
  ASSUME NEW h \in HostNodes
  PROVE  /\ HostOf(h).ports \in Seq(ParsedPorts)
         /\ Len(HostOf(h).ports) = Len(h.ports) /\ Len(h.ports) \in Nat
         /\ \A k \in 1..Len(h.ports) :
              /\ Len(h.ports) + 1 - k \in 1..Len(h.ports)
              /\ h.ports[k] \in PortNodes
              /\ HostOf(h).ports[k] = parseNmapScanPort(h.ports[Len(h.ports) + 1 - k])
<1> DEFINE q == Len(h.ports)
           parsed == [i \in DOMAIN h.ports |-> parseNmapScanPort(h.ports[i])]
<1>1. q \in Nat /\ DOMAIN h.ports = 1..q /\ \A i \in 1..q : h.ports[i] \in PortNodes
  <2>1. h.ports \in Seq(PortNodes)
    BY DEF HostNodes
  <2>. QED BY <2>1, LenProperties, ElementOfSeq
<1>2. parsed = [i \in 1..q |-> parseNmapScanPort(h.ports[i])]
  BY <1>1
<1>3. HostOf(h).ports = Reverse(parsed)
  BY DEF HostOf
<1> HIDE DEF parsed
<1>4. parsed \in Seq(ParsedPorts) /\ Len(parsed) = q
  <2>1. \A i \in 1..q : parseNmapScanPort(h.ports[i]) \in ParsedPorts
    BY <1>1, PortParsed
  <2>2. parsed \in Seq(ParsedPorts)
    BY <1>1, <1>2, <2>1, IsASeq
  <2>3. DOMAIN parsed = 1..q /\ Len(parsed) \in Nat /\ DOMAIN parsed = 1..Len(parsed)
    BY <1>2, <2>2, LenProperties
  <2>. QED BY <1>1, <2>2, <2>3
<1>5. /\ Reverse(parsed) \in Seq(ParsedPorts) /\ Len(Reverse(parsed)) = q
      /\ \A k \in 1..q : /\ q + 1 - k \in 1..q
                         /\ Reverse(parsed)[k] = parsed[q + 1 - k]
  BY <1>4, ReverseFacts
<1>6. \A k \in 1..q : Reverse(parsed)[k] = parseNmapScanPort(h.ports[q + 1 - k])
  BY <1>2, <1>5
<1>. QED BY <1>1, <1>3, <1>5, <1>6

LEMMA HostParsed ==
  ASSUME NEW h \in HostNodes
  PROVE  parseNmapScanHost(Nothing, h) = HostOf(h) /\ HostOf(h) \in ParsedHosts
<1> DEFINE A == [i \in DOMAIN h.addrs |-> IPv4(h.addrs[i])]
           P == Reverse([i \in DOMAIN h.ports |-> parseNmapScanPort(h.ports[i])])
           addr == LastOf(A, None)
           os == LastOf(h.matches, None)
           n1 == parseNmapScanAddress(Nothing, h.addrs)
           n2 == parseNmapScanOS(n1, h.matches)
           n3 == parseNmapScanPorts(n2, h.ports)
<1>1. P \in Seq(ParsedPorts)
  BY PortsParsed DEF HostOf
<1>2. n1 = [addr |-> addr, os |-> None, ports |-> <<>>,
            uptime_seconds |-> None, uptime_last_boot |-> None]
  BY DEF parseNmapScanAddress, Nothing
<1> HIDE DEF A, addr, n1
<1>3. n2 = [addr |-> addr, os |-> os, ports |-> <<>>,
            uptime_seconds |-> None, uptime_last_boot |-> None]
  BY <1>2 DEF parseNmapScanOS
<1> HIDE DEF os, n2
<1>4. n3 = [addr |-> addr, os |-> os, ports |-> P,
            uptime_seconds |-> None, uptime_last_boot |-> None]
  <2>1. n3 = [n2 EXCEPT !.ports = P \o @]
    BY DEF parseNmapScanPorts
  <2> HIDE DEF P, n3
  <2>2. P \o <<>> = P
    BY <1>1, ConcatEmptySeq
  <2>. QED BY <1>3, <2>1, <2>2
<1> HIDE DEF P, n3
<1>5. parseNmapScanHost(Nothing, h) = parseNmapScanUptime(n3, h.uptime)
  BY DEF parseNmapScanHost, n3, n2, n1
<1>6. parseNmapScanUptime(n3, h.uptime) =
        [addr |-> addr, os |-> os, ports |-> P,
         uptime_seconds |-> IF h.uptime = None THEN None ELSE h.uptime.seconds,
         uptime_last_boot |-> IF h.uptime = None THEN None ELSE h.uptime.lastboot]
  <2>1. CASE h.uptime = None
    BY <1>4, <2>1 DEF parseNmapScanUptime
  <2>2. CASE h.uptime # None
    BY <1>4, <2>2 DEF parseNmapScanUptime
  <2>. QED BY <2>1, <2>2
<1>7. parseNmapScanHost(Nothing, h) = HostOf(h)
  BY <1>5, <1>6 DEF HostOf, addr, os, P, A
<1>8. addr \in {None} \union STRING
  <2>1. h.addrs \in Seq(AddrNodes)
    BY DEF HostNodes
  <2>2. Len(h.addrs) \in Nat /\ DOMAIN h.addrs = 1..Len(h.addrs)
        /\ \A i \in 1..Len(h.addrs) : h.addrs[i] \in AddrNodes
    BY <2>1, LenProperties, ElementOfSeq
  <2>3. \A i \in 1..Len(h.addrs) : IPv4(h.addrs[i]) \in {None} \union STRING
    BY <2>2 DEF IPv4, AddrNodes
  <2>4. [i \in 1..Len(h.addrs) |-> IPv4(h.addrs[i])] \in Seq({None} \union STRING)
    BY <2>2, <2>3, IsASeq
  <2>5. A \in Seq({None} \union STRING)
    BY <2>2, <2>4 DEF A
  <2>. QED BY <2>5, LastOfFacts DEF addr
<1>9. os \in Texts
  <2>1. h.matches \in Seq(Texts)
    BY DEF HostNodes
  <2>2. None \in Texts
    BY DEF Texts
  <2>. QED BY <2>1, <2>2, LastOfFacts DEF os
<1>10. h.uptime # None => h.uptime.seconds \in {None} \union Nat /\ h.uptime.lastboot \in Texts
  BY DEF HostNodes, UptimeNodes
<1>11. None \in Texts
  BY DEF Texts
<1>12. HostOf(h) \in ParsedHosts
  BY <1>1, <1>8, <1>9, <1>10, <1>11 DEF HostOf, ParsedHosts, addr, os, P, A
<1>. QED BY <1>7, <1>12

(* nmap_scan *)
LEMMA DocumentParsed ==
  ASSUME NEW doc \in Documents, nmap_scan(doc) # None
  PROVE  LET n == nmap_scan(doc)
             h == doc.hosts[1]
         IN  /\ n \in ParsedHosts
             /\ \/ doc.hosts = <<>> /\ n.addr = None
                \/ DOMAIN doc.hosts = {1} /\ h \in HostNodes /\ n = HostOf(h)
<1> DEFINE n == nmap_scan(doc)
           hosts == doc.hosts
<1>1. doc # None /\ n = Thread(parseNmapScanHost, Nothing, hosts)
  BY Zenon DEF nmap_scan, parseNmapScan
<1>2. hosts \in Seq(HostNodes) /\ Len(hosts) <= 1
  BY <1>1, ScanReportsAssumption
<1>3. Len(hosts) \in Nat /\ DOMAIN hosts = 1..Len(hosts)
  BY <1>2, LenProperties
<1> HIDE DEF n, hosts
<1>4. /\ Len(hosts) = 0 => n = Nothing
      /\ Len(hosts) = 1 => n = parseNmapScanHost(Nothing, hosts[1])
  BY <1>1, <1>3, OneHost
<1>5. CASE Len(hosts) = 0
  <2>1. n = Nothing
    BY <1>4, <1>5
  <2>2. hosts = <<>>
    BY <1>2, <1>5, EmptySeq
  <2>3. Nothing \in ParsedHosts /\ Nothing.addr = None
    <3>1. <<>> \in Seq(ParsedPorts) /\ None \in Texts
      BY EmptySeq DEF Texts
    <3>. QED BY <3>1 DEF Nothing, ParsedHosts
  <2>. QED BY <2>1, <2>2, <2>3 DEF n, hosts
<1>6. CASE Len(hosts) = 1
  <2>1. 1 \in 1..Len(hosts) /\ DOMAIN hosts = {1}
    BY <1>3, <1>6
  <2>2. n = parseNmapScanHost(Nothing, hosts[1])
    BY <1>4, <1>6
  <2>3. hosts[1] \in HostNodes
    BY <1>2, <2>1, ElementOfSeq
  <2>4. n = HostOf(hosts[1]) /\ HostOf(hosts[1]) \in ParsedHosts
    BY <2>2, <2>3, HostParsed
  <2>. QED BY <2>1, <2>3, <2>4 DEF n, hosts
<1>. QED BY <1>2, <1>3, <1>5, <1>6

(* Size is what the options take. *)
LEMMA SizeIsWritten ==
  ASSUME NEW h \in HostNodes, NEW mem \in Seq(Memory), Len(mem) = Room
  PROVE  Options(HostOf(h), mem).opt = Size(h) + 1 /\ Size(h) \in Nat
<1> DEFINE n == HostOf(h)
           q == Len(h.ports)
           m == Options(n, mem)
           R == Reverse(h.ports)
<1>1. n \in ParsedHosts
  BY HostParsed
<1>2. /\ n.ports \in Seq(ParsedPorts) /\ Len(n.ports) = q /\ q \in Nat
      /\ \A k \in 1..q : /\ q + 1 - k \in 1..q /\ h.ports[k] \in PortNodes
                         /\ n.ports[k] = parseNmapScanPort(h.ports[q + 1 - k])
  BY PortsParsed
<1>3. Len(R) = q /\ \A k \in 1..q : R[k] = h.ports[q + 1 - k]
  <2>1. h.ports \in Seq(PortNodes)
    BY DEF HostNodes
  <2>. QED BY <2>1, ReverseFacts
<1>4. \A k \in 1..q : PortLen(n.ports[k]) = Len(Text(R[k].service)) + Len(Text(R[k].owner)) + 3
                      /\ Len(Text(R[k].service)) \in Nat /\ Len(Text(R[k].owner)) \in Nat
  <2> SUFFICES ASSUME NEW k \in 1..q
               PROVE  PortLen(n.ports[k]) = Len(Text(R[k].service)) + Len(Text(R[k].owner)) + 3
                      /\ Len(Text(R[k].service)) \in Nat /\ Len(Text(R[k].owner)) \in Nat
    OBVIOUS
  <2>1. R[k] \in PortNodes /\ n.ports[k] = parseNmapScanPort(R[k])
    BY <1>2, <1>3
  <2> HIDE DEF n, R
  <2>2. n.ports[k].service = R[k].service /\ n.ports[k].owner = R[k].owner
        /\ n.ports[k] \in ParsedPorts
    BY <2>1, PortParsed
  <2>3. /\ Len(Text(n.ports[k].service)) \in Nat /\ Len(Text(n.ports[k].owner)) \in Nat
    BY <2>2, OwnerAtFacts
  <2>. QED BY <2>2, <2>3 DEF PortLen
<1> HIDE DEF n, R, m
<1>5. Writer(m) /\ \E pos : /\ m.opt = pos[Len(n.ports)] + UptimeLen(n)
                            /\ \A cells \in Seq(Memory) :
                                 Kept(m, cells) => Encoded(cells, n, m.options, pos)
  BY <1>1, OptionsEncoded DEF m
<1>6. PICK pos : m.opt = pos[q] + UptimeLen(n) /\ Encoded(m.mem, n, m.options, pos)
  <2>1. m.mem \in Seq(Memory) /\ Kept(m, m.mem)
    BY <1>5, WriterTyped
  <2>. QED BY <1>2, <1>5, <2>1
<1>7. pos[0] = 1 + OsLen(n) /\ \A j \in 1..q : pos[j] = pos[j - 1] + PortLen(n.ports[j])
  BY <1>2, <1>6 DEF Encoded
<1>8. PICK s : /\ s[0] = 0
               /\ \A i \in 1..q : s[i] = PlusPort(s[i - 1], R[i])
               /\ Thread(PlusPort, 0, R) = s[q]
  <2> HIDE DEF q
  <2>1. q \in Nat /\ Len(R) = q
    BY <1>2, <1>3
  <2>2. PICK s : Steps(s, "size", 0, R, q) /\ Thread(PlusPort, 0, R) = s[q]
    BY <2>1, SizeThread, Zenon
  <2>3. s[0] = 0 /\ \A i \in 1..q : s[i] = PlusPort(s[i - 1], R[i])
    BY <2>2, Zenon DEF Steps, Do
  <2>. QED BY <2>2, <2>3, Zenon
<1>9. OsLen(n) \in Nat /\ UptimeLen(n) \in Nat
  <2>1. n.os \in Texts /\ n.uptime_last_boot \in Texts
    BY <1>1 DEF ParsedHosts
  <2>2. Len(Text(n.os)) \in Nat /\ Len(Text(n.uptime_last_boot)) \in Nat
    BY <2>1, TextTyped
  <2>. QED BY <2>2 DEF OsLen, UptimeLen
<1> DEFINE T == {i \in 0..q : s[i] \in Nat /\ pos[i] = 1 + OsLen(n) + s[i]}
<1>10. 0 \in T
  BY <1>2, <1>7, <1>8, <1>9
<1>11. ASSUME NEW i \in 1..q, i - 1 \in T
       PROVE  i \in T
  <2> DEFINE a == Len(Text(R[i].service))
             b == Len(Text(R[i].owner))
  <2>1. s[i] = s[i - 1] + a + b + 3
    BY <1>8 DEF PlusPort
  <2>2. pos[i] = pos[i - 1] + (a + b + 3) /\ a \in Nat /\ b \in Nat
    BY <1>4, <1>7
  <2>3. s[i - 1] \in Nat /\ pos[i - 1] = 1 + OsLen(n) + s[i - 1]
    BY <1>11
  <2> HIDE DEF a, b
  <2>4. s[i] \in Nat /\ pos[i] = 1 + OsLen(n) + s[i]
    <3> DEFINE t == s[i - 1]
               o == OsLen(n)
    <3>1. /\ s[i] = t + a + b + 3 /\ pos[i] = (1 + o + t) + (a + b + 3)
          /\ t \in Nat /\ o \in Nat /\ a \in Nat /\ b \in Nat
      BY <1>9, <2>1, <2>2, <2>3
    <3> HIDE DEF t, o
    <3>2. t + a + b + 3 \in Nat /\ (1 + o + t) + (a + b + 3) = 1 + o + (t + a + b + 3)
      BY <3>1
    <3>3. s[i] \in Nat /\ pos[i] = 1 + o + s[i]
      BY <3>1, <3>2
    <3>. QED BY <3>3 DEF o
  <2>. QED BY <1>2, <2>4
<1>12. s[q] \in Nat /\ pos[q] = 1 + OsLen(n) + s[q]
  <2>1. q \in 0..q
    BY <1>2
  <2>2. \A i \in 0..q : i \in T
    <3> HIDE DEF T
    <3>. QED BY <1>2, <1>10, <1>11, UpTo
  <2>. QED BY <2>1, <2>2
<1>13. Size(h) = OsLen(n) + s[q] + UptimeLen(n)
  <2>1. n.os = LastOf(h.matches, None)
    BY DEF n, HostOf
  <2>2. (IF LastOf(h.matches, None) = None THEN 0 ELSE Len(LastOf(h.matches, None)) + 2) = OsLen(n)
    BY <2>1 DEF OsLen, Text
  <2>3. (IF Unknown(h.uptime) THEN 0 ELSE Len(Text(h.uptime.lastboot)) + 2) = UptimeLen(n)
    BY DEF UptimeLen, Unknown, n, HostOf
  <2>4. Size(h) =
          (IF LastOf(h.matches, None) = None THEN 0 ELSE Len(LastOf(h.matches, None)) + 2)
          + Thread(PlusPort, 0, R)
          + (IF Unknown(h.uptime) THEN 0 ELSE Len(Text(h.uptime.lastboot)) + 2)
    BY Zenon DEF Size, R
  <2>. QED BY <1>8, <2>2, <2>3, <2>4, Zenon
<1>14. Size(h) \in Nat
  BY <1>9, <1>12, <1>13
<1>15. m.opt = Size(h) + 1
  <2> DEFINE t == s[q]
             o == OsLen(n)
             u == UptimeLen(n)
  <2>1. /\ m.opt = (1 + o + t) + u /\ Size(h) = o + t + u
        /\ t \in Nat /\ o \in Nat /\ u \in Nat
    BY <1>6, <1>9, <1>12, <1>13
  <2> HIDE DEF t, o, u
  <2>2. (1 + o + t) + u = (o + t + u) + 1
    BY <2>1
  <2>. QED BY <2>1, <2>2
<1>. QED BY <1>14, <1>15 DEF m, n

-----------------------------------------------------------------------------
(* The inductive invariant. *)

HasHost(doc) == doc \in Documents /\ nmap_scan(doc) # None /\ nmap_scan(doc).addr # None

Titled(port) == IF port.state = "open" THEN [port EXCEPT !.name = MenuName(port)] ELSE port

(* What is shown of n *)
ShownOf(n) ==
  [DataOf(n) EXCEPT !.ports = IF menu THEN [i \in DOMAIN @ |-> Titled(@[i])] ELSE @]

(* Memory has the same length always, a reply holds the options of its       *)
(* document, and what is shown is what the options of the last reply said.   *)
ReportsInv ==
  /\ ebuf_os \in Seq(Memory) /\ Len(ebuf_os) = Room
  /\ menu \in BOOLEAN
  /\ reply # None =>
       /\ HasHost(reply.doc) /\ reply.cells \in Seq(Memory)
       /\ \E pos : Encoded(reply.cells, nmap_scan(reply.doc), reply.num_options, pos)
  /\ os_data # None => HasHost(printed) /\ os_data = ShownOf(nmap_scan(printed))
  /\ ReportBreaksOnlyWhere

LEMMA ReportsInitInv ==
  ASSUME ReportsInit
  PROVE  ReportsInv
<1>1. Room \in Nat /\ Nul \in Memory
  BY ScanReportsAssumption DEF Memory
<1>2. [i \in 1..Room |-> Nul] \in Seq(Memory)
  <2> HIDE DEF Memory
  <2>. QED BY <1>1, IsASeq
<1>3. ebuf_os \in Seq(Memory) /\ DOMAIN ebuf_os = 1..Room
  BY <1>2 DEF ReportsInit
<1>4. Len(ebuf_os) = Room
  <2>1. DOMAIN ebuf_os = 1..Len(ebuf_os) /\ Len(ebuf_os) \in Nat
    BY <1>3, LenProperties
  <2>. QED BY <1>1, <1>3, <2>1
<1>. QED BY <1>3, <1>4 DEF ReportsInit, ReportsInv, ReportBreaksOnlyWhere

LEMMA ScanStep ==
  ASSUME ReportsInv, dequeue_osscan
  PROVE  ReportsInv'
<1>1. PICK doc \in Documents :
        LET n == nmap_scan(doc)
            m == Options(n, ebuf_os)
        IN  /\ n # None
            /\ \/ /\ n.addr = None
                  /\ broken' = [how |-> "no address", doc |-> doc]
                  /\ UNCHANGED <<ebuf_os, reply>>
               \/ /\ n.addr # None /\ Len(m.mem) > Room
                  /\ broken' = [how |-> "overrun", doc |-> doc]
                  /\ UNCHANGED <<ebuf_os, reply>>
               \/ /\ n.addr # None /\ Len(m.mem) = Room
                  /\ ebuf_os' = m.mem
                  /\ reply' = [cells |-> SubSeq(m.mem, 1, m.opt - 1), num_options |-> m.options,
                               doc |-> doc]
                  /\ UNCHANGED broken
  BY Zenon DEF dequeue_osscan
<1> DEFINE n == nmap_scan(doc)
           m == Options(n, ebuf_os)
           h == doc.hosts[1]
<1>2. n \in ParsedHosts
      /\ \/ doc.hosts = <<>> /\ n.addr = None
         \/ DOMAIN doc.hosts = {1} /\ h \in HostNodes /\ n = HostOf(h)
  BY <1>1, DocumentParsed
<1>3. /\ ebuf_os \in Seq(Memory) /\ Len(ebuf_os) = Room /\ menu \in BOOLEAN
  BY DEF ReportsInv
<1> HIDE DEF n, m
<1>4. Writer(m) /\ \E pos : \A cells \in Seq(Memory) :
                              Kept(m, cells) => Encoded(cells, n, m.options, pos)
  BY <1>2, <1>3, OptionsEncoded DEF m
<1>5. UNCHANGED <<os_data, services, printed, menu>>
  BY DEF dequeue_osscan
<1>6. (os_data # None => HasHost(printed) /\ os_data = ShownOf(nmap_scan(printed)))'
  <2>1. os_data # None => HasHost(printed) /\ os_data = ShownOf(nmap_scan(printed))
    BY DEF ReportsInv
  <2>2. \A x : MenuName(x)' = MenuName(x)
    BY <1>5 DEF MenuName, get_service, KeyOf
  <2>3. \A x : Titled(x)' = Titled(x)
    BY <2>2 DEF Titled
  <2>4. \A x : ShownOf(x)' = ShownOf(x)
    BY <1>5, <2>3 DEF ShownOf
  <2>. QED BY <1>5, <2>1, <2>4 DEF HasHost
<1>7. CASE n.addr = None /\ broken' = [how |-> "no address", doc |-> doc]
           /\ UNCHANGED <<ebuf_os, reply>>
  <2>1. ASSUME NEW i \in DOMAIN doc.hosts, NEW a \in ToSet(doc.hosts[i].addrs)
        PROVE  a.addrtype # "ipv4" \/ a.addr = None
    <3>1. DOMAIN doc.hosts = {1} /\ h \in HostNodes /\ n = HostOf(h)
      <4>1. DOMAIN <<>> = {}
        OBVIOUS
      <4>. QED BY <1>2, <2>1, <4>1
    <3>2. i = 1
      BY <2>1, <3>1
    <3> DEFINE A == [k \in DOMAIN h.addrs |-> IPv4(h.addrs[k])]
    <3>3. h.addrs \in Seq(AddrNodes)
      BY <3>1 DEF HostNodes
    <3>4. PICK k \in DOMAIN h.addrs : a = h.addrs[k]
      BY <2>1, <3>2 DEF ToSet
    <3>5. DOMAIN h.addrs = 1..Len(h.addrs) /\ Len(h.addrs) \in Nat
      BY <3>3, LenProperties
    <3>6. A \in Seq({IPv4(h.addrs[j]) : j \in 1..Len(h.addrs)}) /\ Len(A) = Len(h.addrs)
      <4> DEFINE S == {IPv4(h.addrs[j]) : j \in 1..Len(h.addrs)}
      <4>1. \A j \in 1..Len(h.addrs) : IPv4(h.addrs[j]) \in S
        OBVIOUS
      <4> HIDE DEF S
      <4>2. [j \in 1..Len(h.addrs) |-> IPv4(h.addrs[j])] \in Seq(S)
        BY <3>5, <4>1, IsASeq
      <4>3. A \in Seq(S) /\ DOMAIN A = 1..Len(h.addrs)
        BY <3>5, <4>2
      <4>4. Len(A) \in Nat /\ DOMAIN A = 1..Len(A)
        BY <4>3, LenProperties
      <4>5. Len(A) = Len(h.addrs)
        BY <3>5, <4>3, <4>4
      <4>. QED BY <4>3, <4>5 DEF S
    <3>7. LastOf(A, None) = None
      <4>1. HostOf(h).addr = LastOf(A, None)
        BY DEF HostOf
      <4> HIDE DEF A
      <4>. QED BY <1>7, <3>1, <4>1
    <3>8. A[k] = IPv4(a)
      BY <3>4
    <3> HIDE DEF A
    <3>9. A[k] = None
      <4> DEFINE S == {IPv4(h.addrs[j]) : j \in 1..Len(h.addrs)}
                 l == Len(h.addrs)
      <4>1. A \in Seq(S) /\ Len(A) = l /\ k \in 1..l
        BY <3>4, <3>5, <3>6
      <4> HIDE DEF S, l
      <4>2. \/ \A j \in 1..Len(A) : A[j] = None
            \/ \E j \in 1..Len(A) : LastOf(A, None) = A[j] /\ A[j] # None
        BY <4>1, LastOfFacts
      <4>3. \A j \in 1..Len(A) : A[j] = None
        BY <3>7, <4>2
      <4>. QED BY <4>1, <4>3
    <3>. QED BY <3>8, <3>9 DEF IPv4
  <2>2. ReportBreaksOnlyWhere'
    BY <1>7, <2>1 DEF ReportBreaksOnlyWhere
  <2>3. (reply # None =>
          /\ HasHost(reply.doc) /\ reply.cells \in Seq(Memory)
          /\ \E pos : Encoded(reply.cells, nmap_scan(reply.doc), reply.num_options, pos))'
    BY <1>7 DEF ReportsInv, HasHost
  <2>. QED BY <1>3, <1>5, <1>6, <1>7, <2>2, <2>3 DEF ReportsInv
<1>8. CASE n.addr # None /\ Len(m.mem) > Room /\ broken' = [how |-> "overrun", doc |-> doc]
           /\ UNCHANGED <<ebuf_os, reply>>
  <2>1. h \in HostNodes /\ n = HostOf(h)
    BY <1>2, <1>8
  <2>2. m.opt = Size(h) + 1 /\ Size(h) \in Nat
    BY <1>3, <2>1, SizeIsWritten DEF m
  <2>3. Size(h) > Room
    <3>1. Len(m.mem) = IF m.opt - 1 > Room THEN m.opt - 1 ELSE Room
      BY <1>4 DEF Writer
    <3>2. Room \in Nat
      BY ScanReportsAssumption
    <3>3. m.opt - 1 > Room
      BY <1>8, <3>1, <3>2
    <3>. QED BY <2>2, <3>2, <3>3
  <2>4. ReportBreaksOnlyWhere'
    BY <1>8, <2>3 DEF ReportBreaksOnlyWhere
  <2>5. (reply # None =>
          /\ HasHost(reply.doc) /\ reply.cells \in Seq(Memory)
          /\ \E pos : Encoded(reply.cells, nmap_scan(reply.doc), reply.num_options, pos))'
    BY <1>8 DEF ReportsInv, HasHost
  <2>. QED BY <1>3, <1>5, <1>6, <1>8, <2>4, <2>5 DEF ReportsInv
<1>9. CASE /\ n.addr # None /\ Len(m.mem) = Room /\ ebuf_os' = m.mem
           /\ reply' = [cells |-> SubSeq(m.mem, 1, m.opt - 1), num_options |-> m.options,
                        doc |-> doc]
           /\ UNCHANGED broken
  <2> DEFINE cells == SubSeq(m.mem, 1, m.opt - 1)
  <2>1. m.mem \in Seq(Memory) /\ m.opt \in Nat \ {0} /\ m.opt - 1 <= Len(m.mem)
        /\ Len(m.mem) \in Nat
    BY <1>4, WriterTyped
  <2>2. cells \in Seq(Memory) /\ Kept(m, cells)
    <3>1. m.opt - 1 \in 0..Len(m.mem) /\ 1 \in 1..(Len(m.mem) + 1)
      BY <2>1
    <3>2. /\ cells \in Seq(Memory) /\ Len(cells) = m.opt - 1
          /\ \A i \in 1..(m.opt - 1) : cells[i] = m.mem[i]
      <4>1. m.opt - 1 \in Int /\ 1 <= m.opt /\ \A i \in 1..(m.opt - 1) : i \in 1..Len(m.mem)
        BY <2>1
      <4>2. cells = [i \in 1..(m.opt - 1) |-> m.mem[i]]
        BY <2>1, <4>1
      <4>3. \A i \in 1..(m.opt - 1) : m.mem[i] \in Memory
        BY <2>1, <4>1, ElementOfSeq
      <4>4. m.opt - 1 \in Nat
        BY <2>1
      <4> HIDE DEF cells
      <4>5. cells \in Seq(Memory)
        <5>1. [i \in 1..(m.opt - 1) |-> m.mem[i]] \in Seq(Memory)
          BY <4>3, <4>4, IsASeq
        <5>. QED BY <4>2, <5>1
      <4>6. DOMAIN cells = 1..(m.opt - 1) /\ Len(cells) \in Nat /\ DOMAIN cells = 1..Len(cells)
        BY <4>2, <4>5, LenProperties
      <4>7. Len(cells) = m.opt - 1
        BY <4>4, <4>6
      <4>. QED BY <4>2, <4>5, <4>7
    <3> HIDE DEF cells
    <3>. QED BY <2>1, <3>2 DEF Kept
  <2>3. \E pos : Encoded(cells, n, m.options, pos)
    BY <1>4, <2>2
  <2>4. reply'.doc = doc /\ reply'.cells = cells /\ reply'.num_options = m.options
    BY <1>9
  <2>5. HasHost(doc)
    BY <1>1, <1>9 DEF HasHost, n
  <2> HIDE DEF cells
  <2>6. (reply # None =>
          /\ HasHost(reply.doc) /\ reply.cells \in Seq(Memory)
          /\ \E pos : Encoded(reply.cells, nmap_scan(reply.doc), reply.num_options, pos))'
    BY <2>2, <2>3, <2>4, <2>5 DEF n, HasHost
  <2>7. ReportBreaksOnlyWhere'
    BY <1>9 DEF ReportsInv, ReportBreaksOnlyWhere
  <2>. QED BY <1>3, <1>5, <1>6, <1>9, <2>1, <2>6, <2>7 DEF ReportsInv
<1>. QED BY <1>1, <1>7, <1>8, <1>9 DEF n, m

(* What is shown after a reply, and after the menu was opened *)
LEMMA ShownNext ==
  ASSUME NEW n
  PROVE  /\ menu' = FALSE => ShownOf(n)' = DataOf(n)
         /\ menu' = TRUE /\ services' = services =>
              ShownOf(n)' = [DataOf(n) EXCEPT !.ports = [i \in DOMAIN @ |-> Titled(@[i])]]
<1>1. ASSUME menu' = FALSE
      PROVE  ShownOf(n)' = DataOf(n)
  <2>1. ShownOf(n)' = [DataOf(n) EXCEPT !.ports = @]
    BY <1>1 DEF ShownOf
  <2>2. [DataOf(n) EXCEPT !.ports = @] = DataOf(n)
    BY DEF DataOf
  <2>. QED BY <2>1, <2>2
<1>2. ASSUME menu' = TRUE, services' = services
      PROVE  ShownOf(n)' = [DataOf(n) EXCEPT !.ports = [i \in DOMAIN @ |-> Titled(@[i])]]
  <2>1. \A x : MenuName(x)' = MenuName(x)
    BY <1>2 DEF MenuName, get_service, KeyOf
  <2>2. \A x : Titled(x)' = Titled(x)
    BY <2>1 DEF Titled
  <2>3. ShownOf(n)' = [DataOf(n) EXCEPT !.ports = [i \in DOMAIN @ |-> Titled(@[i])']]
    BY <1>2 DEF ShownOf
  <2>. QED BY <2>2, <2>3
<1>. QED BY <1>1, <1>2

LEMMA ReplyStep ==
  ASSUME ReportsInv, handle_os_scan_reply
  PROVE  ReportsInv'
<1> DEFINE n     == nmap_scan(reply.doc)
           cells == reply.cells
           num   == reply.num_options
           first == Reader(cells, 1, services, None, 0, None, <<>>)
           seq   == [i \in 1..num |-> i]
<1>1. /\ HasHost(reply.doc) /\ cells \in Seq(Memory)
      /\ \E pos : Encoded(cells, n, num, pos)
  BY DEF ReportsInv, handle_os_scan_reply
<1>2. n \in ParsedHosts
  BY <1>1, DocumentParsed DEF HasHost
<1>3. os_data' = Thread(TakeOption, first, seq).os_data
  BY Zenon DEF handle_os_scan_reply, Reader
<1>4. printed' = reply.doc /\ menu' = FALSE /\ reply' = None /\ UNCHANGED <<ebuf_os, broken>>
  BY Zenon DEF handle_os_scan_reply
<1> HIDE DEF n, cells, num
<1>5. Thread(TakeOption, first, seq).os_data = DataOf(n)
  BY <1>1, <1>2, ReplyRead, Zenon
<1>6. os_data' = DataOf(n)
  BY <1>3, <1>5, Zenon
<1>7. (os_data # None => HasHost(printed) /\ os_data = ShownOf(nmap_scan(printed)))'
  <2>1. nmap_scan(printed)' = n
    BY <1>4 DEF n
  <2>2. HasHost(printed)'
    BY <1>1, <1>4 DEF HasHost
  <2>3. PICK c : c = n
    OBVIOUS
  <2>4. ShownOf(c)' = DataOf(c)
    BY <1>4, ShownNext
  <2>5. ShownOf(nmap_scan(printed))' = ShownOf(c)'
    <3>1. nmap_scan(printed)' = c
      BY <2>1, <2>3
    <3>. QED BY <3>1 DEF ShownOf
  <2>. QED BY <1>6, <2>2, <2>3, <2>4, <2>5
<1>. QED BY <1>4, <1>7 DEF ReportsInv, ReportBreaksOnlyWhere

LEMMA TitledTwice ==
  ASSUME NEW p
  PROVE  Titled(Titled(ReadPort(p))) = Titled(ReadPort(p))
<1> DEFINE r == ReadPort(p)
           t == Titled(r)
<1>1. CASE r.state # "open"
  BY <1>1 DEF Titled
<1>2. CASE r.state = "open"
  <2> DEFINE name == MenuName(r)
  <2>1. t = [r EXCEPT !.name = name]
    BY <1>2 DEF Titled
  <2>2. /\ t.id = r.id /\ t.protocol = r.protocol /\ t.state = "open"
        /\ [t EXCEPT !.name = name] = t
    <3> HIDE DEF name
    <3>. QED BY <1>2, <2>1 DEF ReadPort
  <2>3. MenuName(t) = name
    <3>1. KeyOf(t) = KeyOf(r)
      BY <2>2 DEF KeyOf
    <3> HIDE DEF t, r
    <3>. QED BY <2>2, <3>1 DEF MenuName
  <2> HIDE DEF t, name
  <2>4. Titled(t) = t
    BY <2>2, <2>3 DEF Titled
  <2>. QED BY <2>4 DEF t
<1>. QED BY <1>1, <1>2

LEMMA MenuStep ==
  ASSUME ReportsInv, page_object_menu
  PROVE  ReportsInv'
<1> DEFINE n == nmap_scan(printed)
           q == Len(n.ports)
           R == ReadPorts(n, q)
           V == [i \in DOMAIN os_data.ports |-> Titled(os_data.ports[i])]
           W == [i \in 1..q |-> Titled(R[i])]
<1>1. HasHost(printed) /\ os_data = ShownOf(n) /\ menu \in BOOLEAN
  BY DEF ReportsInv, page_object_menu
<1>2. os_data' = [os_data EXCEPT !.ports = V]
      /\ menu' = TRUE /\ UNCHANGED <<ebuf_os, reply, services, printed, broken>>
  BY Zenon DEF page_object_menu, Titled
<1>3. DOMAIN R = 1..q /\ \A i \in 1..q : \E p : R[i] = ReadPort(p)
  BY DEF ReadPorts
<1>4. DataOf(n).ports = R
  BY DEF DataOf
<1> HIDE DEF R
<1>5. os_data.ports = IF menu THEN W ELSE R
  <2>1. ShownOf(n).ports = IF menu THEN [i \in DOMAIN R |-> Titled(R[i])] ELSE R
    <3>1. "ports" \in DOMAIN DataOf(n)
      BY DEF DataOf
    <3> HIDE DEF n
    <3>. QED BY <1>4, <3>1 DEF ShownOf
  <2>. QED BY <1>1, <1>3, <2>1, Zenon
<1>6. V = W
  <2>1. \A i \in 1..q : Titled(Titled(R[i])) = Titled(R[i])
    BY <1>3, TitledTwice
  <2>2. CASE menu
    <3>1. os_data.ports = W /\ DOMAIN os_data.ports = 1..q
      BY <1>5, <2>2
    <3>2. \A i \in 1..q : Titled(os_data.ports[i]) = Titled(R[i])
      BY <2>1, <3>1
    <3>. QED BY <3>1, <3>2
  <2>3. CASE ~menu
    BY <1>3, <1>5, <2>3
  <2>. QED BY <2>2, <2>3
<1>7. nmap_scan(printed)' = n
  BY <1>2
<1>8. (os_data # None => HasHost(printed) /\ os_data = ShownOf(nmap_scan(printed)))'
  <2>0. PICK c : c = n
    OBVIOUS
  <2>1. ShownOf(nmap_scan(printed))' = [DataOf(n) EXCEPT !.ports = W]
    <3>1. ShownOf(c)' = [DataOf(c) EXCEPT !.ports = [i \in DOMAIN @ |-> Titled(@[i])]]
      BY <1>2, ShownNext
    <3>2. nmap_scan(printed)' = c
      BY <1>7, <2>0
    <3>3. ShownOf(nmap_scan(printed))' = ShownOf(c)'
      BY <3>2 DEF ShownOf
    <3>4. [DataOf(c) EXCEPT !.ports = [i \in DOMAIN @ |-> Titled(@[i])]]
            = [DataOf(n) EXCEPT !.ports = W]
      <4> HIDE DEF n
      <4>. QED BY <1>3, <1>4, <2>0
    <3>. QED BY <3>1, <3>3, <3>4
  <2>2. [os_data EXCEPT !.ports = W] = [DataOf(n) EXCEPT !.ports = W]
    BY <1>1 DEF ShownOf, DataOf
  <2>3. HasHost(printed)'
    BY <1>1, <1>2 DEF HasHost
  <2>. QED BY <1>2, <1>6, <2>1, <2>2, <2>3
<1>9. (reply # None =>
        /\ HasHost(reply.doc) /\ reply.cells \in Seq(Memory)
        /\ \E pos : Encoded(reply.cells, nmap_scan(reply.doc), reply.num_options, pos))'
  BY <1>2 DEF ReportsInv, HasHost
<1>. QED BY <1>2, <1>8, <1>9 DEF ReportsInv, ReportBreaksOnlyWhere

LEMMA InvIsShown ==
  ASSUME ReportsInv
  PROVE  ReportIsShown
<1> SUFFICES ASSUME os_data # None
             PROVE  ReportIsShown
  BY DEF ReportIsShown
<1> DEFINE n == nmap_scan(printed)
           host == printed.hosts[1]
           q == Len(host.ports)
           R == ReadPorts(n, Len(n.ports))
<1>1. HasHost(printed) /\ os_data = ShownOf(n) /\ menu \in BOOLEAN
  BY DEF ReportsInv
<1>2. n \in ParsedHosts /\ host \in HostNodes /\ n = HostOf(host)
  BY <1>1, DocumentParsed DEF HasHost
<1>3. host.matches \in Seq(Texts) /\ host.ports \in Seq(PortNodes)
  BY <1>2 DEF HostNodes
<1> HIDE DEF n, host
<1>4. /\ os_data.os = IF n.os = None THEN None ELSE Text(n.os)
      /\ os_data.uptime_seconds = IF n.uptime_seconds = None THEN 0 ELSE n.uptime_seconds
      /\ os_data.uptime_last_boot =
           IF n.uptime_seconds = None \/ Text(n.uptime_last_boot) = <<>> THEN None
           ELSE Text(n.uptime_last_boot)
      /\ os_data.ports = IF menu THEN [i \in DOMAIN R |-> Titled(R[i])] ELSE R
  BY <1>1 DEF ShownOf, DataOf
<1>5. IF ToSet(host.matches) \subseteq {None} THEN os_data.os = None
      ELSE \E i \in DOMAIN host.matches :
             /\ os_data.os = host.matches[i] /\ os_data.os # None
             /\ \A j \in DOMAIN host.matches : j > i => host.matches[j] = None
  <2> DEFINE s == host.matches
  <2>1. DOMAIN s = 1..Len(s) /\ ToSet(s) = {s[i] : i \in 1..Len(s)}
    BY <1>3, LenProperties DEF ToSet
  <2>2. n.os = LastOf(s, None)
    BY <1>2 DEF HostOf
  <2>3. os_data.os = n.os
    BY <1>4 DEF Text
  <2>4. s \in Seq(Texts)
    BY <1>3
  <2> HIDE DEF s
  <2>5. \/ /\ \A i \in 1..Len(s) : s[i] = None
           /\ n.os = None
        \/ \E i \in 1..Len(s) : /\ n.os = s[i] /\ s[i] # None
                                /\ \A j \in 1..Len(s) : j > i => s[j] = None
    BY <2>2, <2>4, LastOfFacts
  <2>6. CASE /\ \A i \in 1..Len(s) : s[i] = None
             /\ n.os = None
    <3>1. ToSet(s) \subseteq {None}
      BY <2>1, <2>6
    <3>. QED BY <2>3, <2>6, <3>1 DEF s
  <2>7. CASE \E i \in 1..Len(s) : /\ n.os = s[i] /\ s[i] # None
                                  /\ \A j \in 1..Len(s) : j > i => s[j] = None
    <3>1. PICK i \in 1..Len(s) : /\ n.os = s[i] /\ s[i] # None
                                 /\ \A j \in 1..Len(s) : j > i => s[j] = None
      BY <2>7
    <3>2. ~(ToSet(s) \subseteq {None})
      BY <2>1, <3>1
    <3>. QED BY <2>1, <2>3, <3>1, <3>2 DEF s
  <2>. QED BY <2>5, <2>6, <2>7
<1>6. IF Unknown(host.uptime)
      THEN os_data.uptime_seconds = 0 /\ os_data.uptime_last_boot = None
      ELSE /\ os_data.uptime_seconds = host.uptime.seconds
           /\ Text(os_data.uptime_last_boot) = Text(host.uptime.lastboot)
  <2>1. /\ n.uptime_seconds = IF host.uptime = None THEN None ELSE host.uptime.seconds
        /\ n.uptime_last_boot = IF host.uptime = None THEN None ELSE host.uptime.lastboot
    BY <1>2 DEF HostOf
  <2>2. Unknown(host.uptime) <=> n.uptime_seconds = None
    BY <2>1 DEF Unknown
  <2>. QED BY <1>4, <2>1, <2>2 DEF Unknown, Text
<1>7. /\ Len(n.ports) = q /\ q \in Nat /\ DOMAIN host.ports = 1..q
      /\ \A k \in 1..q : /\ q + 1 - k \in 1..q /\ host.ports[k] \in PortNodes
                         /\ n.ports[k] = parseNmapScanPort(host.ports[q + 1 - k])
  <2>1. DOMAIN host.ports = 1..q
    BY <1>3, LenProperties
  <2>. QED BY <1>2, <2>1, PortsParsed
<1>8. \A k \in 1..q : R[k] = ReadPort(parseNmapScanPort(host.ports[k]))
  <2>1. \A k \in 1..q : R[k] = ReadPort(n.ports[q + 1 - k])
    BY <1>7 DEF ReadPorts
  <2>2. \A k \in 1..q : q + 1 - (q + 1 - k) = k
    BY <1>7
  <2> HIDE DEF q, R
  <2>. QED BY <1>7, <2>1, <2>2
<1>9. DOMAIN R = 1..q
  BY <1>7 DEF ReadPorts
<1>10. Len(os_data.ports) = q
  <2> DEFINE S == {os_data.ports[k] : k \in 1..q}
  <2>1. os_data.ports = [k \in 1..q |-> os_data.ports[k]]
    <3>1. R = [k \in 1..q |-> R[k]]
      BY <1>7 DEF ReadPorts
    <3> HIDE DEF R, q
    <3>. QED BY <1>1, <1>4, <1>9, <3>1
  <2>2. \A k \in 1..q : os_data.ports[k] \in S
    OBVIOUS
  <2> HIDE DEF S, R, q
  <2>3. [k \in 1..q |-> os_data.ports[k]] \in Seq(S)
    BY <1>7, <2>2, IsASeq
  <2>4. os_data.ports \in Seq(S) /\ DOMAIN os_data.ports = 1..q
    BY <2>1, <2>3
  <2>5. Len(os_data.ports) \in Nat /\ DOMAIN os_data.ports = 1..Len(os_data.ports)
    BY <2>4, LenProperties
  <2>. QED BY <1>7, <2>4, <2>5
<1> HIDE DEF R
<1>11. ASSUME NEW i \in DOMAIN host.ports
       PROVE  LET node  == host.ports[i]
                  shown == os_data.ports[i]
              IN  /\ KeyOf(shown) = KeyOf(node)
                  /\ shown.state = IF node.state \in {"open", "closed", "filtered"} THEN node.state
                                   ELSE "unknown"
                  /\ shown.name = IF menu /\ node.state = "open" THEN MenuName(node)
                                  ELSE Text(node.service)
                  /\ shown.owner = Text(node.owner)
  <2> DEFINE node == host.ports[i]
             shown == os_data.ports[i]
             read == ReadPort(parseNmapScanPort(node))
  <2>1. node \in PortNodes /\ i \in 1..q
    BY <1>7
  <2>2. shown = IF menu THEN Titled(read) ELSE read
    BY <1>1, <1>4, <1>8, <1>9, <2>1
  <2>3. read = [id |-> node.id, protocol |-> node.protocol,
                state |-> parseNmapScanPortState(node.state),
                name |-> Text(node.service), owner |-> Text(node.owner)]
    BY <2>1, PortParsed DEF ReadPort
  <2>4. node.state # "UNfilitered"
    BY <2>1 DEF PortNodes
  <2> HIDE DEF read, node, shown
  <2>5. /\ read.id = node.id /\ read.protocol = node.protocol
        /\ read.name = Text(node.service) /\ read.owner = Text(node.owner)
        /\ read.state = parseNmapScanPortState(node.state)
    BY <2>3
  <2>6. /\ read.state = IF node.state \in {"open", "closed", "filtered"} THEN node.state
                        ELSE "unknown"
        /\ read.state = "open" <=> node.state = "open"
    BY <2>4, <2>5 DEF parseNmapScanPortState
  <2>7. KeyOf(read) = KeyOf(node) /\ MenuName(read) = MenuName(node)
    BY <2>5 DEF KeyOf, MenuName
  <2>8. CASE menu /\ read.state = "open"
    <3> DEFINE name == MenuName(node)
    <3>1. shown = [read EXCEPT !.name = name]
      BY <2>2, <2>7, <2>8 DEF Titled
    <3> HIDE DEF name
    <3>2. /\ shown.id = read.id /\ shown.protocol = read.protocol /\ shown.state = read.state
          /\ shown.owner = read.owner /\ shown.name = name
      BY <2>3, <3>1
    <3>3. KeyOf(shown) = KeyOf(node)
      BY <2>5, <3>2 DEF KeyOf
    <3>. QED BY <2>5, <2>6, <2>8, <3>2, <3>3 DEF name, node, shown
  <2>9. CASE ~(menu /\ read.state = "open")
    <3>1. shown = read
      BY <2>2, <2>9 DEF Titled
    <3>. QED BY <2>5, <2>6, <2>7, <2>9, <3>1 DEF node, shown
  <2>. QED BY <2>8, <2>9
<1>. QED BY <1>5, <1>6, <1>10, <1>11 DEF ReportIsShown, host

(* ReportsAreTrue: whatever nmap prints of a host reaches the GUI as it was  *)
(* printed (send_osscan_reply, handle_os_scan_reply), and the agent goes     *)
(* wrong over two kinds of documents only.                                   *)
THEOREM ReportsAreTrueAlways == ReportsSpec => []ReportsAreTrue
<1>1. ReportsInit => ReportsInv
  BY ReportsInitInv
<1>2. ReportsInv /\ [ReportsNext]_reportsVars => ReportsInv'
  <2> SUFFICES ASSUME ReportsInv, [ReportsNext]_reportsVars
               PROVE  ReportsInv'
    OBVIOUS
  <2>1. CASE dequeue_osscan
    BY <2>1, ScanStep
  <2>2. CASE handle_os_scan_reply
    BY <2>2, ReplyStep
  <2>3. CASE page_object_menu
    BY <2>3, MenuStep
  <2>4. CASE UNCHANGED reportsVars
    <3> USE <2>4 DEF reportsVars
    <3>1. (reply # None =>
            /\ HasHost(reply.doc) /\ reply.cells \in Seq(Memory)
            /\ \E pos : Encoded(reply.cells, nmap_scan(reply.doc), reply.num_options, pos))'
      BY DEF ReportsInv, HasHost
    <3>2. \A x : ShownOf(x)' = ShownOf(x)
      <4>1. \A x : MenuName(x)' = MenuName(x)
        BY DEF MenuName, get_service, KeyOf
      <4>2. \A x : Titled(x)' = Titled(x)
        BY <4>1 DEF Titled
      <4>. QED BY <4>2 DEF ShownOf
    <3>3. (os_data # None => HasHost(printed) /\ os_data = ShownOf(nmap_scan(printed)))'
      BY <3>2 DEF ReportsInv, HasHost
    <3>. QED BY <3>1, <3>3 DEF ReportsInv, ReportBreaksOnlyWhere
  <2>. QED BY <2>1, <2>2, <2>3, <2>4 DEF ReportsNext
<1>3. ReportsInv => ReportsAreTrue
  BY InvIsShown DEF ReportsAreTrue, ReportsInv
<1>. QED BY <1>1, <1>2, <1>3, PTL DEF ReportsSpec
=============================================================================
