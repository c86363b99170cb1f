--------------------------- MODULE MainLoopProofs ---------------------------
(***************************************************************************)
(* Proofs about the two halves of the agent's main loop.  Sched, for every  *)
(* scale of time, every set of delays and every bound: the queue stays      *)
(* ordered, and an event id names one event.  IoTable, for any number of    *)
(* owners and any address that malloc() returns: an id leads to its owner's *)
(* entry, and the arrays are large enough.                                  *)
(***************************************************************************)
EXTENDS Sched, IoTable, SequenceTheorems, TLAPS

(* What InsertAt and RemoveAt do to a sequence, element by element.         *)

(* Inserting e at place k shifts the elements from k on by one. *)
LEMMA InsertAtProperties ==
  ASSUME NEW S, NEW q \in Seq(S), NEW k \in 1..(Len(q) + 1), NEW e \in S
  PROVE  /\ InsertAt(q, k, e) \in Seq(S)
         /\ Len(InsertAt(q, k, e)) = Len(q) + 1
         /\ \A i \in 1..(Len(q) + 1) :
              InsertAt(q, k, e)[i] = IF i < k THEN q[i] ELSE IF i = k THEN e ELSE q[i - 1]
<1> DEFINE a == SubSeq(q, 1, k - 1)
           b == SubSeq(q, k, Len(q))
<1>1. Len(q) \in Nat /\ k \in Nat
  BY LenProperties
<1>2. /\ a \in Seq(S) /\ Len(a) = k - 1
      /\ \A i \in 1..(k - 1) : a[i] = q[i]
  BY <1>1, SubSeqProperties
<1>3. /\ b \in Seq(S) /\ Len(b) = Len(q) + 1 - k
      /\ \A i \in 1..(Len(q) + 1 - k) : b[i] = q[k + i - 1]
  BY <1>1, SubSeqProperties
<1>4. /\ <<e>> \in Seq(S) /\ Len(<<e>>) = 1 /\ <<e>>[1] = e
  OBVIOUS
<1> DEFINE c == a \o <<e>>
<1>5. /\ c \in Seq(S) /\ Len(c) = k
      /\ \A i \in 1..k : c[i] = IF i < k THEN q[i] ELSE e
  BY <1>1, <1>2, <1>4, ConcatProperties
<1> HIDE DEF a, b, c
<1>6. InsertAt(q, k, e) = c \o b
  BY DEF InsertAt, a, b, c
<1>7. /\ c \o b \in Seq(S) /\ Len(c \o b) = Len(q) + 1
      /\ \A i \in 1..(Len(q) + 1) : (c \o b)[i] = IF i <= k THEN c[i] ELSE b[i - k]
  <2>1. Len(c) + Len(b) = Len(q) + 1
    BY <1>1, <1>3, <1>5
  <2>2. /\ c \o b \in Seq(S) /\ Len(c \o b) = Len(c) + Len(b)
        /\ \A i \in 1..(Len(c) + Len(b)) :
             (c \o b)[i] = IF i <= Len(c) THEN c[i] ELSE b[i - Len(c)]
    BY <1>3, <1>5, ConcatProperties
  <2>. QED BY <1>5, <2>1, <2>2, Zenon
<1>8. ASSUME NEW i \in 1..(Len(q) + 1)
      PROVE (c \o b)[i] = IF i < k THEN q[i] ELSE IF i = k THEN e ELSE q[i - 1]
  <2>1. CASE i <= k
    BY <1>1, <1>5, <1>7, <2>1
  <2>2. CASE i > k
    <3>1. i - k \in 1..(Len(q) + 1 - k) /\ k + (i - k) - 1 = i - 1
      BY <1>1, <2>2
    <3>2. b[i - k] = q[i - 1]
      BY <1>3, <3>1
    <3>. QED BY <1>1, <1>7, <2>2, <3>2
  <2>3. i <= k \/ i > k
    BY <1>1
  <2>. QED BY <2>1, <2>2, <2>3, Zenon
<1>. QED BY <1>6, <1>7, <1>8

(* Removing place k shifts the elements after k down by one. *)
LEMMA RemoveAtProperties ==
  ASSUME NEW S, NEW q \in Seq(S), NEW k \in 1..Len(q)
  PROVE  /\ RemoveAt(q, k) \in Seq(S)
         /\ Len(RemoveAt(q, k)) = Len(q) - 1
         /\ \A i \in 1..(Len(q) - 1) :
              RemoveAt(q, k)[i] = IF i < k THEN q[i] ELSE q[i + 1]
<1> DEFINE a == SubSeq(q, 1, k - 1)
           b == SubSeq(q, k + 1, Len(q))
<1>1. Len(q) \in Nat /\ k \in Nat
  BY LenProperties
<1>2. /\ a \in Seq(S) /\ Len(a) = k - 1
      /\ \A i \in 1..(k - 1) : a[i] = q[i]
  BY <1>1, SubSeqProperties
<1>3. /\ b \in Seq(S) /\ Len(b) = Len(q) - k
      /\ \A i \in 1..(Len(q) - k) : b[i] = q[k + i]
  BY <1>1, SubSeqProperties
<1> HIDE DEF a, b
<1>4. RemoveAt(q, k) = a \o b
  BY DEF RemoveAt, a, b
<1>5. /\ a \o b \in Seq(S) /\ Len(a \o b) = Len(q) - 1
      /\ \A i \in 1..(Len(q) - 1) : (a \o b)[i] = IF i <= k - 1 THEN a[i] ELSE b[i - (k - 1)]
  <2>1. Len(a) + Len(b) = Len(q) - 1
    BY <1>1, <1>2, <1>3
  <2>2. /\ a \o b \in Seq(S) /\ Len(a \o b) = Len(a) + Len(b)
        /\ \A i \in 1..(Len(a) + Len(b)) :
             (a \o b)[i] = IF i <= Len(a) THEN a[i] ELSE b[i - Len(a)]
    BY <1>2, <1>3, ConcatProperties
  <2>. QED BY <1>2, <2>1, <2>2, Zenon
<1>6. ASSUME NEW i \in 1..(Len(q) - 1)
      PROVE (a \o b)[i] = IF i < k THEN q[i] ELSE q[i + 1]
  <2>1. CASE i < k
    BY <1>1, <1>2, <1>5, <2>1
  <2>2. CASE i >= k
    <3>1. i - (k - 1) \in 1..(Len(q) - k) /\ k + (i - (k - 1)) = i + 1
      BY <1>1, <2>2
    <3>2. b[i - (k - 1)] = q[i + 1]
      BY <1>3, <3>1
    <3>. QED BY <1>1, <1>5, <2>2, <3>2
  <2>3. i < k \/ i >= k
    BY <1>1
  <2>. QED BY <2>1, <2>2, <2>3, Zenon
<1>. QED BY <1>4, <1>5, <1>6

-----------------------------------------------------------------------------

(* The inductive invariant: types, order and identity hold together.  The   *)
(* order needs the types of the deadlines; identity needs nothing of the    *)
(* order but is disturbed by the same steps.                                *)
IInv == TypeOK /\ SoonestFirst /\ IdsNameOneEvent

LEMMA SecondIsPositive == UsecPerSec \in Nat \ {0}
<1>1. \A h, y \in Nat \ {0} : h * y \in Nat \ {0}
  OBVIOUS
<1>. QED BY <1>1, SchedAssumption DEF UsecPerSec

(* SOONER is irreflexive and its negation is transitive. *)
LEMMA SoonerOrder ==
  ASSUME NEW a \in Deadline, NEW b \in Deadline, NEW c \in Deadline
  PROVE  /\ SOONER(a, b) => ~SOONER(b, a)
         /\ ~SOONER(b, a) /\ ~SOONER(c, b) => ~SOONER(c, a)
BY SchedAssumption DEF SOONER, Deadline, UsecPerSec

(* One carry is enough: sched_settime always yields a deadline whose        *)
(* microseconds do not exceed one second.                                   *)
LEMMA SettimeType ==
  ASSUME NEW t \in Clock, NEW ms \in Nat
  PROVE  sched_settime(t, ms) \in Deadline
<1>1. MsPerSec \in Nat \ {0} /\ UsecPerMs \in Nat \ {0}
  BY SchedAssumption
<1>2. UsecPerSec \in Nat \ {0}
  BY <1>1 DEF UsecPerSec
<1>3. ms \div MsPerSec \in Nat /\ ms % MsPerSec \in 0..(MsPerSec - 1)
  BY <1>1
<1> DEFINE r == ms % MsPerSec
<1>4. r * UsecPerMs \in Nat /\ r * UsecPerMs <= UsecPerSec
  <2>1. \A h, y, z \in Nat : h <= y => h * z <= y * z
    OBVIOUS
  <2>. QED BY <1>1, <1>3, <2>1 DEF UsecPerSec
<1> HIDE DEF r
<1>5. t.sec \in Nat /\ t.usec \in Nat /\ t.usec < UsecPerSec
  BY <1>2 DEF Clock
<1>6. DEFINE usec == t.usec + r * UsecPerMs
<1>7. usec \in Nat /\ usec <= UsecPerSec + UsecPerSec
  BY <1>2, <1>4, <1>5
<1>8. sched_settime(t, ms) =
        IF usec > UsecPerSec
        THEN [sec |-> t.sec + (ms \div MsPerSec) + 1, usec |-> usec - UsecPerSec]
        ELSE [sec |-> t.sec + (ms \div MsPerSec), usec |-> usec]
  BY DEF sched_settime, r
<1> HIDE DEF usec
<1>. QED BY <1>2, <1>3, <1>5, <1>7, <1>8 DEF Deadline

(* Inserting where schedule() inserts keeps the order, and adds one id. *)
LEMMA ScheduleKeepsOrder ==
  ASSUME NEW q \in Seq(Entry), NEW s \in Entry, NEW k \in 1..(Len(q) + 1),
         Ordered(q), UniqueIds(q), s.id \notin IdsOf(q),
         \A i \in 1..(k - 1) : ~SOONER(s.when, q[i].when),
         k <= Len(q) => SOONER(s.when, q[k].when)
  PROVE  /\ InsertAt(q, k, s) \in Seq(Entry)
         /\ Len(InsertAt(q, k, s)) = Len(q) + 1
         /\ Ordered(InsertAt(q, k, s))
         /\ UniqueIds(InsertAt(q, k, s))
         /\ IdsOf(InsertAt(q, k, s)) = IdsOf(q) \union {s.id}
<1> DEFINE p == InsertAt(q, k, s)
<1>1. /\ p \in Seq(Entry) /\ Len(p) = Len(q) + 1
      /\ \A i \in 1..(Len(q) + 1) :
           p[i] = IF i < k THEN q[i] ELSE IF i = k THEN s ELSE q[i - 1]
  BY InsertAtProperties
<1> HIDE DEF p
<1>2. Len(q) \in Nat /\ k \in Nat /\ \A i \in 1..Len(q) : q[i] \in Entry
  OBVIOUS
<1>3. \A i \in 1..Len(q) : q[i].when \in Deadline /\ q[i].id \in IdsOf(q)
  BY <1>2 DEF Entry, IdsOf
<1>4. s.when \in Deadline
  BY DEF Entry
<1>5. Ordered(p)
  <2> SUFFICES ASSUME NEW i \in 1..(Len(q) + 1), NEW j \in 1..(Len(q) + 1), i < j
               PROVE  ~SOONER(p[j].when, p[i].when)
    BY <1>1 DEF Ordered
  <2>1. CASE j < k
    BY <1>1, <1>2, <2>1 DEF Ordered
  <2>2. CASE j = k
    BY <1>1, <1>2, <2>2
  <2>3. CASE i = k
    <3>1. j - 1 \in k..Len(q) /\ k \in 1..Len(q)
      BY <1>2, <2>3
    <3>2. ~SOONER(q[j - 1].when, q[k].when)
      <4>1. CASE j - 1 = k
        BY <1>3, <3>1, <4>1, SoonerOrder DEF SOONER, Deadline
      <4>2. CASE j - 1 > k
        BY <1>2, <3>1, <4>2 DEF Ordered
      <4>. QED BY <1>2, <3>1, <4>1, <4>2
    <3>3. ~SOONER(q[k].when, s.when)
      BY <1>3, <1>4, <3>1, SoonerOrder
    <3>4. p[i] = s /\ p[j] = q[j - 1]
      BY <1>1, <1>2, <2>3
    <3>5. q[j - 1].when \in Deadline /\ q[k].when \in Deadline
      BY <1>3, <3>1
    <3>. QED BY <1>4, <3>2, <3>3, <3>4, <3>5, SoonerOrder
  <2>4. CASE i < k /\ j > k
    <3>1. p[i] = q[i] /\ p[j] = q[j - 1]
      BY <1>1, <1>2, <2>4
    <3>2. i \in 1..Len(q) /\ j - 1 \in 1..Len(q) /\ i < j - 1
      BY <1>2, <2>4
    <3>. QED BY <3>1, <3>2 DEF Ordered
  <2>5. CASE i > k
    <3>1. p[i] = q[i - 1] /\ p[j] = q[j - 1]
      BY <1>1, <1>2, <2>5
    <3>2. i - 1 \in 1..Len(q) /\ j - 1 \in 1..Len(q) /\ i - 1 < j - 1
      BY <1>2, <2>5
    <3>. QED BY <3>1, <3>2 DEF Ordered
  <2>. QED BY <1>2, <2>1, <2>2, <2>3, <2>4, <2>5
<1>6. UniqueIds(p)
  <2> SUFFICES ASSUME NEW i \in 1..(Len(q) + 1), NEW j \in 1..(Len(q) + 1),
                      p[i].id = p[j].id
               PROVE  i = j
    BY <1>1 DEF UniqueIds
  <2> DEFINE g(m) == IF m < k THEN m ELSE m - 1
  <2>1. \A m \in 1..(Len(q) + 1) : m # k => g(m) \in 1..Len(q) /\ p[m] = q[g(m)]
    BY <1>1, <1>2
  <2>2. i # k /\ j # k /\ g(i) = g(j) => i = j
    BY <1>2
  <2> HIDE DEF g
  <2>3. \A m \in 1..(Len(q) + 1) : m # k => p[m].id \in IdsOf(q)
    BY <2>1 DEF IdsOf
  <2>4. p[k].id = s.id /\ k \in 1..(Len(q) + 1)
    BY <1>1, <1>2
  <2>5. i = k <=> j = k
    BY <2>3, <2>4
  <2>. QED BY <2>1, <2>2, <2>5 DEF UniqueIds
<1>7. IdsOf(p) = IdsOf(q) \union {s.id}
  <2>1. ASSUME NEW m \in 1..(Len(q) + 1)
        PROVE  p[m].id \in IdsOf(q) \union {s.id}
    <3>1. CASE m < k
      BY <1>1, <1>2, <1>3, <3>1
    <3>2. CASE m = k
      BY <1>1, <1>2, <3>2
    <3>3. CASE m > k
      <4>1. p[m] = q[m - 1] /\ m - 1 \in 1..Len(q)
        BY <1>1, <1>2, <3>3
      <4>. QED BY <1>3, <4>1
    <3>. QED BY <1>2, <3>1, <3>2, <3>3
  <2>2. \A m \in 1..Len(q) : \E n \in 1..(Len(q) + 1) : p[n].id = q[m].id
    <3> TAKE m \in 1..Len(q)
    <3>1. CASE m < k
      BY <1>1, <1>2, <3>1
    <3>2. CASE m >= k
      <4>1. p[m + 1] = q[m]
        BY <1>1, <1>2, <3>2
      <4>. QED BY <1>2, <4>1
    <3>. QED BY <1>2, <3>1, <3>2
  <2>3. p[k].id = s.id
    BY <1>1, <1>2
  <2>4. k \in 1..Len(p) /\ Len(p) = Len(q) + 1
    BY <1>1
  <2>5. IdsOf(p) \subseteq IdsOf(q) \union {s.id}
    BY <2>1, <2>4, Zenon DEF IdsOf
  <2>6. IdsOf(q) \subseteq IdsOf(p)
    BY <2>2, <2>4 DEF IdsOf
  <2>7. s.id \in IdsOf(p)
    BY <2>3, <2>4 DEF IdsOf
  <2>. QED BY <2>5, <2>6, <2>7
<1>. QED BY <1>1, <1>5, <1>6, <1>7 DEF p

(* Dropping place k keeps the order, and removes exactly the id at k. *)
LEMMA DroppingKeepsOrder ==
  ASSUME NEW q \in Seq(Entry), NEW k \in 1..Len(q), NEW p \in Seq(Entry),
         Len(p) = Len(q) - 1,
         \A i \in 1..(Len(q) - 1) : p[i] = IF i < k THEN q[i] ELSE q[i + 1],
         Ordered(q), UniqueIds(q)
  PROVE  /\ Ordered(p)
         /\ UniqueIds(p)
         /\ IdsOf(p) \subseteq IdsOf(q)
         /\ q[k].id \in IdsOf(q)
         /\ q[k].id \notin IdsOf(p)
<1> DEFINE f(i) == IF i < k THEN i ELSE i + 1
<1>1. Len(q) \in Nat /\ k \in Nat
  OBVIOUS
<1>2. \A i \in 1..Len(p) : f(i) \in 1..Len(q) /\ f(i) # k /\ p[i] = q[f(i)]
  BY <1>1
<1>3. \A i, j \in 1..Len(p) : /\ i < j => f(i) < f(j)
                              /\ f(i) = f(j) => i = j
  BY <1>1
<1> HIDE DEF f
<1>4. Ordered(p)
  BY <1>2, <1>3 DEF Ordered
<1>5. UniqueIds(p)
  BY <1>2, <1>3 DEF UniqueIds
<1>6. IdsOf(p) \subseteq IdsOf(q) /\ q[k].id \in IdsOf(q)
  BY <1>2 DEF IdsOf
<1>7. q[k].id \notin IdsOf(p)
  <2> SUFFICES ASSUME NEW i \in 1..Len(p), p[i].id = q[k].id
               PROVE  FALSE
    BY DEF IdsOf
  <2>. QED BY <1>2 DEF UniqueIds
<1>. QED BY <1>4, <1>5, <1>6, <1>7

-----------------------------------------------------------------------------

LEMMA InitIInv == Init => IInv
<1> SUFFICES ASSUME Init PROVE IInv
  OBVIOUS
<1>1. UsecPerSec \in Nat \ {0}
  BY SecondIsPositive
<1>2. TypeOK
  BY <1>1, SchedAssumption DEF Init, TypeOK, Clock, Awake
<1>3. SoonestFirst
  BY DEF Init, SoonestFirst, Ordered
<1>4. IdsNameOneEvent
  BY DEF Init, IdsNameOneEvent, UniqueIds, LiveIds, QueuedIds, IdsOf
<1>. QED BY <1>2, <1>3, <1>4 DEF IInv

(* What an insertion by schedule() does to the queue part of the invariant. *)
LEMMA ScheduleStep ==
  ASSUME IInv, NEW s \in Entry, s.id \notin QueuedIds, schedule(s)
  PROVE  /\ schedq' \in Seq(Entry)
         /\ schedcnt' = Len(schedq')
         /\ SoonestFirst'
         /\ UniqueIds(schedq)'
         /\ QueuedIds' = QueuedIds \union {s.id}
<1>1. schedq \in Seq(Entry) /\ schedcnt = Len(schedq)
  BY DEF IInv, TypeOK
<1>2. Ordered(schedq) /\ UniqueIds(schedq) /\ s.id \notin IdsOf(schedq)
  BY DEF IInv, SoonestFirst, IdsNameOneEvent, QueuedIds
<1>3. PICK k \in 1..(Len(schedq) + 1) :
        /\ \A i \in 1..(k - 1) : ~SOONER(s.when, schedq[i].when)
        /\ k <= Len(schedq) => SOONER(s.when, schedq[k].when)
        /\ schedq' = InsertAt(schedq, k, s)
  BY DEF schedule
<1>4. schedcnt' = schedcnt + 1
  BY DEF schedule
<1>5. /\ InsertAt(schedq, k, s) \in Seq(Entry)
      /\ Len(InsertAt(schedq, k, s)) = Len(schedq) + 1
      /\ Ordered(InsertAt(schedq, k, s))
      /\ UniqueIds(InsertAt(schedq, k, s))
      /\ IdsOf(InsertAt(schedq, k, s)) = IdsOf(schedq) \union {s.id}
  BY <1>1, <1>2, <1>3, ScheduleKeepsOrder
<1>. QED BY <1>1, <1>3, <1>4, <1>5 DEF SoonestFirst, QueuedIds

(* What unlinking place k does to it. *)
LEMMA DropStep ==
  ASSUME IInv, NEW k \in 1..Len(schedq),
         schedq' = RemoveAt(schedq, k) \/ (k = 1 /\ schedq' = Tail(schedq)),
         schedcnt' = schedcnt - 1
  PROVE  /\ schedq' \in Seq(Entry)
         /\ schedcnt' = Len(schedq')
         /\ SoonestFirst'
         /\ UniqueIds(schedq)'
         /\ QueuedIds' \subseteq QueuedIds
         /\ schedq[k] \in Entry
         /\ schedq[k].id \in QueuedIds
         /\ schedq[k].id \notin QueuedIds'
<1>1. schedq \in Seq(Entry) /\ schedcnt = Len(schedq) /\ Len(schedq) \in Nat
  BY DEF IInv, TypeOK
<1>2. Ordered(schedq) /\ UniqueIds(schedq)
  BY DEF IInv, SoonestFirst, IdsNameOneEvent
<1>3. /\ schedq' \in Seq(Entry)
      /\ Len(schedq') = Len(schedq) - 1
      /\ \A i \in 1..(Len(schedq) - 1) :
           schedq'[i] = IF i < k THEN schedq[i] ELSE schedq[i + 1]
  <2>1. CASE schedq' = RemoveAt(schedq, k)
    BY <1>1, <2>1, RemoveAtProperties
  <2>2. CASE k = 1 /\ schedq' = Tail(schedq)
    <3>1. schedq # <<>>
      BY <1>1, <2>2
    <3>2. /\ Tail(schedq) \in Seq(Entry) /\ Len(Tail(schedq)) = Len(schedq) - 1
          /\ \A i \in 1..Len(Tail(schedq)) : Tail(schedq)[i] = schedq[i + 1]
      BY <1>1, <3>1, HeadTailProperties
    <3>. QED BY <1>1, <2>2, <3>2
  <2>. QED BY <2>1, <2>2
<1>4. /\ Ordered(schedq')
      /\ UniqueIds(schedq')
      /\ IdsOf(schedq') \subseteq IdsOf(schedq)
      /\ schedq[k].id \in IdsOf(schedq)
      /\ schedq[k].id \notin IdsOf(schedq')
  BY <1>1, <1>2, <1>3, DroppingKeepsOrder
<1>5. schedq[k] \in Entry
  BY <1>1
<1>. QED BY <1>1, <1>3, <1>4, <1>5 DEF SoonestFirst, QueuedIds

LEMMA NoEventNotEntry == NoEvent \notin Entry
<1>1. UsecPerSec \in Nat
  BY SchedAssumption DEF UsecPerSec
<1>2. Entry \subseteq [id : Nat, when : [sec : Nat, usec : Nat], resched : Nat]
  BY <1>1 DEF Entry, Deadline
<1>. QED BY <1>2, SchedAssumption

(* Every step keeps the invariant: one case per action. *)
LEMMA NextIInv == IInv /\ [Next]_vars => IInv'
<1> SUFFICES ASSUME IInv, [Next]_vars PROVE IInv'
  OBVIOUS
<1> USE DEF IInv
<1>1. ASSUME NEW ms \in Delays, cheops_sched_add(ms)
      PROVE  IInv'
  <2> DEFINE when == sched_settime(now, ms)
             s == [id |-> eventcnt, when |-> when, resched |-> ms]
  <2>1. ms \in Nat \ {0} /\ when \in Deadline
    BY SettimeType, SchedAssumption DEF TypeOK
  <2>2. s \in Entry /\ s.id = eventcnt
    BY <2>1 DEF Entry, TypeOK
  <2>3. eventcnt \notin QueuedIds /\ eventcnt \notin LiveIds \union dead
    BY DEF IdsNameOneEvent, LiveIds, TypeOK
  <2>4. schedule(s)
    BY <1>1 DEF cheops_sched_add
  <2> HIDE DEF s
  <2>5. /\ schedq' \in Seq(Entry) /\ schedcnt' = Len(schedq')
        /\ SoonestFirst' /\ UniqueIds(schedq)'
        /\ QueuedIds' = QueuedIds \union {eventcnt}
    BY <2>2, <2>3, <2>4, ScheduleStep
  <2>6. eventcnt' = eventcnt + 1 /\ UNCHANGED <<now, current, pc, sleep, dead>>
    BY <1>1 DEF cheops_sched_add, loop
  <2>7. schedccnt' \in 0..MaxCache
    BY <1>1, SchedAssumption DEF cheops_sched_add, TypeOK
  <2>8. TypeOK'
    BY <2>5, <2>6, <2>7 DEF TypeOK
  <2>9. LiveIds' = LiveIds \union {eventcnt}
    BY <2>5, <2>6 DEF LiveIds
  <2>10. eventcnt \in Nat /\ (LiveIds \union dead) \subseteq Nat
    <3>1. \A i \in 1..Len(schedq) : schedq[i] \in Entry
      BY DEF TypeOK
    <3>2. QueuedIds \subseteq Nat
      BY <3>1 DEF QueuedIds, IdsOf, Entry
    <3>3. current # NoEvent => current.id \in Nat
      BY DEF TypeOK, Entry
    <3>. QED BY <3>2, <3>3 DEF LiveIds, TypeOK
  <2>11. \A id \in LiveIds' \union dead' : id < eventcnt'
    BY <2>6, <2>9, <2>10 DEF IdsNameOneEvent
  <2>12. current # NoEvent => current.id \notin QueuedIds'
    BY <2>3, <2>5 DEF IdsNameOneEvent, LiveIds
  <2>13. LiveIds' \intersect dead' = {}
    BY <2>3, <2>6, <2>9 DEF IdsNameOneEvent
  <2>14. IdsNameOneEvent'
    BY <2>5, <2>6, <2>11, <2>12, <2>13 DEF IdsNameOneEvent
  <2>. QED BY <2>5, <2>8, <2>14
<1>2. ASSUME NEW k \in 1..Len(schedq), cheops_sched_del(k)
      PROVE  IInv'
  <2>1. /\ dead' = dead \union {schedq[k].id}
        /\ schedq' = RemoveAt(schedq, k) /\ schedcnt' = schedcnt - 1
        /\ UNCHANGED <<now, eventcnt, schedccnt, current, pc, sleep>>
    BY <1>2 DEF cheops_sched_del, loop
  <2>2. /\ schedq' \in Seq(Entry) /\ schedcnt' = Len(schedq')
        /\ SoonestFirst' /\ UniqueIds(schedq)'
        /\ QueuedIds' \subseteq QueuedIds
        /\ schedq[k] \in Entry
        /\ schedq[k].id \in QueuedIds /\ schedq[k].id \notin QueuedIds'
    BY <2>1, DropStep
  <2>3. TypeOK'
    BY <2>1, <2>2 DEF TypeOK, Entry
  <2>4. LiveIds' \subseteq LiveIds /\ schedq[k].id \notin LiveIds'
    BY <2>1, <2>2 DEF LiveIds, IdsNameOneEvent
  <2>5. /\ current' # NoEvent => current'.id \notin QueuedIds'
        /\ LiveIds' \intersect dead' = {}
    BY <2>1, <2>2, <2>4 DEF IdsNameOneEvent
  <2>6. schedq[k].id \in LiveIds
    BY <2>2 DEF LiveIds
  <2>7. \A id \in LiveIds' \union dead' : id < eventcnt'
    BY <2>1, <2>4, <2>6 DEF IdsNameOneEvent
  <2>8. IdsNameOneEvent'
    BY <2>2, <2>5, <2>7 DEF IdsNameOneEvent
  <2>. QED BY <2>2, <2>3, <2>8
<1>3. CASE SleepUntilHead
  <2>1. cheops_sched_wait(schedq, now) \in Nat \union {-1}
    <3>1. CASE schedq = <<>>
      BY <3>1 DEF cheops_sched_wait
    <3>2. CASE schedq # <<>>
      <4>1. schedq[1] \in Entry
        BY <3>2 DEF TypeOK
      <4>2. schedq[1].when.sec - now.sec \in Int /\ schedq[1].when.usec - now.usec \in Int
        <5>1. schedq[1].when \in Deadline /\ now \in Clock
          BY <4>1 DEF Entry, TypeOK
        <5>2. \A h \in Deadline : h.sec \in Nat /\ h.usec \in Nat
          BY SecondIsPositive DEF Deadline
        <5>3. now.sec \in Nat /\ now.usec \in Nat
          BY <5>1, SecondIsPositive DEF Clock
        <5>. QED BY <5>1, <5>2, <5>3
      <4>3. \A h, y \in Int : h * y \in Int
        OBVIOUS
      <4>4. \A h \in Int : Trunc(h, UsecPerMs) \in Int
        <5>1. UsecPerMs \in Nat \ {0}
          BY SchedAssumption
        <5>2. \A h \in Nat : h \div UsecPerMs \in Int
          BY <5>1
        <5>3. \A h \in Int : (h >= 0 => h \in Nat) /\ (~(h >= 0) => -h \in Nat)
          OBVIOUS
        <5>. QED BY <5>2, <5>3 DEF Trunc
      <4>5. (schedq[1].when.sec - now.sec) * MsPerSec
              + Trunc(schedq[1].when.usec - now.usec, UsecPerMs) \in Int
        BY <4>2, <4>3, <4>4, SchedAssumption
      <4>. QED BY <3>2, <4>5 DEF cheops_sched_wait
    <3>. QED BY <3>1, <3>2
  <2>. QED BY <1>3, <2>1 DEF SleepUntilHead, TypeOK, SoonestFirst, Ordered, IdsNameOneEvent,
                             UniqueIds, LiveIds, QueuedIds, IdsOf
<1>4. ASSUME PollReady \/ PollTimeout
      PROVE  IInv'
  <2>1. Awake \in [ms : Nat \union {-1}, at : Clock]
    <3>1. UsecPerSec \in Nat \ {0}
      BY SecondIsPositive
    <3>. QED BY <3>1 DEF Awake, Clock
  <2>2. /\ pc = "poll" /\ pc' \in {"io", "runq"} /\ sleep' = Awake
        /\ UNCHANGED <<now, schedq, eventcnt, schedcnt, schedccnt, current, dead>>
    BY <1>4 DEF PollReady, PollTimeout
  <2>3. TypeOK'
    BY <2>1, <2>2 DEF TypeOK
  <2>. QED BY <2>2, <2>3 DEF SoonestFirst, Ordered, IdsNameOneEvent, UniqueIds,
                             LiveIds, QueuedIds, IdsOf
<1>5. ASSUME IoDone \/ RunqDone
      PROVE  IInv'
  <2>1. /\ pc \in {"io", "runq"} /\ pc' \in {"wait", "runq"}
        /\ UNCHANGED <<now, schedq, eventcnt, schedcnt, schedccnt, current, sleep, dead>>
    BY <1>5 DEF IoDone, RunqDone
  <2>2. TypeOK'
    BY <2>1 DEF TypeOK
  <2>3. SoonestFirst' /\ IdsNameOneEvent'
    BY <2>1 DEF SoonestFirst, Ordered, IdsNameOneEvent, UniqueIds, LiveIds, QueuedIds, IdsOf
  <2>. QED BY <2>2, <2>3
<1>6. CASE RunHead
  <2>1. /\ current = NoEvent /\ pc' = "callback"
        /\ schedq # <<>> /\ current' = schedq[1]
        /\ schedq' = Tail(schedq) /\ schedcnt' = schedcnt - 1
        /\ UNCHANGED <<now, eventcnt, schedccnt, sleep, dead>>
    BY <1>6 DEF RunHead, Due, TypeOK
  <2>2. 1 \in 1..Len(schedq)
    BY <2>1 DEF TypeOK
  <2>3. /\ schedq' \in Seq(Entry) /\ schedcnt' = Len(schedq')
        /\ SoonestFirst' /\ UniqueIds(schedq)'
        /\ QueuedIds' \subseteq QueuedIds
        /\ schedq[1] \in Entry
        /\ schedq[1].id \in QueuedIds /\ schedq[1].id \notin QueuedIds'
    BY <2>1, <2>2, DropStep
  <2>4. TypeOK'
    BY <2>1, <2>3, NoEventNotEntry DEF TypeOK
  <2>5. LiveIds' \subseteq LiveIds
    BY <2>1, <2>3 DEF LiveIds
  <2>6. IdsNameOneEvent'
    BY <2>1, <2>3, <2>5 DEF IdsNameOneEvent
  <2>. QED BY <2>3, <2>4, <2>6
<1>7. CASE RunAgain
  <2> DEFINE when == sched_settime(now, current.resched)
             s == [current EXCEPT !.when = when]
  <2>1. current # NoEvent /\ current \in Entry
    BY <1>7 DEF RunAgain, TypeOK
  <2>2. when \in Deadline
    BY <2>1, SettimeType DEF Entry, TypeOK
  <2>3. s \in Entry /\ s.id = current.id
    BY <2>1, <2>2 DEF Entry
  <2>4. current.id \notin QueuedIds /\ current.id \in LiveIds
    BY <2>1 DEF IdsNameOneEvent, LiveIds
  <2>5. schedule(s) /\ current' = NoEvent /\ pc' = "runq"
        /\ UNCHANGED <<now, eventcnt, schedccnt, sleep, dead>>
    BY <1>7 DEF RunAgain
  <2> HIDE DEF s
  <2>6. /\ schedq' \in Seq(Entry) /\ schedcnt' = Len(schedq')
        /\ SoonestFirst' /\ UniqueIds(schedq)'
        /\ QueuedIds' = QueuedIds \union {current.id}
    BY <2>3, <2>4, <2>5, ScheduleStep
  <2>7. TypeOK'
    BY <2>5, <2>6 DEF TypeOK
  <2>8. LiveIds' \subseteq LiveIds
    BY <2>4, <2>5, <2>6 DEF LiveIds
  <2>9. IdsNameOneEvent'
    BY <2>5, <2>6, <2>8 DEF IdsNameOneEvent
  <2>. QED BY <2>6, <2>7, <2>9
<1>8. CASE RunOnce
  <2>1. /\ current \in Entry /\ current # NoEvent
        /\ current' = NoEvent /\ pc' = "runq"
        /\ dead' = dead \union {current.id}
        /\ UNCHANGED <<now, schedq, eventcnt, schedcnt, sleep>>
    BY <1>8 DEF RunOnce, TypeOK
  <2>2. schedccnt' \in 0..MaxCache
    BY <1>8, SchedAssumption DEF RunOnce, TypeOK
  <2>3. TypeOK'
    BY <2>1, <2>2 DEF TypeOK, Entry
  <2>4. QueuedIds' = QueuedIds /\ LiveIds' = QueuedIds /\ SoonestFirst'
        /\ UniqueIds(schedq)' = UniqueIds(schedq)
    BY <2>1 DEF LiveIds, QueuedIds, IdsOf, SoonestFirst, Ordered, UniqueIds
  <2>5. IdsNameOneEvent'
    BY <2>1, <2>4 DEF IdsNameOneEvent, LiveIds
  <2>. QED BY <2>3, <2>4, <2>5
<1>9. CASE Tick
  <2>1. now' \in Clock
    <3>1. UsecPerSec \in Nat \ {0}
      BY SecondIsPositive
    <3>2. now.sec \in Nat /\ now.usec \in 0..(UsecPerSec - 1)
      BY DEF TypeOK, Clock
    <3>3. \/ now' = [sec |-> now.sec, usec |-> now.usec + 1] /\ now.usec + 1 < UsecPerSec
          \/ now' = [sec |-> now.sec + 1, usec |-> 0]
      BY <1>9 DEF Tick, TypeOK, Clock
    <3>. QED BY <3>1, <3>2, <3>3 DEF Clock
  <2>. QED BY <1>9, <2>1 DEF Tick, loop, TypeOK, SoonestFirst, Ordered, IdsNameOneEvent,
                             UniqueIds, LiveIds, QueuedIds, IdsOf
<1>10. CASE UNCHANGED vars
  BY <1>10 DEF vars, loop, TypeOK, SoonestFirst, Ordered, IdsNameOneEvent,
               UniqueIds, LiveIds, QueuedIds, IdsOf
<1>. QED BY <1>1, <1>2, <1>3, <1>4, <1>5, <1>6, <1>7, <1>8, <1>9, <1>10 DEF Next

-----------------------------------------------------------------------------
(* The wait of the main loop. *)

(* Division by a positive number, for a number that is not negative. *)
LEMMA Division ==
  ASSUME NEW a \in Nat, NEW b \in Nat \ {0}
  PROVE  /\ a \div b \in Nat
         /\ (a \div b) * b <= a
         /\ a < (a \div b) * b + b
         /\ a % b \in 0..(b - 1)
         /\ a = ((a \div b) * b) + (a % b)
OBVIOUS

LEMMA MicrosInt ==
  ASSUME NEW t, t.sec \in Nat, t.usec \in Nat
  PROVE  Micros(t) \in Nat
<1>1. UsecPerSec \in Nat
  BY SecondIsPositive
<1>2. t.sec * UsecPerSec \in Nat
  BY <1>1
<1>. QED BY <1>2 DEF Micros

(* sched_settime is exact, whatever carries. *)
LEMMA SettimeExact ==
  ASSUME NEW t \in Clock, NEW ms \in Nat
  PROVE  Micros(sched_settime(t, ms)) = Micros(t) + ms * UsecPerMs
<1>1. MsPerSec \in Nat \ {0} /\ UsecPerMs \in Nat \ {0} /\ UsecPerSec \in Nat \ {0}
  BY SchedAssumption, SecondIsPositive
<1> DEFINE d == ms \div MsPerSec
           r == ms % MsPerSec
<1>2. d \in Nat /\ r \in Nat /\ ms = d * MsPerSec + r
  BY <1>1, Division
<1> HIDE DEF d, r
<1>3. t.sec \in Nat /\ t.usec \in Nat
  BY <1>1 DEF Clock
<1>4. d * UsecPerSec = (d * MsPerSec) * UsecPerMs
  BY <1>1, <1>2 DEF UsecPerSec
<1>5. ms * UsecPerMs = d * UsecPerSec + r * UsecPerMs
  <2>1. \A h, y, z \in Nat : (h + y) * z = h * z + y * z
    OBVIOUS
  <2>2. d * MsPerSec \in Nat
    BY <1>1, <1>2
  <2>. QED BY <1>1, <1>2, <1>4, <2>1, <2>2
<1>6. (t.sec + d) * UsecPerSec = t.sec * UsecPerSec + d * UsecPerSec
  BY <1>1, <1>2, <1>3
<1>7. (t.sec + d + 1) * UsecPerSec = (t.sec + d) * UsecPerSec + UsecPerSec
  BY <1>1, <1>2, <1>3
<1> DEFINE u == t.usec + r * UsecPerMs
<1>8. sched_settime(t, ms) =
        IF u > UsecPerSec
        THEN [sec |-> t.sec + d + 1, usec |-> u - UsecPerSec]
        ELSE [sec |-> t.sec + d, usec |-> u]
  BY DEF sched_settime, d, r
<1>9. r * UsecPerMs \in Nat /\ d * UsecPerSec \in Nat /\ t.sec * UsecPerSec \in Nat
      /\ (t.sec + d) * UsecPerSec \in Nat
  BY <1>1, <1>2, <1>3
<1>. QED BY <1>1, <1>3, <1>5, <1>6, <1>7, <1>8, <1>9 DEF Micros

(* The order of SOONER is that of the microseconds, denormalised deadlines  *)
(* included.                                                                *)
LEMMA SoonerMicros ==
  ASSUME NEW a \in Deadline, NEW b \in Deadline, ~SOONER(b, a)
  PROVE  Micros(a) <= Micros(b)
<1>1. UsecPerSec \in Nat \ {0}
  BY SecondIsPositive
<1>2. /\ a.sec \in Nat /\ a.usec \in Nat /\ a.usec <= UsecPerSec
      /\ b.sec \in Nat /\ b.usec \in Nat
  BY <1>1 DEF Deadline
<1>3. CASE a.sec = b.sec
  BY <1>1, <1>2, <1>3 DEF SOONER, Micros
<1>4. CASE a.sec < b.sec
  <2>1. \A h, y, z \in Nat : h < y => h * z + z <= y * z
    <3>1. \A h, y, z \in Nat : h <= y => h * z <= y * z
      OBVIOUS
    <3>2. \A h, z \in Nat : (h + 1) * z = h * z + z
      OBVIOUS
    <3>. QED BY <3>1, <3>2
  <2>2. a.sec * UsecPerSec + UsecPerSec <= b.sec * UsecPerSec
    BY <1>1, <1>2, <1>4, <2>1
  <2>3. a.sec * UsecPerSec \in Nat /\ b.sec * UsecPerSec \in Nat
    BY <1>1, <1>2
  <2>. QED BY <1>1, <1>2, <2>2, <2>3 DEF Micros
<1>. QED BY <1>2, <1>3, <1>4 DEF SOONER

(* What cheops_sched_runq takes for due is due in less than a millisecond.  *)
LEMMA DueMicros ==
  ASSUME NEW a \in Deadline, NEW t \in Clock, SOONER(a, RunLimit(t))
  PROVE  Micros(a) < Micros(t) + UsecPerMs
<1>1. UsecPerSec \in Nat \ {0} /\ UsecPerMs \in Nat \ {0}
  BY SecondIsPositive, SchedAssumption
<1>2. /\ a.sec \in Nat /\ a.usec \in Nat /\ a.usec <= UsecPerSec
      /\ t.sec \in Nat /\ t.usec \in Nat
  BY <1>1 DEF Deadline, Clock
<1>3. RunLimit(t) = [sec |-> t.sec, usec |-> t.usec + UsecPerMs]
  BY <1>1 DEF RunLimit, Clock
<1>4. CASE a.sec = t.sec /\ a.usec < t.usec + UsecPerMs
  BY <1>1, <1>2, <1>4 DEF Micros
<1>5. CASE a.sec < t.sec
  <2>1. \A h, y, z \in Nat : h < y => h * z + z <= y * z
    <3>1. \A h, y, z \in Nat : h <= y => h * z <= y * z
      OBVIOUS
    <3>2. \A h, z \in Nat : (h + 1) * z = h * z + z
      OBVIOUS
    <3>. QED BY <3>1, <3>2
  <2>2. a.sec * UsecPerSec + UsecPerSec <= t.sec * UsecPerSec
    BY <1>1, <1>2, <1>5, <2>1
  <2>3. a.sec * UsecPerSec \in Nat /\ t.sec * UsecPerSec \in Nat
    BY <1>1, <1>2
  <2>. QED BY <1>1, <1>2, <2>2, <2>3 DEF Micros
<1>6. a.sec < t.sec \/ (a.sec = t.sec /\ a.usec < t.usec + UsecPerMs)
  BY <1>3 DEF SOONER
<1>. QED BY <1>4, <1>5, <1>6

(* The truncating division of cheops_sched_wait: it rounds towards now.     *)
LEMMA TruncBounds ==
  ASSUME NEW d \in Int
  PROVE  /\ Trunc(d, UsecPerMs) \in Int
         /\ Trunc(d, UsecPerMs) * UsecPerMs < d + UsecPerMs
         /\ Trunc(d, UsecPerMs) * UsecPerMs >= d \/ Trunc(d, UsecPerMs) * UsecPerMs >= 0
         /\ Trunc(d, UsecPerMs) <= 0 => d < UsecPerMs
<1>1. UsecPerMs \in Nat \ {0}
  BY SchedAssumption
<1>2. CASE d >= 0
  <2>1. d \in Nat /\ Trunc(d, UsecPerMs) = d \div UsecPerMs
    BY <1>2 DEF Trunc
  <2>2. d \div UsecPerMs \in Nat /\ (d \div UsecPerMs) * UsecPerMs <= d
        /\ d < (d \div UsecPerMs) * UsecPerMs + UsecPerMs
    BY <1>1, <2>1, Division
  <2>3. d \div UsecPerMs <= 0 => (d \div UsecPerMs) * UsecPerMs = 0
    BY <1>1, <2>2
  <2> DEFINE h == d \div UsecPerMs
             y == h * UsecPerMs
  <2>4. y \in Int
    BY <1>1, <2>2
  <2> HIDE DEF h, y
  <2>. QED BY <1>1, <2>1, <2>2, <2>3, <2>4 DEF h, y
<1>3. CASE d < 0
  <2> DEFINE e == -d
             h == e \div UsecPerMs
             y == h * UsecPerMs
  <2>1. e \in Nat /\ Trunc(d, UsecPerMs) = -h
    BY <1>3 DEF Trunc
  <2>2. h \in Nat /\ y <= e /\ e < y + UsecPerMs
    BY <1>1, <2>1, Division
  <2>3. (-h) * UsecPerMs = -y /\ y \in Nat
    <3>1. \A u, v \in Int : (-u) * v = -(u * v)
      OBVIOUS
    <3>. QED BY <1>1, <2>2, <3>1
  <2>4. e = -d
    OBVIOUS
  <2> HIDE DEF e, h, y
  <2>5. -y < d + UsecPerMs
    BY <1>1, <2>2, <2>3, <2>4
  <2>6. Trunc(d, UsecPerMs) * UsecPerMs = -y
    BY <2>1, <2>3
  <2>7. -y >= d /\ -h \in Int /\ d < UsecPerMs
    BY <1>1, <1>3, <2>2, <2>3, <2>4
  <2>. QED BY <2>1, <2>5, <2>6, <2>7
<1>. QED BY <1>2, <1>3

(* The wait ends less than a millisecond after the head is due, and is 0    *)
(* only if the head would run at once.                                      *)
LEMMA WaitBounds ==
  ASSUME NEW q \in Seq(Entry), q # <<>>, NEW t \in Clock
  PROVE  LET ms == cheops_sched_wait(q, t)
         IN  \/ ms = 0 /\ SOONER(q[1].when, RunLimit(t))
             \/ ms > 0 /\ ms \in Int /\ Micros(t) + ms * UsecPerMs < Micros(q[1].when) + UsecPerMs
<1> DEFINE w  == q[1].when
           ds == w.sec - t.sec
           du == w.usec - t.usec
           T  == Trunc(du, UsecPerMs)
           raw == ds * MsPerSec + T
<1>1. UsecPerSec \in Nat \ {0} /\ UsecPerMs \in Nat \ {0} /\ MsPerSec \in Nat \ {0}
  BY SecondIsPositive, SchedAssumption
<1>2. w \in Deadline
  <2>1. q[1] \in Entry
    OBVIOUS
  <2>. QED BY <2>1 DEF Entry
<1>3. /\ w.sec \in Nat /\ w.usec \in Nat
      /\ t.sec \in Nat /\ t.usec \in Nat /\ t.usec < UsecPerSec
  BY <1>1, <1>2 DEF Deadline, Clock
<1>4. ds \in Int /\ du \in Int /\ du > -UsecPerSec
  BY <1>1, <1>3
<1> HIDE DEF w
<1>5. /\ T \in Int
      /\ T * UsecPerMs < du + UsecPerMs
      /\ T * UsecPerMs >= du \/ T * UsecPerMs >= 0
      /\ T <= 0 => du < UsecPerMs
  BY <1>4, TruncBounds
<1>6. cheops_sched_wait(q, t) = IF raw < 0 THEN 0 ELSE raw
  BY DEF cheops_sched_wait, w
<1>7. RunLimit(t) = [sec |-> t.sec, usec |-> t.usec + UsecPerMs]
  BY <1>1 DEF RunLimit, Clock
<1>8. w.sec = t.sec + ds /\ w.usec = t.usec + du
  BY <1>3
<1> HIDE DEF ds, du, T
<1>9. ds * MsPerSec \in Int /\ ds * UsecPerSec \in Int /\ T * UsecPerMs \in Int
  BY <1>1, <1>4, <1>5
<1>10. (ds * MsPerSec) * UsecPerMs = ds * UsecPerSec
  <2>1. \A h, y, z \in Int : (h * y) * z = h * (y * z)
    OBVIOUS
  <2>. QED BY <1>1, <1>4, <2>1 DEF UsecPerSec
<1>11. raw \in Int /\ raw * UsecPerMs = ds * UsecPerSec + T * UsecPerMs
  <2>1. \A h, y, z \in Int : (h + y) * z = h * z + y * z
    OBVIOUS
  <2>. QED BY <1>1, <1>5, <1>9, <1>10, <2>1
<1> HIDE DEF raw
<1>12. Micros(w) = Micros(t) + ds * UsecPerSec + du /\ Micros(t) \in Int
  <2>1. (t.sec + ds) * UsecPerSec = t.sec * UsecPerSec + ds * UsecPerSec
    BY <1>1, <1>3, <1>4
  <2> DEFINE h == t.sec * UsecPerSec
             y == ds * UsecPerSec
             z == w.sec * UsecPerSec
  <2>2. h \in Int /\ y \in Int
    BY <1>1, <1>3, <1>4
  <2>3. z = h + y
    BY <1>8, <2>1
  <2>4. Micros(w) = z + w.usec /\ Micros(t) = h + t.usec
    BY DEF Micros
  <2> HIDE DEF h, y, z
  <2>5. Micros(w) = Micros(t) + y + du /\ Micros(t) \in Int
    BY <1>3, <1>4, <1>8, <2>2, <2>3, <2>4
  <2>. QED BY <2>5 DEF y
<1>13. CASE raw > 0
  <2>1. cheops_sched_wait(q, t) = raw
    BY <1>6, <1>11, <1>13
  <2>2. Micros(t) + raw * UsecPerMs < Micros(w) + UsecPerMs
    BY <1>1, <1>4, <1>5, <1>9, <1>11, <1>12
  <2>. QED BY <1>11, <1>13, <2>1, <2>2 DEF w
<1>14. CASE raw <= 0
  <2>1. cheops_sched_wait(q, t) = 0
    BY <1>6, <1>11, <1>14
  <2>2. ds <= 0
    <3> SUFFICES ASSUME ds >= 1 PROVE FALSE
      BY <1>4
    <3>1. ds * UsecPerSec >= UsecPerSec
      <4>1. \A h, y \in Nat : h >= 1 => h * y >= y
        OBVIOUS
      <4>. QED BY <1>1, <1>4, <4>1
    <3>2. raw * UsecPerMs <= 0
      <4>1. \A h \in Int, y \in Nat : h <= 0 => h * y <= 0
        OBVIOUS
      <4>. QED BY <1>1, <1>11, <1>14, <4>1
    <3>. QED BY <1>1, <1>4, <1>5, <1>9, <1>11, <3>1, <3>2
  <2>3. CASE ds < 0
    BY <1>3, <1>4, <1>7, <1>8, <2>1, <2>3 DEF SOONER, w
  <2>4. CASE ds = 0
    <3>1. raw = T
      BY <1>1, <1>5, <2>4 DEF raw
    <3>2. du < UsecPerMs
      BY <1>5, <1>14, <3>1
    <3>3. w.sec = t.sec /\ w.usec < t.usec + UsecPerMs
      BY <1>1, <1>3, <1>4, <1>8, <2>4, <3>2
    <3>. QED BY <1>7, <2>1, <3>3 DEF SOONER, w
  <2>. QED BY <1>4, <2>2, <2>3, <2>4
<1>. QED BY <1>11, <1>13, <1>14

LEMMA InitWait == Init => WaitMatchesHead
BY DEF Init, WaitMatchesHead

(* Nothing touches the queue while the loop is in poll().                   *)
LEMMA NextWait == IInv /\ WaitMatchesHead /\ [Next]_vars => WaitMatchesHead'
<1> SUFFICES ASSUME IInv, WaitMatchesHead, [Next]_vars, pc' = "poll"
             PROVE  WaitMatchesHead'
  BY DEF WaitMatchesHead
<1>1. CASE SleepUntilHead
  <2>1. /\ sleep' = [ms |-> cheops_sched_wait(schedq, now), at |-> now]
        /\ schedq' = schedq
    BY <1>1 DEF SleepUntilHead
  <2>2. schedq \in Seq(Entry) /\ now \in Clock /\ Ordered(schedq)
    BY DEF IInv, TypeOK, SoonestFirst
  <2>3. CASE schedq = <<>>
    BY <2>1, <2>3 DEF cheops_sched_wait, WaitMatchesHead
  <2>4. CASE schedq # <<>>
    <3> DEFINE ms == cheops_sched_wait(schedq, now)
    <3>1. \/ ms = 0 /\ SOONER(schedq[1].when, RunLimit(now))
          \/ /\ ms > 0 /\ ms \in Int
             /\ Micros(now) + ms * UsecPerMs < Micros(schedq[1].when) + UsecPerMs
      BY <2>2, <2>4, WaitBounds
    <3>2. sleep'.ms = ms /\ sleep'.at = now
      BY <2>1
    <3> HIDE DEF ms
    <3>3. CASE ms = 0 /\ SOONER(schedq[1].when, RunLimit(now))
      BY <2>1, <2>4, <3>2, <3>3 DEF WaitMatchesHead
    <3>4. CASE /\ ms > 0 /\ ms \in Int
               /\ Micros(now) + ms * UsecPerMs < Micros(schedq[1].when) + UsecPerMs
      <4>1. ASSUME NEW i \in 1..Len(schedq)
            PROVE  Micros(now) + ms * UsecPerMs < Micros(schedq[i].when) + UsecPerMs
        <5>1. schedq[1] \in Entry /\ schedq[i] \in Entry /\ 1 \in 1..Len(schedq)
          BY <2>2
        <5>2. schedq[1].when \in Deadline /\ schedq[i].when \in Deadline
          BY <5>1 DEF Entry
        <5>3. i = 1 \/ ~SOONER(schedq[i].when, schedq[1].when)
          BY <2>2, <5>1 DEF Ordered
        <5>4. Micros(schedq[1].when) <= Micros(schedq[i].when)
          BY <5>2, <5>3, SoonerMicros DEF SOONER, Deadline
        <5>5. /\ Micros(schedq[1].when) \in Int /\ Micros(schedq[i].when) \in Int
              /\ Micros(now) \in Int /\ ms * UsecPerMs \in Int
          <6>1. UsecPerSec \in Nat /\ UsecPerMs \in Nat
            BY SecondIsPositive, SchedAssumption
          <6>2. /\ now.sec \in Nat /\ now.usec \in Nat
                /\ \A d \in Deadline : d.sec \in Nat /\ d.usec \in Nat
            BY <2>2, <6>1, SecondIsPositive DEF Clock, Deadline
          <6>3. ms * UsecPerMs \in Int
            BY <3>4, <6>1
          <6>4. \A d \in Deadline : Micros(d) \in Nat
            BY <6>2, MicrosInt
          <6>5. Micros(now) \in Nat
            BY <6>2, MicrosInt
          <6>. QED BY <5>2, <6>3, <6>4, <6>5
        <5>. QED BY <3>4, <5>4, <5>5, SchedAssumption
      <4>. QED BY <2>1, <3>2, <3>4, <4>1 DEF WaitMatchesHead
    <3>. QED BY <3>1, <3>3, <3>4
  <2>. QED BY <2>3, <2>4
<1>2. CASE UNCHANGED <<schedq, pc, sleep>>
  BY <1>2 DEF WaitMatchesHead
<1>. QED BY <1>1, <1>2 DEF Next, vars, loop, IInv, TypeOK, InCallback, Tick, cheops_sched_add,
            cheops_sched_del, PollReady, PollTimeout, IoDone, RunHead, RunAgain, RunOnce, RunqDone

-----------------------------------------------------------------------------
(* The queue implements Timers. *)

EventsOf(q) == {Event(q[i]) : i \in 1..Len(q)}

LEMMA InsertEvents ==
  ASSUME NEW q \in Seq(Entry), NEW s \in Entry, NEW k \in 1..(Len(q) + 1)
  PROVE  EventsOf(InsertAt(q, k, s)) = EventsOf(q) \union {Event(s)}
<1> DEFINE p == InsertAt(q, k, s)
<1>1. /\ p \in Seq(Entry) /\ Len(p) = Len(q) + 1
      /\ \A i \in 1..(Len(q) + 1) :
           p[i] = IF i < k THEN q[i] ELSE IF i = k THEN s ELSE q[i - 1]
  <2>1. /\ InsertAt(q, k, s) \in Seq(Entry) /\ Len(InsertAt(q, k, s)) = Len(q) + 1
        /\ \A i \in 1..(Len(q) + 1) :
             InsertAt(q, k, s)[i] = IF i < k THEN q[i] ELSE IF i = k THEN s ELSE q[i - 1]
    BY InsertAtProperties
  <2>. QED BY <2>1
<1> HIDE DEF p
<1>2. Len(q) \in Nat /\ k \in Nat
  OBVIOUS
<1>3. ASSUME NEW m \in 1..Len(p)
      PROVE  p[m] = s \/ \E n \in 1..Len(q) : p[m] = q[n]
  <2>1. CASE m < k
    <3>1. m \in 1..Len(q) /\ p[m] = q[m]
      BY <1>1, <1>2, <2>1
    <3>. QED BY <3>1
  <2>2. CASE m > k
    <3>1. m - 1 \in 1..Len(q) /\ p[m] = q[m - 1]
      BY <1>1, <1>2, <2>2
    <3>. QED BY <3>1
  <2>. QED BY <1>1, <1>2, <2>1, <2>2
<1>4. ASSUME NEW n \in 1..Len(q)
      PROVE  \E m \in 1..Len(p) : p[m] = q[n]
  <2>1. CASE n < k
    <3>1. n \in 1..Len(p) /\ p[n] = q[n]
      BY <1>1, <1>2, <2>1
    <3>. QED BY <3>1
  <2>2. CASE n >= k
    <3>1. n + 1 \in 1..Len(p) /\ p[n + 1] = q[n]
      BY <1>1, <1>2, <2>2
    <3>. QED BY <3>1
  <2>. QED BY <1>2, <2>1, <2>2
<1>5. k \in 1..Len(p) /\ p[k] = s
  BY <1>1, <1>2
<1>6. EventsOf(p) \subseteq EventsOf(q) \union {Event(s)}
  BY <1>3 DEF EventsOf
<1>7. EventsOf(q) \subseteq EventsOf(p) /\ Event(s) \in EventsOf(p)
  BY <1>4, <1>5 DEF EventsOf
<1>. QED BY <1>6, <1>7 DEF p

(* The ids tell the events apart, so that one and no other is taken away.   *)
LEMMA DropEvents ==
  ASSUME NEW q \in Seq(Entry), NEW k \in 1..Len(q), NEW p \in Seq(Entry),
         Len(p) = Len(q) - 1,
         \A i \in 1..(Len(q) - 1) : p[i] = IF i < k THEN q[i] ELSE q[i + 1],
         UniqueIds(q)
  PROVE  EventsOf(p) = EventsOf(q) \ {Event(q[k])}
<1>1. Len(q) \in Nat /\ k \in Nat
  OBVIOUS
<1>2. ASSUME NEW m \in 1..Len(p)
      PROVE  \E n \in 1..Len(q) : n # k /\ p[m] = q[n]
  <2>1. CASE m < k
    <3>1. m \in 1..Len(q) /\ p[m] = q[m]
      BY <1>1, <2>1
    <3>. QED BY <2>1, <3>1
  <2>2. CASE m >= k
    <3>1. m + 1 \in 1..Len(q) /\ p[m] = q[m + 1] /\ m + 1 # k
      BY <1>1, <2>2
    <3>. QED BY <3>1
  <2>. QED BY <1>1, <2>1, <2>2
<1>3. ASSUME NEW n \in 1..Len(q), n # k
      PROVE  \E m \in 1..Len(p) : p[m] = q[n]
  <2>1. CASE n < k
    <3>1. n \in 1..Len(p) /\ p[n] = q[n]
      BY <1>1, <2>1
    <3>. QED BY <3>1
  <2>2. CASE n > k
    <3>1. n - 1 \in 1..Len(p) /\ p[n - 1] = q[n]
      BY <1>1, <2>2
    <3>. QED BY <3>1
  <2>. QED BY <1>1, <1>3, <2>1, <2>2
<1>4. \A n \in 1..Len(q) : n # k => Event(q[n]) # Event(q[k])
  BY DEF UniqueIds, Event
<1>5. EventsOf(p) \subseteq EventsOf(q) \ {Event(q[k])}
  BY <1>2, <1>4 DEF EventsOf
<1>6. EventsOf(q) \ {Event(q[k])} \subseteq EventsOf(p)
  BY <1>3 DEF EventsOf
<1>. QED BY <1>5, <1>6

LEMMA UnlinkEvents ==
  ASSUME IInv, NEW k \in 1..Len(schedq),
         schedq' = RemoveAt(schedq, k) \/ (k = 1 /\ schedq' = Tail(schedq))
  PROVE  Pending' = Pending \ {Event(schedq[k])} /\ Event(schedq[k]) \in Pending
<1>1. schedq \in Seq(Entry) /\ Len(schedq) \in Nat /\ UniqueIds(schedq)
  BY DEF IInv, TypeOK, IdsNameOneEvent
<1>2. /\ schedq' \in Seq(Entry)
      /\ Len(schedq') = Len(schedq) - 1
      /\ \A i \in 1..(Len(schedq) - 1) :
           schedq'[i] = IF i < k THEN schedq[i] ELSE schedq[i + 1]
  <2>1. CASE schedq' = RemoveAt(schedq, k)
    BY <1>1, <2>1, RemoveAtProperties
  <2>2. CASE k = 1 /\ schedq' = Tail(schedq)
    <3>1. schedq # <<>>
      BY <1>1, <2>2
    <3>2. /\ Tail(schedq) \in Seq(Entry) /\ Len(Tail(schedq)) = Len(schedq) - 1
          /\ \A i \in 1..Len(Tail(schedq)) : Tail(schedq)[i] = schedq[i + 1]
      BY <1>1, <3>1, HeadTailProperties
    <3>. QED BY <1>1, <2>2, <3>2
  <2>. QED BY <2>1, <2>2
<1>3. EventsOf(schedq') = EventsOf(schedq) \ {Event(schedq[k])}
  BY <1>1, <1>2, DropEvents
<1>4. Event(schedq[k]) \in Pending
  BY DEF Pending
<1>. QED BY <1>3, <1>4 DEF EventsOf, Pending

LEMMA ScheduleEvents ==
  ASSUME IInv, NEW s \in Entry, schedule(s)
  PROVE  Pending' = Pending \union {Event(s)}
<1>1. schedq \in Seq(Entry)
  BY DEF IInv, TypeOK
<1>2. PICK k \in 1..(Len(schedq) + 1) : schedq' = InsertAt(schedq, k, s)
  BY DEF schedule
<1>3. EventsOf(InsertAt(schedq, k, s)) = EventsOf(schedq) \union {Event(s)}
  BY <1>1, InsertEvents
<1>. QED BY <1>2, <1>3 DEF EventsOf, Pending

LEMMA InitImplements == Init => Queue!Init
<1> SUFFICES ASSUME Init PROVE Queue!Init
  OBVIOUS
<1>1. Micros(now) = 0
  BY SecondIsPositive DEF Init, Micros
<1>2. Pending = {}
  BY DEF Init, Pending
<1>. QED BY <1>1, <1>2 DEF Init, Queue!Init

Running == IF current = NoEvent THEN NoEvent ELSE Event(current)

(* One step of the queue is one step of Timers, or changes nothing there.   *)
LEMMA NextImplements == IInv /\ [Next]_vars => [Queue!Next]_(Queue!vars)
<1> SUFFICES ASSUME IInv, [Next]_vars PROVE [Queue!Next]_(Queue!vars)
  OBVIOUS
<1>1. ASSUME NEW ms \in Delays, cheops_sched_add(ms)
      PROVE  Queue!Add(ms)
  <2> DEFINE when == sched_settime(now, ms)
             s == [id |-> eventcnt, when |-> when, resched |-> ms]
  <2>1. ms \in Nat \ {0} /\ when \in Deadline /\ Micros(when) = Micros(now) + ms * UsecPerMs
    BY SettimeType, SettimeExact, SchedAssumption DEF IInv, TypeOK
  <2> HIDE DEF when
  <2>2. s \in Entry
    BY <2>1 DEF Entry, IInv, TypeOK
  <2>3. schedule(s)
    BY <1>1 DEF cheops_sched_add, when
  <2>4. Pending' = Pending \union {Event(s)}
    BY <2>2, <2>3, ScheduleEvents
  <2>5. Event(s) = [id |-> eventcnt, due |-> Micros(now) + ms * UsecPerMs, every |-> ms]
    BY <2>1 DEF Event
  <2>6. eventcnt' = eventcnt + 1 /\ now' = now /\ current' = current
    BY <1>1 DEF cheops_sched_add
  <2>7. Micros(now)' = Micros(now) /\ Event(current)' = Event(current)
    BY <2>6 DEF Micros, Event
  <2>. QED BY <2>4, <2>5, <2>6, <2>7 DEF Queue!Add
<1>2. ASSUME NEW k \in 1..Len(schedq), cheops_sched_del(k)
      PROVE  \E e \in Pending : Queue!Cancel(e)
  <2>1. Pending' = Pending \ {Event(schedq[k])} /\ Event(schedq[k]) \in Pending
    BY <1>2, UnlinkEvents DEF cheops_sched_del
  <2>2. eventcnt' = eventcnt /\ now' = now /\ current' = current
    BY <1>2 DEF cheops_sched_del
  <2>3. Micros(now)' = Micros(now) /\ Event(current)' = Event(current)
    BY <2>2 DEF Micros, Event
  <2>4. Queue!Cancel(Event(schedq[k]))
    BY <2>1, <2>2, <2>3 DEF Queue!Cancel
  <2>. QED BY <2>1, <2>4
<1>3. CASE RunHead
  <2>1. /\ current = NoEvent /\ Due /\ schedq # <<>> /\ current' = schedq[1]
        /\ schedq' = Tail(schedq) /\ now' = now /\ eventcnt' = eventcnt
    BY <1>3 DEF RunHead, Due, IInv, TypeOK
  <2>2. schedq \in Seq(Entry) /\ 1 \in 1..Len(schedq) /\ now \in Clock /\ Ordered(schedq)
    BY <2>1 DEF IInv, TypeOK, SoonestFirst
  <2> DEFINE e == Event(schedq[1])
  <2>3. Pending' = Pending \ {e} /\ e \in Pending
    BY <2>1, <2>2, UnlinkEvents
  <2>4. \A i \in 1..Len(schedq) : schedq[i] \in Entry /\ schedq[i].when \in Deadline
    <3>1. \A i \in 1..Len(schedq) : schedq[i] \in Entry
      BY <2>2
    <3>. QED BY <3>1 DEF Entry
  <2>5. e.due < Micros(now) + UsecPerMs
    BY <2>1, <2>2, <2>4, DueMicros DEF Due, Event
  <2>6. \A f \in Pending : e.due <= f.due
    <3>1. ASSUME NEW i \in 1..Len(schedq)
          PROVE  Micros(schedq[1].when) <= Micros(schedq[i].when)
      <4>1. i = 1 \/ ~SOONER(schedq[i].when, schedq[1].when)
        BY <2>2 DEF Ordered
      <4>2. CASE i = 1
        <5>1. schedq[1].when.sec \in Nat /\ schedq[1].when.usec \in Nat
          BY <2>2, <2>4, SecondIsPositive DEF Deadline
        <5>2. Micros(schedq[1].when) \in Nat
          BY <5>1, MicrosInt
        <5>. QED BY <4>2, <5>2
      <4>3. CASE ~SOONER(schedq[i].when, schedq[1].when)
        BY <2>2, <2>4, <4>3, SoonerMicros
      <4>. QED BY <4>1, <4>2, <4>3
    <3>. QED BY <3>1 DEF Pending, Event
  <2>7. schedq[1] # NoEvent
    BY <2>2, <2>4, NoEventNotEntry
  <2>8. Running = NoEvent /\ Running' = e /\ Micros(now)' = Micros(now)
    BY <2>1, <2>7 DEF Running, Event, Micros
  <2> HIDE DEF e
  <2>9. Queue!Fire(e)
    BY <2>1, <2>3, <2>5, <2>6, <2>8 DEF Queue!Fire, Running
  <2>. QED BY <2>3, <2>9 DEF Queue!Next
<1>4. CASE RunAgain
  <2> DEFINE when == sched_settime(now, current.resched)
             s == [current EXCEPT !.when = when]
  <2>1. current # NoEvent /\ current \in Entry /\ now \in Clock
    BY <1>4 DEF RunAgain, IInv, TypeOK
  <2>2. when \in Deadline /\ Micros(when) = Micros(now) + current.resched * UsecPerMs
    BY <2>1, SettimeType, SettimeExact DEF Entry
  <2> HIDE DEF when
  <2>3. s \in Entry /\ s = [id |-> current.id, when |-> when, resched |-> current.resched]
    BY <2>1, <2>2 DEF Entry
  <2>4. schedule(s) /\ current' = NoEvent /\ now' = now /\ eventcnt' = eventcnt
    BY <1>4 DEF RunAgain, when
  <2>5. Event(s) = [Event(current) EXCEPT !.due = Micros(now) + current.resched * UsecPerMs]
    BY <2>2, <2>3 DEF Event
  <2> HIDE DEF s
  <2>6. Pending' = Pending \union {Event(s)}
    BY <2>3, <2>4, ScheduleEvents
  <2>7. Event(current) # NoEvent /\ Event(current).every = current.resched
    <3>1. current.id \in Nat /\ current.resched \in Nat /\ current.when \in Deadline
      BY <2>1 DEF Entry
    <3>2. Micros(current.when) \in Nat
      BY <3>1, SecondIsPositive, MicrosInt DEF Deadline
    <3>. QED BY <3>1, <3>2, SchedAssumption DEF Event
  <2>8. Running = Event(current) /\ Running' = NoEvent /\ Micros(now)' = Micros(now)
    BY <2>1, <2>4 DEF Running, Micros
  <2>9. Queue!Again
    BY <2>4, <2>5, <2>6, <2>7, <2>8 DEF Queue!Again, Running
  <2>. QED BY <2>9 DEF Queue!Next
<1>5. CASE RunOnce
  <2>1. /\ current # NoEvent /\ current \in Entry /\ current' = NoEvent
        /\ now' = now /\ schedq' = schedq /\ eventcnt' = eventcnt
    BY <1>5 DEF RunOnce, IInv, TypeOK
  <2>2. Event(current) # NoEvent
    <3>1. current.id \in Nat /\ current.resched \in Nat /\ current.when \in Deadline
      BY <2>1 DEF Entry
    <3>2. Micros(current.when) \in Nat
      BY <3>1, SecondIsPositive, MicrosInt DEF Deadline
    <3>. QED BY <3>1, <3>2, SchedAssumption DEF Event
  <2>3. Running = Event(current) /\ Running' = NoEvent
    BY <2>1 DEF Running
  <2>4. Pending' = Pending /\ Micros(now)' = Micros(now)
    BY <2>1 DEF Pending, Event, Micros
  <2>5. Queue!Finish
    BY <2>1, <2>2, <2>3, <2>4 DEF Queue!Finish, Running
  <2>. QED BY <2>5 DEF Queue!Next
<1>6. CASE Tick
  <2>1. now.sec \in Nat /\ now.usec \in Nat /\ now.usec < UsecPerSec
        /\ UsecPerSec \in Nat \ {0} /\ now \in [sec : Nat, usec : 0..(UsecPerSec - 1)]
    BY SecondIsPositive DEF IInv, TypeOK, Clock
  <2>2. \/ now' = [sec |-> now.sec, usec |-> now.usec + 1]
        \/ now.usec + 1 = UsecPerSec /\ now' = [sec |-> now.sec + 1, usec |-> 0]
    BY <1>6, <2>1 DEF Tick
  <2>3. Micros(now)' = Micros(now) + 1
    <3>1. (now.sec + 1) * UsecPerSec = now.sec * UsecPerSec + UsecPerSec
      BY <2>1
    <3>2. now.sec * UsecPerSec \in Nat
      BY <2>1
    <3>. QED BY <2>1, <2>2, <3>1, <3>2 DEF Micros
  <2>4. Pending' = Pending /\ Running' = Running /\ eventcnt' = eventcnt
    BY <1>6 DEF Tick, Pending, Running, Event, Micros
  <2>5. Queue!Clock
    BY <2>3, <2>4 DEF Queue!Clock, Running
  <2>. QED BY <2>5 DEF Queue!Next
<1>7. CASE UNCHANGED <<now, schedq, eventcnt, current>>
  <2>1. Micros(now)' = Micros(now) /\ Pending' = Pending /\ Running' = Running
    BY <1>7 DEF Micros, Pending, Event, Running
  <2>. QED BY <1>7, <2>1 DEF Queue!vars, Running
<1>8. \/ \E ms \in Delays : cheops_sched_add(ms)
      \/ \E k \in 1..Len(schedq) : cheops_sched_del(k)
      \/ RunHead \/ RunAgain \/ RunOnce \/ Tick
      \/ UNCHANGED <<now, schedq, eventcnt, current>>
  BY DEF Next, vars, SleepUntilHead, PollReady, PollTimeout, IoDone, RunqDone
<1>. QED BY <1>1, <1>2, <1>3, <1>4, <1>5, <1>6, <1>7, <1>8 DEF Queue!Next

-----------------------------------------------------------------------------
LEMMA SpecIInv == Spec => []IInv
BY InitIInv, NextIInv, PTL DEF Spec

(* The scheduler's variables keep their types and the counters stay exact,  *)
(* whatever callbacks add and delete (src/sched.c).                         *)
THEOREM SchedTypeCorrect == Spec => []TypeOK
BY SpecIInv, PTL DEF IInv

(* schedule() keeps the queue ordered: the head is a soonest event, which   *)
(* is what cheops_sched_wait and cheops_sched_runq look at (sched.c:147).   *)
THEOREM SchedSoonestFirst == Spec => []SoonestFirst
BY SpecIInv, PTL DEF IInv

(* An id handed out by cheops_sched_add names at most one live event for    *)
(* ever (sched.c:219: "It's nearly impossible that there would be two").    *)
THEOREM SchedIdsNameOneEvent == Spec => []IdsNameOneEvent
BY SpecIInv, PTL DEF IInv

(* cheops_main's wait never runs past a queued event, and is 0 only when    *)
(* the head would be run (sched.c:125, the truncating division; :301, the   *)
(* millisecond of slack).                                                   *)
THEOREM SchedWaitMatchesHead == Spec => []WaitMatchesHead
BY SpecIInv, InitWait, NextWait, PTL DEF Spec

(* The sorted list of timevals implements the abstract set of timers.       *)
THEOREM SchedImplementsTimers == Spec => ImplementsTimers
BY SpecIInv, InitImplements, NextImplements, PTL DEF Spec, ImplementsTimers, Queue!Spec

-----------------------------------------------------------------------------
(* The descriptor table. *)

(* Why ids work: the int behind an entry's id holds the entry's index.  It  *)
(* is what io_shrink repairs for the entry it moves, and it makes every id  *)
(* of the table a live allocation, so that malloc() cannot return it again. *)
IndexInCell == \A i \in 1..fdcnt : cell[table[i].id] = i

(* A held id is in the table; a note to remove is about the running owner. *)
HeldInTable ==
  \A o \in Owners : held[o] # NoHandle =>
    \E i \in 1..fdcnt : table[i].own = o /\ table[i].id = held[o]

NoteIsCurrent ==
  removing => busy # NoOwner /\ held[busy] = NoHandle

(* Nothing allocated yet, or three entries of room for each one in use. *)
RoomToSpare ==
  \/ maxfdcnt = Wrap - 1 /\ fdcnt = 0
  \/ /\ maxfdcnt >= 2 /\ maxfdcnt < MaxRoom
     /\ fdcnt + fdcnt + fdcnt <= maxfdcnt + 1

IoIInv ==
  /\ IoTypeOK
  /\ IndexInCell
  /\ HeldInTable
  /\ EntriesAreHeld
  /\ CurrentSlotStays
  /\ NoteIsCurrent
  /\ RoomToSpare

(* Arithmetic modulo the width of an unsigned. *)
LEMMA ModWrap ==
  /\ (0 - 1) % Wrap = Wrap - 1
  /\ \A r \in 0..(Wrap - 1) : r % Wrap = r /\ (Wrap + r) % Wrap = r
<1>1. Wrap \in Nat /\ Wrap > 0
  BY IoAssumption
<1>2. \A w, r \in Nat : r < w => r % w = r /\ (w + r) % w = r
  OBVIOUS
<1>3. \A w \in Nat : w > 0 => (0 - 1) % w = w - 1
  OBVIOUS
<1>. QED BY <1>1, <1>2, <1>3

(* The strengthening gives the properties that the runs check. *)
LEMMA IInvImplies == IoIInv => IdsLeadHome /\ ArraysLargeEnough
<1> SUFFICES ASSUME IoIInv PROVE IdsLeadHome /\ ArraysLargeEnough
  OBVIOUS
<1>1. IdsLeadHome
  BY DEF IoIInv, IoTypeOK, IndexInCell, HeldInTable, IdsLeadHome
<1>2. ArraysLargeEnough
  <2>1. fdcnt \in Nat /\ maxfdcnt \in 0..(Wrap - 1)
    BY DEF IoIInv, IoTypeOK, fdcnt
  <2>2. CASE maxfdcnt = Wrap - 1 /\ fdcnt = 0
    <3>1. Room = 0
      BY <2>2, ModWrap, IoAssumption DEF Room
    <3>. QED BY <2>2, <3>1 DEF ArraysLargeEnough
  <2>3. CASE maxfdcnt < MaxRoom /\ fdcnt + fdcnt + fdcnt <= maxfdcnt + 1
    <3>1. Room = maxfdcnt + 1
      BY <2>1, <2>3, ModWrap, IoAssumption DEF Room
    <3>. QED BY <2>1, <2>3, <3>1 DEF ArraysLargeEnough
  <2>. QED BY <2>2, <2>3 DEF IoIInv, RoomToSpare
<1>. QED BY <1>1, <1>2

LEMMA IoInitIInv == IoInit => IoIInv
<1> SUFFICES ASSUME IoInit PROVE IoIInv
  OBVIOUS
<1>1. maxfdcnt = Wrap - 1 /\ Wrap - 1 \in 0..(Wrap - 1)
  BY ModWrap, IoAssumption DEF IoInit
<1>2. IoTypeOK
  <2>1. table \in Seq(IoEntry)
    BY EmptySeq DEF IoInit
  <2>2. cell \in [Handles -> Nat] /\ held \in [Owners -> Handles \union {NoHandle}]
    BY DEF IoInit
  <2>3. ready \subseteq Owners /\ x \in Nat /\ busy \in Owners \union {NoOwner} /\ removing \in BOOLEAN
    BY DEF IoInit
  <2>. QED BY <1>1, <2>1, <2>2, <2>3 DEF IoTypeOK
<1>. QED BY <1>1, <1>2, IoAssumption
         DEF IoInit, IoIInv, IndexInCell, HeldInTable, EntriesAreHeld, CurrentSlotStays,
             NoteIsCurrent, RoomToSpare, fdcnt

(* io_shrink(k): what it leaves, in terms of the old table. *)
LEMMA ShrinkTable ==
  ASSUME IoIInv, NEW k \in 1..fdcnt, io_shrink(k)
  PROVE  /\ table' \in Seq(IoEntry)
         /\ fdcnt' = fdcnt - 1
         /\ cell' \in [Handles -> Nat]
         /\ IndexInCell'
         /\ \A i \in 1..fdcnt' : \E j \in 1..fdcnt :
              /\ j # k
              /\ table'[i] = table[j]
              /\ j = (IF i = k THEN fdcnt ELSE i)
         /\ \A j \in 1..fdcnt : j # k => \E i \in 1..fdcnt' : table'[i] = table[j]
         /\ RoomToSpare /\ UNCHANGED maxfdcnt => RoomToSpare'
<1> DEFINE n == fdcnt
           from(i) == IF i = k THEN n ELSE i
<1>1. n \in Nat /\ n >= 1 /\ k \in Nat
  BY DEF IoIInv, IoTypeOK, fdcnt
<1>2. \A i \in 1..n : table[i] \in IoEntry
  BY DEF IoIInv, IoTypeOK, fdcnt
<1>3. table' = [i \in 1..(n - 1) |-> table[from(i)]]
  BY DEF io_shrink
<1>4. \A i \in 1..(n - 1) : from(i) \in 1..n /\ from(i) # k
  BY <1>1
<1>5. table' \in Seq(IoEntry) /\ Len(table') = n - 1
  BY <1>1, <1>2, <1>3, <1>4, IsASeq
<1>6. \A i \in 1..(n - 1) : table'[i] = table[from(i)]
  BY <1>3
<1>7. cell' \in [Handles -> Nat]
  BY <1>1 DEF IoIInv, IoTypeOK, io_shrink
<1>8. \A i, j \in 1..n : i # j => table[i].id # table[j].id
  BY DEF IoIInv, EntriesAreHeld
<1>9. IndexInCell'
  <2> SUFFICES ASSUME NEW i \in 1..(n - 1)
               PROVE  cell'[table'[i].id] = i
    BY <1>5 DEF IndexInCell, fdcnt
  <2>1. table'[i] = table[from(i)] /\ from(i) \in 1..n /\ from(i) # k
    BY <1>4, <1>6
  <2>2. table[from(i)].id \in Handles /\ cell[table[from(i)].id] = from(i)
    BY <1>2, <2>1 DEF IoEntry, IoIInv, IndexInCell
  <2>3. table[from(i)].id # table[k].id
    BY <1>8, <2>1
  <2>4. CASE i = k
    BY <2>1, <2>2, <2>3, <2>4 DEF io_shrink
  <2>5. CASE i # k
    <3>1. table[from(i)].id # table[n].id
      BY <1>1, <1>8, <2>1, <2>5
    <3>. QED BY <2>1, <2>2, <2>3, <2>5, <3>1 DEF io_shrink
  <2>. QED BY <2>4, <2>5
<1>10. ASSUME NEW j \in 1..n, j # k
       PROVE  \E i \in 1..(n - 1) : table'[i] = table[j]
  <2>1. CASE j = n
    BY <1>1, <1>6, <1>10, <2>1
  <2>2. CASE j # n
    BY <1>1, <1>6, <1>10, <2>2
  <2>. QED BY <2>1, <2>2
<1>11. RoomToSpare /\ UNCHANGED maxfdcnt => RoomToSpare'
  <2> SUFFICES ASSUME RoomToSpare, UNCHANGED maxfdcnt PROVE RoomToSpare'
    OBVIOUS
  <2>1. /\ maxfdcnt >= 2 /\ maxfdcnt < MaxRoom
        /\ n + n + n <= maxfdcnt + 1
    BY <1>1 DEF RoomToSpare
  <2>2. maxfdcnt \in Int
    BY IoAssumption DEF IoIInv, IoTypeOK
  <2>3. (n - 1) + (n - 1) + (n - 1) <= maxfdcnt + 1
    BY <1>1, <2>1, <2>2
  <2>4. fdcnt' = n - 1
    BY <1>5 DEF fdcnt
  <2> HIDE DEF n
  <2>. QED BY <2>1, <2>3, <2>4 DEF RoomToSpare
<1>12. \A i \in 1..(n - 1) : \E j \in 1..n :
          j # k /\ table'[i] = table[j] /\ j = (IF i = k THEN n ELSE i)
  BY <1>4, <1>6
<1>. QED BY <1>5, <1>7, <1>9, <1>10, <1>11, <1>12 DEF fdcnt
(* The first growth takes maxfdcnt from UINT_MAX to GrowBy - 1, later ones   *)
(* add GrowBy; one entry more still leaves room to spare.                   *)
LEMMA GrowLeavesRoom ==
  ASSUME IoIInv, io_grow, fdcnt' = fdcnt + 1
  PROVE  RoomToSpare' /\ maxfdcnt' \in 0..(Wrap - 1)
<1>1. fdcnt \in Nat /\ maxfdcnt \in 0..(Wrap - 1) /\ RoomToSpare
  BY DEF IoIInv, IoTypeOK, fdcnt
<1>2. Wrap \in Nat /\ GrowBy \in Nat /\ GrowBy >= 3 /\ MaxRoom \in Nat
      /\ Wrap > MaxRoom /\ Wrap > GrowBy
  BY IoAssumption
<1>3. CASE maxfdcnt = Wrap - 1 /\ fdcnt = 0
  <2>1. Room = 0
    BY <1>2, <1>3, ModWrap DEF Room
  <2>2. NeedsToGrow
    BY <1>2, <1>3, <2>1 DEF NeedsToGrow
  <2>3. GrowBy <= MaxRoom /\ maxfdcnt' = (maxfdcnt + GrowBy) % Wrap
    BY <1>2, <2>1, <2>2 DEF io_grow
  <2>4. maxfdcnt + GrowBy = Wrap + (GrowBy - 1) /\ GrowBy - 1 \in 0..(Wrap - 1)
    BY <1>2, <1>3, <2>3
  <2>5. maxfdcnt' = GrowBy - 1
    BY <2>3, <2>4, ModWrap
  <2>. QED BY <1>2, <1>3, <2>3, <2>5 DEF RoomToSpare
<1>4. CASE /\ maxfdcnt >= 2 /\ maxfdcnt < MaxRoom
           /\ fdcnt + fdcnt + fdcnt <= maxfdcnt + 1
  <2>1. Room = maxfdcnt + 1 /\ NeedsToGrow
    BY <1>1, <1>2, <1>4, ModWrap DEF Room, NeedsToGrow
  <2>2. maxfdcnt + 1 + GrowBy <= MaxRoom /\ maxfdcnt' = (maxfdcnt + GrowBy) % Wrap
    BY <2>1 DEF io_grow
  <2>3. maxfdcnt' = maxfdcnt + GrowBy
    BY <1>1, <1>2, <2>2, ModWrap
  <2>. QED BY <1>1, <1>2, <1>4, <2>2, <2>3 DEF RoomToSpare
<1>. QED BY <1>1, <1>3, <1>4 DEF RoomToSpare

LEMMA AddStep ==
  ASSUME IoIInv, NEW o \in Owners, NEW h \in Handles, cheops_io_add(o, h)
  PROVE  IoIInv'
<1> DEFINE n == fdcnt
           e == [own |-> o, id |-> h, revents |-> FALSE]
<1>1. n \in Nat /\ e \in IoEntry /\ \A i \in 1..n : table[i] \in IoEntry
  <2>1. e \in IoEntry
    BY DEF IoEntry
  <2>2. table \in Seq(IoEntry)
    BY DEF IoIInv, IoTypeOK
  <2>. QED BY <2>1, <2>2 DEF fdcnt
<1>2. /\ table' \in Seq(IoEntry) /\ Len(table') = n + 1
      /\ \A i \in 1..n : table'[i] = table[i]
      /\ table'[n + 1] = e
  BY <1>1, AppendProperties DEF cheops_io_add, IoIInv, IoTypeOK, fdcnt
<1>3. RoomToSpare' /\ maxfdcnt' \in 0..(Wrap - 1)
  BY <1>2, GrowLeavesRoom DEF cheops_io_add, fdcnt
<1> HIDE DEF e
<1>4. e.own = o /\ e.id = h
  BY DEF e
<1>5. \A i \in 1..n : table[i].own # o /\ table[i].id # h
  <2> SUFFICES ASSUME NEW i \in 1..n PROVE table[i].own # o /\ table[i].id # h
    OBVIOUS
  <2>1. table[i].own # o
    BY <1>1, IoAssumption DEF cheops_io_add, IoIInv, EntriesAreHeld, IoEntry
  <2>2. cell[table[i].id] = i /\ i # 0 /\ cell[h] = 0
    BY <1>1 DEF cheops_io_add, IoIInv, IndexInCell
  <2>. QED BY <2>1, <2>2
<1>6. held' = [held EXCEPT ![o] = h] /\ held[o] = NoHandle /\ o # busy
  BY DEF cheops_io_add
<1>7. IoTypeOK'
  BY <1>1, <1>2, <1>3 DEF cheops_io_add, IoIInv, IoTypeOK, fdcnt
<1>8. IndexInCell'
  <2> SUFFICES ASSUME NEW i \in 1..(n + 1) PROVE cell'[table'[i].id] = i
    BY <1>2 DEF IndexInCell, fdcnt
  <2>1. cell' = [cell EXCEPT ![h] = n + 1] /\ cell \in [Handles -> Nat]
    BY DEF cheops_io_add, IoIInv, IoTypeOK
  <2>2. CASE i = n + 1
    BY <1>2, <1>4, <2>1, <2>2
  <2>3. CASE i # n + 1
    <3>1. i \in 1..n
      BY <1>1, <2>3
    <3>2. table'[i] = table[i] /\ table[i].id # h /\ table[i].id \in Handles
      BY <1>1, <1>2, <1>5, <3>1 DEF IoEntry
    <3>. QED BY <2>1, <3>1, <3>2 DEF IoIInv, IndexInCell
  <2>. QED BY <2>2, <2>3
<1>9. HeldInTable'
  <2> SUFFICES ASSUME NEW p \in Owners, held'[p] # NoHandle
               PROVE  \E i \in 1..(n + 1) : table'[i].own = p /\ table'[i].id = held'[p]
    BY <1>2 DEF HeldInTable, fdcnt
  <2>1. CASE p = o
    BY <1>1, <1>2, <1>4, <1>6, <2>1 DEF IoIInv, IoTypeOK
  <2>2. CASE p # o
    <3>1. held'[p] = held[p]
      BY <1>6, <2>2 DEF IoIInv, IoTypeOK
    <3>2. PICK i \in 1..n : table[i].own = p /\ table[i].id = held[p]
      BY <3>1 DEF IoIInv, HeldInTable
    <3>. QED BY <1>1, <1>2, <3>1, <3>2
  <2>. QED BY <2>1, <2>2
<1>10. EntriesAreHeld'
  <2>1. ASSUME NEW i \in 1..(n + 1)
        PROVE  \/ held'[table'[i].own] = table'[i].id
               \/ i = x' /\ busy' = table'[i].own /\ removing'
    <3>1. CASE i = n + 1
      BY <1>2, <1>4, <1>6, <3>1 DEF IoIInv, IoTypeOK
    <3>2. CASE i # n + 1
      <4>1. i \in 1..n
        BY <1>1, <3>2
      <4>2. table'[i] = table[i] /\ table[i].own # o /\ table[i].own \in Owners
        BY <1>1, <1>2, <1>5, <4>1 DEF IoEntry
      <4>3. held'[table[i].own] = held[table[i].own]
        BY <1>6, <4>2 DEF IoIInv, IoTypeOK
      <4>. QED BY <4>1, <4>2, <4>3 DEF IoIInv, EntriesAreHeld, cheops_io_add
    <3>. QED BY <3>1, <3>2
  <2>2. ASSUME NEW i \in 1..(n + 1), NEW j \in 1..(n + 1), i # j
        PROVE  table'[i].own # table'[j].own /\ table'[i].id # table'[j].id
    <3>1. CASE i \in 1..n /\ j \in 1..n
      BY <1>2, <2>2, <3>1 DEF IoIInv, EntriesAreHeld
    <3>2. CASE i = n + 1 /\ j \in 1..n
      BY <1>2, <1>4, <1>5, <3>2
    <3>3. CASE i \in 1..n /\ j = n + 1
      BY <1>2, <1>4, <1>5, <3>3
    <3>. QED BY <1>1, <2>2, <3>1, <3>2, <3>3
  <2>. QED BY <1>2, <2>1, <2>2 DEF EntriesAreHeld, fdcnt
<1>11. CurrentSlotStays' /\ NoteIsCurrent'
  BY <1>1, <1>2, <1>6 DEF cheops_io_add, IoIInv, IoTypeOK, CurrentSlotStays, NoteIsCurrent, fdcnt
<1>. QED BY <1>3, <1>7, <1>8, <1>9, <1>10, <1>11 DEF IoIInv

(* The entry of o goes, and with it the id that o held: by a timer, or after *)
(* the callback of the entry.                                               *)
LEMMA ShrinkStep ==
  ASSUME IoIInv, NEW k \in 1..fdcnt, NEW o \in Owners, table[k].own = o,
         \A i \in 1..fdcnt : i # k => held[table[i].own] = table[i].id,
         io_shrink(k), held' = [held EXCEPT ![o] = NoHandle],
         UNCHANGED maxfdcnt, ready' \subseteq Owners, x' \in Nat,
         busy' = NoOwner, removing' = FALSE
  PROVE  IoIInv'
<1> DEFINE n == fdcnt
<1>1. n \in Nat /\ n >= 1 /\ \A i \in 1..n : table[i] \in IoEntry
  <2>1. table \in Seq(IoEntry)
    BY DEF IoIInv, IoTypeOK
  <2>. QED BY <2>1 DEF fdcnt
<1>2. /\ table' \in Seq(IoEntry)
      /\ fdcnt' = n - 1
      /\ cell' \in [Handles -> Nat]
      /\ IndexInCell'
      /\ RoomToSpare'
  BY ShrinkTable DEF IoIInv
<1>3. \A i \in 1..fdcnt' : \E j \in 1..n :
        j # k /\ table'[i] = table[j] /\ j = (IF i = k THEN n ELSE i)
  BY ShrinkTable
<1>4. \A j \in 1..n : j # k => \E i \in 1..fdcnt' : table'[i] = table[j]
  BY ShrinkTable
<1>5. held' \in [Owners -> Handles \union {NoHandle}]
  BY DEF IoIInv, IoTypeOK
<1>6. \A p \in Owners : p # o => held'[p] = held[p]
  BY DEF IoIInv, IoTypeOK
<1>7. held'[o] = NoHandle
  BY DEF IoIInv, IoTypeOK
<1>8. \A i, j \in 1..n : i # j => table[i].own # table[j].own /\ table[i].id # table[j].id
  BY DEF IoIInv, EntriesAreHeld
<1>9. IoTypeOK'
  BY <1>2, <1>5 DEF IoTypeOK, IoIInv
<1>10. HeldInTable'
  <2> SUFFICES ASSUME NEW p \in Owners, held'[p] # NoHandle
               PROVE  \E i \in 1..fdcnt' : table'[i].own = p /\ table'[i].id = held'[p]
    BY DEF HeldInTable
  <2>1. p # o /\ held'[p] = held[p]
    BY <1>6, <1>7
  <2>2. PICK j \in 1..n : table[j].own = p /\ table[j].id = held[p]
    BY <2>1 DEF IoIInv, HeldInTable
  <2>3. PICK i \in 1..fdcnt' : table'[i] = table[j]
    BY <1>4, <2>1, <2>2
  <2>. QED BY <2>1, <2>2, <2>3
<1>11. EntriesAreHeld'
  <2>1. ASSUME NEW i \in 1..fdcnt'
        PROVE  held'[table'[i].own] = table'[i].id
    <3>1. PICK j \in 1..n : j # k /\ table'[i] = table[j]
      BY <1>3, <2>1
    <3>2. table[j].own # o /\ table[j].own \in Owners
      BY <1>1, <1>8, <3>1 DEF IoEntry
    <3>. QED BY <1>6, <3>1, <3>2
  <2>2. ASSUME NEW i \in 1..fdcnt', NEW j \in 1..fdcnt', i # j
        PROVE  table'[i].own # table'[j].own /\ table'[i].id # table'[j].id
    <3>1. PICK a \in 1..n : a # k /\ table'[i] = table[a] /\ a = (IF i = k THEN n ELSE i)
      BY <1>3, <2>2
    <3>2. PICK b \in 1..n : b # k /\ table'[j] = table[b] /\ b = (IF j = k THEN n ELSE j)
      BY <1>3, <2>2
    <3>3. a # b
      BY <1>1, <1>2, <2>2, <3>1, <3>2
    <3>. QED BY <1>8, <3>1, <3>2, <3>3
  <2>. QED BY <2>1, <2>2 DEF EntriesAreHeld
<1>12. CurrentSlotStays' /\ NoteIsCurrent'
  BY DEF CurrentSlotStays, NoteIsCurrent
<1>. QED BY <1>2, <1>9, <1>10, <1>11, <1>12 DEF IoIInv

(* The steps that leave the ids and the order of the table alone. *)
LEMMA SameTableStep ==
  ASSUME IoIInv, table' \in Seq(IoEntry), Len(table') = fdcnt,
         \A i \in 1..fdcnt : table'[i].own = table[i].own /\ table'[i].id = table[i].id,
         UNCHANGED <<cell, held, maxfdcnt>>,
         ready' \subseteq Owners, x' \in Nat,
         busy' \in Owners \union {NoOwner}, removing' \in BOOLEAN,
         ~removing, CurrentSlotStays', NoteIsCurrent'
  PROVE  IoIInv'
<1>1. IoTypeOK'
  BY DEF IoIInv, IoTypeOK
<1>2. fdcnt' = fdcnt /\ fdcnt \in Nat
  BY DEF IoIInv, IoTypeOK, fdcnt
<1>3. IndexInCell' /\ HeldInTable' /\ EntriesAreHeld'
  BY <1>2 DEF IoIInv, IndexInCell, HeldInTable, EntriesAreHeld
<1>4. RoomToSpare'
  BY <1>2 DEF IoIInv, RoomToSpare
<1>. QED BY <1>1, <1>3, <1>4 DEF IoIInv

LEMMA IoNextIInv == IoIInv /\ [IoNext]_ioVars => IoIInv'
<1> SUFFICES ASSUME IoIInv, [IoNext]_ioVars PROVE IoIInv'
  OBVIOUS
<1>1. /\ table \in Seq(IoEntry) /\ fdcnt \in Nat /\ fdcnt = Len(table)
      /\ \A i \in 1..fdcnt : table[i] \in IoEntry /\ table[i].own \in Owners
  <2>1. table \in Seq(IoEntry) /\ fdcnt = Len(table)
    BY DEF IoIInv, IoTypeOK, fdcnt
  <2>2. fdcnt \in Nat /\ \A i \in 1..fdcnt : table[i] \in IoEntry
    BY <2>1
  <2>. QED BY <2>1, <2>2 DEF IoEntry
<1>2. /\ ready \subseteq Owners /\ x \in Nat /\ busy \in Owners \union {NoOwner}
      /\ removing \in BOOLEAN /\ NoOwner \notin Owners /\ NoHandle \notin Handles
  BY IoAssumption DEF IoIInv, IoTypeOK
<1>3. busy = NoOwner => ~removing
  BY DEF IoIInv, NoteIsCurrent
<1>4. ASSUME NEW o \in Owners, NEW h \in Handles, cheops_io_add(o, h)
      PROVE  IoIInv'
  BY <1>4, AddStep
<1>5. ASSUME NEW o \in Owners, RemoveEntry(o)
      PROVE  IoIInv'
  <2> DEFINE k == cell[held[o]]
  <2>1. /\ x = 0 /\ held[o] # NoHandle /\ k \in 1..fdcnt
        /\ io_shrink(k) /\ held' = [held EXCEPT ![o] = NoHandle]
        /\ UNCHANGED <<maxfdcnt, ready, x, busy, removing>>
    BY <1>5 DEF RemoveEntry
  <2>2. table[k].own = o
    BY <2>1, IInvImplies DEF IdsLeadHome
  <2>3. busy = NoOwner
    BY <1>2, <2>1 DEF IoIInv, CurrentSlotStays
  <2>4. \A i \in 1..fdcnt : held[table[i].own] = table[i].id
    BY <1>1, <2>1 DEF IoIInv, EntriesAreHeld
  <2> HIDE DEF k
  <2>. QED BY <1>2, <1>3, <2>1, <2>2, <2>3, <2>4, ShrinkStep
<1>6. CASE RemoveSelf
  <2>1. /\ busy \in Owners /\ held[busy] # NoHandle /\ removing' = TRUE
        /\ held' = [held EXCEPT ![busy] = NoHandle]
        /\ UNCHANGED <<table, cell, maxfdcnt, ready, x, busy>>
    BY <1>2, <1>6 DEF RemoveSelf
  <2>2. /\ held'[busy] = NoHandle
        /\ \A p \in Owners : p # busy => held'[p] = held[p]
        /\ held' \in [Owners -> Handles \union {NoHandle}]
    BY <2>1 DEF IoIInv, IoTypeOK
  <2>3. IoTypeOK' /\ NoteIsCurrent'
    BY <1>2, <2>1, <2>2 DEF IoIInv, IoTypeOK, NoteIsCurrent
  <2>6. IndexInCell' /\ RoomToSpare' /\ CurrentSlotStays'
    BY <2>1 DEF IoIInv, IndexInCell, RoomToSpare, CurrentSlotStays, fdcnt
  <2>4. HeldInTable'
    BY <2>1, <2>2 DEF IoIInv, HeldInTable, fdcnt
  <2>5. EntriesAreHeld'
    <3>1. x \in 1..fdcnt /\ table[x].own = busy
      BY <1>2, <2>1 DEF IoIInv, CurrentSlotStays
    <3>2. ASSUME NEW i \in 1..fdcnt
          PROVE  \/ held'[table[i].own] = table[i].id
                 \/ i = x /\ busy = table[i].own
      <4>1. CASE i = x
        BY <3>1, <4>1
      <4>2. CASE i # x
        <5>1. table[i].own # busy
          BY <3>1, <4>2 DEF IoIInv, EntriesAreHeld
        <5>. QED BY <1>1, <2>2, <4>2, <5>1 DEF IoIInv, EntriesAreHeld
      <4>. QED BY <4>1, <4>2
    <3>. QED BY <2>1, <3>2 DEF IoIInv, EntriesAreHeld, fdcnt
  <2>. QED BY <2>3, <2>4, <2>5, <2>6 DEF IoIInv
<1>7. CASE Poll
  <2>1. table' = [i \in 1..fdcnt |-> [table[i] EXCEPT !.revents = table[i].own \in ready]]
    BY <1>7 DEF Poll
  <2>2. \A i \in 1..fdcnt : [table[i] EXCEPT !.revents = table[i].own \in ready] \in IoEntry
    <3>1. \A e \in IoEntry : \A b \in BOOLEAN : [e EXCEPT !.revents = b] \in IoEntry
      BY DEF IoEntry
    <3>2. \A i \in 1..fdcnt : (table[i].own \in ready) \in BOOLEAN
      OBVIOUS
    <3>. QED BY <1>1, <3>1, <3>2, Zenon
  <2>3. table' \in Seq(IoEntry) /\ Len(table') = fdcnt
    BY <1>1, <2>1, <2>2, IsASeq
  <2>4. \A i \in 1..fdcnt : table'[i].own = table[i].own /\ table'[i].id = table[i].id
    BY <1>1, <2>1 DEF IoEntry
  <2>5. busy = NoOwner
    BY <1>2, <1>7 DEF Poll, IoIInv, CurrentSlotStays
  <2>6. CurrentSlotStays' /\ NoteIsCurrent' /\ x' \in Nat
    BY <1>3, <1>7, <2>5 DEF Poll, CurrentSlotStays, NoteIsCurrent
  <2>. QED BY <1>2, <1>3, <1>7, <2>3, <2>4, <2>5, <2>6, SameTableStep DEF Poll
<1>8. CASE CallOwner
  <2>1. /\ x \in 1..fdcnt /\ busy = NoOwner /\ busy' = table[x].own /\ removing' = FALSE
        /\ UNCHANGED <<table, cell, held, maxfdcnt, ready, x>>
    BY <1>8 DEF CallOwner
  <2>2. CurrentSlotStays' /\ NoteIsCurrent' /\ busy' \in Owners
    BY <1>1, <2>1 DEF CurrentSlotStays, NoteIsCurrent, fdcnt
  <2>. QED BY <1>1, <1>2, <1>3, <2>1, <2>2, SameTableStep
<1>9. CASE SkipEntry
  <2>1. busy = NoOwner /\ x' = x + 1 /\ UNCHANGED <<table, cell, held, maxfdcnt, ready, busy, removing>>
    BY <1>9 DEF SkipEntry
  <2>2. CurrentSlotStays' /\ NoteIsCurrent' /\ x' \in Nat
    BY <1>2, <1>3, <2>1 DEF CurrentSlotStays, NoteIsCurrent
  <2>. QED BY <1>1, <1>2, <1>3, <2>1, <2>2, SameTableStep
<1>10. CASE ScanDone
  <2>1. busy = NoOwner /\ x' = 0 /\ UNCHANGED <<table, cell, held, maxfdcnt, ready, busy, removing>>
    BY <1>10 DEF ScanDone
  <2>2. CurrentSlotStays' /\ NoteIsCurrent'
    BY <1>3, <2>1 DEF CurrentSlotStays, NoteIsCurrent
  <2>. QED BY <1>1, <1>2, <1>3, <2>1, <2>2, SameTableStep
<1>11. ASSUME NEW keep \in BOOLEAN, NEW more \in BOOLEAN, Return(keep, more)
       PROVE  IoIInv'
  <2>1. /\ busy # NoOwner /\ x' = x + 1 /\ busy' = NoOwner /\ removing' = FALSE
        /\ UNCHANGED maxfdcnt
    BY <1>11 DEF Return
  <2>2. ready' \subseteq Owners
    BY <1>2, <1>11 DEF Return
  <2>3. busy \in Owners /\ x \in 1..fdcnt /\ table[x].own = busy /\ x' \in Nat
    BY <1>2, <2>1 DEF IoIInv, CurrentSlotStays
  <2>4. CASE keep /\ ~removing
    <3>1. UNCHANGED <<table, cell, held>>
      BY <1>11, <2>4 DEF Return
    <3>2. CurrentSlotStays' /\ NoteIsCurrent'
      BY <2>1 DEF CurrentSlotStays, NoteIsCurrent
    <3>. QED BY <1>1, <2>1, <2>2, <2>3, <2>4, <3>1, <3>2, SameTableStep
  <2>5. CASE ~(keep /\ ~removing)
    <3>1. io_shrink(x) /\ held' = [held EXCEPT ![busy] = NoHandle]
      BY <1>11, <2>5 DEF Return
    <3>2. \A i \in 1..fdcnt : i # x => held[table[i].own] = table[i].id
      BY <1>1 DEF IoIInv, EntriesAreHeld
    <3>. QED BY <2>1, <2>2, <2>3, <3>1, <3>2, ShrinkStep
  <2>. QED BY <2>4, <2>5
<1>12. ASSUME NEW o \in Owners, BecomeReady(o)
       PROVE  IoIInv'
  BY <1>2, <1>12 DEF BecomeReady, IoIInv, IoTypeOK, IndexInCell, HeldInTable, EntriesAreHeld,
                     CurrentSlotStays, NoteIsCurrent, RoomToSpare, fdcnt
<1>13. CASE UNCHANGED ioVars
  BY <1>13 DEF ioVars, IoIInv, IoTypeOK, IndexInCell, HeldInTable, EntriesAreHeld,
               CurrentSlotStays, NoteIsCurrent, RoomToSpare, fdcnt
<1>. QED BY <1>4, <1>5, <1>6, <1>7, <1>8, <1>9, <1>10, <1>11, <1>12, <1>13 DEF IoNext

LEMMA IoSpecIInv == IoSpec => []IoIInv
BY IoInitIInv, IoNextIInv, PTL DEF IoSpec

(* The state of io.c keeps its types for any number of descriptors. *)
THEOREM IoTypeCorrect == IoSpec => []IoTypeOK
<1>1. IoIInv => IoTypeOK
  BY DEF IoIInv
<1>. QED BY <1>1, IoSpecIInv, PTL

(* An id leads to the entry of the owner that holds it: io_shrink repairs   *)
(* the int of the one entry that it moves.                                  *)
THEOREM IoIdsLeadHome == IoSpec => []IdsLeadHome
BY IInvImplies, IoSpecIInv, PTL

(* The entries are those of the owners that still hold an id, or the one    *)
(* whose callback has just removed itself.                                  *)
THEOREM IoEntriesAreHeld == IoSpec => []EntriesAreHeld
<1>1. IoIInv => EntriesAreHeld
  BY DEF IoIInv
<1>. QED BY <1>1, IoSpecIInv, PTL

(* cheops_io_wait shrinks the slot of the callback that it called. *)
THEOREM IoCurrentSlotStays == IoSpec => []CurrentSlotStays
<1>1. IoIInv => CurrentSlotStays
  BY DEF IoIInv
<1>. QED BY <1>1, IoSpecIInv, PTL

(* The inverted test of cheops_io_add never leaves the arrays too small:    *)
(* every add grows them by at least three entries.                          *)
THEOREM IoArraysLargeEnough == IoSpec => []ArraysLargeEnough
BY IInvImplies, IoSpecIInv, PTL

=============================================================================
