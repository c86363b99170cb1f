----------------------------- MODULE AdnsProofs -----------------------------
(* Proofs about Adns, for any number of queries and servers.                *)
EXTENDS Adns, SequenceTheorems, FiniteSetTheorems, WellFoundedInduction, TLAPS

-----------------------------------------------------------------------------
(* Queues: sequences without repetition. *)

(* Removing place k shifts the elements after k down by one. *)
LEMMA RemoveAtProperties ==
  ASSUME NEW S, NEW q \in Seq(S), NEW k \in 1..Len(q)
  PROVE  /\ RemoveAt(q, k) \in Seq(S)
         /\ Len(RemoveAt(q, k)) = Len(q) - 1
         /\ \A i \in 1..(Len(q) - 1) :
              RemoveAt(q, k)[i] = IF i < k THEN q[i] ELSE q[i + 1]
<1> DEFINE a == SubSeq(q, 1, k - 1)
           b == SubSeq(q, k + 1, Len(q))
<1>1. Len(q) \in Nat /\ k \in Nat
  BY LenProperties
<1>2. /\ a \in Seq(S) /\ Len(a) = k - 1
      /\ \A i \in 1..(k - 1) : a[i] = q[i]
  BY <1>1, SubSeqProperties
<1>3. /\ b \in Seq(S) /\ Len(b) = Len(q) - k
      /\ \A i \in 1..(Len(q) - k) : b[i] = q[k + i]
  BY <1>1, SubSeqProperties
<1> HIDE DEF a, b
<1>4. RemoveAt(q, k) = a \o b
  BY DEF RemoveAt, a, b
<1>5. /\ a \o b \in Seq(S) /\ Len(a \o b) = Len(q) - 1
      /\ \A i \in 1..(Len(q) - 1) : (a \o b)[i] = IF i <= k - 1 THEN a[i] ELSE b[i - (k - 1)]
  <2>1. Len(a) + Len(b) = Len(q) - 1
    BY <1>1, <1>2, <1>3
  <2>2. /\ a \o b \in Seq(S) /\ Len(a \o b) = Len(a) + Len(b)
        /\ \A i \in 1..(Len(a) + Len(b)) :
             (a \o b)[i] = IF i <= Len(a) THEN a[i] ELSE b[i - Len(a)]
    BY <1>2, <1>3, ConcatProperties
  <2>. QED BY <1>2, <2>1, <2>2, Zenon
<1>6. ASSUME NEW i \in 1..(Len(q) - 1)
      PROVE (a \o b)[i] = IF i < k THEN q[i] ELSE q[i + 1]
  <2>1. CASE i < k
    BY <1>1, <1>2, <1>5, <2>1
  <2>2. CASE i >= k
    <3>1. i - (k - 1) \in 1..(Len(q) - k) /\ k + (i - (k - 1)) = i + 1
      BY <1>1, <2>2
    <3>2. b[i - (k - 1)] = q[i + 1]
      BY <1>3, <3>1
    <3>. QED BY <1>1, <1>5, <2>2, <3>2
  <2>3. i < k \/ i >= k
    BY <1>1
  <2>. QED BY <2>1, <2>2, <2>3, Zenon
<1>. QED BY <1>4, <1>5, <1>6

(* A queue of the members of S. *)
QueueFor(seq, S) == seq \in Seq(Queries) /\ IsInjective(seq) /\ Listed(seq) = S

LEMMA SeqFacts ==
  ASSUME NEW q \in Seq(Queries)
  PROVE  /\ Len(q) \in Nat /\ DOMAIN q = 1..Len(q)
         /\ \A i \in 1..Len(q) : q[i] \in Queries
         /\ IsInjective(q) <=> \A i, j \in 1..Len(q) : q[i] = q[j] => i = j
<1>1. Len(q) \in Nat /\ DOMAIN q = 1..Len(q)
  BY LenProperties
<1>2. \A i \in 1..Len(q) : q[i] \in Queries
  BY ElementOfSeq
<1>. QED BY <1>1, <1>2 DEF IsInjective

LEMMA EmptyQueue == QueueFor(<<>>, {})
<1>1. <<>> \in Seq(Queries) /\ Len(<<>>) = 0
  OBVIOUS
<1>2. 1..Len(<<>>) = {}
  BY <1>1
<1>3. Listed(<<>>) = {}
  BY <1>2 DEF Listed
<1>4. IsInjective(<<>>)
  BY <1>1, <1>2, SeqFacts
<1>. QED BY <1>1, <1>3, <1>4 DEF QueueFor

LEMMA AppendQueue ==
  ASSUME NEW q, NEW S, QueueFor(q, S), NEW e \in Queries, e \notin S
  PROVE  QueueFor(Append(q, e), S \union {e})
<1> DEFINE p == Append(q, e)
<1>1. /\ q \in Seq(Queries) /\ Len(q) \in Nat /\ Listed(q) = S
      /\ \A i, j \in 1..Len(q) : q[i] = q[j] => i = j
  BY SeqFacts DEF QueueFor
<1>2. /\ p \in Seq(Queries) /\ Len(p) = Len(q) + 1 /\ p[Len(q) + 1] = e
      /\ \A i \in 1..Len(q) : p[i] = q[i]
  BY <1>1, AppendProperties
<1> HIDE DEF p
<1>3. /\ \A i \in 1..Len(p) : i = Len(q) + 1 \/ i \in 1..Len(q)
      /\ \A i \in 1..Len(q) : i \in 1..Len(p) /\ i # Len(q) + 1
      /\ Len(q) + 1 \in 1..Len(p)
  BY <1>1, <1>2
<1>4. \A i \in 1..Len(q) : q[i] \in S
  BY <1>1 DEF Listed
<1>5. Listed(p) = S \union {e}
  <2>1. ASSUME NEW i \in 1..Len(p) PROVE p[i] \in S \union {e}
    BY <1>2, <1>3, <1>4
  <2>2. e \in Listed(p)
    <3>1. p[Len(q) + 1] = e /\ Len(q) + 1 \in 1..Len(p)
      BY <1>2, <1>3
    <3>. QED BY <3>1 DEF Listed
  <2>3. ASSUME NEW i \in 1..Len(q) PROVE q[i] \in Listed(p)
    <3>1. p[i] = q[i] /\ i \in 1..Len(p)
      BY <1>2, <1>3
    <3>. QED BY <3>1 DEF Listed
  <2>4. Listed(p) \subseteq S \union {e}
    BY <2>1 DEF Listed
  <2>5. S \subseteq Listed(p)
    BY <1>1, <2>3 DEF Listed
  <2>. QED BY <2>2, <2>4, <2>5
<1>6. ASSUME NEW i \in 1..Len(p), NEW j \in 1..Len(p), p[i] = p[j]
      PROVE  i = j
  <2>1. ASSUME NEW k \in 1..Len(q) PROVE p[k] # e
    BY <1>2, <1>4, <2>1
  <2>2. CASE i \in 1..Len(q) /\ j \in 1..Len(q)
    BY <1>1, <1>2, <1>6, <2>2
  <2>3. CASE i = Len(q) + 1 \/ j = Len(q) + 1
    BY <1>2, <1>3, <1>6, <2>1, <2>3
  <2>. QED BY <1>3, <2>2, <2>3
<1>. QED BY <1>2, <1>5, <1>6, SeqFacts DEF QueueFor, p

LEMMA WithoutQueue ==
  ASSUME NEW q, NEW S, QueueFor(q, S), NEW e \in S
  PROVE  QueueFor(Without(q, e), S \ {e})
<1> DEFINE k == CHOOSE i \in DOMAIN q : q[i] = e
           p == RemoveAt(q, k)
           to(i) == IF i < k THEN i ELSE i + 1
<1>1. /\ q \in Seq(Queries) /\ Len(q) \in Nat /\ DOMAIN q = 1..Len(q)
      /\ \A i, j \in 1..Len(q) : q[i] = q[j] => i = j
      /\ S = {q[i] : i \in 1..Len(q)}
  BY SeqFacts DEF QueueFor, Listed
<1>2. k \in 1..Len(q) /\ q[k] = e
  <2>1. \E i \in DOMAIN q : q[i] = e
    BY <1>1
  <2>. QED BY <1>1, <2>1
<1>3. Without(q, e) = p
  BY DEF Without
<1> HIDE DEF k
<1>4. /\ p \in Seq(Queries) /\ Len(p) = Len(q) - 1
      /\ \A i \in 1..Len(p) : p[i] = q[to(i)]
  BY <1>1, <1>2, RemoveAtProperties
<1> HIDE DEF p
<1>5. /\ \A i \in 1..Len(p) : to(i) \in 1..Len(q) /\ to(i) # k
      /\ \A i, j \in 1..Len(p) : to(i) = to(j) => i = j
  BY <1>1, <1>2, <1>4
<1>6. ASSUME NEW i \in 1..Len(q), i # k
      PROVE  \E j \in 1..Len(p) : i = to(j)
  <2>1. CASE i < k
    <3>1. i \in 1..Len(p) /\ i = to(i)
      BY <1>1, <1>2, <1>4, <2>1
    <3>. QED BY <3>1
  <2>2. CASE i > k
    <3>1. i - 1 \in 1..Len(p) /\ i = to(i - 1)
      BY <1>1, <1>2, <1>4, <2>2
    <3>. QED BY <3>1
  <2>. QED BY <1>1, <1>2, <1>6, <2>1, <2>2
<1> HIDE DEF to
<1>7. Listed(p) = S \ {e}
  <2>1. ASSUME NEW i \in 1..Len(p) PROVE p[i] \in S \ {e}
    <3>1. p[i] = q[to(i)] /\ to(i) \in 1..Len(q) /\ to(i) # k
      BY <1>4, <1>5
    <3>2. q[to(i)] \in S
      BY <1>1, <3>1
    <3>. QED BY <1>1, <1>2, <3>1, <3>2
  <2>2. ASSUME NEW i \in 1..Len(q), q[i] # e PROVE q[i] \in Listed(p)
    <3>1. PICK j \in 1..Len(p) : i = to(j)
      BY <1>2, <1>6, <2>2
    <3>2. p[j] = q[i]
      BY <1>4, <3>1
    <3>. QED BY <3>2 DEF Listed
  <2>3. Listed(p) \subseteq S \ {e}
    BY <2>1 DEF Listed
  <2>4. S \ {e} \subseteq Listed(p)
    BY <1>1, <2>2
  <2>. QED BY <2>3, <2>4
<1>8. \A i, j \in 1..Len(p) : p[i] = p[j] => i = j
  BY <1>1, <1>4, <1>5
<1>. QED BY <1>3, <1>4, <1>7, <1>8, SeqFacts DEF QueueFor

LEMMA QueueIsEmpty == \A q : QueueFor(q, {}) => q = <<>>
<1> SUFFICES ASSUME NEW q, QueueFor(q, {}) PROVE q = <<>>
  OBVIOUS
<1>1. q \in Seq(Queries) /\ Len(q) \in Nat /\ Listed(q) = {}
  BY SeqFacts DEF QueueFor
<1>2. Len(q) = 0
  <2>1. Len(q) # 0 => 1 \in 1..Len(q)
    BY <1>1
  <2>. QED BY <1>1, <2>1 DEF Listed
<1>. QED BY <1>1, <1>2, EmptySeq
-----------------------------------------------------------------------------
(* Threads: what holds after each step. *)

(* Some natural number of a set of them is the least. *)
LEMMA LeastNat ==
  ASSUME NEW T, T \subseteq Nat, T # {}
  PROVE  \E m \in T : \A n \in T : m <= n
<1>1. \E m \in T : \A n \in T : ~(<<n, m>> \in OpToRel(<, Nat))
  BY NatLessThanWellFounded, WFMin
<1>2. PICK m \in T : \A n \in T : ~(<<n, m>> \in OpToRel(<, Nat))
  BY <1>1
<1>3. ASSUME NEW n \in T
      PROVE  m <= n
  <2>1. <<n, m>> \in Nat \X Nat /\ <<n, m>>[1] = n /\ <<n, m>>[2] = m
    OBVIOUS
  <2>2. OpToRel(<, Nat) = {ss \in Nat \X Nat : ss[1] < ss[2]}
    BY DEF OpToRel
  <2>3. n < m => <<n, m>> \in OpToRel(<, Nat)
    BY <2>1, <2>2
  <2>4. ~(n < m)
    BY <1>2, <2>3, Zenon
  <2>5. m \in Nat /\ n \in Nat
    OBVIOUS
  <2>. QED BY <2>4, <2>5
<1>. QED BY <1>3

(* Induction up to n. *)
LEMMA UpTo ==
  ASSUME NEW n \in Nat, NEW T, 0 \in T,
         \A i \in 1..n : i - 1 \in T => i \in T
  PROVE  \A i \in 0..n : i \in T
<1> DEFINE B == {i \in 0..n : i \notin T}
<1>1. SUFFICES ASSUME B # {} PROVE FALSE
  OBVIOUS
<1>2. B \subseteq Nat
  OBVIOUS
<1>3. PICK m \in B : \A k \in B : m <= k
  BY <1>1, <1>2, LeastNat
<1>4. m \in 1..n
  <2>1. m \in 0..n /\ m # 0
    BY <1>3
  <2>. QED BY <2>1
<1>5. m - 1 \in 0..n /\ ~(m <= m - 1)
  BY <1>4
<1>6. m - 1 \in T
  BY <1>3, <1>5
<1>. QED BY <1>3, <1>4, <1>6

(* The operations that are done one after another; y is what they share.     *)
Do(what, g, x, y) ==
  IF what = "cancel" THEN CancelOne(g, x)
  ELSE IF what = "send" THEN adns__querysend_tcp(g, x)
  ELSE IF what = "try" THEN TryServer(g, x)
  ELSE IF what = "submit" THEN adns__internal_submit(g, y, g.q[y].kind = "ptr")
  ELSE IF what = "late" THEN OneTimedOut(g, y)
  ELSE IF what = "giveup" THEN GiveUpNext(g, x)
  ELSE TcpEvent(g)

(* g are the states from h on through the first m elements of seq.           *)
Trace(g, what, h, seq, y, m) ==
  g = [i \in 0..m |-> IF i = 0 THEN h ELSE Do(what, g[i - 1], seq[i], y)]

LEMMA TraceExists ==
  ASSUME NEW what, NEW h, NEW seq, NEW y, NEW n \in Nat
  PROVE  \E g : Trace(g, what, h, seq, y, n)
<1> DEFINE T == {m \in Nat : \E g : Trace(g, what, h, seq, y, m)}
<1>1. 0 \in T
  <2> DEFINE g == [i \in 0..0 |-> h]
  <2>1. \A i \in 0..0 : i = 0
    OBVIOUS
  <2>2. g = [i \in 0..0 |-> IF i = 0 THEN h ELSE Do(what, g[i - 1], seq[i], y)]
    BY <2>1
  <2>. QED BY <2>2 DEF Trace
<1>2. ASSUME NEW k \in 1..n, k - 1 \in T
      PROVE  k \in T
  <2>1. PICK g : Trace(g, what, h, seq, y, k - 1)
    BY <1>2
  <2> DEFINE V == Do(what, g[k - 1], seq[k], y)
             e == [i \in 0..k |-> IF i = k THEN V ELSE g[i]]
  <2>2. \A i \in 0..(k - 1) : g[i] = IF i = 0 THEN h ELSE Do(what, g[i - 1], seq[i], y)
    BY <2>1 DEF Trace
  <2>3. ASSUME NEW i \in 0..k
        PROVE  e[i] = IF i = 0 THEN h ELSE Do(what, e[i - 1], seq[i], y)
    <3>1. CASE i = k
      <4>1. e[i] = V /\ k # 0 /\ k - 1 \in 0..k /\ k - 1 # k
        BY <3>1
      <4>2. e[i - 1] = g[k - 1]
        BY <3>1, <4>1
      <4> HIDE DEF e
      <4>. QED BY <3>1, <4>1, <4>2
    <3>2. CASE i # k
      <4>1. i \in 0..(k - 1) /\ (i # 0 => i - 1 \in 0..k /\ i - 1 # k)
        BY <3>2
      <4>2. e[i] = g[i] /\ (i # 0 => e[i - 1] = g[i - 1])
        BY <3>2, <4>1
      <4> HIDE DEF e
      <4>. QED BY <2>2, <4>1, <4>2
    <3>. QED BY <3>1, <3>2
  <2>4. e = [i \in 0..k |-> e[i]]
    OBVIOUS
  <2> HIDE DEF e
  <2>5. e = [i \in 0..k |-> IF i = 0 THEN h ELSE Do(what, e[i - 1], seq[i], y)]
    BY <2>3, <2>4
  <2>. QED BY <2>5 DEF Trace
<1> HIDE DEF T
<1>3. n \in T
  BY <1>1, <1>2, UpTo
<1>. QED BY <1>3 DEF T

LEMMA TraceSteps ==
  ASSUME NEW what, NEW h, NEW seq, NEW y, NEW n \in Nat, NEW g, Trace(g, what, h, seq, y, n)
  PROVE  /\ g[0] = h
         /\ \A i \in 1..n : g[i] = Do(what, g[i - 1], seq[i], y)
<1>1. /\ 0 \in 0..n /\ \A i \in 1..n : i \in 0..n /\ i # 0
  OBVIOUS
<1>. QED BY <1>1 DEF Trace

(* What Apply does to what Do does. *)
LEMMA Once ==
  ASSUME NEW S, NEW v, S = {v}
  PROVE  (CHOOSE r \in S : TRUE) = v
OBVIOUS
LEMMA TimesFacts ==
  ASSUME NEW n \in Nat
  PROVE  Times(n) \in Seq(1..n) /\ Len(Times(n)) = n
<1>1. Times(n) \in [1..n -> 1..n]
  BY DEF Times
<1>. QED BY <1>1, IsASeq

LEMMA CancelThread ==
  ASSUME NEW h, NEW seq, Len(seq) \in Nat
  PROVE  \E g : Trace(g, "cancel", h, seq, NULL, Len(seq)) /\ Thread(CancelOne, h, seq) = g[Len(seq)]
<1> DEFINE P(g) == g = [i \in 0..Len(seq) |-> IF i = 0 THEN h ELSE
                        CHOOSE r \in {CancelOne(v, seq[i]) : v \in {g[i - 1]}} : TRUE]
           c == CHOOSE g : P(g)
<1>1. Len(seq) \in Nat
  OBVIOUS
<1>2. Thread(CancelOne, h, seq) = c[Len(seq)]
  BY Zenon DEF Thread, Apply
<1>3. ASSUME NEW a, NEW x
      PROVE  (CHOOSE r \in {CancelOne(v, x) : v \in {a}} : TRUE) = Do("cancel", a, x, NULL)
  <2>1. Do("cancel", a, x, NULL) = CancelOne(a, x)
    BY DEF Do
  <2>2. {CancelOne(v, x) : v \in {a}} = {CancelOne(a, x)}
    OBVIOUS
  <2>. QED BY <2>1, <2>2, Once, Zenon
<1>4. ASSUME NEW g
      PROVE  Trace(g, "cancel", h, seq, NULL, Len(seq)) <=> P(g)
  <2>1. \A i \in 0..Len(seq) :
          (IF i = 0 THEN h ELSE Do("cancel", g[i - 1], seq[i], NULL))
            = (IF i = 0 THEN h ELSE
               CHOOSE r \in {CancelOne(v, seq[i]) : v \in {g[i - 1]}} : TRUE)
    BY <1>3, Zenon
  <2>. QED BY <1>1, <2>1, Zenon DEF Trace
<1>5. \E g : Trace(g, "cancel", h, seq, NULL, Len(seq))
  BY <1>1, TraceExists
<1>6. P(c)
  BY <1>4, <1>5, Zenon
<1>. QED BY <1>1, <1>2, <1>4, <1>6, Zenon

LEMMA SendThread ==
  ASSUME NEW h, NEW seq, Len(seq) \in Nat
  PROVE  \E g : Trace(g, "send", h, seq, NULL, Len(seq)) /\ Thread(adns__querysend_tcp, h, seq) = g[Len(seq)]
<1> DEFINE P(g) == g = [i \in 0..Len(seq) |-> IF i = 0 THEN h ELSE
                        CHOOSE r \in {adns__querysend_tcp(v, seq[i]) : v \in {g[i - 1]}} : TRUE]
           c == CHOOSE g : P(g)
<1>1. Len(seq) \in Nat
  OBVIOUS
<1>2. Thread(adns__querysend_tcp, h, seq) = c[Len(seq)]
  BY Zenon DEF Thread, Apply
<1>3. ASSUME NEW a, NEW x
      PROVE  (CHOOSE r \in {adns__querysend_tcp(v, x) : v \in {a}} : TRUE) = Do("send", a, x, NULL)
  <2>1. Do("send", a, x, NULL) = adns__querysend_tcp(a, x)
    BY DEF Do
  <2>2. {adns__querysend_tcp(v, x) : v \in {a}} = {adns__querysend_tcp(a, x)}
    OBVIOUS
  <2>. QED BY <2>1, <2>2, Once, Zenon
<1>4. ASSUME NEW g
      PROVE  Trace(g, "send", h, seq, NULL, Len(seq)) <=> P(g)
  <2>1. \A i \in 0..Len(seq) :
          (IF i = 0 THEN h ELSE Do("send", g[i - 1], seq[i], NULL))
            = (IF i = 0 THEN h ELSE
               CHOOSE r \in {adns__querysend_tcp(v, seq[i]) : v \in {g[i - 1]}} : TRUE)
    BY <1>3, Zenon
  <2>. QED BY <1>1, <2>1, Zenon DEF Trace
<1>5. \E g : Trace(g, "send", h, seq, NULL, Len(seq))
  BY <1>1, TraceExists
<1>6. P(c)
  BY <1>4, <1>5, Zenon
<1>. QED BY <1>1, <1>2, <1>4, <1>6, Zenon

LEMMA TryThread ==
  ASSUME NEW h
  PROVE  \E g : Trace(g, "try", h, Times(nservers), NULL, nservers) /\ adns__tcp_tryconnect(h) = g[nservers]
<1> DEFINE P(g) == g = [i \in 0..Len(Times(nservers)) |-> IF i = 0 THEN h ELSE
                        CHOOSE r \in {TryServer(v, Times(nservers)[i]) : v \in {g[i - 1]}} : TRUE]
           c == CHOOSE g : P(g)
<1>1. nservers \in Nat /\ Len(Times(nservers)) = nservers
  BY AdnsAssumption, TimesFacts
<1>2. adns__tcp_tryconnect(h) = c[Len(Times(nservers))]
  BY Zenon DEF adns__tcp_tryconnect, Thread, Apply
<1>3. ASSUME NEW a, NEW x
      PROVE  (CHOOSE r \in {TryServer(v, x) : v \in {a}} : TRUE) = Do("try", a, x, NULL)
  <2>1. Do("try", a, x, NULL) = TryServer(a, x)
    BY DEF Do
  <2>2. {TryServer(v, x) : v \in {a}} = {TryServer(a, x)}
    OBVIOUS
  <2>. QED BY <2>1, <2>2, Once, Zenon
<1>4. ASSUME NEW g
      PROVE  Trace(g, "try", h, Times(nservers), NULL, nservers) <=> P(g)
  <2>1. \A i \in 0..Len(Times(nservers)) :
          (IF i = 0 THEN h ELSE Do("try", g[i - 1], Times(nservers)[i], NULL))
            = (IF i = 0 THEN h ELSE
               CHOOSE r \in {TryServer(v, Times(nservers)[i]) : v \in {g[i - 1]}} : TRUE)
    BY <1>3, Zenon
  <2>. QED BY <1>1, <2>1, Zenon DEF Trace
<1>5. \E g : Trace(g, "try", h, Times(nservers), NULL, nservers)
  BY <1>1, TraceExists
<1>6. P(c)
  BY <1>4, <1>5, Zenon
<1>. QED BY <1>1, <1>2, <1>4, <1>6, Zenon

LEMMA SubmitThread ==
  ASSUME NEW h, NEW s, NEW d, d.children \in Nat
  PROVE  \E g : Trace(g, "submit", h, Times(d.children), s, d.children) /\ Parse(h, s, d) = g[d.children]
<1> DEFINE P(g) == g = [i \in 0..Len(Times(d.children)) |-> IF i = 0 THEN h ELSE
                        CHOOSE r \in {adns__internal_submit(v, s, v.q[s].kind = "ptr") : v \in {g[i - 1]}} : TRUE]
           c == CHOOSE g : P(g)
<1>1. d.children \in Nat /\ Len(Times(d.children)) = d.children
  BY TimesFacts
<1>2. Parse(h, s, d) = c[Len(Times(d.children))]
  BY Zenon DEF Parse, Thread, Apply
<1>3. ASSUME NEW a, NEW x
      PROVE  (CHOOSE r \in {adns__internal_submit(v, s, v.q[s].kind = "ptr") : v \in {a}} : TRUE) = Do("submit", a, x, s)
  <2>1. Do("submit", a, x, s) = adns__internal_submit(a, s, a.q[s].kind = "ptr")
    BY DEF Do
  <2>2. {adns__internal_submit(v, s, v.q[s].kind = "ptr") : v \in {a}} = {adns__internal_submit(a, s, a.q[s].kind = "ptr")}
    OBVIOUS
  <2>. QED BY <2>1, <2>2, Once, Zenon
<1>4. ASSUME NEW g
      PROVE  Trace(g, "submit", h, Times(d.children), s, d.children) <=> P(g)
  <2>1. \A i \in 0..Len(Times(d.children)) :
          (IF i = 0 THEN h ELSE Do("submit", g[i - 1], Times(d.children)[i], s))
            = (IF i = 0 THEN h ELSE
               CHOOSE r \in {adns__internal_submit(v, s, v.q[s].kind = "ptr") : v \in {g[i - 1]}} : TRUE)
    BY <1>3, Zenon
  <2>. QED BY <1>1, <2>1, Zenon DEF Trace
<1>5. \E g : Trace(g, "submit", h, Times(d.children), s, d.children)
  BY <1>1, TraceExists
<1>6. P(c)
  BY <1>4, <1>5, Zenon
<1>. QED BY <1>1, <1>2, <1>4, <1>6, Zenon

LEMMA LateThread ==
  ASSUME NEW h, NEW list
  PROVE  \E g : Trace(g, "late", h, Times(Cardinality(Queries)), list, Cardinality(Queries)) /\ timeouts_queue(h, list) = g[Cardinality(Queries)]
<1> DEFINE P(g) == g = [i \in 0..Len(Times(Cardinality(Queries))) |-> IF i = 0 THEN h ELSE
                        CHOOSE r \in {OneTimedOut(v, list) : v \in {g[i - 1]}} : TRUE]
           c == CHOOSE g : P(g)
<1>1. Cardinality(Queries) \in Nat /\ Len(Times(Cardinality(Queries))) = Cardinality(Queries)
  BY AdnsAssumption, TimesFacts, FS_CardinalityType
<1>2. timeouts_queue(h, list) = c[Len(Times(Cardinality(Queries)))]
  BY Zenon DEF timeouts_queue, Thread, Apply
<1>3. ASSUME NEW a, NEW x
      PROVE  (CHOOSE r \in {OneTimedOut(v, list) : v \in {a}} : TRUE) = Do("late", a, x, list)
  <2>1. Do("late", a, x, list) = OneTimedOut(a, list)
    BY DEF Do
  <2>2. {OneTimedOut(v, list) : v \in {a}} = {OneTimedOut(a, list)}
    OBVIOUS
  <2>. QED BY <2>1, <2>2, Once, Zenon
<1>4. ASSUME NEW g
      PROVE  Trace(g, "late", h, Times(Cardinality(Queries)), list, Cardinality(Queries)) <=> P(g)
  <2>1. \A i \in 0..Len(Times(Cardinality(Queries))) :
          (IF i = 0 THEN h ELSE Do("late", g[i - 1], Times(Cardinality(Queries))[i], list))
            = (IF i = 0 THEN h ELSE
               CHOOSE r \in {OneTimedOut(v, list) : v \in {g[i - 1]}} : TRUE)
    BY <1>3, Zenon
  <2>. QED BY <1>1, <2>1, Zenon DEF Trace
<1>5. \E g : Trace(g, "late", h, Times(Cardinality(Queries)), list, Cardinality(Queries))
  BY <1>1, TraceExists
<1>6. P(c)
  BY <1>4, <1>5, Zenon
<1>. QED BY <1>1, <1>2, <1>4, <1>6, Zenon

LEMMA GiveUpThread ==
  ASSUME NEW first, NEW n \in Nat
  PROVE  \E g : Trace(g, "giveup", first, Times(n), NULL, n) /\ Thread(GiveUpNext, first, Times(n)) = g[n]
<1> DEFINE P(g) == g = [i \in 0..Len(Times(n)) |-> IF i = 0 THEN first ELSE
                        CHOOSE r \in {GiveUpNext(v, Times(n)[i]) : v \in {g[i - 1]}} : TRUE]
           c == CHOOSE g : P(g)
<1>1. n \in Nat /\ Len(Times(n)) = n
  BY TimesFacts
<1>2. Thread(GiveUpNext, first, Times(n)) = c[Len(Times(n))]
  BY Zenon DEF Thread, Apply
<1>3. ASSUME NEW a, NEW x
      PROVE  (CHOOSE r \in {GiveUpNext(v, x) : v \in {a}} : TRUE) = Do("giveup", a, x, NULL)
  <2>1. Do("giveup", a, x, NULL) = GiveUpNext(a, x)
    BY DEF Do
  <2>2. {GiveUpNext(v, x) : v \in {a}} = {GiveUpNext(a, x)}
    OBVIOUS
  <2>. QED BY <2>1, <2>2, Once, Zenon
<1>4. ASSUME NEW g
      PROVE  Trace(g, "giveup", first, Times(n), NULL, n) <=> P(g)
  <2>1. \A i \in 0..Len(Times(n)) :
          (IF i = 0 THEN first ELSE Do("giveup", g[i - 1], Times(n)[i], NULL))
            = (IF i = 0 THEN first ELSE
               CHOOSE r \in {GiveUpNext(v, Times(n)[i]) : v \in {g[i - 1]}} : TRUE)
    BY <1>3, Zenon
  <2>. QED BY <1>1, <2>1, Zenon DEF Trace
<1>5. \E g : Trace(g, "giveup", first, Times(n), NULL, n)
  BY <1>1, TraceExists
<1>6. P(c)
  BY <1>4, <1>5, Zenon
<1>. QED BY <1>1, <1>2, <1>4, <1>6, Zenon

LEMMA EventThread ==
  ASSUME NEW h
  PROVE  \E g : Trace(g, "event", h, Times(nservers + 4), NULL, nservers + 4) /\ TcpTurns(h) = g[nservers + 4]
<1> DEFINE P(g) == g = [i \in 0..Len(Times(nservers + 4)) |-> IF i = 0 THEN h ELSE
                        CHOOSE r \in {TcpEvent(v) : v \in {g[i - 1]}} : TRUE]
           c == CHOOSE g : P(g)
<1>1. nservers + 4 \in Nat /\ Len(Times(nservers + 4)) = nservers + 4
  BY AdnsAssumption, TimesFacts
<1>2. TcpTurns(h) = c[Len(Times(nservers + 4))]
  BY Zenon DEF TcpTurns, Thread, Apply
<1>3. ASSUME NEW a, NEW x
      PROVE  (CHOOSE r \in {TcpEvent(v) : v \in {a}} : TRUE) = Do("event", a, x, NULL)
  <2>1. Do("event", a, x, NULL) = TcpEvent(a)
    BY DEF Do
  <2>2. {TcpEvent(v) : v \in {a}} = {TcpEvent(a)}
    OBVIOUS
  <2>. QED BY <2>1, <2>2, Once, Zenon
<1>4. ASSUME NEW g
      PROVE  Trace(g, "event", h, Times(nservers + 4), NULL, nservers + 4) <=> P(g)
  <2>1. \A i \in 0..Len(Times(nservers + 4)) :
          (IF i = 0 THEN h ELSE Do("event", g[i - 1], Times(nservers + 4)[i], NULL))
            = (IF i = 0 THEN h ELSE
               CHOOSE r \in {TcpEvent(v) : v \in {g[i - 1]}} : TRUE)
    BY <1>3, Zenon
  <2>. QED BY <1>1, <2>1, Zenon DEF Trace
<1>5. \E g : Trace(g, "event", h, Times(nservers + 4), NULL, nservers + 4)
  BY <1>1, TraceExists
<1>6. P(c)
  BY <1>4, <1>5, Zenon
<1>. QED BY <1>1, <1>2, <1>4, <1>6, Zenon

-----------------------------------------------------------------------------
(* What holds between the calls, and in the middle of one: X are the queries *)
(* that are in no queue, Y those whose state says nothing of their children, *)
(* Z those whose list of children is not right yet, V those that wait for    *)
(* the connection and need not have been sent.                               *)

Live(q) == {s \in Queries : q[s] # NULL}
In(q, X, state) == {s \in Live(q) \ X : q[s].state = state}
ChildrenOf(q, s) == {c \in Live(q) : q[c].parent = s}

Queued(h, X) ==
  /\ QueueFor(h.udpw, In(h.q, X, "tosend")) /\ QueueFor(h.tcpw, In(h.q, X, "tcpw"))
  /\ QueueFor(h.childw, In(h.q, X, "childw")) /\ QueueFor(h.output, In(h.q, X, "done"))

Member(q, Y, Z, s) ==
  /\ s \notin Z => QueueFor(q[s].children, ChildrenOf(q, s))
  /\ s \notin Y => (q[s].state = "childw" <=> q[s].children # <<>>)
  /\ q[s].state = "done" => q[s].parent = NULL
  /\ q[s].parent # NULL => q[s].parent \in Live(q) /\ q[s].kind = "addr"
  /\ q[s].kind = "addr" => q[s].children = <<>>

Family(q, Y, Z) == \A s \in Live(q) : Member(q, Y, Z, s)

Tried(q, X) ==
  \A s \in In(q, X, "tosend") : q[s].retries \in 1..UDPMAXRETRIES /\ ~q[s].usevc

Wired(h, V) ==
  /\ \A s \in Live(h.q) : h.q[s].sent => h.tcpstate = "ok"
  /\ \A s \in In(h.q, V, "tcpw") : h.tcpstate = "ok" => h.q[s].sent
  /\ h.tcpsend => h.tcpstate = "ok"

Whole(h, X, Y, Z, V) ==
  /\ h \in States /\ Queued(h, X) /\ Family(h.q, Y, Z) /\ Tried(h.q, X) /\ Wired(h, V)

Good(h, X) == Whole(h, X, X, {}, X)

SameQueues(g, h) ==
  g.udpw = h.udpw /\ g.tcpw = h.tcpw /\ g.childw = h.childw /\ g.output = h.output
SameTcp(g, h) == g.tcpstate = h.tcpstate /\ g.tcpsend = h.tcpsend
SameIo(g, h)  == g.io = h.io /\ g.bad = h.bad
Rest(g, h)    == SameTcp(g, h) /\ SameIo(g, h)

LEMMA LiveFacts ==
  ASSUME NEW h \in States, NEW s \in Live(h.q)
  PROVE  s \in Queries /\ h.q[s] # NULL /\ h.q[s] \in QueryRecords
BY DEF Live, States

LEMMA Weaker ==
  ASSUME NEW h, NEW X, NEW Y, NEW Z, NEW V, Whole(h, X, Y, Z, V),
         NEW Y1, Y \subseteq Y1, NEW Z1, Z \subseteq Z1, NEW V1, V \subseteq V1
  PROVE  Whole(h, X, Y1, Z1, V1)
<1>1. Family(h.q, Y1, Z1)
  BY DEF Whole, Family, Member
<1>2. Wired(h, V1)
  BY DEF Whole, Wired, In
<1>. QED BY <1>1, <1>2 DEF Whole

(* Only what the invariants are not about is changed, or the connection.     *)
SameShape(r, t) ==
  /\ r = NULL <=> t = NULL
  /\ r # NULL => /\ r.state = t.state /\ r.kind = t.kind /\ r.parent = t.parent
                 /\ r.children = t.children
                 /\ r.state = "tosend" => r.retries = t.retries /\ r.usevc = t.usevc

LEMMA ShapeWhole ==
  ASSUME NEW h, NEW X, NEW Y, NEW Z, NEW V, Whole(h, X, Y, Z, V),
         NEW g \in States, SameQueues(g, h), \A s \in Queries : SameShape(h.q[s], g.q[s]),
         NEW V1, Wired(g, V1)
  PROVE  Whole(g, X, Y, Z, V1)
<1>1. /\ Live(g.q) = Live(h.q)
      /\ \A s \in Live(h.q) : /\ h.q[s].state = g.q[s].state /\ h.q[s].kind = g.q[s].kind
                              /\ h.q[s].parent = g.q[s].parent
                              /\ h.q[s].children = g.q[s].children
                              /\ h.q[s].state = "tosend" => /\ h.q[s].retries = g.q[s].retries
                                                            /\ h.q[s].usevc = g.q[s].usevc
  BY DEF Live, SameShape
<1>2. \A state : In(g.q, X, state) = In(h.q, X, state)
  BY <1>1 DEF In
<1>3. \A s : ChildrenOf(g.q, s) = ChildrenOf(h.q, s)
  BY <1>1 DEF ChildrenOf
<1>4. Queued(g, X)
  BY <1>2 DEF Whole, Queued, SameQueues
<1>5. Family(g.q, Y, Z)
  <2> SUFFICES ASSUME NEW s \in Live(g.q) PROVE Member(g.q, Y, Z, s)
    BY DEF Family
  <2>1. Member(h.q, Y, Z, s)
    BY <1>1 DEF Whole, Family
  <2>. QED BY <1>1, <1>3, <2>1 DEF Member
<1>6. Tried(g.q, X)
  <2>1. \A s \in In(h.q, X, "tosend") : s \in Live(h.q) /\ h.q[s].state = "tosend"
    BY DEF In
  <2>. QED BY <1>1, <1>2, <2>1 DEF Whole, Tried
<1>. QED BY <1>4, <1>5, <1>6 DEF Whole

(* Query s has been sent, or need not have been. *)
LEMMA NowSent ==
  ASSUME NEW h, NEW X, NEW Y, NEW Z, NEW V, Whole(h, X, Y, Z, V), NEW s,
         s \in Live(h.q) /\ h.q[s].state = "tcpw" /\ h.tcpstate = "ok" => h.q[s].sent
  PROVE  Whole(h, X, Y, Z, V \ {s})
<1>1. Wired(h, V \ {s})
  BY DEF Whole, Wired, In
<1>. QED BY <1>1 DEF Whole

-----------------------------------------------------------------------------
(* One query is changed, linked or unlinked, and the invariants with it.     *)

Sets(g, h, s, r) == g = [h EXCEPT !.q[s] = r]

LEMMA SetRecord ==
  ASSUME NEW h \in States, NEW s \in Queries, NEW r \in QueryRecords \union {NULL},
         NEW g, Sets(g, h, s, r)
  PROVE  /\ g \in States /\ SameQueues(g, h) /\ Rest(g, h) /\ g.q[s] = r
         /\ \A t \in Queries \ {s} : g.q[t] = h.q[t]
<1>1. /\ g.q = [h.q EXCEPT ![s] = r] /\ h.q \in [Queries -> QueryRecords \union {NULL}]
      /\ SameQueues(g, h) /\ Rest(g, h)
  BY DEF Sets, States, SameQueues, Rest, SameTcp, SameIo
<1>2. g.q[s] = r /\ \A t \in Queries \ {s} : g.q[t] = h.q[t]
  BY <1>1
<1>3. g.q \in [Queries -> QueryRecords \union {NULL}]
  BY <1>1
<1>4. g = [h EXCEPT !.q = g.q]
  BY <1>1 DEF Sets, States
<1>5. g \in States
  BY <1>3, <1>4 DEF States
<1>. QED BY <1>1, <1>2, <1>5

Puts(g, h, list, seq) == g = [h EXCEPT ![list] = seq]

LEMMA SetQueue ==
  ASSUME NEW h \in States, NEW list \in {"udpw", "tcpw", "childw", "output"}, NEW seq \in Seq(Queries),
         NEW g, Puts(g, h, list, seq)
  PROVE  /\ g \in States /\ g.q = h.q /\ Rest(g, h)
         /\ g.udpw   = IF list = "udpw" THEN seq ELSE h.udpw
         /\ g.tcpw   = IF list = "tcpw" THEN seq ELSE h.tcpw
         /\ g.childw = IF list = "childw" THEN seq ELSE h.childw
         /\ g.output = IF list = "output" THEN seq ELSE h.output
<1>1. CASE list = "udpw"
  BY <1>1 DEF Puts, States, Rest, SameTcp, SameIo
<1>2. CASE list = "tcpw"
  BY <1>2 DEF Puts, States, Rest, SameTcp, SameIo
<1>3. CASE list = "childw"
  BY <1>3 DEF Puts, States, Rest, SameTcp, SameIo
<1>4. CASE list = "output"
  BY <1>4 DEF Puts, States, Rest, SameTcp, SameIo
<1>. QED BY <1>1, <1>2, <1>3, <1>4

LEMMA QueueOfFacts ==
  /\ QueueOf("tosend") = "udpw" /\ QueueOf("tcpw") = "tcpw"
  /\ QueueOf("childw") = "childw" /\ QueueOf("done") = "output"
BY Zenon DEF QueueOf

(* A query that is in no queue changes, but for its family. *)
LEMMA ChangeWhole ==
  ASSUME NEW h, NEW X, NEW Y, NEW Z, NEW V, Whole(h, X, Y, Z, V),
         NEW s \in Live(h.q), s \in X, s \in Y, s \in V, NEW r \in QueryRecords,
         r.kind = h.q[s].kind, r.parent = h.q[s].parent, r.children = h.q[s].children,
         r.state = "done" => r.parent = NULL, r.sent => h.tcpstate = "ok",
         NEW g, Sets(g, h, s, r)
  PROVE  Whole(g, X, Y, Z, V)
<1>1. h \in States /\ s \in Queries /\ h.q[s] # NULL /\ h.q[s] \in QueryRecords /\ r # NULL
  BY LiveFacts, AdnsAssumption DEF Whole
<1>2. /\ g \in States /\ SameQueues(g, h) /\ Rest(g, h) /\ g.q[s] = r
      /\ \A t \in Queries \ {s} : g.q[t] = h.q[t]
  <2>1. r \in QueryRecords \union {NULL}
    OBVIOUS
  <2>. QED BY <1>1, <2>1, SetRecord
<1>3. Live(g.q) = Live(h.q)
  BY <1>1, <1>2 DEF Live
<1>4. \A state : In(g.q, X, state) = In(h.q, X, state) /\ In(g.q, V, state) = In(h.q, V, state)
  BY <1>1, <1>2, <1>3 DEF In, Live
<1>5. \A t : ChildrenOf(g.q, t) = ChildrenOf(h.q, t)
  BY <1>1, <1>2, <1>3 DEF ChildrenOf, Live
<1>6. Queued(g, X)
  BY <1>2, <1>4 DEF Whole, Queued, SameQueues
<1>7. Family(g.q, Y, Z)
  <2> SUFFICES ASSUME NEW t \in Live(g.q) PROVE Member(g.q, Y, Z, t)
    BY DEF Family
  <2>1. Member(h.q, Y, Z, t) /\ t \in Queries
    BY <1>3 DEF Whole, Family, Live
  <2>. QED BY <1>2, <1>3, <1>5, <2>1 DEF Member
<1>8. Tried(g.q, X)
  BY <1>2, <1>4 DEF Whole, Tried, In, Live
<1>9. Wired(g, V)
  BY <1>2, <1>3, <1>4 DEF Whole, Wired, In, Live, Rest, SameTcp
<1>. QED BY <1>2, <1>6, <1>7, <1>8, <1>9 DEF Whole

LEMMA UnlinkWhole ==
  ASSUME NEW h, NEW X, NEW Y, NEW Z, NEW V, Whole(h, X, Y, Z, V), NEW s \in Live(h.q) \ X,
         NEW list, list = QueueOf(h.q[s].state), NEW g, g = Unlink(h, list, s)
  PROVE  Whole(g, X \union {s}, Y \union {s}, Z, V \union {s}) /\ g.q = h.q /\ Rest(g, h)
<1> DEFINE state == h.q[s].state
           p == Without(h[list], s)
<1>1. h \in States /\ s \in Queries /\ h.q[s] \in QueryRecords
  BY LiveFacts DEF Whole
<1>2. state \in {"tosend", "tcpw", "childw", "done"} /\ s \in In(h.q, X, state)
  BY <1>1 DEF QueryRecords, In
<1>3. list \in {"udpw", "tcpw", "childw", "output"}
  BY <1>2, QueueOfFacts
<1>4. QueueFor(h[list], In(h.q, X, state))
  BY <1>2, QueueOfFacts DEF Whole, Queued
<1>5. QueueFor(p, In(h.q, X, state) \ {s})
  BY <1>2, <1>4, WithoutQueue
<1>6. s \in Listed(h[list]) /\ p \in Seq(Queries)
  BY <1>2, <1>4, <1>5 DEF QueueFor
<1>7. Puts(g, h, list, p)
  BY <1>6, Zenon DEF Unlink, Puts
<1> HIDE DEF p
<1>8. /\ g \in States /\ g.q = h.q /\ Rest(g, h)
      /\ g.udpw   = IF list = "udpw" THEN p ELSE h.udpw
      /\ g.tcpw   = IF list = "tcpw" THEN p ELSE h.tcpw
      /\ g.childw = IF list = "childw" THEN p ELSE h.childw
      /\ g.output = IF list = "output" THEN p ELSE h.output
  BY <1>1, <1>3, <1>6, <1>7, SetQueue
<1>9. /\ In(g.q, X \union {s}, state) = In(h.q, X, state) \ {s}
      /\ \A st : st # state => In(g.q, X \union {s}, st) = In(h.q, X, st)
  BY <1>8 DEF In
<1>10. Queued(g, X \union {s})
  BY <1>2, <1>5, <1>8, <1>9, QueueOfFacts DEF Whole, Queued
<1>11. Family(g.q, Y \union {s}, Z) /\ Tried(g.q, X \union {s}) /\ Wired(g, V \union {s})
  BY <1>8 DEF Whole, Family, Member, Tried, Wired, In, Rest, SameTcp
<1>. QED BY <1>8, <1>10, <1>11 DEF Whole

Linkable(qu) ==
  /\ qu.state = "childw" <=> qu.children # <<>>
  /\ qu.state = "tosend" => qu.retries \in 1..UDPMAXRETRIES /\ ~qu.usevc

LEMMA LinkWhole ==
  ASSUME NEW h, NEW X, NEW Y, NEW Z, NEW V, Whole(h, X, Y, Z, V), NEW s \in Live(h.q), s \in X,
         NEW list, list = QueueOf(h.q[s].state), NEW g, g = Link(h, list, s),
         Linkable(h.q[s])
  PROVE  Whole(g, X \ {s}, Y \ {s}, Z, V) /\ g.q = h.q /\ Rest(g, h)
<1> DEFINE state == h.q[s].state
           p == Append(h[list], s)
<1>1. h \in States /\ s \in Queries /\ h.q[s] \in QueryRecords
  BY LiveFacts DEF Whole
<1>2. state \in {"tosend", "tcpw", "childw", "done"} /\ s \notin In(h.q, X, state)
  BY <1>1 DEF QueryRecords, In
<1>3. list \in {"udpw", "tcpw", "childw", "output"}
  BY <1>2, QueueOfFacts
<1>4. QueueFor(h[list], In(h.q, X, state))
  BY <1>2, QueueOfFacts DEF Whole, Queued
<1>5. QueueFor(p, In(h.q, X, state) \union {s})
  BY <1>1, <1>2, <1>4, AppendQueue
<1>6. p \in Seq(Queries)
  BY <1>5 DEF QueueFor
<1>7. Puts(g, h, list, p)
  BY Zenon DEF Link, Puts
<1> HIDE DEF p
<1>8. /\ g \in States /\ g.q = h.q /\ Rest(g, h)
      /\ g.udpw   = IF list = "udpw" THEN p ELSE h.udpw
      /\ g.tcpw   = IF list = "tcpw" THEN p ELSE h.tcpw
      /\ g.childw = IF list = "childw" THEN p ELSE h.childw
      /\ g.output = IF list = "output" THEN p ELSE h.output
  BY <1>1, <1>3, <1>6, <1>7, SetQueue
<1>9. /\ In(g.q, X \ {s}, state) = In(h.q, X, state) \union {s}
      /\ \A st : st # state => In(g.q, X \ {s}, st) = In(h.q, X, st)
  BY <1>8 DEF In
<1>10. Queued(g, X \ {s})
  BY <1>2, <1>5, <1>8, <1>9, QueueOfFacts DEF Whole, Queued
<1>11. Family(g.q, Y \ {s}, Z)
  BY <1>8 DEF Whole, Family, Member, Linkable
<1>12. Tried(g.q, X \ {s}) /\ Wired(g, V)
  BY <1>8 DEF Linkable, Whole, Tried, Wired, In, Rest, SameTcp
<1>. QED BY <1>8, <1>10, <1>11, <1>12 DEF Whole

Parented(g, h, s, c) ==
  Rest(g, h) /\ g.q[s] = [h.q[s] EXCEPT !.children = c] /\ \A t \in Queries \ {s} : g.q[t] = h.q[t]

(* The list of children of a query is set right. *)
SetsChildren(g, h, s, c) == g = [h EXCEPT !.q[s].children = c]

LEMMA ChildrenWhole ==
  ASSUME NEW h, NEW X, NEW Y, NEW Z, NEW V, Whole(h, X, Y, Z, V), NEW s \in Live(h.q), s \in Y,
         NEW c, QueueFor(c, ChildrenOf(h.q, s)), h.q[s].kind = "addr" => c = <<>>,
         NEW g, SetsChildren(g, h, s, c)
  PROVE  Whole(g, X, Y, Z \ {s}, V) /\ Parented(g, h, s, c)
<1> DEFINE r == [h.q[s] EXCEPT !.children = c]
<1>1. h \in States /\ s \in Queries /\ h.q[s] # NULL /\ h.q[s] \in QueryRecords
  BY LiveFacts DEF Whole
<1>2. /\ r \in QueryRecords /\ r.state = h.q[s].state /\ r.kind = h.q[s].kind
      /\ r.parent = h.q[s].parent /\ r.children = c /\ r.retries = h.q[s].retries
      /\ r.sent = h.q[s].sent /\ r.usevc = h.q[s].usevc
  BY <1>1 DEF QueryRecords, QueueFor
<1>3. Sets(g, h, s, r)
  BY <1>1 DEF States, Sets, SetsChildren
<1> HIDE DEF r
<1>4. r # NULL /\ r \in QueryRecords \union {NULL}
  BY <1>2, AdnsAssumption
<1>5. /\ g \in States /\ SameQueues(g, h) /\ Rest(g, h) /\ g.q[s] = r
      /\ \A t \in Queries \ {s} : g.q[t] = h.q[t]
  BY <1>1, <1>3, <1>4, SetRecord
<1>6. Live(g.q) = Live(h.q)
  BY <1>1, <1>4, <1>5 DEF Live
<1>7. \A t \in Live(h.q) : /\ g.q[t].state = h.q[t].state /\ g.q[t].kind = h.q[t].kind
                           /\ g.q[t].parent = h.q[t].parent /\ g.q[t].retries = h.q[t].retries
                           /\ g.q[t].sent = h.q[t].sent /\ g.q[t].usevc = h.q[t].usevc
                           /\ t # s => g.q[t].children = h.q[t].children
  BY <1>1, <1>2, <1>5 DEF Live
<1>8. \A W, state : In(g.q, W, state) = In(h.q, W, state)
  BY <1>6, <1>7 DEF In
<1>9. \A t : ChildrenOf(g.q, t) = ChildrenOf(h.q, t)
  BY <1>6, <1>7 DEF ChildrenOf
<1>10. Queued(g, X)
  BY <1>5, <1>8 DEF Whole, Queued, SameQueues
<1>11. Family(g.q, Y, Z \ {s})
  <2> SUFFICES ASSUME NEW t \in Live(g.q) PROVE Member(g.q, Y, Z \ {s}, t)
    BY DEF Family
  <2>1. Member(h.q, Y, Z, t) /\ t \in Live(h.q)
    BY <1>6 DEF Whole, Family
  <2>2. CASE t = s
    BY <1>2, <1>5, <1>6, <1>7, <1>9, <2>1, <2>2 DEF Member
  <2>3. CASE t # s
    BY <1>6, <1>7, <1>9, <2>1, <2>3 DEF Member
  <2>. QED BY <2>2, <2>3
<1>12. Tried(g.q, X)
  <2>1. \A t \in In(h.q, X, "tosend") : t \in Live(h.q)
    BY DEF In
  <2>. QED BY <1>7, <1>8, <2>1 DEF Whole, Tried
<1>13. Wired(g, V)
  <2>1. \A t \in In(h.q, V, "tcpw") : t \in Live(h.q)
    BY DEF In
  <2>. QED BY <1>5, <1>6, <1>7, <1>8, <2>1 DEF Whole, Wired, Rest, SameTcp
<1>. QED BY <1>5, <1>10, <1>11, <1>12, <1>13 DEF Whole, r, Parented

Freed(g, h, s) ==
  /\ Rest(g, h) /\ Live(g.q) = Live(h.q) \ {s} /\ \A t \in Queries \ {s} : g.q[t] = h.q[t]
  /\ \A t : ChildrenOf(g.q, t) = ChildrenOf(h.q, t) \ {s}

(* The memory of a query that has no children is freed; it is still among    *)
(* the children of its parent.                                               *)
LEMMA FreeWhole ==
  ASSUME NEW h, NEW X, NEW Y, NEW Z, NEW V, Whole(h, X, Y, Z, V), NEW s \in Live(h.q), s \in X,
         ChildrenOf(h.q, s) = {}, h.q[s].parent \in Z \union {NULL},
         NEW g, Sets(g, h, s, NULL)
  PROVE  Whole(g, X \ {s}, Y \ {s}, Z \ {s}, V \ {s}) /\ Freed(g, h, s)
<1>1. h \in States /\ s \in Queries /\ h.q[s] # NULL
  BY LiveFacts DEF Whole
<1>2. NULL \in QueryRecords \union {NULL}
  OBVIOUS
<1>3. /\ g \in States /\ SameQueues(g, h) /\ Rest(g, h) /\ g.q[s] = NULL
      /\ \A t \in Queries \ {s} : g.q[t] = h.q[t]
  BY <1>1, <1>2, SetRecord
<1>4. Live(g.q) = Live(h.q) \ {s}
  BY <1>1, <1>3 DEF Live
<1>5. \A t \in Live(g.q) : g.q[t] = h.q[t] /\ t # s /\ t \in Live(h.q)
  BY <1>3, <1>4 DEF Live
<1>6. \A W, state : In(g.q, W \ {s}, state) = In(h.q, W, state) \ {s}
  BY <1>4, <1>5 DEF In
<1>7. \A t : ChildrenOf(g.q, t) = ChildrenOf(h.q, t) \ {s}
  BY <1>4, <1>5 DEF ChildrenOf
<1>8. Queued(g, X \ {s})
  <2>1. ASSUME NEW state PROVE In(g.q, X \ {s}, state) = In(h.q, X, state)
    <3>1. s \notin In(h.q, X, state)
      BY DEF In
    <3>2. In(g.q, X \ {s}, state) = In(h.q, X, state) \ {s}
      BY <1>6
    <3>. QED BY <3>1, <3>2
  <2>. QED BY <1>3, <2>1 DEF Whole, Queued, SameQueues
<1>9. Family(g.q, Y \ {s}, Z \ {s})
  <2> SUFFICES ASSUME NEW t \in Live(g.q) PROVE Member(g.q, Y \ {s}, Z \ {s}, t)
    BY DEF Family
  <2>1. Member(h.q, Y, Z, t) /\ t \in Live(h.q) /\ t # s /\ g.q[t] = h.q[t]
    BY <1>5 DEF Whole, Family
  <2>2. t \notin Z => ChildrenOf(g.q, t) = ChildrenOf(h.q, t)
    <3>1. t \notin Z => s \notin ChildrenOf(h.q, t)
      BY <2>1, AdnsAssumption DEF ChildrenOf, Live
    <3>. QED BY <1>7, <3>1
  <2>3. g.q[t].parent # s
    BY <2>1 DEF ChildrenOf
  <2>. QED BY <1>4, <2>1, <2>2, <2>3 DEF Member
<1>10. Tried(g.q, X \ {s})
  <2>1. \A t \in In(g.q, X \ {s}, "tosend") : t \in Live(g.q) /\ t \in In(h.q, X, "tosend")
    <3>1. In(g.q, X \ {s}, "tosend") \subseteq In(h.q, X, "tosend")
      BY <1>6
    <3>2. In(g.q, X \ {s}, "tosend") \subseteq Live(g.q)
      BY DEF In
    <3>. QED BY <3>1, <3>2
  <2>. QED BY <1>5, <2>1 DEF Whole, Tried
<1>11. Wired(g, V \ {s})
  <2>1. \A t \in In(g.q, V \ {s}, "tcpw") : t \in Live(g.q) /\ t \in In(h.q, V, "tcpw")
    <3>1. In(g.q, V \ {s}, "tcpw") \subseteq In(h.q, V, "tcpw")
      BY <1>6
    <3>2. In(g.q, V \ {s}, "tcpw") \subseteq Live(g.q)
      BY DEF In
    <3>. QED BY <3>1, <3>2
  <2>. QED BY <1>3, <1>4, <1>5, <2>1 DEF Whole, Wired, Rest, SameTcp
<1>. QED BY <1>3, <1>4, <1>7, <1>8, <1>9, <1>10, <1>11 DEF Whole, Freed

LEMMA CancelOneWhole ==
  ASSUME NEW h, NEW X, NEW Y, NEW Z, NEW V, Whole(h, X, Y, Z, V), NEW s \in Live(h.q) \ X,
         ChildrenOf(h.q, s) = {}, h.q[s].parent \in Z \union {NULL},
         NEW g, g = CancelOne(h, s)
  PROVE  Whole(g, X, Y, Z, V) /\ Freed(g, h, s)
<1> DEFINE k == Unlink(h, QueueOf(h.q[s].state), s)
           A == X \union {s}
           B == Y \union {s}
           C == V \union {s}
<1>1. Whole(k, A, B, Z, C) /\ k.q = h.q /\ Rest(k, h)
  BY UnlinkWhole
<1>2. Sets(g, k, s, NULL)
  BY Zenon DEF CancelOne, Sets
<1>4. /\ A \ {s} = X /\ B \ {s} \subseteq Y
      /\ Z \ {s} \subseteq Z /\ C \ {s} \subseteq V
  OBVIOUS
<1>5. /\ s \in A /\ s \in Live(k.q) /\ ChildrenOf(k.q, s) = {}
      /\ k.q[s].parent \in Z \union {NULL}
  BY <1>1
<1> HIDE DEF k, A, B, C
<1>3. Whole(g, A \ {s}, B \ {s}, Z \ {s}, C \ {s}) /\ Freed(g, k, s)
  BY <1>1, <1>2, <1>5, FreeWhole, Zenon
<1>6. Whole(g, X, B \ {s}, Z \ {s}, C \ {s})
  BY <1>3, <1>4
<1>7. Whole(g, X, Y, Z, V)
  BY <1>4, <1>6, Weaker
<1>. QED BY <1>1, <1>3, <1>7 DEF Freed, Rest, SameTcp, SameIo

(* All children of s are cancelled, and they have none themselves. *)
Cancelled(g, h, s) ==
  /\ Rest(g, h) /\ s \in Live(g.q) /\ g.q[s] = [h.q[s] EXCEPT !.children = <<>>]
  /\ \A t \in Queries \ {s} :
       g.q[t] = h.q[t] \/ (t \in ChildrenOf(h.q, s) /\ g.q[t] = NULL)

LEMMA CancelChildren ==
  ASSUME NEW h, NEW X, NEW Y, NEW V, Whole(h, X, Y, {}, V), NEW s \in Live(h.q), X \subseteq {s},
         NEW g, g = cancel_children(h, s)
  PROVE  Whole(g, X, Y \union {s}, {}, V) /\ Cancelled(g, h, s)
<1> DEFINE c == h.q[s].children
           n == Len(c)
<1>1. h \in States /\ s \in Queries /\ h.q[s] # NULL /\ h.q[s] \in QueryRecords /\ s # NULL
  BY LiveFacts, AdnsAssumption DEF Whole
<1>2. Member(h.q, Y, {}, s)
  BY DEF Whole, Family
<1>3. QueueFor(c, ChildrenOf(h.q, s))
  BY <1>2 DEF Member
<1>4. /\ c \in Seq(Queries) /\ n \in Nat /\ \A i, j \in 1..n : c[i] = c[j] => i = j
      /\ {c[i] : i \in 1..n} = ChildrenOf(h.q, s)
  BY <1>3, SeqFacts DEF QueueFor, Listed
<1>5. PICK e : Trace(e, "cancel", h, c, NULL, n) /\ Thread(CancelOne, h, c) = e[n]
  BY <1>4, CancelThread
<1>6. e[0] = h /\ \A i \in 1..n : e[i] = Do("cancel", e[i - 1], c[i], NULL)
  BY <1>4, <1>5, TraceSteps
<1> DEFINE J(i) == /\ Whole(e[i], X, Y, {s}, V) /\ Rest(e[i], h) /\ s \in Live(e[i].q)
                   /\ e[i].q[s] = h.q[s]
                   /\ ChildrenOf(e[i].q, s) = {c[j] : j \in (i + 1)..n}
                   /\ \A t \in Queries : \/ e[i].q[t] = h.q[t]
                                         \/ t \in ChildrenOf(h.q, s) /\ e[i].q[t] = NULL
           T == {i \in 0..n : J(i)}
<1>7. J(0)
  <2>1. Whole(h, X, Y, {s}, V)
    <3>1. {} \subseteq {s} /\ Y \subseteq Y /\ V \subseteq V
      OBVIOUS
    <3>. QED BY <3>1, Weaker
  <2>2. Rest(h, h)
    BY DEF Rest, SameTcp, SameIo
  <2>3. (0 + 1)..n = 1..n
    OBVIOUS
  <2>. QED BY <1>4, <1>6, <2>1, <2>2, <2>3
<1>8. ASSUME NEW i \in 1..n, J(i - 1)
      PROVE  J(i)
  <2> DEFINE k == e[i - 1]
             x == c[i]
  <2>1. /\ Whole(k, X, Y, {s}, V) /\ Rest(k, h) /\ s \in Live(k.q) /\ k.q[s] = h.q[s]
        /\ ChildrenOf(k.q, s) = {c[j] : j \in i..n}
        /\ \A t \in Queries : k.q[t] = h.q[t] \/ (t \in ChildrenOf(h.q, s) /\ k.q[t] = NULL)
    <3>1. (i - 1) + 1 = i
      OBVIOUS
    <3>. QED BY <1>8, <3>1, Zenon
  <2>2. e[i] = CancelOne(k, x)
    BY <1>6 DEF Do
  <2> HIDE DEF k
  <2>3. x \in Live(k.q) /\ k.q[x].parent = s
    <3>1. x \in ChildrenOf(k.q, s)
      BY <1>4, <2>1
    <3>. QED BY <3>1 DEF ChildrenOf
  <2>4. k.q[x].kind = "addr" /\ k.q[x].children = <<>>
    BY <1>1, <2>1, <2>3 DEF Whole, Family, Member
  <2>5. x # s
    <3>1. x = s => n = 0
      BY <2>1, <2>4
    <3>. QED BY <1>4, <3>1
  <2>6. ChildrenOf(k.q, x) = {}
    <3>1. QueueFor(<<>>, ChildrenOf(k.q, x))
      BY <2>1, <2>3, <2>4, <2>5 DEF Whole, Family, Member
    <3>. QED BY <3>1, EmptyQueue DEF QueueFor
  <2>7. x \in Live(k.q) \ X /\ k.q[x].parent \in {s} \union {NULL}
    BY <2>3, <2>5
  <2>8. Whole(e[i], X, Y, {s}, V) /\ Freed(e[i], k, x)
    BY <2>1, <2>2, <2>6, <2>7, CancelOneWhole, Zenon
  <2>9. Rest(e[i], h)
    BY <2>1, <2>8 DEF Freed, Rest, SameTcp, SameIo
  <2>10. s \in Live(e[i].q) /\ e[i].q[s] = h.q[s]
    BY <1>1, <2>1, <2>5, <2>8 DEF Freed
  <2>11. ChildrenOf(e[i].q, s) = {c[j] : j \in (i + 1)..n}
    <3>1. ChildrenOf(e[i].q, s) = {c[j] : j \in i..n} \ {c[i]}
      BY <2>1, <2>8 DEF Freed
    <3>2. \A j \in (i + 1)..n : j \in i..n /\ j \in 1..n /\ j # i
      BY <1>4
    <3>3. \A j \in i..n : j = i \/ j \in (i + 1)..n
      BY <1>4
    <3>. QED BY <1>4, <3>1, <3>2, <3>3
  <2>12. x \in ChildrenOf(h.q, s) /\ x \in Queries
    BY <1>4
  <2>13. ASSUME NEW t \in Queries
         PROVE  e[i].q[t] = h.q[t] \/ (t \in ChildrenOf(h.q, s) /\ e[i].q[t] = NULL)
    <3>1. CASE t = x
      BY <2>8, <2>12, <3>1 DEF Freed, Live
    <3>2. CASE t # x
      BY <2>1, <2>8, <3>2 DEF Freed
    <3>. QED BY <3>1, <3>2
  <2>. QED BY <2>8, <2>9, <2>10, <2>11, <2>13
<1>9. J(n)
  <2>1. 0 \in T
    BY <1>4, <1>7
  <2>2. ASSUME NEW i \in 1..n, i - 1 \in T PROVE i \in T
    <3>1. J(i - 1)
      BY <2>2, Zenon
    <3>2. J(i)
      BY <1>8, <3>1, Zenon
    <3>3. i \in 0..n
      BY <1>4
    <3>. QED BY <3>2, <3>3, Zenon
  <2>3. n \in Nat /\ n \in 0..n
    BY <1>4
  <2> HIDE DEF T, n
  <2>4. n \in T
    BY <2>1, <2>2, <2>3, UpTo, Zenon
  <2>. QED BY <2>4, Zenon DEF T
<1> DEFINE k == e[n]
           W == Y \union {s}
<1>10. SetsChildren(g, k, s, <<>>)
  BY <1>5, Zenon DEF cancel_children, SetsChildren
<1>11. ChildrenOf(k.q, s) = {}
  <2>1. (n + 1)..n = {}
    BY <1>4
  <2>. QED BY <1>9, <2>1
<1>12. /\ s \in Live(k.q) /\ k.q[s] = h.q[s] /\ Rest(k, h)
       /\ \A t \in Queries : k.q[t] = h.q[t] \/ (t \in ChildrenOf(h.q, s) /\ k.q[t] = NULL)
  BY <1>9
<1>13. Whole(k, X, W, {s}, V) /\ s \in W
  <2>1. {s} \subseteq {s} /\ Y \subseteq W /\ V \subseteq V /\ s \in W
    OBVIOUS
  <2>2. Whole(k, X, Y, {s}, V)
    BY <1>9
  <2> HIDE DEF k, W
  <2>. QED BY <2>1, <2>2, Weaker
<1> HIDE DEF k, W
<1>14. QueueFor(<<>>, ChildrenOf(k.q, s))
  BY <1>11, EmptyQueue
<1>15. Whole(g, X, W, {s} \ {s}, V) /\ Parented(g, k, s, <<>>)
  BY <1>10, <1>12, <1>13, <1>14, ChildrenWhole
<1>16. Whole(g, X, W, {}, V)
  <2>1. {s} \ {s} = {}
    OBVIOUS
  <2>. QED BY <1>15, <2>1
<1>17. s \in Live(g.q)
  <2>1. g.q[s] \in QueryRecords
    <3>1. <<>> \in Seq(Queries)
      OBVIOUS
    <3>2. g.q[s] = [h.q[s] EXCEPT !.children = <<>>]
      BY <1>12, <1>15 DEF Parented
    <3>3. \A r \in QueryRecords : [r EXCEPT !.children = <<>>] \in QueryRecords
      BY <3>1 DEF QueryRecords
    <3>. QED BY <1>1, <3>2, <3>3
  <2>. QED BY <1>1, <2>1, AdnsAssumption DEF Live
<1>18. \A t \in Queries \ {s} : g.q[t] = k.q[t]
  BY <1>15 DEF Parented
<1>. QED BY <1>12, <1>15, <1>16, <1>17, <1>18 DEF Cancelled, Parented, Rest, SameTcp, SameIo, W

-----------------------------------------------------------------------------
(* The end of a query. *)

LEMMA SettledRecord ==
  ASSUME NEW qu \in QueryRecords, NEW state \in {"childw", "done"}, NEW r, r = Settled(qu, state)
  PROVE  /\ r \in QueryRecords /\ r.state = state /\ r.kind = qu.kind /\ r.parent = qu.parent
         /\ r.children = qu.children /\ ~r.sent /\ ~r.late
BY DEF Settled, query_alloc, QueryRecords

(* A query that is over, or not late unless it was; none begins to wait for   *)
(* TCP.                                                                      *)
Fades(t, r) ==
  t # NULL => /\ r # NULL /\ (t.late => r.late)
              /\ t.state = "tcpw" => /\ r.state = "tcpw" /\ t.parent = r.parent
                                     /\ \A n \in Nat : n <= r.retries => n <= t.retries

Fading(g, h) == \A t \in Queries : Fades(g.q[t], h.q[t])

Rid(t) == t # NULL => ~t.late

(* Only the children of s and those of its parent end with it.               *)
Near(h, s, t) == h.q[t].parent # NULL /\ h.q[t].parent \in {s, h.q[s].parent}

Spares(g, h, s) ==
  \A t \in Live(h.q) \ {s} : h.q[t].state = "tcpw" /\ ~Near(h, s, t) => g.q[t] = h.q[t]

LEMMA FadingTrans ==
  ASSUME NEW f, NEW g, NEW h, Fading(g, f), Fading(h, g)
  PROVE  Fading(h, f)
BY DEF Fading, Fades

LEMMA FadingSelf ==
  ASSUME NEW h, NEW g, g.q = h.q
  PROVE  Fading(g, h) /\ \A s : Spares(g, h, s)
BY DEF Fading, Fades, Spares

LEMMA CancelledFading ==
  ASSUME NEW h, h \in States, NEW s \in Live(h.q), NEW g, Cancelled(g, h, s)
  PROVE  Fading(g, h) /\ Spares(g, h, s)
<1>1. s \in Queries /\ h.q[s] \in QueryRecords /\ h.q[s] # NULL /\ s # NULL
  BY LiveFacts, AdnsAssumption DEF Live
<1> DEFINE r == [h.q[s] EXCEPT !.children = <<>>]
<1>2. r.late = h.q[s].late /\ r.state = h.q[s].state /\ r.parent = h.q[s].parent
      /\ r.retries = h.q[s].retries
  BY <1>1 DEF QueryRecords
<1> HIDE DEF r
<1>3. g.q[s] = r /\ \A t \in Queries \ {s} :
                     g.q[t] = h.q[t] \/ (t \in ChildrenOf(h.q, s) /\ g.q[t] = NULL)
  BY DEF Cancelled, r
<1>4. ASSUME NEW t \in Queries PROVE Fades(g.q[t], h.q[t])
  BY <1>1, <1>2, <1>3 DEF Fades
<1>5. ASSUME NEW t \in Live(h.q) \ {s}, ~Near(h, s, t) PROVE g.q[t] = h.q[t]
  <2>1. t \notin ChildrenOf(h.q, s)
    BY <1>1, <1>5 DEF Near, ChildrenOf
  <2>. QED BY <1>3, <1>5, <2>1 DEF Live
<1>. QED BY <1>4, <1>5 DEF Fading, Spares

LEMMA DoneTopWhole ==
  ASSUME NEW h, NEW s \in Live(h.q), Good(h, {s}), h.q[s].parent = NULL,
         NEW g, g = DoneTop(h, s)
  PROVE  Good(g, {}) /\ Rest(g, h) /\ Fading(g, h) /\ Spares(g, h, s) /\ Rid(g.q[s])
<1> DEFINE k == cancel_children(h, s)
           r == Settled(k.q[s], "done")
           e == [k EXCEPT !.q[s] = r]
<1>1. Whole(h, {s}, {s}, {}, {s}) /\ {s} \subseteq {s}
  BY DEF Good
<1>2. Whole(k, {s}, {s} \union {s}, {}, {s}) /\ Cancelled(k, h, s)
  BY <1>1, CancelChildren, Zenon
<1>3. {s} \union {s} = {s} /\ s \in {s}
  OBVIOUS
<1>4. Whole(k, {s}, {s}, {}, {s})
  BY <1>2, <1>3
<1>5. k \in States /\ s \in Queries /\ s \in Live(k.q) /\ k.q[s] \in QueryRecords /\ Rest(k, h)
  BY <1>2, <1>4, LiveFacts DEF Cancelled, Whole
<1>6. k.q[s].parent = NULL /\ k.q[s].children = <<>>
  <2>1. h.q[s] \in QueryRecords
    BY <1>1, LiveFacts DEF Whole
  <2>. QED BY <1>2, <2>1 DEF Cancelled, QueryRecords
<1> HIDE DEF k
<1>7. /\ r \in QueryRecords /\ r.state = "done" /\ r.kind = k.q[s].kind /\ r.parent = k.q[s].parent
      /\ r.children = k.q[s].children /\ ~r.sent /\ ~r.late
  BY <1>5, SettledRecord
<1>8. Sets(e, k, s, r)
  BY DEF Sets
<1>9. g = Link(e, "output", s)
  BY Zenon DEF DoneTop, k
<1> HIDE DEF r, e
<1>10. Whole(e, {s}, {s}, {}, {s})
  BY <1>3, <1>4, <1>5, <1>6, <1>7, <1>8, ChangeWhole
<1>11. Rest(e, k) /\ e.q[s] = r
  BY <1>5, <1>7, <1>8, SetRecord
<1>12. s \in Live(e.q)
  BY <1>5, <1>7, <1>11, AdnsAssumption DEF Live
<1>13. e.q[s].state = "done" /\ e.q[s].children = <<>> /\ Linkable(e.q[s])
  BY <1>6, <1>7, <1>11 DEF Linkable
<1>14. Whole(g, {s} \ {s}, {s} \ {s}, {}, {s}) /\ g.q = e.q /\ Rest(g, e)
  BY <1>3, <1>9, <1>10, <1>12, <1>13, QueueOfFacts, LinkWhole
<1>15. Whole(g, {}, {}, {}, {s})
  <2>1. {s} \ {s} = {}
    OBVIOUS
  <2>. QED BY <1>14, <2>1
<1>16. Whole(g, {}, {}, {}, {s} \ {s})
  BY <1>13, <1>14, <1>15, NowSent
<1>17. Whole(g, {}, {}, {}, {})
  <2>1. {s} \ {s} = {}
    OBVIOUS
  <2>. QED BY <1>16, <2>1
<1>18. \A t \in Queries \ {s} : g.q[t] = k.q[t]
  <2>1. r \in QueryRecords \union {NULL}
    BY <1>7
  <2>. QED BY <1>5, <1>8, <1>14, <2>1, SetRecord
<1>19. g.q[s] = r
  BY <1>11, <1>14
<1>20. Fading(k, h) /\ Spares(k, h, s)
  BY <1>1, <1>2, CancelledFading DEF Whole
<1>21. Fading(g, h)
  <2>1. h.q[s] # NULL
    BY DEF Live
  <2>2. Fades(g.q[s], h.q[s])
    BY <1>7, <1>19, <2>1 DEF Fades
  <2>. QED BY <1>18, <1>20, <2>2 DEF Fading
<1>22. Spares(g, h, s) /\ Rid(g.q[s])
  BY <1>7, <1>18, <1>19, <1>20 DEF Spares, Rid, Live
<1>. QED BY <1>5, <1>11, <1>14, <1>17, <1>21, <1>22 DEF Good, Rest, SameTcp, SameIo

LEMMA LinkGood ==
  ASSUME NEW h, NEW s \in Live(h.q), Good(h, {s}), h.q[s].state # "tcpw",
         NEW list, list = QueueOf(h.q[s].state), NEW g, g = Link(h, list, s),
         Linkable(h.q[s])
  PROVE  Good(g, {}) /\ Rest(g, h) /\ g.q = h.q
<1>1. Whole(h, {s}, {s}, {}, {s}) /\ s \in {s}
  BY DEF Good
<1>2. Whole(g, {s} \ {s}, {s} \ {s}, {}, {s}) /\ g.q = h.q /\ Rest(g, h)
  BY <1>1, LinkWhole
<1>3. {s} \ {s} = {}
  OBVIOUS
<1>4. Whole(g, {}, {}, {}, {s})
  BY <1>2, <1>3
<1>5. Whole(g, {}, {}, {}, {s} \ {s})
  BY <1>2, <1>4, NowSent
<1>. QED BY <1>2, <1>3, <1>5 DEF Good

LEMMA GoesOnWhole ==
  ASSUME NEW h, NEW p \in Live(h.q), Good(h, {p}), h.q[p].parent = NULL, h.q[p].state = "childw",
         NEW g, g = GoesOn(h, p)
  PROVE  Good(g, {}) /\ Rest(g, h) /\ Fading(g, h) /\ Spares(g, h, p)
<1>1. CASE h.q[p].children = <<>>
  BY <1>1, DoneTopWhole, Zenon DEF GoesOn
<1>2. CASE h.q[p].children # <<>>
  <2>1. g = Link(h, "childw", p)
    BY <1>2, Zenon DEF GoesOn
  <2>2. Linkable(h.q[p])
    BY <1>2 DEF Linkable
  <2>3. Good(g, {}) /\ Rest(g, h) /\ g.q = h.q
    BY <2>1, <2>2, LinkGood, QueueOfFacts
  <2>. QED BY <2>3, FadingSelf
<1>. QED BY <1>1, <1>2

(* What is known of the parent of a query that is in no queue. *)
LEMMA ParentFacts ==
  ASSUME NEW h, NEW s \in Live(h.q), Good(h, {s}), NEW p, p = h.q[s].parent, p # NULL
  PROVE  /\ p \in Live(h.q) \ {s} /\ h.q[p].state = "childw" /\ h.q[p].parent = NULL
         /\ h.q[p].kind # "addr" /\ s \in ChildrenOf(h.q, p)
         /\ QueueFor(h.q[p].children, ChildrenOf(h.q, p))
<1>1. h \in States /\ s \in Queries /\ Family(h.q, {s}, {})
  BY LiveFacts DEF Good, Whole
<1>2. p \in Live(h.q) /\ s \in ChildrenOf(h.q, p) /\ h.q[s].children = <<>>
  BY <1>1 DEF Family, Member, ChildrenOf
<1>3. QueueFor(h.q[p].children, ChildrenOf(h.q, p))
  BY <1>1, <1>2 DEF Family, Member
<1>4. h.q[p].children # <<>>
  BY <1>2, <1>3, EmptyQueue DEF QueueFor
<1>5. p # s
  BY <1>2, <1>4
<1>. QED BY <1>1, <1>2, <1>3, <1>4, <1>5 DEF Family, Member

LEMMA DoneChildWhole ==
  ASSUME NEW h, NEW s \in Live(h.q), Good(h, {s}), h.q[s].parent # NULL, h.q[s].children = <<>>,
         NEW right \in BOOLEAN, NEW res, res = DoneChild(h, s, right)
  PROVE  Good(res, {}) /\ Rest(res, h) /\ Fading(res, h) /\ Spares(res, h, s) /\ res.q[s] = NULL
<1> DEFINE p == h.q[s].parent
           k == Unlink(h, "childw", p)
           e == [k EXCEPT !.q[s] = NULL]
           c == Without(h.q[p].children, s)
           g == [k EXCEPT !.q[p].children = Without(@, s), !.q[s] = NULL]
           A == {s} \union {p}
<1>1. /\ p \in Live(h.q) \ {s} /\ h.q[p].state = "childw" /\ h.q[p].parent = NULL
      /\ h.q[p].kind # "addr" /\ s \in ChildrenOf(h.q, p)
      /\ QueueFor(h.q[p].children, ChildrenOf(h.q, p))
  BY ParentFacts
<1>2. /\ h \in States /\ s \in Queries /\ p \in Queries /\ p # s
      /\ h.q[s] \in QueryRecords /\ h.q[p] \in QueryRecords
      /\ Whole(h, {s}, {s}, {}, {s})
  BY <1>1, LiveFacts DEF Good, Whole
<1>3. res = IF h.q[p].kind = "ptr" THEN icb_ptr(g, p, right) ELSE icb_hostaddr(g, p, right)
  BY Zenon DEF DoneChild
<1> HIDE DEF p
<1>4. Whole(k, A, A, {}, A) /\ k.q = h.q /\ Rest(k, h)
  BY <1>1, <1>2, QueueOfFacts, UnlinkWhole
<1>5. k \in States
  BY <1>4 DEF Whole
<1>6. Whole(k, A, A, {p}, A) /\ s \in A /\ A \ {s} = {p}
  <2>1. s \in A /\ A \ {s} = {p} /\ {} \subseteq {p} /\ A \subseteq A
    BY <1>2
  <2> HIDE DEF k, A
  <2>. QED BY <1>4, <2>1, Weaker
<1>7. s \in Live(k.q) /\ ChildrenOf(k.q, s) = {} /\ k.q[s].parent \in {p} \union {NULL}
  <2>1. QueueFor(<<>>, ChildrenOf(h.q, s))
    BY <1>2 DEF Whole, Family, Member
  <2>. QED BY <1>4, <2>1, EmptyQueue DEF QueueFor, p
<1>8. Sets(e, k, s, NULL)
  BY DEF Sets
<1>9. SetsChildren(g, e, p, c)
  <2> DEFINE f == [k.q EXCEPT ![p].children = c, ![s] = NULL]
             d == [k.q EXCEPT ![s] = NULL]
  <2>1. g = [k EXCEPT !.q = f] /\ e = [k EXCEPT !.q = d]
    BY <1>4
  <2>2. k.q \in [Queries -> QueryRecords \union {NULL}]
    BY <1>5 DEF States
  <2> HIDE DEF k, e, c, g
  <2>3. f = [d EXCEPT ![p].children = c]
    BY <1>2, <2>2
  <2> HIDE DEF f, d
  <2>4. [k EXCEPT !.q = f] = [[k EXCEPT !.q = d] EXCEPT !.q[p].children = c]
    BY <1>5, <2>3 DEF States
  <2>. QED BY <2>1, <2>4 DEF SetsChildren
<1>10. QueueFor(c, ChildrenOf(h.q, p) \ {s})
  BY <1>1, WithoutQueue
<1> HIDE DEF k, e, c, g, A
<1>11. Whole(e, A \ {s}, A \ {s}, {p} \ {s}, A \ {s}) /\ Freed(e, k, s)
  BY <1>6, <1>7, <1>8, FreeWhole, Zenon
<1>12. Whole(e, {p}, {p}, {p}, {p}) /\ p \in {p}
  <2>1. {p} \ {s} = {p}
    BY <1>2
  <2>. QED BY <1>6, <1>11, <2>1
<1>13. /\ p \in Live(e.q) /\ QueueFor(c, ChildrenOf(e.q, p)) /\ e.q[p] = h.q[p]
       /\ (e.q[p].kind = "addr" => c = <<>>)
  BY <1>1, <1>2, <1>4, <1>10, <1>11 DEF Freed
<1>14. Whole(g, {p}, {p}, {p} \ {p}, {p}) /\ Parented(g, e, p, c)
  BY <1>9, <1>12, <1>13, ChildrenWhole
<1>15. Good(g, {p})
  <2>1. {p} \ {p} = {}
    OBVIOUS
  <2>. QED BY <1>14, <2>1 DEF Good
<1>16. g.q[p].parent = NULL /\ g.q[p].state = "childw" /\ g.q[p] # NULL
  <2>1. g.q[p] = [h.q[p] EXCEPT !.children = c]
    BY <1>13, <1>14 DEF Parented
  <2>2. [h.q[p] EXCEPT !.children = c] \in QueryRecords
    BY <1>2, <1>10 DEF QueryRecords, QueueFor
  <2>. QED BY <1>1, <1>2, <2>1, <2>2, AdnsAssumption DEF QueryRecords
<1>17. p \in Live(g.q) /\ Rest(g, h)
  BY <1>2, <1>4, <1>11, <1>14, <1>16 DEF Live, Freed, Parented, Rest, SameTcp, SameIo
<1>18. res = GoesOn(g, p) \/ res = DoneTop(g, p)
  BY <1>3 DEF icb_ptr, icb_hostaddr
<1>19. Good(res, {}) /\ Rest(res, g) /\ Fading(res, g) /\ Spares(res, g, p)
  BY <1>15, <1>16, <1>17, <1>18, GoesOnWhole, DoneTopWhole
<1>20. e.q[s] = NULL /\ g.q[s] = NULL /\ \A t \in Queries \ {s, p} : g.q[t] = h.q[t]
  <2>1. s \notin Live(e.q) /\ \A t \in Queries \ {s} : e.q[t] = h.q[t]
    BY <1>4, <1>11 DEF Freed
  <2>2. \A t \in Queries \ {p} : g.q[t] = e.q[t]
    BY <1>14 DEF Parented
  <2>. QED BY <1>2, <2>1, <2>2 DEF Live
<1>21. g.q[p] = [h.q[p] EXCEPT !.children = c]
  BY <1>13, <1>14 DEF Parented
<1>22. Fading(g, h)
  <2>1. [h.q[p] EXCEPT !.children = c].late = h.q[p].late
    BY <1>2 DEF QueryRecords
  <2>2. Fades(g.q[p], h.q[p])
    BY <1>2, <1>16, <1>21, <2>1, AdnsAssumption DEF Fades
  <2>. QED BY <1>20, <2>2 DEF Fading, Fades
<1>23. res.q[s] = NULL
  BY <1>2, <1>19, <1>20 DEF Fading, Fades
<1>24. Spares(res, h, s)
  <2> SUFFICES ASSUME NEW t \in Live(h.q) \ {s}, h.q[t].state = "tcpw", ~Near(h, s, t)
               PROVE  res.q[t] = h.q[t]
    BY DEF Spares
  <2>1. t \in Queries /\ t # p /\ h.q[t] # NULL
    BY <1>1 DEF Live
  <2>2. g.q[t] = h.q[t] /\ t \in Live(g.q)
    BY <1>20, <2>1 DEF Live
  <2>3. ~Near(g, p, t)
    BY <1>16, <2>2 DEF Near, p
  <2>. QED BY <1>19, <2>1, <2>2, <2>3 DEF Spares
<1>25. Fading(res, h)
  BY <1>19, <1>22, FadingTrans
<1>. QED BY <1>17, <1>19, <1>23, <1>24, <1>25 DEF Rest, SameTcp, SameIo

LEMMA QueryDoneWhole ==
  ASSUME NEW h, NEW s \in Live(h.q), Good(h, {s}),
         NEW right \in BOOLEAN, NEW g, g = adns__query_done(h, s, right)
  PROVE  Good(g, {}) /\ Rest(g, h) /\ Fading(g, h) /\ Spares(g, h, s) /\ Rid(g.q[s])
<1>1. CASE h.q[s].parent = NULL
  BY <1>1, DoneTopWhole, Zenon DEF adns__query_done
<1>2. CASE h.q[s].parent # NULL
  <2> DEFINE k == cancel_children(h, s)
  <2>1. Whole(h, {s}, {s}, {}, {s}) /\ {s} \subseteq {s} /\ {s} \union {s} = {s}
    BY DEF Good
  <2>2. Whole(k, {s}, {s} \union {s}, {}, {s}) /\ Cancelled(k, h, s)
    BY <2>1, CancelChildren, Zenon
  <2>3. Good(k, {s})
    BY <2>1, <2>2 DEF Good
  <2>4. h.q[s] \in QueryRecords
    BY <2>1, LiveFacts DEF Whole
  <2>5. g = DoneChild(k, s, right)
    BY <1>2, Zenon DEF adns__query_done
  <2> HIDE DEF k
  <2>6. s \in Live(k.q) /\ k.q[s].parent # NULL /\ k.q[s].children = <<>>
    BY <1>2, <2>2, <2>4 DEF Cancelled, QueryRecords
  <2>7. Good(g, {}) /\ Rest(g, k) /\ Fading(g, k) /\ Spares(g, k, s) /\ g.q[s] = NULL
    BY <2>3, <2>5, <2>6, DoneChildWhole
  <2>8. Fading(k, h) /\ Spares(k, h, s)
    BY <2>1, <2>2, CancelledFading DEF Whole
  <2>9. Fading(g, h) /\ Rid(g.q[s])
    BY <2>7, <2>8, FadingTrans DEF Rid
  <2>10. k.q[s].parent = h.q[s].parent
    BY <2>2, <2>4 DEF Cancelled, QueryRecords
  <2>11. Spares(g, h, s)
    <3> SUFFICES ASSUME NEW t \in Live(h.q) \ {s}, h.q[t].state = "tcpw", ~Near(h, s, t)
                 PROVE  g.q[t] = h.q[t]
      BY DEF Spares
    <3>1. k.q[t] = h.q[t] /\ t \in Live(k.q) \ {s}
      BY <2>8 DEF Spares, Live
    <3>2. ~Near(k, s, t)
      BY <2>10, <3>1 DEF Near
    <3>. QED BY <2>7, <3>1, <3>2 DEF Spares
  <2>. QED BY <2>2, <2>7, <2>9, <2>11 DEF Cancelled, Rest, SameTcp, SameIo
<1>. QED BY <1>1, <1>2

-----------------------------------------------------------------------------
(* The TCP connection. *)

(* No query is late that was not, and every try is counted.                  *)
Ages(r, t) ==
  r # NULL => t.late = r.late /\ \A n \in Nat : n <= r.retries => n <= t.retries

(* What the connection does to the queries.                                  *)
Shaped(g, h) ==
  /\ g \in States /\ SameQueues(g, h) /\ g.bad = h.bad
  /\ \A s \in Queries : SameShape(h.q[s], g.q[s]) /\ Ages(h.q[s], g.q[s])

(* What is sent or waits to be written is on a connection that is made.      *)
Clear(h) ==
  /\ \A s \in Live(h.q) : h.q[s].sent => h.tcpstate = "ok"
  /\ h.tcpsend => h.tcpstate = "ok"

Quiet(h) == ~h.tcpsend /\ \A s \in Live(h.q) : ~h.q[s].sent

Waits(h) == \A s \in Listed(h.tcpw) : s \in Live(h.q) /\ h.q[s].state = "tcpw"

LEMMA ShapedTrans ==
  ASSUME NEW f, NEW g, NEW h, Shaped(g, f), Shaped(h, g)
  PROVE  Shaped(h, f)
BY DEF Shaped, SameQueues, SameShape, Ages

LEMMA ShapedSelf ==
  ASSUME NEW h \in States
  PROVE  Shaped(h, h)
BY DEF Shaped, SameQueues, SameShape, Ages

LEMMA ShapedFading ==
  ASSUME NEW g, NEW h, Shaped(g, h)
  PROVE  Fading(g, h)
BY DEF Shaped, SameShape, Ages, Fading, Fades

LEMMA SameLists ==
  ASSUME NEW h, NEW g \in States, SameQueues(g, h), g.q = h.q, g.bad = h.bad
  PROVE  Shaped(g, h)
BY DEF Shaped, SameShape, Ages

LEMMA ShapedLive ==
  ASSUME NEW g, NEW h, Shaped(g, h)
  PROVE  /\ Live(g.q) = Live(h.q) /\ \A s \in Live(h.q) : g.q[s].state = h.q[s].state
         /\ Waits(h) => Waits(g)
<1>1. Live(g.q) = Live(h.q) /\ \A s \in Live(h.q) : g.q[s].state = h.q[s].state
  BY DEF Shaped, SameShape, Live
<1>. QED BY <1>1 DEF Waits, Shaped, SameQueues

LEMMA ShapedWhole ==
  ASSUME NEW h, NEW X, NEW Y, NEW Z, NEW V, Whole(h, X, Y, Z, V),
         NEW g, Shaped(g, h), NEW V1, Wired(g, V1)
  PROVE  Whole(g, X, Y, Z, V1)
BY ShapeWhole DEF Shaped

LEMMA WholeWaits ==
  ASSUME NEW h, NEW X, NEW Y, NEW Z, NEW V, Whole(h, X, Y, Z, V)
  PROVE  /\ h \in States /\ Waits(h) /\ Clear(h)
         /\ Listed(h.tcpw) = In(h.q, X, "tcpw")
<1>1. Listed(h.tcpw) = In(h.q, X, "tcpw")
  BY DEF Whole, Queued, QueueFor
<1>2. Waits(h)
  BY <1>1 DEF Waits, In
<1>. QED BY <1>1, <1>2 DEF Whole, Wired, Clear

LEMMA RecordsSent ==
  ASSUME NEW q \in [Queries -> QueryRecords \union {NULL}], NEW e,
         e = [s \in Queries |-> IF q[s] = NULL THEN NULL ELSE [q[s] EXCEPT !.sent = FALSE]]
  PROVE  /\ e \in [Queries -> QueryRecords \union {NULL}]
         /\ \A s \in Queries : /\ SameShape(q[s], e[s]) /\ Ages(q[s], e[s])
                               /\ e[s] # NULL => ~e[s].sent
<1>1. \A r \in QueryRecords : /\ [r EXCEPT !.sent = FALSE] \in QueryRecords /\ r # NULL
                              /\ ~[r EXCEPT !.sent = FALSE].sent
                              /\ [r EXCEPT !.sent = FALSE].state = r.state
                              /\ [r EXCEPT !.sent = FALSE].kind = r.kind
                              /\ [r EXCEPT !.sent = FALSE].parent = r.parent
                              /\ [r EXCEPT !.sent = FALSE].children = r.children
                              /\ [r EXCEPT !.sent = FALSE].retries = r.retries
                              /\ [r EXCEPT !.sent = FALSE].usevc = r.usevc
                              /\ [r EXCEPT !.sent = FALSE].late = r.late
                              /\ [r EXCEPT !.sent = FALSE].usevc = r.usevc
                              /\ [r EXCEPT !.sent = FALSE].late = r.late
  BY AdnsAssumption DEF QueryRecords
<1>2. ASSUME NEW s \in Queries
      PROVE  /\ e[s] \in QueryRecords \union {NULL}
             /\ SameShape(q[s], e[s]) /\ Ages(q[s], e[s]) /\ (e[s] # NULL => ~e[s].sent)
  <2>1. CASE q[s] = NULL
    BY <2>1 DEF SameShape, Ages
  <2>2. CASE q[s] # NULL
    <3>1. q[s] \in QueryRecords /\ e[s] = [q[s] EXCEPT !.sent = FALSE]
      BY <2>2
    <3> DEFINE r == [q[s] EXCEPT !.sent = FALSE]
    <3>2. /\ r \in QueryRecords /\ r # NULL /\ ~r.sent /\ r.state = q[s].state /\ r.kind = q[s].kind
          /\ r.parent = q[s].parent /\ r.children = q[s].children /\ r.retries = q[s].retries
          /\ r.usevc = q[s].usevc /\ r.late = q[s].late
      BY <1>1, <3>1
    <3> HIDE DEF r
    <3>3. e[s] = r
      BY <3>1 DEF r
    <3>. QED BY <2>2, <3>2, <3>3 DEF SameShape, Ages
  <2>. QED BY <2>1, <2>2
<1>. QED BY <1>2

LEMMA CloseShape ==
  ASSUME NEW h \in States, NEW g, g = tcp_close(h)
  PROVE  /\ Shaped(g, h) /\ Quiet(g) /\ g.tcpstate = h.tcpstate /\ SameIo(g, h)
         /\ g.tcptimeout = h.tcptimeout
<1> DEFINE e == [s \in Queries |-> IF h.q[s] = NULL THEN NULL ELSE [h.q[s] EXCEPT !.sent = FALSE]]
<1>1. g = [h EXCEPT !.tcpsend = FALSE, !.q = e]
  BY DEF tcp_close, States
<1>2. h.q \in [Queries -> QueryRecords \union {NULL}]
  BY DEF States
<1>3. /\ e \in [Queries -> QueryRecords \union {NULL}]
      /\ \A s \in Queries : /\ SameShape(h.q[s], e[s]) /\ Ages(h.q[s], e[s])
                            /\ e[s] # NULL => ~e[s].sent
  BY <1>2, RecordsSent
<1> HIDE DEF e
<1>4. /\ g \in States /\ g.q = e /\ g.tcpsend = FALSE /\ g.tcpstate = h.tcpstate
      /\ SameIo(g, h) /\ SameQueues(g, h) /\ g.tcptimeout = h.tcptimeout
  BY <1>1, <1>3 DEF States, SameIo, SameQueues
<1>5. Shaped(g, h)
  <2>1. \A s \in Queries : SameShape(h.q[s], g.q[s]) /\ Ages(h.q[s], g.q[s])
    BY <1>3, <1>4, Zenon
  <2>. QED BY <1>4, <2>1, Zenon DEF Shaped, SameIo
<1>6. \A s \in Live(g.q) : ~g.q[s].sent
  BY <1>3, <1>4 DEF Live
<1>. QED BY <1>4, <1>5, <1>6, Zenon DEF Quiet

(* One try more, at least.                                                   *)
TriedAgain(t, r) == \A n \in Nat : n <= r.retries => n + 1 <= t.retries

LEMMA BrokenShape ==
  ASSUME NEW h \in States, Waits(h), h.tcpstate \in {"connecting", "ok"},
         NEW g, g = adns__tcp_broken(h)
  PROVE  /\ Shaped(g, h) /\ Quiet(g) /\ g.tcpstate = "broken" /\ SameIo(g, h)
         /\ g.tcptimeout = h.tcptimeout
         /\ h.tcpstate = "connecting" => \A s \in Listed(h.tcpw) : TriedAgain(g.q[s], h.q[s])
<1> DEFINE k == tcp_close(h)
           tries(s) == h.tcpstate = "connecting" /\ s \in Listed(h.tcpw)
           e == [s \in Queries |-> IF tries(s) THEN [k.q[s] EXCEPT !.retries = @ + 1] ELSE k.q[s]]
<1>1. /\ Shaped(k, h) /\ Quiet(k) /\ k.tcpstate = h.tcpstate /\ SameIo(k, h)
      /\ k.tcptimeout = h.tcptimeout
  BY CloseShape
<1>2. g = [k EXCEPT !.q = e, !.tcpstate = "broken"]
  BY Zenon DEF adns__tcp_broken
<1> HIDE DEF k
<1>3. k \in States /\ k.q \in [Queries -> QueryRecords \union {NULL}]
  BY <1>1 DEF Shaped, States
<1>4. ASSUME NEW s \in Queries
      PROVE  /\ e[s] \in QueryRecords \union {NULL}
             /\ SameShape(k.q[s], e[s]) /\ Ages(k.q[s], e[s]) /\ (e[s] # NULL => ~e[s].sent)
             /\ tries(s) => TriedAgain(e[s], k.q[s])
  <2>1. CASE tries(s)
    <3>1. k.q[s] \in QueryRecords /\ k.q[s].state = "tcpw" /\ ~k.q[s].sent /\ k.q[s] # NULL
      BY <1>1, <1>3, <2>1, ShapedLive DEF Waits, Live, Quiet
    <3> DEFINE m == k.q[s].retries
               r == [k.q[s] EXCEPT !.retries = m + 1]
    <3>2. e[s] = r
      BY <2>1
    <3>3. m \in Nat /\ m + 1 \in Nat
      BY <3>1 DEF QueryRecords
    <3>4. /\ r \in QueryRecords /\ r.state = k.q[s].state /\ r.kind = k.q[s].kind /\ ~r.sent
          /\ r.parent = k.q[s].parent /\ r.children = k.q[s].children
          /\ r.late = k.q[s].late /\ r.retries = m + 1
      BY <3>1, <3>3 DEF QueryRecords
    <3>5. \A n \in Nat : n <= m => n <= m + 1 /\ n + 1 <= m + 1
      BY <3>3
    <3> HIDE DEF r, e
    <3>6. SameShape(k.q[s], e[s]) /\ e[s] \in QueryRecords /\ ~e[s].sent
      BY <3>1, <3>2, <3>4, AdnsAssumption DEF SameShape
    <3>7. Ages(k.q[s], e[s]) /\ TriedAgain(e[s], k.q[s])
      BY <3>2, <3>4, <3>5 DEF Ages, TriedAgain
    <3>. QED BY <3>6, <3>7
  <2>2. CASE ~tries(s)
    <3>1. e[s] = k.q[s]
      BY <2>2
    <3>. QED BY <1>1, <1>3, <2>2, <3>1 DEF SameShape, Ages, Quiet, Live
  <2>. QED BY <2>1, <2>2
<1>5. e \in [Queries -> QueryRecords \union {NULL}]
  BY <1>4
<1>6. /\ g \in States /\ g.q = e /\ g.tcpsend = k.tcpsend /\ g.tcpstate = "broken"
      /\ SameIo(g, k) /\ SameQueues(g, k) /\ g.tcptimeout = k.tcptimeout
  <2> HIDE DEF e
  <2>. QED BY <1>2, <1>3, <1>5 DEF States, SameIo, SameQueues
<1> HIDE DEF e
<1>7. Shaped(g, k) /\ Quiet(g)
  BY <1>1, <1>4, <1>6 DEF Shaped, SameIo, Quiet, Live
<1>8. ASSUME h.tcpstate = "connecting", NEW s \in Listed(h.tcpw)
      PROVE  TriedAgain(g.q[s], h.q[s])
  <2>1. s \in Queries /\ h.q[s] # NULL
    BY <1>8 DEF Waits, Live
  <2>2. TriedAgain(e[s], k.q[s])
    BY <1>4, <1>8, <2>1
  <2>3. Ages(h.q[s], k.q[s])
    BY <1>1, <2>1 DEF Shaped
  <2>. QED BY <1>6, <2>1, <2>2, <2>3 DEF TriedAgain, Ages
<1>9. Shaped(g, h)
  BY <1>1, <1>7, ShapedTrans
<1>. QED BY <1>1, <1>6, <1>7, <1>8, <1>9 DEF SameIo

LEMMA QuietClear ==
  ASSUME NEW h \in States
  PROVE  /\ Quiet(h) => Clear(h)
         /\ Clear(h) /\ h.tcpstate # "ok" => Quiet(h)
<1>1. \A s \in Live(h.q) : h.q[s].sent \in BOOLEAN
  BY LiveFacts DEF QueryRecords
<1>2. h.tcpsend \in BOOLEAN
  BY DEF States
<1>. QED BY <1>1, <1>2 DEF Quiet, Clear

LEMMA QuietGood ==
  ASSUME NEW h, Good(h, {}), NEW g, Shaped(g, h), Quiet(g), g.tcpstate # "ok"
  PROVE  Good(g, {})
<1>1. Wired(g, {})
  BY DEF Quiet, Wired
<1>. QED BY <1>1, ShapedWhole DEF Good

TcpSet(g, h, state) == g = [h EXCEPT !.tcpstate = state]

LEMMA StateShape ==
  ASSUME NEW h \in States, NEW state \in {"disconnected", "connecting", "ok", "broken"}, Quiet(h),
         NEW g, TcpSet(g, h, state)
  PROVE  /\ Shaped(g, h) /\ Quiet(g) /\ SameIo(g, h) /\ g.tcpstate = state
         /\ g.q = h.q /\ g.tcptimeout = h.tcptimeout
<1>1. g \in States /\ SameQueues(g, h) /\ g.q = h.q /\ g.tcpsend = h.tcpsend /\ SameIo(g, h)
      /\ g.tcpstate = state /\ g.tcptimeout = h.tcptimeout
  BY DEF TcpSet, States, SameQueues, SameIo
<1>2. Shaped(g, h)
  BY <1>1, SameLists DEF SameIo
<1>. QED BY <1>1, <1>2 DEF Quiet

SendsTo(g, h, s) ==
  g = [h EXCEPT !.q[s].retries = @ + 1, !.q[s].sent = TRUE, !.tcptimeout = "none"]

LEMMA SendRecord ==
  ASSUME NEW h \in States, NEW s \in Live(h.q), h.q[s].state = "tcpw",
         NEW g, SendsTo(g, h, s)
  PROVE  /\ Shaped(g, h) /\ g.tcpstate = h.tcpstate /\ g.tcpsend = h.tcpsend /\ SameIo(g, h)
         /\ g.q[s].sent /\ \A t \in Live(h.q) : t # s => g.q[t] = h.q[t]
<1> DEFINE r == [h.q[s] EXCEPT !.retries = h.q[s].retries + 1, !.sent = TRUE]
           e == [h.q EXCEPT ![s] = r]
<1>1. s \in Queries /\ h.q[s] \in QueryRecords /\ h.q[s] # NULL
  BY LiveFacts
<1>2. h.q \in [Queries -> QueryRecords \union {NULL}]
  BY DEF States
<1>3. g = [h EXCEPT !.q = e, !.tcptimeout = "none"]
  BY <1>1, <1>2 DEF SendsTo, States
<1>4. /\ r \in QueryRecords /\ r.sent /\ r.state = h.q[s].state /\ r.kind = h.q[s].kind
      /\ r.parent = h.q[s].parent /\ r.children = h.q[s].children /\ r.late = h.q[s].late
      /\ r.retries = h.q[s].retries + 1
  <2>1. \A qu \in QueryRecords : qu.retries + 1 \in Nat
    BY DEF QueryRecords
  <2>2. \A qu \in QueryRecords, n \in Nat :
          [qu EXCEPT !.retries = n, !.sent = TRUE] \in QueryRecords
    BY DEF QueryRecords
  <2>3. r \in QueryRecords
    BY <1>1, <2>1, <2>2, Zenon
  <2>. QED BY <1>1, <2>3 DEF QueryRecords
<1> HIDE DEF r
<1>5. /\ e \in [Queries -> QueryRecords \union {NULL}]
      /\ e[s] = r /\ \A t \in Queries : t # s => e[t] = h.q[t]
  BY <1>1, <1>2, <1>4
<1> HIDE DEF e
<1>6. g \in States /\ SameQueues(g, h) /\ g.q = e /\ g.tcpsend = h.tcpsend /\ SameIo(g, h)
      /\ g.tcpstate = h.tcpstate
  BY <1>3, <1>5 DEF States, SameQueues, SameIo
<1>7. \A t \in Queries : SameShape(h.q[t], g.q[t])
  BY <1>1, <1>4, <1>5, <1>6, AdnsAssumption DEF SameShape
<1>8. \A t \in Queries : Ages(h.q[t], g.q[t])
  <2>1. h.q[s].retries \in Nat
    BY <1>1 DEF QueryRecords
  <2>2. \A n \in Nat : n <= h.q[s].retries => n <= h.q[s].retries + 1
    BY <2>1
  <2>. QED BY <1>4, <1>5, <1>6, <2>2 DEF Ages
<1>. QED BY <1>4, <1>5, <1>6, <1>7, <1>8 DEF Shaped, SameIo, Live

(* s has been sent, and nothing that had been is not any more. *)
Sent(g, h, s) ==
  g.tcpstate = "ok" => /\ h.tcpstate = "ok" /\ g.q[s].sent
                       /\ \A t \in Live(h.q) : h.q[t].sent => g.q[t].sent

LEMMA SendShape ==
  ASSUME NEW h \in States, Waits(h), Clear(h), h.io \in IoRecords,
         NEW s \in Live(h.q), h.q[s].state = "tcpw",
         NEW g, g = adns__querysend_tcp(h, s)
  PROVE  Shaped(g, h) /\ Clear(g) /\ g.io \in IoRecords /\ Sent(g, h, s)
<1>1. CASE h.tcpstate # "ok"
  <2>1. g = h
    BY <1>1, Zenon DEF adns__querysend_tcp
  <2>. QED BY <1>1, <2>1, ShapedSelf DEF Sent
<1>2. CASE h.tcpstate = "ok"
  <2> DEFINE k == [h EXCEPT !.q[s].retries = @ + 1, !.q[s].sent = TRUE, !.tcptimeout = "none"]
             broken == [k EXCEPT !.io.error = FALSE]
  <2>1. g = CASE k.tcpsend                     -> k
              [] ~k.tcpsend /\ k.io.writes > 0 -> [k EXCEPT !.io.writes = @ - 1]
              [] ~k.tcpsend /\ k.io.writes = 0 -> IF k.io.error THEN adns__tcp_broken(broken)
                                                 ELSE [k EXCEPT !.tcpsend = TRUE]
    BY <1>2, Zenon DEF adns__querysend_tcp
  <2>2. SendsTo(k, h, s)
    BY DEF SendsTo
  <2> HIDE DEF k
  <2>3. /\ Shaped(k, h) /\ k.tcpstate = "ok" /\ k.tcpsend = h.tcpsend /\ SameIo(k, h)
        /\ k.q[s].sent /\ \A t \in Live(h.q) : t # s => k.q[t] = h.q[t]
    BY <1>2, <2>2, SendRecord
  <2>4. k \in States /\ k.io \in IoRecords /\ k.io.writes \in Nat /\ k.tcpsend \in BOOLEAN
    BY <2>3 DEF Shaped, SameIo, IoRecords, States
  <2>5. \A e : Shaped(e, k) /\ e.q = k.q /\ e.tcpstate = "ok" => Shaped(e, h) /\ Clear(e) /\ Sent(e, h, s)
    BY <1>2, <2>3, ShapedTrans DEF Clear, Sent
  <2>6. CASE k.tcpsend
    <3>1. g = k
      BY <2>1, <2>6, Zenon
    <3>. QED BY <2>3, <2>4, <2>5, <3>1, ShapedSelf
  <2>7. CASE ~k.tcpsend /\ k.io.writes > 0
    <3>1. g = [k EXCEPT !.io.writes = @ - 1]
      <4>1. k.io.writes # 0
        BY <2>4, <2>7
      <4>. QED BY <2>1, <2>7, <4>1, Zenon
    <3>2. [k.io EXCEPT !.writes = @ - 1] \in IoRecords
      BY <2>4, <2>7 DEF IoRecords
    <3>3. g = [k EXCEPT !.io = [k.io EXCEPT !.writes = @ - 1]]
      BY <2>4, <3>1 DEF States
    <3>4. g \in States /\ g.io \in IoRecords /\ SameQueues(g, k) /\ g.q = k.q /\ g.tcpstate = k.tcpstate
          /\ g.bad = k.bad
      BY <2>4, <3>2, <3>3 DEF States, SameQueues
    <3>5. Shaped(g, k)
      BY <3>4, SameLists
    <3>. QED BY <2>3, <2>5, <3>4, <3>5
  <2>8. CASE ~k.tcpsend /\ k.io.writes = 0 /\ ~k.io.error
    <3>1. g = [k EXCEPT !.tcpsend = TRUE]
      BY <2>1, <2>4, <2>8
    <3>4. g \in States /\ g.io \in IoRecords /\ SameQueues(g, k) /\ g.q = k.q /\ g.tcpstate = k.tcpstate
          /\ g.bad = k.bad
      BY <2>4, <3>1 DEF States, SameQueues
    <3>5. Shaped(g, k)
      BY <3>4, SameLists
    <3>. QED BY <2>3, <2>5, <3>4, <3>5
  <2>9. CASE ~k.tcpsend /\ k.io.writes = 0 /\ k.io.error
    <3>1. g = adns__tcp_broken(broken)
      BY <2>1, <2>4, <2>9
    <3>2. [k.io EXCEPT !.error = FALSE] \in IoRecords
      BY <2>4 DEF IoRecords
    <3>3. broken = [k EXCEPT !.io = [k.io EXCEPT !.error = FALSE]]
      BY <2>4 DEF States
    <3> HIDE DEF broken
    <3>4. /\ broken \in States /\ broken.io \in IoRecords /\ SameQueues(broken, k) /\ broken.q = k.q
          /\ broken.tcpstate = "ok" /\ broken.bad = k.bad
      BY <2>3, <2>4, <3>2, <3>3 DEF States, SameQueues
    <3>5. Shaped(broken, k)
      BY <3>4, SameLists
    <3>6. Shaped(broken, h) /\ Waits(broken)
      BY <2>3, <3>5, ShapedTrans, ShapedLive
    <3>7. Shaped(g, broken) /\ Quiet(g) /\ g.tcpstate = "broken" /\ SameIo(g, broken)
      BY <3>1, <3>4, <3>6, BrokenShape
    <3>8. Clear(g)
      BY <3>7, QuietClear DEF Shaped
    <3>9. Shaped(g, h)
      BY <3>6, <3>7, ShapedTrans
    <3>. QED BY <3>4, <3>7, <3>8, <3>9 DEF Sent, SameIo
  <2>. QED BY <2>4, <2>6, <2>7, <2>8, <2>9
<1>. QED BY <1>1, <1>2

(* Good between the calls of a function that may use the sockets.            *)
Ready(h) == Good(h, {}) /\ h.io \in IoRecords

LEMMA ConnectedGood ==
  ASSUME NEW h, Ready(h), h.tcpstate = "connecting", NEW g, g = tcp_connected(h)
  PROVE  Ready(g) /\ Shaped(g, h)
<1> DEFINE f == [h EXCEPT !.tcpstate = "ok"]
           c == h.tcpw
           n == Len(c)
<1>1. h \in States /\ Waits(h) /\ Clear(h) /\ Listed(c) = In(h.q, {}, "tcpw") /\ h.io \in IoRecords
  BY WholeWaits DEF Good, Ready
<1>2. Quiet(h)
  BY <1>1, QuietClear
<1>3. TcpSet(f, h, "ok")
  BY DEF TcpSet
<1> HIDE DEF f
<1>4. Shaped(f, h) /\ Quiet(f) /\ SameIo(f, h) /\ f.tcpstate = "ok"
  BY <1>1, <1>2, <1>3, StateShape
<1>5. Clear(f) /\ f.io \in IoRecords
  BY <1>1, <1>4, QuietClear DEF Shaped, SameIo
<1>6. c \in Seq(Queries) /\ n \in Nat
  BY <1>1, SeqFacts DEF States
<1>7. g = Thread(adns__querysend_tcp, f, c)
  BY <1>3, Zenon DEF tcp_connected, TcpSet
<1>8. PICK e : Trace(e, "send", f, c, NULL, n) /\ Thread(adns__querysend_tcp, f, c) = e[n]
  BY <1>6, SendThread
<1>9. e[0] = f /\ \A i \in 1..n : e[i] = Do("send", e[i - 1], c[i], NULL)
  BY <1>6, <1>8, TraceSteps
<1> DEFINE J(i) == /\ Shaped(e[i], h) /\ Clear(e[i]) /\ e[i].io \in IoRecords
                   /\ e[i].tcpstate = "ok" => \A j \in 1..i : e[i].q[c[j]].sent
           T == {i \in 0..n : J(i)}
<1>10. J(0)
  BY <1>4, <1>5, <1>9
<1>11. ASSUME NEW i \in 1..n, J(i - 1)
       PROVE  J(i)
  <2> DEFINE k == e[i - 1]
             s == c[i]
  <2>1. e[i] = adns__querysend_tcp(k, s)
    BY <1>9 DEF Do
  <2>2. /\ Shaped(k, h) /\ Clear(k) /\ k.io \in IoRecords
        /\ k.tcpstate = "ok" => \A j \in 1..(i - 1) : k.q[c[j]].sent
    BY <1>11
  <2> HIDE DEF k
  <2>3. \A j \in 1..n : c[j] \in Live(h.q) /\ h.q[c[j]].state = "tcpw"
    BY <1>1 DEF Waits, Listed
  <2>4. k \in States /\ Waits(k) /\ Live(k.q) = Live(h.q) /\ k.q[s].state = "tcpw" /\ s \in Live(k.q)
    BY <1>1, <2>2, <2>3, ShapedLive DEF Shaped
  <2>5. Shaped(e[i], k) /\ Clear(e[i]) /\ e[i].io \in IoRecords /\ Sent(e[i], k, s)
    BY <2>1, <2>2, <2>4, SendShape
  <2>6. Shaped(e[i], h)
    BY <2>2, <2>5, ShapedTrans
  <2>7. ASSUME e[i].tcpstate = "ok", NEW j \in 1..i
        PROVE  e[i].q[c[j]].sent
    <3>1. j = i \/ j \in 1..(i - 1)
      BY <1>6
    <3>2. j \in 1..n
      BY <1>6
    <3>. QED BY <2>2, <2>3, <2>4, <2>5, <2>7, <3>1, <3>2 DEF Sent
  <2>. QED BY <2>5, <2>6, <2>7
<1>12. J(n)
  <2>1. 0 \in T
    BY <1>6, <1>10
  <2>2. ASSUME NEW i \in 1..n, i - 1 \in T PROVE i \in T
    <3>1. J(i - 1)
      BY <2>2, Zenon
    <3>2. J(i)
      BY <1>11, <3>1, Zenon
    <3>3. i \in 0..n
      BY <1>6
    <3>. QED BY <3>2, <3>3, Zenon
  <2>3. n \in Nat
    BY <1>6
  <2> HIDE DEF T, n
  <2>4. n \in T
    <3>1. \A i \in 0..n : i \in T
      BY <2>1, <2>2, <2>3, UpTo, Zenon
    <3>. QED BY <2>3, <3>1
  <2>. QED BY <2>4, Zenon DEF T
<1>13. g = e[n]
  BY <1>7, <1>8, Zenon
<1> HIDE DEF n
<1>14. /\ Shaped(g, h) /\ Clear(g) /\ g.io \in IoRecords
       /\ g.tcpstate = "ok" => \A j \in 1..n : g.q[c[j]].sent
  BY <1>12, <1>13
<1>15. Wired(g, {})
  <2>1. In(g.q, {}, "tcpw") = {c[j] : j \in 1..n}
    <3>1. In(g.q, {}, "tcpw") = In(h.q, {}, "tcpw")
      BY <1>14, ShapedLive DEF In
    <3>. QED BY <1>1, <3>1 DEF Listed, n
  <2>. QED BY <1>14, <2>1 DEF Clear, Wired
<1>16. Good(g, {})
  BY <1>14, <1>15, ShapedWhole DEF Good, Ready
<1>. QED BY <1>14, <1>16 DEF Ready

LEMMA TryServerGood ==
  ASSUME NEW h, Ready(h), NEW x, NEW g, g = TryServer(h, x)
  PROVE  Ready(g) /\ Shaped(g, h)
<1> DEFINE c == [h EXCEPT !.tcpstate = "connecting"]
<1>1. h \in States /\ Waits(h) /\ Clear(h) /\ h.io \in IoRecords /\ Good(h, {})
  BY WholeWaits DEF Good, Ready
<1>2. CASE h.tcpstate # "disconnected"
  <2>1. g = h
    BY <1>2, Zenon DEF TryServer
  <2>. QED BY <1>1, <2>1, ShapedSelf
<1>3. CASE h.tcpstate = "disconnected"
  <2>1. Quiet(h)
    BY <1>1, <1>3, QuietClear
  <2>2. TcpSet(c, h, "connecting")
    BY DEF TcpSet
  <2>3. g = CASE h.tcpstate # "disconnected" -> h
              [] h.tcpstate = "disconnected" /\ h.io.refused > 0 ->
                   [adns__tcp_broken([c EXCEPT !.io.refused = @ - 1]) EXCEPT !.tcpstate = "disconnected"]
              [] h.tcpstate = "disconnected" /\ h.io.refused = 0 ->
                   CASE h.io.down                  -> h
                     [] ~h.io.down /\ h.io.atonce  -> tcp_connected(c)
                     [] ~h.io.down /\ ~h.io.atonce -> [c EXCEPT !.tcptimeout = "ahead"]
    BY Zenon DEF TryServer
  <2> HIDE DEF c
  <2>4. Shaped(c, h) /\ Quiet(c) /\ SameIo(c, h) /\ c.tcpstate = "connecting"
    BY <1>1, <2>1, <2>2, StateShape
  <2>5. c \in States /\ c.io \in IoRecords /\ Good(c, {}) /\ c.io = h.io /\ Waits(c)
    BY <1>1, <2>4, QuietGood, ShapedLive DEF Shaped, SameIo
  <2>6. h.io.refused \in Nat /\ h.io.atonce \in BOOLEAN /\ h.io.down \in BOOLEAN
    BY <1>1 DEF IoRecords
  <2>7. CASE h.io.refused > 0
    <3> DEFINE d == [c EXCEPT !.io.refused = @ - 1]
               b == adns__tcp_broken(d)
    <3>1. g = [b EXCEPT !.tcpstate = "disconnected"]
      <4>1. h.io.refused # 0
        BY <2>6, <2>7
      <4>. QED BY <1>3, <2>3, <2>7, <4>1, Zenon
    <3>2. d = [c EXCEPT !.io = [c.io EXCEPT !.refused = @ - 1]]
      BY <2>5 DEF States
    <3>3. [c.io EXCEPT !.refused = @ - 1] \in IoRecords
      BY <2>5, <2>7 DEF IoRecords
    <3> HIDE DEF d
    <3>4. /\ d \in States /\ d.io \in IoRecords /\ SameQueues(d, c) /\ d.q = c.q
          /\ d.tcpstate = "connecting" /\ d.bad = c.bad
      BY <2>4, <2>5, <3>2, <3>3 DEF States, SameQueues
    <3>5. Shaped(d, c)
      BY <3>4, SameLists
    <3>6. Waits(d)
      BY <2>5, <3>5, ShapedLive
    <3>7. Shaped(b, d) /\ Quiet(b) /\ SameIo(b, d)
      BY <3>4, <3>6, BrokenShape
    <3>8. TcpSet(g, b, "disconnected")
      BY <3>1, Zenon DEF TcpSet
    <3> HIDE DEF b
    <3>9. Shaped(g, b) /\ Quiet(g) /\ SameIo(g, b) /\ g.tcpstate = "disconnected"
      BY <3>7, <3>8, StateShape DEF Shaped
    <3>10. Shaped(g, c) /\ Shaped(g, h)
      BY <2>4, <3>5, <3>7, <3>9, ShapedTrans
    <3>11. Good(g, {})
      BY <2>5, <3>9, <3>10, QuietGood
    <3>. QED BY <3>4, <3>7, <3>9, <3>10, <3>11 DEF Ready, SameIo
  <2>10. CASE h.io.refused = 0 /\ h.io.down
    <3>1. g = h
      <4>1. ~(h.io.refused > 0)
        BY <2>6, <2>10
      <4>. QED BY <1>3, <2>3, <2>10, <4>1, Zenon
    <3>. QED BY <1>1, <3>1, ShapedSelf
  <2>8. CASE h.io.refused = 0 /\ ~h.io.down /\ h.io.atonce
    <3>1. g = tcp_connected(c)
      <4>1. ~(h.io.refused > 0)
        BY <2>6, <2>8
      <4>. QED BY <1>3, <2>3, <2>8, <4>1, Zenon
    <3>2. Ready(g) /\ Shaped(g, c)
      BY <2>4, <2>5, <3>1, ConnectedGood DEF Ready
    <3>. QED BY <2>4, <3>2, ShapedTrans
  <2>9. CASE h.io.refused = 0 /\ ~h.io.down /\ ~h.io.atonce
    <3>1. g = [c EXCEPT !.tcptimeout = "ahead"]
      <4>1. ~(h.io.refused > 0)
        BY <2>6, <2>9
      <4>. QED BY <1>3, <2>3, <2>9, <4>1, Zenon
    <3>2. /\ g \in States /\ SameQueues(g, c) /\ g.q = c.q /\ g.tcpstate = c.tcpstate
          /\ g.tcpsend = c.tcpsend /\ g.io = c.io /\ g.bad = c.bad
      BY <2>5, <3>1 DEF States, SameQueues
    <3>3. Shaped(g, c) /\ Quiet(g) /\ g.tcpstate = "connecting"
      BY <2>4, <3>2, SameLists DEF Quiet
    <3>4. Good(g, {})
      BY <2>5, <3>3, QuietGood
    <3>5. Shaped(g, h)
      BY <2>4, <3>3, ShapedTrans
    <3>. QED BY <2>5, <3>2, <3>4, <3>5 DEF Ready
  <2>. QED BY <2>6, <2>7, <2>8, <2>9, <2>10
<1>. QED BY <1>2, <1>3

LEMMA TryConnectGood ==
  ASSUME NEW h, Ready(h), NEW g, g = adns__tcp_tryconnect(h)
  PROVE  Ready(g) /\ Shaped(g, h)
<1>1. nservers \in Nat
  BY AdnsAssumption
<1>2. PICK e : Trace(e, "try", h, Times(nservers), NULL, nservers) /\ adns__tcp_tryconnect(h) = e[nservers]
  BY TryThread
<1>3. e[0] = h /\ \A i \in 1..nservers : e[i] = Do("try", e[i - 1], Times(nservers)[i], NULL)
  BY <1>1, <1>2, TraceSteps
<1> DEFINE T == {i \in 0..nservers : Ready(e[i]) /\ Shaped(e[i], h)}
<1>4. 0 \in T
  BY <1>1, <1>3, ShapedSelf DEF Ready, Good, Whole
<1>5. ASSUME NEW i \in 1..nservers, i - 1 \in T PROVE i \in T
  <2>1. e[i] = TryServer(e[i - 1], Times(nservers)[i])
    BY <1>3 DEF Do
  <2>2. Ready(e[i]) /\ Shaped(e[i], e[i - 1])
    BY <1>5, <2>1, TryServerGood
  <2>3. Shaped(e[i], h)
    BY <1>5, <2>2, ShapedTrans
  <2>. QED BY <1>1, <2>2, <2>3
<1> HIDE DEF T
<1>6. \A i \in 0..nservers : i \in T
  BY <1>1, <1>4, <1>5, UpTo, Zenon
<1>7. Ready(e[nservers]) /\ Shaped(e[nservers], h)
  BY <1>1, <1>6 DEF T
<1>. QED BY <1>2, <1>7

-----------------------------------------------------------------------------
(* Sending *)

(* A record that differs in nothing that the children and the parent see.   *)
Altered(r, qu) ==
  /\ r \in QueryRecords /\ r.kind = qu.kind /\ r.parent = qu.parent /\ r.children = qu.children
  /\ r.state # "done" /\ r.sent = qu.sent

LEMMA ChangeGood ==
  ASSUME NEW h, NEW s \in Live(h.q), Good(h, {s}), NEW r, Altered(r, h.q[s]),
         NEW g, Sets(g, h, s, r)
  PROVE  Good(g, {s}) /\ Rest(g, h) /\ s \in Live(g.q) /\ g.q[s] = r
<1>1. Whole(h, {s}, {s}, {}, {s}) /\ s \in {s} /\ h \in States /\ s \in Queries
  BY LiveFacts DEF Good, Whole
<1>2. r.sent => h.tcpstate = "ok"
  BY <1>1 DEF Whole, Wired, Altered
<1>3. /\ r \in QueryRecords /\ r.kind = h.q[s].kind /\ r.parent = h.q[s].parent
      /\ r.children = h.q[s].children /\ (r.state = "done" => r.parent = NULL)
  BY DEF Altered
<1>4. Whole(g, {s}, {s}, {}, {s})
  BY <1>1, <1>2, <1>3, ChangeWhole
<1>5. r \in QueryRecords \union {NULL} /\ r # NULL
  BY <1>3, AdnsAssumption
<1>6. Rest(g, h) /\ g.q[s] = r
  BY <1>1, <1>5, SetRecord
<1>. QED BY <1>1, <1>4, <1>5, <1>6 DEF Good, Live

LEMMA UseTcpGood ==
  ASSUME NEW h, NEW s \in Live(h.q), Good(h, {s}), h.io \in IoRecords, h.q[s].children = <<>>,
         NEW g, g = query_usetcp(h, s)
  PROVE  Ready(g) /\ g.bad = h.bad
<1> DEFINE r == [h.q[s] EXCEPT !.state = "tcpw", !.late = FALSE]
           k == [h EXCEPT !.q[s].state = "tcpw", !.q[s].late = FALSE]
           e == Link(k, "tcpw", s)
           f == adns__querysend_tcp(e, s)
<1>1. h \in States /\ s \in Queries /\ h.q[s] \in QueryRecords
  BY LiveFacts DEF Good, Whole
<1>2. Altered(r, h.q[s]) /\ r.state = "tcpw" /\ r.children = h.q[s].children
  BY <1>1 DEF QueryRecords, Altered
<1>3. Sets(k, h, s, r)
  BY <1>1 DEF Sets, States
<1>4. g = adns__tcp_tryconnect(f)
  BY Zenon DEF query_usetcp
<1> HIDE DEF r, k
<1>5. Good(k, {s}) /\ Rest(k, h) /\ s \in Live(k.q) /\ k.q[s] = r
  BY <1>2, <1>3, ChangeGood
<1>6. Whole(k, {s}, {s}, {}, {s}) /\ s \in {s} /\ {s} \ {s} = {}
  BY <1>5 DEF Good
<1>7. Linkable(k.q[s]) /\ QueueOf(k.q[s].state) = "tcpw"
  BY <1>2, <1>5, QueueOfFacts DEF Linkable
<1>8. Whole(e, {s} \ {s}, {s} \ {s}, {}, {s}) /\ e.q = k.q /\ Rest(e, k)
  BY <1>5, <1>6, <1>7, LinkWhole
<1> HIDE DEF e
<1>9. Whole(e, {}, {}, {}, {s})
  BY <1>6, <1>8
<1>10. e \in States /\ Waits(e) /\ Clear(e) /\ e.io \in IoRecords /\ s \in Live(e.q)
       /\ e.q[s].state = "tcpw"
  BY <1>2, <1>5, <1>8, <1>9, WholeWaits DEF Rest, SameIo
<1>11. Shaped(f, e) /\ Clear(f) /\ f.io \in IoRecords /\ Sent(f, e, s)
  BY <1>10, SendShape
<1> HIDE DEF f
<1>12. Wired(f, {})
  <2>1. ASSUME NEW t \in In(f.q, {}, "tcpw"), f.tcpstate = "ok"
        PROVE  f.q[t].sent
    <3>1. t \in Live(e.q) /\ e.q[t].state = "tcpw"
      BY <1>11, ShapedLive DEF In
    <3>2. t # s => e.q[t].sent
      BY <1>9, <1>11, <2>1, <3>1 DEF Whole, Wired, In, Sent
    <3>. QED BY <1>11, <2>1, <3>1, <3>2 DEF Sent
  <2>. QED BY <1>11, <2>1 DEF Wired, Clear
<1>13. Ready(f)
  BY <1>9, <1>11, <1>12, ShapedWhole DEF Ready, Good
<1>14. f.bad = h.bad
  BY <1>5, <1>8, <1>11 DEF Shaped, Rest, SameIo
<1>15. Ready(g) /\ Shaped(g, f)
  BY <1>4, <1>13, TryConnectGood
<1>. QED BY <1>14, <1>15 DEF Shaped

(* Something went wrong. *)
Ended(g) == g \in States /\ g.bad # "no"

LEMMA QuerySendGood ==
  ASSUME NEW h, NEW s \in Live(h.q), Good(h, {s}), h.io \in IoRecords, h.q[s].children = <<>>,
         NEW g, g = adns__query_send(h, s)
  PROVE  /\ h.q[s].state = "tosend" => Ready(g) /\ g.bad = h.bad
         /\ h.q[s].state = "tosend" /\ ~h.q[s].usevc =>
              Fading(g, h) /\ Spares(g, h, s) /\ Rid(g.q[s]) /\ g.tcpstate = h.tcpstate
         /\ h.q[s].state # "tosend" => Ended(g) /\ (h.bad = "no" => g.bad = "send")
<1>1. h \in States /\ s \in Queries /\ h.q[s] \in QueryRecords
  BY LiveFacts DEF Good, Whole
<1>2. CASE h.q[s].state # "tosend"
  <2>1. g = Bad(h, "send")
    BY <1>2, Zenon DEF adns__query_send
  <2> DEFINE v == IF h.bad = "no" THEN "send" ELSE h.bad
  <2>2. g = [h EXCEPT !.bad = v]
    BY <1>1, <2>1 DEF Bad
  <2>3. v \in Ends /\ v # "no" /\ (h.bad = "no" => v = "send")
    <3>1. h.bad \in Ends
      BY <1>1 DEF States
    <3>. QED BY <3>1 DEF Ends
  <2> HIDE DEF v
  <2>4. g \in States /\ g.bad = v
    BY <1>1, <2>2, <2>3 DEF States
  <2>. QED BY <1>2, <2>3, <2>4 DEF Ended
<1>3. CASE h.q[s].state = "tosend" /\ h.q[s].usevc
  <2>1. g = query_usetcp(h, s)
    BY <1>3, Zenon DEF adns__query_send
  <2>. QED BY <1>3, <2>1, UseTcpGood
<1>4. CASE h.q[s].state = "tosend" /\ ~h.q[s].usevc /\ h.q[s].retries >= UDPMAXRETRIES
  <2>1. g = adns__query_done(h, s, FALSE)
    BY <1>4, Zenon DEF adns__query_send, adns__query_fail
  <2>2. Good(g, {}) /\ Rest(g, h) /\ Fading(g, h) /\ Spares(g, h, s) /\ Rid(g.q[s])
    BY <2>1, QueryDoneWhole
  <2>. QED BY <1>4, <2>2 DEF Ready, Rest, SameIo, SameTcp
<1>5. CASE h.q[s].state = "tosend" /\ ~h.q[s].usevc /\ ~(h.q[s].retries >= UDPMAXRETRIES)
  <2> DEFINE r == [h.q[s] EXCEPT !.late = FALSE, !.retries = h.q[s].retries + 1]
             k == [h EXCEPT !.q[s].late = FALSE, !.q[s].retries = @ + 1]
  <2>1. g = Link(k, "udpw", s)
    BY <1>5, Zenon DEF adns__query_send
  <2>2. Sets(k, h, s, r)
    BY <1>1 DEF Sets, States
  <2>3. h.q[s].retries \in Nat
    BY <1>1 DEF QueryRecords
  <2>4. /\ Altered(r, h.q[s]) /\ r.state = "tosend" /\ r.children = h.q[s].children
        /\ r.retries = h.q[s].retries + 1 /\ ~r.usevc /\ ~r.late
    <3>1. \A qu \in QueryRecords, n \in Nat :
            [qu EXCEPT !.late = FALSE, !.retries = n] \in QueryRecords
      BY DEF QueryRecords
    <3>2. h.q[s].retries + 1 \in Nat
      BY <2>3
    <3>3. r \in QueryRecords
      BY <1>1, <3>1, <3>2, Zenon
    <3>. QED BY <1>1, <1>5, <3>3 DEF QueryRecords, Altered
  <2>5. r.retries \in 1..UDPMAXRETRIES
    BY <1>5, <2>3, <2>4, AdnsAssumption
  <2> HIDE DEF r, k
  <2>6. Good(k, {s}) /\ Rest(k, h) /\ s \in Live(k.q) /\ k.q[s] = r
    <3>1. Altered(r, h.q[s])
      BY <2>4
    <3>. QED BY <2>2, <3>1, ChangeGood
  <2>7. Linkable(k.q[s]) /\ QueueOf(k.q[s].state) = "udpw" /\ k.q[s].state # "tcpw"
    BY <2>4, <2>5, <2>6, QueueOfFacts DEF Linkable
  <2>8. Good(g, {}) /\ Rest(g, k) /\ g.q = k.q
    BY <2>1, <2>6, <2>7, LinkGood
  <2>9. g.q[s] = r /\ \A t \in Queries \ {s} : g.q[t] = h.q[t]
    <3>1. r \in QueryRecords \union {NULL}
      BY <2>4 DEF Altered
    <3>2. k.q[s] = r /\ \A t \in Queries \ {s} : k.q[t] = h.q[t]
      BY <1>1, <2>2, <3>1, SetRecord
    <3>. QED BY <2>8, <3>2
  <2>10. Fading(g, h)
    <3>1. h.q[s] # NULL
      BY DEF Live
    <3>2. Fades(g.q[s], h.q[s])
      BY <2>4, <2>9, <3>1 DEF Fades
    <3>. QED BY <2>9, <3>2 DEF Fading, Fades
  <2>11. Spares(g, h, s) /\ Rid(g.q[s])
    BY <2>4, <2>9 DEF Spares, Rid, Live
  <2>. QED BY <1>5, <2>6, <2>8, <2>10, <2>11 DEF Ready, Rest, SameIo, SameTcp
<1>. QED BY <1>2, <1>3, <1>4, <1>5

-----------------------------------------------------------------------------
(* Children *)

Fresh(r) ==
  r \in QueryRecords /\ r.state = "tosend" /\ r.parent = NULL /\ r.children = <<>> /\ ~r.sent

Alloced(g, h, s, r) ==
  /\ Rest(g, h) /\ Live(g.q) = Live(h.q) \union {s} /\ g.q[s] = r
  /\ \A t \in Queries \ {s} : g.q[t] = h.q[t]

Free(q) == {s \in Queries : q[s] = NULL}

(* A query in memory that was free. *)
LEMMA AllocWhole ==
  ASSUME NEW h, NEW X, NEW Y, NEW Z, NEW V, Whole(h, X, Y, Z, V), NEW s \in Free(h.q),
         NEW r, Fresh(r), NEW g, Sets(g, h, s, r)
  PROVE  Whole(g, X \union {s}, Y \union {s}, Z, V \union {s}) /\ Alloced(g, h, s, r)
<1>0. r \in QueryRecords /\ r.state = "tosend" /\ r.parent = NULL /\ r.children = <<>> /\ ~r.sent
  BY DEF Fresh
<1>1. h \in States /\ s \in Queries /\ h.q[s] = NULL /\ s \notin Live(h.q)
      /\ r \in QueryRecords \union {NULL} /\ r # NULL
  BY <1>0, AdnsAssumption DEF Whole, Free, Live
<1>2. /\ g \in States /\ SameQueues(g, h) /\ Rest(g, h) /\ g.q[s] = r
      /\ \A t \in Queries \ {s} : g.q[t] = h.q[t]
  BY <1>1, SetRecord
<1>3. Live(g.q) = Live(h.q) \union {s}
  BY <1>1, <1>2 DEF Live
<1>4. \A t \in Live(h.q) : g.q[t] = h.q[t] /\ t \in Queries /\ t # s
  BY <1>1, <1>2 DEF Live
<1>5. ASSUME NEW W, NEW state PROVE In(g.q, W \union {s}, state) = In(h.q, W, state)
  BY <1>1, <1>3, <1>4 DEF In
<1>6. /\ \A t \in Live(h.q) : ChildrenOf(g.q, t) = ChildrenOf(h.q, t)
      /\ ChildrenOf(g.q, s) = {}
  <2>1. \A c \in Live(h.q) : h.q[c].parent # NULL => h.q[c].parent \in Live(h.q)
    BY DEF Whole, Family, Member
  <2>2. \A t \in Live(h.q) \union {s} : t # NULL
    BY <1>1, AdnsAssumption DEF Live
  <2>3. s \notin Live(h.q)
    BY <1>1
  <2>. QED BY <1>0, <1>2, <1>3, <1>4, <2>1, <2>2, <2>3 DEF ChildrenOf
<1>7. Queued(g, X \union {s})
  BY <1>2, <1>5 DEF Whole, Queued, SameQueues
<1>8. Family(g.q, Y \union {s}, Z)
  <2> SUFFICES ASSUME NEW t \in Live(g.q) PROVE Member(g.q, Y \union {s}, Z, t)
    BY DEF Family
  <2>1. CASE t = s
    BY <1>0, <1>2, <1>6, <2>1, EmptyQueue DEF Member
  <2>2. CASE t # s
    <3>1. t \in Live(h.q) /\ g.q[t] = h.q[t] /\ Member(h.q, Y, Z, t)
      BY <1>3, <1>4, <2>2 DEF Whole, Family
    <3>. QED BY <1>3, <1>6, <3>1 DEF Member
  <2>. QED BY <2>1, <2>2
<1>9. Tried(g.q, X \union {s})
  <2>1. \A t \in In(h.q, X, "tosend") : t \in Live(h.q)
    BY DEF In
  <2>. QED BY <1>4, <1>5, <2>1 DEF Whole, Tried
<1>10. Wired(g, V \union {s})
  <2>1. \A t \in In(h.q, V, "tcpw") : t \in Live(h.q)
    BY DEF In
  <2>. QED BY <1>0, <1>2, <1>3, <1>4, <1>5, <2>1 DEF Whole, Wired, Rest, SameTcp
<1>. QED BY <1>2, <1>3, <1>7, <1>8, <1>9, <1>10 DEF Whole, Alloced

Adopts(g, h, p, s) == g = [h EXCEPT !.q[s].parent = p, !.q[p].children = Append(@, s)]

Adoptable(h, p, s) ==
  /\ s \in Live(h.q) /\ p \in Live(h.q) /\ s # p /\ h.q[p].kind # "addr"
  /\ h.q[s].parent = NULL /\ h.q[s].kind = "addr" /\ h.q[s].state = "tosend"

Adopted(g, h, p, s) ==
  /\ Rest(g, h) /\ Live(g.q) = Live(h.q)
  /\ g.q[p] = [h.q[p] EXCEPT !.children = Append(@, s)]

LEMMA AdoptWhole ==
  ASSUME NEW h, NEW s, NEW p, Good(h, {p}), Adoptable(h, p, s), NEW g, Adopts(g, h, p, s)
  PROVE  Good(g, {p}) /\ Adopted(g, h, p, s)
<1>0. /\ s \in Live(h.q) /\ p \in Live(h.q) /\ s # p /\ h.q[p].kind # "addr"
      /\ h.q[s].parent = NULL /\ h.q[s].kind = "addr" /\ h.q[s].state = "tosend"
  BY DEF Adoptable
<1> DEFINE a == [h.q[s] EXCEPT !.parent = p]
           b == [h.q[p] EXCEPT !.children = Append(@, s)]
           e == [h.q EXCEPT ![s] = a, ![p] = b]
<1>1. /\ h \in States /\ s \in Queries /\ p \in Queries /\ h.q[s] \in QueryRecords
      /\ h.q[p] \in QueryRecords /\ Whole(h, {p}, {p}, {}, {p})
  BY <1>0, LiveFacts DEF Good, Whole
<1>2. h.q \in [Queries -> QueryRecords \union {NULL}]
  BY <1>0, <1>1 DEF States
<1>3. /\ a \in QueryRecords /\ a.state = h.q[s].state /\ a.kind = h.q[s].kind /\ a.sent = h.q[s].sent
      /\ a.parent = p /\ a.children = h.q[s].children /\ a.retries = h.q[s].retries
      /\ a.usevc = h.q[s].usevc
  BY <1>0, <1>1 DEF QueryRecords
<1>4. Append(h.q[p].children, s) \in Seq(Queries)
  BY <1>0, <1>1 DEF QueryRecords
<1>5. /\ b \in QueryRecords /\ b.state = h.q[p].state /\ b.kind = h.q[p].kind /\ b.sent = h.q[p].sent
      /\ b.parent = h.q[p].parent /\ b.children = Append(h.q[p].children, s)
      /\ b.retries = h.q[p].retries /\ b.usevc = h.q[p].usevc
  BY <1>0, <1>1, <1>4 DEF QueryRecords
<1>6. g = [h EXCEPT !.q = e]
  BY <1>0, <1>1, <1>2 DEF Adopts, States
<1>7. b = [h.q[p] EXCEPT !.children = Append(@, s)]
  OBVIOUS
<1> HIDE DEF a, b
<1>8. /\ e \in [Queries -> QueryRecords \union {NULL}] /\ e[s] = a /\ e[p] = b
      /\ \A t \in Queries \ {s, p} : e[t] = h.q[t]
  BY <1>0, <1>1, <1>2, <1>3, <1>5
<1> HIDE DEF e
<1>9. g \in States /\ SameQueues(g, h) /\ g.q = e /\ Rest(g, h)
  BY <1>0, <1>1, <1>6, <1>8 DEF States, SameQueues, Rest, SameTcp, SameIo
<1>10. Live(g.q) = Live(h.q)
  BY <1>0, <1>1, <1>3, <1>5, <1>8, <1>9, AdnsAssumption DEF Live
<1>11. \A t \in Live(h.q) : /\ g.q[t].state = h.q[t].state /\ g.q[t].kind = h.q[t].kind
                            /\ g.q[t].sent = h.q[t].sent /\ g.q[t].retries = h.q[t].retries
                            /\ g.q[t].usevc = h.q[t].usevc
                            /\ t # s => g.q[t].parent = h.q[t].parent
                            /\ t # p => g.q[t].children = h.q[t].children
  BY <1>0, <1>3, <1>5, <1>8, <1>9 DEF Live
<1>12. g.q[s].parent = p /\ g.q[p].children = Append(h.q[p].children, s)
  BY <1>0, <1>3, <1>5, <1>8, <1>9
<1>13. \A W, state : In(g.q, W, state) = In(h.q, W, state)
  BY <1>0, <1>10, <1>11 DEF In
<1>14. ChildrenOf(g.q, p) = ChildrenOf(h.q, p) \union {s}
  BY <1>0, <1>10, <1>11, <1>12 DEF ChildrenOf
<1>15. \A t \in Live(h.q) : t # p => ChildrenOf(g.q, t) = ChildrenOf(h.q, t)
  <2>1. \A t \in Live(h.q) : t # NULL
    BY AdnsAssumption DEF Live
  <2>. QED BY <1>0, <1>10, <1>11, <1>12, <2>1 DEF ChildrenOf
<1>16. Queued(g, {p})
  BY <1>0, <1>1, <1>9, <1>13 DEF Whole, Queued, SameQueues
<1>17. Family(g.q, {p}, {})
  <2> SUFFICES ASSUME NEW t \in Live(g.q) PROVE Member(g.q, {p}, {}, t)
    BY DEF Family
  <2>1. t \in Live(h.q) /\ Member(h.q, {p}, {}, t)
    BY <1>0, <1>1, <1>10 DEF Whole, Family
  <2>2. CASE t = p
    <3>1. QueueFor(h.q[p].children, ChildrenOf(h.q, p))
      BY <2>1, <2>2 DEF Member
    <3>2. s \notin ChildrenOf(h.q, p)
      BY <1>0, <1>1, AdnsAssumption DEF ChildrenOf
    <3>3. QueueFor(g.q[p].children, ChildrenOf(g.q, p))
      BY <1>0, <1>1, <1>12, <1>14, <3>1, <3>2, AppendQueue
    <3>. QED BY <1>0, <1>10, <1>11, <2>1, <2>2, <3>3 DEF Member
  <2>3. CASE t = s
    BY <1>0, <1>10, <1>11, <1>12, <1>15, <2>1, <2>3 DEF Member
  <2>4. CASE t # s /\ t # p
    BY <1>0, <1>10, <1>11, <1>15, <2>1, <2>4 DEF Member
  <2>. QED BY <2>2, <2>3, <2>4
<1>18. Tried(g.q, {p})
  <2>1. \A t \in In(h.q, {p}, "tosend") : t \in Live(h.q)
    BY DEF In
  <2>2. In(g.q, {p}, "tosend") = In(h.q, {p}, "tosend") /\ Tried(h.q, {p})
    BY <1>0, <1>1, <1>13 DEF Whole
  <2>3. \A t \in Live(h.q) : g.q[t].retries = h.q[t].retries /\ g.q[t].usevc = h.q[t].usevc
    BY <1>11
  <2>. QED BY <2>1, <2>2, <2>3 DEF Tried
<1>19. Wired(g, {p})
  <2>1. \A t \in In(h.q, {p}, "tcpw") : t \in Live(h.q)
    BY DEF In
  <2>2. In(g.q, {p}, "tcpw") = In(h.q, {p}, "tcpw") /\ Wired(h, {p})
    BY <1>0, <1>1, <1>13 DEF Whole
  <2>3. \A t \in Live(h.q) : g.q[t].sent = h.q[t].sent
    BY <1>11
  <2>4. g.tcpstate = h.tcpstate /\ g.tcpsend = h.tcpsend
    BY <1>9 DEF Rest, SameTcp
  <2>. QED BY <1>0, <1>10, <2>1, <2>2, <2>3, <2>4 DEF Wired
<1>. QED BY <1>7, <1>8, <1>9, <1>10, <1>16, <1>17, <1>18, <1>19 DEF Good, Whole, Adopted

Submitted(g, h, p) ==
  /\ p \in Live(g.q) /\ g.q[p].kind = h.q[p].kind
  /\ \E s \in Free(h.q) : Free(g.q) = Free(h.q) \ {s}

(* A child is sent by UDP before its parent knows of it. *)
LEMMA SubmitGood ==
  ASSUME NEW h, NEW p \in Live(h.q), Good(h, {p}), h.q[p].kind # "addr", Free(h.q) # {},
         NEW loose \in BOOLEAN, NEW g, g = adns__internal_submit(h, p, loose)
  PROVE  Good(g, {p}) /\ Rest(g, h) /\ Submitted(g, h, p)
<1> DEFINE s == CHOOSE t \in Queries : h.q[t] = NULL
           a == query_alloc("addr", NULL, 0, loose)
           b == [h EXCEPT !.q[s] = a]
           d == [b EXCEPT !.q[s].late = FALSE, !.q[s].retries = @ + 1]
           r == [a EXCEPT !.late = FALSE, !.retries = a.retries + 1]
           k == adns__query_send(b, s)
           A == {p} \union {s}
<1>1. h \in States /\ p \in Queries /\ h.q[p] # NULL /\ Whole(h, {p}, {p}, {}, {p})
      /\ h.q[p] \in QueryRecords
  BY LiveFacts DEF Good, Whole
<1>2. s \in Free(h.q) /\ s \in Queries
  BY DEF Free
<1>3. Adopts(g, k, p, s)
  BY Zenon DEF adns__internal_submit, Adopts
<1> HIDE DEF s
<1>4. s # p
  BY <1>1, <1>2 DEF Free
<1>5. /\ a \in QueryRecords /\ a.state = "tosend" /\ a.parent = NULL /\ a.children = <<>>
      /\ a.kind = "addr" /\ ~a.sent /\ a.usevc = FALSE /\ a.retries = 0
  <2>1. a \in QueryRecords
    <3>1. <<>> \in Seq(Queries)
      OBVIOUS
    <3>. QED BY <3>1 DEF query_alloc, QueryRecords
  <2>. QED BY <2>1 DEF query_alloc
<1> HIDE DEF a
<1>6. h.q \in [Queries -> QueryRecords \union {NULL}]
  BY <1>1 DEF States
<1>7. b.q[s] = a
  BY <1>1, <1>2, <1>6 DEF States
<1>8. Sets(d, h, s, r)
  BY <1>1, <1>2, <1>6 DEF Sets, States
<1> HIDE DEF b, d
<1>9. k = Link(d, "udpw", s)
  <2>1. ~(b.q[s].retries >= UDPMAXRETRIES)
    BY <1>5, <1>7, AdnsAssumption
  <2>2. k = IF b.q[s].state # "tosend" THEN Bad(b, "send")
            ELSE IF b.q[s].usevc THEN query_usetcp(b, s)
            ELSE IF b.q[s].retries >= UDPMAXRETRIES THEN adns__query_fail(b, s)
            ELSE Link([b EXCEPT !.q[s].late = FALSE, !.q[s].retries = @ + 1], "udpw", s)
    BY Zenon DEF adns__query_send
  <2>3. b.q[s].state = "tosend" /\ b.q[s].usevc = FALSE
    BY <1>5, <1>7
  <2>. QED BY <2>1, <2>2, <2>3, Zenon DEF d
<1> HIDE DEF k
<1>10. /\ r \in QueryRecords /\ r.state = "tosend" /\ r.parent = NULL /\ r.children = <<>>
       /\ r.kind = "addr" /\ ~r.sent /\ r.retries = 1 /\ ~r.usevc
  <2>1. \A qu \in QueryRecords : [qu EXCEPT !.late = FALSE, !.retries = 1] \in QueryRecords
    BY DEF QueryRecords
  <2>2. r = [a EXCEPT !.late = FALSE, !.retries = 1]
    BY <1>5
  <2>3. r \in QueryRecords
    BY <1>5, <2>1, <2>2, Zenon
  <2>. QED BY <1>5, <2>2, <2>3 DEF QueryRecords
<1> HIDE DEF r
<1>21. Fresh(r)
  BY <1>10 DEF Fresh
<1>22. Whole(d, A, A, {}, A) /\ Alloced(d, h, s, r)
  BY <1>1, <1>2, <1>8, <1>21, AllocWhole
<1>11. /\ Whole(d, A, A, {}, A) /\ Rest(d, h) /\ Live(d.q) = Live(h.q) \union {s} /\ d.q[s] = r
       /\ \A t \in Queries \ {s} : d.q[t] = h.q[t]
  BY <1>22 DEF Alloced
<1>12. s \in A /\ A \ {s} = {p} /\ s \in Live(d.q)
  BY <1>4, <1>11
<1>13. Linkable(d.q[s]) /\ QueueOf(d.q[s].state) = "udpw"
  BY <1>10, <1>11, QueueOfFacts, AdnsAssumption DEF Linkable
<1> HIDE DEF A
<1>14. Whole(k, A \ {s}, A \ {s}, {}, A) /\ k.q = d.q /\ Rest(k, d)
  BY <1>9, <1>11, <1>12, <1>13, LinkWhole
<1>15. Good(k, {p})
  <2>1. Whole(k, {p}, {p}, {}, A)
    BY <1>12, <1>14
  <2>2. Whole(k, {p}, {p}, {}, A \ {s})
    BY <1>10, <1>11, <1>14, <2>1, NowSent
  <2>. QED BY <1>12, <2>2 DEF Good
<1>16. /\ s \in Live(k.q) /\ p \in Live(k.q) /\ k.q[s] = r /\ k.q[p] = h.q[p]
  BY <1>1, <1>4, <1>11, <1>12, <1>14
<1>23. Adoptable(k, p, s)
  BY <1>4, <1>10, <1>16 DEF Adoptable
<1>24. Good(g, {p}) /\ Adopted(g, k, p, s)
  BY <1>3, <1>15, <1>23, AdoptWhole
<1>17. /\ Good(g, {p}) /\ Rest(g, k) /\ Live(g.q) = Live(k.q)
       /\ g.q[p] = [k.q[p] EXCEPT !.children = Append(@, s)]
  BY <1>24 DEF Adopted
<1>18. g.q[p].kind = h.q[p].kind
  BY <1>1, <1>16, <1>17 DEF QueryRecords
<1>19. Free(g.q) = Free(h.q) \ {s}
  <2>1. \A q : Free(q) = Queries \ Live(q)
    BY DEF Free, Live
  <2>. QED BY <1>11, <1>14, <1>17, <2>1
<1>20. Submitted(g, h, p)
  BY <1>2, <1>16, <1>17, <1>18, <1>19 DEF Submitted
<1>. QED BY <1>11, <1>14, <1>17, <1>20 DEF Rest, SameTcp, SameIo

LEMMA ParseGood ==
  ASSUME NEW h, NEW s \in Live(h.q), Good(h, {s}), NEW d, d.children \in Nat,
         d.children <= Cardinality(Free(h.q)), h.q[s].kind = "addr" => d.children = 0,
         NEW g, g = Parse(h, s, d)
  PROVE  Good(g, {s}) /\ Rest(g, h) /\ s \in Live(g.q)
<1> DEFINE n == d.children
<1>1. n \in Nat
  OBVIOUS
<1>2. PICK e : Trace(e, "submit", h, Times(n), s, n) /\ g = e[n]
  BY SubmitThread
<1>3. e[0] = h /\ \A i \in 1..n : e[i] = Do("submit", e[i - 1], Times(n)[i], s)
  BY <1>1, <1>2, TraceSteps
<1> DEFINE J(i) == /\ Good(e[i], {s}) /\ Rest(e[i], h) /\ s \in Live(e[i].q)
                   /\ e[i].q[s].kind = h.q[s].kind /\ n - i <= Cardinality(Free(e[i].q))
           T == {i \in 0..n : J(i)}
<1>4. J(0)
  <2>1. n - 0 = n /\ Rest(h, h)
    BY DEF Rest, SameTcp, SameIo
  <2>. QED BY <1>3, <2>1
<1>5. ASSUME NEW i \in 1..n, J(i - 1)
      PROVE  J(i)
  <2> DEFINE k == e[i - 1]
  <2>1. e[i] = adns__internal_submit(k, s, k.q[s].kind = "ptr")
    BY <1>3 DEF Do
  <2>2. /\ Good(k, {s}) /\ Rest(k, h) /\ s \in Live(k.q) /\ k.q[s].kind = h.q[s].kind
        /\ n - (i - 1) <= Cardinality(Free(k.q))
    BY <1>5
  <2> HIDE DEF k
  <2>3. IsFiniteSet(Free(k.q)) /\ Cardinality(Free(k.q)) \in Nat
    BY AdnsAssumption, FS_Subset, FS_CardinalityType DEF Free
  <2>4. Free(k.q) # {}
    BY <1>1, <2>2, <2>3, FS_EmptySet
  <2>5. k.q[s].kind # "addr" /\ (k.q[s].kind = "ptr") \in BOOLEAN
    BY <1>1, <2>2
  <2>6. Good(e[i], {s}) /\ Rest(e[i], k) /\ Submitted(e[i], k, s)
    BY <2>1, <2>2, <2>4, <2>5, SubmitGood
  <2>7. PICK x \in Free(k.q) : Free(e[i].q) = Free(k.q) \ {x}
    BY <2>6 DEF Submitted
  <2>8. Cardinality(Free(e[i].q)) = Cardinality(Free(k.q)) - 1
    BY <2>3, <2>7, FS_RemoveElement
  <2>9. n - i <= Cardinality(Free(e[i].q))
    BY <1>1, <2>2, <2>3, <2>8
  <2>. QED BY <2>2, <2>6, <2>9 DEF Submitted, Rest, SameTcp, SameIo
<1>6. J(n)
  <2>1. 0 \in T
    BY <1>1, <1>4
  <2>2. ASSUME NEW i \in 1..n, i - 1 \in T PROVE i \in T
    <3>1. J(i - 1)
      BY <2>2, Zenon
    <3>2. J(i)
      BY <1>5, <3>1, Zenon
    <3>3. i \in 0..n
      BY <1>1
    <3>. QED BY <3>2, <3>3, Zenon
  <2> HIDE DEF T, n
  <2>3. n \in T
    <3>1. \A i \in 0..n : i \in T
      BY <1>1, <2>1, <2>2, UpTo, Zenon
    <3>. QED BY <1>1, <3>1
  <2>. QED BY <2>3, Zenon DEF T
<1>. QED BY <1>2, <1>6

-----------------------------------------------------------------------------
(* Answers *)

LEMMA FailGood ==
  ASSUME NEW h, NEW s \in Live(h.q), Good(h, {s}), h.io \in IoRecords,
         NEW g, g = adns__query_fail(h, s)
  PROVE  Ready(g) /\ Rest(g, h) /\ Fading(g, h) /\ Spares(g, h, s) /\ Rid(g.q[s])
<1>1. g = adns__query_done(h, s, FALSE)
  BY Zenon DEF adns__query_fail
<1>2. Good(g, {}) /\ Rest(g, h) /\ Fading(g, h) /\ Spares(g, h, s) /\ Rid(g.q[s])
  BY <1>1, QueryDoneWhole
<1>. QED BY <1>2 DEF Ready, Rest, SameIo

LEMMA RestartGood ==
  ASSUME NEW h, NEW s \in Live(h.q), Good(h, {s}), h.io \in IoRecords, NEW g, g = Restart(h, s)
  PROVE  Ready(g) /\ g.bad = h.bad
<1> DEFINE r == [h.q[s] EXCEPT !.state = "tosend", !.retries = 0]
           k == [h EXCEPT !.q[s].state = "tosend", !.q[s].retries = 0]
           e == cancel_children(k, s)
<1>1. h \in States /\ s \in Queries /\ h.q[s] \in QueryRecords
  BY LiveFacts DEF Good, Whole
<1>2. Altered(r, h.q[s]) /\ r.state = "tosend"
  BY <1>1 DEF QueryRecords, Altered
<1>3. Sets(k, h, s, r)
  BY <1>1 DEF Sets, States
<1>4. g = adns__query_send(e, s)
  BY Zenon DEF Restart
<1> HIDE DEF r, k
<1>5. Good(k, {s}) /\ Rest(k, h) /\ s \in Live(k.q) /\ k.q[s] = r
  BY <1>2, <1>3, ChangeGood
<1>6. Whole(k, {s}, {s}, {}, {s}) /\ {s} \subseteq {s} /\ {s} \union {s} = {s}
  BY <1>5 DEF Good
<1>7. Whole(e, {s}, {s} \union {s}, {}, {s}) /\ Cancelled(e, k, s)
  BY <1>5, <1>6, CancelChildren, Zenon
<1> HIDE DEF e
<1>8. Good(e, {s}) /\ e.io \in IoRecords /\ s \in Live(e.q)
  BY <1>5, <1>6, <1>7 DEF Good, Cancelled, Rest, SameIo
<1>9. e.q[s].state = "tosend" /\ e.q[s].children = <<>>
  BY <1>2, <1>5, <1>7 DEF Cancelled, Altered, QueryRecords
<1>10. Ready(g) /\ g.bad = e.bad
  BY <1>4, <1>8, <1>9, QuerySendGood
<1>. QED BY <1>5, <1>7, <1>10 DEF Cancelled, Rest, SameIo

LEMMA SearchNextGood ==
  ASSUME NEW h, NEW s \in Live(h.q), Good(h, {s}), h.io \in IoRecords, h.q[s].children = <<>>,
         h.q[s].state # "done", NEW g, g = adns__search_next(h, s)
  PROVE  \/ Ready(g) /\ g.bad = h.bad
         \/ /\ Ended(g) /\ h.q[s].state # "tosend" /\ h.q[s].names # 0
            /\ h.bad = "no" => g.bad = "send"
<1>1. CASE h.q[s].names = 0
  <2>1. g = adns__query_fail(h, s)
    BY <1>1, Zenon DEF adns__search_next
  <2>. QED BY <2>1, FailGood DEF Rest, SameIo
<1>2. CASE h.q[s].names # 0
  <2> DEFINE r == [h.q[s] EXCEPT !.names = h.q[s].names - 1]
             k == [h EXCEPT !.q[s].names = @ - 1]
  <2>1. h \in States /\ s \in Queries /\ h.q[s] \in QueryRecords
    BY LiveFacts DEF Good, Whole
  <2>2. Altered(r, h.q[s]) /\ r.children = <<>> /\ r.state = h.q[s].state
    <3>1. h.q[s].names - 1 \in Nat
      BY <1>2, <2>1 DEF QueryRecords
    <3>2. \A qu \in QueryRecords, n \in Nat : [qu EXCEPT !.names = n] \in QueryRecords
      BY DEF QueryRecords
    <3>3. r \in QueryRecords
      BY <2>1, <3>1, <3>2, Zenon
    <3>. QED BY <2>1, <3>3 DEF QueryRecords, Altered
  <2>3. Sets(k, h, s, r)
    BY <2>1 DEF Sets, States
  <2>4. g = adns__query_send(k, s)
    BY <1>2, Zenon DEF adns__search_next
  <2> HIDE DEF r, k
  <2>5. Good(k, {s}) /\ Rest(k, h) /\ s \in Live(k.q) /\ k.q[s] = r
    BY <2>2, <2>3, ChangeGood
  <2>6. k.io \in IoRecords /\ k.q[s].children = <<>>
    BY <2>2, <2>5 DEF Rest, SameIo
  <2>7. k.bad = h.bad /\ k.q[s].state = h.q[s].state
    BY <2>2, <2>5 DEF Rest, SameIo
  <2>. QED BY <1>2, <2>4, <2>5, <2>6, <2>7, QuerySendGood
<1>. QED BY <1>1, <1>2

(* What a datagram may need of the memory. *)
Fits(h, s, d) ==
  /\ d.children \in Nat /\ d.children <= Cardinality(Free(h.q))
  /\ h.q[s].kind = "addr" => d.children = 0

LEMMA RecordsGood ==
  ASSUME NEW h, NEW s \in Live(h.q), Good(h, {s}), h.io \in IoRecords, NEW d, Fits(h, s, d),
         d.right \in BOOLEAN, NEW g, g = Records(h, s, d)
  PROVE  Ready(g) /\ g.bad = h.bad
<1> DEFINE k == Parse(h, s, d)
<1>1. Good(k, {s}) /\ Rest(k, h) /\ s \in Live(k.q)
  BY ParseGood DEF Fits
<1>2. g = IF d.says = "garbled" THEN adns__query_fail(k, s)
          ELSE IF k.q[s].children # <<>> THEN Link([k EXCEPT !.q[s] = Settled(@, "childw")], "childw", s)
          ELSE adns__query_done(k, s, d.right)
  BY Zenon DEF Records
<1> HIDE DEF k
<1>3. k.io \in IoRecords /\ k.bad = h.bad
  BY <1>1 DEF Rest, SameIo
<1>4. CASE d.says = "garbled"
  <2>1. g = adns__query_fail(k, s)
    BY <1>2, <1>4
  <2>. QED BY <1>1, <1>3, <2>1, FailGood DEF Rest, SameIo
<1>5. CASE d.says # "garbled" /\ k.q[s].children = <<>>
  <2>1. g = adns__query_done(k, s, d.right)
    BY <1>2, <1>5
  <2>2. Good(g, {}) /\ Rest(g, k)
    BY <1>1, <2>1, QueryDoneWhole
  <2>. QED BY <1>3, <2>2 DEF Ready, Rest, SameIo
<1>6. CASE d.says # "garbled" /\ k.q[s].children # <<>>
  <2> DEFINE r == Settled(k.q[s], "childw")
             e == [k EXCEPT !.q[s] = r]
  <2>1. g = Link(e, "childw", s)
    BY <1>2, <1>6
  <2>2. k \in States /\ s \in Queries /\ k.q[s] \in QueryRecords /\ Whole(k, {s}, {s}, {}, {s}) /\ s \in {s}
    BY <1>1, LiveFacts DEF Good, Whole
  <2>3. Sets(e, k, s, r)
    BY DEF Sets
  <2>4. /\ r \in QueryRecords /\ r.state = "childw" /\ r.kind = k.q[s].kind /\ r.parent = k.q[s].parent
        /\ r.children = k.q[s].children /\ ~r.sent
    BY <2>2, SettledRecord
  <2>5. (r.state = "done" => r.parent = NULL) /\ (r.sent => k.tcpstate = "ok")
    BY <2>4
  <2> HIDE DEF r, e
  <2>6. Whole(e, {s}, {s}, {}, {s})
    BY <1>1, <2>2, <2>3, <2>4, <2>5, ChangeWhole
  <2>7. Rest(e, k) /\ e.q[s] = r /\ s \in Live(e.q)
    BY <2>2, <2>3, <2>4, SetRecord, AdnsAssumption DEF Live
  <2>8. Linkable(e.q[s]) /\ QueueOf(e.q[s].state) = "childw" /\ e.q[s].state # "tcpw" /\ Good(e, {s})
    BY <1>6, <2>4, <2>6, <2>7, QueueOfFacts DEF Linkable, Good
  <2>9. Good(g, {}) /\ Rest(g, e)
    BY <2>1, <2>7, <2>8, LinkGood
  <2>. QED BY <1>3, <2>7, <2>9 DEF Ready, Rest, SameIo
<1>. QED BY <1>4, <1>5, <1>6

(* An answer is handled, or the program ends at the assertion of             *)
(* adns__query_send.                                                         *)
LEMMA ProcdgramGood ==
  ASSUME NEW h, Ready(h), NEW s \in Live(h.q), h.q[s].state \in {"tosend", "tcpw"},
         NEW d \in Dgrams, d.says \in {"records", "garbled"} => Fits(h, s, d),
         NEW g, g = adns__procdgram(h, s, d)
  PROVE  \/ Ready(g) /\ g.bad = h.bad
         \/ /\ Ended(g) /\ h.q[s].state = "tcpw" /\ h.q[s].names # 0
            /\ h.bad = "no" => g.bad = "send"
<1> DEFINE list == QueueOf(h.q[s].state)
           h1 == Unlink(h, list, s)
           r == [h.q[s] EXCEPT !.cname = TRUE]
           k == IF d.alias THEN [h1 EXCEPT !.q[s].cname = TRUE] ELSE h1
<1>1. h \in States /\ s \in Queries /\ h.q[s] \in QueryRecords /\ Whole(h, {}, {}, {}, {})
      /\ h.io \in IoRecords /\ s \in Live(h.q) \ {}
  BY LiveFacts DEF Ready, Good, Whole
<1>2. h.q[s].children = <<>>
  BY <1>1 DEF Whole, Family, Member
<1>3. Whole(h1, {} \union {s}, {} \union {s}, {}, {} \union {s}) /\ h1.q = h.q /\ Rest(h1, h)
  BY <1>1, UnlinkWhole
<1>4. g = IF d.says = "failure" \/ (d.alias /\ (h.q[s].cname \/ ~h.q[s].loose)) THEN adns__query_fail(h1, s)
          ELSE IF d.says = "nxdomain" THEN adns__search_next(k, s)
          ELSE IF d.says = "truncated" THEN Restart([k EXCEPT !.q[s].usevc = TRUE], s)
          ELSE IF d.says = "referral" THEN Restart(k, s)
          ELSE Records(k, s, d)
  <2> DEFINE fails == d.says = "failure" \/ (d.alias /\ (h.q[s].cname \/ ~h.q[s].loose))
  <2>1. g = CASE fails -> adns__query_fail(h1, s)
              [] OTHER ->
                   CASE d.says = "nxdomain"  -> adns__search_next(k, s)
                     [] d.says = "truncated" -> Restart([k EXCEPT !.q[s].usevc = TRUE], s)
                     [] d.says = "referral"  -> Restart(k, s)
                     [] OTHER                -> Records(k, s, d)
    BY Zenon DEF adns__procdgram
  <2> HIDE DEF fails, h1, k
  <2>2. fails => g = adns__query_fail(h1, s)
    BY <2>1, Zenon
  <2>3. ASSUME ~fails
        PROVE g = CASE d.says = "nxdomain"  -> adns__search_next(k, s)
                    [] d.says = "truncated" -> Restart([k EXCEPT !.q[s].usevc = TRUE], s)
                    [] d.says = "referral"  -> Restart(k, s)
                    [] OTHER                -> Records(k, s, d)
    BY <2>1, <2>3, Zenon
  <2>4. ASSUME ~fails, d.says = "nxdomain" PROVE g = adns__search_next(k, s)
    <3>1. d.says # "truncated" /\ d.says # "referral"
      BY <2>4
    <3>. QED BY <2>3, <2>4, <3>1, Zenon
  <2>5. ASSUME ~fails, d.says = "truncated" PROVE g = Restart([k EXCEPT !.q[s].usevc = TRUE], s)
    <3>1. d.says # "nxdomain" /\ d.says # "referral"
      BY <2>5
    <3>. QED BY <2>3, <2>5, <3>1, Zenon
  <2>6. ASSUME ~fails, d.says = "referral" PROVE g = Restart(k, s)
    <3>1. d.says # "nxdomain" /\ d.says # "truncated"
      BY <2>6
    <3>. QED BY <2>3, <2>6, <3>1, Zenon
  <2>7. ASSUME ~fails, d.says # "nxdomain", d.says # "truncated", d.says # "referral"
        PROVE g = Records(k, s, d)
    BY <2>3, <2>7, Zenon
  <2>. QED BY <2>2, <2>4, <2>5, <2>6, <2>7, Zenon DEF fails
<1> HIDE DEF h1, list
<1>5. {} \union {s} = {s}
  OBVIOUS
<1>6. Good(h1, {s}) /\ s \in Live(h1.q) /\ h1.io \in IoRecords /\ h1.q[s] = h.q[s] /\ h1 \in States
  BY <1>1, <1>3, <1>5 DEF Good, Rest, SameIo, Whole
<1>7. /\ Good(k, {s}) /\ Rest(k, h1) /\ s \in Live(k.q) /\ k.q[s].children = <<>>
      /\ k.q[s].state # "done" /\ k.q[s].kind = h.q[s].kind /\ k.q[s] \in QueryRecords
      /\ k.q[s].state = h.q[s].state /\ k.q[s].names = h.q[s].names
      /\ Live(k.q) = Live(h.q)
  <2>1. CASE ~d.alias
    <3>1. k = h1
      BY <2>1
    <3> HIDE DEF k
    <3>. QED BY <1>1, <1>2, <1>3, <1>6, <3>1 DEF Rest, SameTcp, SameIo
  <2>2. CASE d.alias
    <3>1. Altered(r, h1.q[s]) /\ r.children = <<>> /\ r.state # "done" /\ r.kind = h.q[s].kind
          /\ r \in QueryRecords /\ r.state = h.q[s].state /\ r.names = h.q[s].names
      BY <1>1, <1>2, <1>6 DEF QueryRecords, Altered
    <3>2. k = [h1 EXCEPT !.q[s].cname = TRUE]
      BY <2>2
    <3> HIDE DEF k
    <3>3. Sets(k, h1, s, r)
      BY <1>1, <1>6, <3>2 DEF Sets, States
    <3> HIDE DEF r
    <3>4. Good(k, {s}) /\ Rest(k, h1) /\ s \in Live(k.q) /\ k.q[s] = r
      BY <1>6, <3>1, <3>3, ChangeGood
    <3>5. \A t \in Queries \ {s} : k.q[t] = h1.q[t]
      BY <1>1, <1>6, <3>1, <3>3, SetRecord
    <3>6. Live(k.q) = Live(h.q)
      BY <1>3, <1>6, <3>4, <3>5 DEF Live
    <3>. QED BY <3>1, <3>4, <3>6
  <2>. QED BY <2>1, <2>2
<1> HIDE DEF k
<1>8. k.io \in IoRecords /\ k.bad = h.bad /\ h1.bad = h.bad
  BY <1>3, <1>6, <1>7 DEF Rest, SameIo
<1>9. Free(k.q) = Free(h.q)
  BY <1>7 DEF Live, Free
<1>10. CASE d.says = "failure" \/ (d.alias /\ (h.q[s].cname \/ ~h.q[s].loose))
  <2>1. g = adns__query_fail(h1, s)
    BY <1>4, <1>10, Zenon
  <2>2. Ready(g) /\ Rest(g, h1)
    BY <1>6, <2>1, FailGood
  <2>. QED BY <1>8, <2>2 DEF Rest, SameIo
<1>11. CASE g = adns__search_next(k, s)
  <2>1. \/ Ready(g) /\ g.bad = k.bad
        \/ /\ Ended(g) /\ k.q[s].state # "tosend" /\ k.q[s].names # 0
           /\ k.bad = "no" => g.bad = "send"
    BY <1>7, <1>8, <1>11, SearchNextGood
  <2>. QED BY <1>7, <1>8, <2>1
<1>12. CASE g = Restart([k EXCEPT !.q[s].usevc = TRUE], s)
  <2> DEFINE v == [k.q[s] EXCEPT !.usevc = TRUE]
             e == [k EXCEPT !.q[s].usevc = TRUE]
  <2>1. Altered(v, k.q[s])
    BY <1>7 DEF QueryRecords, Altered
  <2>2. Sets(e, k, s, v)
    BY <1>1, <1>7 DEF Sets, Good, Whole, States
  <2>3. g = Restart(e, s)
    BY <1>12
  <2> HIDE DEF v, e
  <2>4. Good(e, {s}) /\ Rest(e, k) /\ s \in Live(e.q)
    BY <1>7, <2>1, <2>2, ChangeGood
  <2>5. e.io \in IoRecords /\ e.bad = k.bad
    BY <1>8, <2>4 DEF Rest, SameIo
  <2>6. Ready(g) /\ g.bad = e.bad
    BY <2>3, <2>4, <2>5, RestartGood
  <2>. QED BY <1>8, <2>5, <2>6
<1>13. CASE g = Restart(k, s)
  <2>1. Ready(g) /\ g.bad = k.bad
    BY <1>7, <1>8, <1>13, RestartGood
  <2>. QED BY <1>8, <2>1
<1>14. CASE g = Records(k, s, d) /\ d.says \in {"records", "garbled"}
  <2>1. Fits(k, s, d) /\ d.right \in BOOLEAN
    BY <1>7, <1>9, <1>14 DEF Fits, Dgrams
  <2>2. Ready(g) /\ g.bad = k.bad
    BY <1>7, <1>8, <1>14, <2>1, RecordsGood
  <2>. QED BY <1>8, <2>2
<1>15. d.says \in {"failure", "nxdomain", "truncated", "referral", "records", "garbled"}
  BY DEF Dgrams
<1>. QED BY <1>4, <1>10, <1>11, <1>12, <1>13, <1>14, <1>15

-----------------------------------------------------------------------------
(* Timeouts *)

ListedIn(h, list, s) ==
  /\ s \in Live(h.q) /\ h.q[s].state = IF list = "udpw" THEN "tosend" ELSE "tcpw"
  /\ QueueOf(h.q[s].state) = list /\ h.q[s].children = <<>>

LEMMA ListedFacts ==
  ASSUME NEW h, Good(h, {}), NEW list \in {"udpw", "tcpw"}, NEW s \in Listed(h[list])
  PROVE  ListedIn(h, list, s)
<1>1. CASE list = "udpw"
  <2>1. s \in In(h.q, {}, "tosend")
    BY <1>1 DEF Good, Whole, Queued, QueueFor
  <2>2. s \in Live(h.q) /\ h.q[s].state = "tosend"
    BY <2>1 DEF In
  <2>3. h.q[s].children = <<>>
    BY <2>2 DEF Good, Whole, Family, Member
  <2>. QED BY <1>1, <2>2, <2>3, QueueOfFacts DEF ListedIn
<1>2. CASE list = "tcpw"
  <2>1. s \in In(h.q, {}, "tcpw")
    BY <1>2 DEF Good, Whole, Queued, QueueFor
  <2>2. s \in Live(h.q) /\ h.q[s].state = "tcpw"
    BY <2>1 DEF In
  <2>3. h.q[s].children = <<>>
    BY <2>2 DEF Good, Whole, Family, Member
  <2>. QED BY <1>2, <2>2, <2>3, QueueOfFacts DEF ListedIn
<1>. QED BY <1>1, <1>2

LEMMA UnlinkGood ==
  ASSUME NEW h, Ready(h), NEW list, NEW s, s \in Live(h.q), QueueOf(h.q[s].state) = list,
         NEW g, g = Unlink(h, list, s)
  PROVE  Good(g, {s}) /\ g.q = h.q /\ Rest(g, h) /\ g.io \in IoRecords
<1>1. /\ Whole(h, {}, {}, {}, {}) /\ s \in Live(h.q) \ {} /\ {} \union {s} = {s}
      /\ list = QueueOf(h.q[s].state)
  BY DEF Ready, Good
<1>2. Whole(g, {} \union {s}, {} \union {s}, {}, {} \union {s}) /\ g.q = h.q /\ Rest(g, h)
  BY <1>1, UnlinkWhole
<1>. QED BY <1>1, <1>2 DEF Good, Ready, Rest, SameIo

LEMMA FirstLateFacts ==
  ASSUME NEW h, Good(h, {}), NEW list \in {"udpw", "tcpw"}, LateIn(h, list) # {}
  PROVE  FirstLate(h, list) \in Listed(h[list]) /\ h.q[FirstLate(h, list)].late
<1> DEFINE c == h[list]
           L == LateIn(h, list)
           D == {i \in DOMAIN c : c[i] \in L}
           k == CHOOSE i \in DOMAIN c : c[i] \in L /\ \A j \in 1..(i - 1) : c[j] \notin L
<1>1. c \in Seq(Queries) /\ Len(c) \in Nat /\ DOMAIN c = 1..Len(c) /\ L \subseteq Listed(c)
  <2>1. c \in Seq(Queries)
    BY DEF Good, Whole, States
  <2>. QED BY <2>1, SeqFacts DEF LateIn
<1>2. FirstLate(h, list) = c[k]
  BY Zenon DEF FirstLate
<1> HIDE DEF c, L
<1>3. D \subseteq Nat /\ D # {}
  BY <1>1 DEF L, Listed
<1>4. PICK m \in D : \A n \in D : m <= n
  BY <1>3, LeastNat
<1>5. \A j \in 1..(m - 1) : j \in DOMAIN c /\ ~(m <= j)
  BY <1>1, <1>4
<1>6. m \in DOMAIN c /\ c[m] \in L /\ \A j \in 1..(m - 1) : c[j] \notin L
  BY <1>4, <1>5
<1>7. k \in DOMAIN c /\ c[k] \in L
  BY <1>6
<1> HIDE DEF k
<1>8. c[k] \in Listed(c)
  BY <1>1, <1>7 DEF Listed
<1>9. h.q[c[k]].late
  BY <1>7 DEF L, LateIn
<1>. QED BY <1>2, <1>8, <1>9 DEF c

(* Two children of one query that both wait for TCP.                         *)
Brothers(q) ==
  \E s, t \in Live(q) : /\ s # t /\ q[s].state = "tcpw" /\ q[t].state = "tcpw"
                        /\ q[s].parent = q[t].parent /\ q[s].parent # NULL

(* What the timeouts do: a query that is given up may take its brother along *)
(* that was to be looked at next.                                            *)
Shrinks(g, h) ==
  /\ Fading(g, h)
  /\ g.bad = h.bad \/ (g.bad = "freed" /\ Brothers(h.q))

LEMMA BrothersBefore ==
  ASSUME NEW g, NEW h, Fading(g, h), Brothers(g.q)
  PROVE  Brothers(h.q)
<1>1. PICK s, t \in Live(g.q) : /\ s # t /\ g.q[s].state = "tcpw" /\ g.q[t].state = "tcpw"
                               /\ g.q[s].parent = g.q[t].parent /\ g.q[s].parent # NULL
  BY DEF Brothers
<1>2. ASSUME NEW x \in Live(g.q), g.q[x].state = "tcpw"
      PROVE  x \in Live(h.q) /\ h.q[x].state = "tcpw" /\ h.q[x].parent = g.q[x].parent
  BY <1>2 DEF Fading, Fades, Live
<1>. QED BY <1>1, <1>2 DEF Brothers

LEMMA ShrinksTrans ==
  ASSUME NEW f, NEW g, NEW h, Shrinks(g, f), Shrinks(h, g)
  PROVE  Shrinks(h, f)
BY FadingTrans, BrothersBefore DEF Shrinks

LEMMA ShrinksSelf ==
  ASSUME NEW g, NEW h, g.q = h.q, g.bad = h.bad
  PROVE  Shrinks(g, h)
BY FadingSelf DEF Shrinks

LEMMA OneTimedOutGood ==
  ASSUME NEW h, Ready(h), NEW list \in {"udpw", "tcpw"}, NEW g, g = OneTimedOut(h, list)
  PROVE  /\ Ready(g) /\ Shrinks(g, h)
         /\ LateIn(h, list) = {} => g = h
         /\ LateIn(h, list) # {} => Rid(g.q[FirstLate(h, list)])
         /\ g.tcpstate = h.tcpstate
<1>1. CASE LateIn(h, list) = {}
  <2>1. g = h
    BY <1>1, Zenon DEF OneTimedOut
  <2>. QED BY <1>1, <2>1, ShrinksSelf
<1>2. CASE LateIn(h, list) # {}
  <2> DEFINE s == FirstLate(h, list)
             k == Unlink(h, list, s)
  <2>1. s \in Listed(h[list])
    BY <1>2, FirstLateFacts DEF Ready
  <2>2. g = TimedOut(k, s)
    <3>1. g = CHOOSE r \in {TimedOut(v, s) : v \in {k}} : TRUE
      BY <1>2, Zenon DEF OneTimedOut, Apply
    <3>2. {TimedOut(v, s) : v \in {k}} = {TimedOut(k, s)}
      OBVIOUS
    <3>. QED BY <3>1, <3>2, Once, Zenon
  <2>9. s = FirstLate(h, list)
    OBVIOUS
  <2> HIDE DEF s, k
  <2>3. ListedIn(h, list, s)
    BY <2>1, ListedFacts DEF Ready
  <2>4. Good(k, {s}) /\ k.q = h.q /\ Rest(k, h) /\ k.io \in IoRecords
    BY <2>3, UnlinkGood DEF ListedIn, k
  <2>5. s \in Live(k.q) /\ k.q[s].children = <<>>
    BY <2>3, <2>4 DEF ListedIn
  <2>6. CASE k.q[s].state = "tosend"
    <3>1. g = adns__query_send(k, s)
      BY <2>2, <2>6, Zenon DEF TimedOut
    <3>2. ~k.q[s].usevc
      <4>1. s \in In(h.q, {}, "tosend") /\ Tried(h.q, {})
        BY <2>4, <2>5, <2>6 DEF In, Ready, Good, Whole
      <4>. QED BY <2>4, <4>1 DEF Tried
    <3>3. Ready(g) /\ g.bad = k.bad /\ Fading(g, k) /\ Rid(g.q[s]) /\ g.tcpstate = k.tcpstate
      BY <2>4, <2>5, <2>6, <3>1, <3>2, QuerySendGood
    <3>4. Shrinks(g, k) /\ Shrinks(k, h)
      BY <2>4, <3>3, ShrinksSelf DEF Shrinks, Rest, SameIo
    <3>. QED BY <1>2, <2>4, <2>9, <3>3, <3>4, ShrinksTrans DEF Rest, SameTcp
  <2>7. CASE k.q[s].state # "tosend"
    <3>1. g = adns__query_fail(k, s)
      BY <2>2, <2>7, Zenon DEF TimedOut
    <3>2. Ready(g) /\ Rest(g, k) /\ Fading(g, k) /\ Rid(g.q[s])
      BY <2>4, <2>5, <3>1, FailGood
    <3>3. Shrinks(g, k) /\ Shrinks(k, h)
      BY <2>4, <3>2, ShrinksSelf DEF Shrinks, Rest, SameIo
    <3>. QED BY <1>2, <2>4, <2>9, <3>2, <3>3, ShrinksTrans DEF Rest, SameTcp
  <2>. QED BY <2>6, <2>7
<1>. QED BY <1>1, <1>2

LEMMA TimeoutsQueueGood ==
  ASSUME NEW h, Ready(h), NEW list \in {"udpw", "tcpw"}, NEW g, g = timeouts_queue(h, list)
  PROVE  /\ Ready(g) /\ Shrinks(g, h)
         /\ LateIn(h, list) = {} => g = h
         /\ LateIn(h, list) # {} => Rid(g.q[FirstLate(h, list)])
         /\ g.tcpstate = h.tcpstate
<1> DEFINE n == Cardinality(Queries)
           s == FirstLate(h, list)
           J(i, a) == /\ Ready(a) /\ Shrinks(a, h)
                      /\ LateIn(h, list) = {} => a = h
                      /\ LateIn(h, list) # {} /\ i # 0 => Rid(a.q[s])
                      /\ a.tcpstate = h.tcpstate
<1>1. n \in Nat
  BY AdnsAssumption, FS_CardinalityType
<1>2. PICK e : Trace(e, "late", h, Times(n), list, n) /\ g = e[n]
  BY LateThread
<1>3. LateIn(h, list) # {} => n # 0 /\ s \in Queries
  <2> SUFFICES ASSUME LateIn(h, list) # {} PROVE n # 0 /\ s \in Queries
    OBVIOUS
  <2>1. ListedIn(h, list, s)
    BY FirstLateFacts, ListedFacts DEF Ready
  <2>2. s \in Queries
    BY <2>1 DEF ListedIn, Live
  <2>. QED BY <2>2, AdnsAssumption, FS_EmptySet
<1> HIDE DEF n, s
<1>4. e[0] = h /\ \A i \in 1..n : e[i] = Do("late", e[i - 1], Times(n)[i], list)
  BY <1>1, <1>2, TraceSteps
<1> DEFINE T == {i \in 0..n : J(i, e[i])}
<1>5. 0 \in T
  BY <1>1, <1>4, ShrinksSelf
<1>6. ASSUME NEW i \in 1..n, i - 1 \in T PROVE i \in T
  <2> DEFINE k == e[i - 1]
  <2>1. e[i] = OneTimedOut(k, list)
    BY <1>4 DEF Do
  <2>2. J(i - 1, k)
    BY <1>6
  <2> HIDE DEF k
  <2>3. /\ Ready(e[i]) /\ Shrinks(e[i], k)
        /\ LateIn(k, list) = {} => e[i] = k
        /\ LateIn(k, list) # {} => Rid(e[i].q[FirstLate(k, list)])
        /\ e[i].tcpstate = k.tcpstate
    BY <2>1, <2>2, OneTimedOutGood
  <2>4. Shrinks(e[i], h)
    BY <2>2, <2>3, ShrinksTrans
  <2>5. ASSUME LateIn(h, list) # {} PROVE Rid(e[i].q[s])
    <3>1. CASE i = 1
      <4>1. k = h
        BY <1>4, <3>1 DEF k
      <4>. QED BY <2>3, <2>5, <4>1 DEF s
    <3>2. CASE i # 1
      <4>1. Rid(k.q[s])
        BY <2>2, <2>5, <3>2
      <4>2. Fades(e[i].q[s], k.q[s])
        BY <1>3, <2>3, <2>5 DEF Shrinks, Fading
      <4>. QED BY <4>1, <4>2 DEF Rid, Fades
    <3>. QED BY <3>1, <3>2
  <2>6. i \in 0..n
    BY <1>1
  <2>. QED BY <2>2, <2>3, <2>4, <2>5, <2>6
<1> HIDE DEF T
<1>7. \A i \in 0..n : i \in T
  BY <1>1, <1>5, <1>6, UpTo, Zenon
<1>8. J(n, e[n])
  BY <1>1, <1>7 DEF T
<1>. QED BY <1>2, <1>3, <1>8 DEF s

LEMMA AfterFacts ==
  ASSUME NEW seq \in Seq(Queries), IsInjective(seq), NEW s \in Listed(seq),
         NEW n, n = After(seq, s), n # NULL
  PROVE  n \in Listed(seq) /\ n # s
<1> DEFINE i == CHOOSE j \in DOMAIN seq : seq[j] = s
<1>1. /\ Len(seq) \in Nat /\ DOMAIN seq = 1..Len(seq)
      /\ \A j, k \in 1..Len(seq) : seq[j] = seq[k] => j = k
  BY SeqFacts
<1>2. \E j \in DOMAIN seq : seq[j] = s
  BY <1>1 DEF Listed
<1>3. i \in DOMAIN seq /\ seq[i] = s
  BY <1>2
<1>4. n = IF i = Len(seq) THEN NULL ELSE seq[i + 1]
  BY Zenon DEF After
<1> HIDE DEF i
<1>5. n = seq[i + 1] /\ i # Len(seq)
  BY <1>4
<1>6. i \in 1..Len(seq) /\ i + 1 \in 1..Len(seq) /\ i + 1 # i
  BY <1>1, <1>3, <1>5
<1>. QED BY <1>1, <1>3, <1>5, <1>6 DEF Listed

LEMMA HeadListed ==
  ASSUME NEW seq \in Seq(Queries), seq # <<>>
  PROVE  Head(seq) \in Listed(seq)
<1>1. Len(seq) \in Nat /\ Len(seq) # 0
  BY EmptySeq, LenProperties
<1>2. 1 \in 1..Len(seq) /\ Head(seq) = seq[1]
  BY <1>1
<1>. QED BY <1>2 DEF Listed

LEMMA GiveUpGood ==
  ASSUME NEW h, Ready(h), h.tcpstate = "broken", NEW g, g = GiveUp(h)
  PROVE  Ready(g) /\ g.tcpstate = "broken" /\ Shrinks(g, h) /\ g.io = h.io
<1> DEFINE first == [h |-> h, next |-> IF h.tcpw = <<>> THEN NULL ELSE Head(h.tcpw)]
           n == Len(h.tcpw)
<1>1. n \in Nat
  BY SeqFacts DEF Ready, Good, Whole, States
<1>2. g = Thread(GiveUpNext, first, Times(n)).h
  BY Zenon DEF GiveUp
<1>3. first.h = h /\ (first.next # NULL => first.next \in Listed(h.tcpw))
  BY HeadListed DEF Ready, Good, Whole, States
<1> HIDE DEF n, first
<1>4. PICK e : Trace(e, "giveup", first, Times(n), NULL, n) /\ Thread(GiveUpNext, first, Times(n)) = e[n]
  BY <1>1, GiveUpThread
<1>5. e[0] = first /\ \A i \in 1..n : e[i] = Do("giveup", e[i - 1], Times(n)[i], NULL)
  BY <1>1, <1>4, TraceSteps
<1> DEFINE J(i) == /\ Ready(e[i].h) /\ e[i].h.tcpstate = "broken" /\ Shrinks(e[i].h, h) /\ e[i].h.io = h.io
                   /\ \/ e[i].next = NULL
                      \/ e[i].next \in Listed(e[i].h.tcpw)
                      \/ Brothers(h.q)
           T == {i \in 0..n : J(i)}
<1>6. 0 \in T
  BY <1>1, <1>3, <1>5, ShrinksSelf
<1>7. ASSUME NEW i \in 1..n, i - 1 \in T PROVE i \in T
  <2> DEFINE a == e[i - 1]
             k == a.h
             s == a.next
  <2>1. e[i] = GiveUpNext(a, Times(n)[i])
    BY <1>5 DEF Do
  <2>2. /\ Ready(k) /\ k.tcpstate = "broken" /\ Shrinks(k, h) /\ k.io = h.io
        /\ s = NULL \/ s \in Listed(k.tcpw) \/ Brothers(h.q)
    BY <1>7
  <2>6. Listed(k.tcpw) = In(k.q, {}, "tcpw") /\ k.tcpw \in Seq(Queries) /\ IsInjective(k.tcpw)
    BY <2>2 DEF Ready, Good, Whole, Queued, QueueFor
  <2>3. e[i] = IF s = NULL THEN a
               ELSE IF s \notin Listed(k.tcpw) THEN [h |-> Bad(k, "freed"), next |-> NULL]
               ELSE [h    |-> IF k.q[s].retries > nservers
                              THEN adns__query_fail(Unlink(k, "tcpw", s), s) ELSE k,
                     next |-> After(k.tcpw, s)]
    BY <2>1, Zenon DEF GiveUpNext
  <2> HIDE DEF a
  <2>4. J(i)
    <3>1. CASE s = NULL
      <4>1. e[i].h = k /\ e[i].next = NULL
        BY <2>3, <3>1
      <4>. QED BY <2>2, <4>1
    <3>2. CASE s # NULL /\ s \notin Listed(k.tcpw)
      <4>1. e[i].h = Bad(k, "freed") /\ e[i].next = NULL
        BY <2>3, <3>2
      <4> DEFINE b == Bad(k, "freed")
      <4>2. k \in States
        BY <2>2 DEF Ready, Good, Whole
      <4>3. /\ b \in States /\ SameQueues(b, k) /\ b.q = k.q /\ b.tcpstate = k.tcpstate
            /\ b.tcpsend = k.tcpsend /\ b.io = k.io /\ (b.bad = k.bad \/ b.bad = "freed")
        <5> DEFINE v == IF k.bad = "no" THEN "freed" ELSE k.bad
        <5>1. b = [k EXCEPT !.bad = v]
          BY <4>2 DEF Bad
        <5>2. v \in Ends /\ (v = k.bad \/ v = "freed")
          <6>1. k.bad \in Ends
            BY <4>2 DEF States
          <6>. QED BY <6>1 DEF Ends
        <5> HIDE DEF v, b
        <5>. QED BY <4>2, <5>1, <5>2 DEF States, SameQueues
      <4> HIDE DEF b
      <4>4. \A t \in Queries : SameShape(k.q[t], b.q[t])
        BY <4>3 DEF SameShape
      <4>5. Wired(b, {})
        BY <2>2, <4>3 DEF Ready, Good, Whole, Wired
      <4>6. Good(b, {})
        BY <2>2, <4>3, <4>4, <4>5, ShapeWhole DEF Ready, Good
      <4>7. Brothers(h.q)
        BY <2>2, <3>2
      <4>8. Fading(b, k)
        BY <4>3, FadingSelf
      <4>9. Shrinks(b, h)
        BY <2>2, <4>3, <4>7, <4>8, FadingTrans DEF Shrinks
      <4>. QED BY <2>2, <4>1, <4>3, <4>6, <4>9 DEF Ready, b
    <3>3. CASE s # NULL /\ s \in Listed(k.tcpw) /\ ~(k.q[s].retries > nservers)
      <4>1. e[i].h = k /\ e[i].next = After(k.tcpw, s)
        BY <2>3, <3>3
      <4>2. e[i].next # NULL => e[i].next \in Listed(k.tcpw)
        BY <2>6, <3>3, <4>1, AfterFacts
      <4>. QED BY <2>2, <4>1, <4>2
    <3>4. CASE s # NULL /\ s \in Listed(k.tcpw) /\ k.q[s].retries > nservers
      <4> DEFINE u == Unlink(k, "tcpw", s)
      <4>1. e[i].h = adns__query_fail(u, s) /\ e[i].next = After(k.tcpw, s)
        BY <2>3, <3>4
      <4>6. e[i].next # NULL => e[i].next \in Listed(k.tcpw) /\ e[i].next # s
        BY <2>6, <3>4, <4>1, AfterFacts
      <4> HIDE DEF s, k
      <4>2. /\ s \in Live(k.q) /\ QueueOf(k.q[s].state) = "tcpw"
            /\ k.q[s].state = "tcpw" /\ k.q[s].children = <<>>
        <5>1. s \in Listed(k["tcpw"])
          BY <3>4
        <5>2. ListedIn(k, "tcpw", s)
          BY <2>2, <5>1, ListedFacts DEF Ready
        <5>. QED BY <5>2 DEF ListedIn
      <4>3. Good(u, {s}) /\ u.q = k.q /\ Rest(u, k) /\ u.io \in IoRecords
        BY <2>2, <4>2, UnlinkGood
      <4> HIDE DEF u
      <4>4. e[i].h = adns__query_done(u, s, FALSE)
        BY <4>1, Zenon DEF adns__query_fail
      <4>5. Good(e[i].h, {}) /\ Rest(e[i].h, u) /\ Fading(e[i].h, u) /\ Spares(e[i].h, u, s)
        BY <4>2, <4>3, <4>4, QueryDoneWhole
      <4>7. Shrinks(e[i].h, u) /\ Shrinks(u, k)
        BY <4>3, <4>5, ShrinksSelf DEF Shrinks, Rest, SameIo
      <4>8. Shrinks(e[i].h, h)
        BY <2>2, <4>7, ShrinksTrans
      <4>9. ASSUME e[i].next # NULL, e[i].next \notin Listed(e[i].h.tcpw)
            PROVE  Brothers(h.q)
        <5> DEFINE t == e[i].next
        <5>1. t \in Live(k.q) /\ k.q[t].state = "tcpw" /\ t # s /\ t \in Queries
          BY <2>6, <4>6, <4>9 DEF In, Live
        <5>2. Listed(e[i].h.tcpw) = In(e[i].h.q, {}, "tcpw")
          BY <4>5 DEF Good, Whole, Queued, QueueFor
        <5>3. e[i].h.q[t] # u.q[t]
          BY <4>3, <4>9, <5>1, <5>2 DEF In, Live
        <5> HIDE DEF t
        <5>4. Near(u, s, t)
          BY <4>3, <4>5, <5>1, <5>3 DEF Spares
        <5>5. k.q[t].parent # NULL /\ k.q[t].parent \in {s, k.q[s].parent}
          BY <4>3, <5>4 DEF Near
        <5>6. k.q[t].parent # s
          <6>1. ChildrenOf(k.q, s) = {}
            <7>1. QueueFor(<<>>, ChildrenOf(k.q, s))
              BY <2>2, <4>2 DEF Ready, Good, Whole, Family, Member
            <7>. QED BY <7>1, EmptyQueue DEF QueueFor
          <6>. QED BY <5>1, <6>1 DEF ChildrenOf
        <5>7. Brothers(k.q)
          BY <4>2, <5>1, <5>5, <5>6 DEF Brothers
        <5>. QED BY <2>2, <5>7, BrothersBefore DEF Shrinks
      <4>10. Ready(e[i].h) /\ e[i].h.tcpstate = "broken" /\ e[i].h.io = h.io
        BY <2>2, <4>3, <4>5 DEF Ready, Rest, SameTcp, SameIo
      <4>. QED BY <4>8, <4>9, <4>10
    <3>. QED BY <3>1, <3>2, <3>3, <3>4
  <2>5. i \in 0..n
    BY <1>1
  <2>. QED BY <2>4, <2>5
<1> HIDE DEF T
<1>8. \A i \in 0..n : i \in T
  BY <1>1, <1>6, <1>7, UpTo, Zenon
<1>9. J(n)
  BY <1>1, <1>8 DEF T
<1>. QED BY <1>2, <1>4, <1>9

LEMMA FieldGood ==
  ASSUME NEW h, Good(h, {}), NEW g \in States, SameQueues(g, h), g.q = h.q, SameTcp(g, h)
  PROVE  Good(g, {})
<1>1. \A s \in Queries : SameShape(h.q[s], g.q[s])
  BY DEF SameShape
<1>2. Wired(g, {})
  BY DEF Good, Whole, Wired, SameTcp
<1>. QED BY <1>1, <1>2, ShapeWhole DEF Good

LEMMA BrokenGood ==
  ASSUME NEW h, Good(h, {}), h.tcpstate \in {"connecting", "ok"}, NEW g, g = adns__tcp_broken(h)
  PROVE  Good(g, {}) /\ SameIo(g, h) /\ Shaped(g, h)
<1>1. h \in States /\ Waits(h)
  BY WholeWaits DEF Good
<1>2. Shaped(g, h) /\ Quiet(g) /\ g.tcpstate = "broken" /\ SameIo(g, h)
  BY <1>1, BrokenShape
<1>. QED BY <1>2, QuietGood

LEMMA ShapedShrinks ==
  ASSUME NEW g, NEW h, Shaped(g, h)
  PROVE  Shrinks(g, h)
BY ShapedFading DEF Shrinks, Shaped

LEMMA TcpEventGood ==
  ASSUME NEW h, Ready(h), NEW g, g = TcpEvent(h)
  PROVE  Ready(g) /\ Shrinks(g, h)
<1>1. h \in States /\ Clear(h) /\ Good(h, {}) /\ h.io \in IoRecords
  BY WholeWaits DEF Ready, Good
<1>2. h.tcpstate \in {"disconnected", "connecting", "ok", "broken"}
  BY <1>1 DEF States
<1> DEFINE k == IF h.tcpstate = "broken" THEN [GiveUp(h) EXCEPT !.tcpstate = "disconnected"] ELSE h
           f == [tcp_close(h) EXCEPT !.tcpstate = "disconnected"]
<1>3. CASE h.tcpstate \in {"broken", "disconnected"}
  <2>1. g = IF k.tcpw = <<>> THEN k ELSE adns__tcp_tryconnect(k)
    BY <1>3, Zenon DEF TcpEvent
  <2>2. Ready(k) /\ Shrinks(k, h)
    <3>1. CASE h.tcpstate = "broken"
      <4> DEFINE e == GiveUp(h)
      <4>1. Ready(e) /\ e.tcpstate = "broken" /\ Shrinks(e, h)
        BY <3>1, GiveUpGood
      <4>2. TcpSet(k, e, "disconnected")
        BY <3>1 DEF TcpSet
      <4> HIDE DEF e, k
      <4>3. e \in States /\ Clear(e) /\ Good(e, {}) /\ e.io \in IoRecords
        BY <4>1, WholeWaits DEF Ready, Good
      <4>4. Quiet(e)
        BY <4>1, <4>3, QuietClear
      <4>5. Shaped(k, e) /\ Quiet(k) /\ SameIo(k, e) /\ k.tcpstate = "disconnected"
        BY <4>2, <4>3, <4>4, StateShape
      <4>6. Good(k, {})
        BY <4>3, <4>5, QuietGood
      <4>7. Shrinks(k, h)
        BY <4>1, <4>5, ShapedShrinks, ShrinksTrans
      <4>. QED BY <4>3, <4>5, <4>6, <4>7 DEF Ready, SameIo
    <3>2. CASE h.tcpstate # "broken"
      BY <3>2, ShrinksSelf
    <3>. QED BY <3>1, <3>2
  <2> HIDE DEF k
  <2>3. CASE k.tcpw = <<>>
    BY <2>1, <2>2, <2>3
  <2>4. CASE k.tcpw # <<>>
    <3>1. Ready(g) /\ Shaped(g, k)
      BY <2>1, <2>2, <2>4, TryConnectGood
    <3>. QED BY <2>2, <3>1, ShapedShrinks, ShrinksTrans
  <2>. QED BY <2>3, <2>4
<1>4. CASE h.tcpstate = "connecting"
  <2>1. g = IF h.tcptimeout = "past" THEN adns__tcp_broken(h) ELSE h
    <3>1. ~(h.tcpstate \in {"broken", "disconnected"}) /\ h.tcpstate # "ok"
      BY <1>4
    <3>. QED BY <1>4, <3>1, Zenon DEF TcpEvent
  <2>2. CASE h.tcptimeout = "past"
    <3>1. Good(g, {}) /\ SameIo(g, h) /\ Shaped(g, h)
      BY <1>1, <1>4, <2>1, <2>2, BrokenGood
    <3>. QED BY <1>1, <3>1, ShapedShrinks DEF Ready, SameIo
  <2>3. CASE h.tcptimeout # "past"
    BY <2>1, <2>3, ShrinksSelf
  <2>. QED BY <2>2, <2>3
<1>5. CASE h.tcpstate = "ok" /\ h.tcpw # <<>>
  <2>1. ~(h.tcpstate \in {"broken", "disconnected"}) /\ h.tcpstate # "connecting"
    BY <1>5
  <2>2. g = h
    BY <1>5, <2>1, Zenon DEF TcpEvent
  <2>. QED BY <2>2, ShrinksSelf
<1>6. CASE h.tcpstate = "ok" /\ h.tcpw = <<>>
  <2>1. g = IF h.tcptimeout = "past" THEN f ELSE [h EXCEPT !.tcptimeout = "ahead"]
    <3>1. ~(h.tcpstate \in {"broken", "disconnected"}) /\ h.tcpstate # "connecting"
      BY <1>6
    <3>. QED BY <1>6, <3>1, Zenon DEF TcpEvent
  <2>2. CASE h.tcptimeout = "past"
    <3> DEFINE e == tcp_close(h)
    <3>1. Shaped(e, h) /\ Quiet(e) /\ SameIo(e, h)
      BY <1>1, CloseShape
    <3>2. TcpSet(g, e, "disconnected")
      BY <2>1, <2>2 DEF TcpSet
    <3> HIDE DEF e
    <3>3. Shaped(g, e) /\ Quiet(g) /\ SameIo(g, e) /\ g.tcpstate = "disconnected"
      BY <3>1, <3>2, StateShape DEF Shaped
    <3>4. Shaped(g, h)
      BY <3>1, <3>3, ShapedTrans
    <3>5. Good(g, {})
      BY <1>1, <3>3, <3>4, QuietGood
    <3>. QED BY <1>1, <3>1, <3>3, <3>4, <3>5, ShapedShrinks DEF Ready, SameIo
  <2>3. CASE h.tcptimeout # "past"
    <3>1. g = [h EXCEPT !.tcptimeout = "ahead"]
      BY <2>1, <2>3
    <3>2. g \in States /\ SameQueues(g, h) /\ g.q = h.q /\ SameTcp(g, h) /\ g.io = h.io
          /\ g.bad = h.bad
      BY <1>1, <3>1 DEF States, SameQueues, SameTcp
    <3>. QED BY <1>1, <3>2, FieldGood, ShrinksSelf DEF Ready
  <2>. QED BY <2>2, <2>3
<1>. QED BY <1>2, <1>3, <1>4, <1>5, <1>6

LEMMA TurnsGood ==
  ASSUME NEW h, Ready(h), NEW g, g = TcpTurns(h)
  PROVE  Ready(g) /\ Shrinks(g, h)
<1> DEFINE n == nservers + 4
<1>1. n \in Nat
  BY AdnsAssumption
<1>2. PICK e : Trace(e, "event", h, Times(n), NULL, n) /\ g = e[n]
  BY EventThread
<1> HIDE DEF n
<1>3. e[0] = h /\ \A i \in 1..n : e[i] = Do("event", e[i - 1], Times(n)[i], NULL)
  BY <1>1, <1>2, TraceSteps
<1> DEFINE T == {i \in 0..n : Ready(e[i]) /\ Shrinks(e[i], h)}
<1>4. 0 \in T
  BY <1>1, <1>3, ShrinksSelf
<1>5. ASSUME NEW i \in 1..n, i - 1 \in T PROVE i \in T
  <2>1. e[i] = TcpEvent(e[i - 1])
    BY <1>3 DEF Do
  <2>2. Ready(e[i]) /\ Shrinks(e[i], e[i - 1])
    BY <1>5, <2>1, TcpEventGood
  <2>3. Shrinks(e[i], h)
    BY <1>5, <2>2, ShrinksTrans
  <2>. QED BY <1>1, <2>2, <2>3
<1> HIDE DEF T
<1>6. \A i \in 0..n : i \in T
  BY <1>1, <1>4, <1>5, UpTo, Zenon
<1>7. Ready(e[n]) /\ Shrinks(e[n], h)
  BY <1>1, <1>6 DEF T
<1>. QED BY <1>2, <1>7

(* From a state on that the operation does not change, nothing does.         *)
LEMMA TraceRests ==
  ASSUME NEW what, NEW h, NEW seq, NEW y, NEW n \in Nat, NEW e, Trace(e, what, h, seq, y, n),
         NEW k \in 0..n, \A x : Do(what, e[k], x, y) = e[k]
  PROVE  e[n] = e[k]
<1> DEFINE T == {i \in 0..n : i >= k => e[i] = e[k]}
<1>1. \A i \in 1..n : e[i] = Do(what, e[i - 1], seq[i], y)
  BY TraceSteps
<1>2. 0 \in T
  <2>1. 0 \in 0..n /\ (0 >= k => k = 0)
    OBVIOUS
  <2>. QED BY <2>1
<1>3. ASSUME NEW i \in 1..n, i - 1 \in T
      PROVE  i \in T
  <2>1. i \in 0..n /\ (i >= k => i = k \/ i - 1 >= k)
    OBVIOUS
  <2>2. ASSUME i - 1 >= k
        PROVE  e[i] = e[k]
    <3>1. e[i - 1] = e[k]
      BY <1>3, <2>2
    <3>2. e[i] = Do(what, e[i - 1], seq[i], y)
      BY <1>1
    <3>. QED BY <3>1, <3>2
  <2>. QED BY <2>1, <2>2
<1> HIDE DEF T
<1>4. \A i \in 0..n : i \in T
  BY <1>2, <1>3, UpTo, Zenon
<1>5. n \in 0..n /\ n >= k
  OBVIOUS
<1>. QED BY <1>4, <1>5 DEF T

(* No query begins to wait for the connection.                               *)
LEMMA WaitingBefore ==
  ASSUME NEW h, Ready(h), NEW g, Ready(g), Fading(g, h), g.tcpw # <<>>
  PROVE  h.tcpw # <<>>
<1> DEFINE s == Head(g.tcpw)
<1>1. s \in Listed(g.tcpw)
  BY HeadListed DEF Ready, Good, Whole, States
<1> HIDE DEF s
<1>2. s \in Live(g.q) /\ g.q[s].state = "tcpw"
  BY <1>1 DEF Ready, Good, Whole, Queued, QueueFor, In
<1>3. s \in Live(h.q) /\ h.q[s].state = "tcpw"
  BY <1>2 DEF Fading, Fades, Live
<1>4. s \in Listed(h.tcpw)
  BY <1>3 DEF Ready, Good, Whole, Queued, QueueFor, In
<1>. QED BY <1>4, EmptyQueue DEF QueueFor

(* Nothing is done about the connection.                                     *)
Rests(h) ==
  \/ h.tcpstate = "disconnected" /\ h.tcpw = <<>>
  \/ h.tcpstate = "connecting" /\ h.tcptimeout # "past"
  \/ h.tcpstate = "ok" /\ h.tcpw # <<>>

LEMMA EventRests ==
  ASSUME NEW h, Rests(h)
  PROVE  TcpEvent(h) = h
<1>1. CASE h.tcpstate = "disconnected" /\ h.tcpw = <<>>
  <2>1. h.tcpstate \in {"broken", "disconnected"} /\ h.tcpstate # "broken"
    BY <1>1
  <2>. QED BY <1>1, <2>1, Zenon DEF TcpEvent
<1>2. CASE h.tcpstate = "connecting" /\ h.tcptimeout # "past"
  <2>1. ~(h.tcpstate \in {"broken", "disconnected"}) /\ h.tcpstate # "ok"
    BY <1>2
  <2>. QED BY <1>2, <2>1, Zenon DEF TcpEvent
<1>3. CASE h.tcpstate = "ok" /\ h.tcpw # <<>>
  <2>1. ~(h.tcpstate \in {"broken", "disconnected"}) /\ h.tcpstate # "connecting"
    BY <1>3
  <2>. QED BY <1>3, <2>1, Zenon DEF TcpEvent
<1>. QED BY <1>1, <1>2, <1>3 DEF Rests

LEMMA EventsRest ==
  ASSUME NEW h, NEW n \in Nat, NEW e, Trace(e, "event", h, Times(n), NULL, n),
         NEW k \in 0..n, Rests(e[k])
  PROVE  e[n] = e[k]
<1>1. \A x : Do("event", e[k], x, NULL) = TcpEvent(e[k])
  BY DEF Do
<1>2. \A x : Do("event", e[k], x, NULL) = e[k]
  BY <1>1, EventRests
<1>. QED BY <1>2, TraceRests

LEMMA RestingTurns ==
  ASSUME NEW h, Rests(h), NEW g, g = TcpTurns(h)
  PROVE  g = h
<1> DEFINE n == nservers + 4
<1>1. n \in Nat /\ 0 \in 0..n
  BY AdnsAssumption
<1>2. PICK e : Trace(e, "event", h, Times(n), NULL, n) /\ g = e[n]
  BY EventThread
<1> HIDE DEF n
<1>3. e[0] = h /\ \A i \in 1..n : e[i] = Do("event", e[i - 1], Times(n)[i], NULL)
  BY <1>1, <1>2, TraceSteps
<1>4. e[n] = e[0]
  BY <1>1, <1>2, <1>3, EventsRest
<1>. QED BY <1>2, <1>3, <1>4

(* The loop ends, or it goes on for ever about what waits.                   *)
LEMMA TcpEventsGood ==
  ASSUME NEW h, Ready(h), NEW g, g = tcp_events(h), NEW f, f = TcpTurns(h)
  PROVE  /\ Ready(g) /\ Fading(g, h) /\ g.q = f.q /\ g.tcpstate = f.tcpstate
         /\ \/ g = f
            \/ g.bad = f.bad
            \/ g.bad = "spins" /\ h.tcpw # <<>> /\ h.tcpstate # "ok"
         /\ g # f => f.io.down /\ f.tcpstate = "disconnected" /\ f.tcpw # <<>>
<1>1. g = IF f.io.down /\ f.tcpstate = "disconnected" /\ f.tcpw # <<>> THEN Bad(f, "spins") ELSE f
  BY Zenon DEF tcp_events
<1>2. Ready(f) /\ Shrinks(f, h)
  BY TurnsGood
<1>3. CASE g = f
  BY <1>2, <1>3 DEF Shrinks
<1>4. CASE g # f
  <2> DEFINE v == IF f.bad = "no" THEN "spins" ELSE f.bad
  <2>1. f \in States /\ f.bad \in Ends
    BY <1>2 DEF Ready, Good, Whole, States
  <2>2. f.io.down /\ f.tcpstate = "disconnected" /\ f.tcpw # <<>> /\ g = Bad(f, "spins")
    BY <1>1, <1>4
  <2>3. g = [f EXCEPT !.bad = v]
    BY <2>1, <2>2 DEF Bad
  <2>4. v \in Ends /\ (v = f.bad \/ v = "spins")
    BY <2>1 DEF Ends
  <2> HIDE DEF v
  <2>5. /\ g \in States /\ SameQueues(g, f) /\ g.q = f.q /\ SameTcp(g, f) /\ g.io = f.io /\ g.bad = v
    BY <2>1, <2>3, <2>4 DEF States, SameQueues, SameTcp
  <2>6. Ready(g)
    BY <1>2, <2>5, FieldGood DEF Ready
  <2>7. Fading(g, h)
    BY <1>2, <2>5, FadingSelf, FadingTrans DEF Shrinks
  <2>8. h.tcpw # <<>>
    BY <1>2, <2>2, WaitingBefore DEF Shrinks
  <2>9. h.tcpstate # "ok"
    <3>1. h.tcpstate = "ok" => f = h
      BY <2>8, RestingTurns DEF Rests
    <3>. QED BY <2>2, <3>1
  <2>. QED BY <2>2, <2>4, <2>5, <2>6, <2>7, <2>8, <2>9 DEF SameTcp
<1>. QED BY <1>3, <1>4

LEMMA TimeoutsSteps ==
  ASSUME NEW h
  PROVE  adns__timeouts(h) = tcp_events(timeouts_queue(timeouts_queue(h, "udpw"), "tcpw"))
<1> DEFINE u == timeouts_queue(h, "udpw")
           t == timeouts_queue(u, "tcpw")
<1>1. adns__timeouts(h) = tcp_events(t)
  <2>1. Apply(timeouts_queue, h, "udpw") = u
    <3>1. Apply(timeouts_queue, h, "udpw")
            = CHOOSE r \in {timeouts_queue(v, "udpw") : v \in {h}} : TRUE
      BY Zenon DEF Apply
    <3>2. {timeouts_queue(v, "udpw") : v \in {h}} = {timeouts_queue(h, "udpw")}
      OBVIOUS
    <3>. QED BY <3>1, <3>2, Once, Zenon
  <2>2. Apply(timeouts_queue, u, "tcpw") = t
    <3>1. Apply(timeouts_queue, u, "tcpw")
            = CHOOSE r \in {timeouts_queue(v, "tcpw") : v \in {u}} : TRUE
      BY Zenon DEF Apply
    <3>2. {timeouts_queue(v, "tcpw") : v \in {u}} = {timeouts_queue(u, "tcpw")}
      OBVIOUS
    <3>. QED BY <3>1, <3>2, Once, Zenon
  <2>3. adns__timeouts(h) = tcp_events(Apply(timeouts_queue, Apply(timeouts_queue, h, "udpw"), "tcpw"))
    BY Zenon DEF adns__timeouts
  <2>. QED BY <2>1, <2>2, <2>3, Zenon
<1>. QED BY <1>1

LEMMA TimeoutsGood ==
  ASSUME NEW h, Ready(h), NEW g, g = adns__timeouts(h)
  PROVE  /\ Ready(g) /\ Fading(g, h)
         /\ \/ g.bad = h.bad
            \/ g.bad = "freed" /\ Brothers(h.q)
            \/ g.bad = "spins" /\ h.tcpw # <<>> /\ h.tcpstate # "ok"
<1> DEFINE u == timeouts_queue(h, "udpw")
           t == timeouts_queue(u, "tcpw")
           f == TcpTurns(t)
<1>1. g = tcp_events(t)
  BY TimeoutsSteps
<1>2. Ready(u) /\ Shrinks(u, h) /\ u.tcpstate = h.tcpstate
  BY TimeoutsQueueGood
<1>3. Ready(t) /\ Shrinks(t, u) /\ t.tcpstate = u.tcpstate
  BY <1>2, TimeoutsQueueGood
<1> HIDE DEF u, t
<1>4. Ready(f) /\ Shrinks(f, t)
  BY <1>3, TurnsGood
<1>5. /\ Ready(g) /\ Fading(g, t)
      /\ g.bad = f.bad \/ (g.bad = "spins" /\ t.tcpw # <<>> /\ t.tcpstate # "ok")
  BY <1>1, <1>3, TcpEventsGood
<1> HIDE DEF f
<1>6. Shrinks(f, h) /\ Shrinks(t, h)
  BY <1>2, <1>3, <1>4, ShrinksTrans
<1>7. Fading(g, h)
  BY <1>5, <1>6, FadingTrans DEF Shrinks
<1>8. t.tcpw # <<>> => h.tcpw # <<>>
  BY <1>3, <1>6, WaitingBefore DEF Shrinks
<1>. QED BY <1>2, <1>3, <1>5, <1>6, <1>7, <1>8 DEF Shrinks

-----------------------------------------------------------------------------
(* The work that the timeouts find, while no socket does anything.           *)

(* A connect that is under way when nothing is refused.                      *)
LEMMA TryIdle ==
  ASSUME NEW h \in States, h.tcpstate = "disconnected", h.io = Idle,
         NEW g, g = adns__tcp_tryconnect(h)
  PROVE  g.tcpstate = "connecting" /\ g.tcptimeout = "ahead"
<1>1. nservers \in Nat
  BY AdnsAssumption
<1>2. 1 \in 0..nservers /\ 1 \in 1..nservers
  BY AdnsAssumption
<1>3. PICK e : Trace(e, "try", h, Times(nservers), NULL, nservers) /\ adns__tcp_tryconnect(h) = e[nservers]
  BY TryThread
<1>4. e[0] = h /\ \A i \in 1..nservers : e[i] = Do("try", e[i - 1], Times(nservers)[i], NULL)
  BY <1>1, <1>3, TraceSteps
<1> DEFINE x == Times(nservers)[1]
           c == [h EXCEPT !.tcpstate = "connecting"]
<1>5. e[1] = TryServer(h, x)
  <2>1. e[1] = Do("try", e[0], x, NULL)
    BY <1>4, <1>2
  <2>. QED BY <1>4, <2>1 DEF Do
<1>6. h.io.refused = 0 /\ ~h.io.down /\ ~h.io.atonce /\ ~(h.io.refused > 0)
  BY DEF Idle
<1>7. e[1] = [c EXCEPT !.tcptimeout = "ahead"]
  <2> HIDE DEF c
  <2>1. TryServer(h, x) = CASE h.io.down                  -> h
                            [] ~h.io.down /\ h.io.atonce  -> tcp_connected(c)
                            [] ~h.io.down /\ ~h.io.atonce -> [c EXCEPT !.tcptimeout = "ahead"]
    BY <1>6, Zenon DEF TryServer, c
  <2>. QED BY <1>5, <1>6, <2>1, Zenon
<1>8. e[1].tcpstate = "connecting" /\ e[1].tcptimeout = "ahead"
  BY <1>7 DEF States
<1>9. \A z : Do("try", e[1], z, NULL) = e[1]
  <2>1. \A z : TryServer(e[1], z) = e[1]
    <3>1. e[1].tcpstate # "disconnected"
      BY <1>8
    <3>. QED BY <3>1, Zenon DEF TryServer
  <2>. QED BY <2>1 DEF Do
<1>10. e[nservers] = e[1]
  BY <1>1, <1>3, <1>9, <1>2, TraceRests
<1>. QED BY <1>3, <1>8, <1>10

(* A connection that is gone is made again if and only if a query waits.     *)
Remade(g) ==
  \/ g.tcpstate = "disconnected" /\ g.tcpw = <<>>
  \/ g.tcpstate = "connecting" /\ g.tcptimeout = "ahead" /\ g.tcpw # <<>>

LEMMA RemadeRests ==
  ASSUME NEW h, Remade(h)
  PROVE  Rests(h)
BY DEF Remade, Rests

LEMMA GoneEvent ==
  ASSUME NEW h, Ready(h), h.tcpstate \in {"broken", "disconnected"}, h.io = Idle,
         NEW g, g = TcpEvent(h)
  PROVE  Remade(g)
<1> DEFINE k == IF h.tcpstate = "broken" THEN [GiveUp(h) EXCEPT !.tcpstate = "disconnected"] ELSE h
<1>1. g = IF k.tcpw = <<>> THEN k ELSE adns__tcp_tryconnect(k)
  BY Zenon DEF TcpEvent
<1>2. Ready(k) /\ k.tcpstate = "disconnected" /\ k.io = Idle
  <2>1. CASE h.tcpstate = "broken"
    <3> DEFINE e == GiveUp(h)
    <3>1. Ready(e) /\ e.tcpstate = "broken" /\ e.io = Idle
      BY <2>1, GiveUpGood
    <3>2. TcpSet(k, e, "disconnected")
      BY <2>1 DEF TcpSet
    <3> HIDE DEF e, k
    <3>3. e \in States /\ Clear(e) /\ Good(e, {}) /\ e.io \in IoRecords
      BY <3>1, WholeWaits DEF Ready, Good
    <3>4. Quiet(e)
      BY <3>1, <3>3, QuietClear
    <3>5. Shaped(k, e) /\ Quiet(k) /\ SameIo(k, e) /\ k.tcpstate = "disconnected"
      BY <3>2, <3>3, <3>4, StateShape
    <3>6. Good(k, {})
      BY <3>3, <3>5, QuietGood
    <3>. QED BY <3>1, <3>3, <3>5, <3>6 DEF Ready, SameIo
  <2>2. CASE h.tcpstate = "disconnected"
    BY <2>2
  <2>. QED BY <2>1, <2>2
<1> HIDE DEF k
<1>3. CASE k.tcpw = <<>>
  BY <1>1, <1>2, <1>3 DEF Remade
<1>4. CASE k.tcpw # <<>>
  <2>1. k \in States
    BY <1>2 DEF Ready, Good, Whole
  <2>2. g = adns__tcp_tryconnect(k)
    BY <1>1, <1>4
  <2>3. g.tcpstate = "connecting" /\ g.tcptimeout = "ahead"
    BY <1>2, <2>1, <2>2, TryIdle
  <2>4. g.tcpw = k.tcpw
    BY <1>2, <2>2, TryConnectGood DEF Shaped, SameQueues
  <2>. QED BY <1>4, <2>3, <2>4 DEF Remade
<1>. QED BY <1>3, <1>4

(* What adns__tcp_timeouts has to see to.                                    *)
Pending(h) ==
  \/ h.tcpstate = "broken"
  \/ h.tcpstate = "disconnected" /\ h.tcpw # <<>>
  \/ h.tcpstate = "connecting" /\ h.tcptimeout = "past"
  \/ h.tcpstate = "ok" /\ h.tcpw = <<>> /\ h.tcptimeout = "past"

(* One that waited for the connect that failed has had one try more.         *)
LEMMA PastEvents ==
  ASSUME NEW h, Ready(h), h.tcpstate = "connecting", NEW f, f = adns__tcp_broken(h),
         NEW g, Ready(g), Fading(g, f), g.tcpw # <<>>
  PROVE  g.q # h.q
<1>1. SUFFICES ASSUME g.q = h.q PROVE FALSE
  OBVIOUS
<1> DEFINE s == Head(g.tcpw)
<1>2. s \in Listed(g.tcpw)
  BY HeadListed DEF Ready, Good, Whole, States
<1> HIDE DEF s
<1>3. s \in Live(g.q) /\ g.q[s].state = "tcpw"
  BY <1>2 DEF Ready, Good, Whole, Queued, QueueFor, In
<1>4. s \in Listed(h.tcpw)
  BY <1>1, <1>3 DEF Ready, Good, Whole, Queued, QueueFor, In
<1>5. h \in States /\ Waits(h)
  BY WholeWaits DEF Ready, Good
<1>6. TriedAgain(f.q[s], h.q[s])
  BY <1>4, <1>5, BrokenShape
<1>7. Fades(g.q[s], f.q[s]) /\ g.q[s] # NULL
  BY <1>3 DEF Fading, Live
<1>8. g.q[s].retries \in Nat
  BY <1>3, LiveFacts DEF Ready, Good, Whole, QueryRecords
<1> DEFINE r == g.q[s].retries
<1>9. r + 1 <= f.q[s].retries
  <2>1. r <= h.q[s].retries
    BY <1>1, <1>8
  <2>. QED BY <1>6, <1>8, <2>1 DEF TriedAgain
<1>10. r + 1 <= r
  <2>1. r + 1 \in Nat
    BY <1>8
  <2>. QED BY <1>3, <1>7, <1>9, <2>1 DEF Fades
<1>. QED BY <1>8, <1>10

(* What there was to do has been done, and it shows.                         *)
LEMMA WorkDone ==
  ASSUME NEW h, Ready(h), h.io = Idle, Pending(h), NEW g, g = TcpTurns(h)
  PROVE  g.tcpstate # h.tcpstate \/ g.q # h.q
<1> DEFINE n == nservers + 4
<1>1. n \in Nat
  BY AdnsAssumption
<1>2. 1 \in 0..n /\ 2 \in 0..n /\ 1 \in 1..n /\ 2 \in 1..n
  BY AdnsAssumption
<1>3. PICK e : Trace(e, "event", h, Times(n), NULL, n) /\ g = e[n]
  BY EventThread
<1> HIDE DEF n
<1>4. e[0] = h /\ \A i \in 1..n : e[i] = Do("event", e[i - 1], Times(n)[i], NULL)
  BY <1>1, <1>3, TraceSteps
<1>5. e[1] = TcpEvent(h) /\ e[2] = TcpEvent(e[1])
  <2>1. \A i \in 1..n : e[i] = TcpEvent(e[i - 1])
    BY <1>4 DEF Do
  <2>2. e[1] = TcpEvent(e[0]) /\ e[2] = TcpEvent(e[1])
    BY <1>2, <2>1
  <2>. QED BY <1>4, <2>2
<1>6. \A k \in 0..n : Remade(e[k]) => g = e[k]
  BY <1>1, <1>3, EventsRest, RemadeRests
<1>7. CASE h.tcpstate \in {"broken", "disconnected"}
  <2>1. Remade(e[1])
    BY <1>5, <1>7, GoneEvent
  <2>2. g = e[1] /\ Remade(g)
    BY <1>2, <1>6, <2>1
  <2>3. CASE h.tcpstate = "broken"
    BY <2>2, <2>3 DEF Remade
  <2>4. CASE h.tcpstate = "disconnected"
    <3>1. h.tcpw # <<>>
      BY <2>4 DEF Pending
    <3>2. e[1] = adns__tcp_tryconnect(h)
      <4>1. h.tcpstate \in {"broken", "disconnected"} /\ h.tcpstate # "broken"
        BY <2>4
      <4>. QED BY <1>5, <3>1, <4>1, Zenon DEF TcpEvent
    <3>3. e[1].tcpstate = "connecting"
      BY <2>4, <3>2, TryIdle DEF Ready, Good, Whole
    <3>. QED BY <2>2, <2>4, <3>3
  <2>. QED BY <1>7, <2>3, <2>4
<1>8. CASE h.tcpstate = "connecting"
  <2> DEFINE f == adns__tcp_broken(h)
  <2>1. e[1] = f
    <3>1. ~(h.tcpstate \in {"broken", "disconnected"}) /\ h.tcpstate # "ok" /\ h.tcptimeout = "past"
      BY <1>8 DEF Pending
    <3>. QED BY <1>5, <1>8, <3>1, Zenon DEF TcpEvent
  <2>2. h \in States /\ Waits(h) /\ Good(h, {})
    BY WholeWaits DEF Ready, Good
  <2>3. Good(f, {}) /\ SameIo(f, h) /\ f.tcpstate = "broken"
    BY <1>8, <2>2, BrokenGood, BrokenShape
  <2> HIDE DEF f
  <2>4. Ready(f) /\ f.io = Idle
    BY <2>3 DEF Ready, SameIo
  <2>5. Ready(e[2]) /\ Shrinks(e[2], f) /\ Remade(e[2])
    BY <1>5, <2>1, <2>3, <2>4, TcpEventGood, GoneEvent
  <2>6. g = e[2]
    BY <1>2, <1>6, <2>5
  <2>7. CASE g.tcpstate = "disconnected"
    BY <1>8, <2>7
  <2>8. CASE g.tcpw # <<>>
    BY <1>8, <2>5, <2>6, <2>8, PastEvents DEF Shrinks, f
  <2>. QED BY <2>5, <2>6, <2>7, <2>8 DEF Remade
<1>9. CASE h.tcpstate = "ok"
  <2>1. h.tcpw = <<>> /\ h.tcptimeout = "past"
    BY <1>9 DEF Pending
  <2> DEFINE c == tcp_close(h)
  <2>2. e[1] = [c EXCEPT !.tcpstate = "disconnected"]
    <3>1. ~(h.tcpstate \in {"broken", "disconnected"}) /\ h.tcpstate # "connecting"
      BY <1>9
    <3>. QED BY <1>5, <1>9, <2>1, <3>1, Zenon DEF TcpEvent
  <2>3. h \in States
    BY DEF Ready, Good, Whole
  <2>4. c \in States /\ c.tcpw = <<>>
    BY <2>1, <2>3, CloseShape DEF Shaped, SameQueues
  <2> HIDE DEF c
  <2>5. e[1].tcpstate = "disconnected" /\ e[1].tcpw = <<>>
    BY <2>2, <2>4 DEF States
  <2>6. g = e[1]
    BY <1>2, <1>6, <2>5 DEF Remade
  <2>. QED BY <1>9, <2>5, <2>6
<1>. QED BY <1>7, <1>8, <1>9 DEF Pending

(* Where there is nothing to do nothing is done, but that the time from      *)
(* which a connection is idle may be set.                                    *)
SetsTimeout(g, h) == g = [h EXCEPT !.tcptimeout = g.tcptimeout]

LEMMA NoWork ==
  ASSUME NEW h, h \in States, ~Pending(h), NEW g, g = TcpTurns(h)
  PROVE  SetsTimeout(g, h)
<1> DEFINE n == nservers + 4
<1>1. n \in Nat
  BY AdnsAssumption
<1>2. PICK e : Trace(e, "event", h, Times(n), NULL, n) /\ g = e[n]
  BY EventThread
<1> HIDE DEF n
<1>3. e[0] = h /\ \A i \in 1..n : e[i] = Do("event", e[i - 1], Times(n)[i], NULL)
  BY <1>1, <1>2, TraceSteps
<1> DEFINE T == {i \in 0..n : e[i] \in States /\ ~Pending(e[i]) /\ SetsTimeout(e[i], h)}
<1>4. 0 \in T
  <2>1. SetsTimeout(h, h)
    BY DEF SetsTimeout, States
  <2>. QED BY <1>1, <1>3, <2>1
<1>5. ASSUME NEW i \in 1..n, i - 1 \in T PROVE i \in T
  <2> DEFINE a == e[i - 1]
             b == e[i]
  <2>1. b = TcpEvent(a)
    BY <1>3 DEF Do
  <2>2. a \in States /\ ~Pending(a) /\ SetsTimeout(a, h)
    BY <1>5
  <2> HIDE DEF a, b
  <2>3. a.tcpstate \in {"disconnected", "connecting", "ok", "broken"}
    BY <2>2 DEF States
  <2>4. ASSUME Rests(a) PROVE b = a
    BY <2>1, <2>2, <2>4, EventRests
  <2>6. ASSUME a.tcpstate = "ok", a.tcpw = <<>>, a.tcptimeout # "past"
        PROVE  b \in States /\ ~Pending(b) /\ SetsTimeout(b, h)
    <3>1. ~(a.tcpstate \in {"broken", "disconnected"}) /\ a.tcpstate # "connecting"
      BY <2>6
    <3>2. b = [a EXCEPT !.tcptimeout = "ahead"]
      BY <2>1, <2>6, <3>1, Zenon DEF TcpEvent
    <3>3. b \in States /\ b.tcpstate = "ok" /\ b.tcptimeout = "ahead"
      BY <2>2, <2>6, <3>2 DEF States
    <3>4. SetsTimeout(b, h)
      <4>1. a = [h EXCEPT !.tcptimeout = a.tcptimeout]
        BY <2>2 DEF SetsTimeout
      <4>2. b = [h EXCEPT !.tcptimeout = "ahead"]
        BY <3>2, <4>1 DEF States
      <4>. QED BY <3>3, <4>2 DEF SetsTimeout
    <3>. QED BY <3>3, <3>4 DEF Pending
  <2>7. b \in States /\ ~Pending(b) /\ SetsTimeout(b, h)
    BY <2>2, <2>3, <2>4, <2>6 DEF Pending, Rests
  <2>8. i \in 0..n
    BY <1>1
  <2>. QED BY <2>7, <2>8 DEF b
<1> HIDE DEF T
<1>6. \A i \in 0..n : i \in T
  BY <1>1, <1>4, <1>5, UpTo, Zenon
<1>7. SetsTimeout(e[n], h)
  BY <1>1, <1>6 DEF T
<1>. QED BY <1>2, <1>7

-----------------------------------------------------------------------------
(* The library is consistent. *)

Sound(h) == Good(h, {}) \/ Ended(h)

(* The inductive invariant. *)
AdnsInv == Good(ads, {}) /\ ads.io = NULL /\ ads.bad = "no" /\ aborted \in Ends

(* What must have been for the program to end in this way.                   *)
Excuse(what) ==
  \/ what = "send" /\ \E s \in Listed(ads.tcpw) : Query(s).names > 0
  \/ what = "freed" /\ \E s, t \in Listed(ads.tcpw) :
       s # t /\ Query(s).parent = Query(t).parent /\ Query(s).parent # NULL
  \/ what = "pointer" /\ ads.smashed
  \/ what = "spins" /\ ads.tcpw # <<>> /\ ads.tcpstate # "ok"
  \/ what = "systemfailure" /\ Unfinished # {}

Excused == aborted' # aborted => Excuse(aborted')

LEMMA NothingGood == Good(Nothing, {}) /\ Nothing.io = NULL /\ Nothing.bad = "no"
<1>1. /\ Nothing.q = [s \in Queries |-> NULL] /\ Nothing.udpw = <<>> /\ Nothing.tcpw = <<>>
      /\ Nothing.childw = <<>> /\ Nothing.output = <<>> /\ Nothing.tcpstate = "disconnected"
      /\ Nothing.tcpsend = FALSE /\ Nothing.io = NULL /\ Nothing.bad = "no"
  BY DEF Nothing
<1>2. Nothing \in States
  BY DEF Nothing, States, Ends
<1>3. Live(Nothing.q) = {}
  BY <1>1 DEF Live
<1>4. \A state : In(Nothing.q, {}, state) = {}
  BY <1>3 DEF In
<1>5. Queued(Nothing, {})
  BY <1>1, <1>4, EmptyQueue DEF Queued
<1>6. Family(Nothing.q, {}, {}) /\ Tried(Nothing.q, {}) /\ Wired(Nothing, {})
  BY <1>1, <1>3, <1>4 DEF Family, Tried, Wired
<1>. QED BY <1>1, <1>2, <1>5, <1>6 DEF Good, Whole

SetsIo(g, h, io) == g = [h EXCEPT !.io = io]

LEMMA IoGood ==
  ASSUME NEW h, Good(h, {}), NEW io \in IoRecords \union {NULL}, NEW g, SetsIo(g, h, io)
  PROVE  /\ Good(g, {}) /\ g.io = io /\ SameQueues(g, h) /\ g.q = h.q /\ SameTcp(g, h)
         /\ g.bad = h.bad
         /\ io \in IoRecords => Ready(g)
<1>1. h \in States
  BY DEF Good, Whole
<1>2. /\ g \in States /\ g.io = io /\ SameQueues(g, h) /\ g.q = h.q /\ SameTcp(g, h)
      /\ g.bad = h.bad
  BY <1>1 DEF SetsIo, States, SameQueues, SameTcp
<1>3. Good(g, {})
  BY <1>2, FieldGood
<1>. QED BY <1>2, <1>3 DEF Ready

LEMMA OutcomesIo ==
  ASSUME NEW tcp, NEW io \in Outcomes(tcp)
  PROVE  io \in IoRecords
<1>1. io \in Sockets \/ io = Idle
  BY DEF Outcomes
<1>2. Idle \in IoRecords
  BY DEF Idle, IoRecords
<1>3. Sockets \subseteq [writes : Nat, error : BOOLEAN, refused : 0..nservers, atonce : BOOLEAN,
                         down : BOOLEAN]
  BY AdnsAssumption
<1>4. [writes : Nat, error : BOOLEAN, refused : 0..nservers, atonce : BOOLEAN,
       down : BOOLEAN] \subseteq IoRecords
  <2>1. 0..nservers \subseteq Nat
    BY AdnsAssumption
  <2>. QED BY <2>1 DEF IoRecords
<1>. QED BY <1>1, <1>2, <1>3, <1>4

(* A call begins. *)
LEMMA CallReady ==
  ASSUME Good(ads, {}), NEW tcp, NEW io \in Outcomes(tcp), NEW g, g = Call(io)
  PROVE  Ready(g) /\ SameQueues(g, ads) /\ g.q = ads.q /\ SameTcp(g, ads) /\ g.bad = ads.bad
<1>1. io \in IoRecords /\ SetsIo(g, ads, io)
  BY OutcomesIo DEF Call, SetsIo
<1>. QED BY <1>1, IoGood

LEMMA BecomesInv ==
  ASSUME AdnsInv, NEW h, Sound(h), Becomes(h), h.bad # "no" => Excuse(h.bad)
  PROVE  AdnsInv' /\ Excused
<1>1. /\ h.bad = "no" => ads' = [h EXCEPT !.io = NULL] /\ aborted' = aborted
      /\ h.bad # "no" => aborted' = h.bad /\ ads' = Nothing
  BY DEF Becomes
<1>2. CASE h.bad = "no"
  <2>1. Good(h, {})
    BY <1>2 DEF Sound, Ended
  <2>2. SetsIo(ads', h, NULL)
    BY <1>1, <1>2 DEF SetsIo
  <2>3. Good(ads', {}) /\ ads'.io = NULL /\ ads'.bad = "no"
    BY <1>2, <2>1, <2>2, IoGood
  <2>. QED BY <1>1, <1>2, <2>3 DEF AdnsInv, Excused
<1>3. CASE h.bad # "no"
  <2>1. h.bad \in Ends
    BY DEF Sound, Good, Whole, Ended, States
  <2>. QED BY <1>1, <1>3, <2>1, NothingGood DEF AdnsInv, Excused
<1>. QED BY <1>2, <1>3

(* A query that is not there any more is no longer an exception.             *)
LEMMA DeadWhole ==
  ASSUME NEW h, NEW s, Whole(h, {}, {s}, {}, {}), s \notin Live(h.q)
  PROVE  Good(h, {})
<1>1. Family(h.q, {}, {})
  BY DEF Whole, Family, Member
<1>. QED BY <1>1 DEF Good, Whole

LEMMA NoChildren ==
  ASSUME NEW h, NEW X, NEW Y, NEW V, Whole(h, X, Y, {}, V), NEW s \in Live(h.q),
         h.q[s].children = <<>>
  PROVE  ChildrenOf(h.q, s) = {}
<1>1. Listed(<<>>) = {}
  BY EmptyQueue DEF QueueFor
<1>2. QueueFor(h.q[s].children, ChildrenOf(h.q, s))
  BY DEF Whole, Family, Member
<1>. QED BY <1>1, <1>2 DEF QueueFor

LEMMA SubmitInv ==
  ASSUME AdnsInv, NEW kind \in Kinds, NEW names \in SearchNames, NEW usevc \in BOOLEAN,
         adns_submit(kind, names, usevc)
  PROVE  AdnsInv' /\ Excused
<1> DEFINE s == CHOOSE t \in Queries : ads.q[t] = NULL
           new == [query_alloc(kind, NULL, names, TRUE) EXCEPT !.usevc = usevc]
<1>1. PICK io \in Outcomes(usevc) :
        Becomes(adns__query_send([Call(io) EXCEPT !.q[s] = new], s))
  BY Zenon DEF adns_submit
<1>2. s \in Queries /\ ads.q[s] = NULL
  <2>1. Allocated(ads) # Queries
    BY Zenon DEF adns_submit
  <2>2. \E t \in Queries : ads.q[t] = NULL
    BY <2>1 DEF Allocated
  <2>. QED BY <2>2
<1>3. Fresh(new)
  <2>1. kind \in {"addr", "ptr", "hosts"} /\ names \in Nat
    BY AdnsAssumption
  <2> DEFINE base == query_alloc(kind, NULL, names, TRUE)
  <2>2. <<>> \in Seq(Queries) /\ NULL \in Queries \union {NULL}
    OBVIOUS
  <2>3. Fresh(base)
    BY <2>1, <2>2 DEF Fresh, query_alloc, QueryRecords
  <2>4. new = [base EXCEPT !.usevc = usevc]
    OBVIOUS
  <2> HIDE DEF base, new
  <2>. QED BY <2>3, <2>4 DEF Fresh, QueryRecords
<1> DEFINE k == Call(io)
           g == [k EXCEPT !.q[s] = new]
<1> HIDE DEF s, new
<1>4. Ready(k) /\ k.q = ads.q /\ k.bad = "no"
  BY <1>1, CallReady DEF AdnsInv
<1>5. Sets(g, k, s, new)
  BY DEF Sets
<1>6. Becomes(adns__query_send(g, s))
  BY <1>1
<1> HIDE DEF k, g
<1>7. Whole(g, {} \union {s}, {} \union {s}, {}, {} \union {s}) /\ Alloced(g, k, s, new)
  <2>1. s \in Free(k.q)
    BY <1>2, <1>4 DEF Free
  <2>2. Whole(k, {}, {}, {}, {})
    BY <1>4 DEF Ready, Good
  <2>. QED BY <1>3, <1>5, <2>1, <2>2, AllocWhole
<1>8. {} \union {s} = {s}
  OBVIOUS
<1>9. Good(g, {s})
  BY <1>7, <1>8 DEF Good
<1>10. s \in Live(g.q) /\ g.q[s].children = <<>> /\ g.q[s].state = "tosend" /\ g.io \in IoRecords
  BY <1>3, <1>4, <1>7 DEF Alloced, Rest, SameIo, Fresh, Ready
<1>11. Ready(adns__query_send(g, s)) /\ adns__query_send(g, s).bad = g.bad
  BY <1>9, <1>10, QuerySendGood
<1>12. g.bad = "no"
  BY <1>4, <1>7 DEF Alloced, Rest, SameIo
<1>. QED BY <1>6, <1>11, <1>12, BecomesInv DEF Ready, Sound

LEMMA CancelGood ==
  ASSUME NEW h, Good(h, {}), NEW s \in Live(h.q), h.q[s].parent = NULL,
         NEW g, g = adns__cancel(h, s)
  PROVE  Good(g, {}) /\ g.bad = h.bad
<1> DEFINE k == cancel_children(h, s)
<1>1. g = CancelOne(k, s)
  BY DEF adns__cancel
<1>2. Whole(k, {}, {} \union {s}, {}, {}) /\ Cancelled(k, h, s)
  BY CancelChildren DEF Good
<1> HIDE DEF k
<1>3. {} \union {s} = {s} /\ s \in Live(k.q) \ {}
  BY <1>2 DEF Cancelled
<1>4. Whole(k, {}, {s}, {}, {})
  BY <1>2, <1>3
<1>5. k.q[s].children = <<>> /\ k.q[s].parent = NULL
  <2>1. h.q[s] \in QueryRecords
    BY LiveFacts DEF Good, Whole
  <2>. QED BY <1>2, <2>1 DEF Cancelled, QueryRecords
<1>6. ChildrenOf(k.q, s) = {}
  BY <1>3, <1>4, <1>5, NoChildren
<1>7. Whole(g, {}, {s}, {}, {}) /\ Freed(g, k, s)
  BY <1>1, <1>3, <1>4, <1>5, <1>6, CancelOneWhole
<1>8. s \notin Live(g.q)
  BY <1>7 DEF Freed
<1>9. g.bad = h.bad
  BY <1>2, <1>7 DEF Cancelled, Freed, Rest, SameIo
<1>. QED BY <1>7, <1>8, <1>9, DeadWhole

LEMMA CheckGood ==
  ASSUME NEW h, Good(h, {}), NEW s \in Live(h.q), h.q[s].parent = NULL, h.q[s].state = "done",
         NEW g, g = [Unlink(h, "output", s) EXCEPT !.q[s] = NULL]
  PROVE  Good(g, {}) /\ g.bad = h.bad
<1>1. g = CancelOne(h, s)
  BY QueueOfFacts DEF CancelOne
<1>2. Whole(h, {}, {}, {}, {}) /\ s \in Live(h.q) \ {}
  BY DEF Good
<1>3. h.q[s].children = <<>>
  BY <1>2 DEF Whole, Family, Member
<1>4. ChildrenOf(h.q, s) = {}
  BY <1>2, <1>3, NoChildren
<1>5. Whole(g, {}, {}, {}, {}) /\ Freed(g, h, s)
  BY <1>1, <1>2, <1>4, CancelOneWhole
<1>. QED BY <1>5 DEF Good, Freed, Rest, SameIo

LEMMA ReadableInv ==
  ASSUME AdnsInv, NEW s \in Queries, NEW d \in Dgrams, adns_processreadable(s, d)
  PROVE  AdnsInv' /\ Excused
<1>1. PICK io \in Outcomes(Query(s).usevc \/ d.says = "truncated") :
        Becomes(adns__procdgram(Call(io), s, d))
  BY Zenon DEF adns_processreadable
<1>2. s \in Listed(ads.udpw) \union Listed(ads.tcpw)
  <2>1. ads.udpw \in Seq(Queries) /\ ads.tcpw \in Seq(Queries)
    BY DEF AdnsInv, Good, Whole, States
  <2>2. s \in Listed(ads.udpw \o ads.tcpw)
    BY Zenon DEF adns_processreadable
  <2>3. /\ Len(ads.udpw \o ads.tcpw) = Len(ads.udpw) + Len(ads.tcpw)
        /\ \A i \in 1..(Len(ads.udpw) + Len(ads.tcpw)) :
             (ads.udpw \o ads.tcpw)[i] = IF i <= Len(ads.udpw) THEN ads.udpw[i]
                                         ELSE ads.tcpw[i - Len(ads.udpw)]
    BY <2>1, ConcatProperties
  <2>4. PICK i \in 1..(Len(ads.udpw) + Len(ads.tcpw)) : s = (ads.udpw \o ads.tcpw)[i]
    BY <2>2, <2>3 DEF Listed
  <2>5. Len(ads.udpw) \in Nat /\ Len(ads.tcpw) \in Nat
    BY <2>1, SeqFacts
  <2>6. CASE i <= Len(ads.udpw)
    <3>1. i \in 1..Len(ads.udpw) /\ s = ads.udpw[i]
      BY <2>3, <2>4, <2>5, <2>6
    <3>. QED BY <3>1 DEF Listed
  <2>7. CASE ~(i <= Len(ads.udpw))
    <3>1. i - Len(ads.udpw) \in 1..Len(ads.tcpw)
      <4>1. \A m, n \in Nat : \A j \in 1..(m + n) : ~(j <= m) => j - m \in 1..n
        OBVIOUS
      <4>. QED BY <2>5, <2>7, <4>1, Zenon
    <3>2. s = ads.tcpw[i - Len(ads.udpw)]
      BY <2>3, <2>4, <2>7, Zenon
    <3>. QED BY <3>1, <3>2 DEF Listed
  <2>. QED BY <2>6, <2>7
<1>3. s \in Live(ads.q) /\ ads.q[s].state \in {"tosend", "tcpw"}
  <2>1. CASE s \in Listed(ads["udpw"])
    <3>1. ListedIn(ads, "udpw", s)
      BY <2>1, ListedFacts DEF AdnsInv
    <3>. QED BY <3>1 DEF ListedIn
  <2>2. CASE s \in Listed(ads["tcpw"])
    <3>1. ListedIn(ads, "tcpw", s)
      BY <2>2, ListedFacts DEF AdnsInv
    <3>. QED BY <3>1 DEF ListedIn
  <2>. QED BY <1>2, <2>1, <2>2
<1> DEFINE k == Call(io)
           g == adns__procdgram(k, s, d)
<1>4. Becomes(g)
  BY <1>1
<1>5. Ready(k) /\ k.q = ads.q /\ k.bad = "no"
  BY <1>1, CallReady DEF AdnsInv
<1>6. ASSUME d.says \in {"records", "garbled"} PROVE Fits(k, s, d)
  <2>1. /\ IF ads.q[s].kind = "addr" THEN d.children = 0
           ELSE d.children <= Cardinality(Queries \ Allocated(ads))
    BY <1>6 DEF adns_processreadable, Query
  <2>2. Free(k.q) = Queries \ Allocated(ads)
    BY <1>5 DEF Free, Allocated
  <2>3. Cardinality(Free(k.q)) \in Nat
    <3>1. IsFiniteSet(Free(k.q))
      BY AdnsAssumption, FS_Subset DEF Free
    <3>. QED BY <3>1, FS_CardinalityType
  <2>4. d.children \in Nat
    BY DEF Dgrams
  <2>. QED BY <1>5, <2>1, <2>2, <2>3, <2>4 DEF Fits
<1> HIDE DEF k
<1>7. \/ Ready(g) /\ g.bad = "no"
      \/ Ended(g) /\ k.q[s].state = "tcpw" /\ k.q[s].names # 0 /\ g.bad = "send"
  BY <1>3, <1>5, <1>6, ProcdgramGood
<1> HIDE DEF g
<1>11. Sound(g)
  BY <1>7 DEF Sound, Ready
<1>12. ASSUME g.bad # "no"
       PROVE  Excuse(g.bad)
  <2>1. g.bad = "send" /\ ads.q[s].state = "tcpw" /\ ads.q[s].names # 0
    BY <1>5, <1>7, <1>12
  <2>2. s \in Listed(ads.tcpw)
    BY <1>3, <2>1 DEF AdnsInv, Good, Whole, Queued, QueueFor, In
  <2>3. ads.q[s].names > 0
    <3>1. ads.q[s].names \in Nat
      BY <1>3, LiveFacts DEF AdnsInv, Good, Whole, QueryRecords
    <3>. QED BY <2>1, <3>1
  <2>. QED BY <2>1, <2>2, <2>3, Zenon DEF Excuse, Query
<1>. QED BY <1>4, <1>11, <1>12, BecomesInv

(* The flag late of a query is set. *)
SetsLate(g, h, s) == g = [h EXCEPT !.q[s].late = TRUE]

LEMMA LateGood ==
  ASSUME NEW h, Good(h, {}), NEW s \in Live(h.q), NEW g, SetsLate(g, h, s)
  PROVE  Good(g, {}) /\ g.bad = h.bad
<1> DEFINE r == [h.q[s] EXCEPT !.late = TRUE]
<1>1. h \in States /\ s \in Queries /\ h.q[s] # NULL /\ h.q[s] \in QueryRecords
  BY LiveFacts DEF Good, Whole
<1>2. /\ r \in QueryRecords /\ SameShape(h.q[s], r) /\ r.sent = h.q[s].sent
      /\ r.state = h.q[s].state /\ r # NULL
  <2>1. r \in QueryRecords
    BY <1>1 DEF QueryRecords
  <2>2. r # NULL
    BY <2>1, AdnsAssumption
  <2>. QED BY <1>1, <2>1, <2>2 DEF QueryRecords, SameShape
<1>3. Sets(g, h, s, r)
  BY <1>1 DEF Sets, SetsLate, States
<1> HIDE DEF r
<1>4. /\ g \in States /\ SameQueues(g, h) /\ Rest(g, h) /\ g.q[s] = r
      /\ \A t \in Queries \ {s} : g.q[t] = h.q[t]
  <2>1. r \in QueryRecords \union {NULL}
    BY <1>2
  <2>. QED BY <1>1, <1>3, <2>1, SetRecord
<1>5. \A t \in Queries : SameShape(h.q[t], g.q[t])
  BY <1>2, <1>4 DEF SameShape
<1>6. /\ Live(g.q) = Live(h.q)
      /\ \A t \in Live(h.q) : g.q[t].sent = h.q[t].sent /\ g.q[t].state = h.q[t].state
  BY <1>1, <1>2, <1>4 DEF Live
<1>7. Wired(g, {})
  BY <1>4, <1>6 DEF Good, Whole, Wired, In, Rest, SameTcp
<1>. QED BY <1>4, <1>5, <1>7, ShapeWhole DEF Good, Rest, SameIo

LEMMA LateInv ==
  ASSUME AdnsInv, NEW s \in Queries, Late(s)
  PROVE  AdnsInv' /\ Excused
<1>1. \E list \in {"udpw", "tcpw"} : \E i \in DOMAIN ads[list] : s = ads[list][i]
  BY DEF Late
<1>2. s \in Live(ads.q)
  <2>1. PICK list \in {"udpw", "tcpw"} : \E i \in DOMAIN ads[list] : s = ads[list][i]
    BY <1>1
  <2>2. ads[list] \in Seq(Queries)
    BY DEF AdnsInv, Good, Whole, States
  <2>3. s \in Listed(ads[list])
    BY <2>1, <2>2, SeqFacts DEF Listed
  <2>4. ListedIn(ads, list, s)
    BY <2>3, ListedFacts DEF AdnsInv
  <2>. QED BY <2>4 DEF ListedIn
<1> DEFINE g == [ads EXCEPT !.q[s].late = TRUE]
<1>3. Becomes(g)
  BY Zenon DEF Late
<1>4. Good(g, {}) /\ g.bad = "no"
  <2>1. SetsLate(g, ads, s)
    BY DEF SetsLate
  <2> HIDE DEF g
  <2>. QED BY <1>2, <2>1, LateGood DEF AdnsInv
<1> HIDE DEF g
<1>. QED BY <1>3, <1>4, BecomesInv DEF Sound

LEMMA TimeoutFieldInv ==
  ASSUME AdnsInv, NEW v \in {"ahead", "past"}, Becomes([ads EXCEPT !.tcptimeout = v])
  PROVE  AdnsInv' /\ Excused
<1> DEFINE g == [ads EXCEPT !.tcptimeout = v]
<1>1. ads \in States /\ Good(ads, {})
  BY DEF AdnsInv, Good, Whole
<1>2. /\ g \in States /\ SameQueues(g, ads) /\ g.q = ads.q /\ SameTcp(g, ads)
      /\ g.bad = "no"
  BY <1>1 DEF States, SameQueues, SameTcp, AdnsInv
<1>3. Becomes(g)
  OBVIOUS
<1> HIDE DEF g
<1>4. Good(g, {})
  BY <1>1, <1>2, FieldGood
<1>. QED BY <1>2, <1>3, <1>4, BecomesInv DEF Sound

LEMMA WriteableInv ==
  ASSUME AdnsInv, adns_processwriteable
  PROVE  AdnsInv' /\ Excused
<1>1. CASE ads.tcpstate = "connecting"
           /\ \E io \in Outcomes(ads.tcpw # <<>>) : Becomes(tcp_connected(Call(io)))
  <2>1. PICK io \in Outcomes(ads.tcpw # <<>>) : Becomes(tcp_connected(Call(io)))
    BY <1>1
  <2> DEFINE k == Call(io)
             g == tcp_connected(k)
  <2>2. Ready(k) /\ SameTcp(k, ads) /\ k.bad = "no"
    BY <2>1, CallReady DEF AdnsInv
  <2>3. Becomes(g)
    BY <2>1
  <2> HIDE DEF k
  <2>4. Ready(g) /\ g.bad = "no"
    BY <1>1, <2>2, ConnectedGood DEF SameTcp, Shaped
  <2> HIDE DEF g
  <2>. QED BY <2>3, <2>4, BecomesInv DEF Ready, Sound
<1>2. CASE ads.tcpstate = "ok" /\ Becomes([ads EXCEPT !.tcpsend = FALSE])
  <2> DEFINE g == [ads EXCEPT !.tcpsend = FALSE]
  <2>1. ads \in States /\ Good(ads, {})
    BY DEF AdnsInv, Good, Whole
  <2>2. /\ g \in States /\ SameQueues(g, ads) /\ g.q = ads.q /\ g.tcpstate = "ok"
         /\ g.bad = "no"
    BY <1>2, <2>1 DEF States, SameQueues, AdnsInv
  <2>3. Becomes(g)
    BY <1>2
  <2> HIDE DEF g
  <2>4. \A s \in Queries : SameShape(ads.q[s], g.q[s])
    BY <2>2 DEF SameShape
  <2>5. Wired(g, {})
    BY <1>2, <2>1, <2>2 DEF Good, Whole, Wired
  <2>6. Good(g, {})
    BY <2>1, <2>2, <2>4, <2>5, ShapeWhole DEF Good
  <2>. QED BY <2>2, <2>3, <2>6, BecomesInv DEF Sound
<1>3. CASE /\ ads.tcpstate = "connecting"
           /\ \E same \in BOOLEAN : Becomes([adns__tcp_broken(ads) EXCEPT !.smashed = ~same])
  <2> DEFINE f == adns__tcp_broken(ads)
  <2>1. PICK same \in BOOLEAN : Becomes([f EXCEPT !.smashed = ~same])
    BY <1>3
  <2>2. Good(f, {}) /\ f.bad = "no"
    BY <1>3, BrokenGood DEF AdnsInv, SameIo
  <2> DEFINE g == [f EXCEPT !.smashed = ~same]
  <2>3. Becomes(g)
    BY <2>1
  <2> HIDE DEF f
  <2>4. /\ g \in States /\ SameQueues(g, f) /\ g.q = f.q /\ SameTcp(g, f) /\ g.bad = "no"
    BY <2>2 DEF Good, Whole, States, SameQueues, SameTcp
  <2> HIDE DEF g
  <2>5. Good(g, {})
    BY <2>2, <2>4, FieldGood
  <2>. QED BY <2>3, <2>4, <2>5, BecomesInv DEF Sound
<1>. QED BY <1>1, <1>2, <1>3, Zenon DEF adns_processwriteable

(* The program ends between two calls. *)
LEMMA BadGood ==
  ASSUME AdnsInv, NEW what \in Ends, NEW g, g = Bad(ads, what)
  PROVE  Good(g, {}) /\ g.bad = what
<1>1. ads \in States /\ ads.bad = "no"
  BY DEF AdnsInv, Good, Whole
<1>2. g = [ads EXCEPT !.bad = what]
  BY <1>1 DEF Bad, States
<1>3. /\ g \in States /\ SameQueues(g, ads) /\ g.q = ads.q /\ SameTcp(g, ads) /\ g.bad = what
  BY <1>1, <1>2 DEF States, SameQueues, SameTcp
<1>. QED BY <1>3, FieldGood DEF AdnsInv

LEMMA SystemFailureInv ==
  ASSUME AdnsInv, adns_globalsystemfailure
  PROVE  AdnsInv' /\ Excused
<1>1. CASE ads.udpw \o ads.tcpw # <<>>
  <2> DEFINE g == Bad(ads, "systemfailure")
  <2>1. ads \in States
    BY DEF AdnsInv, Good, Whole
  <2>2. Becomes(g)
    BY <1>1, Zenon DEF adns_globalsystemfailure
  <2>3. Good(g, {}) /\ g.bad = "systemfailure"
    BY BadGood DEF Ends
  <2> HIDE DEF g
  <2>7. Unfinished # {}
    <3>1. ads.udpw \in Seq(Queries) /\ ads.tcpw \in Seq(Queries)
      BY <2>1 DEF States
    <3>2. ads.udpw # <<>> \/ ads.tcpw # <<>>
      BY <1>1, <3>1
    <3>3. \E list \in {"udpw", "tcpw"} : Head(ads[list]) \in Listed(ads[list])
      BY <3>1, <3>2, HeadListed
    <3>4. PICK list \in {"udpw", "tcpw"} : Head(ads[list]) \in Listed(ads[list])
      BY <3>3
    <3>5. ListedIn(ads, list, Head(ads[list]))
      BY <3>4, ListedFacts DEF AdnsInv
    <3>. QED BY <3>5 DEF ListedIn, Live, Unfinished, Allocated, Query
  <2>8. Excuse("systemfailure")
    BY <2>7 DEF Excuse
  <2>. QED BY <2>2, <2>3, <2>8, BecomesInv DEF Sound
<1>2. CASE ads.udpw \o ads.tcpw = <<>> /\ ads.tcpstate \in {"connecting", "ok"}
  <2>1. Becomes(adns__tcp_broken(ads))
    BY <1>2, Zenon DEF adns_globalsystemfailure
  <2>2. Good(adns__tcp_broken(ads), {}) /\ adns__tcp_broken(ads).bad = "no"
    BY <1>2, BrokenGood DEF AdnsInv, SameIo
  <2>. QED BY <2>1, <2>2, BecomesInv DEF Sound
<1>3. CASE ads.udpw \o ads.tcpw = <<>> /\ ~(ads.tcpstate \in {"connecting", "ok"})
  <2>1. Becomes(ads)
    BY <1>3, Zenon DEF adns_globalsystemfailure
  <2>. QED BY <2>1, BecomesInv DEF Sound, AdnsInv
<1>. QED BY <1>1, <1>2, <1>3

LEMMA BrothersExcuse ==
  ASSUME Good(ads, {}), Brothers(ads.q)
  PROVE  Excuse("freed")
<1>1. PICK s, t \in Live(ads.q) :
        /\ s # t /\ ads.q[s].state = "tcpw" /\ ads.q[t].state = "tcpw"
        /\ ads.q[s].parent = ads.q[t].parent /\ ads.q[s].parent # NULL
  BY DEF Brothers
<1>2. s \in Listed(ads.tcpw) /\ t \in Listed(ads.tcpw)
  BY <1>1 DEF Good, Whole, Queued, QueueFor, In
<1>. QED BY <1>1, <1>2, Zenon DEF Excuse, Query

(* The invariant is inductive, and a step that ends the program has an       *)
(* excuse.                                                                   *)
LEMMA NextAdnsInv == AdnsInv /\ [Next]_vars => AdnsInv' /\ Excused
<1> SUFFICES ASSUME AdnsInv, [Next]_vars PROVE AdnsInv' /\ Excused
  OBVIOUS
<1>1. ASSUME NEW kind \in Kinds, NEW names \in SearchNames, NEW usevc \in BOOLEAN,
             adns_submit(kind, names, usevc)
      PROVE  AdnsInv' /\ Excused
  BY <1>1, SubmitInv
<1>2. ASSUME NEW s \in Queries, adns_cancel(s) PROVE AdnsInv' /\ Excused
  <2>1. s \in Live(ads.q) /\ ads.q[s].parent = NULL /\ Becomes(adns__cancel(ads, s))
    BY <1>2 DEF adns_cancel, IsTop, Live
  <2>2. Good(adns__cancel(ads, s), {}) /\ adns__cancel(ads, s).bad = "no"
    BY <2>1, CancelGood DEF AdnsInv
  <2>. QED BY <2>1, <2>2, BecomesInv DEF Sound
<1>3. ASSUME NEW s \in Queries, adns_check(s) PROVE AdnsInv' /\ Excused
  <2> DEFINE g == [Unlink(ads, "output", s) EXCEPT !.q[s] = NULL]
  <2>1. /\ s \in Live(ads.q) /\ ads.q[s].parent = NULL /\ ads.q[s].state = "done"
        /\ Becomes(g)
    BY <1>3 DEF adns_check, IsTop, Live
  <2>2. Good(g, {}) /\ g.bad = "no"
    BY <2>1, CheckGood DEF AdnsInv
  <2> HIDE DEF g
  <2>. QED BY <2>1, <2>2, BecomesInv DEF Sound
<1>4. ASSUME NEW s \in Queries, Late(s) PROVE AdnsInv' /\ Excused
  BY <1>4, LateInv
<1>5. CASE adns_beforeselect
  <2>1. Becomes([ads EXCEPT !.tcptimeout = "ahead"])
    BY <1>5, Zenon DEF adns_beforeselect
  <2>. QED BY <2>1, TimeoutFieldInv
<1>6. CASE adns_processtimeouts
  <2>1. PICK io \in Outcomes(ads.tcpw # <<>>) : Becomes(adns__timeouts(Call(io)))
    BY <1>6, Zenon DEF adns_processtimeouts
  <2> DEFINE k == Call(io)
             g == adns__timeouts(k)
  <2>2. /\ Ready(k) /\ k.q = ads.q /\ k.bad = "no"
        /\ k.tcpw = ads.tcpw /\ k.tcpstate = ads.tcpstate
    BY <2>1, CallReady DEF AdnsInv, SameQueues, SameTcp
  <2> HIDE DEF k
  <2>3. /\ Ready(g)
        /\ \/ g.bad = k.bad
           \/ g.bad = "freed" /\ Brothers(k.q)
           \/ g.bad = "spins" /\ k.tcpw # <<>> /\ k.tcpstate # "ok"
    BY <2>2, TimeoutsGood
  <2>4. Becomes(g)
    BY <2>1 DEF k
  <2> HIDE DEF g
  <2>5. g.bad # "no" => \/ g.bad = "freed" /\ Brothers(ads.q)
                        \/ g.bad = "spins" /\ ads.tcpw # <<>> /\ ads.tcpstate # "ok"
    BY <2>2, <2>3
  <2>6. /\ Brothers(ads.q) => Excuse("freed")
        /\ ads.tcpw # <<>> /\ ads.tcpstate # "ok" => Excuse("spins")
    BY BrothersExcuse DEF AdnsInv, Excuse
  <2>. QED BY <2>3, <2>4, <2>5, <2>6, BecomesInv DEF Sound, Ready
<1>7. ASSUME NEW s \in Queries, NEW d \in Dgrams, adns_processreadable(s, d) PROVE AdnsInv' /\ Excused
  BY <1>7, ReadableInv
<1>8. CASE adns_processwriteable
  BY <1>8, WriteableInv
<1>9. CASE TcpFails
  <2>1. ads.tcpstate \in {"connecting", "ok"} /\ Becomes(adns__tcp_broken(ads))
    BY <1>9, Zenon DEF TcpFails
  <2>2. Good(adns__tcp_broken(ads), {}) /\ adns__tcp_broken(ads).bad = "no"
    BY <2>1, BrokenGood DEF AdnsInv, SameIo
  <2>. QED BY <2>1, <2>2, BecomesInv DEF Sound
<1>10. CASE adns_globalsystemfailure
  BY <1>10, SystemFailureInv
<1>11. CASE TcpLate
  <2>1. Becomes([ads EXCEPT !.tcptimeout = "past"])
    BY <1>11, Zenon DEF TcpLate
  <2>. QED BY <2>1, TimeoutFieldInv
<1>12. CASE UNCHANGED vars
  BY <1>12 DEF vars, AdnsInv, Excused
<1>13. CASE ReadAstray
  <2> DEFINE g == Bad(ads, "pointer")
  <2>1. ads.smashed /\ Becomes(g)
    BY <1>13, Zenon DEF ReadAstray
  <2>2. Good(g, {}) /\ g.bad = "pointer"
    BY BadGood DEF Ends
  <2> HIDE DEF g
  <2>3. Excuse("pointer")
    BY <2>1 DEF Excuse
  <2>. QED BY <2>1, <2>2, <2>3, BecomesInv DEF Sound
<1>. QED BY <1>1, <1>2, <1>3, <1>4, <1>5, <1>6, <1>7, <1>8, <1>9, <1>10, <1>11, <1>12, <1>13, Zenon DEF Next

-----------------------------------------------------------------------------
(* How long to sleep. *)

(* The first that is late is not late any more once the timeouts are through.*)
LEMMA LateGone ==
  ASSUME NEW h, Ready(h), NEW g, g = adns__timeouts(h),
         LateIn(h, "udpw") # {} \/ LateIn(h, "tcpw") # {}
  PROVE  g.q # h.q
<1> DEFINE u == timeouts_queue(h, "udpw")
           t == timeouts_queue(u, "tcpw")
<1>1. g = tcp_events(t)
  BY TimeoutsSteps
<1>2. /\ Ready(u) /\ (LateIn(h, "udpw") = {} => u = h)
      /\ LateIn(h, "udpw") # {} => Rid(u.q[FirstLate(h, "udpw")])
  BY TimeoutsQueueGood
<1>3. /\ Ready(t) /\ Fading(t, u)
      /\ LateIn(u, "tcpw") # {} => Rid(t.q[FirstLate(u, "tcpw")])
  BY <1>2, TimeoutsQueueGood DEF Shrinks
<1> HIDE DEF u, t
<1>4. Fading(g, t)
  BY <1>1, <1>3, TcpEventsGood
<1>5. ASSUME NEW list \in {"udpw", "tcpw"}, LateIn(h, list) # {},
             \/ Rid(u.q[FirstLate(h, list)])
             \/ Rid(t.q[FirstLate(h, list)])
      PROVE  g.q # h.q
  <2> DEFINE s == FirstLate(h, list)
  <2>1. s \in Listed(h[list]) /\ h.q[s].late
    BY <1>5, FirstLateFacts DEF Ready
  <2>2. s \in Live(h.q)
    BY <2>1, ListedFacts DEF Ready, ListedIn
  <2>3. Rid(u.q[s]) \/ Rid(t.q[s])
    BY <1>5
  <2> HIDE DEF s
  <2>4. Fading(g, u)
    BY <1>3, <1>4, FadingTrans
  <2>5. Fades(g.q[s], u.q[s]) /\ Fades(g.q[s], t.q[s])
    BY <1>4, <2>2, <2>4 DEF Fading, Live
  <2>6. Rid(g.q[s])
    BY <2>3, <2>5 DEF Fades, Rid
  <2>. QED BY <2>1, <2>2, <2>6 DEF Rid, Live
<1>6. CASE LateIn(h, "udpw") # {}
  BY <1>2, <1>5, <1>6
<1>7. CASE LateIn(h, "udpw") = {} /\ LateIn(h, "tcpw") # {}
  BY <1>2, <1>3, <1>5, <1>7
<1>. QED BY <1>6, <1>7

(* A query that is not over is in a queue that has timeouts, or a child of   *)
(* it is.                                                                    *)
LEMMA NeverWhenDone ==
  ASSUME AdnsInv, NEW s \in Unfinished
  PROVE  ads.udpw # <<>> \/ ads.tcpw # <<>>
<1>1. /\ ads \in States /\ Queued(ads, {}) /\ Family(ads.q, {}, {})
  BY DEF AdnsInv, Good, Whole
<1>2. ASSUME NEW t \in Live(ads.q), ads.q[t].state \in {"tosend", "tcpw"}
      PROVE  ads.udpw # <<>> \/ ads.tcpw # <<>>
  <2>1. t \in Listed(ads.udpw) \/ t \in Listed(ads.tcpw)
    BY <1>1, <1>2 DEF Queued, QueueFor, In
  <2>2. Listed(<<>>) = {}
    BY EmptyQueue DEF QueueFor
  <2>. QED BY <2>1, <2>2
<1>3. s \in Live(ads.q) /\ ads.q[s].state # "done"
  BY DEF Unfinished, Allocated, Live, Query
<1>4. CASE ads.q[s].state # "childw"
  <2>1. ads.q[s].state \in {"tosend", "tcpw", "childw", "done"}
    BY <1>1, <1>3, LiveFacts DEF QueryRecords
  <2>. QED BY <1>2, <1>3, <1>4, <2>1
<1>5. CASE ads.q[s].state = "childw"
  <2>1. Member(ads.q, {}, {}, s)
    BY <1>1, <1>3 DEF Family
  <2>2. ads.q[s].children # <<>> /\ QueueFor(ads.q[s].children, ChildrenOf(ads.q, s))
    BY <1>5, <2>1 DEF Member
  <2>3. ChildrenOf(ads.q, s) # {}
    BY <2>2, QueueIsEmpty
  <2>4. PICK c \in Live(ads.q) : ads.q[c].parent = s
    BY <2>3 DEF ChildrenOf
  <2>5. s # NULL
    BY <1>3, AdnsAssumption DEF Live
  <2>6. Member(ads.q, {}, {}, c)
    BY <1>1, <2>4 DEF Family
  <2>7. ads.q[c].state # "done" /\ ads.q[c].state # "childw"
    BY <2>4, <2>5, <2>6 DEF Member
  <2>8. ads.q[c].state \in {"tosend", "tcpw", "childw", "done"}
    BY <1>1, <2>4, LiveFacts DEF QueryRecords
  <2>. QED BY <1>2, <2>4, <2>7, <2>8
<1>. QED BY <1>4, <1>5

LEMMA WaitWork ==
  ASSUME AdnsInv
  PROVE  WaitMatchesWork
<1> DEFINE h == Call(Idle)
           g == adns__timeouts(h)
           done == [g EXCEPT !.tcptimeout = ads.tcptimeout, !.io = NULL]
           late == LateIn(h, "udpw") # {} \/ LateIn(h, "tcpw") # {}
<1>1. ads \in States /\ ads.io = NULL /\ Good(ads, {})
  BY DEF AdnsInv, Good, Whole
<1>2. h = [ads EXCEPT !.io = Idle] /\ Idle \in IoRecords
  BY DEF Call, Idle, IoRecords
<1> HIDE DEF h
<1>3. Ready(h) /\ h.io = Idle /\ SameQueues(h, ads) /\ h.q = ads.q /\ h.tcpstate = ads.tcpstate
  <2>1. SetsIo(h, ads, Idle)
    BY <1>2 DEF SetsIo
  <2>. QED BY <1>1, <1>2, <2>1, IoGood DEF SameTcp
<1>4. h.tcptimeout = ads.tcptimeout /\ h["udpw"] = ads["udpw"] /\ h["tcpw"] = ads["tcpw"]
  BY <1>1, <1>2 DEF States
<1>5. Ready(g)
  BY <1>3, TimeoutsGood
<1>6. late => g.q # h.q
  BY <1>3, LateGone
<1>7. ~late => g = tcp_events(h)
  <2>1. ASSUME ~late PROVE g = tcp_events(h)
    <3>1. timeouts_queue(h, "udpw") = h /\ timeouts_queue(h, "tcpw") = h
      BY <1>3, <2>1, TimeoutsQueueGood
    <3>. QED BY <3>1, TimeoutsSteps
  <2>. QED BY <2>1
<1> HIDE DEF g
<1> DEFINE f == TcpTurns(h)
<1>8. late \/ Pending(h) => g.q # h.q \/ g.tcpstate # h.tcpstate
  <2>1. ASSUME Pending(h), ~late PROVE g.q # h.q \/ g.tcpstate # h.tcpstate
    <3>1. f.tcpstate # h.tcpstate \/ f.q # h.q
      BY <1>3, <2>1, WorkDone
    <3>2. g.q = f.q /\ g.tcpstate = f.tcpstate
      BY <1>3, <1>7, <2>1, TcpEventsGood
    <3>. QED BY <3>1, <3>2
  <2>. QED BY <1>6, <2>1
<1>9. ~late /\ ~Pending(h) => SetsTimeout(g, h)
  <2>1. ASSUME ~late, ~Pending(h) PROVE SetsTimeout(g, h)
    <3>1. SetsTimeout(f, h)
      BY <1>3, <2>1, NoWork DEF Ready, Good, Whole
    <3>2. f.io = h.io /\ ~f.io.down
      <4> HIDE DEF f
      <4> DEFINE v == f.tcptimeout
      <4>1. f = [h EXCEPT !.tcptimeout = v]
        BY <3>1 DEF SetsTimeout
      <4> HIDE DEF v
      <4>2. h \in States
        BY <1>3 DEF Ready, Good, Whole
      <4>3. f.io = h.io
        BY <4>1, <4>2 DEF States
      <4>. QED BY <1>3, <4>3 DEF Idle
    <3>3. g = f
      BY <1>3, <1>7, <2>1, <3>2, TcpEventsGood
    <3>. QED BY <3>1, <3>3
  <2>. QED BY <2>1
<1> HIDE DEF f
<1>10. done.q = g.q /\ done.tcpstate = g.tcpstate
  BY <1>5 DEF Ready, Good, Whole, States
<1>11. late \/ Pending(h) => done # ads
  BY <1>3, <1>8, <1>10
<1>12. SetsTimeout(g, h) => done = ads
  <2>1. ASSUME SetsTimeout(g, h) PROVE done = ads
    <3> DEFINE v == g.tcptimeout
    <3>1. g = [h EXCEPT !.tcptimeout = v]
      BY <2>1 DEF SetsTimeout
    <3> HIDE DEF v
    <3>. QED BY <1>1, <1>2, <3>1 DEF States
  <2>. QED BY <2>1
<1>13. late <=> LateIn(ads, "udpw") \union LateIn(ads, "tcpw") # {}
  BY <1>3, <1>4 DEF LateIn
<1>14. Pending(h) <=> Pending(ads)
  BY <1>3, <1>4 DEF Pending, SameQueues
<1> HIDE DEF late, done
<1>15. (FirstTimeout(ads) = "now") <=> late \/ Pending(h)
  <2> DEFINE now == LateIn(ads, "udpw") \union LateIn(ads, "tcpw") # {} \/ Pending(ads)
           none == ads.udpw = <<>> /\ ads.tcpw = <<>> /\ ads.tcpstate = "disconnected"
  <2>1. none => ~now
    <3>1. Listed(<<>>) = {}
      BY EmptyQueue DEF QueueFor
    <3>. QED BY <3>1 DEF LateIn, Pending
  <2>2. FirstTimeout(ads) = CASE now -> "now" [] none -> "never" [] OTHER -> "later"
    <3>1. now <=> \/ LateIn(ads, "udpw") \union LateIn(ads, "tcpw") # {}
                  \/ ads.tcpstate = "broken"
                  \/ ads.tcpstate = "disconnected" /\ ads.tcpw # <<>>
                  \/ ads.tcpstate = "connecting" /\ ads.tcptimeout = "past"
                  \/ ads.tcpstate = "ok" /\ ads.tcpw = <<>> /\ ads.tcptimeout = "past"
      BY Zenon DEF Pending
    <3> HIDE DEF now
    <3>. QED BY <2>1, <3>1 DEF FirstTimeout
  <2> HIDE DEF now, none
  <2>3. (FirstTimeout(ads) = "now") <=> now
    BY <2>1, <2>2
  <2>. QED BY <1>13, <1>14, <2>3 DEF now
<1>16. Unfinished # {} => FirstTimeout(ads) # "never"
  <2>1. ASSUME NEW s \in Unfinished PROVE FirstTimeout(ads) # "never"
    <3>1. ads.udpw # <<>> \/ ads.tcpw # <<>>
      BY NeverWhenDone
    <3>. QED BY <3>1, Zenon DEF FirstTimeout
  <2>. QED BY <2>1
<1>17. (FirstTimeout(ads) = "now") <=> (done # ads)
  BY <1>9, <1>11, <1>12, <1>15
<1>. QED BY <1>16, <1>17, Zenon DEF WaitMatchesWork, done, g, h

LEMMA SpecAdnsInv == Spec => []AdnsInv
<1>1. Init => AdnsInv
  BY NothingGood DEF Init, AdnsInv, Ends
<1>. QED BY <1>1, NextAdnsInv, PTL DEF Spec

(* The library and its queries are records of their types whatever the      *)
(* sockets, the servers and the user do: no list or field is ever given     *)
(* what does not belong in it.                                              *)
THEOREM AdnsTypeCorrect == Spec => []AdnsTypeOK
<1>1. AdnsInv => AdnsTypeOK
  BY DEF AdnsInv, AdnsTypeOK, Good, Whole
<1>. QED BY <1>1, SpecAdnsInv, PTL

(* adns_beforeselect tells the caller not to sleep if and only if            *)
(* adns__timeouts has something to do, and never to sleep for ever while a   *)
(* query is unfinished, for any number of queries and servers.               *)
THEOREM AdnsWaitMatchesWork == Spec => []WaitMatchesWork
BY WaitWork, SpecAdnsInv, PTL

(* No call of the library runs into an assertion, uses freed memory or an    *)
(* overwritten pointer, takes a list apart or goes on for ever but in the    *)
(* five situations that AbortsOnlyWhere names, for any number of queries and *)
(* servers: after an answer by TCP to a search, at two children of one query *)
(* that wait for TCP, once a server has sent data before it was asked, when  *)
(* no connection can be made for a query that waits for one, and when the    *)
(* system fails.                                                             *)
THEOREM AdnsAbortsOnlyWhere == Spec => AbortsOnlyWhere
<1>1. AdnsInv /\ [Next]_vars => [Excused]_vars
  BY NextAdnsInv
<1>. QED BY <1>1, SpecAdnsInv, PTL DEF Spec, AbortsOnlyWhere, Excused, Excuse

(* What check.c asserts of queues, families, tries and the connection       *)
(* (Consistent) holds after every call, for any number of queries and       *)
(* servers, whatever the sockets do in a call.                              *)
THEOREM AdnsConsistent == Spec => []Consistent
<1>1. ASSUME AdnsInv PROVE Consistent
  <2>1. /\ Queued(ads, {}) /\ Family(ads.q, {}, {}) /\ Tried(ads.q, {}) /\ Wired(ads, {})
        /\ ads \in States
    BY <1>1 DEF AdnsInv, Good, Whole
  <2>2. Allocated(ads) = Live(ads.q)
    BY DEF Allocated, Live
  <2>3. \A s \in Live(ads.q) : s \in Queries /\ Query(s) = ads.q[s] /\ Query(s) \in QueryRecords
    BY <2>1, LiveFacts DEF Query
  <2>4. \A state \in {"tosend", "tcpw", "childw", "done"} :
          In(ads.q, {}, state) = {s \in Allocated(ads) : QueueOf(Query(s).state) = QueueOf(state)}
    <3>1. \A s \in Live(ads.q) : Query(s).state \in {"tosend", "tcpw", "childw", "done"}
      BY <2>3 DEF QueryRecords
    <3>2. \A a, b \in {"tosend", "tcpw", "childw", "done"} : QueueOf(a) = QueueOf(b) <=> a = b
      BY QueueOfFacts
    <3>. QED BY <2>2, <2>3, <3>1, <3>2 DEF In
  <2>5. InItsQueue
    <3>1. ASSUME NEW list \in {"udpw", "tcpw", "childw", "output"}
          PROVE  /\ IsInjective(ads[list])
                 /\ Listed(ads[list]) = {s \in Allocated(ads) : QueueOf(Query(s).state) = list}
      <4>1. \E state \in {"tosend", "tcpw", "childw", "done"} :
              QueueOf(state) = list /\ QueueFor(ads[list], In(ads.q, {}, state))
        BY <2>1, QueueOfFacts DEF Queued
      <4>. QED BY <2>4, <4>1 DEF QueueFor
    <3>. QED BY <3>1 DEF InItsQueue
  <2>6. Families
    <3>1. ASSUME NEW s \in Allocated(ads)
          PROVE  /\ IsInjective(Query(s).children)
                 /\ Listed(Query(s).children) = {c \in Allocated(ads) : Query(c).parent = s}
                 /\ (Query(s).state = "childw") <=> (Query(s).children # <<>>)
                 /\ Query(s).state = "done" => Query(s).parent = NULL
      <4>1. Member(ads.q, {}, {}, s)
        BY <2>1, <2>2 DEF Family
      <4>2. ChildrenOf(ads.q, s) = {c \in Allocated(ads) : Query(c).parent = s}
        BY <2>2 DEF ChildrenOf, Query
      <4>. QED BY <4>1, <4>2 DEF Member, QueueFor, Query
    <3>. QED BY <3>1 DEF Families
  <2>7. Tries
    BY <2>1 DEF Queued, QueueFor, Tried, Tries, Query
  <2>8. SentWhileConnected
    <3>1. Listed(ads.tcpw) = In(ads.q, {}, "tcpw") /\ In(ads.q, {}, "tcpw") \subseteq Live(ads.q)
      BY <2>1 DEF Queued, QueueFor, In
    <3>2. \A s \in Live(ads.q) : Query(s).sent \in BOOLEAN
      BY <2>3 DEF QueryRecords
    <3>. QED BY <2>1, <3>1, <3>2 DEF Wired, SentWhileConnected, Query
  <2>. QED BY <2>5, <2>6, <2>7, <2>8 DEF Consistent
<1>. QED BY <1>1, SpecAdnsInv, PTL

=============================================================================
