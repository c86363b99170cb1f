------------------------------- MODULE GuiProofs -------------------------------
(*****************************************************************************)
(* Proofs about the GUI.  Requests, for any hosts, ranges, pages and memory, *)
(* any depth of inner loops and any number of lookups: a structure that      *)
(* waits for a name has one keeper, and pages hold the hosts that were asked *)
(* for.  Commands, for any number of commands at once: thread_list is the    *)
(* commands that run.                                                        *)
(*****************************************************************************)
EXTENDS Requests, Commands, SequenceTheorems, FiniteSetTheorems, WellFoundedInduction, TLAPS

(* The places in a sequence of what is in a set. *)
Where(seq, A) == {i \in 1..Len(seq) : seq[i] \in A}
AtMostOne(S)  == \A a, b \in S : a = b

(* Of what long and short hold, e is all that short does not.               *)
Gains(long, short, e, A) ==
  /\ e \notin A => /\ Where(long, A) = {} <=> Where(short, A) = {}
                   /\ AtMostOne(Where(long, A)) <=> AtMostOne(Where(short, A))
  /\ e \in A => /\ Where(long, A) # {}
                /\ AtMostOne(Where(long, A)) <=> Where(short, A) = {}

(* The lookups and dialogs that carry a structure, and the frames of        *)
(* dns_timer.                                                               *)
Carriers(s) == {q \in Query : q.cb # "node" /\ q.data = s}
Dialogs(s)  == {f \in Frame : f.at = "dialog" /\ f.q.data = s}
Timing      == {f \in Frame : f.at \in {"timer", "dialog"}}

(* A structure has one keeper; without one it is free or was left behind.   *)
OneKeeper(list, stk, s) ==
  /\ AtMostOne(Where(list, Carriers(s)))
  /\ AtMostOne(Where(stk, Dialogs(s)))
  /\ Where(list, Carriers(s)) = {} \/ Where(stk, Dialogs(s)) = {}

NoKeeper(list, stk, s) == Where(list, Carriers(s)) = {} /\ Where(stk, Dialogs(s)) = {}

Kept(list, stk, at, s) ==
  /\ OneKeeper(list, stk, s)
  /\ NoKeeper(list, stk, s) => at[s] = Free \/ at[s].end = BadMask
  /\ at[s] = Free => NoKeeper(list, stk, s)

(* The address that a text stands for. *)
HostOf(text) == IF text \in Names THEN Resolve[text] ELSE text

(* A lookup asks for what its callback takes the answer for. *)
Fits(q, d) ==
  /\ d \in Struct /\ d.start \in Text
  /\ q.cb \in {"host", "net", "first"} => q.ask = d.start
  /\ q.cb \in {"first", "last"} => d.end \in Text
  /\ q.cb = "last" => q.ask = d.end /\ d.lo = HostOf(d.start)

QueryFits(q, at) ==
  IF q.cb = "node" THEN q.data \in Objects ELSE q.data \in Structs /\ Fits(q, at[q.data])

(* dns_timer has a lookup of the list, or in its dialog the structure of one.*)
FrameFits(f, list, at) ==
  /\ f.at = "timer" => \E j \in 1..Len(list) : list[j] = f.q
  /\ f.at = "dialog" => /\ f.q.cb # "node" /\ f.q.data \in Structs
                        /\ at[f.q.data] \in Struct /\ at[f.q.data].start \in Text

(* The lookups list, the handlers stk and the structures at fit together,   *)
(* but for the keepers of the structures that are not in T; dns_timer does  *)
(* not run inside of itself.                                                *)
Together(list, stk, at, T) ==
  /\ list \in Seq(Query) /\ stk \in Seq(Frame) /\ at \in [Structs -> Struct \union {Free}]
  /\ \A s \in T : Kept(list, stk, at, s)
  /\ AtMostOne(Where(stk, Timing))
  /\ \A i \in 1..Len(stk) : FrameFits(stk[i], list, at)
  /\ \A i \in 1..Len(list) : QueryFits(list[i], at)

(* The cache has names of the address, or of a network that begins there.   *)
Belongs(ip, name) == ip \in {HostOf(name), Network(HostOf(name))}
CacheBelongs == \A i \in 1..Len(IP_cache) : Belongs(IP_cache[i].ip, IP_cache[i].name)

(* The state beside the structures, lookups and handlers. *)
Tidy ==
  /\ dns_timer_int \in BOOLEAN /\ LookupsAreTimed
  /\ IP_cache \in Seq([ip : Nat, name : Text]) /\ CacheBelongs
  /\ \A m \in sent : m.type \in {"discover", "map"} /\ m.np \in Pages

(* The pages. *)
PagesTidy ==
  /\ open \subseteq Pages /\ objects \in [Objects -> Object \union {Free}]
  /\ links \subseteq SUBSET Objects /\ options \subseteq {"map", "reverse"}
  /\ PagesHoldHosts /\ NamesBelong

IInv ==
  /\ Together(dns_query_list, stack, structs, Structs)
  /\ Tidy
  /\ PagesTidy

-----------------------------------------------------------------------------
(* Sequences. *)

LEMMA PrependProperties ==
  ASSUME NEW S, NEW q \in Seq(S), NEW e \in S
  PROVE  /\ <<e>> \o q \in Seq(S) /\ Len(<<e>> \o q) = Len(q) + 1
         /\ (<<e>> \o q)[1] = e
         /\ \A i \in 1..Len(q) : (<<e>> \o q)[i + 1] = q[i]
<1>1. Len(q) \in Nat
  BY LenProperties
<1>2. <<e>> \in Seq(S) /\ Len(<<e>>) = 1 /\ <<e>>[1] = e
  OBVIOUS
<1>3. /\ <<e>> \o q \in Seq(S) /\ Len(<<e>> \o q) = 1 + Len(q)
      /\ \A i \in 1..(1 + Len(q)) : (<<e>> \o q)[i] = IF i <= 1 THEN <<e>>[i] ELSE q[i - 1]
  BY <1>2, ConcatProperties
<1>. QED BY <1>1, <1>2, <1>3

LEMMA TailProperties ==
  ASSUME NEW S, NEW q \in Seq(S), q # <<>>
  PROVE  /\ q[1] \in S /\ Tail(q) \in Seq(S)
         /\ Len(Tail(q)) \in Nat /\ Len(q) = Len(Tail(q)) + 1
         /\ \A i \in 1..Len(Tail(q)) : q[i + 1] = Tail(q)[i]
<1>1. Len(q) \in Nat \ {0}
  BY EmptySeq, LenProperties
<1>2. Tail(q) \in Seq(S) /\ Len(Tail(q)) = Len(q) - 1
      /\ \A i \in 1..Len(Tail(q)) : Tail(q)[i] = q[i + 1]
  BY HeadTailProperties
<1>3. q[1] \in S
  BY <1>1, ElementOfSeq
<1>. QED BY <1>1, <1>2, <1>3

(* Removing place k shifts the elements after k down by one. *)
LEMMA RemoveAtProperties ==
  ASSUME NEW S, NEW q \in Seq(S), NEW k \in 1..Len(q)
  PROVE  /\ RemoveAt(q, k) \in Seq(S)
         /\ Len(RemoveAt(q, k)) = Len(q) - 1
         /\ \A i \in 1..(Len(q) - 1) :
              RemoveAt(q, k)[i] = IF i < k THEN q[i] ELSE q[i + 1]
<1> DEFINE a == SubSeq(q, 1, k - 1)
           b == SubSeq(q, k + 1, Len(q))
<1>1. Len(q) \in Nat /\ k \in Nat
  BY LenProperties
<1>2. /\ a \in Seq(S) /\ Len(a) = k - 1
      /\ \A i \in 1..(k - 1) : a[i] = q[i]
  BY <1>1, SubSeqProperties
<1>3. /\ b \in Seq(S) /\ Len(b) = Len(q) - k
      /\ \A i \in 1..(Len(q) - k) : b[i] = q[k + i]
  BY <1>1, SubSeqProperties
<1> HIDE DEF a, b
<1>4. RemoveAt(q, k) = a \o b
  BY DEF RemoveAt, a, b
<1>5. /\ a \o b \in Seq(S) /\ Len(a \o b) = Len(q) - 1
      /\ \A i \in 1..(Len(q) - 1) : (a \o b)[i] = IF i <= k - 1 THEN a[i] ELSE b[i - (k - 1)]
  <2>1. Len(a) + Len(b) = Len(q) - 1
    BY <1>1, <1>2, <1>3
  <2>2. /\ a \o b \in Seq(S) /\ Len(a \o b) = Len(a) + Len(b)
        /\ \A i \in 1..(Len(a) + Len(b)) :
             (a \o b)[i] = IF i <= Len(a) THEN a[i] ELSE b[i - Len(a)]
    BY <1>2, <1>3, ConcatProperties
  <2>. QED BY <1>2, <2>1, <2>2, Zenon
<1>6. ASSUME NEW i \in 1..(Len(q) - 1)
      PROVE (a \o b)[i] = IF i < k THEN q[i] ELSE q[i + 1]
  <2>1. CASE i < k
    BY <1>1, <1>2, <1>5, <2>1
  <2>2. CASE i >= k
    <3>1. i - (k - 1) \in 1..(Len(q) - k) /\ k + (i - (k - 1)) = i + 1
      BY <1>1, <2>2
    <3>2. b[i - (k - 1)] = q[i + 1]
      BY <1>3, <3>1
    <3>. QED BY <1>1, <1>5, <2>2, <3>2
  <2>3. i < k \/ i >= k
    BY <1>1
  <2>. QED BY <2>1, <2>2, <2>3, Zenon
<1>. QED BY <1>4, <1>5, <1>6

(* Some natural number of a set of them is the least. *)
LEMMA LeastNat ==
  ASSUME NEW T, T \subseteq Nat, T # {}
  PROVE  \E m \in T : \A n \in T : m <= n
<1>1. \E m \in T : \A n \in T : ~(<<n, m>> \in OpToRel(<, Nat))
  BY NatLessThanWellFounded, WFMin
<1>2. PICK m \in T : \A n \in T : ~(<<n, m>> \in OpToRel(<, Nat))
  BY <1>1
<1>3. ASSUME NEW n \in T
      PROVE  m <= n
  <2>1. <<n, m>> \in Nat \X Nat /\ <<n, m>>[1] = n /\ <<n, m>>[2] = m
    OBVIOUS
  <2>2. OpToRel(<, Nat) = {ss \in Nat \X Nat : ss[1] < ss[2]}
    BY DEF OpToRel
  <2>3. n < m => <<n, m>> \in OpToRel(<, Nat)
    BY <2>1, <2>2
  <2>4. ~(n < m)
    BY <1>2, <2>3, Zenon
  <2>5. m \in Nat /\ n \in Nat
    OBVIOUS
  <2>. QED BY <2>4, <2>5
<1>. QED BY <1>3

(* RemoveFirst takes e out at one of its places. *)
LEMMA RemoveFirstIsRemoveAt ==
  ASSUME NEW S, NEW q \in Seq(S), NEW e, \E i \in 1..Len(q) : q[i] = e
  PROVE  \E k \in 1..Len(q) : q[k] = e /\ RemoveFirst(q, e) = RemoveAt(q, k)
<1> DEFINE I == {i \in 1..Len(q) : q[i] = e}
<1>1. I # {} /\ I \subseteq Nat
  OBVIOUS
<1>2. \E m \in I : \A n \in I : m <= n
  BY <1>1, LeastNat
<1>3. Min(I) \in I
  BY <1>2 DEF Min
<1>4. SelectInSeq(q, LAMBDA v : v = e) = Min(I)
  BY <1>1 DEF SelectInSeq
<1>. QED BY <1>3, <1>4 DEF RemoveFirst

(* An element that is put in front, or taken out, is all that is gained or  *)
(* lost.                                                                    *)
LEMMA ShiftGains ==
  ASSUME NEW long, NEW short, NEW e, NEW A, NEW n \in Nat, NEW k \in 1..(n + 1),
         Len(long) = n + 1, Len(short) = n, long[k] = e,
         \A i \in 1..n : short[i] = long[IF i < k THEN i ELSE i + 1]
  PROVE  Gains(long, short, e, A)
<1> DEFINE to(i) == IF i < k THEN i ELSE i + 1
           W == Where(long, A)
           V == Where(short, A)
<1>1. \A i \in V : to(i) \in W /\ to(i) # k
  BY DEF Where
<1>2. \A i \in W : i # k => \E j \in V : i = to(j)
  <2>1. ASSUME NEW i \in W, i # k
        PROVE  \E j \in V : i = to(j)
    <3>1. CASE i < k
      BY <2>1, <3>1 DEF Where
    <3>2. CASE i > k
      <4>1. i - 1 \in 1..n /\ ~(i - 1 < k) /\ (i - 1) + 1 = i
        BY <2>1, <3>2 DEF Where
      <4>2. i - 1 \in V
        BY <2>1, <4>1 DEF Where
      <4>. QED BY <4>1, <4>2
    <3>. QED BY <2>1, <3>1, <3>2 DEF Where
  <2>. QED BY <2>1
<1>3. \A i, j \in V : to(i) = to(j) => i = j
  BY DEF Where
<1>4. k \in W <=> e \in A
  BY DEF Where
<1> HIDE DEF to, W, V
<1>5. e \notin A => (W = {} <=> V = {}) /\ (AtMostOne(W) <=> AtMostOne(V))
  BY <1>1, <1>2, <1>3, <1>4 DEF AtMostOne
<1>6. e \in A => W # {} /\ (AtMostOne(W) <=> V = {})
  BY <1>1, <1>2, <1>3, <1>4 DEF AtMostOne
<1>. QED BY <1>5, <1>6 DEF Gains, W, V

LEMMA PrependGains ==
  ASSUME NEW S, NEW q \in Seq(S), NEW e \in S, NEW A
  PROVE  Gains(<<e>> \o q, q, e, A)
<1>1. Len(q) \in Nat
  BY LenProperties
<1> DEFINE long == <<e>> \o q
<1>2. /\ Len(long) = Len(q) + 1 /\ long[1] = e
      /\ \A i \in 1..Len(q) : q[i] = long[IF i < 1 THEN i ELSE i + 1]
  BY <1>1, PrependProperties
<1> HIDE DEF long
<1>3. 1 \in 1..(Len(q) + 1)
  BY <1>1
<1>4. Gains(long, q, e, A)
  BY <1>1, <1>2, <1>3, ShiftGains
<1>. QED BY <1>4 DEF long

LEMMA TailGains ==
  ASSUME NEW S, NEW q \in Seq(S), q # <<>>, NEW A
  PROVE  Gains(q, Tail(q), q[1], A)
<1>1. /\ Len(Tail(q)) \in Nat /\ Len(q) = Len(Tail(q)) + 1
      /\ \A i \in 1..Len(Tail(q)) : Tail(q)[i] = q[IF i < 1 THEN i ELSE i + 1]
  BY TailProperties
<1>2. 1 \in 1..(Len(Tail(q)) + 1)
  BY <1>1
<1>. QED BY <1>1, <1>2, ShiftGains

LEMMA RemoveAtGains ==
  ASSUME NEW S, NEW q \in Seq(S), NEW k \in 1..Len(q), NEW A
  PROVE  Gains(q, RemoveAt(q, k), q[k], A)
<1>1. Len(q) - 1 \in Nat /\ Len(q) = (Len(q) - 1) + 1
  BY LenProperties
<1>2. /\ Len(RemoveAt(q, k)) = Len(q) - 1
      /\ \A i \in 1..(Len(q) - 1) : RemoveAt(q, k)[i] = q[IF i < k THEN i ELSE i + 1]
  BY RemoveAtProperties
<1>. QED BY <1>1, <1>2, ShiftGains

-----------------------------------------------------------------------------
(* Lookups, frames and structures stay together. *)

(* A lookup, or a frame, that does not carry s makes no difference to s.    *)
LEMMA OthersKeep ==
  ASSUME NEW list, NEW stk, NEW fresh, NEW e, NEW at, NEW s
  PROVE  /\ Gains(fresh, list, e, Carriers(s)) /\ e \notin Carriers(s) =>
              /\ Kept(fresh, stk, at, s) <=> Kept(list, stk, at, s)
              /\ NoKeeper(fresh, stk, s) <=> NoKeeper(list, stk, s)
         /\ Gains(fresh, stk, e, Dialogs(s)) /\ e \notin Dialogs(s) =>
              /\ Kept(list, fresh, at, s) <=> Kept(list, stk, at, s)
              /\ NoKeeper(list, fresh, s) <=> NoKeeper(list, stk, s)
BY DEF Gains, Kept, OneKeeper, NoKeeper

(* A lookup that waits for itself only. *)
LEMMA PushedNode ==
  ASSUME NEW list, NEW stk, NEW at, NEW T, Together(list, stk, at, T),
         NEW q \in Query, q.cb = "node", q.data \in Objects
  PROVE  Together(<<q>> \o list, stk, at, T)
<1> DEFINE fresh == <<q>> \o list
<1>1. list \in Seq(Query) /\ Len(list) \in Nat
  BY LenProperties DEF Together
<1>2. /\ fresh \in Seq(Query) /\ Len(fresh) = Len(list) + 1 /\ fresh[1] = q
      /\ \A i \in 1..Len(list) : fresh[i + 1] = list[i]
  BY <1>1, PrependProperties
<1>3. \A s \in T : Kept(fresh, stk, at, s)
  <2>1. ASSUME NEW s \in T
        PROVE  Kept(fresh, stk, at, s)
    <3>1. Gains(fresh, list, q, Carriers(s)) /\ q \notin Carriers(s)
      BY <1>1, PrependGains DEF Carriers
    <3>. QED BY <3>1, OthersKeep DEF Together
  <2>. QED BY <2>1
<1> HIDE DEF fresh
<1>4. \A i \in 1..Len(fresh) : QueryFits(fresh[i], at)
  <2>1. ASSUME NEW i \in 1..Len(fresh), i # 1
        PROVE  i - 1 \in 1..Len(list) /\ fresh[i] = list[i - 1]
    <3>1. i - 1 \in 1..Len(list) /\ (i - 1) + 1 = i
      BY <1>1, <1>2, <2>1
    <3>. QED BY <1>2, <3>1
  <2>2. QueryFits(q, at)
    BY DEF QueryFits
  <2>. QED BY <1>2, <2>1, <2>2 DEF Together
<1>5. \A i \in 1..Len(stk) : FrameFits(stk[i], fresh, at)
  <2>1. \A j \in 1..Len(list) : j + 1 \in 1..Len(fresh) /\ fresh[j + 1] = list[j]
    BY <1>1, <1>2
  <2>. QED BY <2>1 DEF Together, FrameFits
<1>. QED BY <1>2, <1>3, <1>4, <1>5 DEF Together, fresh

(* A lookup that carries s, which nothing kept. *)
LEMMA PushedCarrier ==
  ASSUME NEW list, NEW stk, NEW at, NEW s \in Structs,
         Together(list, stk, at, Structs \ {s}), NoKeeper(list, stk, s),
         NEW q \in Query, q.cb # "node", q.data = s,
         NEW d \in Struct, Fits(q, d)
  PROVE  Together(<<q>> \o list, stk, [at EXCEPT ![s] = d], Structs)
<1> DEFINE fresh == <<q>> \o list
           to  == [at EXCEPT ![s] = d]
<1>1. list \in Seq(Query) /\ Len(list) \in Nat
  BY LenProperties DEF Together
<1>2. /\ fresh \in Seq(Query) /\ Len(fresh) = Len(list) + 1 /\ fresh[1] = q
      /\ \A i \in 1..Len(list) : fresh[i + 1] = list[i]
  BY <1>1, PrependProperties
<1>3. /\ to \in [Structs -> Struct \union {Free}] /\ to[s] = d
      /\ \A t \in Structs \ {s} : to[t] = at[t]
  BY DEF Together
<1>4. \A A : Gains(fresh, list, q, A)
  BY <1>1, PrependGains
<1> HIDE DEF fresh, to
<1>5. \A t \in Structs \ {s} : Kept(fresh, stk, to, t)
  <2>1. ASSUME NEW t \in Structs \ {s}
        PROVE  Kept(fresh, stk, to, t)
    <3>1. Gains(fresh, list, q, Carriers(t)) /\ q \notin Carriers(t)
      BY <1>4 DEF Carriers
    <3>2. Kept(fresh, stk, at, t)
      BY <3>1, OthersKeep DEF Together
    <3>. QED BY <1>3, <3>2 DEF Kept
  <2>. QED BY <2>1
<1>6. Kept(fresh, stk, to, s)
  <2>1. Gains(fresh, list, q, Carriers(s)) /\ q \in Carriers(s)
    BY <1>4 DEF Carriers
  <2>2. d # Free
    BY RequestsAssumption
  <2>. QED BY <1>3, <2>1, <2>2 DEF Kept, OneKeeper, NoKeeper, Gains, AtMostOne
<1>7. \A i \in 1..Len(fresh) : QueryFits(fresh[i], to)
  <2>1. ASSUME NEW i \in 1..Len(fresh), i # 1
        PROVE  QueryFits(fresh[i], to)
    <3>1. i - 1 \in 1..Len(list) /\ (i - 1) + 1 = i
      BY <1>1, <1>2, <2>1
    <3>2. fresh[i] = list[i - 1]
      BY <1>2, <3>1
    <3>3. list[i - 1] \in Query /\ list[i - 1] \notin Carriers(s)
      BY <1>1, <3>1, ElementOfSeq DEF NoKeeper, Where
    <3>. QED BY <1>3, <3>1, <3>2, <3>3 DEF Together, QueryFits, Carriers
  <2>2. QueryFits(q, to)
    BY <1>3 DEF QueryFits
  <2>. QED BY <1>2, <2>1, <2>2
<1>8. \A i \in 1..Len(stk) : FrameFits(stk[i], fresh, to)
  <2>1. \A j \in 1..Len(list) : j + 1 \in 1..Len(fresh) /\ fresh[j + 1] = list[j]
    BY <1>1, <1>2
  <2>2. ASSUME NEW i \in 1..Len(stk)
        PROVE  stk[i] \in Frame /\ stk[i] \notin Dialogs(s)
    BY ElementOfSeq DEF Together, NoKeeper, Where
  <2>. QED BY <1>3, <2>1, <2>2 DEF Together, FrameFits, Dialogs
<1>9. \A t \in Structs : Kept(fresh, stk, to, t)
  BY <1>5, <1>6
<1>. QED BY <1>2, <1>3, <1>7, <1>8, <1>9 DEF Together, fresh, to

(* s, which nothing keeps, becomes free or is left behind. *)
LEMMA LetGo ==
  ASSUME NEW list, NEW stk, NEW at, NEW s \in Structs,
         Together(list, stk, at, Structs \ {s}), NoKeeper(list, stk, s),
         NEW d \in Struct \union {Free}, d = Free \/ d.end = BadMask
  PROVE  Together(list, stk, [at EXCEPT ![s] = d], Structs)
<1> DEFINE to == [at EXCEPT ![s] = d]
<1>1. /\ to \in [Structs -> Struct \union {Free}] /\ to[s] = d
      /\ \A t \in Structs \ {s} : to[t] = at[t]
  BY DEF Together
<1> HIDE DEF to
<1>2. \A t \in Structs : Kept(list, stk, to, t)
  <2>1. \A t \in Structs \ {s} : Kept(list, stk, to, t)
    BY <1>1 DEF Together, Kept
  <2>2. Kept(list, stk, to, s)
    BY <1>1 DEF Kept, OneKeeper, NoKeeper, AtMostOne
  <2>. QED BY <2>1, <2>2
<1>3. \A i \in 1..Len(list) : QueryFits(list[i], to)
  <2>1. ASSUME NEW i \in 1..Len(list)
        PROVE  list[i] \in Query /\ list[i] \notin Carriers(s)
    BY ElementOfSeq DEF Together, NoKeeper, Where
  <2>. QED BY <1>1, <2>1 DEF Together, QueryFits, Carriers
<1>4. \A i \in 1..Len(stk) : FrameFits(stk[i], list, to)
  <2>1. ASSUME NEW i \in 1..Len(stk)
        PROVE  stk[i] \in Frame /\ stk[i] \notin Dialogs(s)
    BY ElementOfSeq DEF Together, NoKeeper, Where
  <2>. QED BY <1>1, <2>1 DEF Together, FrameFits, Dialogs
<1>. QED BY <1>1, <1>2, <1>3, <1>4 DEF Together, to

(* A free structure has no keeper. *)
LEMMA FreeIsUnkept ==
  ASSUME NEW list, NEW stk, NEW at, NEW s \in Structs,
         Together(list, stk, at, Structs), at[s] = Free
  PROVE  Together(list, stk, at, Structs \ {s}) /\ NoKeeper(list, stk, s)
BY DEF Together, Kept

(* The stack, one frame longer. *)
LEMMA PushedFrame ==
  ASSUME NEW list, NEW stk, NEW at, NEW T, Together(list, stk, at, T),
         NEW f \in Frame, f.at # "dialog",
         f.at = "timer" => /\ Where(stk, Timing) = {}
                           /\ \E j \in 1..Len(list) : list[j] = f.q
  PROVE  Together(list, <<f>> \o stk, at, T)
<1> DEFINE fresh == <<f>> \o stk
<1>1. stk \in Seq(Frame) /\ Len(stk) \in Nat
  BY LenProperties DEF Together
<1>2. /\ fresh \in Seq(Frame) /\ Len(fresh) = Len(stk) + 1 /\ fresh[1] = f
      /\ \A i \in 1..Len(stk) : fresh[i + 1] = stk[i]
  BY <1>1, PrependProperties
<1>3. \A s \in T : Kept(list, fresh, at, s)
  <2>1. ASSUME NEW s \in T
        PROVE  Kept(list, fresh, at, s)
    <3>1. Gains(fresh, stk, f, Dialogs(s)) /\ f \notin Dialogs(s)
      BY <1>1, PrependGains DEF Dialogs
    <3>. QED BY <3>1, OthersKeep DEF Together
  <2>. QED BY <2>1
<1>4. AtMostOne(Where(fresh, Timing))
  <2>1. Gains(fresh, stk, f, Timing)
    BY <1>1, PrependGains
  <2>2. f \in Timing => Where(stk, Timing) = {}
    BY DEF Timing
  <2>. QED BY <2>1, <2>2 DEF Together, Gains
<1> HIDE DEF fresh
<1>5. \A i \in 1..Len(fresh) : FrameFits(fresh[i], list, at)
  <2>1. ASSUME NEW i \in 1..Len(fresh), i # 1
        PROVE  i - 1 \in 1..Len(stk) /\ fresh[i] = stk[i - 1]
    <3>1. i - 1 \in 1..Len(stk) /\ (i - 1) + 1 = i
      BY <1>1, <1>2, <2>1
    <3>. QED BY <1>2, <3>1
  <2>2. FrameFits(f, list, at)
    BY DEF FrameFits
  <2>. QED BY <1>2, <2>1, <2>2 DEF Together
<1>. QED BY <1>2, <1>3, <1>4, <1>5 DEF Together, fresh

(* The dialog for s, which nothing kept. *)
LEMMA PushedDialog ==
  ASSUME NEW list, NEW stk, NEW at, NEW s \in Structs,
         Together(list, stk, at, Structs \ {s}), NoKeeper(list, stk, s),
         at[s] \in Struct, at[s].start \in Text,
         NEW f \in Frame, f.at = "dialog", f.q.cb # "node", f.q.data = s,
         Where(stk, Timing) = {}
  PROVE  Together(list, <<f>> \o stk, at, Structs)
<1> DEFINE fresh == <<f>> \o stk
<1>1. stk \in Seq(Frame) /\ Len(stk) \in Nat
  BY LenProperties DEF Together
<1>2. /\ fresh \in Seq(Frame) /\ Len(fresh) = Len(stk) + 1 /\ fresh[1] = f
      /\ \A i \in 1..Len(stk) : fresh[i + 1] = stk[i]
  BY <1>1, PrependProperties
<1>3. \A A : Gains(fresh, stk, f, A)
  BY <1>1, PrependGains
<1> HIDE DEF fresh
<1>4. \A t \in Structs \ {s} : Kept(list, fresh, at, t)
  <2>1. ASSUME NEW t \in Structs \ {s}
        PROVE  Kept(list, fresh, at, t)
    <3>1. Gains(fresh, stk, f, Dialogs(t)) /\ f \notin Dialogs(t)
      BY <1>3 DEF Dialogs
    <3>. QED BY <3>1, OthersKeep DEF Together
  <2>. QED BY <2>1
<1>5. Kept(list, fresh, at, s)
  <2>1. Gains(fresh, stk, f, Dialogs(s)) /\ f \in Dialogs(s)
    BY <1>3 DEF Dialogs
  <2>2. at[s] # Free
    BY RequestsAssumption
  <2>. QED BY <2>1, <2>2 DEF Kept, OneKeeper, NoKeeper, Gains, AtMostOne
<1>6. AtMostOne(Where(fresh, Timing))
  <2>1. Gains(fresh, stk, f, Timing) /\ f \in Timing
    BY <1>3 DEF Timing
  <2>. QED BY <2>1 DEF Gains
<1>7. \A i \in 1..Len(fresh) : FrameFits(fresh[i], list, at)
  <2>1. ASSUME NEW i \in 1..Len(fresh), i # 1
        PROVE  i - 1 \in 1..Len(stk) /\ fresh[i] = stk[i - 1]
    <3>1. i - 1 \in 1..Len(stk) /\ (i - 1) + 1 = i
      BY <1>1, <1>2, <2>1
    <3>. QED BY <1>2, <3>1
  <2>2. FrameFits(f, list, at)
    BY DEF FrameFits
  <2>. QED BY <1>2, <2>1, <2>2 DEF Together
<1>8. \A t \in Structs : Kept(list, fresh, at, t)
  BY <1>4, <1>5
<1>. QED BY <1>2, <1>6, <1>7, <1>8 DEF Together, fresh

(* The innermost frame goes.  If it was one of dns_timer no other is; with  *)
(* a dialog its structure is unkept.                                        *)
LEMMA PoppedFrame ==
  ASSUME NEW list, NEW stk, NEW at, Together(list, stk, at, Structs), stk # <<>>
  PROVE  /\ stk[1] \in Frame
         /\ FrameFits(stk[1], list, at)
         /\ stk[1].at \in {"timer", "dialog"} => Where(Tail(stk), Timing) = {}
         /\ stk[1].at # "dialog" => Together(list, Tail(stk), at, Structs)
         /\ stk[1].at = "dialog" =>
              LET s == stk[1].q.data
              IN  s \in Structs /\ Together(list, Tail(stk), at, Structs \ {s})
                  /\ NoKeeper(list, Tail(stk), s)
<1> DEFINE f == stk[1]
           fresh == Tail(stk)
<1>1. stk \in Seq(Frame) /\ Len(stk) \in Nat
  BY LenProperties DEF Together
<1>2. /\ f \in Frame /\ fresh \in Seq(Frame) /\ Len(fresh) \in Nat /\ Len(stk) = Len(fresh) + 1
      /\ \A i \in 1..Len(fresh) : stk[i + 1] = fresh[i]
  BY <1>1, TailProperties
<1>3. \A A : Gains(stk, fresh, f, A)
  BY <1>1, TailGains
<1>4. 1 \in 1..Len(stk) /\ \A i \in 1..Len(fresh) : i + 1 \in 1..Len(stk)
  BY <1>2
<1>5. FrameFits(f, list, at) /\ \A i \in 1..Len(fresh) : FrameFits(fresh[i], list, at)
  BY <1>2, <1>4 DEF Together
<1> HIDE DEF fresh, f
<1>6. AtMostOne(Where(fresh, Timing)) /\ (f \in Timing => Where(fresh, Timing) = {})
  BY <1>3 DEF Together, Gains, AtMostOne
<1>7. ASSUME NEW s \in Structs, f \notin Dialogs(s)
      PROVE  Kept(list, fresh, at, s)
  <2>1. Gains(stk, fresh, f, Dialogs(s)) /\ Kept(list, stk, at, s)
    BY <1>3 DEF Together
  <2>. QED BY <1>7, <2>1, OthersKeep
<1>8. CASE f.at # "dialog"
  <2>1. \A s \in Structs : Kept(list, fresh, at, s)
    BY <1>7, <1>8 DEF Dialogs
  <2>2. Together(list, fresh, at, Structs)
    BY <1>2, <1>5, <1>6, <2>1 DEF Together
  <2>. QED BY <1>2, <1>5, <1>6, <1>8, <2>2 DEF Timing, f, fresh
<1>9. CASE f.at = "dialog"
  <2> DEFINE s == f.q.data
  <2>1. s \in Structs
    BY <1>5, <1>9 DEF FrameFits
  <2>2. \A t \in Structs \ {s} : Kept(list, fresh, at, t)
    BY <1>7 DEF Dialogs
  <2>3. Together(list, fresh, at, Structs \ {s})
    BY <1>2, <1>5, <1>6, <2>2 DEF Together
  <2>4. Gains(stk, fresh, f, Dialogs(s)) /\ f \in Dialogs(s) /\ Kept(list, stk, at, s)
    BY <1>2, <1>3, <1>9, <2>1 DEF Together, Dialogs
  <2>5. NoKeeper(list, fresh, s)
    BY <2>4 DEF Kept, OneKeeper, NoKeeper, Gains
  <2>. QED BY <1>2, <1>5, <1>6, <1>9, <2>1, <2>3, <2>5 DEF Timing, f, fresh
<1>. QED BY <1>8, <1>9

(* A lookup is taken off the list, where no frame waits for one.            *)
LEMMA TakenOff ==
  ASSUME NEW list, NEW stk, NEW at, Together(list, stk, at, Structs),
         NEW q, \E j \in 1..Len(list) : list[j] = q, Where(stk, Timing) = {}
  PROVE  /\ q \in Query /\ QueryFits(q, at)
         /\ q.cb = "node" => Together(RemoveFirst(list, q), stk, at, Structs)
         /\ q.cb # "node" =>
              /\ q.data \in Structs /\ Fits(q, at[q.data])
              /\ Together(RemoveFirst(list, q), stk, at, Structs \ {q.data})
              /\ NoKeeper(RemoveFirst(list, q), stk, q.data)
<1>1. list \in Seq(Query) /\ Len(list) \in Nat /\ stk \in Seq(Frame)
  BY LenProperties DEF Together
<1>2. PICK k \in 1..Len(list) : list[k] = q /\ RemoveFirst(list, q) = RemoveAt(list, k)
  BY <1>1, RemoveFirstIsRemoveAt
<1> DEFINE fresh == RemoveAt(list, k)
<1>3. /\ fresh \in Seq(Query) /\ Len(fresh) = Len(list) - 1
      /\ \A i \in 1..(Len(list) - 1) : fresh[i] = IF i < k THEN list[i] ELSE list[i + 1]
  BY <1>1, RemoveAtProperties
<1>4. \A A : Gains(list, fresh, q, A)
  BY <1>1, <1>2, RemoveAtGains
<1>5. q \in Query /\ QueryFits(q, at)
  <2>1. list[k] \in Query
    BY <1>1, ElementOfSeq
  <2>. QED BY <1>2, <2>1 DEF Together
<1> HIDE DEF fresh
<1>6. \A i \in 1..Len(fresh) : QueryFits(fresh[i], at)
  <2>1. ASSUME NEW i \in 1..Len(fresh)
        PROVE  \E j \in 1..Len(list) : fresh[i] = list[j]
    <3>1. i \in 1..(Len(list) - 1) /\ i \in 1..Len(list) /\ i + 1 \in 1..Len(list)
      BY <1>1, <1>3, <2>1
    <3>. QED BY <1>3, <3>1
  <2>. QED BY <2>1 DEF Together
<1>7. \A i \in 1..Len(stk) : FrameFits(stk[i], fresh, at)
  <2>1. ASSUME NEW i \in 1..Len(stk)
        PROVE  stk[i] \in Frame /\ stk[i] \notin Timing
    BY <1>1, ElementOfSeq DEF Where
  <2>. QED BY <2>1 DEF FrameFits, Timing
<1>8. ASSUME NEW s \in Structs, q \notin Carriers(s)
      PROVE  Kept(fresh, stk, at, s)
  <2>1. Gains(list, fresh, q, Carriers(s)) /\ Kept(list, stk, at, s)
    BY <1>4 DEF Together
  <2>. QED BY <1>8, <2>1, OthersKeep
<1>9. CASE q.cb = "node"
  <2>1. \A s \in Structs : Kept(fresh, stk, at, s)
    BY <1>8, <1>9 DEF Carriers
  <2>2. Together(fresh, stk, at, Structs)
    BY <1>3, <1>6, <1>7, <2>1 DEF Together
  <2>. QED BY <1>2, <1>5, <1>9, <2>2 DEF fresh
<1>10. CASE q.cb # "node"
  <2> DEFINE s == q.data
  <2>1. s \in Structs /\ Fits(q, at[s])
    BY <1>5, <1>10 DEF QueryFits
  <2>2. \A t \in Structs \ {s} : Kept(fresh, stk, at, t)
    BY <1>8 DEF Carriers
  <2>3. Together(fresh, stk, at, Structs \ {s})
    BY <1>3, <1>6, <1>7, <2>2 DEF Together
  <2>4. Gains(list, fresh, q, Carriers(s)) /\ q \in Carriers(s) /\ Kept(list, stk, at, s)
    BY <1>4, <1>5, <1>10, <2>1 DEF Together, Carriers
  <2>5. NoKeeper(fresh, stk, s)
    BY <2>4 DEF Kept, OneKeeper, NoKeeper, Gains
  <2>. QED BY <1>2, <1>5, <1>10, <2>1, <2>3, <2>5 DEF fresh
<1>. QED BY <1>9, <1>10

-----------------------------------------------------------------------------
(* What a lookup leads to. *)

(* The callback cb can take ip for what d was asked for. *)
CallbackFits(cb, d, ip) ==
  /\ d \in Struct
  /\ cb \in {"host", "net"} => d.start = None \/ (d.start \in Text /\ HostOf(d.start) = ip)
  /\ cb \in {"first", "last"} => d.start \in Text /\ d.end \in Text
  /\ cb = "first" => HostOf(d.start) = ip
  /\ cb = "last" => d.lo = HostOf(d.start) /\ HostOf(d.end) = ip

(* dns may be taken for the lookups when s has no other keeper. *)
Loose(dns, stk, s) ==
  /\ Together(dns.list, stk, structs, Structs \ {s})
  /\ NoKeeper(dns.list, stk, s)
  /\ dns.timer \in BOOLEAN /\ (dns.list # <<>> => dns.timer)

LEMMA HostProperties ==
  ASSUME NEW ip \in Addrs
  PROVE  ip \in Nat /\ Network(ip) \in Nat /\ HostOf(ip) = ip /\ ip \in Text
<1>1. ip \in Nat /\ ip \notin Names
  BY RequestsAssumption
<1>2. NetSize \in Nat /\ NetSize > 0
  BY RequestsAssumption
<1>3. ip % NetSize \in Nat /\ ip % NetSize <= ip
  BY <1>1, <1>2
<1>. QED BY <1>1, <1>3 DEF Network, HostOf, Text

(* What is sent and remembered, and the structure that is freed. *)
LEMMA SentTidily ==
  ASSUME Tidy, NEW stk, NEW dns, NEW s \in Structs, Loose(dns, stk, s),
         NEW d, d.np \in Pages,
         d.start # None => d.lo \in Nat /\ d.start \in Text /\ Belongs(d.lo, d.start),
         send_discover_request(s, d), NoLookup(dns)
  PROVE  Together(dns_query_list', stk, structs', Structs) /\ Tidy'
<1>1. Together(dns.list, stk, [structs EXCEPT ![s] = Free], Structs)
  BY LetGo DEF Loose
<1>2. dns_query_list' = dns.list /\ structs' = [structs EXCEPT ![s] = Free]
  BY DEF NoLookup, send_discover_request
<1>3. dns_timer_int' \in BOOLEAN /\ LookupsAreTimed'
  BY DEF NoLookup, Loose, LookupsAreTimed
<1>4. \A m \in sent' : m.type \in {"discover", "map"} /\ m.np \in Pages
  BY DEF send_discover_request, Agent, Tidy
<1>5. IP_cache' \in Seq([ip : Nat, name : Text]) /\ CacheBelongs'
  <2>1. CASE d.start = None
    BY <2>1 DEF send_discover_request, Tidy, CacheBelongs
  <2>2. CASE d.start # None
    <3> DEFINE e == [ip |-> d.lo, name |-> d.start]
    <3>1. e \in [ip : Nat, name : Text] /\ Belongs(e.ip, e.name)
      BY <2>2
    <3>2. IP_cache' = <<e>> \o IP_cache
      BY <2>2 DEF send_discover_request
    <3> HIDE DEF e
    <3>3. /\ IP_cache' \in Seq([ip : Nat, name : Text])
          /\ Len(IP_cache') = Len(IP_cache) + 1 /\ IP_cache'[1] = e
          /\ \A i \in 1..Len(IP_cache) : IP_cache'[i + 1] = IP_cache[i]
          /\ Len(IP_cache) \in Nat
      BY <3>1, <3>2, PrependProperties, LenProperties DEF Tidy
    <3>4. \A i \in 1..Len(IP_cache') : Belongs(IP_cache'[i].ip, IP_cache'[i].name)
      <4>1. ASSUME NEW i \in 1..Len(IP_cache'), i # 1
            PROVE  i - 1 \in 1..Len(IP_cache) /\ IP_cache'[i] = IP_cache[i - 1]
        <5>1. i - 1 \in 1..Len(IP_cache) /\ (i - 1) + 1 = i
          BY <3>3, <4>1
        <5>. QED BY <3>3, <5>1
      <4>. QED BY <3>1, <3>3, <4>1 DEF Tidy, CacheBelongs
    <3>. QED BY <3>3, <3>4 DEF CacheBelongs
  <2>. QED BY <2>1, <2>2
<1>. QED BY <1>1, <1>2, <1>3, <1>4, <1>5 DEF Tidy

(* The last callback of a range. *)
LEMMA LastTidily ==
  ASSUME Tidy, NEW stk, NEW dns, NEW s \in Structs, Loose(dns, stk, s),
         NEW ip \in Addrs, NEW d, CallbackFits("last", d, ip),
         do_discover_range_after_last_dns(s, d, ip, dns)
  PROVE  Together(dns_query_list', stk, structs', Structs) /\ Tidy'
<1>1. d \in Struct /\ d.start \in Text /\ d.end \in Text /\ d.lo = HostOf(d.start) /\ HostOf(d.end) = ip
  BY DEF CallbackFits
<1>2. ip \in Nat
  BY HostProperties
<1>3. d.np \in Pages /\ d.lo \in Nat
  BY <1>1 DEF Struct
<1>4. PICK e \in {[d EXCEPT !.hi = ip], SwapEnds(d, ip)} : send_discover_request(s, e)
  BY DEF do_discover_range_after_last_dns
<1>5. e.np = d.np /\ \/ e.lo = ip /\ e.start = d.end
                     \/ e.lo = d.lo /\ e.start = d.start
  BY <1>1 DEF SwapEnds, Struct
<1>6. e.np \in Pages /\ e.lo \in Nat /\ e.start \in Text /\ Belongs(e.lo, e.start)
  BY <1>1, <1>2, <1>3, <1>5 DEF Belongs
<1>7. NoLookup(dns)
  BY DEF do_discover_range_after_last_dns
<1>. QED BY <1>4, <1>6, <1>7, SentTidily

(* Any callback leaves the structure with one keeper, free or left behind. *)
LEMMA AnsweredTidily ==
  ASSUME Tidy, NEW stk, NEW dns, NEW s \in Structs, Loose(dns, stk, s),
         NEW ip \in Addrs, NEW d, NEW cb \in {"host", "net", "first", "last"},
         CallbackFits(cb, d, ip), AfterDns(cb, s, d, ip, dns)
  PROVE  Together(dns_query_list', stk, structs', Structs) /\ Tidy'
<1>1. d \in Struct /\ d.np \in Pages
  BY DEF CallbackFits, Struct
<1>2. ip \in Nat /\ Network(ip) \in Nat
  BY HostProperties
<1>3. CASE cb = "host"
  <2> DEFINE e == [d EXCEPT !.lo = ip, !.hi = ip]
  <2>1. send_discover_request(s, e) /\ NoLookup(dns)
    BY <1>3 DEF AfterDns, do_host_discover_after_dns
  <2>2. e.np = d.np /\ e.start = d.start /\ e.lo = ip
    BY <1>1 DEF Struct
  <2>3. e.start # None => e.start \in Text /\ Belongs(ip, e.start)
    BY <1>3, <2>2 DEF CallbackFits, Belongs
  <2> HIDE DEF e
  <2>. QED BY <1>1, <1>2, <2>1, <2>2, <2>3, SentTidily
<1>4. CASE cb = "net" /\ d.end = BadMask
  <2>1. structs' = [structs EXCEPT ![s] = d] /\ UNCHANGED <<IP_cache, sent>> /\ NoLookup(dns)
    BY <1>4 DEF AfterDns, do_network_discover_after_dns
  <2>2. Together(dns.list, stk, [structs EXCEPT ![s] = d], Structs)
    BY <1>1, <1>4, LetGo DEF Loose
  <2>. QED BY <2>1, <2>2 DEF Tidy, CacheBelongs, NoLookup, Loose, LookupsAreTimed
<1>5. CASE cb = "net" /\ d.end # BadMask
  <2> DEFINE e == [d EXCEPT !.lo = Network(ip), !.hi = Network(ip) + NetSize - 1]
  <2>1. send_discover_request(s, e) /\ NoLookup(dns)
    BY <1>5 DEF AfterDns, do_network_discover_after_dns
  <2>2. e.np = d.np /\ e.start = d.start /\ e.lo = Network(ip)
    BY <1>1 DEF Struct
  <2>3. e.start # None => e.start \in Text /\ Belongs(Network(ip), e.start)
    BY <1>5, <2>2 DEF CallbackFits, Belongs
  <2> HIDE DEF e
  <2>. QED BY <1>1, <1>2, <2>1, <2>2, <2>3, SentTidily
<1>6. CASE cb = "last"
  BY <1>6, LastTidily DEF AfterDns
<1>7. CASE cb = "first"
  <2> DEFINE e == [d EXCEPT !.lo = ip]
  <2>1. d.start \in Text /\ d.end \in Text /\ HostOf(d.start) = ip
    BY <1>7 DEF CallbackFits
  <2>2. /\ e \in Struct /\ e.lo = ip /\ e.start = d.start /\ e.end = d.end
    BY <1>1, <1>2 DEF Struct
  <2> HIDE DEF e
  <2>3. CASE d.end \in Addrs
    <3>1. do_discover_range_after_last_dns(s, e, d.end, dns)
      BY <1>7, <2>3 DEF AfterDns, do_discover_range_after_first_dns, e
    <3>2. HostOf(e.end) = d.end
      BY <2>2, <2>3, HostProperties
    <3>3. CallbackFits("last", e, d.end)
      BY <2>1, <2>2, <3>2 DEF CallbackFits
    <3>. QED BY <2>3, <3>1, <3>3, LastTidily
  <2>4. CASE d.end \notin Addrs
    <3> DEFINE q == [ask |-> d.end, cb |-> "last", data |-> s]
    <3>1. /\ structs' = [structs EXCEPT ![s] = e] /\ UNCHANGED <<IP_cache, sent>>
          /\ dns_query_list' = <<q>> \o dns.list /\ dns_timer_int' = TRUE
      BY <1>7, <2>4 DEF AfterDns, do_discover_range_after_first_dns, Lookup, e
    <3>2. q \in Query /\ q.cb = "last" /\ q.data = s /\ q.ask = d.end
      BY <2>1 DEF Query
    <3> HIDE DEF q
    <3>3. Fits(q, e)
      BY <2>1, <2>2, <3>2 DEF Fits
    <3>4. Together(<<q>> \o dns.list, stk, [structs EXCEPT ![s] = e], Structs)
      BY <2>2, <3>2, <3>3, PushedCarrier DEF Loose
    <3>. QED BY <3>1, <3>4 DEF Tidy, CacheBelongs, LookupsAreTimed
  <2>. QED BY <2>3, <2>4
<1>. QED BY <1>3, <1>4, <1>5, <1>6, <1>7

-----------------------------------------------------------------------------
(* The steps. *)

LEMMA NextCases ==
  ASSUME [Next]_vars, NEW ACTION P,
         \A np \in open, d \in Discovers : do_discover(np, d[1], d[2]) => P,
         \A np \in open, r \in Ranges : do_discover_range(np, r[1], r[2]) => P,
         \A i \in 1..Len(dns_query_list) : dns_timer_finds(dns_query_list[i]) => P,
         dns_timer_answer => P,
         dns_timer_fail => P,
         dns_timeout_yes => P,
         dns_timeout_no => P,
         \A m \in sent, ip \in Addrs : handle_discover_reply(m, ip) => P,
         \A m \in sent, ip, ip1, ip2 \in Addrs : handle_map_icmp_reply(m, ip, ip1, ip2) => P,
         MapFirstEnd => P,
         MapSecondEnd => P,
         MapLink => P,
         \A np \in Pages : make_viewspace(np) => P,
         \A np \in Pages : net_page_remove(np) => P,
         \A o \in Objects : page_object_delete(o) => P,
         \A o \in Objects : net_page_dns_plink(o) => P,
         \A o \in Objects : net_page_map_plink(o) => P,
         \A set \in Settings : apply_settings(set) => P,
         NameForNothing => P,
         UNCHANGED vars => P
  PROVE  P
BY DEF Next, Step

LEMMA InitIInv == Init => IInv
<1> SUFFICES ASSUME Init PROVE IInv
  OBVIOUS
<1>1. dns_query_list \in Seq(Query) /\ stack \in Seq(Frame) /\ IP_cache \in Seq([ip : Nat, name : Text])
  BY DEF Init
<1>2. Len(dns_query_list) = 0 /\ Len(stack) = 0 /\ Len(IP_cache) = 0
  BY DEF Init
<1>3. \A A : Where(dns_query_list, A) = {} /\ Where(stack, A) = {}
  BY <1>2 DEF Where
<1>4. Together(dns_query_list, stack, structs, Structs)
  BY <1>1, <1>2, <1>3 DEF Init, Together, Kept, OneKeeper, NoKeeper, AtMostOne
<1>5. Tidy
  <2>1. CacheBelongs
    BY <1>2 DEF CacheBelongs
  <2>2. dns_timer_int \in BOOLEAN /\ LookupsAreTimed
    BY DEF Init, LookupsAreTimed
  <2>3. \A m \in sent : m.type \in {"discover", "map"} /\ m.np \in Pages
    BY DEF Init
  <2>. QED BY <1>1, <2>1, <2>2, <2>3 DEF Tidy
<1>6. PagesTidy
  BY RequestsAssumption DEF Init, PagesTidy, PagesHoldHosts, NamesBelong
<1>. QED BY <1>4, <1>5, <1>6 DEF IInv

LEMMA PagesUnchanged ==
  ASSUME PagesTidy, UNCHANGED <<open, objects, links, options>>
  PROVE  PagesTidy'
BY DEF PagesTidy, PagesHoldHosts, NamesBelong

LEMMA RestUnchanged ==
  ASSUME Tidy, UNCHANGED <<dns_query_list, dns_timer_int, IP_cache, sent>>
  PROVE  Tidy'
BY DEF Tidy, LookupsAreTimed, CacheBelongs

(* An object that is another's no more, but for its name, or a new one of a  *)
(* host that the page has not.                                              *)
LEMMA PagesChanged ==
  ASSUME PagesTidy, UNCHANGED <<open, links, options>>,
         NEW o \in Objects, NEW b \in Object, Belongs(b.ip, b.name), b.np \in open,
         \/ objects[o] # Free /\ b.np = objects[o].np /\ b.ip = objects[o].ip
         \/ objects[o] = Free /\ \A p \in Objects :
              ~(objects[p] # Free /\ objects[p].np = b.np /\ objects[p].ip = b.ip),
         objects' = [objects EXCEPT ![o] = b]
  PROVE  PagesTidy'
<1>1. objects' \in [Objects -> Object \union {Free}] /\ objects'[o] = b
      /\ \A p \in Objects \ {o} : objects'[p] = objects[p]
  BY DEF PagesTidy
<1>2. b # Free
  BY RequestsAssumption
<1>3. NamesBelong'
  <2>1. ASSUME NEW p \in Objects, objects'[p] # Free
        PROVE  Belongs(objects'[p].ip, objects'[p].name)
    BY <1>1, <2>1 DEF PagesTidy, NamesBelong, Belongs, HostOf
  <2>. QED BY <2>1 DEF NamesBelong, Belongs, HostOf
<1>4. \A p \in Objects : objects'[p] # Free => objects'[p].np \in open
  BY <1>1 DEF PagesTidy, PagesHoldHosts
<1>5. \A p, r \in Objects :
        objects'[p] # Free /\ objects'[r] # Free
          /\ objects'[p].np = objects'[r].np /\ objects'[p].ip = objects'[r].ip => p = r
  BY <1>1 DEF PagesTidy, PagesHoldHosts
<1>6. \A l \in links : \A p, r \in l :
        objects'[p] # Free /\ objects'[r] # Free /\ objects'[p].np = objects'[r].np
  <2>1. ASSUME NEW l \in links, NEW p \in l
        PROVE  p \in Objects /\ objects'[p] # Free /\ objects'[p].np = objects[p].np
    BY <1>1, <1>2 DEF PagesTidy, PagesHoldHosts
  <2>. QED BY <2>1 DEF PagesTidy, PagesHoldHosts
<1>. QED BY <1>1, <1>3, <1>4, <1>5, <1>6 DEF PagesTidy, PagesHoldHosts

(* A request whose text is looked up or taken as it is. *)
LEMMA AskTidily ==
  ASSUME IInv, NEW s \in Structs, structs[s] = Free,
         NEW cb \in {"host", "net", "first"}, NEW d \in Struct, NEW text \in Text,
         text \in Addrs => CallbackFits(cb, d, text),
         text \notin Addrs => d.start = text /\ (cb = "first" => d.end \in Text),
         Ask(text, cb, s, d)
  PROVE  Together(dns_query_list', stack, structs', Structs) /\ Tidy'
<1> DEFINE dns == Lookups
<1>1. Together(dns_query_list, stack, structs, Structs \ {s}) /\ NoKeeper(dns_query_list, stack, s)
  BY FreeIsUnkept DEF IInv
<1>2. dns.list = dns_query_list /\ dns.timer = dns_timer_int
  BY DEF Lookups
<1>3. Loose(dns, stack, s)
  BY <1>1, <1>2 DEF IInv, Tidy, LookupsAreTimed, Loose
<1> HIDE DEF dns
<1>4. CASE text \in Addrs
  <2>1. AfterDns(cb, s, d, text, dns)
    BY <1>4 DEF Ask, dns
  <2>. QED BY <1>3, <1>4, <2>1, AnsweredTidily DEF IInv
<1>5. CASE text \notin Addrs
  <2> DEFINE q == [ask |-> text, cb |-> cb, data |-> s]
  <2>1. /\ structs' = [structs EXCEPT ![s] = d] /\ UNCHANGED <<IP_cache, sent>>
        /\ dns_query_list' = <<q>> \o dns_query_list /\ dns_timer_int' = TRUE
    BY <1>2, <1>5 DEF Ask, Lookup, dns
  <2>2. q \in Query /\ q.cb = cb /\ q.data = s /\ q.ask = text
    BY DEF Query
  <2> HIDE DEF q
  <2>3. Fits(q, d)
    BY <1>5, <2>2 DEF Fits
  <2>4. Together(<<q>> \o dns_query_list, stack, [structs EXCEPT ![s] = d], Structs)
    BY <1>1, <2>2, <2>3, PushedCarrier
  <2>. QED BY <2>1, <2>4 DEF IInv, Tidy, CacheBelongs, LookupsAreTimed
<1>. QED BY <1>4, <1>5

LEMMA DiscoverKeeps ==
  ASSUME IInv, NEW np \in open, NEW x \in Discovers, do_discover(np, x[1], x[2])
  PROVE  IInv'
<1> DEFINE host == x[1]
           mask == x[2]
<1>1. host \in Text /\ mask \in {None, GoodMask, BadMask} /\ np \in Pages
  BY RequestsAssumption DEF IInv, PagesTidy
<1> HIDE DEF host, mask
<1>2. UNCHANGED <<open, objects, links, stack, options>>
  BY DEF do_discover, MayAsk
<1> DEFINE cb == IF mask = None THEN "host" ELSE "net"
           d  == [start |-> IF mask = None /\ host \in Addrs THEN None ELSE host,
                  end |-> mask, lo |-> 0, hi |-> 0, np |-> np, net |-> mask # None]
<1>3. PICK s \in Structs : structs[s] = Free /\ Ask(host, cb, s, d)
  BY DEF do_discover, host, mask
<1>4. cb \in {"host", "net"} /\ d \in Struct
  BY <1>1 DEF Struct
<1>5. d.start = IF mask = None /\ host \in Addrs THEN None ELSE host
  OBVIOUS
<1> HIDE DEF cb, d
<1>6. host \in Addrs => CallbackFits(cb, d, host)
  <2>1. host \in Addrs => HostOf(host) = host
    BY HostProperties
  <2>. QED BY <1>1, <1>4, <1>5, <2>1 DEF CallbackFits
<1>7. Together(dns_query_list', stack, structs', Structs) /\ Tidy'
  BY <1>1, <1>3, <1>4, <1>5, <1>6, AskTidily
<1>. QED BY <1>2, <1>7, PagesUnchanged DEF IInv

LEMMA RangeKeeps ==
  ASSUME IInv, NEW np \in open, NEW x \in Ranges, do_discover_range(np, x[1], x[2])
  PROVE  IInv'
<1> DEFINE first == x[1]
           last == x[2]
           d == [start |-> first, end |-> last, lo |-> 0, hi |-> 0, np |-> np, net |-> FALSE]
<1>1. first \in Text /\ last \in Text /\ np \in Pages
  BY RequestsAssumption DEF IInv, PagesTidy
<1>2. UNCHANGED <<open, objects, links, stack, options>>
  BY DEF do_discover_range, MayAsk
<1>3. PICK s \in Structs : structs[s] = Free /\ Ask(first, "first", s, d)
  BY DEF do_discover_range
<1> HIDE DEF first, last
<1>4. d \in Struct /\ d.start = first /\ d.end = last
  BY <1>1 DEF Struct
<1> HIDE DEF d
<1>5. first \in Addrs => CallbackFits("first", d, first)
  <2>1. first \in Addrs => HostOf(first) = first
    BY HostProperties
  <2>. QED BY <1>1, <1>4, <2>1 DEF CallbackFits
<1>6. Together(dns_query_list', stack, structs', Structs) /\ Tidy'
  BY <1>1, <1>3, <1>4, <1>5, AskTidily
<1>. QED BY <1>2, <1>6, PagesUnchanged DEF IInv

(* dns_timer, until its inner loop ends: the lookup is still on the list. *)
LEMMA FindsKeeps ==
  ASSUME IInv, NEW i \in 1..Len(dns_query_list), dns_timer_finds(dns_query_list[i])
  PROVE  IInv'
<1> DEFINE q == dns_query_list[i]
           f == [at |-> "timer", q |-> q, loop |-> TRUE]
<1>1. /\ stack' = <<f>> \o stack
      /\ UNCHANGED <<open, objects, links, structs, dns_query_list, dns_timer_int, IP_cache,
                     sent, options>>
  BY DEF dns_timer_finds, Nest
<1>2. q \in Query
  BY ElementOfSeq DEF IInv, Together
<1>3. Where(stack, Timing) = {}
  BY DEF dns_timer_finds, Where, Timing
<1> HIDE DEF q
<1>4. f \in Frame /\ f.at = "timer" /\ f.q = q
  BY <1>2 DEF Frame
<1>5. \E j \in 1..Len(dns_query_list) : dns_query_list[j] = q
  BY DEF q
<1> HIDE DEF f
<1>6. Together(dns_query_list, <<f>> \o stack, structs, Structs)
  BY <1>3, <1>4, <1>5, PushedFrame DEF IInv
<1>. QED BY <1>1, <1>6, PagesUnchanged, RestUnchanged DEF IInv

(* What dns_timer knows once its inner loop has ended. *)
LEMMA TimerGoesOn ==
  ASSUME IInv, stack # <<>>, stack[1].at = "timer", NEW q, q = stack[1].q,
         NEW dns, dns = Without(q)
  PROVE  /\ q \in Query /\ QueryFits(q, structs)
         /\ Where(Tail(stack), Timing) = {}
         /\ dns.timer \in BOOLEAN /\ (dns.list # <<>> => dns.timer)
         /\ q.cb = "node" => Together(dns.list, Tail(stack), structs, Structs)
         /\ q.cb # "node" => /\ q.data \in Structs /\ Fits(q, structs[q.data])
                             /\ Loose(dns, Tail(stack), q.data)
<1>1. /\ FrameFits(stack[1], dns_query_list, structs)
      /\ Where(Tail(stack), Timing) = {}
      /\ Together(dns_query_list, Tail(stack), structs, Structs)
  BY PoppedFrame DEF IInv
<1>2. \E j \in 1..Len(dns_query_list) : dns_query_list[j] = q
  BY <1>1 DEF FrameFits
<1>3. dns.list = RemoveFirst(dns_query_list, q) /\ dns.timer = (dns.list # <<>>)
  BY DEF Without
<1>4. dns.timer \in BOOLEAN /\ (dns.list # <<>> => dns.timer)
  BY <1>3, Zenon
<1> DEFINE list == RemoveFirst(dns_query_list, q)
           stk == Tail(stack)
<1>5. /\ q \in Query /\ QueryFits(q, structs)
      /\ q.cb = "node" => Together(list, stk, structs, Structs)
      /\ q.cb # "node" => /\ q.data \in Structs /\ Fits(q, structs[q.data])
                          /\ Together(list, stk, structs, Structs \ {q.data})
                          /\ NoKeeper(list, stk, q.data)
  <2> HIDE DEF stk
  <2>1. Together(dns_query_list, stk, structs, Structs) /\ Where(stk, Timing) = {}
    BY <1>1 DEF stk
  <2>. QED BY <1>2, <2>1, TakenOff
<1> HIDE DEF list, stk
<1>6. dns.list = list
  BY <1>3 DEF list
<1>. QED BY <1>1, <1>4, <1>5, <1>6 DEF Loose, stk

LEMMA AnswerKeeps ==
  ASSUME IInv, dns_timer_answer
  PROVE  IInv'
<1> DEFINE q == stack[1].q
           dns == Without(q)
           s == q.data
<1>1. /\ stack # <<>> /\ stack[1].at = "timer" /\ stack' = Tail(stack)
      /\ UNCHANGED <<open, links, options>>
  BY DEF dns_timer_answer
<1>2. /\ q \in Query /\ QueryFits(q, structs)
      /\ dns.timer \in BOOLEAN /\ (dns.list # <<>> => dns.timer)
      /\ q.cb = "node" => Together(dns.list, Tail(stack), structs, Structs)
      /\ q.cb # "node" => s \in Structs /\ Fits(q, structs[s]) /\ Loose(dns, Tail(stack), s)
  BY <1>1, TimerGoesOn
<1>3. ASSUME q.cb = "node", NEW n \in Names, Resolve[n] = q.ask, reverse_lookup_cb(s, q.ask, n),
             NoLookup(dns), UNCHANGED <<structs, IP_cache, sent>>
      PROVE  IInv'
  <2>1. Together(dns_query_list', stack', structs', Structs)
    BY <1>1, <1>2, <1>3 DEF NoLookup
  <2>2. Tidy'
    BY <1>2, <1>3 DEF NoLookup, IInv, Tidy, LookupsAreTimed, CacheBelongs
  <2>3. PagesTidy'
    <3>1. CASE objects[s].ip = q.ask
      <4>1. s \in Objects /\ objects[s] \in Object /\ objects[s] # Free
        BY <1>2, <1>3, <3>1 DEF QueryFits, IInv, PagesTidy, reverse_lookup_cb
      <4> DEFINE b == [objects[s] EXCEPT !.name = n]
      <4>2. objects' = [objects EXCEPT ![s] = b]
        BY <1>3, <3>1 DEF reverse_lookup_cb
      <4>3. b \in Object /\ b.np = objects[s].np /\ b.ip = q.ask /\ b.name = n
        BY <3>1, <4>1 DEF Object, Text
      <4>4. Belongs(b.ip, b.name)
        BY <1>3, <4>3 DEF Belongs, HostOf
      <4>5. b.np \in open
        BY <3>1, <4>1, <4>3 DEF IInv, PagesTidy, PagesHoldHosts
      <4> HIDE DEF b
      <4>6. objects[s] # Free /\ b.np = objects[s].np /\ b.ip = objects[s].ip
        BY <3>1, <4>1, <4>3
      <4> HIDE DEF s, q
      <4>. QED BY <1>1, <4>1, <4>2, <4>3, <4>4, <4>5, <4>6, PagesChanged DEF IInv
    <3>2. CASE objects[s].ip # q.ask
      BY <1>1, <1>3, <3>2, PagesUnchanged DEF IInv, reverse_lookup_cb
    <3>. QED BY <3>1, <3>2
  <2>. QED BY <2>1, <2>2, <2>3 DEF IInv
<1>4. ASSUME q.cb # "node", q.ask \in Names,
             AfterDns(q.cb, s, structs[s], Resolve[q.ask], dns), UNCHANGED objects
      PROVE  IInv'
  <2> DEFINE ip == Resolve[q.ask]
             d == structs[s]
  <2>1. ip \in Addrs /\ HostOf(q.ask) = ip
    BY <1>4, RequestsAssumption DEF HostOf
  <2>2. q.cb \in {"host", "net", "first", "last"} /\ s \in Structs /\ Fits(q, d)
    BY <1>2, <1>4 DEF Query
  <2> HIDE DEF ip
  <2>3. CallbackFits(q.cb, d, ip)
    BY <1>4, <2>1, <2>2 DEF CallbackFits, Fits
  <2>4. Together(dns_query_list', Tail(stack), structs', Structs) /\ Tidy'
    <3>1. AfterDns(q.cb, s, d, ip, dns) /\ Loose(dns, Tail(stack), s)
      BY <1>2, <1>4 DEF ip
    <3> HIDE DEF dns, d, q
    <3>. QED BY <2>1, <2>2, <2>3, <3>1, AnsweredTidily DEF IInv
  <2>. QED BY <1>1, <1>4, <2>4, PagesUnchanged DEF IInv
<1>5. \/ /\ q.cb = "node"
         /\ \E n \in Names : Resolve[n] = q.ask /\ reverse_lookup_cb(s, q.ask, n)
         /\ NoLookup(dns) /\ UNCHANGED <<structs, IP_cache, sent>>
      \/ /\ q.cb # "node" /\ q.ask \in Names
         /\ AfterDns(q.cb, s, structs[s], Resolve[q.ask], dns) /\ UNCHANGED objects
  BY DEF dns_timer_answer
<1> HIDE DEF q, dns, s
<1>. QED BY <1>3, <1>4, <1>5

LEMMA FailKeeps ==
  ASSUME IInv, dns_timer_fail
  PROVE  IInv'
<1> DEFINE q == stack[1].q
           dns == Without(q)
           s == q.data
<1>1. /\ stack # <<>> /\ stack[1].at = "timer"
      /\ UNCHANGED <<open, objects, links, structs, IP_cache, sent, options>>
  BY DEF dns_timer_fail
<1>2. /\ q \in Query /\ Where(Tail(stack), Timing) = {}
      /\ dns.timer \in BOOLEAN /\ (dns.list # <<>> => dns.timer)
      /\ q.cb = "node" => Together(dns.list, Tail(stack), structs, Structs)
      /\ q.cb # "node" => s \in Structs /\ Fits(q, structs[s]) /\ Loose(dns, Tail(stack), s)
  BY <1>1, TimerGoesOn
<1>3. CASE q.cb = "node"
  <2>1. stack' = Tail(stack) /\ dns_query_list' = dns.list /\ dns_timer_int' = dns.timer
    BY <1>3 DEF dns_timer_fail, NoLookup
  <2>2. Together(dns_query_list', stack', structs', Structs)
    BY <1>1, <1>2, <1>3, <2>1
  <2>3. Tidy'
    BY <1>1, <1>2, <2>1 DEF IInv, Tidy, LookupsAreTimed, CacheBelongs
  <2>. QED BY <1>1, <2>2, <2>3, PagesUnchanged DEF IInv
<1>4. CASE q.cb # "node"
  <2> DEFINE f == [at |-> "dialog", q |-> q, loop |-> TRUE]
  <2>1. stack' = <<f>> \o Tail(stack) /\ dns_query_list' = dns.list /\ dns_timer_int' = TRUE
    BY <1>4 DEF dns_timer_fail, NoLookup, Without
  <2>2. f \in Frame /\ f.at = "dialog" /\ f.q.cb # "node" /\ f.q.data = s
    BY <1>2, <1>4 DEF Frame
  <2>3. structs[s] \in Struct /\ structs[s].start \in Text
    BY <1>2, <1>4 DEF Fits
  <2> HIDE DEF f
  <2>4. Together(dns.list, <<f>> \o Tail(stack), structs, Structs)
    BY <1>2, <1>4, <2>2, <2>3, PushedDialog DEF Loose
  <2>5. Together(dns_query_list', stack', structs', Structs)
    BY <1>1, <2>1, <2>4
  <2>6. Tidy'
    BY <1>1, <2>1 DEF IInv, Tidy, LookupsAreTimed, CacheBelongs
  <2>. QED BY <1>1, <2>5, <2>6, PagesUnchanged DEF IInv
<1>. QED BY <1>3, <1>4

(* The dialog of dns_timeout has the structure of the lookup that failed.   *)
LEMMA DialogGoesOn ==
  ASSUME IInv, stack # <<>>, stack[1].at = "dialog", NEW s, s = stack[1].q.data
  PROVE  /\ s \in Structs /\ structs[s] \in Struct /\ structs[s].start \in Text
         /\ Together(dns_query_list, Tail(stack), structs, Structs \ {s})
         /\ NoKeeper(dns_query_list, Tail(stack), s)
BY PoppedFrame DEF IInv, FrameFits

LEMMA YesKeeps ==
  ASSUME IInv, dns_timeout_yes
  PROVE  IInv'
<1> DEFINE s == stack[1].q.data
           d == structs[s]
           q == [ask |-> d.start, cb |-> IF d.net THEN "net" ELSE "host", data |-> s]
<1>1. /\ stack # <<>> /\ stack[1].at = "dialog" /\ stack' = Tail(stack)
      /\ dns_query_list' = <<q>> \o dns_query_list /\ dns_timer_int' = TRUE
      /\ UNCHANGED <<open, objects, links, structs, IP_cache, sent, options>>
  BY DEF dns_timeout_yes, Lookup, Lookups
<1>2. /\ s \in Structs /\ d \in Struct /\ d.start \in Text
      /\ Together(dns_query_list, Tail(stack), structs, Structs \ {s})
      /\ NoKeeper(dns_query_list, Tail(stack), s)
  BY <1>1, DialogGoesOn
<1>3. q \in Query /\ q.cb \in {"host", "net"} /\ q.data = s /\ q.ask = d.start
  BY <1>2 DEF Query
<1> HIDE DEF q
<1>4. Fits(q, d)
  BY <1>2, <1>3 DEF Fits
<1>5. [structs EXCEPT ![s] = d] = structs
  BY <1>2 DEF Together
<1>6. Together(<<q>> \o dns_query_list, Tail(stack), [structs EXCEPT ![s] = d], Structs)
  <2> HIDE DEF s, d
  <2>1. q.cb # "node"
    BY <1>3
  <2>. QED BY <1>2, <1>3, <1>4, <2>1, PushedCarrier
<1>7. Together(dns_query_list', stack', structs', Structs)
  BY <1>1, <1>5, <1>6
<1>8. Tidy'
  BY <1>1 DEF IInv, Tidy, LookupsAreTimed, CacheBelongs
<1>. QED BY <1>1, <1>7, <1>8, PagesUnchanged DEF IInv

LEMMA NoKeeps ==
  ASSUME IInv, dns_timeout_no
  PROVE  IInv'
<1> DEFINE s == stack[1].q.data
<1>1. /\ stack # <<>> /\ stack[1].at = "dialog" /\ stack' = Tail(stack)
      /\ structs' = [structs EXCEPT ![s] = Free]
      /\ dns_query_list' = dns_query_list
      /\ UNCHANGED <<open, objects, links, IP_cache, sent, options>>
  BY DEF dns_timeout_no, NoLookup, Lookups
<1>2. dns_timer_int' = (dns_query_list # <<>>)
  BY DEF dns_timeout_no, NoLookup, Lookups
<1>3. /\ s \in Structs
      /\ Together(dns_query_list, Tail(stack), structs, Structs \ {s})
      /\ NoKeeper(dns_query_list, Tail(stack), s)
  BY <1>1, DialogGoesOn
<1>4. Together(dns_query_list, Tail(stack), [structs EXCEPT ![s] = Free], Structs)
  <2> HIDE DEF s
  <2>. QED BY <1>3, LetGo
<1>5. Together(dns_query_list', stack', structs', Structs)
  BY <1>1, <1>4
<1>6. dns_timer_int' \in BOOLEAN /\ LookupsAreTimed'
  BY <1>1, <1>2, Zenon DEF LookupsAreTimed
<1>7. Tidy'
  BY <1>1, <1>6 DEF IInv, Tidy, CacheBelongs
<1>. QED BY <1>1, <1>5, <1>7, PagesUnchanged DEF IInv

-----------------------------------------------------------------------------
(* The replies. *)

(* get_ip_cache finds an entry of the address, and takes it off.            *)
LEMMA CachedProperties ==
  ASSUME Tidy, NEW ip
  PROVE  CachedAt(ip) # 0 =>
           /\ CachedAt(ip) \in 1..Len(IP_cache)
           /\ IP_cache[CachedAt(ip)].ip = ip
           /\ CachedName(ip) \in Text /\ Belongs(ip, CachedName(ip))
<1> DEFINE I == {i \in 1..Len(IP_cache) : IP_cache[i].ip = ip}
<1>1. I = {} \/ Min(I) \in I
  <2>1. I \subseteq Nat
    OBVIOUS
  <2>2. I # {} => \E m \in I : \A n \in I : m <= n
    BY <2>1, LeastNat
  <2>. QED BY <2>2 DEF Min
<1>2. CachedAt(ip) = IF I = {} THEN 0 ELSE Min(I)
  BY DEF CachedAt, SelectInSeq
<1>3. ASSUME CachedAt(ip) # 0
      PROVE  /\ CachedAt(ip) \in 1..Len(IP_cache)
             /\ IP_cache[CachedAt(ip)].ip = ip
  BY <1>1, <1>2, <1>3
<1>4. ASSUME CachedAt(ip) # 0
      PROVE  CachedName(ip) \in Text /\ Belongs(ip, CachedName(ip))
  <2>1. CachedName(ip) = IP_cache[CachedAt(ip)].name
    BY <1>4 DEF CachedName
  <2>2. IP_cache[CachedAt(ip)] \in [ip : Nat, name : Text]
    BY <1>3, <1>4, ElementOfSeq DEF Tidy
  <2>3. Belongs(IP_cache[CachedAt(ip)].ip, IP_cache[CachedAt(ip)].name)
    BY <1>3, <1>4 DEF Tidy, CacheBelongs
  <2>. QED BY <1>3, <1>4, <2>1, <2>2, <2>3
<1>. QED BY <1>3, <1>4

LEMMA CacheShrinks ==
  ASSUME Tidy, NEW k \in 1..Len(IP_cache), IP_cache' = RemoveAt(IP_cache, k)
  PROVE  IP_cache' \in Seq([ip : Nat, name : Text]) /\ CacheBelongs'
<1>1. IP_cache \in Seq([ip : Nat, name : Text]) /\ Len(IP_cache) \in Nat
  BY LenProperties DEF Tidy
<1>2. /\ IP_cache' \in Seq([ip : Nat, name : Text])
      /\ Len(IP_cache') = Len(IP_cache) - 1
      /\ \A i \in 1..(Len(IP_cache) - 1) : IP_cache'[i] = IF i < k THEN IP_cache[i] ELSE IP_cache[i + 1]
  BY <1>1, RemoveAtProperties
<1>3. ASSUME NEW i \in 1..Len(IP_cache')
      PROVE  \E j \in 1..Len(IP_cache) : IP_cache'[i] = IP_cache[j]
  <2>1. i \in 1..(Len(IP_cache) - 1) /\ i \in 1..Len(IP_cache) /\ i + 1 \in 1..Len(IP_cache)
    BY <1>1, <1>2
  <2>. QED BY <1>2, <2>1
<1>4. \A i \in 1..Len(IP_cache') : Belongs(IP_cache'[i].ip, IP_cache'[i].name)
  BY <1>3 DEF Tidy, CacheBelongs
<1>. QED BY <1>2, <1>4 DEF CacheBelongs

(* add_discovered_node. *)
LEMMA NodeTidily ==
  ASSUME IInv, NEW np \in open, NEW ip \in Addrs,
         NEW name, name # None => name \in Text /\ Belongs(ip, name),
         NEW mapit, NEW requests,
         \A m \in requests : m.type \in {"discover", "map"} /\ m.np \in Pages,
         add_discovered_node(np, ip, name, mapit, requests),
         UNCHANGED <<open, links, structs, options>>,
         IP_cache' \in Seq([ip : Nat, name : Text]), CacheBelongs'
  PROVE  Together(dns_query_list', stack, structs', Structs) /\ Tidy' /\ PagesTidy'
<1>1. np \in Pages /\ ip \in Nat /\ ip \in Text /\ HostOf(ip) = ip
  BY HostProperties DEF IInv, PagesTidy
<1> DEFINE b(o) == IF objects[o] = Free
                   THEN [np |-> np, ip |-> ip, name |-> IF name = None THEN ip ELSE name]
                   ELSE IF name = None THEN objects[o] ELSE [objects[o] EXCEPT !.name = name]
<1>2. PICK o \in ObjectFor(np, ip) :
        /\ objects' = [objects EXCEPT ![o] = b(o)]
        /\ Agent(requests \union (IF "map" \in options /\ mapit THEN {Request("map", np, ip)} ELSE {}))
        /\ IF name = None /\ "reverse" \in options
           THEN Len(dns_query_list) < MaxLookups /\ Lookup(ip, "node", o, Lookups)
           ELSE NoLookup(Lookups)
  BY DEF add_discovered_node
<1>3. /\ o \in Objects
      /\ \/ objects[o] # Free /\ objects[o].np = np /\ objects[o].ip = ip
         \/ objects[o] = Free /\ Found(np, ip) = {}
  BY DEF ObjectFor, Found
<1>4. objects \in [Objects -> Object \union {Free}]
  BY DEF IInv, PagesTidy
<1>5. b(o) \in Object /\ b(o).np = np /\ b(o).ip = ip /\ Belongs(b(o).ip, b(o).name)
  <2>1. CASE objects[o] = Free
    BY <1>1, <2>1 DEF Object, Belongs
  <2>2. CASE objects[o] # Free
    <3>1. objects[o] \in Object /\ Belongs(objects[o].ip, objects[o].name)
      BY <1>3, <1>4, <2>2 DEF IInv, PagesTidy, NamesBelong, Belongs, HostOf
    <3>. QED BY <1>3, <2>2, <3>1 DEF Object
  <2>. QED BY <2>1, <2>2
<1> HIDE DEF b
<1>6. PagesTidy'
  <2>1. \/ objects[o] # Free /\ b(o).np = objects[o].np /\ b(o).ip = objects[o].ip
        \/ objects[o] = Free /\ \A p \in Objects :
              ~(objects[p] # Free /\ objects[p].np = b(o).np /\ objects[p].ip = b(o).ip)
    BY <1>3, <1>5 DEF Found
  <2>. QED BY <1>2, <1>3, <1>5, <2>1, PagesChanged DEF IInv
<1>7. Together(dns_query_list', stack, structs', Structs) /\ dns_timer_int' \in BOOLEAN /\ LookupsAreTimed'
  <2>1. CASE name = None /\ "reverse" \in options
    <3> DEFINE q == [ask |-> ip, cb |-> "node", data |-> o]
    <3>1. dns_query_list' = <<q>> \o dns_query_list /\ dns_timer_int' = TRUE
      BY <1>2, <2>1 DEF Lookup, Lookups
    <3>2. q \in Query /\ q.cb = "node" /\ q.data \in Objects
      BY <1>1, <1>3 DEF Query
    <3> HIDE DEF q
    <3>. QED BY <3>1, <3>2, PushedNode DEF IInv, LookupsAreTimed
  <2>2. CASE ~(name = None /\ "reverse" \in options)
    BY <1>2, <2>2 DEF NoLookup, Lookups, IInv, Tidy, LookupsAreTimed
  <2>. QED BY <2>1, <2>2
<1>8. \A m \in sent' : m.type \in {"discover", "map"} /\ m.np \in Pages
  BY <1>1, <1>2 DEF Agent, Request
<1>. QED BY <1>6, <1>7, <1>8 DEF Tidy

(* What the agent has still to answer, without one answer. *)
LEMMA AnsweredTyped ==
  ASSUME Tidy, NEW m \in sent, NEW ip
  PROVE  \A r \in Answered(m, ip) : r.type \in {"discover", "map"} /\ r.np \in Pages
<1> DEFINE e == [m EXCEPT !.ips = @ \ {ip}]
<1>1. m.type \in {"discover", "map"} /\ m.np \in Pages
  BY DEF Tidy
<1>2. e.type = m.type /\ e.np = m.np
  OBVIOUS
<1> HIDE DEF e
<1>3. \A r \in Answered(m, ip) : r \in sent \/ r = e
  BY DEF Answered, e
<1>. QED BY <1>1, <1>2, <1>3 DEF Tidy

LEMMA DiscoverReplyKeeps ==
  ASSUME IInv, NEW m \in sent, NEW ip \in Addrs, handle_discover_reply(m, ip)
  PROVE  IInv'
<1>1. /\ IP_cache' = IF CachedAt(ip) = 0 THEN IP_cache ELSE RemoveAt(IP_cache, CachedAt(ip))
      /\ UNCHANGED <<open, links, structs, stack, options>>
  BY DEF handle_discover_reply
<1>2. IP_cache' \in Seq([ip : Nat, name : Text]) /\ CacheBelongs'
  <2>1. CASE CachedAt(ip) = 0
    BY <1>1, <2>1 DEF IInv, Tidy, CacheBelongs
  <2>2. CASE CachedAt(ip) # 0
    BY <1>1, <2>2, CachedProperties, CacheShrinks DEF IInv
  <2>. QED BY <2>1, <2>2
<1>3. \A r \in Answered(m, ip) : r.type \in {"discover", "map"} /\ r.np \in Pages
  BY AnsweredTyped DEF IInv
<1>4. CASE m.np \in open
  <2> DEFINE name == CachedName(ip)
             np == m.np
             requests == Answered(m, ip)
  <2>1. add_discovered_node(np, ip, name, TRUE, requests)
    BY <1>4 DEF handle_discover_reply, is_valid_net_page
  <2>2. name # None => name \in Text /\ Belongs(ip, name)
    <3>1. CachedAt(ip) = 0 => name = None
      BY DEF CachedName
    <3>. QED BY <3>1, CachedProperties DEF IInv
  <2> HIDE DEF name, np, requests
  <2>3. np \in open /\ \A r \in requests : r.type \in {"discover", "map"} /\ r.np \in Pages
    BY <1>3, <1>4 DEF np, requests
  <2>4. Together(dns_query_list', stack, structs', Structs) /\ Tidy' /\ PagesTidy'
    BY <1>1, <1>2, <2>1, <2>2, <2>3, NodeTidily
  <2>. QED BY <1>1, <2>4 DEF IInv
<1>5. CASE m.np \notin open
  <2>1. sent' = Answered(m, ip) /\ UNCHANGED <<objects, dns_query_list, dns_timer_int>>
    BY <1>5 DEF handle_discover_reply, is_valid_net_page
  <2>2. Tidy'
    BY <1>2, <1>3, <2>1 DEF IInv, Tidy, LookupsAreTimed
  <2>3. PagesTidy'
    BY <1>1, <2>1, PagesUnchanged DEF IInv
  <2>. QED BY <1>1, <2>1, <2>2, <2>3 DEF IInv
<1>. QED BY <1>4, <1>5

LEMMA MapReplyKeeps ==
  ASSUME IInv, NEW m \in sent, NEW ip \in Addrs, NEW ip1 \in Addrs, NEW ip2 \in Addrs,
         handle_map_icmp_reply(m, ip, ip1, ip2)
  PROVE  IInv'
<1> DEFINE f == [at |-> "ip1", np |-> m.np, ip1 |-> ip1, ip2 |-> ip2, loop |-> FALSE]
<1>1. /\ sent' = Answered(m, ip) /\ (stack' = stack \/ stack' = <<f>> \o stack)
      /\ UNCHANGED <<open, objects, links, structs, dns_query_list, dns_timer_int, IP_cache, options>>
  BY DEF handle_map_icmp_reply, Nest
<1>2. f \in Frame /\ f.at = "ip1"
  BY DEF IInv, Tidy, Frame
<1> HIDE DEF f
<1>3. Together(dns_query_list, <<f>> \o stack, structs, Structs)
  BY <1>2, PushedFrame DEF IInv
<1>4. Together(dns_query_list', stack', structs', Structs)
  BY <1>1, <1>3 DEF IInv
<1>5. \A r \in sent' : r.type \in {"discover", "map"} /\ r.np \in Pages
  BY <1>1, AnsweredTyped DEF IInv
<1>6. Tidy'
  BY <1>1, <1>5 DEF IInv, Tidy, LookupsAreTimed, CacheBelongs
<1>. QED BY <1>1, <1>4, <1>6, PagesUnchanged DEF IInv

(* The innermost handler of a reply goes on to its next step. *)
LEMMA TurnedFrame ==
  ASSUME NEW list, NEW stk, NEW at, Together(list, stk, at, Structs), stk # <<>>,
         stk[1].at \notin {"timer", "dialog"},
         NEW f \in Frame, f.at \notin {"timer", "dialog"}
  PROVE  Together(list, [stk EXCEPT ![1] = f], at, Structs)
<1> DEFINE rest == Tail(stk)
           fresh == <<f>> \o rest
           now == [stk EXCEPT ![1] = f]
<1>1. Together(list, fresh, at, Structs)
  <2>1. Together(list, rest, at, Structs)
    BY PoppedFrame
  <2> HIDE DEF rest
  <2>. QED BY <2>1, PushedFrame
<1>2. stk \in Seq(Frame)
  BY DEF Together
<1>3. /\ rest \in Seq(Frame) /\ Len(rest) \in Nat /\ Len(stk) = Len(rest) + 1
      /\ \A i \in 1..Len(rest) : stk[i + 1] = rest[i]
  BY <1>2, TailProperties
<1>4. /\ fresh \in Seq(Frame) /\ Len(fresh) = Len(rest) + 1 /\ fresh[1] = f
      /\ \A i \in 1..Len(rest) : fresh[i + 1] = rest[i]
  BY <1>3, PrependProperties
<1>5. /\ now \in Seq(Frame) /\ Len(now) = Len(stk)
      /\ \A i \in 1..Len(stk) : now[i] = IF i = 1 THEN f ELSE stk[i]
  BY <1>2, <1>3, ExceptSeq
<1> HIDE DEF rest, fresh, now
<1>6. \A i \in 1..Len(now) : now[i] = fresh[i]
  <2>1. ASSUME NEW j \in 1..Len(rest)
        PROVE  now[j + 1] = fresh[j + 1]
    <3>1. j + 1 \in 1..Len(stk) /\ j + 1 # 1
      BY <1>3
    <3>2. now[j + 1] = stk[j + 1]
      BY <1>5, <3>1
    <3>. QED BY <1>3, <1>4, <3>2
  <2>2. \A i \in 1..Len(now) : i = 1 \/ \E j \in 1..Len(rest) : i = j + 1
    <3>1. \A i \in 1..Len(now) : i = 1 \/ (i - 1 \in 1..Len(rest) /\ i = (i - 1) + 1)
      BY <1>3, <1>5
    <3>. QED BY <3>1
  <2>3. now[1] = fresh[1]
    BY <1>3, <1>4, <1>5
  <2>. QED BY <2>1, <2>2, <2>3
<1>7. now = fresh
  BY <1>3, <1>4, <1>5, <1>6, SeqEqual
<1>. QED BY <1>1, <1>7 DEF now

(* handle_map_icmp_reply at one of the ends of its link. *)
LEMMA MapEndKeeps ==
  ASSUME IInv, NEW at \in {"ip1", "ip2"}, NEW ip, NEW then \in {"ip2", "link"},
         stack # <<>> /\ stack[1].at = at => ip \in Addrs,
         MapEnd(at, ip, then)
  PROVE  IInv'
<1> DEFINE f == stack[1]
           np == f.np
           b == "reverse" \in options
<1>1. stack # <<>> /\ f.at = at /\ ip \in Addrs /\ UNCHANGED <<open, links, structs, IP_cache, options>>
  BY DEF MapEnd
<1>2. f \in Frame
  BY <1>1, PoppedFrame DEF IInv
<1>3. f \in [at : {"ip1", "ip2", "link"}, np : Pages, ip1 : Addrs, ip2 : Addrs, loop : BOOLEAN]
  BY <1>1, <1>2 DEF Frame
<1> DEFINE g(x) == [f EXCEPT !.at = then, !.loop = x]
           to(x) == [stack EXCEPT ![1].at = then, ![1].loop = x]
<1>4. ASSUME NEW x \in BOOLEAN, NEW list, NEW held, Together(list, stack, held, Structs)
      PROVE  Together(list, to(x), held, Structs)
  <2>1. g(x) \in Frame /\ g(x).at = then
    BY <1>3 DEF Frame
  <2>2. to(x) = [stack EXCEPT ![1] = g(x)]
    OBVIOUS
  <2> HIDE DEF g, to
  <2>3. stack[1].at \notin {"timer", "dialog"} /\ g(x).at \notin {"timer", "dialog"}
    BY <1>1, <2>1
  <2>4. Together(list, [stack EXCEPT ![1] = g(x)], held, Structs)
    BY <1>1, <1>4, <2>1, <2>3, TurnedFrame
  <2>. QED BY <2>2, <2>4
<1>5. CASE Found(np, ip) = {} /\ is_valid_net_page(np)
  <2>1. add_discovered_node(np, ip, None, FALSE, sent) /\ stack' = to(b)
    BY <1>5 DEF MapEnd
  <2>2. b \in BOOLEAN /\ np \in open
    BY <1>5 DEF is_valid_net_page
  <2> HIDE DEF to, b, np
  <2>3. IP_cache' \in Seq([ip : Nat, name : Text]) /\ CacheBelongs'
    BY <1>1 DEF IInv, Tidy, CacheBelongs
  <2>4. Together(dns_query_list', stack, structs', Structs) /\ Tidy' /\ PagesTidy'
    BY <1>1, <2>1, <2>2, <2>3, NodeTidily DEF IInv, Tidy
  <2>. QED BY <1>4, <2>1, <2>2, <2>4 DEF IInv
<1>6. CASE ~(Found(np, ip) = {} /\ is_valid_net_page(np))
  <2>1. stack' = to(FALSE) /\ UNCHANGED <<objects, dns_query_list, dns_timer_int, sent>>
    BY <1>6 DEF MapEnd
  <2> HIDE DEF to
  <2>2. Together(dns_query_list', stack', structs', Structs)
    BY <1>1, <1>4, <2>1 DEF IInv
  <2>. QED BY <1>1, <2>1, <2>2, PagesUnchanged, RestUnchanged DEF IInv
<1>. QED BY <1>5, <1>6

LEMMA MapLinkKeeps ==
  ASSUME IInv, MapLink
  PROVE  IInv'
<1> DEFINE f == stack[1]
<1>1. /\ stack # <<>> /\ f.at = "link" /\ stack' = Tail(stack)
      /\ UNCHANGED <<open, objects, structs, dns_query_list, dns_timer_int, IP_cache, sent, options>>
      /\ links' = links \union {{a, b} : a \in Found(f.np, f.ip1), b \in Found(f.np, f.ip2)}
  BY DEF MapLink
<1>2. Together(dns_query_list, Tail(stack), structs, Structs)
  BY <1>1, PoppedFrame DEF IInv
<1> HIDE DEF f
<1>3. ASSUME NEW l \in links', NEW o \in l, NEW p \in l
      PROVE  /\ o \in Objects /\ p \in Objects
             /\ objects[o] # Free /\ objects[p] # Free /\ objects[o].np = objects[p].np
  <2>1. CASE l \in links
    BY <2>1 DEF IInv, PagesTidy, PagesHoldHosts
  <2>2. CASE l \notin links
    <3>1. PICK a \in Found(f.np, f.ip1), b \in Found(f.np, f.ip2) : l = {a, b}
      BY <1>1, <2>2
    <3>. QED BY <3>1 DEF Found
  <2>. QED BY <2>1, <2>2
<1>4. PagesTidy'
  <2>1. links' \subseteq SUBSET Objects
    BY <1>3
  <2>2. \A l \in links' : \A o, p \in l :
          objects'[o] # Free /\ objects'[p] # Free /\ objects'[o].np = objects'[p].np
    BY <1>1, <1>3
  <2>. QED BY <1>1, <2>1, <2>2 DEF IInv, PagesTidy, PagesHoldHosts, NamesBelong
<1>. QED BY <1>1, <1>2, <1>4, RestUnchanged DEF IInv

-----------------------------------------------------------------------------
(* The user. *)

LEMMA OpenKeeps ==
  ASSUME IInv, NEW np \in Pages, make_viewspace(np)
  PROVE  IInv'
<1>1. /\ open' = open \union {np}
      /\ UNCHANGED <<objects, links, structs, dns_query_list, dns_timer_int, stack, IP_cache, sent, options>>
  BY DEF make_viewspace
<1>2. PagesTidy'
  BY <1>1 DEF IInv, PagesTidy, PagesHoldHosts, NamesBelong
<1>. QED BY <1>1, <1>2, RestUnchanged DEF IInv

(* Objects go with their links, and a page once it has none. *)
LEMMA DropTidily ==
  ASSUME PagesTidy, NEW gone, DropObjects(gone), open' \subseteq open, UNCHANGED options,
         \A o \in Objects : objects[o] # Free /\ objects[o].np \notin open' => o \in gone
  PROVE  PagesTidy'
<1>1. /\ objects' \in [Objects -> Object \union {Free}]
      /\ \A o \in Objects : objects'[o] = IF o \in gone THEN Free ELSE objects[o]
  BY DEF DropObjects, PagesTidy
<1>2. NamesBelong'
  BY <1>1 DEF PagesTidy, NamesBelong
<1>3. /\ \A o \in Objects : objects'[o] # Free => objects'[o].np \in open'
      /\ \A o, p \in Objects :
           objects'[o] # Free /\ objects'[p] # Free
             /\ objects'[o].np = objects'[p].np /\ objects'[o].ip = objects'[p].ip => o = p
  BY <1>1 DEF PagesTidy, PagesHoldHosts
<1>4. \A l \in links' : l \in links /\ \A o \in l : o \notin gone /\ o \in Objects
  BY DEF DropObjects, PagesTidy
<1>5. \A l \in links' : \A o, p \in l :
        objects'[o] # Free /\ objects'[p] # Free /\ objects'[o].np = objects'[p].np
  BY <1>1, <1>4 DEF PagesTidy, PagesHoldHosts
<1>6. links' \subseteq SUBSET Objects
  BY <1>4
<1>. QED BY <1>1, <1>2, <1>3, <1>5, <1>6 DEF PagesTidy, PagesHoldHosts

LEMMA RemoveKeeps ==
  ASSUME IInv, NEW np \in Pages, net_page_remove(np)
  PROVE  IInv'
<1> DEFINE gone == {o \in Objects : objects[o] # Free /\ objects[o].np = np}
<1>1. /\ DropObjects(gone) /\ open' = open \ {np}
      /\ UNCHANGED <<structs, dns_query_list, dns_timer_int, stack, IP_cache, sent, options>>
  BY DEF net_page_remove
<1>2. \A o \in Objects : objects[o] # Free /\ objects[o].np \notin open' => o \in gone
  BY <1>1 DEF IInv, PagesTidy, PagesHoldHosts
<1> HIDE DEF gone
<1>3. PagesTidy'
  BY <1>1, <1>2, DropTidily DEF IInv
<1>. QED BY <1>1, <1>3, RestUnchanged DEF IInv

LEMMA DeleteKeeps ==
  ASSUME IInv, NEW x \in Objects, page_object_delete(x)
  PROVE  IInv'
<1>1. /\ DropObjects({x})
      /\ UNCHANGED <<open, structs, dns_query_list, dns_timer_int, stack, IP_cache, sent, options>>
  BY DEF page_object_delete
<1>2. \A o \in Objects : objects[o] # Free /\ objects[o].np \notin open' => o \in {x}
  BY <1>1 DEF IInv, PagesTidy, PagesHoldHosts
<1>3. PagesTidy'
  BY <1>1, <1>2, DropTidily DEF IInv
<1>. QED BY <1>1, <1>3, RestUnchanged DEF IInv

LEMMA DnsPlinkKeeps ==
  ASSUME IInv, NEW o \in Objects, net_page_dns_plink(o)
  PROVE  IInv'
<1> DEFINE q == [ask |-> objects[o].ip, cb |-> "node", data |-> o]
<1>1. /\ dns_query_list' = <<q>> \o dns_query_list /\ dns_timer_int' = TRUE
      /\ UNCHANGED <<open, objects, links, structs, stack, IP_cache, sent, options>>
  BY DEF net_page_dns_plink, Lookup, Lookups
<1>2. objects[o] \in Object
  BY DEF net_page_dns_plink, IInv, PagesTidy
<1>3. q \in Query /\ q.cb = "node" /\ q.data \in Objects
  BY <1>2 DEF Query, Object, Text
<1> HIDE DEF q
<1>4. Together(<<q>> \o dns_query_list, stack, structs, Structs)
  BY <1>3, PushedNode DEF IInv
<1>5. Together(dns_query_list', stack', structs', Structs)
  BY <1>1, <1>4
<1>6. Tidy'
  BY <1>1 DEF IInv, Tidy, LookupsAreTimed, CacheBelongs
<1>. QED BY <1>1, <1>5, <1>6, PagesUnchanged DEF IInv

LEMMA MapPlinkKeeps ==
  ASSUME IInv, NEW o \in Objects, net_page_map_plink(o)
  PROVE  IInv'
<1>1. /\ sent' = sent \union {Request("map", objects[o].np, objects[o].ip)}
      /\ UNCHANGED <<open, objects, links, structs, dns_query_list, dns_timer_int, stack, IP_cache, options>>
  BY DEF net_page_map_plink, Agent
<1>2. objects[o].np \in Pages
  BY DEF net_page_map_plink, IInv, PagesTidy, Object
<1>3. \A m \in sent' : m.type \in {"discover", "map"} /\ m.np \in Pages
  BY <1>1, <1>2 DEF IInv, Tidy, Request
<1>4. Tidy'
  BY <1>1, <1>3 DEF IInv, Tidy, LookupsAreTimed, CacheBelongs
<1>. QED BY <1>1, <1>4, PagesUnchanged DEF IInv

LEMMA SettingsKeep ==
  ASSUME IInv, NEW set \in Settings, apply_settings(set)
  PROVE  IInv'
<1>1. /\ options' \subseteq {"map", "reverse"}
      /\ UNCHANGED <<open, objects, links, structs, dns_query_list, dns_timer_int, stack, IP_cache, sent>>
  BY RequestsAssumption DEF apply_settings
<1>2. PagesTidy'
  BY <1>1 DEF IInv, PagesTidy, PagesHoldHosts, NamesBelong
<1>. QED BY <1>1, <1>2, RestUnchanged DEF IInv

-----------------------------------------------------------------------------
LEMMA Invariance == Spec => []IInv
<1>1. IInv /\ [Next]_vars => IInv'
  <2> SUFFICES ASSUME IInv, [Next]_vars PROVE IInv'
    OBVIOUS
  <2>1. UNCHANGED vars \/ NameForNothing => IInv'
    BY PagesUnchanged, RestUnchanged DEF vars, NameForNothing, IInv
  <2>2. MapFirstEnd => IInv'
    <3>1. stack # <<>> /\ stack[1].at = "ip1" => stack[1].ip1 \in Addrs
      BY PoppedFrame DEF IInv, Frame
    <3>. QED BY <3>1, MapEndKeeps DEF MapFirstEnd
  <2>3. MapSecondEnd => IInv'
    <3>1. stack # <<>> /\ stack[1].at = "ip2" => stack[1].ip2 \in Addrs
      BY PoppedFrame DEF IInv, Frame
    <3>. QED BY <3>1, MapEndKeeps DEF MapSecondEnd
  <2>. QED BY <2>1, <2>2, <2>3, NextCases, DiscoverKeeps, RangeKeeps, FindsKeeps, AnswerKeeps,
              FailKeeps, YesKeeps, NoKeeps, DiscoverReplyKeeps, MapReplyKeeps, MapLinkKeeps,
              OpenKeeps, RemoveKeeps, DeleteKeeps, DnsPlinkKeeps, MapPlinkKeeps, SettingsKeep
<1>. QED BY <1>1, InitIInv, PTL DEF Spec

(* The keepers of a structure are the lookups and the dialogs that wait.    *)
LEMMA KeepersWait ==
  ASSUME IInv, NEW s \in Structs
  PROVE  Waiting(s) = {<<"list", i>> : i \in Where(dns_query_list, Carriers(s))}
                        \union {<<"dialog", i>> : i \in Where(stack, Dialogs(s))}
<1>1. \A j \in 1..Len(dns_query_list) : dns_query_list[j] \in Query
  BY ElementOfSeq DEF IInv, Together
<1>2. \A j \in 1..Len(stack) : stack[j] \in Frame
  BY ElementOfSeq DEF IInv, Together
<1>3. Where(dns_query_list, Carriers(s)) =
        {j \in 1..Len(dns_query_list) : dns_query_list[j].cb # "node" /\ dns_query_list[j].data = s}
  BY <1>1 DEF Where, Carriers
<1>4. Where(stack, Dialogs(s)) =
        {j \in 1..Len(stack) : stack[j].at = "dialog" /\ stack[j].q.data = s}
  BY <1>2 DEF Where, Dialogs
<1>. QED BY <1>3, <1>4 DEF Waiting

LEMMA KeptIsHeld == IInv => StructsHeld
<1> SUFFICES ASSUME IInv, NEW s \in Structs
             PROVE  /\ structs[s] = Free => Waiting(s) = {}
                    /\ structs[s] # Free => \/ \E w \in Waiting(s) : Waiting(s) = {w}
                                            \/ structs[s].end = BadMask /\ Waiting(s) = {}
  BY DEF StructsHeld
<1> DEFINE L == Where(dns_query_list, Carriers(s))
           D == Where(stack, Dialogs(s))
<1>1. Kept(dns_query_list, stack, structs, s)
  BY DEF IInv, Together
<1>2. /\ AtMostOne(L) /\ AtMostOne(D) /\ (L = {} \/ D = {})
      /\ L = {} /\ D = {} => structs[s] = Free \/ structs[s].end = BadMask
      /\ structs[s] = Free => L = {} /\ D = {}
  BY <1>1 DEF Kept, OneKeeper, NoKeeper
<1>3. Waiting(s) = {<<"list", i>> : i \in L} \union {<<"dialog", i>> : i \in D}
  BY KeepersWait
<1> HIDE DEF L, D
<1>4. CASE L = {} /\ D = {}
  BY <1>2, <1>3, <1>4
<1>5. CASE L # {}
  <2>1. PICK i \in L : L = {i}
    BY <1>2, <1>5 DEF AtMostOne
  <2>2. D = {} /\ structs[s] # Free
    BY <1>2, <1>5
  <2>3. Waiting(s) = {<<"list", i>>}
    <3>1. {<<"list", j>> : j \in L} = {<<"list", i>>}
      BY <2>1
    <3>. QED BY <1>3, <2>2, <3>1
  <2>. QED BY <2>2, <2>3
<1>6. CASE D # {}
  <2>1. PICK i \in D : D = {i}
    BY <1>2, <1>6 DEF AtMostOne
  <2>2. L = {} /\ structs[s] # Free
    BY <1>2, <1>6
  <2>3. Waiting(s) = {<<"dialog", i>>}
    <3>1. {<<"dialog", j>> : j \in D} = {<<"dialog", i>>}
      BY <2>1
    <3>. QED BY <1>3, <2>2, <3>1
  <2>. QED BY <2>2, <2>3
<1>. QED BY <1>4, <1>5, <1>6

(* Every variable keeps its type: lookups carry what their callbacks take,  *)
(* the frames of handle_map_icmp_reply have addresses, and what the agent   *)
(* is asked names a page by memory that pages are allocated in.             *)
THEOREM RequestsTypeCorrect == Spec => []TypeOK
<1>1. IInv /\ misnamed \in BOOLEAN => TypeOK
  BY DEF IInv, TypeOK, Together, Tidy, PagesTidy
<1>2. Init => misnamed \in BOOLEAN
  BY DEF Init
<1>3. misnamed \in BOOLEAN /\ [Next]_vars => (misnamed \in BOOLEAN)'
  BY DEF Next, NameForNothing, vars
<1>4. Spec => [](misnamed \in BOOLEAN)
  BY <1>2, <1>3, PTL DEF Spec
<1>. QED BY <1>1, <1>4, Invariance, PTL

(* A struct discover_dns is handed from callback to callback (gui-dns.c,    *)
(* the *_after_*_dns of gui-handlers.c): as long as it is allocated just    *)
(* one lookup or dialog of dns_timeout has it, a freed one is in none, and  *)
(* no lookup is on dns_query_list without dns_timer, however inner loops    *)
(* nest and whatever runs in them.                                          *)
THEOREM RequestsLookupsAreHeld == Spec => []LookupsAreHeld
<1>1. IInv => LookupsAreHeld
  BY KeptIsHeld DEF IInv, Tidy, LookupsAreHeld
<1>. QED BY <1>1, Invariance, PTL

(* Pages hold one object for a host, under a name of that host, and links   *)
(* of one page (handle_discover_reply, handle_map_icmp_reply,               *)
(* reverse_lookup_cb), however late a reply is and whatever page or object  *)
(* its memory holds by then.                                                *)
THEOREM RequestsPagesAreTrue == Spec => []PagesAreTrue
<1>1. IInv => PagesAreTrue
  BY DEF IInv, PagesTidy, PagesAreTrue
<1>. QED BY <1>1, Invariance, PTL


-----------------------------------------------------------------------------
(* The commands the GUI runs (Commands). *)

Pointer == Threads \union {Nil}

(* The structures of S, each once, are the first n of a list. *)
Exactly(at, n, S) ==
  /\ at[n] = Nil
  /\ \A i \in 0..(n - 1) : at[i] \in S
  /\ \A i, j \in 0..(n - 1) : at[i] = at[j] => i = j
  /\ \A t \in S : \E i \in 0..(n - 1) : at[i] = t

(* What is on the list. *)
Listed == {t \in alive : pc[t] # "free" /\ (gtk = "link" => t # new)}

CommandsTypeOK ==
  /\ gtk \in {"idle", "lock", "link", "create"} /\ new \in Pointer
  /\ pc \in [Threads -> {"none", "system", "search", "unlink", "free", "leaked"}]
  /\ walk \in [Threads -> Pointer]
  /\ locked \in BOOLEAN /\ reinitialized \in BOOLEAN /\ touched \in BOOLEAN
  /\ thread_list \in Pointer /\ next \in [Threads -> Pointer]
  /\ alive \subseteq Threads

OneInSection ==
  /\ \A s, t \in InSection : s = t
  /\ gtk = "link" => InSection = {}
  /\ locked <=> gtk = "link" \/ InSection # {}

(* A structure is allocated from Link until its thread ends.                *)
Owned ==
  /\ gtk \in {"link", "create"} => new \in alive /\ pc[new] = "none"
  /\ \A t \in Threads \ alive : pc[t] = "none"
  /\ \A t \in alive : pc[t] = "none" => gtk \in {"link", "create"} /\ t = new
  /\ \A t \in Threads : pc[t] # "leaked"

(* Nothing comes between the search and the unlinking.                      *)
WalkRemembered ==
  \A t \in Threads : pc[t] = "unlink" =>
    IF walk[t] = Nil THEN thread_list = t ELSE walk[t] \in Listed /\ next[walk[t]] = t

ListKept ==
  /\ ~touched /\ OneInSection /\ Owned /\ WalkRemembered
  /\ Exactly(ThreadList, Cardinality(Listed), Listed)

(* The new structure points to the rest of the list before the head is set.  *)
LinkPoints == gtk = "link" => next[new] = thread_list

ListIsSound == ListKept /\ LinkPoints

CommandsInv == CommandsTypeOK /\ (~reinitialized => ListIsSound)
-----------------------------------------------------------------------------
(* The list as its pointers. *)

After(p, nx) == IF p = Nil THEN Nil ELSE nx[p]

(* The first pointers of a list, up to n.                                   *)
UpTo(g, head, nx, n) ==
  /\ g[0] = head
  /\ \A i \in 0..(n - 1) : g[i + 1] = After(g[i], nx)

LEMMA UpToExists ==
  ASSUME NEW head, NEW nx, NEW n \in Nat
  PROVE  \E g : UpTo(g, head, nx, n)
<1>. DEFINE Bad == {k \in Nat : ~\E g : UpTo(g, head, nx, k)}
<1>1. UpTo([i \in Nat |-> head], head, nx, 0)
  BY DEF UpTo
<1>2. ASSUME NEW k \in Nat, NEW g, UpTo(g, head, nx, k)
      PROVE  UpTo([i \in Nat |-> IF i <= k THEN g[i] ELSE After(g[k], nx)], head, nx, k + 1)
  <2>. DEFINE h == [i \in Nat |-> IF i <= k THEN g[i] ELSE After(g[k], nx)]
  <2>1. h[0] = head
    BY <1>2 DEF UpTo
  <2>2. ASSUME NEW i \in 0..((k + 1) - 1)
        PROVE  h[i + 1] = After(h[i], nx)
    <3>1. CASE i < k
      <4>1. i \in 0..(k - 1) /\ h[i] = g[i] /\ h[i + 1] = g[i + 1]
        BY <3>1
      <4>. QED BY <1>2, <4>1 DEF UpTo
    <3>2. CASE i = k
      <4>1. h[i] = g[k] /\ h[i + 1] = After(g[k], nx)
        BY <3>2
      <4>. QED BY <4>1
    <3>. QED BY <3>1, <3>2
  <2>. HIDE DEF h
  <2>3. UpTo(h, head, nx, k + 1)
    BY <2>1, <2>2 DEF UpTo
  <2>. QED BY <2>3 DEF h
<1>3. Bad = {}
  <2>1. SUFFICES ASSUME Bad # {} PROVE FALSE
    OBVIOUS
  <2>2. PICK m \in Bad : \A k \in Bad : m <= k
    BY <2>1, LeastNat
  <2>3. m # 0
    BY <1>1, <2>2
  <2>4. m - 1 \in Nat /\ m - 1 \notin Bad /\ (m - 1) + 1 = m
    BY <2>2, <2>3
  <2>5. PICK g : UpTo(g, head, nx, m - 1)
    BY <2>4
  <2>6. \E h : UpTo(h, head, nx, m)
    BY <1>2, <2>4, <2>5
  <2>. QED BY <2>2, <2>6
<1>. QED BY <1>3

LEMMA UpToUnique ==
  ASSUME NEW head, NEW nx, NEW n \in Nat, NEW g, NEW h,
         UpTo(g, head, nx, n), UpTo(h, head, nx, n), NEW i \in 0..n
  PROVE  g[i] = h[i]
<1>. DEFINE Bad == {k \in 0..n : g[k] # h[k]}
<1>1. Bad = {}
  <2>1. SUFFICES ASSUME Bad # {} PROVE FALSE
    OBVIOUS
  <2>. Bad \subseteq Nat
    OBVIOUS
  <2>2. PICK m \in Bad : \A k \in Bad : m <= k
    <3>. HIDE DEF Bad
    <3>. QED BY <2>1, LeastNat
  <2>3. m # 0
    BY <2>2 DEF UpTo
  <2>4. m - 1 \in 0..(n - 1) /\ m - 1 \in 0..n /\ m - 1 \notin Bad /\ (m - 1) + 1 = m
    BY <2>2, <2>3
  <2>5. g[m - 1] = h[m - 1]
    BY <2>4
  <2>6. g[m] = After(g[m - 1], nx) /\ h[m] = After(h[m - 1], nx)
    BY <2>4 DEF UpTo
  <2>. QED BY <2>2, <2>5, <2>6
<1>. QED BY <1>1

LEMMA PointersFollow ==
  ASSUME NEW head, NEW nx
  PROVE  /\ Pointers(head, nx)[0] = head
         /\ \A i \in Nat : Pointers(head, nx)[i + 1] = After(Pointers(head, nx)[i], nx)
<1>. DEFINE F(g) == [i \in Nat |-> IF i = 0 THEN head ELSE IF g[i - 1] = Nil THEN Nil ELSE nx[g[i - 1]]]
            U(n) == CHOOSE g : UpTo(g, head, nx, n)
            at == [n \in Nat |-> U(n)[n]]
<1>1. ASSUME NEW n \in Nat
      PROVE  UpTo(U(n), head, nx, n)
  BY UpToExists
<1>2. at[0] = head
  BY <1>1 DEF UpTo
<1>3. ASSUME NEW n \in Nat
      PROVE  at[n + 1] = After(at[n], nx)
  <2>1. UpTo(U(n), head, nx, n) /\ UpTo(U(n + 1), head, nx, n + 1)
    BY <1>1
  <2>. HIDE DEF U
  <2>2. UpTo(U(n + 1), head, nx, n)
    BY <2>1 DEF UpTo
  <2>3. U(n + 1)[n] = U(n)[n]
    BY <2>1, <2>2, UpToUnique
  <2>4. U(n + 1)[n + 1] = After(U(n + 1)[n], nx)
    BY <2>1 DEF UpTo
  <2>. QED BY <2>3, <2>4
<1>4. at = F(at)
  <2>. DEFINE v(i) == IF i = 0 THEN head ELSE IF at[i - 1] = Nil THEN Nil ELSE nx[at[i - 1]]
  <2>1. ASSUME NEW i \in Nat
        PROVE  at[i] = v(i)
    <3>. HIDE DEF at
    <3>1. CASE i = 0
      BY <1>2, <3>1
    <3>2. CASE i # 0
      <4>1. i - 1 \in Nat /\ (i - 1) + 1 = i
        BY <3>2
      <4>2. at[i] = After(at[i - 1], nx)
        BY <1>3, <4>1
      <4>. QED BY <3>2, <4>2 DEF After
    <3>. QED BY <3>1, <3>2
  <2>2. at = [i \in Nat |-> at[i]]
    OBVIOUS
  <2>. HIDE DEF at
  <2>. QED BY <2>1, <2>2
<1>5. \E g : g = F(g)
  <2>. HIDE DEF at, F
  <2>. QED BY <1>4
<1>. DEFINE P == CHOOSE g : g = F(g)
<1>6. P = F(P)
  <2>. HIDE DEF F
  <2>. QED BY <1>5
<1>7. Pointers(head, nx) = P
  BY DEF Pointers
<1>8. /\ P[0] = head
      /\ \A i \in Nat : P[i + 1] = IF P[i] = Nil THEN Nil ELSE nx[P[i]]
  <2>. HIDE DEF P
  <2>1. P[0] = head
    BY <1>6
  <2>2. ASSUME NEW i \in Nat
        PROVE  P[i + 1] = IF P[i] = Nil THEN Nil ELSE nx[P[i]]
    <3>1. i + 1 \in Nat /\ i + 1 # 0 /\ (i + 1) - 1 = i
      OBVIOUS
    <3>. QED BY <1>6, <3>1
  <2>. QED BY <2>1, <2>2
<1>. HIDE DEF P
<1>. QED BY <1>7, <1>8 DEF After

LEMMA PointersAre ==
  ASSUME NEW head, NEW nx, NEW n \in Nat, NEW s, UpTo(s, head, nx, n), NEW i \in 0..n
  PROVE  Pointers(head, nx)[i] = s[i]
<1>1. UpTo(Pointers(head, nx), head, nx, n)
  BY PointersFollow DEF UpTo
<1>. QED BY <1>1, UpToUnique

LEMMA PointersEnd ==
  ASSUME NEW head, NEW nx, NEW n \in Nat, Pointers(head, nx)[n] = Nil, NEW i \in Nat, n <= i
  PROVE  Pointers(head, nx)[i] = Nil
<1>. DEFINE at == Pointers(head, nx)
            Bad == {k \in Nat : n <= k /\ at[k] # Nil}
<1>1. \A k \in Nat : at[k + 1] = After(at[k], nx)
  BY PointersFollow
<1>. HIDE DEF at
<1>2. at[n] = Nil
  BY DEF at
<1>3. Bad = {}
  <2>1. SUFFICES ASSUME Bad # {} PROVE FALSE
    OBVIOUS
  <2>. Bad \subseteq Nat
    OBVIOUS
  <2>2. PICK m \in Bad : \A k \in Bad : m <= k
    <3>. HIDE DEF Bad
    <3>. QED BY <2>1, LeastNat
  <2>3. m \in Nat /\ n < m /\ at[m] # Nil
    BY <1>2, <2>2
  <2>4. m - 1 \in Nat /\ n <= m - 1 /\ (m - 1) + 1 = m /\ m - 1 \notin Bad
    BY <2>2, <2>3
  <2>5. at[m - 1] = Nil
    BY <2>4
  <2>6. at[m] = After(at[m - 1], nx)
    BY <1>1, <2>4
  <2>. QED BY <2>3, <2>5, <2>6 DEF After
<1>. QED BY <1>3 DEF at

LEMMA ExactlySame ==
  ASSUME NEW a, NEW b, NEW n \in Nat, NEW S, Exactly(a, n, S), \A i \in 0..n : b[i] = a[i]
  PROVE  Exactly(b, n, S)
BY DEF Exactly

(* One structure taken out of a list. *)
LEMMA ExactlyWithout ==
  ASSUME NEW a, NEW b, NEW n \in Nat, NEW S, Exactly(a, n, S), NEW k \in 0..(n - 1),
         \A i \in 0..(n - 1) : b[i] = IF i < k THEN a[i] ELSE a[i + 1]
  PROVE  n - 1 \in Nat /\ Exactly(b, n - 1, S \ {a[k]})
<1>. DEFINE at(i) == IF i < k THEN i ELSE i + 1
<1>1. n - 1 \in Nat
  OBVIOUS
<1>2. b[n - 1] = Nil
  BY <1>1 DEF Exactly
<1>3. \A i \in 0..((n - 1) - 1) : at(i) \in 0..(n - 1) /\ at(i) # k /\ b[i] = a[at(i)]
  BY <1>1
<1>4. \A i, j \in 0..((n - 1) - 1) : at(i) = at(j) => i = j
  OBVIOUS
<1>5. \A j \in 0..(n - 1) : j # k => \E i \in 0..((n - 1) - 1) : at(i) = j
  <2>. TAKE j \in 0..(n - 1)
  <2>. HAVE j # k
  <2>1. CASE j < k
    BY <2>1
  <2>2. CASE k < j
    <3>1. j - 1 \in 0..((n - 1) - 1) /\ ~(j - 1 < k) /\ (j - 1) + 1 = j
      BY <2>2
    <3>. QED BY <3>1
  <2>. QED BY <2>1, <2>2
<1>. HIDE DEF at
<1>6. \A i \in 0..((n - 1) - 1) : b[i] \in S \ {a[k]}
  BY <1>3 DEF Exactly
<1>7. \A i, j \in 0..((n - 1) - 1) : b[i] = b[j] => i = j
  BY <1>3, <1>4 DEF Exactly
<1>8. \A t \in S \ {a[k]} : \E i \in 0..((n - 1) - 1) : b[i] = t
  <2>. TAKE t \in S \ {a[k]}
  <2>1. PICK j \in 0..(n - 1) : a[j] = t
    BY DEF Exactly
  <2>2. PICK i \in 0..((n - 1) - 1) : at(i) = j
    BY <1>5, <2>1
  <2>. QED BY <1>3, <2>1, <2>2
<1>. QED BY <1>1, <1>2, <1>6, <1>7, <1>8 DEF Exactly

(* A structure that is not on the list may change.                          *)
LEMMA ExactlyElsewhere ==
  ASSUME NEW head, NEW nx, NEW nx2, NEW n \in Nat, NEW S, Nil \notin S,
         Exactly(Pointers(head, nx), n, S), \A t \in S : nx2[t] = nx[t]
  PROVE  Exactly(Pointers(head, nx2), n, S)
<1>. DEFINE at == Pointers(head, nx)
<1>1. at[0] = head /\ \A i \in Nat : at[i + 1] = After(at[i], nx)
  BY PointersFollow
<1>. HIDE DEF at
<1>2. ASSUME NEW i \in 0..(n - 1)
      PROVE  at[i + 1] = After(at[i], nx2)
  <2>1. at[i] \in S
    BY DEF Exactly, at
  <2>. QED BY <1>1, <2>1 DEF After
<1>3. UpTo(at, head, nx2, n)
  BY <1>1, <1>2 DEF UpTo
<1>4. \A i \in 0..n : Pointers(head, nx2)[i] = at[i]
  BY <1>3, PointersAre
<1>. QED BY <1>4, ExactlySame DEF at

(* A structure put at the head. *)
LEMMA ExactlyPush ==
  ASSUME NEW head, NEW nx, NEW n \in Nat, NEW S, NEW t, t # Nil, t \notin S, nx[t] = head,
         Exactly(Pointers(head, nx), n, S)
  PROVE  Exactly(Pointers(t, nx), n + 1, S \union {t})
<1>. DEFINE at == Pointers(head, nx)
            s  == [i \in Nat |-> IF i = 0 THEN t ELSE at[i - 1]]
<1>1. at[0] = head /\ \A i \in Nat : at[i + 1] = After(at[i], nx)
  BY PointersFollow
<1>2. Exactly(at, n, S)
  OBVIOUS
<1>. HIDE DEF at
<1>3. s[0] = t /\ \A i \in Nat : s[i + 1] = at[i]
  OBVIOUS
<1>. HIDE DEF s
<1>4. ASSUME NEW i \in 0..((n + 1) - 1)
      PROVE  s[i + 1] = After(s[i], nx)
  <2>1. CASE i = 0
    BY <1>1, <1>3, <2>1 DEF After
  <2>2. CASE i # 0
    <3>1. i - 1 \in Nat /\ (i - 1) + 1 = i
      BY <2>2
    <3>2. s[i] = at[i - 1] /\ s[i + 1] = at[i] /\ at[i] = After(at[i - 1], nx)
      BY <1>1, <1>3, <3>1
    <3>. QED BY <3>2
  <2>. QED BY <2>1, <2>2
<1>5. UpTo(s, t, nx, n + 1)
  BY <1>3, <1>4 DEF UpTo
<1>6. \A i \in 0..(n + 1) : Pointers(t, nx)[i] = s[i]
  BY <1>5, PointersAre
<1>7. Exactly(s, n + 1, S \union {t})
  <2>1. s[n + 1] = Nil
    BY <1>2, <1>3 DEF Exactly
  <2>2. \A i \in 0..((n + 1) - 1) : i # 0 => i - 1 \in 0..(n - 1) /\ s[i] = at[i - 1]
    <3>. TAKE i \in 0..((n + 1) - 1)
    <3>. HAVE i # 0
    <3>1. i - 1 \in 0..(n - 1) /\ (i - 1) + 1 = i
      OBVIOUS
    <3>. QED BY <1>3, <3>1
  <2>3. \A i \in 0..((n + 1) - 1) : i # 0 => s[i] \in S
    BY <1>2, <2>2 DEF Exactly
  <2>4. ASSUME NEW i \in 0..((n + 1) - 1), NEW j \in 0..((n + 1) - 1), s[i] = s[j]
        PROVE  i = j
    <3>1. CASE i # 0 /\ j # 0
      <4>1. i - 1 = j - 1
        BY <1>2, <2>2, <2>4, <3>1 DEF Exactly
      <4>. QED BY <4>1
    <3>2. CASE i = 0 \/ j = 0
      BY <1>3, <2>3, <2>4, <3>2
    <3>. QED BY <3>1, <3>2
  <2>5. ASSUME NEW u \in S \union {t}
        PROVE  \E i \in 0..((n + 1) - 1) : s[i] = u
    <3>1. CASE u = t
      BY <1>3, <3>1
    <3>2. CASE u \in S
      <4>1. PICK i \in 0..(n - 1) : at[i] = u
        BY <1>2, <3>2 DEF Exactly
      <4>2. i + 1 \in 0..((n + 1) - 1) /\ s[i + 1] = u
        BY <1>3, <4>1
      <4>. QED BY <4>2
    <3>. QED BY <3>1, <3>2
  <2>. QED BY <1>3, <2>1, <2>3, <2>4, <2>5 DEF Exactly
<1>. QED BY <1>6, <1>7, ExactlySame

(* The structure at the head taken out. *)
LEMMA ExactlyPop ==
  ASSUME NEW head, NEW nx, NEW n \in Nat, NEW S, Nil \notin S, head \in S,
         Exactly(Pointers(head, nx), n, S)
  PROVE  n - 1 \in Nat /\ Exactly(Pointers(nx[head], nx), n - 1, S \ {head})
<1>. DEFINE at == Pointers(head, nx)
            s  == [i \in Nat |-> at[i + 1]]
<1>1. at[0] = head /\ \A i \in Nat : at[i + 1] = After(at[i], nx)
  BY PointersFollow
<1>2. Exactly(at, n, S)
  OBVIOUS
<1>. HIDE DEF at
<1>3. 0 \in 0..(n - 1)
  BY <1>2 DEF Exactly
<1>4. \A i \in Nat : s[i] = at[i + 1]
  OBVIOUS
<1>. HIDE DEF s
<1>5. n - 1 \in Nat /\ Exactly(s, n - 1, S \ {at[0]})
  <2>1. \A i \in 0..(n - 1) : s[i] = IF i < 0 THEN at[i] ELSE at[i + 1]
    BY <1>4
  <2>. QED BY <1>2, <1>3, <2>1, ExactlyWithout
<1>6. UpTo(s, nx[head], nx, n - 1)
  <2>1. s[0] = nx[head]
    BY <1>1, <1>4 DEF After
  <2>. QED BY <1>1, <1>4, <2>1 DEF UpTo
<1>7. \A i \in 0..(n - 1) : Pointers(nx[head], nx)[i] = s[i]
  BY <1>5, <1>6, PointersAre
<1>. QED BY <1>1, <1>5, <1>7, ExactlySame

(* The structure after p taken out. *)
LEMMA ExactlyCut ==
  ASSUME NEW head, NEW nx, NEW n \in Nat, NEW S, Nil \notin S, NEW p \in S, NEW t \in S,
         S \subseteq DOMAIN nx, nx[p] = t, Exactly(Pointers(head, nx), n, S)
  PROVE  n - 1 \in Nat /\ Exactly(Pointers(head, [nx EXCEPT ![p] = nx[t]]), n - 1, S \ {t})
<1>. DEFINE at  == Pointers(head, nx)
            nx2 == [nx EXCEPT ![p] = nx[t]]
<1>1. at[0] = head /\ \A i \in Nat : at[i + 1] = After(at[i], nx)
  BY PointersFollow
<1>2. Exactly(at, n, S)
  OBVIOUS
<1>. HIDE DEF at
<1>3. PICK m \in 0..(n - 1) : at[m] = p
  BY <1>2 DEF Exactly
<1>4. m \in Nat /\ at[m + 1] = t
  BY <1>1, <1>3 DEF After
<1>5. m + 1 \in 0..(n - 1)
  BY <1>2, <1>4 DEF Exactly
<1>. DEFINE s == [i \in Nat |-> IF i < m + 1 THEN at[i] ELSE at[i + 1]]
<1>6. \A i \in Nat : s[i] = IF i < m + 1 THEN at[i] ELSE at[i + 1]
  OBVIOUS
<1>. HIDE DEF s
<1>7. n - 1 \in Nat /\ Exactly(s, n - 1, S \ {t})
  <2>1. \A i \in 0..(n - 1) : s[i] = IF i < m + 1 THEN at[i] ELSE at[i + 1]
    BY <1>6
  <2>. QED BY <1>2, <1>4, <1>5, <2>1, ExactlyWithout
<1>8. nx2[p] = nx[t] /\ \A q \in S : q # p => nx2[q] = nx[q]
  OBVIOUS
<1>9. ASSUME NEW i \in 0..((n - 1) - 1)
      PROVE  s[i + 1] = After(s[i], nx2)
  <2>. HIDE DEF nx2
  <2>1. at[i + 1] = After(at[i], nx) /\ at[(i + 1) + 1] = After(at[i + 1], nx)
    BY <1>1
  <2>5. at[i] \in S /\ at[i + 1] \in S
    BY <1>2 DEF Exactly
  <2>2. CASE i < m
    <3>1. at[i] # p
      BY <1>2, <1>3, <2>2 DEF Exactly
    <3>2. s[i] = at[i] /\ s[i + 1] = at[i + 1]
      BY <1>6, <2>2
    <3>. QED BY <1>8, <2>1, <2>5, <3>1, <3>2 DEF After
  <2>3. CASE i = m
    <3>1. s[i] = p /\ s[i + 1] = at[(i + 1) + 1] /\ at[i + 1] = t
      BY <1>3, <1>4, <1>6, <2>3
    <3>2. p # Nil /\ t # Nil
      OBVIOUS
    <3>. QED BY <1>8, <2>1, <3>1, <3>2 DEF After
  <2>4. CASE m < i
    <3>1. i + 1 \in 0..(n - 1) /\ i + 1 # m
      BY <2>4
    <3>2. at[i + 1] # p
      BY <1>2, <1>3, <3>1 DEF Exactly
    <3>3. s[i] = at[i + 1] /\ s[i + 1] = at[(i + 1) + 1]
      BY <1>6, <2>4
    <3>. QED BY <1>8, <2>1, <2>5, <3>2, <3>3 DEF After
  <2>. QED BY <2>2, <2>3, <2>4
<1>10. s[0] = head
  BY <1>1, <1>6
<1>11. UpTo(s, head, nx2, n - 1)
  BY <1>9, <1>10 DEF UpTo
<1>12. \A i \in 0..(n - 1) : Pointers(head, nx2)[i] = s[i]
  <2>. HIDE DEF nx2
  <2>. QED BY <1>7, <1>11, PointersAre
<1>. QED BY <1>7, <1>12, ExactlySame


LEMMA PointersType ==
  ASSUME NEW head \in Pointer, NEW nx \in [Threads -> Pointer], NEW i \in Nat
  PROVE  Pointers(head, nx)[i] \in Pointer
<1>. DEFINE at == Pointers(head, nx)
            Bad == {k \in Nat : at[k] \notin Pointer}
<1>1. at[0] = head /\ \A k \in Nat : at[k + 1] = After(at[k], nx)
  BY PointersFollow
<1>. HIDE DEF at
<1>2. Bad = {}
  <2>1. SUFFICES ASSUME Bad # {} PROVE FALSE
    OBVIOUS
  <2>. Bad \subseteq Nat
    OBVIOUS
  <2>2. PICK m \in Bad : \A k \in Bad : m <= k
    <3>. HIDE DEF Bad
    <3>. QED BY <2>1, LeastNat
  <2>3. m # 0
    BY <1>1, <2>2
  <2>4. m - 1 \in Nat /\ m - 1 \notin Bad /\ (m - 1) + 1 = m
    BY <2>2, <2>3
  <2>5. at[m] = After(at[m - 1], nx) /\ at[m - 1] \in Pointer
    BY <1>1, <2>4
  <2>. QED BY <2>2, <2>5 DEF After, Pointer
<1>. QED BY <1>2 DEF at

LEMMA ListedFinite ==
  ASSUME alive \subseteq Threads
  PROVE  /\ IsFiniteSet(Listed) /\ Cardinality(Listed) \in Nat /\ Nil \notin Listed
         /\ Cardinality(Threads) \in Nat /\ Cardinality(Listed) <= Cardinality(Threads)
<1>1. Listed \subseteq Threads
  BY DEF Listed
<1>. QED BY <1>1, CommandsAssumption, FS_Subset, FS_CardinalityType

-----------------------------------------------------------------------------
(* The commands and their list. *)

LEMMA CommandsTypes ==
  ASSUME CommandsTypeOK, [CommandsNext]_commands
  PROVE  CommandsTypeOK'
<1>. USE DEF CommandsTypeOK
<1>1. CASE pthread_mutex_init
  BY <1>1 DEF pthread_mutex_init
<1>2. CASE Link
  BY <1>2 DEF Link, Pointer
<1>3. CASE Linked
  BY <1>3 DEF Linked
<1>4. CASE pthread_create
  BY <1>4 DEF pthread_create, Pointer
<1>5. ASSUME NEW t \in Threads, run_service(t)
      PROVE  CommandsTypeOK'
  <2>1. CASE Ended(t)
    BY <2>1 DEF Ended
  <2>2. CASE Search(t)
    <3>1. \A m \in Places : (IF m = 0 THEN Nil ELSE ThreadList[m - 1]) \in Pointer
      <4>. TAKE m \in Places
      <4>1. m # 0 => m - 1 \in Nat
        BY CommandsAssumption, FS_CardinalityType DEF Places
      <4>. QED BY <4>1, PointersType DEF ThreadList, Pointer
    <3>2. walk' \in [Threads -> Pointer]
      BY <2>2, <3>1 DEF Search
    <3>3. touched' \in BOOLEAN /\ pc' \in [Threads -> {"none", "system", "search", "unlink", "free", "leaked"}]
          /\ locked' \in BOOLEAN
      BY <2>2, Zenon DEF Search
    <3>. QED BY <2>2, <3>2, <3>3 DEF Search
  <2>3. CASE Unlinked(t)
    BY <2>3 DEF Unlinked, Pointer
  <2>4. CASE Freed(t)
    BY <2>4 DEF Freed, Pointer
  <2>. QED BY <1>5, <2>1, <2>2, <2>3, <2>4 DEF run_service
<1>6. CASE UNCHANGED commands
  BY <1>6 DEF commands
<1>. QED BY <1>1, <1>2, <1>3, <1>4, <1>5, <1>6 DEF CommandsNext, run_command_callback

LEMMA LinkKeeps ==
  ASSUME CommandsTypeOK, ListIsSound, Link
  PROVE  ListIsSound'
<1>. USE DEF CommandsTypeOK, ListIsSound, ListKept
<1>1. PICK t \in Threads \ alive : /\ pc[t] = "none" /\ new' = t /\ alive' = alive \union {t}
                                   /\ next' = [next EXCEPT ![t] = thread_list]
  BY DEF Link
<1>2. gtk # "link" /\ InSection = {} /\ InSection' = {} /\ gtk' = "link" /\ locked' = TRUE
  BY DEF Link, OneInSection, InSection
<1>3. Listed' = Listed
  BY <1>1, <1>2 DEF Link, Listed
<1>4. OneInSection'
  BY <1>2 DEF OneInSection
<1>5. Owned'
  BY <1>1, <1>2 DEF Link, Owned
<1>6. WalkRemembered'
  BY <1>2 DEF WalkRemembered, InSection
<1>7. Exactly(ThreadList, Cardinality(Listed), Listed)'
  <2>1. \A s \in Listed : next'[s] = next[s]
    BY <1>1 DEF Listed
  <2>2. Exactly(Pointers(thread_list, next'), Cardinality(Listed), Listed)
    BY <2>1, ListedFinite, ExactlyElsewhere DEF ThreadList
  <2>3. ThreadList' = Pointers(thread_list, next')
    BY DEF Link, ThreadList
  <2>. QED BY <1>3, <2>2, <2>3
<1>8. LinkPoints'
  BY <1>1 DEF Link, LinkPoints
<1>9. ~touched'
  BY DEF Link
<1>. QED BY <1>4, <1>5, <1>6, <1>7, <1>8, <1>9

LEMMA LinkedKeeps ==
  ASSUME CommandsTypeOK, ListIsSound, Linked
  PROVE  ListIsSound'
<1>. USE DEF CommandsTypeOK, ListIsSound, ListKept
<1>1. gtk = "link" /\ gtk' = "create" /\ locked' = FALSE /\ InSection = {} /\ InSection' = {}
  BY DEF Linked, OneInSection, InSection
<1>2. new \in alive /\ pc[new] = "none" /\ next[new] = thread_list
  BY <1>1 DEF Owned, LinkPoints
<1>3. new \notin Listed /\ Listed' = Listed \union {new}
  BY <1>1, <1>2 DEF Linked, Listed
<1>4. OneInSection'
  BY <1>1 DEF OneInSection
<1>5. Owned'
  BY <1>1 DEF Linked, Owned
<1>6. WalkRemembered'
  BY <1>1 DEF WalkRemembered, InSection
<1>7. Exactly(ThreadList, Cardinality(Listed), Listed)'
  <2>1. new # Nil
    BY <1>2, CommandsAssumption
  <2>2. Exactly(Pointers(new, next), Cardinality(Listed) + 1, Listed \union {new})
    BY <1>2, <1>3, <2>1, ListedFinite, ExactlyPush DEF ThreadList
  <2>3. Cardinality(Listed \union {new}) = Cardinality(Listed) + 1
    BY <1>3, ListedFinite, FS_AddElement
  <2>4. ThreadList' = Pointers(new, next)
    BY DEF Linked, ThreadList
  <2>. QED BY <1>3, <2>2, <2>3, <2>4
<1>8. LinkPoints' /\ ~touched'
  BY <1>1 DEF Linked, LinkPoints
<1>. QED BY <1>4, <1>5, <1>6, <1>7, <1>8

LEMMA SearchKeeps ==
  ASSUME CommandsTypeOK, ListIsSound, NEW t \in Threads, Search(t)
  PROVE  ListIsSound'
<1>. USE DEF CommandsTypeOK, ListIsSound, ListKept
<1>. DEFINE n == Cardinality(Listed)
            mine == {i \in Places : ThreadList[i] = t}
            read == {ThreadList[i] : i \in {j \in Places : \A m \in mine : j <= m}} \ {Nil}
<1>1. pc[t] = "search" /\ InSection = {t} /\ gtk # "link" /\ locked
  BY DEF Search, OneInSection, InSection
<1>2. t \in Listed
  BY <1>1 DEF Owned, Listed
<1>3. n \in Nat /\ Cardinality(Threads) \in Nat /\ n <= Cardinality(Threads)
  BY ListedFinite
<1>4. \E i \in 0..(n - 1) : ThreadList[i] = t
  BY <1>2 DEF Exactly
<1>5. PICK i \in 0..(n - 1) : ThreadList[i] = t
  BY <1>4
<1>6. i \in mine
  BY <1>3, <1>5 DEF Places
<1>7. read \subseteq Listed
  <2>1. \A j \in Places : j <= i => ThreadList[j] \in Listed
    BY <1>3, <1>5 DEF Places, Exactly
  <2>. QED BY <1>6, <2>1
<1>8. read \subseteq alive
  BY <1>7 DEF Listed
<1>. HIDE DEF n
<1>9. touched' = FALSE
  BY <1>8 DEF Search
<1>10. PICK m \in mine : /\ \A k \in mine : m <= k
                         /\ walk' = [walk EXCEPT ![t] = IF m = 0 THEN Nil ELSE ThreadList[m - 1]]
                         /\ pc' = [pc EXCEPT ![t] = "unlink"]
                         /\ locked' = locked
  BY <1>6 DEF Search
<1>11. m \in 0..(n - 1) /\ ThreadList[m] = t
  BY <1>3, <1>5, <1>6, <1>10 DEF Places
<1>12. UNCHANGED <<gtk, new, thread_list, next, alive, reinitialized>>
  BY DEF Search
<1>13. Listed' = Listed
  BY <1>1, <1>10, <1>12 DEF Listed
<1>14. InSection' = {t}
  BY <1>1, <1>10 DEF InSection
<1>15. OneInSection'
  BY <1>1, <1>10, <1>12, <1>14 DEF OneInSection
<1>16. Owned'
  BY <1>1, <1>10, <1>12 DEF Owned
<1>17. WalkRemembered'
  <2>1. ASSUME NEW s \in Threads, pc'[s] = "unlink"
        PROVE  s = t
    BY <1>14, <2>1 DEF InSection
  <2>2. \A k \in Nat : ThreadList[k + 1] = After(ThreadList[k], next)
    BY PointersFollow DEF ThreadList
  <2>3. CASE m = 0
    <3>1. walk'[t] = Nil /\ thread_list = t
      <4>1. ThreadList[0] = thread_list
        BY PointersFollow DEF ThreadList
      <4>. QED BY <1>10, <1>11, <2>3, <4>1
    <3>. QED BY <1>12, <2>1, <3>1 DEF WalkRemembered
  <2>4. CASE m # 0
    <3>1. m - 1 \in 0..(n - 1) /\ (m - 1) + 1 = m
      BY <1>3, <1>11, <2>4
    <3>2. walk'[t] = ThreadList[m - 1]
      BY <1>10, <2>4
    <3>3. ThreadList[m - 1] \in Listed
      BY <3>1 DEF Exactly, n
    <3>4. ThreadList[m - 1] # Nil
      BY <3>3, ListedFinite
    <3>5. next[ThreadList[m - 1]] = t
      BY <1>11, <2>2, <3>1, <3>4 DEF After
    <3>. QED BY <1>12, <1>13, <2>1, <3>2, <3>3, <3>4, <3>5 DEF WalkRemembered
  <2>. QED BY <2>3, <2>4
<1>18. Exactly(ThreadList, Cardinality(Listed), Listed)'
  <2>1. ThreadList' = ThreadList
    BY <1>12 DEF ThreadList
  <2>. QED BY <1>13, <2>1
<1>19. LinkPoints'
  BY <1>12 DEF LinkPoints
<1>. QED BY <1>9, <1>15, <1>16, <1>17, <1>18, <1>19

LEMMA UnlinkedKeeps ==
  ASSUME CommandsTypeOK, ListIsSound, NEW t \in Threads, Unlinked(t)
  PROVE  ListIsSound'
<1>. USE DEF CommandsTypeOK, ListIsSound, ListKept
<1>1. pc[t] = "unlink" /\ InSection = {t} /\ gtk # "link" /\ locked
  BY DEF Unlinked, OneInSection, InSection
<1>2. t \in Listed
  BY <1>1 DEF Owned, Listed
<1>3. /\ pc' = [pc EXCEPT ![t] = "free"]
      /\ UNCHANGED <<gtk, new, locked, alive, reinitialized>>
  BY DEF Unlinked
<1>4. Listed' = Listed \ {t}
  BY <1>1, <1>3 DEF Listed
<1>5. InSection' = {t}
  BY <1>1, <1>3 DEF InSection
<1>6. OneInSection'
  BY <1>1, <1>3, <1>5 DEF OneInSection
<1>7. Owned'
  BY <1>1, <1>3 DEF Owned
<1>8. WalkRemembered'
  <2>1. \A s \in Threads : pc'[s] # "unlink"
    BY <1>3, <1>5 DEF InSection
  <2>. QED BY <2>1 DEF WalkRemembered
<1>9. LinkPoints'
  BY <1>1, <1>3 DEF LinkPoints
<1>10. Cardinality(Listed \ {t}) = Cardinality(Listed) - 1
  BY <1>2, ListedFinite, FS_RemoveElement
<1>11. Exactly(Pointers(thread_list', next'), Cardinality(Listed) - 1, Listed \ {t}) /\ ~touched'
  <2>1. CASE walk[t] = Nil
    <3>1. thread_list = t /\ thread_list' = next[t] /\ next' = next /\ touched' = touched
      BY <1>1, <2>1 DEF Unlinked, WalkRemembered
    <3>. QED BY <1>2, <3>1, ListedFinite, ExactlyPop DEF ThreadList
  <2>2. CASE walk[t] # Nil
    <3>1. walk[t] \in Listed /\ next[walk[t]] = t
      BY <1>1, <2>2 DEF WalkRemembered
    <3>2. /\ next' = [next EXCEPT ![walk[t]] = next[t]]
          /\ thread_list' = thread_list
      BY <2>2 DEF Unlinked
    <3>3. ~touched'
      BY <2>2, <3>1 DEF Unlinked, Listed
    <3>4. Listed \subseteq DOMAIN next
      BY DEF Listed
    <3>5. Exactly(Pointers(thread_list, [next EXCEPT ![walk[t]] = next[t]]),
                  Cardinality(Listed) - 1, Listed \ {t})
      BY <1>2, <3>1, <3>4, ListedFinite, ExactlyCut DEF ThreadList
    <3>. QED BY <3>2, <3>3, <3>5
  <2>. QED BY <2>1, <2>2
<1>12. Exactly(ThreadList, Cardinality(Listed), Listed)'
  BY <1>4, <1>10, <1>11 DEF ThreadList
<1>. QED BY <1>6, <1>7, <1>8, <1>9, <1>11, <1>12

LEMMA FreedKeeps ==
  ASSUME CommandsTypeOK, ListIsSound, NEW t \in Threads, Freed(t)
  PROVE  ListIsSound'
<1>. USE DEF CommandsTypeOK, ListIsSound, ListKept
<1>1. pc[t] = "free" /\ InSection = {t} /\ gtk # "link" /\ locked
  BY DEF Freed, OneInSection, InSection
<1>2. /\ pc' = [pc EXCEPT ![t] = "none"] /\ alive' = alive \ {t} /\ ~locked'
      /\ next' = [next EXCEPT ![t] = Nil]
      /\ UNCHANGED <<gtk, new, thread_list, reinitialized, touched>>
  BY DEF Freed
<1>3. Listed' = Listed /\ t \notin Listed
  BY <1>1, <1>2 DEF Listed
<1>4. InSection' = {}
  BY <1>1, <1>2 DEF InSection
<1>5. OneInSection'
  BY <1>1, <1>2, <1>4 DEF OneInSection
<1>6. Owned'
  BY <1>1, <1>2 DEF Owned
<1>7. WalkRemembered' /\ LinkPoints'
  BY <1>1, <1>2, <1>4 DEF WalkRemembered, InSection, LinkPoints
<1>8. Exactly(ThreadList, Cardinality(Listed), Listed)'
  <2>1. \A s \in Listed : next'[s] = next[s]
    BY <1>2, <1>3 DEF Listed
  <2>2. Exactly(Pointers(thread_list, next'), Cardinality(Listed), Listed)
    BY <2>1, ListedFinite, ExactlyElsewhere DEF ThreadList
  <2>. QED BY <1>2, <1>3, <2>2 DEF ThreadList
<1>. QED BY <1>2, <1>5, <1>6, <1>7, <1>8

LEMMA CommandsInvStep ==
  ASSUME CommandsInv, [CommandsNext]_commands
  PROVE  CommandsInv'
<1>. USE DEF CommandsInv
<1>1. CommandsTypeOK /\ CommandsTypeOK'
  BY CommandsTypes
<1>2. SUFFICES ASSUME ~reinitialized' PROVE ListIsSound'
  BY <1>1 DEF ListIsSound
<1>3. ~reinitialized
  BY <1>2 DEF CommandsNext, run_command_callback, run_service, pthread_mutex_init, Link, Linked,
              pthread_create, Ended, Search, Unlinked, Freed, commands
<1>4. ListIsSound
  BY <1>3 DEF ListIsSound
<1>5. ASSUME UNCHANGED <<walk, thread_list, next, alive, touched>>,
             \/ pthread_mutex_init \/ pthread_create \/ \E t \in Threads : Ended(t)
      PROVE  ListIsSound'
  <2>. USE DEF CommandsTypeOK, ListIsSound, ListKept
  <2>1. Listed' = Listed
    <3>1. CASE pthread_mutex_init
      BY <3>1 DEF pthread_mutex_init, Listed
    <3>2. CASE pthread_create
      BY <1>1, <1>4, <1>5, <3>2 DEF pthread_create, Listed, Owned
    <3>3. CASE \E t \in Threads : Ended(t)
      BY <1>1, <1>5, <3>3 DEF Ended, Listed
    <3>. QED BY <1>5, <3>1, <3>2, <3>3
  <2>2. OneInSection'
    <3>1. CASE pthread_mutex_init
      BY <1>1, <1>2, <1>4, <3>1 DEF pthread_mutex_init, OneInSection, InSection
    <3>2. CASE pthread_create
      BY <1>1, <1>4, <3>2 DEF pthread_create, OneInSection, InSection, Owned
    <3>3. CASE \E t \in Threads : Ended(t)
      BY <1>1, <1>4, <3>3 DEF Ended, OneInSection, InSection
    <3>. QED BY <1>5, <3>1, <3>2, <3>3
  <2>3. Owned'
    <3>1. CASE pthread_mutex_init
      BY <1>1, <1>4, <3>1 DEF pthread_mutex_init, Owned
    <3>2. CASE pthread_create
      BY <1>1, <1>4, <3>2 DEF pthread_create, Owned
    <3>3. CASE \E t \in Threads : Ended(t)
      BY <1>1, <1>4, <3>3 DEF Ended, Owned
    <3>. QED BY <1>5, <3>1, <3>2, <3>3
  <2>4. \A t \in Threads : pc'[t] = "unlink" => pc[t] = "unlink"
    BY <1>1, <1>5 DEF pthread_mutex_init, pthread_create, Ended
  <2>5. WalkRemembered'
    BY <1>4, <1>5, <2>1, <2>4 DEF WalkRemembered
  <2>6. gtk' # "link"
    BY <1>4, <1>5 DEF pthread_mutex_init, pthread_create, Ended, OneInSection
  <2>7. LinkPoints'
    BY <2>6 DEF LinkPoints
  <2>8. ThreadList' = ThreadList
    BY <1>5 DEF ThreadList
  <2>. QED BY <1>4, <1>5, <2>1, <2>2, <2>3, <2>5, <2>7, <2>8
<1>6. CASE pthread_mutex_init
  BY <1>5, <1>6 DEF pthread_mutex_init
<1>7. CASE pthread_create
  BY <1>5, <1>7 DEF pthread_create
<1>8. CASE Link
  BY <1>1, <1>4, <1>8, LinkKeeps
<1>9. CASE Linked
  BY <1>1, <1>4, <1>9, LinkedKeeps
<1>10. ASSUME NEW t \in Threads, run_service(t)
       PROVE  ListIsSound'
  <2>1. CASE Ended(t)
    BY <1>5, <2>1 DEF Ended
  <2>2. CASE Search(t)
    BY <1>1, <1>4, <2>2, SearchKeeps
  <2>3. CASE Unlinked(t)
    BY <1>1, <1>4, <2>3, UnlinkedKeeps
  <2>4. CASE Freed(t)
    BY <1>1, <1>4, <2>4, FreedKeeps
  <2>. QED BY <1>10, <2>1, <2>2, <2>3, <2>4 DEF run_service
<1>11. CASE UNCHANGED commands
  BY <1>4, <1>11 DEF commands, ListIsSound, ListKept, LinkPoints, OneInSection, InSection, Owned, WalkRemembered,
                     Listed, ThreadList, Exactly
<1>. QED BY <1>6, <1>7, <1>8, <1>9, <1>10, <1>11 DEF CommandsNext, run_command_callback

LEMMA CommandsInvInit ==
  ASSUME CommandsInit
  PROVE  CommandsInv
<1>. USE DEF CommandsInit
<1>1. CommandsTypeOK
  BY DEF CommandsTypeOK, Pointer
<1>2. Listed = {} /\ InSection = {}
  BY DEF Listed, InSection
<1>3. Cardinality(Listed) = 0
  BY <1>2, FS_EmptySet
<1>4. Exactly(ThreadList, 0, {})
  <2>1. ThreadList[0] = Nil
    BY PointersFollow DEF ThreadList
  <2>. QED BY <2>1 DEF Exactly
<1>. QED BY <1>1, <1>2, <1>3, <1>4
         DEF CommandsInv, ListIsSound, ListKept, LinkPoints, OneInSection, Owned, WalkRemembered

LEMMA CommandsInvImplies ==
  ASSUME CommandsInv
  PROVE  ThreadsKeepTheList
<1>. USE DEF CommandsInv, CommandsTypeOK, ListIsSound, ListKept
<1>1. SUFFICES ASSUME ~reinitialized
               PROVE  /\ Cardinality(InSection) + (IF gtk = "link" THEN 1 ELSE 0)
                           = (IF locked THEN 1 ELSE 0)
                      /\ ~locked => /\ {ThreadList[i] : i \in Places} \ {Nil} = alive
                                    /\ ThreadList[Cardinality(alive)] = Nil
  BY DEF ThreadsKeepTheList, Owned
<1>2. Cardinality(InSection) + (IF gtk = "link" THEN 1 ELSE 0) = (IF locked THEN 1 ELSE 0)
  <2>1. CASE InSection = {}
    <3>1. Cardinality(InSection) = 0
      BY <2>1, FS_EmptySet
    <3>. QED BY <1>1, <2>1, <3>1 DEF OneInSection
  <2>2. CASE InSection # {}
    <3>1. PICK t \in InSection : InSection = {t}
      BY <1>1, <2>2 DEF OneInSection
    <3>2. Cardinality(InSection) = 1
      BY <3>1, FS_Singleton
    <3>. QED BY <1>1, <2>2, <3>2 DEF OneInSection
  <2>. QED BY <2>1, <2>2
<1>3. ASSUME ~locked
      PROVE  /\ {ThreadList[i] : i \in Places} \ {Nil} = alive
             /\ ThreadList[Cardinality(alive)] = Nil
  <2>. DEFINE n == Cardinality(Listed)
  <2>1. Listed = alive
    <3>1. gtk # "link" /\ InSection = {}
      BY <1>1, <1>3 DEF OneInSection
    <3>. QED BY <3>1 DEF InSection, Listed
  <2>2. n \in Nat /\ n <= Cardinality(Threads) /\ Cardinality(Threads) \in Nat
    BY ListedFinite
  <2>3. Exactly(ThreadList, n, alive)
    BY <1>1, <2>1
  <2>. HIDE DEF n
  <2>4. \A i \in Nat : n <= i => ThreadList[i] = Nil
    BY <2>2, <2>3, PointersEnd DEF Exactly, ThreadList
  <2>5. \A i \in Places : ThreadList[i] # Nil => ThreadList[i] \in alive
    <3>. TAKE i \in Places
    <3>. HAVE ThreadList[i] # Nil
    <3>1. i \in 0..(n - 1)
      BY <2>2, <2>4 DEF Places
    <3>. QED BY <2>3, <3>1 DEF Exactly
  <2>6. \A t \in alive : t # Nil /\ \E i \in Places : ThreadList[i] = t
    <3>. TAKE t \in alive
    <3>1. PICK i \in 0..(n - 1) : ThreadList[i] = t
      BY <2>3 DEF Exactly
    <3>2. i \in Places
      BY <2>2 DEF Places
    <3>. QED BY <3>1, <3>2, CommandsAssumption
  <2>7. ThreadList[Cardinality(alive)] = Nil
    BY <2>1, <2>3 DEF Exactly, n
  <2>. QED BY <2>5, <2>6, <2>7
<1>. QED BY <1>2, <1>3

(* As long as no call of run_command_callback has initialized the mutex      *)
(* under a thread that holds it (gui-service.c:579), any number of commands  *)
(* that run, start and end keep the list: one thread at a time is at it, no  *)
(* freed structure is read or written, none is lost, and whenever the mutex  *)
(* is free the list is exactly the commands that run, each of them once.     *)
THEOREM CommandsThreadsKeepTheList == CommandsSpec => []ThreadsKeepTheList
<1>1. CommandsInit => CommandsInv
  BY CommandsInvInit
<1>2. CommandsInv /\ [CommandsNext]_commands => CommandsInv'
  BY CommandsInvStep
<1>3. CommandsInv => ThreadsKeepTheList
  BY CommandsInvImplies
<1>. QED BY <1>1, <1>2, <1>3, PTL DEF CommandsSpec
=============================================================================
