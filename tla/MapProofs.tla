----------------------------- MODULE MapProofs -----------------------------
(***************************************************************************)
(* Proofs about the map of a network: how it is traced and how its hosts    *)
(* are found.                                                               *)
(*                                                                         *)
(* MapTrace, for any hosts, paths, limits and numbers of traces, retries    *)
(* and doubled answers: the timer watches every request, the links of a     *)
(* request are one path, and the path is the true one as long as nothing    *)
(* could be mixed up.                                                       *)
(*                                                                         *)
(* Discover, for any addresses, any number of requests and cells and        *)
(* whatever is allocated where: a discover reply names an address of the    *)
(* asker's range that has answered, and a sweep that ended has left out no  *)
(* address.                                                                 *)
(***************************************************************************)
EXTENDS MapTrace, Discover, SequenceTheorems, FiniteSetTheorems, TLAPS

-----------------------------------------------------------------------------
(* The network. *)

NetIsBag == IsABag(net)

(* The last hop of a path is the host. *)
RepliesAreFromHosts ==
  \A a \in BagToSet(net) : a.type = "reply" => a.from = a.dest

(* What a probe brings is an answer. *)
LEMMA AnswerType ==
  ASSUME NEW d \in Dests, NEW ttl \in 1..MAP_MAX
  PROVE  /\ Answer(d, ttl) \in Answers
         /\ Answer(d, ttl).dest = d
         /\ Answer(d, ttl).type = "reply" => Answer(d, ttl).from = d
<1>1. Len(Path[d]) \in Nat \ {0} /\ Path[d][Len(Path[d])] = d
  BY MapAssumption
<1>2. ASSUME NEW k \in 1..Len(Path[d]) PROVE Path[d][k] \in Hops
  BY DEF Hops
<1>3. d \in Hops
  BY <1>1, <1>2
<1>4. CASE ttl < Len(Path[d])
  <2>1. Path[d][ttl] \in Hops
    BY <1>1, <1>2, <1>4
  <2>. QED BY <1>4, <2>1 DEF Answer, Answers
<1>5. CASE ~(ttl < Len(Path[d]))
  BY <1>3, <1>5 DEF Answer, Answers
<1>. QED BY <1>4, <1>5

(* Taking one answer out of the net, or leaving it there. *)
LEMMA RestOfBag ==
  ASSUME NEW B, IsABag(B), NEW a \in BagToSet(B), NEW R,
         R = B \/ R = B (-) SetToBag({a})
  PROVE  /\ IsABag(R)
         /\ BagToSet(R) \subseteq BagToSet(B)
         /\ \A x \in BagToSet(R) : B[x] = 1 => R[x] = 1
         /\ R # B /\ B[a] = 1 => a \notin BagToSet(R)
<1>1. \A x \in DOMAIN B : B[x] \in Nat /\ B[x] > 0
  BY DEF IsABag
<1>2. CASE R = B
  BY <1>2
<1>3. CASE R = B (-) SetToBag({a})
  <2> DEFINE C == [x \in DOMAIN B |-> IF x \in {a} THEN B[x] - 1 ELSE B[x]]
  <2>1. R = [x \in {y \in DOMAIN C : C[y] > 0} |-> C[x]]
    BY <1>3 DEF (-), SetToBag
  <2>2. \A x \in DOMAIN B : C[x] \in Nat /\ C[x] <= B[x]
    BY <1>1
  <2>3. C[a] = B[a] - 1
    BY DEF BagToSet
  <2>4. DOMAIN C = DOMAIN B
    OBVIOUS
  <2> HIDE DEF C
  <2>5. DOMAIN R \subseteq DOMAIN B /\ \A x \in DOMAIN R : R[x] = C[x] /\ C[x] > 0
    BY <2>1, <2>4
  <2>6. R = [x \in DOMAIN R |-> R[x]]
    BY <2>1
  <2>7. IsABag(R)
    BY <2>2, <2>5, <2>6 DEF IsABag
  <2>8. \A x \in DOMAIN R : B[x] = 1 => R[x] = 1
    BY <2>2, <2>5
  <2>9. B[a] = 1 => a \notin DOMAIN R
    BY <2>3, <2>5
  <2>. QED BY <2>5, <2>7, <2>8, <2>9 DEF BagToSet
<1>. QED BY <1>2, <1>3

(* Sending the probes of the requests G into the net. *)
LEMMA ProbesSent ==
  ASSUME NEW R, IsABag(R), NEW G, IsFiniteSet(G), NEW tr,
         NEW N, N = R (+) Probes(G, tr)
  PROVE  /\ IsABag(N)
         /\ BagToSet(N) = BagToSet(R) \union {Answer(tr[n].dest, tr[n].ttl) : n \in G}
         /\ \A x \in BagToSet(R) :
              (\A n \in G : Answer(tr[n].dest, tr[n].ttl) # x) => N[x] = R[x]
         /\ \A n \in G :
              /\ Answer(tr[n].dest, tr[n].ttl) \notin BagToSet(R)
              /\ \A m \in G : Answer(tr[m].dest, tr[m].ttl) = Answer(tr[n].dest, tr[n].ttl)
                             => m = n
              => N[Answer(tr[n].dest, tr[n].ttl)] = 1
<1> DEFINE answer(n) == Answer(tr[n].dest, tr[n].ttl)
           P == Probes(G, tr)
           times(x) == Cardinality({n \in G : answer(n) = x})
<1>1. P = [x \in {answer(n) : n \in G} |-> times(x)]
  BY DEF Probes
<1>2. ASSUME NEW x \in {answer(n) : n \in G} PROVE times(x) \in Nat /\ times(x) > 0
  <2>1. IsFiniteSet({n \in G : answer(n) = x})
    BY FS_Subset
  <2>2. {n \in G : answer(n) = x} # {}
    OBVIOUS
  <2>3. times(x) \in Nat /\ times(x) # 0
    BY <2>1, <2>2, FS_CardinalityType, FS_EmptySet
  <2>. QED BY <2>3
<1>3. ASSUME NEW n \in G, \A m \in G : answer(m) = answer(n) => m = n
      PROVE  times(answer(n)) = 1
  <2>1. {m \in G : answer(m) = answer(n)} = {n}
    BY <1>3
  <2>. QED BY <2>1, FS_Singleton
<1> HIDE DEF times, P
<1>4. DOMAIN P = {answer(n) : n \in G} /\ \A x \in DOMAIN P : P[x] = times(x)
  BY <1>1
<1> HIDE DEF answer
<1>5. N = [x \in DOMAIN R \union DOMAIN P |->
             (IF x \in DOMAIN R THEN R[x] ELSE 0) + (IF x \in DOMAIN P THEN P[x] ELSE 0)]
  BY DEF (+), P
<1>6. \A x \in DOMAIN R : R[x] \in Nat /\ R[x] > 0
  BY DEF IsABag
<1>7. \A x \in DOMAIN P : P[x] \in Nat /\ P[x] > 0
  BY <1>2, <1>4
<1>8. DOMAIN N = DOMAIN R \union DOMAIN P
  BY <1>5
<1>9. ASSUME NEW x \in DOMAIN N PROVE N[x] \in Nat /\ N[x] > 0
  BY <1>5, <1>6, <1>7, <1>8
<1>10. IsABag(N)
  <2>1. N = [x \in DOMAIN N |-> N[x]]
    BY <1>5
  <2>. QED BY <1>9, <2>1 DEF IsABag
<1>11. ASSUME NEW x \in DOMAIN R, \A n \in G : answer(n) # x PROVE N[x] = R[x]
  <2>1. x \notin DOMAIN P
    BY <1>4, <1>11
  <2>. QED BY <1>5, <1>6, <2>1
<1>12. ASSUME NEW n \in G, answer(n) \notin DOMAIN R,
              \A m \in G : answer(m) = answer(n) => m = n
       PROVE  N[answer(n)] = 1
  <2>1. answer(n) \in DOMAIN P
    BY <1>4
  <2>2. P[answer(n)] = 1
    BY <1>3, <1>4, <1>12, <2>1
  <2>. QED BY <1>5, <1>12, <2>1, <2>2
<1>13. BagToSet(N) = BagToSet(R) \union {answer(n) : n \in G}
  BY <1>4, <1>8 DEF BagToSet
<1>. QED BY <1>10, <1>11, <1>12, <1>13 DEF BagToSet, answer

-----------------------------------------------------------------------------
(* The traces. *)

(* The links of one request form a path. *)
OnePath(tr) ==
  \A k \in 1..Len(tr.links) :
    tr.links[k].from = IF k = 1 THEN Local ELSE tr.links[k - 1].to

(* The next link will begin where the links sent so far end. *)
EndsAtLast(tr) ==
  tr.last = IF tr.links = <<>> THEN Local ELSE tr.links[Len(tr.links)].to

(* The links of one request lead along the true path. *)
TruePath(tr) ==
  /\ Len(tr.links) <= Len(Path[tr.dest])
  /\ \A k \in 1..Len(tr.links) :
       \/ tr.links[k].to = Path[tr.dest][k]
       \/ tr.cut /\ k = Len(tr.links) /\ tr.links[k].to = tr.dest

(* The hop that is probed is the one after the links, which no host cut. *)
ProbesNextHop(tr) ==
  /\ ~tr.cut
  /\ Len(tr.links) = tr.ttl - 1
  /\ tr.ttl <= Len(Path[tr.dest])

LEMMA LinksType ==
  ASSUME NEW tr \in Trace
  PROVE  /\ tr.links \in Seq(Link) /\ Len(tr.links) \in Nat
         /\ tr.links = <<>> <=> Len(tr.links) = 0
<1>1. tr.links \in Seq(Link)
  BY DEF Trace
<1>2. Len(tr.links) \in Nat
  BY <1>1, LenProperties
<1>3. tr.links = <<>> <=> Len(tr.links) = 0
  BY <1>1, EmptySeq
<1>. QED BY <1>1, <1>2, <1>3

(* One more link. *)
LEMMA LinkedIs ==
  ASSUME NEW tr \in Trace, NEW hop \in Hops
  PROVE  LET new == Linked(tr, hop)
         IN  /\ new \in Trace
             /\ new = [tr EXCEPT !.links = new.links]
             /\ new.links = Append(tr.links, [from |-> tr.last, to |-> hop])
             /\ Len(new.links) = Len(tr.links) + 1
             /\ \A k \in 1..Len(tr.links) : new.links[k] = tr.links[k]
             /\ new.links[Len(tr.links) + 1] = [from |-> tr.last, to |-> hop]
<1> DEFINE new == Linked(tr, hop)
           link == [from |-> tr.last, to |-> hop]
<1>1. link \in Link
  BY DEF Trace, Link
<1>2. tr.links \in Seq(Link)
  BY LinksType
<1>3. /\ Append(tr.links, link) \in Seq(Link)
      /\ Len(Append(tr.links, link)) = Len(tr.links) + 1
      /\ \A k \in 1..Len(tr.links) : Append(tr.links, link)[k] = tr.links[k]
      /\ Append(tr.links, link)[Len(tr.links) + 1] = link
  BY <1>1, <1>2, AppendProperties
<1>4. new = [tr EXCEPT !.links = Append(tr.links, link)]
  BY DEF Linked
<1> HIDE DEF new, link
<1>5. new.links = Append(tr.links, link)
  BY <1>4 DEF Trace
<1>6. new \in Trace
  BY <1>3, <1>4 DEF Trace
<1>. QED BY <1>3, <1>4, <1>5, <1>6 DEF new, link

(* A path with one more link, from where it ended, is a path. *)
LEMMA LinkedPath ==
  ASSUME NEW tr \in Trace, NEW hop \in Hops, OnePath(tr), EndsAtLast(tr)
  PROVE  OnePath(Linked(tr, hop))
<1> DEFINE new == Linked(tr, hop)
           n == Len(tr.links)
<1>1. /\ Len(new.links) = n + 1
      /\ \A k \in 1..n : new.links[k] = tr.links[k]
      /\ new.links[n + 1] = [from |-> tr.last, to |-> hop]
  BY LinkedIs
<1>2. n \in Nat /\ (tr.links = <<>> <=> n = 0)
  BY LinksType
<1> HIDE DEF new
<1>3. ASSUME NEW k \in 1..(n + 1)
      PROVE  new.links[k].from = IF k = 1 THEN Local ELSE new.links[k - 1].to
  <2>1. CASE k \in 1..n
    <3>1. k # 1 => k - 1 \in 1..n
      BY <1>2, <2>1
    <3>2. new.links[k].from = tr.links[k].from /\ (k # 1 => new.links[k - 1] = tr.links[k - 1])
      BY <1>1, <2>1, <3>1
    <3>3. tr.links[k].from = IF k = 1 THEN Local ELSE tr.links[k - 1].to
      BY <2>1 DEF OnePath
    <3>. QED BY <3>2, <3>3
  <2>2. CASE k = n + 1
    <3>1. new.links[k].from = tr.last
      BY <1>1, <2>2
    <3>2. k = 1 <=> n = 0
      BY <1>2, <2>2
    <3>3. n # 0 => n \in 1..n /\ k - 1 = n
      BY <1>2, <2>2
    <3>4. n # 0 => new.links[k - 1] = tr.links[n]
      BY <1>1, <3>3
    <3>. QED BY <1>2, <3>1, <3>2, <3>4 DEF EndsAtLast
  <2>. QED BY <1>2, <2>1, <2>2
<1>. QED BY <1>1, <1>3 DEF OnePath, new

(* The true path with the hop that was probed is true. *)
LEMMA LinkedTruePath ==
  ASSUME NEW tr \in Trace, NEW hop \in Hops, TruePath(tr), ProbesNextHop(tr),
         hop = Path[tr.dest][tr.ttl]
  PROVE  TruePath(Linked(tr, hop))
<1> DEFINE new == Linked(tr, hop)
           n == Len(tr.links)
<1>1. /\ Len(new.links) = n + 1
      /\ \A k \in 1..n : new.links[k] = tr.links[k]
      /\ new.links[n + 1] = [from |-> tr.last, to |-> hop]
      /\ new.dest = tr.dest /\ ~tr.cut
  BY LinkedIs DEF Trace, ProbesNextHop
<1>2. n \in Nat /\ tr.ttl = n + 1
  BY LinksType DEF ProbesNextHop, Trace
<1> HIDE DEF new
<1>3. ASSUME NEW k \in 1..(n + 1) PROVE new.links[k].to = Path[tr.dest][k]
  <2>1. CASE k \in 1..n
    BY <1>1, <2>1 DEF TruePath
  <2>2. CASE k = n + 1
    BY <1>1, <1>2, <2>2
  <2>. QED BY <1>2, <2>1, <2>2
<1>4. n + 1 <= Len(Path[tr.dest])
  BY <1>2 DEF ProbesNextHop
<1>. QED BY <1>1, <1>3, <1>4 DEF TruePath, new

(* The request after the answer of a hop. *)
LEMMA NextHopIs ==
  ASSUME NEW tr \in Trace, NEW hop \in Hops, tr.ttl < MAP_MAX
  PROVE  LET new == NextHop(tr, hop)
         IN  /\ new \in Trace
             /\ new.dest = tr.dest
             /\ new.ttl = tr.ttl + 1
             /\ new.links = Linked(tr, hop).links
             /\ new.cut = tr.cut
             /\ EndsAtLast(new)
<1> DEFINE one == Linked(tr, hop)
           new == NextHop(tr, hop)
<1>1. /\ one \in Trace /\ one = [tr EXCEPT !.links = one.links]
      /\ Len(one.links) = Len(tr.links) + 1
      /\ one.links[Len(tr.links) + 1] = [from |-> tr.last, to |-> hop]
  BY LinkedIs
<1>2. one.ttl = tr.ttl /\ one.dest = tr.dest /\ one.cut = tr.cut
  BY <1>1 DEF Trace
<1>3. new = [one EXCEPT !.ttl = one.ttl + 1, !.retries = 1, !.last = hop]
  BY DEF NextHop
<1> HIDE DEF one, new
<1>4. tr.ttl + 1 \in 1..MAP_MAX /\ 1 \in 1..(MaxRetries + 1)
  BY MapAssumption DEF Trace
<1>5. new \in Trace
  BY <1>1, <1>2, <1>3, <1>4 DEF Trace
<1>6. /\ new.dest = tr.dest /\ new.ttl = tr.ttl + 1 /\ new.cut = tr.cut
      /\ new.links = one.links /\ new.last = hop
  BY <1>1, <1>2, <1>3 DEF Trace
<1>7. Len(tr.links) \in Nat
  BY LinksType
<1>8. new.links # <<>>
  BY <1>1, <1>6, <1>7, EmptySeq
<1>9. EndsAtLast(new)
  BY <1>1, <1>6, <1>8 DEF EndsAtLast
<1>. QED BY <1>5, <1>6, <1>9 DEF one, new

(* The request that a host cuts short. *)
LEMMA CutIs ==
  ASSUME NEW tr \in Trace, NEW hop \in Hops
  PROVE  LET new == Cut(tr, hop)
         IN  /\ new \in Trace
             /\ new.dest = tr.dest /\ new.ttl = tr.ttl /\ new.cut
             /\ new.links = Linked(tr, hop).links
<1> DEFINE one == Linked(tr, hop)
           new == Cut(tr, hop)
<1>1. one \in Trace /\ one = [tr EXCEPT !.links = one.links]
  BY LinkedIs
<1>2. one.ttl = tr.ttl /\ one.dest = tr.dest
  BY <1>1 DEF Trace
<1>3. new = [one EXCEPT !.cut = TRUE]
  BY DEF Cut
<1> HIDE DEF one, new
<1>4. new \in Trace /\ new.cut = TRUE
  BY <1>1, <1>3 DEF Trace
<1>5. new.dest = one.dest /\ new.ttl = one.ttl /\ new.links = one.links
  BY <1>1, <1>3 DEF Trace
<1>. QED BY <1>2, <1>4, <1>5 DEF one, new

(* A true path that a host cuts short is true but for its last link. *)
LEMMA CutTruePath ==
  ASSUME NEW tr \in Trace, tr.dest \in Hops, TruePath(tr), ProbesNextHop(tr)
  PROVE  TruePath(Cut(tr, tr.dest))
<1> DEFINE new == Cut(tr, tr.dest)
           n == Len(tr.links)
<1>1. /\ Len(new.links) = n + 1
      /\ \A k \in 1..n : new.links[k] = tr.links[k]
      /\ new.links[n + 1] = [from |-> tr.last, to |-> tr.dest]
      /\ new.dest = tr.dest /\ new.cut
  BY LinkedIs, CutIs
<1>2. n \in Nat /\ tr.ttl = n + 1 /\ ~tr.cut
  BY LinksType DEF ProbesNextHop, Trace
<1> HIDE DEF new
<1>3. ASSUME NEW k \in 1..(n + 1)
      PROVE  \/ new.links[k].to = Path[tr.dest][k]
             \/ k = n + 1 /\ new.links[k].to = tr.dest
  <2>1. CASE k \in 1..n
    BY <1>1, <1>2, <2>1 DEF TruePath
  <2>2. CASE k = n + 1
    BY <1>1, <2>2
  <2>. QED BY <1>2, <2>1, <2>2
<1>4. n + 1 <= Len(Path[tr.dest])
  BY <1>2 DEF ProbesNextHop
<1>. QED BY <1>1, <1>3, <1>4 DEF TruePath, new

-----------------------------------------------------------------------------
(* The steps. *)

LEMMA NextCases ==
  ASSUME [Next]_vars, NEW ACTION P,
         \A d \in Dests, np \in Pages : start_mapping(d, np) => P,
         \A n \in mrq : Late(n) => P,
         map_timeout => P,
         TimerEnds => P,
         \A a \in BagToSet(net) : TimeExceeded(a) => P,
         \A a \in BagToSet(net) : EchoReply(a) => P,
         \A h \in Dests : DestUnreach(h) => P,
         \A a \in BagToSet(net) : Lose(a) => P,
         OpenSocket => P,
         UNCHANGED vars => P
  PROVE  P
BY DEF Next

LEMMA TraceFunction ==
  ASSUME NEW q \in Seq(Trace), NEW f \in [1..Len(q) -> Trace]
  PROVE  f \in Seq(Trace) /\ Len(f) = Len(q)
<1>1. Len(q) \in Nat
  BY LenProperties
<1>2. f \in Seq(Trace)
  BY <1>1, SeqDef
<1>3. DOMAIN f = 1..Len(f) /\ Len(f) \in Nat
  BY <1>2, LenProperties
<1>. QED BY <1>1, <1>2, <1>3

NetInv == TypeOK /\ NetIsBag /\ RepliesAreFromHosts

LEMMA RequestsAreFinite == TypeOK => /\ Len(trace) \in Nat
                                     /\ \A G \in SUBSET mrq : IsFiniteSet(G)
<1> SUFFICES ASSUME TypeOK PROVE Len(trace) \in Nat /\ \A G \in SUBSET mrq : IsFiniteSet(G)
  OBVIOUS
<1>1. Len(trace) \in Nat
  BY LenProperties DEF TypeOK
<1>2. IsFiniteSet(1..Len(trace))
  BY <1>1, FS_Interval
<1>3. \A G \in SUBSET mrq : G \in SUBSET (1..Len(trace))
  BY DEF TypeOK
<1>. QED BY <1>1, <1>2, <1>3, FS_Subset

(* start_mapping: one request more, and its probe. *)
LEMMA StartStep ==
  ASSUME NetInv, NEW d \in Dests, NEW np \in Pages, start_mapping(d, np)
  PROVE  LET new == [dest |-> d, np |-> np, ttl |-> 1, retries |-> 1,
                     last |-> Local, links |-> <<>>, cut |-> FALSE]
             N == Len(trace) + 1
             ans == Answer(d, 1)
         IN  /\ new \in Trace
             /\ trace' \in Seq(Trace) /\ Len(trace') = N
             /\ \A n \in 1..Len(trace) : trace'[n] = trace[n]
             /\ trace'[N] = new
             /\ N \notin mrq /\ mrq' = mrq \union {N}
             /\ NetIsBag'
             /\ BagToSet(net') = BagToSet(net) \union {ans}
             /\ \A x \in BagToSet(net) : x # ans => net'[x] = net[x]
             /\ ans \notin BagToSet(net) => net'[ans] = 1
<1> DEFINE new == [dest |-> d, np |-> np, ttl |-> 1, retries |-> 1,
                   last |-> Local, links |-> <<>>, cut |-> FALSE]
           N == Len(trace) + 1
           ans == Answer(d, 1)
<1>1. new \in Trace
  <2>1. 1 \in 1..MAP_MAX /\ 1 \in 1..(MaxRetries + 1)
    BY MapAssumption
  <2>2. <<>> \in Seq(Link)
    BY EmptySeq
  <2>. QED BY <2>1, <2>2 DEF Trace
<1>2. new.dest = d /\ new.ttl = 1
  OBVIOUS
<1>3. trace \in Seq(Trace)
  BY DEF NetInv, TypeOK
<1>4. trace' = Append(trace, new) /\ mrq' = mrq \union {N} /\ net' = net (+) Probes({N}, trace')
  BY DEF start_mapping
<1> HIDE DEF new
<1>5. /\ trace' \in Seq(Trace) /\ Len(trace') = N
      /\ \A n \in 1..Len(trace) : trace'[n] = trace[n]
      /\ trace'[N] = new
  BY <1>1, <1>3, <1>4, AppendProperties
<1>6. N \notin mrq
  BY RequestsAreFinite DEF NetInv, TypeOK
<1>7. Answer(trace'[N].dest, trace'[N].ttl) = ans
  BY <1>2, <1>5
<1>8. IsABag(net)
  BY DEF NetInv, NetIsBag
<1>9. IsFiniteSet({N})
  BY FS_Singleton
<1> HIDE DEF ans
<1> DEFINE G == {N}
<1>10. IsFiniteSet(G) /\ net' = net (+) Probes(G, trace') /\ \A n : n \in G <=> n = N
  BY <1>4, <1>9
<1> HIDE DEF G
<1>12. /\ IsABag(net')
       /\ BagToSet(net') = BagToSet(net) \union {Answer(trace'[n].dest, trace'[n].ttl) : n \in G}
       /\ \A x \in BagToSet(net) :
            (\A n \in G : Answer(trace'[n].dest, trace'[n].ttl) # x) => net'[x] = net[x]
  BY <1>8, <1>10, ProbesSent
<1>13. \A n \in G :
         /\ Answer(trace'[n].dest, trace'[n].ttl) \notin BagToSet(net)
         /\ \A m \in G : Answer(trace'[m].dest, trace'[m].ttl)
                         = Answer(trace'[n].dest, trace'[n].ttl) => m = n
         => net'[Answer(trace'[n].dest, trace'[n].ttl)] = 1
  BY <1>8, <1>10, ProbesSent
<1>11. /\ BagToSet(net') = BagToSet(net) \union {ans}
       /\ \A x \in BagToSet(net) : x # ans => net'[x] = net[x]
       /\ ans \notin BagToSet(net) => net'[ans] = 1
  BY <1>7, <1>10, <1>12, <1>13
<1>. QED BY <1>1, <1>4, <1>5, <1>6, <1>11, <1>12 DEF NetIsBag, new, ans

(* map_timeout: some late requests are given up, the others probed again. *)
Again == InSweep \ GivenUp

LEMMA TimeoutStep ==
  ASSUME NetInv, map_timeout
  PROVE  /\ Again \subseteq mrq
         /\ trace' \in Seq(Trace) /\ Len(trace') = Len(trace)
         /\ \A n \in 1..Len(trace) :
              /\ trace'[n].dest = trace[n].dest /\ trace'[n].ttl = trace[n].ttl
              /\ trace'[n].last = trace[n].last /\ trace'[n].links = trace[n].links
              /\ trace'[n].cut = trace[n].cut
         /\ NetIsBag'
         /\ BagToSet(net') = BagToSet(net) \union {Answer(trace[n].dest, trace[n].ttl) : n \in Again}
         /\ \A x \in BagToSet(net) :
              (\A n \in Again : Answer(trace[n].dest, trace[n].ttl) # x) => net'[x] = net[x]
         /\ disturbed' = disturbed \union {trace[n].dest : n \in Again}
<1> DEFINE more(n) == [trace[n] EXCEPT !.retries = @ + 1]
<1>1. Again \subseteq mrq /\ mrq \subseteq 1..Len(trace)
  BY DEF NetInv, TypeOK, Again, InSweep
<1>2. /\ trace' = [n \in 1..Len(trace) |-> IF n \in Again THEN more(n) ELSE trace[n]]
      /\ net' = net (+) Probes(Again, trace')
      /\ disturbed' = disturbed \union {trace[n].dest : n \in Again}
  BY DEF map_timeout, Again
<1>3. trace \in Seq(Trace) /\ IsABag(net)
  BY DEF NetInv, TypeOK, NetIsBag
<1>4. \A n \in 1..Len(trace) : trace[n] \in Trace
  BY <1>3, ElementOfSeq
<1>5. ASSUME NEW n \in Again PROVE more(n) \in Trace
  <2>1. trace[n] \in Trace
    BY <1>1, <1>4
  <2>2. ~(trace[n].retries > MaxRetries)
    BY DEF Again, GivenUp
  <2>3. trace[n].retries + 1 \in 1..(MaxRetries + 1)
    BY <2>1, <2>2, MapAssumption DEF Trace
  <2>. QED BY <2>1, <2>3 DEF Trace
<1>6. ASSUME NEW n \in 1..Len(trace)
      PROVE  /\ more(n).dest = trace[n].dest /\ more(n).ttl = trace[n].ttl
             /\ more(n).last = trace[n].last /\ more(n).links = trace[n].links
             /\ more(n).cut = trace[n].cut
  BY <1>4 DEF Trace
<1> HIDE DEF more
<1>7. trace' \in [1..Len(trace) -> Trace]
  BY <1>2, <1>4, <1>5
<1>8. trace' \in Seq(Trace) /\ Len(trace') = Len(trace)
  BY <1>3, <1>7, TraceFunction
<1>9. \A n \in 1..Len(trace) :
        /\ trace'[n].dest = trace[n].dest /\ trace'[n].ttl = trace[n].ttl
        /\ trace'[n].last = trace[n].last /\ trace'[n].links = trace[n].links
        /\ trace'[n].cut = trace[n].cut
  BY <1>2, <1>6
<1>10. \A n \in Again : Answer(trace'[n].dest, trace'[n].ttl) = Answer(trace[n].dest, trace[n].ttl)
  BY <1>1, <1>9
<1>11. IsFiniteSet(Again)
  BY <1>1, RequestsAreFinite DEF NetInv
<1>12. /\ IsABag(net')
       /\ BagToSet(net') = BagToSet(net) \union {Answer(trace'[n].dest, trace'[n].ttl) : n \in Again}
       /\ \A x \in BagToSet(net) :
            (\A n \in Again : Answer(trace'[n].dest, trace'[n].ttl) # x) => net'[x] = net[x]
  <2>1. IsABag(net) /\ IsFiniteSet(Again) /\ net' = net (+) Probes(Again, trace')
    BY <1>2, <1>3, <1>11
  <2>. QED BY <2>1, ProbesSent
<1>13. /\ BagToSet(net') = BagToSet(net) \union {Answer(trace[n].dest, trace[n].ttl) : n \in Again}
       /\ \A x \in BagToSet(net) :
            (\A n \in Again : Answer(trace[n].dest, trace[n].ttl) # x) => net'[x] = net[x]
  BY <1>10, <1>12, Zenon
<1>. QED BY <1>1, <1>2, <1>8, <1>9, <1>12, <1>13 DEF NetIsBag

(* TimeExceeded: the requests for the host go on, or end at MAP_MAX. *)
Hits(a) == {n \in mrq : trace[n].dest = a.dest}
GoOn(a) == {n \in Hits(a) : trace[n].ttl < MAP_MAX}

LEMMA TimeExceededStep ==
  ASSUME NetInv, NEW a \in BagToSet(net), TimeExceeded(a)
  PROVE  /\ GoOn(a) \subseteq 1..Len(trace)
         /\ trace' \in Seq(Trace) /\ Len(trace') = Len(trace)
         /\ \A n \in 1..Len(trace) :
              trace'[n] = IF n \in GoOn(a) THEN NextHop(trace[n], a.from) ELSE trace[n]
         /\ mrq' = mrq \ (Hits(a) \ GoOn(a))
         /\ IsABag(Rest(a)) /\ BagToSet(Rest(a)) \subseteq BagToSet(net)
         /\ \A x \in BagToSet(Rest(a)) : net[x] = 1 => Rest(a)[x] = 1
         /\ twice' = twice /\ net[a] = 1 => a \notin BagToSet(Rest(a))
         /\ net' = Rest(a) (+) Probes(GoOn(a), trace')
         /\ NetIsBag'
         /\ BagToSet(net') = BagToSet(Rest(a))
                             \union {Answer(trace'[n].dest, trace'[n].ttl) : n \in GoOn(a)}
<1>1. /\ trace' = [n \in 1..Len(trace) |->
                     IF n \in GoOn(a) THEN NextHop(trace[n], a.from) ELSE trace[n]]
      /\ mrq' = mrq \ (Hits(a) \ GoOn(a))
      /\ net' = Rest(a) (+) Probes(GoOn(a), trace')
  BY DEF TimeExceeded, Hits, GoOn
<1>2. GoOn(a) \subseteq mrq /\ GoOn(a) \subseteq 1..Len(trace)
  BY DEF NetInv, TypeOK, GoOn, Hits
<1>3. trace \in Seq(Trace) /\ a.from \in Hops
  BY DEF NetInv, TypeOK, Answers
<1>4. \A n \in 1..Len(trace) : trace[n] \in Trace
  BY <1>3, ElementOfSeq
<1>5. ASSUME NEW n \in GoOn(a) PROVE NextHop(trace[n], a.from) \in Trace
  <2>1. trace[n] \in Trace /\ trace[n].ttl < MAP_MAX
    BY <1>2, <1>4 DEF GoOn
  <2>. QED BY <1>3, <2>1, NextHopIs
<1>6. trace' \in [1..Len(trace) -> Trace]
  BY <1>1, <1>4, <1>5
<1>7. trace' \in Seq(Trace) /\ Len(trace') = Len(trace)
  BY <1>3, <1>6, TraceFunction
<1>8. IsABag(net) /\ IsFiniteSet(GoOn(a))
  BY <1>2, RequestsAreFinite DEF NetInv, NetIsBag
<1>9. Rest(a) = net \/ Rest(a) = net (-) SetToBag({a})
  BY DEF Rest
<1>10. /\ IsABag(Rest(a)) /\ BagToSet(Rest(a)) \subseteq BagToSet(net)
       /\ \A x \in BagToSet(Rest(a)) : net[x] = 1 => Rest(a)[x] = 1
       /\ Rest(a) # net /\ net[a] = 1 => a \notin BagToSet(Rest(a))
  BY <1>8, <1>9, RestOfBag
<1>11. twice' = twice /\ net[a] = 1 => Rest(a) # net
  <2>1. SUFFICES ASSUME twice' = twice, net[a] = 1, net = net (-) SetToBag({a}) PROVE FALSE
    BY DEF Rest
  <2>2. a \notin DOMAIN (net (-) SetToBag({a}))
    BY <2>1 DEF (-), SetToBag
  <2>. QED BY <2>1, <2>2 DEF BagToSet
<1>12. /\ IsABag(net')
       /\ BagToSet(net') = BagToSet(Rest(a))
                           \union {Answer(trace'[n].dest, trace'[n].ttl) : n \in GoOn(a)}
  <2>1. IsABag(Rest(a)) /\ IsFiniteSet(GoOn(a)) /\ net' = Rest(a) (+) Probes(GoOn(a), trace')
    BY <1>1, <1>8, <1>10
  <2>. QED BY <2>1, ProbesSent
<1>13. \A n \in 1..Len(trace) :
         trace'[n] = IF n \in GoOn(a) THEN NextHop(trace[n], a.from) ELSE trace[n]
  BY <1>1
<1>. QED BY <1>1, <1>2, <1>7, <1>10, <1>11, <1>12, <1>13 DEF NetIsBag

(* EchoReply: the requests for the host end with one more link. *)
Ended(a) == IF a.ttl < MAP_MAX THEN EndedBy(a) ELSE {}

LEMMA EchoReplyStep ==
  ASSUME NetInv, NEW a \in BagToSet(net), EchoReply(a)
  PROVE  /\ Ended(a) \subseteq {n \in mrq : trace[n].dest = a.from}
         /\ trace' \in Seq(Trace) /\ Len(trace') = Len(trace)
         /\ \A n \in 1..Len(trace) :
              trace'[n] = IF n \in Ended(a) THEN Linked(trace[n], a.from) ELSE trace[n]
         /\ mrq' = mrq \ Ended(a)
         /\ NetIsBag'
         /\ BagToSet(net') \subseteq BagToSet(net)
         /\ \A x \in BagToSet(net') : net[x] = 1 => net'[x] = 1
<1>1. /\ trace' = [n \in 1..Len(trace) |->
                     IF n \in Ended(a) THEN Linked(trace[n], a.from) ELSE trace[n]]
      /\ mrq' = mrq \ Ended(a)
      /\ net' = net \/ net' = net (-) SetToBag({a})
  BY DEF EchoReply, Ended, Rest
<1>2. Ended(a) \subseteq {n \in mrq : trace[n].dest = a.from}
  BY DEF Ended, EndedBy
<1>3. trace \in Seq(Trace) /\ a.from \in Hops /\ mrq \subseteq 1..Len(trace) /\ IsABag(net)
  BY DEF NetInv, TypeOK, Answers, NetIsBag
<1>4. \A n \in 1..Len(trace) : trace[n] \in Trace
  BY <1>3, ElementOfSeq
<1>5. \A n \in 1..Len(trace) : Linked(trace[n], a.from) \in Trace
  BY <1>3, <1>4, LinkedIs
<1>6. trace' \in [1..Len(trace) -> Trace]
  BY <1>1, <1>4, <1>5
<1>7. trace' \in Seq(Trace) /\ Len(trace') = Len(trace)
  BY <1>3, <1>6, TraceFunction
<1>8. /\ IsABag(net') /\ BagToSet(net') \subseteq BagToSet(net)
      /\ \A x \in BagToSet(net') : net[x] = 1 => net'[x] = 1
  BY <1>1, <1>3, RestOfBag
<1>9. \A n \in 1..Len(trace) :
        trace'[n] = IF n \in Ended(a) THEN Linked(trace[n], a.from) ELSE trace[n]
  BY <1>1
<1>. QED BY <1>1, <1>2, <1>7, <1>8, <1>9 DEF NetIsBag

(* DestUnreach: the requests for the host end where they are. *)
Refused(h) == {n \in mrq : trace[n].dest = h}

LEMMA DestUnreachStep ==
  ASSUME NetInv, NEW h \in Dests, DestUnreach(h)
  PROVE  /\ Refused(h) \subseteq mrq /\ h \in Hops
         /\ trace' \in Seq(Trace) /\ Len(trace') = Len(trace)
         /\ \A n \in 1..Len(trace) :
              trace'[n] = IF n \in Refused(h) THEN Cut(trace[n], h) ELSE trace[n]
         /\ mrq' = mrq \ Refused(h)
         /\ overdue' = overdue \ Refused(h)
         /\ net' = net
<1>1. /\ trace' = [n \in 1..Len(trace) |->
                     IF n \in Refused(h) THEN Cut(trace[n], h) ELSE trace[n]]
      /\ mrq' = mrq \ Refused(h) /\ overdue' = overdue \ Refused(h) /\ net' = net
  BY DEF DestUnreach, Refused
<1>2. trace \in Seq(Trace) /\ Refused(h) \subseteq mrq
  BY DEF NetInv, TypeOK, Refused
<1>3. h \in Hops
  BY MapAssumption DEF Hops
<1>4. \A n \in 1..Len(trace) : trace[n] \in Trace
  BY <1>2, ElementOfSeq
<1>5. \A n \in 1..Len(trace) : Cut(trace[n], h) \in Trace
  BY <1>3, <1>4, CutIs
<1>6. trace' \in [1..Len(trace) -> Trace]
  BY <1>1, <1>4, <1>5
<1>7. trace' \in Seq(Trace) /\ Len(trace') = Len(trace)
  BY <1>2, <1>6, TraceFunction
<1>8. \A n \in 1..Len(trace) :
        trace'[n] = IF n \in Refused(h) THEN Cut(trace[n], h) ELSE trace[n]
  BY <1>1
<1>. QED BY <1>1, <1>2, <1>3, <1>7, <1>8

(* Lose: one answer fewer. *)
LEMMA LoseStep ==
  ASSUME NetInv, NEW a \in BagToSet(net), Lose(a)
  PROVE  /\ NetIsBag'
         /\ BagToSet(net') \subseteq BagToSet(net)
         /\ \A x \in BagToSet(net') : net[x] = 1 => net'[x] = 1
<1>1. net' = net (-) SetToBag({a}) /\ IsABag(net)
  BY DEF Lose, NetInv, NetIsBag
<1>. QED BY <1>1, RestOfBag DEF NetIsBag

-----------------------------------------------------------------------------
(* Types, the bag of answers, and the timer. *)

LEMMA InitNetInv == Init => NetInv
<1> SUFFICES ASSUME Init PROVE NetInv
  OBVIOUS
<1>1. trace \in Seq(Trace) /\ Len(trace) = 0
  BY EmptySeq DEF Init
<1>2. 0 \in 0..MaxTwice
  BY MapAssumption
<1>3. BagToSet(net) = {} /\ IsABag(net)
  BY DEF Init, EmptyBag, SetToBag, BagToSet, IsABag
<1>. QED BY <1>1, <1>2, <1>3 DEF Init, NetInv, TypeOK, NetIsBag, RepliesAreFromHosts

LEMMA NetInvStep == NetInv /\ [Next]_vars => NetInv'
<1> SUFFICES ASSUME NetInv, [Next]_vars PROVE NetInv'
  OBVIOUS
<1>0. /\ trace \in Seq(Trace) /\ Len(trace) \in Nat /\ mrq \subseteq 1..Len(trace)
      /\ overdue \subseteq mrq /\ BagToSet(net) \subseteq Answers
  BY RequestsAreFinite DEF NetInv, TypeOK
<1>1. ASSUME NEW d \in Dests, NEW np \in Pages, start_mapping(d, np) PROVE NetInv'
  <2> DEFINE ans == Answer(d, 1)
  <2>1. /\ trace' \in Seq(Trace) /\ Len(trace') = Len(trace) + 1
        /\ mrq' = mrq \union {Len(trace) + 1}
        /\ NetIsBag' /\ BagToSet(net') = BagToSet(net) \union {ans}
    BY <1>1, StartStep
  <2>2. ans \in Answers /\ (ans.type = "reply" => ans.from = ans.dest)
    BY MapAssumption, AnswerType
  <2> HIDE DEF ans
  <2>3. RepliesAreFromHosts'
    BY <2>1, <2>2 DEF NetInv, RepliesAreFromHosts
  <2>4. mrq' \subseteq 1..Len(trace') /\ overdue' \subseteq mrq'
    <3>1. overdue' = overdue
      BY <1>1 DEF start_mapping
    <3>2. Len(trace) + 1 \in 1..Len(trace')
      BY <1>0, <2>1
    <3>3. 1..Len(trace) \subseteq 1..Len(trace')
      BY <1>0, <2>1
    <3>4. mrq' \subseteq 1..Len(trace')
      BY <1>0, <2>1, <3>2, <3>3
    <3>. QED BY <1>0, <2>1, <3>1, <3>4
  <2>5. /\ timer' \in BOOLEAN /\ listening' \in BOOLEAN /\ twice' \in 0..MaxTwice
        /\ disturbed' \subseteq Dests
    BY <1>1 DEF start_mapping, InstallTimer, NetInv, TypeOK
  <2>. QED BY <1>0, <2>1, <2>2, <2>3, <2>4, <2>5 DEF NetInv, TypeOK
<1>2. ASSUME NEW n \in mrq, Late(n) PROVE NetInv'
  BY <1>2 DEF Late, NetInv, TypeOK, NetIsBag, RepliesAreFromHosts
<1>3. ASSUME map_timeout PROVE NetInv'
  <2>1. /\ Again \subseteq mrq
        /\ trace' \in Seq(Trace) /\ Len(trace') = Len(trace)
        /\ NetIsBag'
        /\ BagToSet(net') = BagToSet(net) \union {Answer(trace[n].dest, trace[n].ttl) : n \in Again}
        /\ disturbed' = disturbed \union {trace[n].dest : n \in Again}
    BY <1>3, TimeoutStep
  <2>2. ASSUME NEW n \in Again
        PROVE  LET ans == Answer(trace[n].dest, trace[n].ttl)
               IN  /\ trace[n].dest \in Dests /\ ans \in Answers
                   /\ ans.type = "reply" => ans.from = ans.dest
    <3>1. trace[n] \in Trace
      BY <1>0, <2>1, ElementOfSeq
    <3>2. trace[n].dest \in Dests /\ trace[n].ttl \in 1..MAP_MAX
      BY <3>1 DEF Trace
    <3>. QED BY <3>2, AnswerType
  <2>3. BagToSet(net') \subseteq Answers /\ RepliesAreFromHosts'
    BY <1>0, <2>1, <2>2 DEF NetInv, RepliesAreFromHosts
  <2>4. mrq' \subseteq 1..Len(trace') /\ overdue' \subseteq mrq'
    <3>1. mrq' = mrq \ GivenUp /\ overdue' = overdue \ InSweep
      BY <1>3 DEF map_timeout
    <3>2. GivenUp \subseteq InSweep
      BY DEF GivenUp
    <3>. QED BY <1>0, <2>1, <3>1, <3>2
  <2>5. timer' \in BOOLEAN /\ listening' \in BOOLEAN /\ twice' \in 0..MaxTwice
    BY <1>3 DEF map_timeout, NetInv, TypeOK
  <2>6. disturbed' \subseteq Dests
    BY <2>1, <2>2 DEF NetInv, TypeOK
  <2>. QED BY <2>1, <2>3, <2>4, <2>5, <2>6 DEF NetInv, TypeOK
<1>4. ASSUME TimerEnds PROVE NetInv'
  BY <1>4 DEF TimerEnds, NetInv, TypeOK, NetIsBag, RepliesAreFromHosts
<1>5. ASSUME NEW a \in BagToSet(net), TimeExceeded(a) PROVE NetInv'
  <2>1. /\ GoOn(a) \subseteq 1..Len(trace)
        /\ trace' \in Seq(Trace) /\ Len(trace') = Len(trace)
        /\ mrq' = mrq \ (Hits(a) \ GoOn(a))
        /\ BagToSet(Rest(a)) \subseteq BagToSet(net)
        /\ NetIsBag'
        /\ BagToSet(net') = BagToSet(Rest(a))
                            \union {Answer(trace'[n].dest, trace'[n].ttl) : n \in GoOn(a)}
    BY <1>5, TimeExceededStep
  <2>2. ASSUME NEW n \in GoOn(a)
        PROVE  LET ans == Answer(trace'[n].dest, trace'[n].ttl)
               IN  ans \in Answers /\ (ans.type = "reply" => ans.from = ans.dest)
    <3>1. n \in 1..Len(trace')
      BY <2>1
    <3>2. trace'[n] \in Trace
      BY <2>1, <3>1, ElementOfSeq
    <3>3. trace'[n].dest \in Dests /\ trace'[n].ttl \in 1..MAP_MAX
      BY <3>2 DEF Trace
    <3>. QED BY <3>3, AnswerType
  <2>3. BagToSet(net') \subseteq Answers /\ RepliesAreFromHosts'
    BY <1>0, <2>1, <2>2 DEF NetInv, RepliesAreFromHosts
  <2>4. overdue' = overdue \ Hits(a)
    BY <1>5 DEF TimeExceeded, Hits
  <2>5. mrq' \subseteq 1..Len(trace') /\ overdue' \subseteq mrq'
    BY <1>0, <2>1, <2>4
  <2>6. a.dest \in Dests
    BY <1>0 DEF Answers
  <2>7. timer' \in BOOLEAN /\ listening' \in BOOLEAN
    BY <1>5 DEF TimeExceeded, NetInv, TypeOK
  <2>8. twice' \in 0..MaxTwice /\ disturbed' \subseteq Dests
    BY <1>5, <2>6, MapAssumption DEF TimeExceeded, Kept, NetInv, TypeOK
  <2>. QED BY <2>1, <2>3, <2>5, <2>7, <2>8 DEF NetInv, TypeOK
<1>6. ASSUME NEW a \in BagToSet(net), EchoReply(a) PROVE NetInv'
  <2>1. /\ trace' \in Seq(Trace) /\ Len(trace') = Len(trace)
        /\ mrq' = mrq \ Ended(a) /\ NetIsBag' /\ BagToSet(net') \subseteq BagToSet(net)
    BY <1>6, EchoReplyStep
  <2>2. overdue' = overdue \ Ended(a)
    BY <1>6 DEF EchoReply, Ended
  <2>3. a.dest \in Dests
    BY <1>0 DEF Answers
  <2>4. timer' \in BOOLEAN /\ listening' \in BOOLEAN
    BY <1>6 DEF EchoReply, NetInv, TypeOK
  <2>5. twice' \in 0..MaxTwice /\ disturbed' \subseteq Dests
    BY <1>6, <2>3, MapAssumption DEF EchoReply, Kept, NetInv, TypeOK
  <2>6. RepliesAreFromHosts'
    BY <2>1 DEF NetInv, RepliesAreFromHosts
  <2>7. mrq' \subseteq 1..Len(trace') /\ overdue' \subseteq mrq' /\ BagToSet(net') \subseteq Answers
    BY <1>0, <2>1, <2>2
  <2>. QED BY <2>1, <2>4, <2>5, <2>6, <2>7 DEF NetInv, TypeOK
<1>7. ASSUME NEW a \in BagToSet(net), Lose(a) PROVE NetInv'
  <2>1. NetIsBag' /\ BagToSet(net') \subseteq BagToSet(net)
    BY <1>7, LoseStep
  <2>2. RepliesAreFromHosts'
    BY <2>1 DEF NetInv, RepliesAreFromHosts
  <2>. QED BY <1>0, <1>7, <2>1, <2>2 DEF Lose, NetInv, TypeOK
<1>8. ASSUME OpenSocket PROVE NetInv'
  BY <1>8 DEF OpenSocket, NetInv, TypeOK, NetIsBag, RepliesAreFromHosts
<1>9. ASSUME UNCHANGED vars PROVE NetInv'
  BY <1>9 DEF vars, NetInv, TypeOK, NetIsBag, RepliesAreFromHosts
<1>10. ASSUME NEW h \in Dests, DestUnreach(h) PROVE NetInv'
  <2>1. /\ trace' \in Seq(Trace) /\ Len(trace') = Len(trace)
        /\ mrq' = mrq \ Refused(h) /\ overdue' = overdue \ Refused(h) /\ net' = net
    BY <1>10, DestUnreachStep
  <2>2. UNCHANGED <<timer, listening, twice, disturbed>>
    BY <1>10 DEF DestUnreach
  <2>3. mrq' \subseteq 1..Len(trace') /\ overdue' \subseteq mrq'
    BY <1>0, <2>1
  <2>. QED BY <2>1, <2>2, <2>3 DEF NetInv, TypeOK, NetIsBag, RepliesAreFromHosts
<1>. QED BY <1>1, <1>2, <1>3, <1>4, <1>5, <1>6, <1>7, <1>8, <1>9, <1>10, NextCases

(* The state of the traces keeps its types, for any paths and limits: no    *)
(* hop is probed more often than MAX_MAP_REQUEST_RETRIES says (map_timeout). *)
THEOREM MapTypeCorrect == Spec => []TypeOK
<1>1. NetInv => TypeOK
  BY DEF NetInv
<1>. QED BY InitNetInv, NetInvStep, <1>1, PTL DEF Spec

(* A request in the list has its timer, although the timer ends itself      *)
(* (src/agent-map.c:170-174 and 268-269).                                   *)
THEOREM MapTimerWatches == Spec => []TimerWatches
<1>1. Init => TimerWatches
  BY DEF Init, TimerWatches
<1>2. TimerWatches /\ [Next]_vars => TimerWatches'
  <2> SUFFICES ASSUME TimerWatches, [Next]_vars PROVE TimerWatches'
    OBVIOUS
  <2>1. ASSUME NEW d \in Dests, NEW np \in Pages, start_mapping(d, np) PROVE TimerWatches'
    BY <2>1 DEF start_mapping, InstallTimer, TimerWatches
  <2>2. ASSUME mrq' \subseteq mrq, timer' = timer \/ mrq = {} PROVE TimerWatches'
    BY <2>2 DEF TimerWatches
  <2>3. ASSUME NEW n \in mrq, Late(n) PROVE TimerWatches'
    BY <2>2, <2>3 DEF Late
  <2>4. ASSUME map_timeout PROVE TimerWatches'
    BY <2>2, <2>4 DEF map_timeout
  <2>5. ASSUME TimerEnds PROVE TimerWatches'
    BY <2>2, <2>5 DEF TimerEnds
  <2>6. ASSUME NEW a \in BagToSet(net), TimeExceeded(a) PROVE TimerWatches'
    BY <2>2, <2>6 DEF TimeExceeded
  <2>7. ASSUME NEW a \in BagToSet(net), EchoReply(a) PROVE TimerWatches'
    BY <2>2, <2>7 DEF EchoReply
  <2>8. ASSUME NEW a \in BagToSet(net), Lose(a) PROVE TimerWatches'
    BY <2>2, <2>8 DEF Lose
  <2>9. ASSUME OpenSocket \/ UNCHANGED vars PROVE TimerWatches'
    BY <2>2, <2>9 DEF OpenSocket, vars
  <2>10. ASSUME NEW h \in Dests, DestUnreach(h) PROVE TimerWatches'
    BY <2>2, <2>10 DEF DestUnreach
  <2>. QED BY <2>1, <2>3, <2>4, <2>5, <2>6, <2>7, <2>8, <2>9, <2>10, NextCases
<1>. QED BY <1>1, <1>2, PTL DEF Spec

-----------------------------------------------------------------------------
(* The links of a request form one path. *)

(* A request in the list goes on from its last link. *)
GoesOnFromLast == \A n \in mrq : EndsAtLast(trace[n])

PathInv ==
  /\ NetInv
  /\ \A n \in 1..Len(trace) : OnePath(trace[n])
  /\ GoesOnFromLast

LEMMA PathInvStep == PathInv /\ [Next]_vars => PathInv'
<1> SUFFICES ASSUME PathInv, [Next]_vars PROVE PathInv'
  OBVIOUS
<1>0. /\ NetInv /\ NetInv'
      /\ trace \in Seq(Trace) /\ Len(trace) \in Nat /\ mrq \subseteq 1..Len(trace)
      /\ \A a \in BagToSet(net) : a.from \in Hops
  <2>1. NetInv /\ NetInv'
    BY NetInvStep DEF PathInv
  <2>. QED BY <2>1, RequestsAreFinite DEF NetInv, TypeOK, Answers
<1>1. \A n \in 1..Len(trace) : trace[n] \in Trace /\ OnePath(trace[n])
  BY <1>0, ElementOfSeq DEF PathInv
<1>2. \A n \in mrq : EndsAtLast(trace[n])
  BY DEF PathInv, GoesOnFromLast
<1>3. ASSUME UNCHANGED <<trace, mrq>> PROVE PathInv'
  BY <1>0, <1>1, <1>2, <1>3 DEF PathInv, GoesOnFromLast
<1>4. ASSUME NEW d \in Dests, NEW np \in Pages, start_mapping(d, np) PROVE PathInv'
  <2> DEFINE new == [dest |-> d, np |-> np, ttl |-> 1, retries |-> 1,
                     last |-> Local, links |-> <<>>, cut |-> FALSE]
             N == Len(trace) + 1
  <2>1. /\ new \in Trace /\ Len(trace') = N
        /\ \A n \in 1..Len(trace) : trace'[n] = trace[n]
        /\ trace'[N] = new /\ mrq' = mrq \union {N}
    BY <1>0, <1>4, StartStep
  <2>2. OnePath(new) /\ EndsAtLast(new)
    BY EmptySeq DEF OnePath, EndsAtLast
  <2> HIDE DEF new
  <2>3. \A n \in 1..N : n \in 1..Len(trace) \/ n = N
    BY <1>0
  <2>4. \A n \in 1..N : OnePath(trace'[n])
    BY <1>1, <2>1, <2>2, <2>3
  <2>5. \A n \in mrq' : EndsAtLast(trace'[n])
    BY <1>0, <1>2, <2>1, <2>2
  <2>. QED BY <1>0, <2>1, <2>4, <2>5 DEF PathInv, GoesOnFromLast
<1>5. ASSUME map_timeout PROVE PathInv'
  <2>1. /\ Len(trace') = Len(trace)
        /\ \A n \in 1..Len(trace) :
             trace'[n].last = trace[n].last /\ trace'[n].links = trace[n].links
    BY <1>0, <1>5, TimeoutStep
  <2>2. mrq' \subseteq mrq
    BY <1>5 DEF map_timeout
  <2>3. \A n \in 1..Len(trace) : OnePath(trace'[n])
    BY <1>1, <2>1 DEF OnePath
  <2>4. \A n \in mrq' : EndsAtLast(trace'[n])
    BY <1>0, <1>2, <2>1, <2>2 DEF EndsAtLast
  <2>. QED BY <1>0, <2>1, <2>3, <2>4 DEF PathInv, GoesOnFromLast
<1>6. ASSUME NEW a \in BagToSet(net), TimeExceeded(a) PROVE PathInv'
  <2>1. /\ GoOn(a) \subseteq 1..Len(trace) /\ Len(trace') = Len(trace)
        /\ \A n \in 1..Len(trace) :
             trace'[n] = IF n \in GoOn(a) THEN NextHop(trace[n], a.from) ELSE trace[n]
        /\ mrq' = mrq \ (Hits(a) \ GoOn(a))
    BY <1>0, <1>6, TimeExceededStep
  <2>2. ASSUME NEW n \in GoOn(a) PROVE OnePath(trace'[n]) /\ EndsAtLast(trace'[n])
    <3>1. trace[n] \in Trace /\ OnePath(trace[n])
      BY <1>1, <2>1
    <3>2. EndsAtLast(trace[n]) /\ trace[n].ttl < MAP_MAX
      BY <1>2 DEF GoOn, Hits
    <3>3. trace'[n] = NextHop(trace[n], a.from) /\ a.from \in Hops
      BY <1>0, <2>1
    <3>4. EndsAtLast(trace'[n]) /\ trace'[n].links = Linked(trace[n], a.from).links
      BY <3>1, <3>2, <3>3, NextHopIs
    <3>5. OnePath(Linked(trace[n], a.from))
      BY <3>1, <3>2, <3>3, LinkedPath
    <3>. QED BY <3>4, <3>5 DEF OnePath
  <2>3. \A n \in 1..Len(trace) : OnePath(trace'[n])
    BY <1>1, <2>1, <2>2
  <2>4. \A n \in mrq' : EndsAtLast(trace'[n])
    BY <1>0, <1>2, <2>1, <2>2
  <2>. QED BY <1>0, <2>1, <2>3, <2>4 DEF PathInv, GoesOnFromLast
<1>7. ASSUME NEW a \in BagToSet(net), EchoReply(a) PROVE PathInv'
  <2>1. /\ Ended(a) \subseteq mrq /\ Len(trace') = Len(trace)
        /\ \A n \in 1..Len(trace) :
             trace'[n] = IF n \in Ended(a) THEN Linked(trace[n], a.from) ELSE trace[n]
        /\ mrq' = mrq \ Ended(a)
    <3>1. Ended(a) \subseteq {n \in mrq : trace[n].dest = a.from}
      BY <1>0, <1>7, EchoReplyStep
    <3>. QED BY <1>0, <1>7, <3>1, EchoReplyStep
  <2>2. ASSUME NEW n \in Ended(a) PROVE OnePath(trace'[n])
    <3>1. /\ trace[n] \in Trace /\ OnePath(trace[n]) /\ EndsAtLast(trace[n])
          /\ trace'[n] = Linked(trace[n], a.from) /\ a.from \in Hops
      BY <1>0, <1>1, <1>2, <2>1
    <3>. QED BY <3>1, LinkedPath
  <2>3. \A n \in 1..Len(trace) : OnePath(trace'[n])
    BY <1>1, <2>1, <2>2
  <2>4. \A n \in mrq' : EndsAtLast(trace'[n])
    BY <1>0, <1>2, <2>1
  <2>. QED BY <1>0, <2>1, <2>3, <2>4 DEF PathInv, GoesOnFromLast
<1>8. ASSUME NEW n \in mrq, Late(n) PROVE PathInv'
  BY <1>3, <1>8 DEF Late
<1>9. ASSUME NEW a \in BagToSet(net), Lose(a) PROVE PathInv'
  BY <1>3, <1>9 DEF Lose
<1>10. ASSUME TimerEnds \/ OpenSocket \/ UNCHANGED vars PROVE PathInv'
  BY <1>3, <1>10 DEF TimerEnds, OpenSocket, vars
<1>11. ASSUME NEW h \in Dests, DestUnreach(h) PROVE PathInv'
  <2>1. /\ Refused(h) \subseteq mrq /\ Len(trace') = Len(trace) /\ h \in Hops
        /\ \A n \in 1..Len(trace) :
             trace'[n] = IF n \in Refused(h) THEN Cut(trace[n], h) ELSE trace[n]
        /\ mrq' = mrq \ Refused(h)
    BY <1>0, <1>11, DestUnreachStep
  <2>2. ASSUME NEW n \in Refused(h) PROVE OnePath(trace'[n])
    <3>1. /\ trace[n] \in Trace /\ OnePath(trace[n]) /\ EndsAtLast(trace[n])
          /\ trace'[n] = Cut(trace[n], h)
      BY <1>0, <1>1, <1>2, <2>1
    <3>2. OnePath(Linked(trace[n], h))
      BY <2>1, <3>1, LinkedPath
    <3>3. trace'[n].links = Linked(trace[n], h).links
      BY <2>1, <3>1, CutIs
    <3>. QED BY <3>2, <3>3 DEF OnePath
  <2>3. \A n \in 1..Len(trace) : OnePath(trace'[n])
    BY <1>1, <2>1, <2>2
  <2>4. \A n \in mrq' : EndsAtLast(trace'[n])
    BY <1>0, <1>2, <2>1
  <2>. QED BY <1>0, <2>1, <2>3, <2>4 DEF PathInv, GoesOnFromLast
<1>. QED BY <1>4, <1>5, <1>6, <1>7, <1>8, <1>9, <1>10, <1>11, NextCases

(* Whatever is lost, late or doubled, each link sent to a client begins     *)
(* where the one before ended (handle_map, map_connect).                    *)
THEOREM MapLinksFormPath == Spec => []LinksFormPath
<1>1. Init => PathInv
  BY InitNetInv, EmptySeq DEF Init, PathInv, GoesOnFromLast
<1>2. PathInv => LinksFormPath
  BY DEF PathInv, LinksFormPath, OnePath
<1>. QED BY <1>1, <1>2, PathInvStep, PTL DEF Spec

-----------------------------------------------------------------------------
(* The path is the true one as long as nothing was mixed up. *)

(* Of a host whose answers cannot have been mixed up: one request at most,  *)
(* one answer at most, and that one for the hop that is probed.             *)
HostInv(d) ==
  /\ \A m, n \in mrq : trace[m].dest = d /\ trace[n].dest = d => m = n
  /\ \A a, b \in BagToSet(net) : a.dest = d /\ b.dest = d => a = b
  /\ \A a \in BagToSet(net) : a.dest = d => net[a] = 1
  /\ \A n \in mrq, a \in BagToSet(net) :
       trace[n].dest = d /\ a.dest = d => a = Answer(d, trace[n].ttl)
  /\ \A n \in mrq : trace[n].dest = d => ProbesNextHop(trace[n])
  /\ \A n \in 1..Len(trace) : trace[n].dest = d => TruePath(trace[n])

TruthInv == NetInv /\ \A d \in Dests \ disturbed : HostInv(d)

(* A step that has nothing to do with the host. *)
LEMMA HostUntouched ==
  ASSUME NEW d \in Dests, HostInv(d),
         \A n \in 1..Len(trace)' : trace'[n].dest = d =>
           /\ n \in 1..Len(trace)
           /\ trace'[n].dest = trace[n].dest /\ trace'[n].ttl = trace[n].ttl
           /\ trace'[n].links = trace[n].links /\ trace'[n].cut = trace[n].cut,
         mrq' \subseteq 1..Len(trace)',
         \A n \in mrq' : trace'[n].dest = d => n \in mrq,
         \A a \in BagToSet(net') : a.dest = d =>
           a \in BagToSet(net) /\ (net[a] = 1 => net'[a] = 1)
  PROVE  HostInv(d)'
<1>1. \A m, n \in mrq' : trace'[m].dest = d /\ trace'[n].dest = d => m = n
  BY DEF HostInv
<1>2. /\ \A a, b \in BagToSet(net') : a.dest = d /\ b.dest = d => a = b
      /\ \A a \in BagToSet(net') : a.dest = d => net'[a] = 1
  BY DEF HostInv
<1>3. \A n \in mrq', a \in BagToSet(net') :
        trace'[n].dest = d /\ a.dest = d => a = Answer(d, trace'[n].ttl)
  BY DEF HostInv
<1>4. \A n \in mrq' : trace'[n].dest = d => ProbesNextHop(trace'[n])
  BY DEF HostInv, ProbesNextHop
<1>5. ASSUME NEW n \in 1..Len(trace'), trace'[n].dest = d PROVE TruePath(trace'[n])
  <2>1. /\ n \in 1..Len(trace)
        /\ trace'[n].dest = trace[n].dest
        /\ trace'[n].links = trace[n].links /\ trace'[n].cut = trace[n].cut
    BY <1>5
  <2>2. TruePath(trace[n])
    BY <1>5, <2>1 DEF HostInv
  <2>. QED BY <2>1, <2>2 DEF TruePath
<1>. QED BY <1>1, <1>2, <1>3, <1>4, <1>5 DEF HostInv

(* A new request for a host that nobody awaits anything of. *)
LEMMA StartKeepsTruth ==
  ASSUME TruthInv, NEW e \in Dests, NEW np \in Pages, start_mapping(e, np),
         NEW d \in Dests, d \notin disturbed'
  PROVE  HostInv(d)'
<1> DEFINE new == [dest |-> e, np |-> np, ttl |-> 1, retries |-> 1,
                   last |-> Local, links |-> <<>>, cut |-> FALSE]
           N == Len(trace) + 1
           ans == Answer(e, 1)
<1>1. /\ new \in Trace /\ Len(trace') = N
      /\ \A n \in 1..Len(trace) : trace'[n] = trace[n]
      /\ trace'[N] = new
      /\ N \notin mrq /\ mrq' = mrq \union {N}
      /\ BagToSet(net') = BagToSet(net) \union {ans}
      /\ \A x \in BagToSet(net) : x # ans => net'[x] = net[x]
      /\ ans \notin BagToSet(net) => net'[ans] = 1
  BY StartStep DEF TruthInv
<1>2. ans.dest = e
  <2>1. 1 \in 1..MAP_MAX
    BY MapAssumption
  <2>. QED BY <2>1, AnswerType
<1>3. new.dest = e /\ new.ttl = 1 /\ new.links = <<>> /\ ~new.cut
  OBVIOUS
<1>4. HostInv(d) /\ (d = e => ~Awaited(d))
  BY DEF start_mapping, TruthInv
<1>5. Len(trace) \in Nat /\ mrq \subseteq 1..Len(trace) /\ mrq' \subseteq 1..Len(trace')
  BY <1>1, RequestsAreFinite, NetInvStep DEF TruthInv, NetInv, TypeOK, Next
<1> HIDE DEF new, ans
<1>6. \A n \in 1..N : n \in 1..Len(trace) \/ n = N
  BY <1>5
<1>7. CASE d # e
  <2>1. \A n \in 1..Len(trace') : trace'[n].dest = d => n \in 1..Len(trace) /\ trace'[n] = trace[n]
    BY <1>1, <1>3, <1>6, <1>7
  <2>2. \A n \in mrq' : trace'[n].dest = d => n \in mrq
    BY <1>1, <1>3, <1>7
  <2>3. \A a \in BagToSet(net') : a.dest = d => a \in BagToSet(net) /\ net'[a] = net[a]
    BY <1>1, <1>2, <1>7
  <2>. QED BY <1>4, <1>5, <2>1, <2>2, <2>3, HostUntouched
<1>8. CASE d = e
  <2>1. /\ \A n \in mrq : trace[n].dest # d
        /\ \A a \in BagToSet(net) : a.dest # d
    BY <1>4, <1>8 DEF Awaited
  <2>2. \A n \in mrq' : trace'[n].dest = d => n = N
    BY <1>1, <1>5, <2>1
  <2>3. \A a \in BagToSet(net') : a.dest = d => a = ans
    BY <1>1, <2>1
  <2>4. net'[ans] = 1
    BY <1>1, <1>2, <1>8, <2>1
  <2>5. Answer(d, new.ttl) = ans
    BY <1>3, <1>8 DEF ans
  <2>6. Len(Path[d]) \in Nat \ {0}
    BY MapAssumption
  <2>7. Len(new.links) = 0
    BY <1>3, EmptySeq
  <2>8. ProbesNextHop(new) /\ TruePath(new)
    BY <1>3, <1>8, <2>6, <2>7 DEF ProbesNextHop, TruePath
  <2>9. \A n \in 1..Len(trace') : trace'[n].dest = d => TruePath(trace'[n])
    BY <1>1, <1>4, <1>6, <2>8 DEF HostInv
  <2>10. \A n \in mrq' : trace'[n].dest = d => trace'[n] = new
    BY <1>1, <2>2
  <2>11. \A n \in mrq', a \in BagToSet(net') :
           trace'[n].dest = d /\ a.dest = d => a = Answer(d, trace'[n].ttl)
    BY <2>3, <2>5, <2>10
  <2>12. \A n \in mrq' : trace'[n].dest = d => ProbesNextHop(trace'[n])
    BY <2>8, <2>10
  <2>13. \A a \in BagToSet(net') : a.dest = d => net'[a] = 1
    BY <2>3, <2>4
  <2>. QED BY <2>2, <2>3, <2>9, <2>11, <2>12, <2>13 DEF HostInv
<1>. QED BY <1>7, <1>8

(* The answer of a router, to a host that is not mixed up. *)
LEMMA TimeExceededKeepsTruth ==
  ASSUME TruthInv, NEW a \in BagToSet(net), TimeExceeded(a),
         NEW d \in Dests, d \notin disturbed'
  PROVE  HostInv(d)'
<1>1. /\ GoOn(a) \subseteq 1..Len(trace) /\ Len(trace') = Len(trace)
      /\ \A n \in 1..Len(trace) :
           trace'[n] = IF n \in GoOn(a) THEN NextHop(trace[n], a.from) ELSE trace[n]
      /\ mrq' = mrq \ (Hits(a) \ GoOn(a))
      /\ IsABag(Rest(a)) /\ BagToSet(Rest(a)) \subseteq BagToSet(net)
      /\ \A x \in BagToSet(Rest(a)) : net[x] = 1 => Rest(a)[x] = 1
      /\ twice' = twice /\ net[a] = 1 => a \notin BagToSet(Rest(a))
      /\ net' = Rest(a) (+) Probes(GoOn(a), trace')
  BY TimeExceededStep DEF TruthInv
<1>2. /\ trace \in Seq(Trace) /\ mrq \subseteq 1..Len(trace) /\ mrq' \subseteq 1..Len(trace')
      /\ a.from \in Hops /\ IsFiniteSet(GoOn(a))
  <2>1. trace \in Seq(Trace) /\ mrq \subseteq 1..Len(trace) /\ a.from \in Hops
    BY DEF TruthInv, NetInv, TypeOK, Answers
  <2>2. GoOn(a) \subseteq mrq
    BY DEF GoOn, Hits
  <2>. QED BY <1>1, <2>1, <2>2, RequestsAreFinite DEF TruthInv, NetInv
<1>3. \A n \in 1..Len(trace) : trace[n] \in Trace
  BY <1>2, ElementOfSeq
<1>4. HostInv(d) /\ (d = a.dest => twice' = twice)
  BY DEF TimeExceeded, Kept, TruthInv
<1>5. ASSUME NEW n \in GoOn(a)
      PROVE  /\ trace'[n].dest = trace[n].dest /\ trace[n].dest = a.dest
             /\ trace'[n].ttl = trace[n].ttl + 1
             /\ trace'[n].links = Linked(trace[n], a.from).links
             /\ trace'[n].cut = trace[n].cut
  <2>1. trace[n] \in Trace /\ trace[n].ttl < MAP_MAX /\ trace[n].dest = a.dest
    BY <1>1, <1>3 DEF GoOn, Hits
  <2>2. trace'[n] = NextHop(trace[n], a.from)
    BY <1>1
  <2>. QED BY <1>2, <2>1, <2>2, NextHopIs
<1>6. /\ BagToSet(net') = BagToSet(Rest(a))
                          \union {Answer(trace'[n].dest, trace'[n].ttl) : n \in GoOn(a)}
      /\ \A x \in BagToSet(Rest(a)) :
           (\A n \in GoOn(a) : Answer(trace'[n].dest, trace'[n].ttl) # x) => net'[x] = Rest(a)[x]
  BY <1>1, <1>2, ProbesSent
<1>7. ASSUME NEW n \in GoOn(a)
      PROVE  Answer(trace'[n].dest, trace'[n].ttl).dest = a.dest
  <2>1. trace'[n].dest = a.dest
    BY <1>5
  <2>. QED BY <2>1 DEF Answer
<1>8. CASE d # a.dest
  <2>1. \A n \in 1..Len(trace') : trace'[n].dest = d => trace'[n] = trace[n]
    BY <1>1, <1>5, <1>8
  <2>2. \A n \in mrq' : n \in mrq
    BY <1>1
  <2>3. ASSUME NEW x \in BagToSet(net'), x.dest = d
        PROVE  x \in BagToSet(net) /\ (net[x] = 1 => net'[x] = 1)
    <3>1. \A n \in GoOn(a) : Answer(trace'[n].dest, trace'[n].ttl) # x
      BY <1>7, <1>8, <2>3
    <3>2. x \in BagToSet(Rest(a))
      BY <1>6, <3>1
    <3>. QED BY <1>1, <1>6, <3>1, <3>2
  <2>. QED BY <1>1, <1>2, <1>4, <2>1, <2>2, <2>3, HostUntouched
<1>9. CASE d = a.dest
  <2>1. \A x \in BagToSet(Rest(a)) : x.dest # d
    BY <1>1, <1>4, <1>9 DEF HostInv
  <2>2. ASSUME NEW m \in GoOn(a), NEW n \in GoOn(a) PROVE m = n
    BY <1>4, <1>9 DEF HostInv, GoOn, Hits
  <2>3. ASSUME NEW n \in GoOn(a)
        PROVE  /\ a = Answer(d, trace[n].ttl)
               /\ ProbesNextHop(trace[n]) /\ TruePath(trace[n])
    BY <1>1, <1>4, <1>9 DEF HostInv, GoOn, Hits
  <2>4. ASSUME NEW n \in GoOn(a)
        PROVE  ProbesNextHop(trace'[n]) /\ TruePath(trace'[n])
    <3>1. trace[n] \in Trace /\ trace[n].dest = d
      BY <1>1, <1>3, <1>5, <1>9
    <3>2. trace[n].ttl < Len(Path[d]) /\ a.from = Path[d][trace[n].ttl]
      <4>1. a.type = "exceeded"
        BY DEF TimeExceeded
      <4>. QED BY <2>3, <4>1 DEF Answer
    <3>3. TruePath(Linked(trace[n], a.from))
      BY <1>2, <2>3, <3>1, <3>2, LinkedTruePath
    <3>4. /\ Linked(trace[n], a.from).dest = trace[n].dest
          /\ Linked(trace[n], a.from).cut = trace[n].cut
      BY <3>1 DEF Linked, Trace
    <3>5. TruePath(trace'[n])
      BY <1>5, <3>3, <3>4 DEF TruePath
    <3>6. Len(trace'[n].links) = Len(trace[n].links) + 1
      <4>1. Len(Linked(trace[n], a.from).links) = Len(trace[n].links) + 1
        BY <1>2, <3>1, LinkedIs
      <4>. QED BY <1>5, <4>1
    <3>7. trace[n].ttl \in Nat /\ Len(trace[n].links) \in Nat /\ Len(Path[d]) \in Nat
      BY <3>1, LinksType, MapAssumption DEF Trace
    <3>8. ProbesNextHop(trace'[n])
      <4>1. trace'[n].ttl = trace[n].ttl + 1 /\ trace'[n].dest = d
        BY <1>5, <3>1
      <4>2. Len(trace[n].links) = trace[n].ttl - 1 /\ ~trace'[n].cut
        BY <1>5, <2>3 DEF ProbesNextHop
      <4>3. Len(trace'[n].links) = trace'[n].ttl - 1
        BY <3>6, <3>7, <4>1, <4>2
      <4>4. trace'[n].ttl <= Len(Path[d])
        BY <3>2, <3>7, <4>1
      <4>. QED BY <4>1, <4>2, <4>3, <4>4 DEF ProbesNextHop
    <3>. QED BY <3>5, <3>8
  <2>5. \A n \in mrq' : trace'[n].dest = d => n \in GoOn(a)
    BY <1>1, <1>2, <1>9 DEF Hits
  <2>6. ASSUME NEW x \in BagToSet(net'), x.dest = d
        PROVE  \E n \in GoOn(a) : x = Answer(d, trace'[n].ttl) /\ net'[x] = 1
    <3>1. PICK n \in GoOn(a) : x = Answer(trace'[n].dest, trace'[n].ttl)
      BY <1>6, <2>1, <2>6
    <3>2. trace'[n].dest = d
      BY <1>5, <1>9
    <3>3. x \notin BagToSet(Rest(a)) /\ \A m \in GoOn(a) : m = n
      BY <2>1, <2>2, <2>6
    <3>4. net'[Answer(trace'[n].dest, trace'[n].ttl)] = 1
      BY <1>1, <1>2, <3>1, <3>3, ProbesSent
    <3>. QED BY <3>1, <3>2, <3>4
  <2>7. \A x, y \in BagToSet(net') : x.dest = d /\ y.dest = d => x = y
    BY <2>2, <2>6
  <2>8. \A n \in mrq', x \in BagToSet(net') :
          trace'[n].dest = d /\ x.dest = d => x = Answer(d, trace'[n].ttl)
    BY <2>2, <2>5, <2>6
  <2>9. \A n \in 1..Len(trace') : trace'[n].dest = d => TruePath(trace'[n])
    BY <1>1, <1>4, <2>4 DEF HostInv
  <2>. QED BY <2>2, <2>4, <2>5, <2>6, <2>7, <2>8, <2>9 DEF HostInv
<1>. QED BY <1>8, <1>9

(* The answer of a host ends the requests for it. *)
LEMMA EchoReplyKeepsTruth ==
  ASSUME TruthInv, NEW a \in BagToSet(net), EchoReply(a),
         NEW d \in Dests, d \notin disturbed'
  PROVE  HostInv(d)'
<1>1. /\ Ended(a) \subseteq {n \in mrq : trace[n].dest = a.from}
      /\ Len(trace') = Len(trace)
      /\ \A n \in 1..Len(trace) :
           trace'[n] = IF n \in Ended(a) THEN Linked(trace[n], a.from) ELSE trace[n]
      /\ mrq' = mrq \ Ended(a)
      /\ BagToSet(net') \subseteq BagToSet(net)
      /\ \A x \in BagToSet(net') : net[x] = 1 => net'[x] = 1
  BY EchoReplyStep DEF TruthInv
<1>2. /\ trace \in Seq(Trace) /\ mrq \subseteq 1..Len(trace) /\ mrq' \subseteq 1..Len(trace')
      /\ a.from \in Hops /\ a.from = a.dest
  BY <1>1 DEF TruthInv, NetInv, TypeOK, Answers, RepliesAreFromHosts, EchoReply
<1>3. \A n \in 1..Len(trace) : trace[n] \in Trace
  BY <1>2, ElementOfSeq
<1>4. HostInv(d)
  BY DEF EchoReply, Kept, TruthInv
<1>5. ASSUME NEW n \in 1..Len(trace)
      PROVE  trace'[n].dest = trace[n].dest /\ trace'[n].ttl = trace[n].ttl
  <2>1. Linked(trace[n], a.from).dest = trace[n].dest /\ Linked(trace[n], a.from).ttl = trace[n].ttl
    BY <1>3 DEF Linked, Trace
  <2>. QED BY <1>1, <2>1
<1>6. ASSUME NEW n \in Ended(a), trace[n].dest = d
      PROVE  TruePath(trace'[n])
  <2>1. n \in mrq /\ d = a.dest /\ trace[n] \in Trace
    BY <1>1, <1>2, <1>3, <1>6
  <2>2. /\ a = Answer(d, trace[n].ttl)
        /\ ProbesNextHop(trace[n]) /\ TruePath(trace[n])
    BY <1>2, <1>4, <1>6, <2>1 DEF HostInv
  <2>3. a.type = "reply"
    BY DEF EchoReply
  <2>4. ~(trace[n].ttl < Len(Path[d])) /\ a.from = d
    BY <1>2, <2>1, <2>2, <2>3 DEF Answer
  <2>5. trace[n].ttl \in Nat /\ Len(Path[d]) \in Nat /\ Path[d][Len(Path[d])] = d
    BY <2>1, MapAssumption DEF Trace
  <2>6. trace[n].ttl = Len(Path[d])
    BY <1>6, <2>2, <2>4, <2>5 DEF ProbesNextHop
  <2>7. TruePath(Linked(trace[n], a.from))
    BY <1>2, <1>6, <2>1, <2>2, <2>4, <2>5, <2>6, LinkedTruePath
  <2>. QED BY <1>1, <1>2, <2>1, <2>7
<1>7. \A n \in 1..Len(trace') : trace'[n].dest = d => TruePath(trace'[n])
  BY <1>1, <1>4, <1>5, <1>6 DEF HostInv
<1>8. \A n \in mrq' : n \in mrq /\ trace'[n] = trace[n]
  BY <1>1, <1>2
<1>. QED BY <1>1, <1>4, <1>7, <1>8 DEF HostInv

(* A host that refuses a packet cuts its requests short. *)
LEMMA DestUnreachKeepsTruth ==
  ASSUME TruthInv, NEW h \in Dests, DestUnreach(h),
         NEW d \in Dests, d \notin disturbed'
  PROVE  HostInv(d)'
<1>1. /\ Refused(h) \subseteq mrq /\ Len(trace') = Len(trace) /\ h \in Hops
      /\ \A n \in 1..Len(trace) :
           trace'[n] = IF n \in Refused(h) THEN Cut(trace[n], h) ELSE trace[n]
      /\ mrq' = mrq \ Refused(h)
      /\ net' = net
  BY DestUnreachStep DEF TruthInv
<1>2. /\ trace \in Seq(Trace) /\ mrq \subseteq 1..Len(trace)
      /\ HostInv(d)
  BY DEF DestUnreach, TruthInv, NetInv, TypeOK
<1>3. \A n \in 1..Len(trace) : trace[n] \in Trace
  BY <1>2, ElementOfSeq
<1>4. ASSUME NEW n \in Refused(h)
      PROVE  /\ trace'[n].dest = trace[n].dest
             /\ trace[n].dest = d => TruePath(trace'[n])
  <2>1. /\ trace[n] \in Trace /\ n \in mrq
        /\ trace[n].dest = h /\ trace'[n] = Cut(trace[n], h)
    BY <1>1, <1>2, <1>3 DEF Refused
  <2>2. trace'[n].dest = trace[n].dest
    BY <1>1, <2>1, CutIs
  <2>3. ASSUME trace[n].dest = d PROVE TruePath(trace'[n])
    <3>1. ProbesNextHop(trace[n]) /\ TruePath(trace[n])
      BY <1>2, <2>1, <2>3 DEF HostInv
    <3>. QED BY <1>1, <2>1, <3>1, CutTruePath
  <2>. QED BY <2>2, <2>3
<1>5. \A n \in 1..Len(trace') : trace'[n].dest = d => TruePath(trace'[n])
  BY <1>1, <1>2, <1>4 DEF HostInv
<1>6. \A n \in mrq' : n \in mrq /\ trace'[n] = trace[n]
  BY <1>1, <1>2
<1>. QED BY <1>1, <1>2, <1>5, <1>6 DEF HostInv

(* A sweep mixes up the hosts that it probes again, and leaves the others.  *)
LEMMA TimeoutKeepsTruth ==
  ASSUME TruthInv, map_timeout, NEW d \in Dests, d \notin disturbed'
  PROVE  HostInv(d)'
<1>1. /\ Len(trace') = Len(trace)
      /\ \A n \in 1..Len(trace) :
           /\ trace'[n].dest = trace[n].dest /\ trace'[n].ttl = trace[n].ttl
           /\ trace'[n].links = trace[n].links /\ trace'[n].cut = trace[n].cut
      /\ BagToSet(net') = BagToSet(net) \union {Answer(trace[n].dest, trace[n].ttl) : n \in Again}
      /\ \A x \in BagToSet(net) :
           (\A n \in Again : Answer(trace[n].dest, trace[n].ttl) # x) => net'[x] = net[x]
      /\ disturbed' = disturbed \union {trace[n].dest : n \in Again}
  BY TimeoutStep DEF TruthInv
<1>2. HostInv(d) /\ mrq' \subseteq mrq /\ mrq' \subseteq 1..Len(trace')
  BY <1>1 DEF map_timeout, TruthInv, NetInv, TypeOK
<1>3. ASSUME NEW n \in Again PROVE Answer(trace[n].dest, trace[n].ttl).dest # d
  <2>1. trace[n].dest # d
    BY <1>1
  <2>. QED BY <2>1 DEF Answer
<1>4. ASSUME NEW x \in BagToSet(net'), x.dest = d
      PROVE  x \in BagToSet(net) /\ (net[x] = 1 => net'[x] = 1)
  <2>1. \A n \in Again : Answer(trace[n].dest, trace[n].ttl) # x
    BY <1>3, <1>4
  <2>. QED BY <1>1, <2>1
<1>. QED BY <1>1, <1>2, <1>4, HostUntouched

LEMMA TruthInvStep == TruthInv /\ [Next]_vars => TruthInv'
<1> SUFFICES ASSUME TruthInv, [Next]_vars, NEW d \in Dests, d \notin disturbed' PROVE HostInv(d)'
  BY NetInvStep DEF TruthInv
<1>1. mrq \subseteq 1..Len(trace)
  BY DEF TruthInv, NetInv, TypeOK
<1>2. ASSUME UNCHANGED <<trace, mrq, disturbed>>, BagToSet(net') \subseteq BagToSet(net),
             \A x \in BagToSet(net') : net[x] = 1 => net'[x] = 1
      PROVE  HostInv(d)'
  <2>1. HostInv(d)
    BY <1>2 DEF TruthInv
  <2>. QED BY <1>1, <1>2, <2>1, HostUntouched
<1>3. ASSUME NEW e \in Dests, NEW np \in Pages, start_mapping(e, np) PROVE HostInv(d)'
  BY <1>3, StartKeepsTruth
<1>4. ASSUME map_timeout PROVE HostInv(d)'
  BY <1>4, TimeoutKeepsTruth
<1>5. ASSUME NEW a \in BagToSet(net), TimeExceeded(a) PROVE HostInv(d)'
  BY <1>5, TimeExceededKeepsTruth
<1>6. ASSUME NEW a \in BagToSet(net), EchoReply(a) PROVE HostInv(d)'
  BY <1>6, EchoReplyKeepsTruth
<1>7. ASSUME NEW a \in BagToSet(net), Lose(a) PROVE HostInv(d)'
  <2>1. UNCHANGED <<trace, mrq, disturbed>>
    BY <1>7 DEF Lose
  <2>. QED BY <1>2, <1>7, <2>1, LoseStep DEF TruthInv
<1>8. ASSUME NEW n \in mrq, Late(n) PROVE HostInv(d)'
  <2>1. UNCHANGED <<trace, mrq, disturbed, net>>
    BY <1>8 DEF Late
  <2>. QED BY <1>2, <2>1
<1>9. ASSUME TimerEnds \/ OpenSocket \/ UNCHANGED vars PROVE HostInv(d)'
  <2>1. UNCHANGED <<trace, mrq, disturbed, net>>
    BY <1>9 DEF TimerEnds, OpenSocket, vars
  <2>. QED BY <1>2, <2>1
<1>10. ASSUME NEW h \in Dests, DestUnreach(h) PROVE HostInv(d)'
  BY <1>10, DestUnreachKeepsTruth
<1>. QED BY <1>3, <1>4, <1>5, <1>6, <1>7, <1>8, <1>9, <1>10, NextCases

(* One request for a host at a time, no probe sent again, no answer twice:  *)
(* then the links are the true path, although no answer is ever compared    *)
(* with the hop that was asked (handle_map, src/agent-map.c:332), but for   *)
(* the last link of a request that an ICMP_DEST_UNREACH of the host ends    *)
(* (src/agent-map.c:370-432): it may leave out hops.                        *)
THEOREM MapUndisturbedPathIsTrue == Spec => []UndisturbedPathIsTrue
<1>1. Init => TruthInv
  <2> SUFFICES ASSUME Init PROVE TruthInv
    OBVIOUS
  <2>1. mrq = {} /\ BagToSet(net) = {} /\ Len(trace) = 0
    BY EmptySeq DEF Init, EmptyBag, SetToBag, BagToSet
  <2>. QED BY <2>1, InitNetInv DEF TruthInv, HostInv
<1>2. TruthInv => UndisturbedPathIsTrue
  <2> SUFFICES ASSUME TruthInv, NEW n \in 1..Len(trace), trace[n].dest \notin disturbed
               PROVE  TruePath(trace[n])
    BY DEF UndisturbedPathIsTrue, TruePath
  <2>1. trace[n] \in Trace
    BY ElementOfSeq DEF TruthInv, NetInv, TypeOK
  <2>2. trace[n].dest \in Dests
    BY <2>1 DEF Trace
  <2>. QED BY <2>2 DEF TruthInv, HostInv
<1>. QED BY <1>1, <1>2, TruthInvStep, PTL DEF Spec

-----------------------------------------------------------------------------
(* Discovery. *)

(* A timer calls ping_send for a structure that is in pingQ, and a          *)
(* structure has at most one.                                               *)
TimersAreOfLive ==
  /\ \A t \in timers : t.p \in Live
  /\ \A t, u \in timers : t.p = u.p => t = u

(* A structure in pingQ is about a request that was made, and has its range;*)
(* no two are about the same one.                                           *)
LiveAreAsked ==
  /\ \A p \in Live :
       LET q == pingQ[p]
       IN  /\ q.id \in 1..Len(asked)
           /\ q.lo = asked[q.id].lo /\ q.hi = asked[q.id].hi
           /\ q.lo <= q.cur /\ q.cur <= q.hi
  /\ \A p, r \in Live : pingQ[p].id = pingQ[r].id => p = r

(* The cache holds addresses that have answered. *)
CacheIsTrue == \A i \in 1..Len(Cache) : Cache[i] \in answered

(* What the request id need not ask of the address ip any more. *)
Settled(id, ip) == ip \in Broadcast \/ ip \in tried[id] \/ [id |-> id, ip |-> ip] \in found

(* The places a sweep has passed are settled. *)
PassedAreSettled ==
  \A p \in Live :
    LET q == pingQ[p]
    IN  \A ip \in q.lo..q.hi : ip - q.lo < Place(q) => Settled(q.id, ip)

DiscoverInv ==
  /\ DiscoverTypeOK
  /\ TimersAreOfLive
  /\ LiveAreAsked
  /\ CacheIsTrue
  /\ RepliesAreTrue
  /\ PassedAreSettled
  /\ EveryAddressTried

-----------------------------------------------------------------------------
(* Arithmetic of the sweeps. *)

LEMMA Division ==
  ASSUME NEW w \in Nat \ {0}, NEW k \in Nat
  PROVE  /\ k % w \in 0..(w - 1)
         /\ k \div w \in Nat
         /\ (k \div w) * w + (k % w) = k
OBVIOUS

(* A place in the first sweep is the distance from the start of the range. *)
LEMMA FirstSweep ==
  ASSUME NEW w \in Nat \ {0}, NEW j \in 0..(w - 1)
  PROVE  j % w = j
OBVIOUS

(* The loop of ping_send runs over the first sweep at least. *)
LEMMA OneSweepAtLeast ==
  ASSUME NEW w \in Nat \ {0}, NEW r \in Nat
  PROVE  (r + 1) * w \in Nat /\ w - 1 <= (r + 1) * w - 1
<1>1. r * w \in Nat
  OBVIOUS
<1>2. (r + 1) * w = r * w + w
  OBVIOUS
<1>. QED BY <1>1, <1>2

(* The address at a place of q's sweeps is one of q's range. *)
LEMMA AddrAtInRange ==
  ASSUME NEW q \in Entry, q.lo <= q.hi, NEW k \in Nat
  PROVE  /\ Width(q) \in Nat \ {0}
         /\ AddrAt(q, k) \in q.lo..q.hi /\ AddrAt(q, k) \in Nat
         /\ (k < Width(q) => AddrAt(q, k) - q.lo = k)
<1>1. q.lo \in Nat /\ q.hi \in Nat
  BY DiscoverAssumption DEF Entry
<1>2. Width(q) \in Nat \ {0} /\ Width(q) = q.hi - q.lo + 1
  BY <1>1 DEF Width
<1>3. k % Width(q) \in 0..(Width(q) - 1)
  BY <1>2, Division
<1>4. k < Width(q) => k % Width(q) = k
  BY <1>2, FirstSweep
<1>. QED BY <1>1, <1>2, <1>3, <1>4 DEF AddrAt

LEMMA FreeIsNoEntry == Free \notin Entry
<1>1. ASSUME NEW q \in Entry
      PROVE  q \in [id : Nat, lo : Nat, hi : Nat, force : BOOLEAN, cur : Nat,
                    retry : Nat, since : Nat \union {Unset}]
  <2>1. Ids \subseteq Nat /\ Addrs \subseteq Nat /\ 0..(Timeout + 1) \subseteq Nat
    BY DiscoverAssumption DEF Ids
  <2>. QED BY <2>1 DEF Entry
<1>. QED BY <1>1, DiscoverAssumption

LEMMA PlaceIsNat ==
  ASSUME NEW q \in Entry, q.lo <= q.cur, q.cur <= q.hi
  PROVE  Place(q) \in Nat
<1>1. q.lo \in Nat /\ q.hi \in Nat /\ q.cur \in Nat /\ q.retry \in Nat
  BY DiscoverAssumption DEF Entry
<1>2. Width(q) \in Nat
  BY <1>1 DEF Width
<1>3. q.retry * Width(q) \in Nat
  BY <1>1, <1>2
<1>. QED BY <1>1, <1>3 DEF Place

(* After the ping at place k, q is at the next place of the same range. *)
LEMMA AdvanceIsNext ==
  ASSUME NEW q \in Entry, q.lo <= q.hi, NEW k \in Nat
  PROVE  LET next == Advance(q, k)
         IN  /\ next \in Entry
             /\ next.id = q.id /\ next.lo = q.lo /\ next.hi = q.hi
             /\ next.lo <= next.cur /\ next.cur <= next.hi
             /\ Place(next) = k + 1
<1> DEFINE next == Advance(q, k)
<1>1. /\ AddrAt(q, k + 1) \in q.lo..q.hi /\ AddrAt(q, k + 1) \in Nat
      /\ Width(q) \in Nat \ {0}
  BY AddrAtInRange
<1>2. /\ (k + 1) \div Width(q) \in Nat
      /\ ((k + 1) \div Width(q)) * Width(q) + ((k + 1) % Width(q)) = k + 1
      /\ (k + 1) % Width(q) \in Int
  <2>1. ASSUME NEW w \in Nat \ {0}, NEW n \in Nat
        PROVE  n \div w \in Nat /\ (n \div w) * w + (n % w) = n /\ n % w \in Int
    BY Division
  <2>2. k + 1 \in Nat
    OBVIOUS
  <2>. QED BY <1>1, <2>1, <2>2
<1>3. /\ next \in Entry
      /\ next.id = q.id /\ next.lo = q.lo /\ next.hi = q.hi
      /\ next.cur = AddrAt(q, k + 1)
      /\ next.retry = (k + 1) \div Width(q)
  <2> DEFINE cur   == AddrAt(q, k + 1)
             since == IF cur = q.lo /\ cur # q.hi THEN 0 ELSE q.since
  <2>1. since \in (0..(Timeout + 1)) \union {Unset}
    BY DiscoverAssumption DEF Entry
  <2>2. next = [q EXCEPT !.cur = cur, !.retry = (k + 1) \div Width(q), !.since = since]
    BY DEF Advance
  <2> HIDE DEF cur, since, next
  <2>3. cur \in Nat
    BY <1>1 DEF cur
  <2>4. /\ next \in Entry /\ next.id = q.id /\ next.lo = q.lo /\ next.hi = q.hi
        /\ next.cur = cur /\ next.retry = (k + 1) \div Width(q)
    BY <1>2, <2>1, <2>2, <2>3 DEF Entry
  <2>. QED BY <2>4 DEF cur
<1>4. Width(next) = Width(q)
  BY <1>3 DEF Width
<1> HIDE DEF next
<1>5. q.lo \in Nat /\ next.cur - next.lo = (k + 1) % Width(q)
  <2>1. q.lo \in Nat
    BY DiscoverAssumption DEF Entry
  <2>2. next.cur = q.lo + ((k + 1) % Width(q))
    BY <1>3 DEF AddrAt
  <2>. QED BY <1>2, <1>3, <2>1, <2>2
<1>6. Place(next) = k + 1
  BY <1>2, <1>3, <1>4, <1>5 DEF Place
<1>. QED BY <1>1, <1>3, <1>6 DEF next

(* The next timer of a structure is for the same structure, and one at most.*)
LEMMA RescheduleIsTimer ==
  ASSUME NEW t \in Timer, NEW q \in Entry
  PROVE  /\ Reschedule(t, q) \subseteq Timer
         /\ \A u \in Reschedule(t, q) : u.p = t.p
         /\ \A u, v \in Reschedule(t, q) : u = v
<1>1. WaitBeforeEnd(q) \in 0..Timeout
  <2>1. q.since = Unset \/ (q.since # Unset /\ q.since \in 0..(Timeout + 1))
    BY DEF Entry
  <2>. QED BY <2>1, DiscoverAssumption DEF WaitBeforeEnd, Entry
<1>2. Interval \in 0..Timeout /\ Interval \in 1..Timeout
  BY DiscoverAssumption
<1>3. t.every \in 0..Timeout /\ t.p \in Cells /\ t.every \in 1..Timeout
  BY DiscoverAssumption DEF Timer
<1>4. WaitBeforeEnd(q) # 0 => WaitBeforeEnd(q) \in 1..Timeout
  BY <1>1, DiscoverAssumption
<1>5. CASE q.cur = q.hi
  BY <1>1, <1>3, <1>4, <1>5 DEF Reschedule, Timer
<1>6. CASE q.cur # q.hi /\ q.cur = q.lo
  BY <1>2, <1>3, <1>6 DEF Reschedule, Timer
<1>7. CASE q.cur # q.hi /\ q.cur # q.lo
  BY <1>3, <1>7 DEF Reschedule, Timer
<1>. QED BY <1>5, <1>6, <1>7

(* A cached address that a sweep passes has answered and is of the range. *)
LEMMA ReportedAreTrue ==
  ASSUME DiscoverTypeOK, CacheIsTrue, NEW q \in Entry, q.lo <= q.hi, NEW S \in SUBSET Nat,
         NEW ip \in Reported(q, S)
  PROVE  ip \in Nat /\ ip \in q.lo..q.hi /\ ip \in answered
<1>1. PICK k \in S : ip = AddrAt(q, k) /\ Cached(q, k)
  BY DEF Reported
<1>2. ip \in q.lo..q.hi /\ ip \in Nat
  BY <1>1, AddrAtInRange
<1>3. ip \in answered
  BY <1>1 DEF Cached, in_cache, CacheIsTrue
<1>. QED BY <1>2, <1>3

(* A place of the first sweep that wants no ping is reported or a broadcast.*)
LEMMA NoPingIsSettled ==
  ASSUME NEW q \in Entry, q.lo <= q.hi, NEW S \in SUBSET Nat,
         NEW ip \in q.lo..q.hi, ip - q.lo \in S, ~Pings(q, ip - q.lo)
  PROVE  ip \in Broadcast \/ ip \in Reported(q, S)
<1> DEFINE j == ip - q.lo
<1>1. q.lo \in Nat /\ q.hi \in Nat /\ j \in Nat /\ j < Width(q)
  <2>1. q.lo \in Nat /\ q.hi \in Nat
    BY DiscoverAssumption DEF Entry
  <2>. QED BY <2>1 DEF Width
<1>2. AddrAt(q, j) = ip
  <2>1. AddrAt(q, j) \in Nat /\ AddrAt(q, j) - q.lo = j
    BY <1>1, AddrAtInRange
  <2>. QED BY <1>1, <2>1
<1> HIDE DEF j
<1>3. CASE Cached(q, j)
  BY <1>1, <1>2, <1>3 DEF Reported, j
<1>4. CASE ip \in Broadcast
  BY <1>4
<1>. QED BY <1>2, <1>3, <1>4 DEF Pings, j

-----------------------------------------------------------------------------
LEMMA DiscoverNextCases ==
  ASSUME [DiscoverNext]_discoverVars, NEW ACTION P,
         \A e \in Requests : handle_discover_request(e) => P,
         \A n \in Retries : handle_set_settings(n) => P,
         \A t \in timers : ping_send(t) => P,
         \A t \in timers : ping_send_done(t) => P,
         \A e \in echoes : handle_ping_recieve(e) => P,
         Tick => P,
         UNCHANGED discoverVars => P
  PROVE  P
BY DEF DiscoverNext

LEMMA InitIInv == DiscoverInit => DiscoverInv
<1> SUFFICES ASSUME DiscoverInit PROVE DiscoverInv
  OBVIOUS
<1>1. Live = {}
  BY DEF DiscoverInit, Live
<1>2. DiscoverTypeOK
  BY DiscoverAssumption DEF DiscoverInit, DiscoverTypeOK
<1>3. Len(asked) = 0 /\ Len(Cache) = 0
  BY DEF DiscoverInit
<1>. QED BY <1>1, <1>2, <1>3
       DEF DiscoverInit, DiscoverInv, TimersAreOfLive, LiveAreAsked, CacheIsTrue, RepliesAreTrue,
           PassedAreSettled, EveryAddressTried

(* What is known of the structure in a cell that is not free. *)
LEMMA LiveEntry ==
  ASSUME DiscoverInv, NEW p \in Live
  PROVE  /\ p \in Cells /\ pingQ[p] \in Entry /\ pingQ[p].id \in Ids
         /\ pingQ[p].id \in 1..Len(asked) /\ Len(asked) \in Nat
         /\ pingQ[p].lo <= pingQ[p].cur /\ pingQ[p].cur <= pingQ[p].hi
         /\ pingQ[p].lo <= pingQ[p].hi
         /\ pingQ[p].lo = asked[pingQ[p].id].lo /\ pingQ[p].hi = asked[pingQ[p].id].hi
         /\ pingQ[p].lo \in Nat /\ pingQ[p].hi \in Nat
<1>1. p \in Cells /\ pingQ[p] \in Entry
  BY DEF DiscoverInv, DiscoverTypeOK, Live
<1>2. /\ pingQ[p].lo \in Nat /\ pingQ[p].hi \in Nat /\ pingQ[p].cur \in Nat
      /\ pingQ[p].id \in Ids
  BY <1>1, DiscoverAssumption DEF Entry
<1>3. Len(asked) \in Nat
  BY DEF DiscoverInv, DiscoverTypeOK
<1>4. /\ pingQ[p].id \in 1..Len(asked)
      /\ pingQ[p].lo = asked[pingQ[p].id].lo /\ pingQ[p].hi = asked[pingQ[p].id].hi
      /\ pingQ[p].lo <= pingQ[p].cur /\ pingQ[p].cur <= pingQ[p].hi
  BY DEF DiscoverInv, LiveAreAsked
<1>. QED BY <1>1, <1>2, <1>3, <1>4

(* A new request: the cell was free, and the number is new. *)
LEMMA RequestKeeps ==
  ASSUME DiscoverInv, NEW e \in Requests, handle_discover_request(e)
  PROVE  DiscoverInv'
<1> DEFINE n == Len(asked) + 1
<1>1. PICK p \in Cells \ Live :
        /\ pingQ' = [pingQ EXCEPT ![p] =
                       [id |-> n, lo |-> e.lo, hi |-> e.hi, force |-> e.force,
                        cur |-> e.lo, retry |-> 0, since |-> Unset]]
        /\ timers' = timers \union {[p |-> p, left |-> 1, every |-> 1]}
  BY DEF handle_discover_request
<1> DEFINE new == [id |-> n, lo |-> e.lo, hi |-> e.hi, force |-> e.force,
                   cur |-> e.lo, retry |-> 0, since |-> Unset]
           tm  == [p |-> p, left |-> 1, every |-> 1]
<1>2. /\ Len(asked) \in Nat /\ n \in Ids /\ n \notin 1..Len(asked) /\ n \in 1..n
      /\ e.lo \in Addrs /\ e.hi \in Addrs /\ e.lo \in Nat /\ e.hi \in Nat /\ e.lo <= e.hi
  <2>1. Len(asked) \in Nat /\ MaxReqs \in Nat /\ Len(asked) < MaxReqs /\ e.lo <= e.hi
    BY DiscoverAssumption DEF DiscoverInv, DiscoverTypeOK, handle_discover_request
  <2>2. e \in [lo : Addrs, hi : Addrs, force : BOOLEAN] /\ Addrs \subseteq Nat
    BY DiscoverAssumption
  <2>3. e.lo \in Addrs /\ e.hi \in Addrs /\ e.lo \in Nat /\ e.hi \in Nat
    BY <2>2
  <2>. QED BY <2>1, <2>3 DEF Ids
<1>3. /\ asked' = Append(asked, e) /\ Len(asked') = n
      /\ asked' \in Seq(Requests) /\ asked'[n] = e
      /\ \A i \in 1..Len(asked) : asked'[i] = asked[i] /\ i \in 1..n /\ i # n
  BY <1>2 DEF DiscoverInv, DiscoverTypeOK, handle_discover_request
<1>4. /\ new \in Entry /\ new.id = n /\ new.lo = e.lo /\ new.hi = e.hi /\ new.cur = e.lo
      /\ Place(new) = 0
  <2>1. new \in Entry
    BY <1>2, DiscoverAssumption DEF Entry, DiscoverInv, DiscoverTypeOK
  <2>2. Width(new) \in Int /\ new.retry = 0 /\ new.cur - new.lo = 0
    BY <1>2 DEF Width
  <2>. QED BY <2>1, <2>2 DEF Place
<1>5. /\ pingQ' = [pingQ EXCEPT ![p] = new] /\ pingQ'[p] = new
      /\ \A r \in Cells : r # p => pingQ'[r] = pingQ[r]
  BY <1>1 DEF DiscoverInv, DiscoverTypeOK
<1>6. tm \in Timer /\ tm.p = p /\ timers' = timers \union {tm}
  BY <1>1, DiscoverAssumption DEF Timer
<1> HIDE DEF new, tm, n
<1>7. Live' = Live \union {p} /\ p \notin Live
  <2>1. new # Free
    BY <1>4, FreeIsNoEntry
  <2>. QED BY <1>1, <1>5, <2>1 DEF Live
<1>8. UNCHANGED <<ping_retries, Cache, echoes, tried, found, answered, stranded>>
  BY DEF handle_discover_request
<1>9. DiscoverTypeOK'
  <2>1. pingQ' \in [Cells -> Entry \union {Free}] /\ timers' \subseteq Timer
    BY <1>4, <1>5, <1>6 DEF DiscoverInv, DiscoverTypeOK
  <2>2. Len(asked') <= MaxReqs
    BY <1>2, <1>3 DEF Ids
  <2>. QED BY <1>3, <1>8, <2>1, <2>2 DEF DiscoverInv, DiscoverTypeOK
<1>10. TimersAreOfLive'
  <2>1. \A t \in timers : t.p # p
    BY <1>7 DEF DiscoverInv, TimersAreOfLive
  <2>. QED BY <1>6, <1>7, <2>1 DEF DiscoverInv, TimersAreOfLive
<1>11. LiveAreAsked'
  <2>1. ASSUME NEW r \in Live
        PROVE  /\ pingQ'[r] = pingQ[r] /\ pingQ[r].id \in 1..Len(asked')
               /\ pingQ[r].lo = asked'[pingQ[r].id].lo /\ pingQ[r].hi = asked'[pingQ[r].id].hi
               /\ pingQ[r].lo <= pingQ[r].cur /\ pingQ[r].cur <= pingQ[r].hi
               /\ pingQ[r].id # n
    BY <1>3, <1>5, <1>7, LiveEntry
  <2>2. \A r \in Live' :
          LET q == pingQ'[r]
          IN  /\ q.id \in 1..Len(asked')
              /\ q.lo = asked'[q.id].lo /\ q.hi = asked'[q.id].hi
              /\ q.lo <= q.cur /\ q.cur <= q.hi
    BY <1>2, <1>3, <1>4, <1>5, <1>7, <2>1
  <2>3. \A r, u \in Live' : pingQ'[r].id = pingQ'[u].id => r = u
    BY <1>4, <1>5, <1>7, <2>1 DEF DiscoverInv, LiveAreAsked
  <2>. QED BY <2>2, <2>3 DEF LiveAreAsked
<1>12. CacheIsTrue'
  BY <1>8 DEF DiscoverInv, CacheIsTrue
<1>13. RepliesAreTrue'
  <2>1. ASSUME NEW f \in found
        PROVE  /\ f.id \in 1..Len(asked) /\ f.id <= n /\ f.ip \in answered
               /\ asked[f.id].lo <= f.ip /\ f.ip <= asked[f.id].hi
    <3>1. f.id \in Nat /\ f.id >= 1
      BY DEF DiscoverInv, DiscoverTypeOK, Ids
    <3>. QED BY <1>2, <3>1 DEF DiscoverInv, RepliesAreTrue, n
  <2>. QED BY <1>3, <1>8, <2>1 DEF RepliesAreTrue
<1>14. PassedAreSettled'
  <2>1. ASSUME NEW r \in Live', NEW q, q = pingQ'[r],
               NEW ip \in q.lo..q.hi, ip - q.lo < Place(q)
        PROVE  Settled(q.id, ip)'
    <3>1. CASE r = p
      <4>1. ip - e.lo >= 0 /\ ip \in Int
        BY <1>2, <1>4, <1>5, <2>1, <3>1
      <4>. QED BY <1>2, <1>4, <1>5, <2>1, <3>1, <4>1
    <3>2. CASE r # p
      <4>1. r \in Live /\ pingQ[r] = q
        BY <1>5, <1>7, <2>1, <3>2 DEF Live
      <4>2. Settled(q.id, ip)
        BY <2>1, <4>1 DEF DiscoverInv, PassedAreSettled
      <4>. QED BY <1>8, <4>2 DEF Settled
    <3>. QED BY <3>1, <3>2
  <2>. QED BY <2>1 DEF PassedAreSettled
<1>15. EveryAddressTried'
  <2>1. QueuedIds' = QueuedIds \union {n}
    BY <1>4, <1>5, <1>7 DEF QueuedIds, Live
  <2>2. ASSUME NEW id \in 1..Len(asked'), id \notin QueuedIds'
        PROVE  id \in 1..Len(asked) /\ id \notin QueuedIds /\ asked'[id] = asked[id]
    BY <1>2, <1>3, <2>1, <2>2 DEF n
  <2>3. ASSUME NEW id \in 1..Len(asked'), id \notin QueuedIds',
               NEW ip \in asked'[id].lo..asked'[id].hi
        PROVE  ip \in Broadcast \/ ip \in tried'[id] \/ [id |-> id, ip |-> ip] \in found'
    BY <1>8, <2>2, <2>3 DEF DiscoverInv, EveryAddressTried
  <2>. QED BY <2>3 DEF EveryAddressTried
<1>. QED BY <1>9, <1>10, <1>11, <1>12, <1>13, <1>14, <1>15 DEF DiscoverInv

(* The number of retries may change at any time: nothing rests on it. *)
LEMMA SettingsKeeps ==
  ASSUME DiscoverInv, NEW n \in Retries, handle_set_settings(n)
  PROVE  DiscoverInv'
BY DiscoverAssumption
   DEF DiscoverInv, handle_set_settings, history, DiscoverTypeOK, TimersAreOfLive, Live, LiveAreAsked,
       CacheIsTrue, RepliesAreTrue, PassedAreSettled, Settled, Place, Width,
       EveryAddressTried, QueuedIds

(* What a call of ping_send adds to found is true of the request.           *)
LEMMA NewRepliesAreTrue ==
  ASSUME DiscoverInv, NEW p \in Live, NEW S \in SUBSET Nat,
         NEW f \in {[id |-> pingQ[p].id, ip |-> ip] : ip \in Reported(pingQ[p], S)}
  PROVE  /\ f \in [id : Ids, ip : Nat] /\ f.id <= Len(asked)
         /\ asked[f.id].lo <= f.ip /\ f.ip <= asked[f.id].hi
         /\ f.ip \in answered
<1>1. PICK ip \in Reported(pingQ[p], S) : f = [id |-> pingQ[p].id, ip |-> ip]
  OBVIOUS
<1>2. ip \in Nat /\ ip \in pingQ[p].lo..pingQ[p].hi /\ ip \in answered
  BY LiveEntry, ReportedAreTrue DEF DiscoverInv
<1>. QED BY <1>1, <1>2, LiveEntry

(* The end of a request: the loop found no address to ping, so the rest of  *)
(* the first sweep is settled.                                              *)
LEMMA DoneKeeps ==
  ASSUME DiscoverInv, NEW t \in timers, ping_send_done(t)
  PROVE  DiscoverInv'
<1> DEFINE p == t.p
           q == pingQ[p]
           S == PlacesLeft(q)
<1>1. /\ p \in Live /\ p \in Cells /\ q \in Entry /\ q.id \in Ids
      /\ q.id \in 1..Len(asked) /\ Len(asked) \in Nat
      /\ q.lo <= q.cur /\ q.cur <= q.hi /\ q.lo <= q.hi
      /\ q.lo = asked[q.id].lo /\ q.hi = asked[q.id].hi
      /\ q.lo \in Nat /\ q.hi \in Nat
  <2>1. p \in Live
    BY DEF DiscoverInv, TimersAreOfLive
  <2>. QED BY <2>1, LiveEntry
<1>2. Place(q) \in Nat
  BY <1>1, PlaceIsNat
<1>3. Width(q) \in Nat \ {0}
  BY <1>1 DEF Width
<1>4. /\ (ping_retries + 1) * Width(q) \in Nat
      /\ Width(q) - 1 <= (ping_retries + 1) * Width(q) - 1
  <2>1. ping_retries \in Nat
    BY DEF DiscoverInv, DiscoverTypeOK
  <2>. QED BY <1>3, <2>1, OneSweepAtLeast
<1>5. /\ S \in SUBSET Nat
      /\ \A j \in 0..(Width(q) - 1) : j >= Place(q) => j \in S
  <2> DEFINE top == (ping_retries + 1) * Width(q) - 1
  <2>1. top \in Int /\ Width(q) - 1 <= top /\ S = Place(q)..top
    BY <1>4 DEF PlacesLeft
  <2> HIDE DEF top, S
  <2>. QED BY <1>2, <1>3, <2>1
<1>6. /\ \A k \in S : ~Pings(q, k)
      /\ pingQ' = [pingQ EXCEPT ![p] = Free]
      /\ timers' = timers \ {t}
      /\ found' = found \union {[id |-> q.id, ip |-> ip] : ip \in Reported(q, S)}
      /\ UNCHANGED <<ping_retries, Cache, echoes, asked, tried, answered, stranded>>
  BY DEF ping_send_done
<1>7. /\ pingQ'[p] = Free /\ \A r \in Cells : r # p => pingQ'[r] = pingQ[r]
      /\ Live' = Live \ {p}
  BY <1>1, <1>6 DEF DiscoverInv, DiscoverTypeOK, Live
<1>8. \A f \in found' \ found :
        /\ f \in [id : Ids, ip : Nat] /\ f.id <= Len(asked)
        /\ asked[f.id].lo <= f.ip /\ f.ip <= asked[f.id].hi
        /\ f.ip \in answered
  BY <1>1, <1>5, <1>6, NewRepliesAreTrue
<1>9. ASSUME NEW ip \in q.lo..q.hi, NEW id, id = q.id
      PROVE  Settled(id, ip)'
  <2>1. ip - q.lo \in 0..(Width(q) - 1)
    BY <1>1 DEF Width
  <2>2. CASE ip - q.lo < Place(q)
    <3>1. Settled(q.id, ip)
      BY <1>1, <2>2 DEF DiscoverInv, PassedAreSettled
    <3>. QED BY <1>6, <1>9, <3>1 DEF Settled
  <2>3. CASE ip - q.lo >= Place(q)
    <3>1. ip - q.lo \in S
      BY <1>5, <2>1, <2>3
    <3>2. ip \in Broadcast \/ ip \in Reported(q, S)
      BY <1>1, <1>5, <1>6, <3>1, NoPingIsSettled
    <3>3. CASE ip \in Reported(q, S)
      <4>1. [id |-> id, ip |-> ip] \in found'
        BY <1>6, <1>9, <3>3
      <4>. QED BY <4>1 DEF Settled
    <3>. QED BY <3>2, <3>3 DEF Settled
  <2>. QED BY <1>1, <1>2, <2>1, <2>2, <2>3
<1>10. q.id \in QueuedIds /\ QueuedIds \ QueuedIds' \subseteq {q.id}
  BY <1>1, <1>7 DEF QueuedIds, Live
<1> HIDE DEF p, q, S
<1>11. DiscoverTypeOK'
  BY <1>6, <1>7, <1>8 DEF DiscoverInv, DiscoverTypeOK
<1>12. TimersAreOfLive'
  BY <1>6, <1>7 DEF DiscoverInv, TimersAreOfLive, p
<1>13. LiveAreAsked'
  BY <1>6, <1>7 DEF DiscoverInv, LiveAreAsked, Live
<1>14. CacheIsTrue'
  BY <1>6 DEF DiscoverInv, CacheIsTrue
<1>15. RepliesAreTrue'
  BY <1>6, <1>8 DEF DiscoverInv, RepliesAreTrue
<1>16. PassedAreSettled'
  BY <1>6, <1>7 DEF DiscoverInv, PassedAreSettled, Settled, Live
<1>17. EveryAddressTried'
  <2>1. ASSUME NEW id \in 1..Len(asked), id \notin QueuedIds', NEW ip \in asked[id].lo..asked[id].hi
        PROVE  Settled(id, ip)'
    <3>1. CASE id = q.id
      BY <1>1, <1>9, <2>1, <3>1
    <3>2. CASE id # q.id
      <4>1. id \notin QueuedIds
        BY <1>10, <2>1, <3>2
      <4>. QED BY <1>6, <2>1, <4>1 DEF DiscoverInv, EveryAddressTried, Settled
    <3>. QED BY <3>1, <3>2
  <2>. QED BY <1>6, <2>1 DEF EveryAddressTried, Settled
<1>. QED BY <1>11, <1>12, <1>13, <1>14, <1>15, <1>16, <1>17 DEF DiscoverInv

(* A ping: what the loop skipped is settled, and so is what it pinged.      *)
LEMMA PingKeeps ==
  ASSUME DiscoverInv, NEW t \in timers, ping_send(t)
  PROVE  DiscoverInv'
<1> DEFINE p == t.p
           q == pingQ[p]
<1>1. /\ p \in Live /\ p \in Cells /\ q \in Entry /\ q.id \in Ids
      /\ q.id \in 1..Len(asked) /\ Len(asked) \in Nat
      /\ q.lo <= q.cur /\ q.cur <= q.hi /\ q.lo <= q.hi
      /\ q.lo = asked[q.id].lo /\ q.hi = asked[q.id].hi
      /\ q.lo \in Nat /\ q.hi \in Nat
  <2>1. p \in Live
    BY DEF DiscoverInv, TimersAreOfLive
  <2>. QED BY <2>1, LiveEntry
<1>2. Place(q) \in Nat
  BY <1>1, PlaceIsNat
<1>3. PICK k \in PlacesLeft(q) :
        /\ Pings(q, k)
        /\ \A j \in Place(q)..(k - 1) : ~Pings(q, j)
        /\ LET next == Advance(q, k)
               then == Reschedule(t, next)
           IN  /\ pingQ' = [pingQ EXCEPT ![p] = next]
               /\ timers' = (timers \ {t}) \union then
               /\ stranded' = IF then = {} THEN stranded \union {q.id} ELSE stranded
        /\ tried' = [tried EXCEPT ![q.id] = @ \union {AddrAt(q, k)}]
        /\ \/ echoes' = echoes \union {[p |-> p, ip |-> AddrAt(q, k)]}
           \/ UNCHANGED echoes
        /\ found' = found \union
                    {[id |-> q.id, ip |-> ip] : ip \in Reported(q, Place(q)..(k - 1))}
        /\ UNCHANGED <<ping_retries, Cache, asked, answered>>
  BY DEF ping_send
<1> DEFINE S    == Place(q)..(k - 1)
           next == Advance(q, k)
           then == Reschedule(t, next)
<1>4. k \in Nat /\ Place(q) <= k /\ S \in SUBSET Nat
      /\ \A j \in Nat : Place(q) <= j /\ j < k => j \in S
  <2>1. k \in Int /\ Place(q) <= k
    BY DEF PlacesLeft
  <2>. QED BY <1>2, <2>1
<1>5. /\ next \in Entry
      /\ next.id = q.id /\ next.lo = q.lo /\ next.hi = q.hi
      /\ next.lo <= next.cur /\ next.cur <= next.hi
      /\ Place(next) = k + 1
  BY <1>1, <1>4, AdvanceIsNext
<1>6. /\ AddrAt(q, k) \in Nat /\ (k < Width(q) => AddrAt(q, k) - q.lo = k)
      /\ Width(q) \in Nat
  BY <1>1, <1>4, AddrAtInRange
<1>7. /\ then \subseteq Timer /\ (\A u \in then : u.p = p) /\ \A u, v \in then : u = v
  <2>1. t \in Timer
    BY DEF DiscoverInv, DiscoverTypeOK
  <2>. QED BY <1>5, <2>1, RescheduleIsTimer
<1>8. \A f \in found' \ found :
        /\ f \in [id : Ids, ip : Nat] /\ f.id <= Len(asked)
        /\ asked[f.id].lo <= f.ip /\ f.ip <= asked[f.id].hi
        /\ f.ip \in answered
  BY <1>1, <1>3, <1>4, NewRepliesAreTrue
<1>9. /\ pingQ' = [pingQ EXCEPT ![p] = next]
      /\ timers' = (timers \ {t}) \union then
      /\ stranded' \subseteq stranded \union {q.id}
      /\ tried' = [tried EXCEPT ![q.id] = @ \union {AddrAt(q, k)}]
      /\ echoes' \subseteq echoes \union {[p |-> p, ip |-> AddrAt(q, k)]}
      /\ found \subseteq found'
      /\ UNCHANGED <<ping_retries, Cache, asked, answered>>
  BY <1>3
<1>10. /\ tried' \in [Ids -> SUBSET Nat]
       /\ AddrAt(q, k) \in tried'[q.id]
       /\ \A id \in Ids : tried[id] \subseteq tried'[id]
  BY <1>1, <1>6, <1>9 DEF DiscoverInv, DiscoverTypeOK
<1>11. ASSUME NEW ip \in q.lo..q.hi, ip - q.lo < k + 1, NEW id, id = q.id
       PROVE  Settled(id, ip)'
  <2>1. ip - q.lo \in Nat /\ ip \in Int
    BY <1>1
  <2>2. CASE ip - q.lo < Place(q)
    <3>1. Settled(q.id, ip)
      BY <1>1, <2>2 DEF DiscoverInv, PassedAreSettled
    <3>. QED BY <1>1, <1>9, <1>10, <1>11, <3>1 DEF Settled
  <2>3. CASE Place(q) <= ip - q.lo /\ ip - q.lo < k
    <3>1. ip - q.lo \in S /\ ~Pings(q, ip - q.lo)
      BY <1>3, <1>4, <2>1, <2>3
    <3>2. ip \in Broadcast \/ ip \in Reported(q, S)
      BY <1>1, <1>4, <3>1, NoPingIsSettled
    <3>3. CASE ip \in Reported(q, S)
      <4>1. [id |-> id, ip |-> ip] \in found'
        BY <1>3, <1>11, <3>3
      <4>. QED BY <4>1 DEF Settled
    <3>. QED BY <3>2, <3>3 DEF Settled
  <2>4. CASE ip - q.lo = k
    <3>1. k < Width(q)
      BY <1>1, <2>1, <2>4 DEF Width
    <3>2. ip = AddrAt(q, k)
      BY <1>1, <1>6, <2>1, <2>4, <3>1
    <3>. QED BY <1>10, <1>11, <3>2 DEF Settled
  <2>. QED BY <1>2, <1>4, <1>11, <2>1, <2>2, <2>3, <2>4
<1> HIDE DEF next, then, S
<1>12. /\ pingQ'[p] = next /\ \A r \in Cells : r # p => pingQ'[r] = pingQ[r]
       /\ Live' = Live
  <2>1. next # Free
    BY <1>5, FreeIsNoEntry
  <2>. QED BY <1>1, <1>9, <2>1 DEF DiscoverInv, DiscoverTypeOK, Live
<1>13. QueuedIds' = QueuedIds
  BY <1>1, <1>5, <1>12 DEF QueuedIds, Live
<1>14. DiscoverTypeOK'
  <2>1. pingQ' \in [Cells -> Entry \union {Free}] /\ timers' \subseteq Timer
    BY <1>5, <1>7, <1>9 DEF DiscoverInv, DiscoverTypeOK
  <2>2. echoes' \subseteq [p : Cells, ip : Nat] /\ stranded' \subseteq Ids
    BY <1>1, <1>6, <1>9 DEF DiscoverInv, DiscoverTypeOK
  <2>3. found' \subseteq [id : Ids, ip : Nat]
    BY <1>8 DEF DiscoverInv, DiscoverTypeOK
  <2>. QED BY <1>9, <1>10, <2>1, <2>2, <2>3 DEF DiscoverInv, DiscoverTypeOK
<1>15. TimersAreOfLive'
  <2>1. \A u \in timers \ {t} : u.p # p
    BY DEF DiscoverInv, TimersAreOfLive
  <2>. QED BY <1>1, <1>7, <1>9, <1>12, <2>1 DEF DiscoverInv, TimersAreOfLive
<1>16. LiveAreAsked'
  <2>1. \A r \in Live' :
          LET e == pingQ'[r]
          IN  /\ e.id \in 1..Len(asked')
              /\ e.lo = asked'[e.id].lo /\ e.hi = asked'[e.id].hi
              /\ e.lo <= e.cur /\ e.cur <= e.hi
    BY <1>1, <1>5, <1>9, <1>12 DEF DiscoverInv, LiveAreAsked, Live
  <2>2. \A r \in Live' : pingQ'[r].id = pingQ[r].id
    BY <1>5, <1>12 DEF Live
  <2>. QED BY <1>12, <2>1, <2>2 DEF DiscoverInv, LiveAreAsked
<1>17. CacheIsTrue'
  BY <1>9 DEF DiscoverInv, CacheIsTrue
<1>18. RepliesAreTrue'
  BY <1>8, <1>9 DEF DiscoverInv, RepliesAreTrue
<1>19. PassedAreSettled'
  <2>1. ASSUME NEW r \in Live', NEW e, e = pingQ'[r],
               NEW ip \in e.lo..e.hi, ip - e.lo < Place(e)
        PROVE  Settled(e.id, ip)'
    <3>1. CASE r = p
      BY <1>5, <1>11, <1>12, <2>1, <3>1
    <3>2. CASE r # p
      <4>1. r \in Live /\ pingQ[r] = e /\ e.id \in Ids
        BY <1>12, <2>1, <3>2, LiveEntry DEF Live
      <4>2. Settled(e.id, ip)
        BY <2>1, <4>1 DEF DiscoverInv, PassedAreSettled
      <4>. QED BY <1>9, <1>10, <4>1, <4>2 DEF Settled
    <3>. QED BY <3>1, <3>2
  <2>. QED BY <2>1 DEF PassedAreSettled
<1>20. EveryAddressTried'
  <2>1. \A id \in 1..Len(asked) : id \in Ids
    BY <1>1, DiscoverAssumption DEF DiscoverInv, DiscoverTypeOK, Ids
  <2>. QED BY <1>9, <1>10, <1>13, <2>1 DEF DiscoverInv, EveryAddressTried
<1>. QED BY <1>14, <1>15, <1>16, <1>17, <1>18, <1>19, <1>20 DEF DiscoverInv

(* An answer: it goes to the request whose structure it names, if the       *)
(* sender is of that request's range.                                       *)
LEMMA ReceiveKeeps ==
  ASSUME DiscoverInv, NEW e \in echoes, handle_ping_recieve(e)
  PROVE  DiscoverInv'
<1> DEFINE q == pingQ[e.p]
           f == [id |-> q.id, ip |-> e.ip]
<1>1. /\ e.p \in Live /\ q.lo <= e.ip /\ e.ip <= q.hi
      /\ e.ip \in Hosts /\ e.ip \in Nat /\ e.ip \in answered'
      /\ answered' = answered \union {e.ip} /\ found' = found \union {f}
      /\ add_to_cache(e.ip)
      /\ UNCHANGED <<pingQ, timers, ping_retries, echoes, asked, tried, stranded>>
  BY DiscoverAssumption DEF handle_ping_recieve, in_ping_q_range
<1>2. /\ f \in [id : Ids, ip : Nat] /\ f.id = q.id /\ f.ip = e.ip
      /\ q.id <= Len(asked) /\ q.lo = asked[q.id].lo /\ q.hi = asked[q.id].hi
  BY <1>1, LiveEntry
<1>3. /\ Cache' \in Seq(Hosts) /\ Len(Cache') <= MaxCache
      /\ \A i \in 1..Len(Cache') : Cache'[i] = e.ip \/ \E j \in 1..Len(Cache) : Cache'[i] = Cache[j]
  <2>1. Cache \in Seq(Hosts) /\ Len(Cache) \in Nat /\ Len(Cache) <= MaxCache /\ MaxCache \in Nat \ {0}
    BY DiscoverAssumption DEF DiscoverInv, DiscoverTypeOK
  <2>2. CASE Len(Cache) < MaxCache
    <3>1. Cache' = <<e.ip>> \o Cache
      BY <1>1, <2>2 DEF add_to_cache
    <3>2. /\ Cache' \in Seq(Hosts) /\ Len(Cache') = Len(Cache) + 1
          /\ \A i \in 1..(Len(Cache) + 1) : Cache'[i] = IF i = 1 THEN e.ip ELSE Cache[i - 1]
      BY <1>1, <2>1, <3>1
    <3>3. \A i \in 1..(Len(Cache) + 1) : i # 1 => i - 1 \in 1..Len(Cache)
      BY <2>1
    <3>. QED BY <2>1, <2>2, <3>2, <3>3
  <2>3. CASE ~(Len(Cache) < MaxCache)
    <3>1. Cache' = [Cache EXCEPT ![1] = e.ip] /\ 1 \in 1..Len(Cache)
      BY <1>1, <2>1, <2>3 DEF add_to_cache
    <3>2. Cache' \in Seq(Hosts) /\ Len(Cache') = Len(Cache)
          /\ \A i \in 1..Len(Cache) : Cache'[i] = e.ip \/ Cache'[i] = Cache[i]
      BY <1>1, <2>1, <3>1
    <3>. QED BY <2>1, <3>2
  <2>. QED BY <2>2, <2>3
<1> HIDE DEF f, q
<1>4. DiscoverTypeOK'
  BY <1>1, <1>2, <1>3 DEF DiscoverInv, DiscoverTypeOK
<1>5. TimersAreOfLive' /\ LiveAreAsked' /\ Live' = Live /\ QueuedIds' = QueuedIds
  BY <1>1 DEF DiscoverInv, TimersAreOfLive, LiveAreAsked, Live, QueuedIds
<1>6. CacheIsTrue'
  BY <1>1, <1>3 DEF DiscoverInv, CacheIsTrue
<1>7. RepliesAreTrue'
  BY <1>1, <1>2 DEF DiscoverInv, RepliesAreTrue
<1>8. PassedAreSettled'
  <2>1. ASSUME NEW r \in Live', NEW d, d = pingQ'[r],
               NEW ip \in d.lo..d.hi, ip - d.lo < Place(d)
        PROVE  Settled(d.id, ip)'
    <3>1. Settled(d.id, ip)
      BY <1>1, <1>5, <2>1 DEF DiscoverInv, PassedAreSettled
    <3>. QED BY <1>1, <3>1 DEF Settled
  <2>. QED BY <2>1 DEF PassedAreSettled
<1>9. EveryAddressTried'
  BY <1>1, <1>5 DEF DiscoverInv, EveryAddressTried
<1>. QED BY <1>4, <1>5, <1>6, <1>7, <1>8, <1>9 DEF DiscoverInv

(* The clock: only left and since change. *)
LEMMA TickKeeps ==
  ASSUME DiscoverInv, Tick
  PROVE  DiscoverInv'
<1>1. /\ UNCHANGED <<ping_retries, Cache, echoes, asked, tried, found, answered, stranded>>
      /\ pingQ' = [p \in Cells |->
           IF p \notin Live \/ pingQ[p].since \in {Unset, Timeout + 1} THEN pingQ[p]
           ELSE [pingQ[p] EXCEPT !.since = @ + 1]]
      /\ timers' = {[t EXCEPT !.left = IF @ = 0 THEN 0 ELSE @ - 1] : t \in timers}
  BY DEF Tick, history
<1>2. ASSUME NEW p \in Live
      PROVE  /\ p \in Cells /\ pingQ'[p] \in Entry
             /\ pingQ'[p].id = pingQ[p].id /\ pingQ'[p].lo = pingQ[p].lo
             /\ pingQ'[p].hi = pingQ[p].hi /\ pingQ'[p].cur = pingQ[p].cur
             /\ pingQ'[p].retry = pingQ[p].retry
  <2>1. p \in Cells /\ pingQ[p] \in Entry
    BY LiveEntry
  <2>2. CASE pingQ[p].since \in {Unset, Timeout + 1}
    BY <1>1, <2>1, <2>2
  <2>3. CASE pingQ[p].since \notin {Unset, Timeout + 1}
    <3>1. pingQ[p].since + 1 \in 0..(Timeout + 1)
      BY <2>1, <2>3, DiscoverAssumption DEF Entry
    <3>2. pingQ'[p] = [pingQ[p] EXCEPT !.since = pingQ[p].since + 1]
      BY <1>1, <2>1, <2>3
    <3>. QED BY <2>1, <3>1, <3>2 DEF Entry
  <2>. QED BY <2>2, <2>3
<1>3. ASSUME NEW p \in Cells \ Live
      PROVE  pingQ'[p] = Free
  BY <1>1 DEF Live
<1>4. Live' = Live /\ pingQ' \in [Cells -> Entry \union {Free}]
  BY <1>1, <1>2, <1>3, FreeIsNoEntry DEF Live
<1>5. ASSUME NEW u \in timers'
      PROVE  \E t \in timers : u.p = t.p /\ u \in Timer
                               /\ u = [t EXCEPT !.left = IF @ = 0 THEN 0 ELSE @ - 1]
  <2>1. PICK t \in timers : u = [t EXCEPT !.left = IF @ = 0 THEN 0 ELSE @ - 1]
    BY <1>1
  <2>2. t \in Timer /\ t.left \in 0..Timeout
    BY DEF DiscoverInv, DiscoverTypeOK, Timer
  <2>3. (IF t.left = 0 THEN 0 ELSE t.left - 1) \in 0..Timeout
    BY <2>2, DiscoverAssumption
  <2>4. u \in Timer /\ u.p = t.p
    BY <2>1, <2>2, <2>3 DEF Timer
  <2>. QED BY <2>1, <2>4
<1>6. DiscoverTypeOK'
  BY <1>1, <1>4, <1>5 DEF DiscoverInv, DiscoverTypeOK
<1>7. TimersAreOfLive'
  <2>1. ASSUME NEW u \in timers', NEW v \in timers', u.p = v.p
        PROVE  u = v
    BY <1>5, <2>1 DEF DiscoverInv, TimersAreOfLive
  <2>. QED BY <1>4, <1>5, <2>1 DEF DiscoverInv, TimersAreOfLive
<1>8. LiveAreAsked'
  <2>1. ASSUME NEW p \in Live
        PROVE  LET q == pingQ'[p]
               IN  /\ q.id \in 1..Len(asked')
                   /\ q.lo = asked'[q.id].lo /\ q.hi = asked'[q.id].hi
                   /\ q.lo <= q.cur /\ q.cur <= q.hi
    BY <1>1, <1>2, LiveEntry
  <2>2. \A p, r \in Live : pingQ'[p].id = pingQ'[r].id => p = r
    BY <1>2 DEF DiscoverInv, LiveAreAsked
  <2>. QED BY <1>4, <2>1, <2>2 DEF LiveAreAsked
<1>9. CacheIsTrue' /\ RepliesAreTrue'
  BY <1>1 DEF DiscoverInv, CacheIsTrue, RepliesAreTrue
<1>10. PassedAreSettled'
  <2>1. ASSUME NEW r \in Live', NEW d, d = pingQ'[r],
               NEW ip \in d.lo..d.hi, ip - d.lo < Place(d)
        PROVE  Settled(d.id, ip)'
    <3>1. Place(d) = Place(pingQ[r])
      BY <1>2, <1>4, <2>1 DEF Place, Width
    <3>2. Settled(d.id, ip)
      BY <1>2, <1>4, <2>1, <3>1 DEF DiscoverInv, PassedAreSettled
    <3>. QED BY <1>1, <3>2 DEF Settled
  <2>. QED BY <2>1 DEF PassedAreSettled
<1>11. QueuedIds' = QueuedIds
  BY <1>2, <1>4 DEF QueuedIds
<1>12. EveryAddressTried'
  BY <1>1, <1>11 DEF DiscoverInv, EveryAddressTried
<1>. QED BY <1>6, <1>7, <1>8, <1>9, <1>10, <1>12 DEF DiscoverInv

-----------------------------------------------------------------------------
LEMMA Invariance == DiscoverSpec => []DiscoverInv
<1>1. DiscoverInv /\ [DiscoverNext]_discoverVars => DiscoverInv'
  <2> SUFFICES ASSUME DiscoverInv, [DiscoverNext]_discoverVars PROVE DiscoverInv'
    OBVIOUS
  <2>1. UNCHANGED discoverVars => DiscoverInv'
    BY DEF discoverVars, DiscoverInv, DiscoverTypeOK, TimersAreOfLive, Live, LiveAreAsked, CacheIsTrue, RepliesAreTrue,
           PassedAreSettled, Settled, Place, Width, EveryAddressTried, QueuedIds
  <2>. QED BY <2>1, DiscoverNextCases, RequestKeeps, SettingsKeeps, PingKeeps, DoneKeeps,
              ReceiveKeeps, TickKeeps
<1>. QED BY <1>1, InitIInv, PTL DEF DiscoverSpec

(* Every variable keeps its type: what is in pingQ is a request's range     *)
(* with a place in it, the delay of a timer is never 0 and never more than  *)
(* PING_TIMEOUT_INTERVAL (sched.c would refuse 0), and the cache never      *)
(* outgrows MAX_PING_CACHE_ENTRIES (add_to_cache).                          *)
THEOREM DiscoverTypeCorrect == DiscoverSpec => []DiscoverTypeOK
BY Invariance, PTL DEF DiscoverInv

(* A discover reply (handle_ping_recieve and the cached addresses in        *)
(* ping_send) names an address of the asker's own range that has answered,  *)
(* however late the answer and whichever structure its memory holds now.    *)
THEOREM DiscoverRepliesAreTrue == DiscoverSpec => []RepliesAreTrue
BY Invariance, PTL DEF DiscoverInv

(* A request that ping_send took out of pingQ has left out no address of    *)
(* its range, however ping_retries and the cache changed on the way.        *)
THEOREM DiscoverEveryAddressTried == DiscoverSpec => []EveryAddressTried
BY Invariance, PTL DEF DiscoverInv
=============================================================================
