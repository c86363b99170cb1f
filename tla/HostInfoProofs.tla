--------------------------- MODULE HostInfoProofs ---------------------------
(***************************************************************************)
(* Proofs about HostInfo, for any hosts, windows, addresses, systems and    *)
(* scans, any number of answers under way and any nesting of dialogs: the   *)
(* windows of a page and its hosts know of one another, what is shown of a  *)
(* host was answered for it, and freed memory is used in three situations   *)
(* only.                                                                    *)
(***************************************************************************)
EXTENDS HostInfo, GuiProofs

HeadIn(o, at) == IF at[o].head = NULL THEN o ELSE at[o].head

(* A handler that runs: the hosts it has still to show are there; those it  *)
(* has still to delete are the user's, and of different groups.             *)
HandlerSound(f, at) ==
  /\ \A j \in 1..Len(f.todo) : at[f.todo[j]] # NULL
  /\ f.at = "pixmap" => f.todo # <<>> /\ HeadIn(f.todo[1], at) = f.todo[1]
  /\ f.at = "display" => f.todo # <<>> \/ f.drop # <<>>
  /\ f.at = "login" => f.todo = <<>>
  /\ f.drop # <<>> => f.kind = "user"
  /\ \A j \in 1..Len(f.drop) : at[f.drop[j]] # NULL /\ HeadIn(f.drop[j], at) = f.drop[j]
  /\ \A i, j \in 1..Len(f.drop) : f.drop[i] = f.drop[j] => i = j

(* The user waits for all of them, and chooses among the heads of groups.   *)
UserWaits(mn, hd, at) ==
  /\ \A i \in 1..Len(hd) : hd[i].kind = "user" => i = Len(hd) /\ mn = NULL
  /\ mn # NULL => \A o \in mn.plink : at[o] # NULL /\ HeadIn(o, at) = o

(* Only what is still to be shown may look like a head without being one.   *)
FlagsSound(hd, at) ==
  \A o \in Hosts : at[o] # NULL /\ at[o].group /\ HeadIn(o, at) # o =>
    \E i \in 1..Len(hd) : hd[i].kind = "user" /\ \E j \in 1..Len(hd[i].todo) : hd[i].todo[j] = o

(* The name of an icon is freed only under the dialog that asks for one.    *)
IconsSound(hd, at) ==
  \A o \in Hosts : at[o] # NULL /\ at[o].icon = "freed" =>
    \E i \in 1..Len(hd) : hd[i].at = "pixmap" /\ hd[i].todo[1] = o

Sound(mn, hd, at) ==
  /\ mn \in Menu \union {NULL} /\ hd \in Seq(Handler) /\ at \in [Hosts -> HostData \union {NULL}]
  /\ \A i \in 1..Len(hd) : HandlerSound(hd[i], at)
  /\ UserWaits(mn, hd, at) /\ FlagsSound(hd, at) /\ IconsSound(hd, at)

(* A window that is saved says what belongs to the host it was opened for.  *)
EntriesBelong == OneWindow => \A w \in Windows : windows[w] # NULL => windows[w].os.of = windows[w].of

(* The host that a lookup is for was deleted, or its memory is of a host.   *)
LookupsKnown == \A l \in lookups : hosts[l.po] = NULL => "deleted" \in misused

InfoInv ==
  /\ InfoTypeOK
  /\ Sound(menu, handlers, hosts)
  /\ WindowsServe /\ EntriesBelong /\ InfoBelongs
  /\ LookupsKnown /\ MisuseOnly

-----------------------------------------------------------------------------
(* Handlers that begin, go on and return. *)

(* More hosts, hosts that leave their group, and what else is known of them.*)
LEMMA HostsSound ==
  ASSUME NEW mn, NEW hd, NEW at, NEW at2 \in [Hosts -> HostData \union {NULL}], Sound(mn, hd, at),
         \A o \in Hosts : at[o] # NULL =>
           /\ at2[o] # NULL /\ at2[o].head \in {at[o].head, NULL}
           /\ at2[o].group => at[o].group \/ HeadIn(o, at2) = o
           /\ at2[o].icon = "freed" => at[o].icon = "freed",
         \A o \in Hosts : at[o] = NULL /\ at2[o] # NULL => at2[o].head = NULL /\ at2[o].icon = "held"
  PROVE  Sound(mn, hd, at2)
<1>. USE DEF Sound
<1>1. \A o \in Hosts : at[o] # NULL => HeadIn(o, at2) \in {HeadIn(o, at), o}
  BY DEF HeadIn
<1>2. ASSUME NEW i \in 1..Len(hd)
      PROVE  HandlerSound(hd[i], at2)
  <2>1. HandlerSound(hd[i], at) /\ hd[i] \in Handler
    BY ElementOfSeq
  <2>2. /\ \A j \in 1..Len(hd[i].todo) : hd[i].todo[j] \in Hosts
        /\ \A j \in 1..Len(hd[i].drop) : hd[i].drop[j] \in Hosts
    BY <2>1, ElementOfSeq DEF Handler
  <2>3. hd[i].todo # <<>> => 1 \in 1..Len(hd[i].todo)
    BY <2>1, EmptySeq, LenProperties DEF Handler
  <2>. QED BY <1>1, <2>1, <2>2, <2>3 DEF HandlerSound
<1>3. UserWaits(mn, hd, at2)
  <2>1. mn # NULL => mn.plink \subseteq Hosts
    BY DEF Menu
  <2>. QED BY <1>1, <2>1 DEF UserWaits
<1>4. FlagsSound(hd, at2)
  <2>1. ASSUME NEW o \in Hosts, at2[o] # NULL, at2[o].group, HeadIn(o, at2) # o
        PROVE  at[o] # NULL /\ at[o].group /\ HeadIn(o, at) # o
    <3>1. at[o] # NULL
      BY <2>1 DEF HeadIn
    <3>. QED BY <1>1, <2>1, <3>1
  <2>. QED BY <2>1 DEF FlagsSound
<1>5. IconsSound(hd, at2)
  <2>1. ASSUME NEW o \in Hosts, at2[o] # NULL, at2[o].icon = "freed"
        PROVE  at[o] # NULL /\ at[o].icon = "freed"
    BY <2>1
  <2>. QED BY <2>1 DEF IconsSound
<1>. QED BY <1>2, <1>3, <1>4, <1>5

LEMMA OneHostSound ==
  ASSUME NEW mn, NEW hd, NEW at, Sound(mn, hd, at), NEW o \in Hosts, at[o] # NULL,
         NEW r \in HostData, r.head \in {at[o].head, NULL},
         r.group => at[o].group \/ r.head \in {NULL, o},
         r.icon = "freed" => at[o].icon = "freed"
  PROVE  Sound(mn, hd, [at EXCEPT ![o] = r])
<1>. DEFINE at2 == [at EXCEPT ![o] = r]
<1>1. /\ at2 \in [Hosts -> HostData \union {NULL}] /\ at2[o] = r
      /\ \A q \in Hosts : q # o => at2[q] = at[q]
  BY DEF Sound
<1>. HIDE DEF at2
<1>2. \A q \in Hosts : at[q] # NULL =>
        /\ at2[q] # NULL /\ at2[q].head \in {at[q].head, NULL}
        /\ at2[q].group => at[q].group \/ HeadIn(q, at2) = q
        /\ at2[q].icon = "freed" => at[q].icon = "freed"
  <2>. TAKE q \in Hosts
  <2>1. CASE q = o
    BY <1>1, <2>1, HostInfoAssumption DEF HeadIn
  <2>2. CASE q # o
    BY <1>1, <2>2
  <2>. QED BY <2>1, <2>2
<1>3. \A q \in Hosts : at[q] = NULL /\ at2[q] # NULL => at2[q].head = NULL /\ at2[q].icon = "held"
  BY <1>1
<1>4. Sound(mn, hd, at2)
  BY <1>1, <1>2, <1>3, HostsSound
<1>. QED BY <1>4 DEF at2

(* A handler begins. *)
LEMMA BeginSound ==
  ASSUME NEW mn, NEW hd, NEW at, Sound(mn, hd, at),
         NEW f \in Handler, HandlerSound(f, at), f.kind = "user" => hd = <<>> /\ mn = NULL
  PROVE  Sound(mn, <<f>> \o hd, at)
<1>. USE DEF Sound
<1>. DEFINE hd2 == <<f>> \o hd
<1>1. /\ hd2 \in Seq(Handler) /\ Len(hd2) = Len(hd) + 1 /\ hd2[1] = f
      /\ \A i \in 1..Len(hd) : hd2[i + 1] = hd[i]
  BY PrependProperties
<1>2. Len(hd) \in Nat
  BY LenProperties
<1>. HIDE DEF hd2
<1>3. \A i \in 1..Len(hd2) : i = 1 \/ \E k \in 1..Len(hd) : i = k + 1 /\ hd2[i] = hd[k]
  <2>. TAKE i \in 1..Len(hd2)
  <2>1. CASE i # 1
    <3>1. i - 1 \in 1..Len(hd) /\ i = (i - 1) + 1
      BY <1>1, <1>2, <2>1
    <3>. QED BY <1>1, <3>1
  <2>. QED BY <2>1
<1>4. \A k \in 1..Len(hd) : k + 1 \in 1..Len(hd2)
  BY <1>1, <1>2
<1>5. \A i \in 1..Len(hd2) : HandlerSound(hd2[i], at)
  BY <1>1, <1>3
<1>6. UserWaits(mn, hd2, at)
  <2>1. hd = <<>> => Len(hd2) = 1
    BY <1>1
  <2>2. ASSUME NEW i \in 1..Len(hd2), hd2[i].kind = "user"
        PROVE  i = Len(hd2) /\ mn = NULL
    <3>1. CASE i = 1
      BY <1>1, <2>1, <2>2, <3>1
    <3>2. CASE i # 1
      <4>1. PICK k \in 1..Len(hd) : i = k + 1 /\ hd2[i] = hd[k]
        BY <1>3, <3>2
      <4>2. k = Len(hd) /\ mn = NULL
        BY <2>2, <4>1 DEF UserWaits
      <4>. QED BY <1>1, <4>1, <4>2
    <3>. QED BY <3>1, <3>2
  <2>. QED BY <2>2 DEF UserWaits
<1>7. FlagsSound(hd2, at)
  BY <1>1, <1>4 DEF FlagsSound
<1>8. IconsSound(hd2, at)
  BY <1>1, <1>4 DEF IconsSound
<1>. QED BY <1>1, <1>5, <1>6, <1>7, <1>8 DEF hd2

(* What the innermost handler need not show any more. *)
Settled(o, at) == HeadIn(o, at) = o \/ ~at[o].group

(* The innermost handler goes on: as f, ... *)
LEMMA GoesOnSound ==
  ASSUME NEW mn, NEW hd, NEW at, Sound(mn, hd, at), hd # <<>>,
         NEW f \in Handler, HandlerSound(f, at), f.kind = hd[1].kind,
         \A j \in 1..Len(hd[1].todo) :
           Settled(hd[1].todo[j], at) \/ \E k \in 1..Len(f.todo) : f.todo[k] = hd[1].todo[j],
         hd[1].at = "pixmap" => at[hd[1].todo[1]].icon = "held"
  PROVE  Sound(mn, <<f>> \o Tail(hd), at)
<1>. USE DEF Sound
<1>. DEFINE hd2 == <<f>> \o Tail(hd)
<1>1. /\ Tail(hd) \in Seq(Handler) /\ Len(Tail(hd)) \in Nat /\ Len(hd) = Len(Tail(hd)) + 1
      /\ \A i \in 1..Len(Tail(hd)) : hd[i + 1] = Tail(hd)[i]
  BY TailProperties
<1>2. /\ hd2 \in Seq(Handler) /\ Len(hd2) = Len(Tail(hd)) + 1 /\ hd2[1] = f
      /\ \A i \in 1..Len(Tail(hd)) : hd2[i + 1] = Tail(hd)[i]
  BY <1>1, PrependProperties
<1>. HIDE DEF hd2
<1>3. Len(hd2) = Len(hd) /\ 1 \in 1..Len(hd)
  BY <1>1, <1>2
<1>4. \A i \in 1..Len(hd) : i # 1 => hd2[i] = hd[i]
  <2>. TAKE i \in 1..Len(hd)
  <2>. HAVE i # 1
  <2>1. i - 1 \in 1..Len(Tail(hd)) /\ (i - 1) + 1 = i
    BY <1>1
  <2>. QED BY <1>1, <1>2, <2>1
<1>5. \A i \in 1..Len(hd2) : HandlerSound(hd2[i], at)
  BY <1>2, <1>3, <1>4
<1>6. UserWaits(mn, hd2, at)
  BY <1>2, <1>3, <1>4 DEF UserWaits
<1>7. FlagsSound(hd2, at)
  <2>. SUFFICES ASSUME NEW o \in Hosts, at[o] # NULL, at[o].group, HeadIn(o, at) # o
                PROVE  \E i \in 1..Len(hd2) :
                         hd2[i].kind = "user" /\ \E j \in 1..Len(hd2[i].todo) : hd2[i].todo[j] = o
    BY DEF FlagsSound
  <2>1. PICK i \in 1..Len(hd) : hd[i].kind = "user" /\ \E j \in 1..Len(hd[i].todo) : hd[i].todo[j] = o
    BY DEF FlagsSound
  <2>2. CASE i = 1
    <3>1. PICK j \in 1..Len(hd[1].todo) : hd[1].todo[j] = o
      BY <2>1, <2>2
    <3>2. ~Settled(hd[1].todo[j], at)
      BY <3>1 DEF Settled
    <3>3. \E k \in 1..Len(f.todo) : f.todo[k] = o
      BY <3>1, <3>2
    <3>. QED BY <1>2, <1>3, <2>1, <2>2, <3>3
  <2>3. CASE i # 1
    BY <1>3, <1>4, <2>1, <2>3
  <2>. QED BY <2>2, <2>3
<1>8. IconsSound(hd2, at)
  <2>. SUFFICES ASSUME NEW o \in Hosts, at[o] # NULL, at[o].icon = "freed"
                PROVE  \E i \in 1..Len(hd2) : hd2[i].at = "pixmap" /\ hd2[i].todo[1] = o
    BY DEF IconsSound
  <2>1. PICK i \in 1..Len(hd) : hd[i].at = "pixmap" /\ hd[i].todo[1] = o
    BY DEF IconsSound
  <2>2. i # 1
    BY <2>1
  <2>. QED BY <1>3, <1>4, <2>1, <2>2
<1>. QED BY <1>2, <1>5, <1>6, <1>7, <1>8 DEF hd2

(* ... or not at all. *)
LEMMA ReturnsSound ==
  ASSUME NEW mn, NEW hd, NEW at, Sound(mn, hd, at), hd # <<>>,
         \A j \in 1..Len(hd[1].todo) : Settled(hd[1].todo[j], at),
         hd[1].at = "pixmap" => at[hd[1].todo[1]].icon = "held"
  PROVE  Sound(mn, Tail(hd), at)
<1>. USE DEF Sound
<1>. DEFINE hd2 == Tail(hd)
<1>1. /\ hd2 \in Seq(Handler) /\ Len(hd2) \in Nat /\ Len(hd) = Len(hd2) + 1
      /\ \A i \in 1..Len(hd2) : hd[i + 1] = hd2[i]
  BY TailProperties
<1>. HIDE DEF hd2
<1>2. \A i \in 1..Len(hd2) : i + 1 \in 1..Len(hd)
  BY <1>1
<1>3. \A i \in 1..Len(hd) : i # 1 => \E k \in 1..Len(hd2) : hd2[k] = hd[i]
  <2>. TAKE i \in 1..Len(hd)
  <2>. HAVE i # 1
  <2>1. i - 1 \in 1..Len(hd2) /\ (i - 1) + 1 = i
    BY <1>1
  <2>. QED BY <1>1, <2>1
<1>5. \A i \in 1..Len(hd2) : HandlerSound(hd2[i], at)
  BY <1>1, <1>2
<1>6. UserWaits(mn, hd2, at)
  <2>1. ASSUME NEW i \in 1..Len(hd2), hd2[i].kind = "user"
        PROVE  i = Len(hd2) /\ mn = NULL
    <3>1. i + 1 = Len(hd) /\ mn = NULL
      BY <1>1, <1>2, <2>1 DEF UserWaits
    <3>. QED BY <1>1, <3>1
  <2>. QED BY <2>1 DEF UserWaits
<1>7. FlagsSound(hd2, at)
  <2>. SUFFICES ASSUME NEW o \in Hosts, at[o] # NULL, at[o].group, HeadIn(o, at) # o
                PROVE  \E i \in 1..Len(hd2) :
                         hd2[i].kind = "user" /\ \E j \in 1..Len(hd2[i].todo) : hd2[i].todo[j] = o
    BY DEF FlagsSound
  <2>1. PICK i \in 1..Len(hd) : hd[i].kind = "user" /\ \E j \in 1..Len(hd[i].todo) : hd[i].todo[j] = o
    BY DEF FlagsSound
  <2>2. i # 1
    BY <2>1 DEF Settled
  <2>. QED BY <1>3, <2>1, <2>2
<1>8. IconsSound(hd2, at)
  <2>. SUFFICES ASSUME NEW o \in Hosts, at[o] # NULL, at[o].icon = "freed"
                PROVE  \E i \in 1..Len(hd2) : hd2[i].at = "pixmap" /\ hd2[i].todo[1] = o
    BY DEF IconsSound
  <2>1. PICK i \in 1..Len(hd) : hd[i].at = "pixmap" /\ hd[i].todo[1] = o
    BY DEF IconsSound
  <2>2. i # 1
    BY <2>1
  <2>. QED BY <1>3, <2>1, <2>2
<1>. QED BY <1>1, <1>5, <1>6, <1>7, <1>8 DEF hd2

(* The innermost handler has shown its first host.                          *)
LEMMA ShownSound ==
  ASSUME NEW mn, NEW hd, NEW at, Sound(mn, hd, at), hd # <<>>, hd[1].todo # <<>>,
         Settled(hd[1].todo[1], at),
         hd[1].at = "pixmap" => at[hd[1].todo[1]].icon = "held",
         NEW f, f = [hd[1] EXCEPT !.todo = Tail(@), !.at = "display"]
  PROVE  Sound(mn, IF f.todo = <<>> /\ f.drop = <<>> THEN Tail(hd) ELSE <<f>> \o Tail(hd), at)
<1>. DEFINE g == hd[1]
<1>1. g \in Handler /\ HandlerSound(g, at)
  <2>1. 1 \in 1..Len(hd)
    BY EmptySeq, LenProperties DEF Sound
  <2>. QED BY <2>1, ElementOfSeq DEF Sound
<1>2. g.todo \in Seq(Hosts) /\ g.todo # <<>>
  BY <1>1 DEF Handler
<1>3. f \in Handler /\ f.kind = g.kind /\ f.at = "display" /\ f.drop = g.drop /\ f.todo = Tail(g.todo)
  <2>1. Tail(g.todo) \in Seq(Hosts)
    BY <1>2, TailProperties
  <2>. QED BY <1>1, <2>1 DEF Handler
<1>4. /\ Len(f.todo) \in Nat /\ Len(g.todo) = Len(f.todo) + 1
      /\ \A i \in 1..Len(f.todo) : g.todo[i + 1] = f.todo[i]
  BY <1>2, <1>3, TailProperties
<1>. HIDE DEF g
<1>5. \A j \in 1..Len(f.todo) : j + 1 \in 1..Len(g.todo)
  BY <1>4
<1>6. \A j \in 1..Len(g.todo) : j = 1 \/ \E k \in 1..Len(f.todo) : f.todo[k] = g.todo[j]
  <2>. TAKE j \in 1..Len(g.todo)
  <2>1. CASE j # 1
    <3>1. j - 1 \in 1..Len(f.todo) /\ (j - 1) + 1 = j
      BY <1>4, <2>1
    <3>. QED BY <1>4, <3>1
  <2>. QED BY <2>1
<1>7. CASE f.todo = <<>> /\ f.drop = <<>>
  <2>1. Len(f.todo) = 0
    BY <1>7
  <2>2. \A j \in 1..Len(g.todo) : Settled(g.todo[j], at)
    BY <1>6, <2>1 DEF g
  <2>. QED BY <1>7, <2>2, ReturnsSound DEF g
<1>8. CASE ~(f.todo = <<>> /\ f.drop = <<>>)
  <2>3. \A j \in 1..Len(f.todo) : at[f.todo[j]] # NULL
    BY <1>1, <1>4, <1>5 DEF HandlerSound
  <2>1. HandlerSound(f, at)
    BY <1>1, <1>3, <1>8, <2>3 DEF HandlerSound
  <2>2. \A j \in 1..Len(g.todo) : Settled(g.todo[j], at) \/ \E k \in 1..Len(f.todo) : f.todo[k] = g.todo[j]
    BY <1>6 DEF g
  <2>. QED BY <1>3, <1>8, <2>1, <2>2, GoesOnSound DEF g
<1>. QED BY <1>7, <1>8

LEMMA HandleSound ==
  ASSUME NEW mn, NEW hd, NEW at, Sound(mn, hd, at),
         NEW kind \in {"user", "reply", "timer"}, NEW todo \in Seq(Hosts), NEW drop \in Seq(Hosts),
         kind = "user" => hd = <<>> /\ mn = NULL, drop # <<>> => kind = "user",
         \A j \in 1..Len(todo) : at[todo[j]] # NULL,
         \A j \in 1..Len(drop) : at[drop[j]] # NULL /\ HeadIn(drop[j], at) = drop[j],
         \A i, j \in 1..Len(drop) : drop[i] = drop[j] => i = j
  PROVE  Sound(mn, IF todo = <<>> /\ drop = <<>> THEN hd
                   ELSE <<[kind |-> kind, at |-> "display", todo |-> todo, drop |-> drop]>> \o hd, at)
<1>1. CASE ~(todo = <<>> /\ drop = <<>>)
  <2>. DEFINE f == [kind |-> kind, at |-> "display", todo |-> todo, drop |-> drop]
  <2>1. f \in Handler /\ f.kind = kind
    BY DEF Handler
  <2>2. HandlerSound(f, at)
    BY <1>1 DEF HandlerSound
  <2>. HIDE DEF f
  <2>3. Sound(mn, <<f>> \o hd, at)
    BY <2>1, <2>2, BeginSound
  <2>. QED BY <1>1, <2>3 DEF f
<1>. QED BY <1>1

LEMMA MenuClosedSound ==
  ASSUME NEW mn, NEW at, Sound(mn, <<>>, at)
  PROVE  Sound(NULL, <<>>, at)
BY DEF Sound, UserWaits

(* A set as a sequence. *)
LEMMA SetToSeqProperties ==
  ASSUME NEW S, S \subseteq Hosts
  PROVE  /\ SetToSeq(S) \in Seq(Hosts)
         /\ \A i \in 1..Len(SetToSeq(S)) : SetToSeq(S)[i] \in S
         /\ \A i, j \in 1..Len(SetToSeq(S)) : SetToSeq(S)[i] = SetToSeq(S)[j] => i = j
<1>1. IsFiniteSet(S)
  BY HostInfoAssumption, FS_Subset
<1>2. Cardinality(S) \in Nat /\ ExistsBijection(1..Cardinality(S), S)
  BY <1>1, FS_CardinalityType
<1>. DEFINE n == Cardinality(S)
<1>3. \E f \in [1..n -> S] : IsInjective(f)
  BY <1>2 DEF ExistsBijection, Bijection, Injection
<1>4. SetToSeq(S) \in [1..n -> S] /\ IsInjective(SetToSeq(S))
  BY <1>3 DEF SetToSeq
<1>. DEFINE q == SetToSeq(S)
<1>. HIDE DEF n, q
<1>5. q \in [1..n -> S] /\ n \in Nat /\ IsInjective(q)
  BY <1>2, <1>4 DEF n, q
<1>6. q \in Seq(Hosts) /\ Len(q) = n
  BY <1>5
<1>7. \A i, j \in 1..n : q[i] = q[j] => i = j
  BY <1>5 DEF IsInjective
<1>. QED BY <1>5, <1>6, <1>7 DEF q

-----------------------------------------------------------------------------
(* Every step leaves the handlers sound. *)

(* What is on top. *)
LEMMA Innermost ==
  ASSUME Sound(menu, handlers, hosts), handlers # <<>>
  PROVE  handlers[1] \in Handler /\ HandlerSound(handlers[1], hosts) /\ 1 \in 1..Len(handlers)
<1>1. 1 \in 1..Len(handlers)
  BY EmptySeq, LenProperties DEF Sound
<1>. QED BY <1>1, ElementOfSeq DEF Sound

LEMMA FirstShown ==
  ASSUME Sound(menu, handlers, hosts), handlers # <<>>, handlers[1].todo # <<>>
  PROVE  LET o == handlers[1].todo[1] IN o \in Hosts /\ hosts[o] # NULL /\ hosts[o] \in HostData
<1>1. handlers[1] \in Handler /\ HandlerSound(handlers[1], hosts)
  BY Innermost
<1>2. 1 \in 1..Len(handlers[1].todo) /\ handlers[1].todo \in Seq(Hosts)
  BY <1>1, EmptySeq, LenProperties DEF Handler
<1>3. handlers[1].todo[1] \in Hosts /\ hosts[handlers[1].todo[1]] # NULL
  BY <1>1, <1>2, ElementOfSeq DEF HandlerSound
<1>. QED BY <1>3 DEF Sound

LEMMA NobodyWaits ==
  ASSUME Sound(menu, handlers, hosts), handlers = <<>>
  PROVE  /\ \A o \in Hosts : hosts[o] # NULL /\ hosts[o].group => Head1(o) = o
         /\ \A o \in Hosts : hosts[o] # NULL => hosts[o].icon # "freed"
BY DEF Sound, FlagsSound, IconsSound, HeadIn, Head1

(* The dialog opens. *)
LEMMA PixmapSound ==
  ASSUME NEW mn, NEW hd, NEW at, Sound(mn, hd, at), hd # <<>>,
         hd[1].at = "display", hd[1].todo # <<>>, NEW o, o = hd[1].todo[1], HeadIn(o, at) = o
  PROVE  Sound(mn, [hd EXCEPT ![1].at = "pixmap"], [at EXCEPT ![o].icon = "freed"])
<1>. USE DEF Sound
<1>. DEFINE hd2 == [hd EXCEPT ![1].at = "pixmap"]
            at2 == [at EXCEPT ![o].icon = "freed"]
<1>1. 1 \in 1..Len(hd)
  BY EmptySeq, LenProperties
<1>2. hd[1] \in Handler /\ HandlerSound(hd[1], at)
  BY <1>1, ElementOfSeq
<1>3. o \in Hosts /\ at[o] # NULL /\ at[o] \in HostData
  <2>1. 1 \in 1..Len(hd[1].todo) /\ hd[1].todo \in Seq(Hosts)
    BY <1>2, EmptySeq, LenProperties DEF Handler
  <2>2. o \in Hosts
    BY <2>1, ElementOfSeq
  <2>. QED BY <1>2, <2>1, <2>2 DEF HandlerSound
<1>4. /\ hd2 \in Seq(Handler) /\ Len(hd2) = Len(hd)
      /\ hd2[1] = [hd[1] EXCEPT !.at = "pixmap"]
      /\ \A i \in 1..Len(hd) : i # 1 => hd2[i] = hd[i]
  <2>1. [hd[1] EXCEPT !.at = "pixmap"] \in Handler
    BY <1>2 DEF Handler
  <2>. QED BY <1>1, <2>1
<1>. DEFINE r == [at[o] EXCEPT !.icon = "freed"]
<1>6. r \in HostData /\ r.icon = "freed" /\ r.head = at[o].head /\ r.group = at[o].group /\ r # NULL
  <2>1. r \in HostData /\ r.icon = "freed" /\ r.head = at[o].head /\ r.group = at[o].group
    BY <1>3 DEF HostData
  <2>. QED BY <2>1, HostInfoAssumption
<1>5. /\ at2 \in [Hosts -> HostData \union {NULL}] /\ at2[o] = r
      /\ \A q \in Hosts : q # o => at2[q] = at[q]
  <2>. HIDE DEF r
  <2>1. at2 = [at EXCEPT ![o] = r]
    BY DEF r
  <2>. QED BY <1>3, <1>6, <2>1
<1>. HIDE DEF hd2, at2, r
<1>7. /\ hd2[1].kind = hd[1].kind /\ hd2[1].todo = hd[1].todo /\ hd2[1].drop = hd[1].drop
      /\ hd2[1].at = "pixmap"
  BY <1>2, <1>4 DEF Handler
<1>8. \A q \in Hosts : /\ at2[q] # NULL <=> at[q] # NULL
                       /\ at[q] # NULL => HeadIn(q, at2) = HeadIn(q, at) /\ at2[q].group = at[q].group
  <2>. TAKE q \in Hosts
  <2>1. CASE q = o
    BY <1>3, <1>5, <1>6, <2>1 DEF HeadIn
  <2>2. CASE q # o
    BY <1>5, <2>2 DEF HeadIn
  <2>. QED BY <2>1, <2>2
<1>9. \A i \in 1..Len(hd) : hd2[i].kind = hd[i].kind /\ hd2[i].todo = hd[i].todo
  BY <1>4, <1>7
<1>10. ASSUME NEW i \in 1..Len(hd2)
       PROVE  HandlerSound(hd2[i], at2)
  <2>1. hd[i] \in Handler /\ HandlerSound(hd[i], at)
    BY <1>4, ElementOfSeq
  <2>2. /\ \A j \in 1..Len(hd[i].todo) : hd[i].todo[j] \in Hosts
        /\ \A j \in 1..Len(hd[i].drop) : hd[i].drop[j] \in Hosts
    BY <2>1, ElementOfSeq DEF Handler
  <2>6. hd[i].todo # <<>> => 1 \in 1..Len(hd[i].todo)
    BY <2>1, EmptySeq, LenProperties DEF Handler
  <2>3. HandlerSound(hd[i], at2)
    BY <1>8, <2>1, <2>2, <2>6 DEF HandlerSound
  <2>4. CASE i = 1
    <3>1. HeadIn(o, at2) = o
      BY <1>3, <1>8
    <3>. QED BY <1>7, <2>3, <2>4, <3>1 DEF HandlerSound
  <2>5. CASE i # 1
    BY <1>4, <2>3, <2>5
  <2>. QED BY <2>4, <2>5
<1>11. UserWaits(mn, hd2, at2)
  <2>1. mn # NULL => mn.plink \subseteq Hosts
    BY DEF Menu
  <2>. QED BY <1>4, <1>8, <1>9, <2>1 DEF UserWaits
<1>12. FlagsSound(hd2, at2)
  BY <1>4, <1>8, <1>9 DEF FlagsSound
<1>13. IconsSound(hd2, at2)
  <2>. SUFFICES ASSUME NEW q \in Hosts, at2[q] # NULL, at2[q].icon = "freed"
                PROVE  \E i \in 1..Len(hd2) : hd2[i].at = "pixmap" /\ hd2[i].todo[1] = q
    BY DEF IconsSound
  <2>1. CASE q = o
    BY <1>1, <1>4, <1>7, <2>1
  <2>2. CASE q # o
    <3>1. PICK i \in 1..Len(hd) : hd[i].at = "pixmap" /\ hd[i].todo[1] = q
      BY <1>5, <2>2 DEF IconsSound
    <3>. QED BY <1>4, <3>1
  <2>. QED BY <2>1, <2>2
<1>. QED BY <1>4, <1>5, <1>10, <1>11, <1>12, <1>13 DEF hd2, at2

LEMMA DisplaySound ==
  ASSUME Sound(menu, handlers, hosts), page_object_display
  PROVE  Sound(menu', handlers', hosts')
<1>. DEFINE f == handlers[1]
            o == f.todo[1]
            p == hosts[o]
            g == [f EXCEPT !.todo = Tail(@), !.at = "display"]
<1>1. handlers # <<>> /\ f.at = "display" /\ f.todo # <<>> /\ menu' = menu
  BY DEF page_object_display, At
<1>2. f \in Handler /\ HandlerSound(f, hosts) /\ 1 \in 1..Len(handlers)
  BY <1>1, Innermost
<1>3. o \in Hosts /\ p # NULL /\ p \in HostData
  BY <1>1, <1>2, FirstShown
<1>4. hosts \in [Hosts -> HostData \union {NULL}]
  BY DEF Sound
<1>5. CASE Head1(o) # o
  <2>. DEFINE r == [p EXCEPT !.group = FALSE]
  <2>1. hosts' = [hosts EXCEPT ![o] = r] /\ GoOn(g)
    BY <1>5 DEF page_object_display, Shown, Next1
  <2>2. r \in HostData /\ r.head = p.head /\ ~r.group /\ r.icon = p.icon
    BY <1>3 DEF HostData
  <2>. HIDE DEF r
  <2>3. hosts'[o] = r
    BY <1>3, <1>4, <2>1
  <2>4. Sound(menu, handlers, hosts')
    BY <1>3, <2>1, <2>2, OneHostSound
  <2>5. Settled(o, hosts')
    BY <2>2, <2>3 DEF Settled
  <2>6. Sound(menu, IF g.todo = <<>> /\ g.drop = <<>> THEN Tail(handlers) ELSE <<g>> \o Tail(handlers), hosts')
    BY <1>1, <2>4, <2>5, ShownSound
  <2>. QED BY <1>1, <2>1, <2>6 DEF GoOn
<1>6. CASE Head1(o) = o
  <2>. DEFINE r == [p EXCEPT !.group = TRUE, !.icon = IconFor(p)]
  <2>1. hosts' = [hosts EXCEPT ![o] = r]
    BY <1>6 DEF page_object_display, Shown
  <2>2. p.head \in {NULL, o}
    BY <1>6 DEF Head1
  <2>5. CASE ~Exotic(p)
    <3>1. GoOn(g)
      BY <1>6, <2>5 DEF page_object_display, Shown, Next1
    <3>2. r \in HostData /\ r.head = p.head /\ r.icon = "held"
      BY <1>3, <2>5 DEF HostData, IconFor
    <3>. HIDE DEF r
    <3>3. Sound(menu, handlers, hosts')
      BY <1>3, <2>1, <2>2, <3>2, OneHostSound
    <3>4. Settled(o, hosts')
      <4>1. hosts'[o] = r
        BY <1>3, <1>4, <2>1
      <4>. QED BY <2>2, <3>2, <4>1 DEF Settled, HeadIn
    <3>5. f.at # "pixmap"
      BY <1>1
    <3>6. Sound(menu, IF g.todo = <<>> /\ g.drop = <<>> THEN Tail(handlers) ELSE <<g>> \o Tail(handlers), hosts')
      BY <1>1, <3>3, <3>4, <3>5, ShownSound
    <3>. QED BY <1>1, <3>1, <3>6 DEF GoOn
  <2>6. CASE Exotic(p)
    <3>. DEFINE q == [p EXCEPT !.group = TRUE]
                at2 == [hosts EXCEPT ![o] = q]
    <3>1. handlers' = [handlers EXCEPT ![1].at = "pixmap"]
      BY <1>6, <2>6 DEF page_object_display, Shown
    <3>2. q \in HostData /\ q.head = p.head /\ q.icon = p.icon /\ r = [q EXCEPT !.icon = "freed"]
      BY <1>3, <2>6 DEF HostData, IconFor
    <3>. HIDE DEF q, r
    <3>3. at2[o] = q /\ hosts' = [at2 EXCEPT ![o] = r]
      BY <1>3, <1>4, <2>1
    <3>4. Sound(menu, handlers, at2)
      BY <1>3, <2>2, <3>2, OneHostSound
    <3>5. HeadIn(o, at2) = o
      BY <2>2, <3>2, <3>3 DEF HeadIn
    <3>6. hosts' = [at2 EXCEPT ![o].icon = "freed"]
      BY <3>2, <3>3
    <3>. HIDE DEF at2
    <3>7. Sound(menu, [handlers EXCEPT ![1].at = "pixmap"], [at2 EXCEPT ![o].icon = "freed"])
      BY <1>1, <3>4, <3>5, PixmapSound
    <3>. QED BY <1>1, <3>1, <3>6, <3>7
  <2>. QED BY <2>5, <2>6
<1>. QED BY <1>5, <1>6

LEMMA GivenPixmapSound ==
  ASSUME Sound(menu, handlers, hosts), os_pixmap_list_get
  PROVE  Sound(menu', handlers', hosts')
<1>. DEFINE f == handlers[1]
            o == f.todo[1]
            g == [f EXCEPT !.todo = Tail(@), !.at = "display"]
            r == [hosts[o] EXCEPT !.icon = "held"]
<1>1. /\ handlers # <<>> /\ f.at = "pixmap" /\ menu' = menu
      /\ hosts' = [hosts EXCEPT ![o] = r] /\ GoOn(g)
  BY DEF os_pixmap_list_get, At, Shown, Next1
<1>2. f.todo # <<>> /\ HeadIn(o, hosts) = o
  BY <1>1, Innermost DEF HandlerSound
<1>3. o \in Hosts /\ hosts[o] # NULL /\ hosts[o] \in HostData
  BY <1>1, <1>2, FirstShown
<1>4. r \in HostData /\ r.head = hosts[o].head /\ r.group = hosts[o].group /\ r.icon = "held"
  BY <1>3 DEF HostData
<1>. HIDE DEF r
<1>5. Sound(menu, handlers, hosts')
  BY <1>1, <1>3, <1>4, OneHostSound
<1>6. hosts'[o] = r
  BY <1>1, <1>3 DEF Sound
<1>7. Settled(o, hosts') /\ hosts'[o].icon = "held"
  BY <1>2, <1>4, <1>6 DEF Settled, HeadIn
<1>8. Sound(menu, IF g.todo = <<>> /\ g.drop = <<>> THEN Tail(handlers) ELSE <<g>> \o Tail(handlers), hosts')
  BY <1>1, <1>2, <1>5, <1>7, ShownSound
<1>. QED BY <1>1, <1>8 DEF GoOn

LEMMA HandleStep ==
  ASSUME NEW mn, NEW at, Sound(mn, handlers, at),
         NEW kind \in {"user", "reply", "timer"}, NEW todo \in Seq(Hosts), NEW drop \in Seq(Hosts),
         kind = "user" => handlers = <<>> /\ mn = NULL, drop # <<>> => kind = "user",
         \A j \in 1..Len(todo) : at[todo[j]] # NULL,
         \A j \in 1..Len(drop) : at[drop[j]] # NULL /\ HeadIn(drop[j], at) = drop[j],
         \A i, j \in 1..Len(drop) : drop[i] = drop[j] => i = j,
         Handle(kind, todo, drop)
  PROVE  Sound(mn, handlers', at)
<1>1. Sound(mn, IF todo = <<>> /\ drop = <<>> THEN handlers
                ELSE <<[kind |-> kind, at |-> "display", todo |-> todo, drop |-> drop]>> \o handlers, at)
  BY HandleSound
<1>. QED BY <1>1 DEF Handle

(* One host to show, and none to delete. *)
LEMMA HandleOne ==
  ASSUME NEW mn, NEW at, Sound(mn, handlers, at),
         NEW kind \in {"user", "reply", "timer"}, kind = "user" => handlers = <<>> /\ mn = NULL,
         NEW o \in Hosts, at[o] # NULL, Handle(kind, <<o>>, <<>>)
  PROVE  Sound(mn, handlers', at)
<1>1. <<o>> \in Seq(Hosts) /\ \A j \in 1..Len(<<o>>) : at[<<o>>[j]] # NULL
  OBVIOUS
<1>2. /\ <<>> \in Seq(Hosts)
      /\ \A j \in 1..Len(<<>>) : at[<<>>[j]] # NULL /\ HeadIn(<<>>[j], at) = <<>>[j]
      /\ \A i, j \in 1..Len(<<>>) : <<>>[i] = <<>>[j] => i = j
  OBVIOUS
<1>. QED BY <1>1, <1>2, HandleStep

(* Hosts to show, and none to delete. *)
LEMMA HandleMany ==
  ASSUME NEW mn, NEW at, Sound(mn, handlers, at), handlers = <<>>, mn = NULL,
         NEW todo \in Seq(Hosts), \A j \in 1..Len(todo) : at[todo[j]] # NULL, Handle("user", todo, <<>>)
  PROVE  Sound(mn, handlers', at)
<1>2. /\ <<>> \in Seq(Hosts)
      /\ \A j \in 1..Len(<<>>) : at[<<>>[j]] # NULL /\ HeadIn(<<>>[j], at) = <<>>[j]
      /\ \A i, j \in 1..Len(<<>>) : <<>>[i] = <<>>[j] => i = j
  OBVIOUS
<1>. QED BY <1>2, HandleStep

LEMMA ShowAllSound ==
  ASSUME Sound(menu, handlers, hosts), net_page_set_pixels_per_unit
  PROVE  Sound(menu', handlers', hosts')
<1>1. /\ handlers = <<>> /\ menu = NULL /\ menu' = menu /\ hosts' = hosts
      /\ Handle("user", SetToSeq(Live), <<>>)
  BY DEF net_page_set_pixels_per_unit, UserIdle, shown
<1>2. SetToSeq(Live) \in Seq(Hosts) /\ \A i \in 1..Len(SetToSeq(Live)) : hosts[SetToSeq(Live)[i]] # NULL
  BY SetToSeqProperties DEF Live
<1>3. Sound(menu, handlers', hosts)
  BY <1>1, <1>2, HandleMany
<1>. QED BY <1>1, <1>3

LEMMA NamedSound ==
  ASSUME InfoTypeOK, Sound(menu, handlers, hosts), NEW l \in lookups, ShowNamed(l)
  PROVE  Sound(menu', handlers', hosts')
<1>1. /\ menu' = menu /\ hosts' = hosts
      /\ handlers' = handlers \/ (hosts[l.po] # NULL /\ Handle("timer", <<l.po>>, <<>>))
  BY DEF ShowNamed, shown
<1>2. l.po \in Hosts
  BY DEF InfoTypeOK, NameLookup
<1>3. ASSUME hosts[l.po] # NULL, Handle("timer", <<l.po>>, <<>>)
      PROVE  Sound(menu, handlers', hosts)
  BY <1>2, <1>3, HandleOne
<1>. QED BY <1>1, <1>3

LEMMA HostType ==
  ASSUME NEW ip \in HostAddrs
  PROVE  /\ Host(ip) \in HostData /\ Host(ip) # NULL /\ Host(ip).head = NULL /\ Host(ip).icon = "held"
         /\ Host(ip).info_window = NULL /\ Host(ip).ip = ip /\ ~HasOs(Host(ip)) /\ Host(ip).ports = <<>>
<1>1. /\ Host(ip) \in HostData /\ Host(ip).head = NULL /\ Host(ip).icon = "held"
      /\ Host(ip).info_window = NULL /\ Host(ip).ip = ip /\ ~HasOs(Host(ip)) /\ Host(ip).ports = <<>>
  BY DEF Host, HostData, HasOs
<1>. QED BY <1>1, HostInfoAssumption

LEMMA DiscoveredSound ==
  ASSUME Sound(menu, handlers, hosts), NEW ip \in HostAddrs, NEW scan \in BOOLEAN, NEW lookup \in BOOLEAN,
         ShowDiscovered(ip, scan, lookup)
  PROVE  Sound(menu', handlers', hosts')
<1>1. menu' = menu
  BY DEF ShowDiscovered
<1>2. CASE UNCHANGED <<hosts, handlers>>
  BY <1>1, <1>2
<1>3. CASE ~UNCHANGED <<hosts, handlers>>
  <2>1. PICK o \in Hosts \ Live : hosts' = [hosts EXCEPT ![o] = Host(ip)] /\ Handle("reply", <<o>>, <<>>)
    BY <1>3 DEF ShowDiscovered
  <2>2. /\ hosts[o] = NULL /\ hosts' \in [Hosts -> HostData \union {NULL}] /\ hosts'[o] = Host(ip)
        /\ \A q \in Hosts : q # o => hosts'[q] = hosts[q]
    BY <2>1, HostType DEF Sound, Live
  <2>3. \A q \in Hosts : hosts[q] # NULL => hosts'[q] = hosts[q]
    BY <2>2
  <2>4. \A q \in Hosts : hosts[q] = NULL /\ hosts'[q] # NULL => hosts'[q].head = NULL /\ hosts'[q].icon = "held"
    BY <2>2, HostType
  <2>5. Sound(menu, handlers, hosts')
    BY <2>2, <2>3, <2>4, HostsSound
  <2>6. hosts'[o] # NULL
    BY <2>2, HostType
  <2>7. Sound(menu, handlers', hosts')
    BY <2>1, <2>5, <2>6, HandleOne
  <2>. QED BY <1>1, <2>7
<1>. QED BY <1>2, <1>3

(* The services that are read, or put in front, are of that address. *)
LEMMA ScannedPortsProperties ==
  ASSUME NEW ip \in HostAddrs, NEW scan \in Seq(Ports \X BOOLEAN)
  PROVE  /\ ScannedPorts(ip, scan) \in Seq(Service)
         /\ \A s \in ToSet(ScannedPorts(ip, scan)) : s.of = ip
<1>. DEFINE n == Len(scan)
            q == [i \in 1..n |-> [of |-> ip, port |-> scan[i][1], open |-> scan[i][2]]]
<1>1. n \in Nat /\ \A i \in 1..n : scan[i] \in Ports \X BOOLEAN
  BY ElementOfSeq, LenProperties
<1>. HIDE DEF n
<1>2. q \in [1..n -> [of : {ip}, port : Ports, open : BOOLEAN]]
  BY <1>1
<1>3. Len(q) = n
  BY <1>1, <1>2
<1>. HIDE DEF q
<1>4. \A i \in 1..n : n - i + 1 \in 1..n
  BY <1>1
<1>5. Reverse(q) \in [1..n -> [of : {ip}, port : Ports, open : BOOLEAN]]
  BY <1>2, <1>3, <1>4 DEF Reverse
<1>6. ScannedPorts(ip, scan) = Reverse(q)
  BY DEF ScannedPorts, q, n
<1>7. Reverse(q) \in Seq(Service)
  <2>1. Reverse(q) \in [1..n -> Service]
    BY <1>5 DEF Service
  <2>. QED BY <1>1, <2>1
<1>8. \A s \in ToSet(Reverse(q)) : s.of = ip
  BY <1>5 DEF ToSet
<1>. QED BY <1>6, <1>7, <1>8

LEMMA WithServiceProperties ==
  ASSUME NEW ip \in HostAddrs, NEW port \in Ports, NEW ports \in Seq(Service)
  PROVE  /\ WithService(ports, ip, port) \in Seq(Service)
         /\ (\A s \in ToSet(ports) : s.of = ip) => \A s \in ToSet(WithService(ports, ip, port)) : s.of = ip
<1>. DEFINE e == [of |-> ip, port |-> port, open |-> FALSE]
            q == <<e>> \o ports
<1>1. e \in Service /\ e.of = ip
  BY DEF Service
<1>2. WithService(ports, ip, port) \in {q, ports}
  BY DEF WithService
<1>. HIDE DEF e
<1>3. /\ q \in Seq(Service) /\ Len(q) = Len(ports) + 1 /\ q[1] = e
      /\ \A i \in 1..Len(ports) : q[i + 1] = ports[i]
  BY <1>1, PrependProperties
<1>. HIDE DEF q
<1>4. ASSUME \A s \in ToSet(ports) : s.of = ip, NEW s \in ToSet(q)
      PROVE  s.of = ip
  <2>1. PICK i \in 1..Len(q) : q[i] = s
    BY <1>3 DEF ToSet
  <2>2. CASE i = 1
    BY <1>1, <1>3, <2>1, <2>2
  <2>3. CASE i # 1
    <3>1. i - 1 \in 1..Len(ports) /\ (i - 1) + 1 = i
      BY <1>3, <2>3, LenProperties
    <3>2. ports[i - 1] = s /\ i - 1 \in DOMAIN ports
      BY <1>3, <2>1, <3>1
    <3>. QED BY <1>4, <3>2 DEF ToSet
  <2>. QED BY <2>2, <2>3
<1>. QED BY <1>2, <1>3, <1>4

LEMMA ScannedSound ==
  ASSUME InfoTypeOK, Sound(menu, handlers, hosts), NEW m \in answers, NEW os \in OsNames \union {NULL},
         NEW scan \in Scans, NEW probe \in BOOLEAN, handle_os_scan_reply(m, os, scan, probe)
  PROVE  Sound(menu', handlers', hosts')
<1>1. menu' = menu /\ m.ip \in HostAddrs
  BY DEF handle_os_scan_reply, InfoTypeOK, Answer
<1>2. CASE HostsAt(m.ip) = {}
  BY <1>1, <1>2 DEF handle_os_scan_reply
<1>3. CASE HostsAt(m.ip) # {}
  <2>1. PICK o \in HostsAt(m.ip) :
          /\ hosts' = [hosts EXCEPT
                 ![o].os_data = TRUE,
                 ![o].os = IF os = NULL THEN NULL ELSE [of |-> m.ip, text |-> os],
                 ![o].ports = ScannedPorts(m.ip, scan)]
          /\ Handle("reply", <<o>>, <<>>)
    BY <1>3 DEF handle_os_scan_reply
  <2>. DEFINE r == [hosts[o] EXCEPT !.os_data = TRUE,
                      !.os = IF os = NULL THEN NULL ELSE [of |-> m.ip, text |-> os],
                      !.ports = ScannedPorts(m.ip, scan)]
  <2>2. o \in Hosts /\ hosts[o] # NULL /\ hosts[o] \in HostData
    BY DEF HostsAt, Live, Sound
  <2>3. hosts' = [hosts EXCEPT ![o] = r]
    BY <2>1
  <2>4. ScannedPorts(m.ip, scan) \in Seq(Service)
    BY <1>1, ScannedPortsProperties, HostInfoAssumption
  <2>5. (IF os = NULL THEN NULL ELSE [of |-> m.ip, text |-> os]) \in Known \union {NULL}
    BY <1>1 DEF Known
  <2>6. r \in HostData /\ r.head = hosts[o].head /\ r.group = hosts[o].group /\ r.icon = hosts[o].icon
    BY <2>2, <2>4, <2>5 DEF HostData
  <2>. HIDE DEF r
  <2>7. Sound(menu, handlers, hosts')
    BY <2>2, <2>3, <2>6, OneHostSound
  <2>8. hosts'[o] # NULL
    BY <2>2, <2>3, <2>6, HostInfoAssumption DEF Sound
  <2>9. Sound(menu, handlers', hosts')
    BY <2>1, <2>2, <2>7, <2>8, HandleOne
  <2>. QED BY <1>1, <2>9
<1>. QED BY <1>2, <1>3

(* What an answer to a probe changes. *)
LEMMA ProbedHost ==
  ASSUME InfoTypeOK, NEW m \in answers, handle_probe_reply(m), NEW o \in Hosts, hosts[o] # NULL
  PROVE  /\ hosts'[o] \in HostData /\ hosts'[o] # NULL
         /\ hosts'[o].ip = hosts[o].ip /\ hosts'[o].head = hosts[o].head
         /\ hosts'[o].group = hosts[o].group /\ hosts'[o].icon = hosts[o].icon
         /\ hosts'[o].info_window = hosts[o].info_window /\ hosts'[o].widgets = hosts[o].widgets
         /\ \/ hosts'[o] = hosts[o]
            \/ /\ HasOs(hosts'[o]) =>
                    (hosts[o].os_data /\ hosts'[o].os = hosts[o].os) \/ hosts'[o].os.of = hosts[o].ip
               /\ (\A s \in ToSet(hosts[o].ports) : s.of = hosts[o].ip) =>
                    \A s \in ToSet(hosts'[o].ports) : s.of = hosts[o].ip
<1>. DEFINE p == hosts[o]
            os2 == IF p.os_data THEN p.os ELSE [of |-> m.ip, text |-> UnknownOs]
            r == [p EXCEPT !.os_data = TRUE, !.os = os2, !.ports = WithService(p.ports, m.ip, m.port)]
<1>1. m.ip \in HostAddrs /\ m.port \in Ports
  BY DEF handle_probe_reply, InfoTypeOK, Answer
<1>2. p \in HostData
  BY DEF InfoTypeOK
<1>3. hosts'[o] = IF o \notin HostsAt(m.ip) THEN p ELSE r
  BY DEF handle_probe_reply
<1>4. WithService(p.ports, m.ip, m.port) \in Seq(Service) /\ p.ports \in Seq(Service)
  BY <1>1, <1>2, WithServiceProperties DEF HostData
<1>5. os2 \in Known \union {NULL}
  BY <1>1, <1>2, HostInfoAssumption DEF HostData, Known
<1>6. /\ r \in HostData /\ r.ip = p.ip /\ r.head = p.head /\ r.group = p.group /\ r.icon = p.icon
      /\ r.info_window = p.info_window /\ r.widgets = p.widgets
      /\ r.os_data = TRUE /\ r.os = os2 /\ r.ports = WithService(p.ports, m.ip, m.port)
  BY <1>2, <1>4, <1>5 DEF HostData
<1>. HIDE DEF r
<1>7. CASE o \in HostsAt(m.ip)
  <2>1. p.ip = m.ip
    BY <1>7 DEF HostsAt
  <2>2. r # NULL
    BY <1>6, HostInfoAssumption
  <2>3. (\A s \in ToSet(p.ports) : s.of = p.ip) => \A s \in ToSet(r.ports) : s.of = p.ip
    BY <1>1, <1>4, <1>6, <2>1, WithServiceProperties
  <2>4. HasOs(r) => (p.os_data /\ r.os = p.os) \/ r.os.of = p.ip
    BY <1>6, <2>1 DEF HasOs
  <2>5. hosts'[o] = r
    BY <1>3, <1>7
  <2>. HIDE DEF os2
  <2>. QED BY <1>6, <2>2, <2>3, <2>4, <2>5
<1>8. CASE o \notin HostsAt(m.ip)
  BY <1>2, <1>3, <1>8
<1>. QED BY <1>7, <1>8

LEMMA ProbedSound ==
  ASSUME InfoTypeOK, Sound(menu, handlers, hosts), NEW m \in answers, handle_probe_reply(m)
  PROVE  Sound(menu', handlers', hosts')
<1>1. menu' = menu /\ handlers' = handlers
  BY DEF handle_probe_reply
<1>2. \A o \in Hosts : hosts[o] = NULL => hosts'[o] = NULL
  BY DEF handle_probe_reply, HostsAt, Live
<1>3. hosts' \in [Hosts -> HostData \union {NULL}]
  <2>1. \A o \in Hosts : hosts'[o] \in HostData \union {NULL}
    BY <1>2, ProbedHost
  <2>. QED BY <2>1 DEF handle_probe_reply
<1>4. \A o \in Hosts : hosts[o] # NULL =>
        /\ hosts'[o] # NULL /\ hosts'[o].head = hosts[o].head
        /\ hosts'[o].group = hosts[o].group /\ hosts'[o].icon = hosts[o].icon
  BY ProbedHost
<1>5. Sound(menu, handlers, hosts')
  BY <1>2, <1>3, <1>4, HostsSound
<1>. QED BY <1>1, <1>5

LEMMA LoginSound ==
  ASSUME Sound(menu, handlers, hosts)
  PROVE  /\ \A m \in answers : handle_auth_reply(m) => Sound(menu', handlers', hosts')
         /\ \A good \in BOOLEAN : send_auth_request(good) => Sound(menu', handlers', hosts')
         /\ CancelLogin => Sound(menu', handlers', hosts')
<1>1. ASSUME handlers # <<>>, handlers[1].at = "login"
      PROVE  Sound(menu, Tail(handlers), hosts)
  <2>1. handlers[1].todo = <<>> /\ Len(<<>>) = 0
    BY <1>1, Innermost DEF HandlerSound
  <2>2. \A j \in 1..Len(handlers[1].todo) : Settled(handlers[1].todo[j], hosts)
    BY <2>1
  <2>3. handlers[1].at # "pixmap"
    BY <1>1
  <2>. QED BY <1>1, <2>2, <2>3, ReturnsSound
<1>2. ASSUME NEW m \in answers, handle_auth_reply(m)
      PROVE  Sound(menu', handlers', hosts')
  <2>. DEFINE f == [kind |-> "reply", at |-> "login", todo |-> <<>>, drop |-> <<>>]
  <2>1. f \in Handler /\ f.kind # "user"
    BY DEF Handler
  <2>2. HandlerSound(f, hosts)
    BY DEF HandlerSound
  <2>3. menu' = menu /\ hosts' = hosts /\ handlers' \in {<<f>> \o handlers, handlers}
    BY <1>2 DEF handle_auth_reply, shown
  <2>. HIDE DEF f
  <2>4. Sound(menu, <<f>> \o handlers, hosts)
    BY <2>1, <2>2, BeginSound
  <2>. QED BY <2>3, <2>4
<1>3. ASSUME NEW good \in BOOLEAN, send_auth_request(good)
      PROVE  Sound(menu', handlers', hosts')
  BY <1>1, <1>3 DEF send_auth_request, At, shown
<1>4. ASSUME CancelLogin
      PROVE  Sound(menu', handlers', hosts')
  BY <1>1, <1>4 DEF CancelLogin, At, shown
<1>. QED BY <1>2, <1>3, <1>4

LEMMA OptionListSound ==
  ASSUME Sound(menu, handlers, hosts), NEW plink \in SUBSET Live, page_object_show_option_list(plink)
  PROVE  Sound(menu', handlers', hosts')
<1>1. /\ handlers = <<>> /\ handlers' = handlers /\ hosts' = hosts
      /\ \A o \in plink : hosts[o].group
  BY DEF page_object_show_option_list, UserIdle, shown
<1>2. plink \subseteq Hosts /\ \A o \in plink : hosts[o] # NULL
  BY DEF Live
<1>3. \A o \in plink : HeadIn(o, hosts) = o
  BY <1>1, <1>2, NobodyWaits DEF Head1, HeadIn
<1>4. menu' \in Menu /\ menu'.plink = plink
  <2>. DEFINE services == IF Cardinality(plink) > 1 THEN {}
                          ELSE UNION {{[ip |-> hosts[p].ip, of |-> s.of] : s \in OpenPorts(p)} :
                                        p \in UNION {Group(o) : o \in plink}}
  <2>1. ASSUME NEW p \in Live, NEW s \in OpenPorts(p)
        PROVE  [ip |-> hosts[p].ip, of |-> s.of] \in [ip : HostAddrs, of : HostAddrs]
    <3>1. hosts[p] \in HostData
      BY DEF Sound, Live
    <3>2. hosts[p].ip \in HostAddrs /\ hosts[p].ports \in Seq(Service)
      BY <3>1 DEF HostData
    <3>3. \A i \in DOMAIN hosts[p].ports : hosts[p].ports[i] \in Service
      BY <3>2
    <3>4. s \in Service
      BY <3>3 DEF OpenPorts, ToSet
    <3>. QED BY <3>2, <3>4 DEF Service
  <2>2. \A p \in UNION {Group(o) : o \in plink} : p \in Live
    BY DEF Group
  <2>3. services \subseteq [ip : HostAddrs, of : HostAddrs]
    BY <2>1, <2>2
  <2>4. menu' = [plink |-> plink, services |-> services]
    BY DEF page_object_show_option_list
  <2>. HIDE DEF services
  <2>. QED BY <1>2, <2>3, <2>4 DEF Menu
<1>5. \A o \in menu'.plink : hosts[o] # NULL /\ HeadIn(o, hosts) = o
  BY <1>2, <1>3, <1>4
<1>6. UserWaits(menu', handlers, hosts)
  BY <1>1, <1>5 DEF UserWaits
<1>. QED BY <1>1, <1>4, <1>6 DEF Sound

(* Closing the menu, asking the agent and deleting. *)
LEMMA ChosenSound ==
  ASSUME Sound(menu, handlers, hosts), Chosen
  PROVE  /\ handlers = <<>> /\ menu # NULL /\ menu' = NULL
         /\ menu \in Menu /\ menu.plink \subseteq Hosts
         /\ \A o \in menu.plink : hosts[o] # NULL /\ HeadIn(o, hosts) = o
         /\ Sound(NULL, handlers, hosts)
<1>1. handlers = <<>> /\ menu # NULL /\ menu' = NULL
  BY DEF Chosen
<1>2. menu \in Menu
  BY <1>1 DEF Sound
<1>3. menu.plink \subseteq Hosts
  BY <1>2 DEF Menu
<1>4. \A o \in menu.plink : hosts[o] # NULL /\ HeadIn(o, hosts) = o
  BY <1>1 DEF Sound, UserWaits
<1>5. Sound(NULL, handlers, hosts)
  BY <1>1, MenuClosedSound
<1>. QED BY <1>1, <1>2, <1>3, <1>4, <1>5

LEMMA MenuSound ==
  ASSUME Sound(menu, handlers, hosts)
  PROVE  /\ CloseMenu => Sound(menu', handlers', hosts')
         /\ net_page_osscan_plink => Sound(menu', handlers', hosts')
         /\ LookUpNames => Sound(menu', handlers', hosts')
         /\ net_page_probe_plink => Sound(menu', handlers', hosts')
<1>1. ASSUME Chosen, UNCHANGED <<shown, handlers>>
      PROVE  Sound(menu', handlers', hosts')
  BY <1>1, ChosenSound DEF shown
<1>. QED BY <1>1 DEF CloseMenu, net_page_osscan_plink, LookUpNames, net_page_probe_plink

LEMMA DeleteChosenSound ==
  ASSUME Sound(menu, handlers, hosts), net_page_delete_page_object
  PROVE  Sound(menu', handlers', hosts')
<1>1. Chosen /\ hosts' = hosts /\ Handle("user", <<>>, SetToSeq(menu.plink))
  BY DEF net_page_delete_page_object, shown
<1>2. /\ handlers = <<>> /\ menu' = NULL /\ menu.plink \subseteq Hosts
      /\ \A o \in menu.plink : hosts[o] # NULL /\ HeadIn(o, hosts) = o
      /\ Sound(NULL, handlers, hosts)
  BY <1>1, ChosenSound
<1>. DEFINE drop == SetToSeq(menu.plink)
<1>3. /\ drop \in Seq(Hosts)
      /\ \A i \in 1..Len(drop) : drop[i] \in menu.plink
      /\ \A i, j \in 1..Len(drop) : drop[i] = drop[j] => i = j
  BY <1>2, SetToSeqProperties
<1>4. <<>> \in Seq(Hosts) /\ \A j \in 1..Len(<<>>) : hosts[<<>>[j]] # NULL
  OBVIOUS
<1>. HIDE DEF drop
<1>5. \A j \in 1..Len(drop) : hosts[drop[j]] # NULL /\ HeadIn(drop[j], hosts) = drop[j]
  BY <1>2, <1>3
<1>6. Handle("user", <<>>, drop)
  BY <1>1 DEF drop
<1>7. Sound(NULL, handlers', hosts)
  BY <1>2, <1>3, <1>4, <1>5, <1>6, HandleStep
<1>. QED BY <1>1, <1>2, <1>7

(* Hosts that leave their group. *)
LEMMA AloneProperties ==
  ASSUME hosts \in [Hosts -> HostData \union {NULL}], NEW S, S \subseteq Live
  PROVE  /\ Alone(S) \in [Hosts -> HostData \union {NULL}]
         /\ \A o \in Hosts : hosts[o] = NULL => Alone(S)[o] = NULL
         /\ \A o \in Hosts \ S : Alone(S)[o] = hosts[o]
         /\ \A o \in S : Alone(S)[o] \in HostData /\ Alone(S)[o] = [hosts[o] EXCEPT !.head = NULL]
         /\ \A o \in Hosts : hosts[o] # NULL =>
              /\ Alone(S)[o] # NULL /\ Alone(S)[o].head \in {hosts[o].head, NULL}
              /\ Alone(S)[o].group = hosts[o].group /\ Alone(S)[o].icon = hosts[o].icon
<1>1. \A o \in Hosts : Alone(S)[o] = IF o \in S THEN [hosts[o] EXCEPT !.head = NULL] ELSE hosts[o]
  BY DEF Alone
<1>2. \A o \in S : o \in Hosts /\ hosts[o] # NULL /\ hosts[o] \in HostData
  BY DEF Live
<1>3. ASSUME NEW o \in S
      PROVE  LET r == [hosts[o] EXCEPT !.head = NULL]
             IN  /\ r \in HostData /\ r # NULL /\ r.head = NULL
                 /\ r.group = hosts[o].group /\ r.icon = hosts[o].icon
  <2>. DEFINE r == [hosts[o] EXCEPT !.head = NULL]
  <2>1. r \in HostData /\ r.head = NULL /\ r.group = hosts[o].group /\ r.icon = hosts[o].icon
    BY <1>2 DEF HostData
  <2>. QED BY <2>1, HostInfoAssumption
<1>4. Alone(S) \in [Hosts -> HostData \union {NULL}]
  <2>1. \A o \in Hosts : Alone(S)[o] \in HostData \union {NULL}
    BY <1>1, <1>3
  <2>. QED BY <2>1 DEF Alone
<1>. QED BY <1>1, <1>2, <1>3, <1>4

LEMMA GroupProperties ==
  ASSUME hosts \in [Hosts -> HostData \union {NULL}], NEW o \in Hosts, hosts[o] # NULL
  PROVE  /\ Group(o) \subseteq Live /\ o \in Group(o) /\ Live \subseteq Hosts
         /\ HeadIn(o, hosts) = o =>
              \A q \in Hosts : hosts[q] # NULL /\ HeadIn(q, hosts) = q /\ q # o => q \notin Group(o)
BY DEF Group, Live, HeadIn, Head1

LEMMA UnmergeSound ==
  ASSUME Sound(menu, handlers, hosts), NEW o \in Hosts, net_page_unmerge_plink(o)
  PROVE  Sound(menu', handlers', hosts')
<1>. DEFINE rest == SetToSeq(Group(o) \ {o})
            todo == rest \o <<o>>
<1>1. /\ Chosen /\ menu.plink = {o} /\ hosts' = Alone(Group(o)) /\ Handle("user", todo, <<>>)
  BY DEF net_page_unmerge_plink, ChosenFor
<1>2. handlers = <<>> /\ menu' = NULL /\ Sound(NULL, handlers, hosts) /\ hosts[o] # NULL
  BY <1>1, ChosenSound
<1>3. hosts \in [Hosts -> HostData \union {NULL}]
  BY DEF Sound
<1>4. Group(o) \subseteq Live /\ Live \subseteq Hosts
  BY <1>2, <1>3, GroupProperties
<1>5. /\ hosts' \in [Hosts -> HostData \union {NULL}]
      /\ \A q \in Hosts : hosts[q] = NULL => hosts'[q] = NULL
      /\ \A q \in Hosts : hosts[q] # NULL =>
           /\ hosts'[q] # NULL /\ hosts'[q].head \in {hosts[q].head, NULL}
           /\ hosts'[q].group = hosts[q].group /\ hosts'[q].icon = hosts[q].icon
  BY <1>1, <1>3, <1>4, AloneProperties
<1>6. Sound(NULL, handlers, hosts')
  BY <1>2, <1>5, HostsSound
<1>7. rest \in Seq(Hosts) /\ \A i \in 1..Len(rest) : rest[i] \in Live
  BY <1>4, SetToSeqProperties
<1>. HIDE DEF rest
<1>8. <<o>> \in Seq(Hosts) /\ Len(<<o>>) = 1 /\ <<o>>[1] = o
  OBVIOUS
<1>9. /\ todo \in Seq(Hosts) /\ Len(todo) = Len(rest) + 1
      /\ \A i \in 1..(Len(rest) + 1) : todo[i] = IF i <= Len(rest) THEN rest[i] ELSE <<o>>[i - Len(rest)]
  BY <1>7, <1>8, ConcatProperties
<1>. HIDE DEF todo
<1>10. \A j \in 1..Len(todo) : todo[j] \in Hosts /\ hosts[todo[j]] # NULL
  <2>. TAKE j \in 1..Len(todo)
  <2>0. Len(rest) \in Nat
    BY <1>7, LenProperties
  <2>1. CASE j <= Len(rest)
    BY <1>4, <1>7, <1>9, <2>0, <2>1 DEF Live
  <2>2. CASE ~(j <= Len(rest))
    <3>1. j = Len(rest) + 1 /\ j - Len(rest) = 1
      BY <1>9, <2>0, <2>2
    <3>. QED BY <1>2, <1>8, <1>9, <2>2, <3>1
  <2>. QED BY <2>1, <2>2
<1>11. \A j \in 1..Len(todo) : hosts'[todo[j]] # NULL
  BY <1>5, <1>10
<1>12. Sound(NULL, handlers', hosts')
  <2>. DEFINE at2 == hosts'
              mn2 == menu'
  <2>1. Sound(mn2, handlers, at2) /\ mn2 = NULL /\ \A j \in 1..Len(todo) : at2[todo[j]] # NULL
    BY <1>2, <1>6, <1>11
  <2>. HIDE DEF at2, mn2
  <2>2. Sound(mn2, handlers', at2)
    BY <1>1, <1>2, <1>9, <2>1, HandleMany
  <2>. QED BY <1>2, <2>2 DEF at2, mn2
<1>. QED BY <1>2, <1>12

(* One handler, and no menu. *)
LEMMA SingleSound ==
  ASSUME NEW at \in [Hosts -> HostData \union {NULL}], NEW f \in Handler, HandlerSound(f, at),
         \A o \in Hosts : at[o] # NULL /\ at[o].group /\ HeadIn(o, at) # o =>
           f.kind = "user" /\ \E j \in 1..Len(f.todo) : f.todo[j] = o,
         \A o \in Hosts : at[o] # NULL => at[o].icon # "freed"
  PROVE  Sound(NULL, <<f>>, at)
<1>1. <<f>> \in Seq(Handler) /\ Len(<<f>>) = 1 /\ <<f>>[1] = f
  OBVIOUS
<1>2. 1..1 = {1}
  OBVIOUS
<1>. DEFINE hd == <<f>>
<1>3. hd \in Seq(Handler) /\ Len(hd) = 1 /\ hd[1] = f
  BY <1>1
<1>. HIDE DEF hd
<1>4. UserWaits(NULL, hd, at) /\ FlagsSound(hd, at) /\ IconsSound(hd, at)
  BY <1>2, <1>3 DEF UserWaits, FlagsSound, IconsSound
<1>5. Sound(NULL, hd, at)
  BY <1>2, <1>3, <1>4 DEF Sound
<1>. QED BY <1>5 DEF hd

LEMMA NoneSound ==
  ASSUME NEW at \in [Hosts -> HostData \union {NULL}],
         \A o \in Hosts : at[o] # NULL /\ at[o].group => HeadIn(o, at) = o,
         \A o \in Hosts : at[o] # NULL => at[o].icon # "freed"
  PROVE  Sound(NULL, <<>>, at)
<1>. DEFINE hd == <<>>
<1>1. hd \in Seq(Handler) /\ Len(hd) = 0
  OBVIOUS
<1>. HIDE DEF hd
<1>2. Sound(NULL, hd, at)
  BY <1>1 DEF Sound, UserWaits, FlagsSound, IconsSound
<1>. QED BY <1>2 DEF hd

LEMMA MergeSound ==
  ASSUME Sound(menu, handlers, hosts), net_page_merge_plink
  PROVE  Sound(menu', handlers', hosts')
<1>1. Chosen
  BY DEF net_page_merge_plink
<1>2. PICK p, s \in menu.plink :
        /\ p # s
        /\ hosts' = [o \in Hosts |->
             IF o \in Live /\ (o = p \/ (Head1(o) = s)) THEN [hosts[o] EXCEPT !.head = p] ELSE hosts[o]]
        /\ Handle("user", <<s, p>>, <<>>)
  BY DEF net_page_merge_plink
<1>3. /\ handlers = <<>> /\ menu' = NULL /\ p \in Hosts /\ s \in Hosts
      /\ hosts[p] # NULL /\ hosts[s] # NULL /\ Head1(p) = p /\ Head1(s) = s
  BY <1>1, ChosenSound DEF HeadIn, Head1
<1>4. hosts \in [Hosts -> HostData \union {NULL}]
  BY DEF Sound
<1>5. \A o \in Hosts : hosts[o] # NULL =>
        LET r == [hosts[o] EXCEPT !.head = p]
        IN  /\ r \in HostData /\ r # NULL /\ r.head = p /\ r.group = hosts[o].group /\ r.icon = hosts[o].icon
  <2>. TAKE o \in Hosts
  <2>. HAVE hosts[o] # NULL
  <2>. DEFINE r == [hosts[o] EXCEPT !.head = p]
  <2>1. hosts[o] \in HostData
    BY <1>4
  <2>2. r \in HostData /\ r.head = p /\ r.group = hosts[o].group /\ r.icon = hosts[o].icon
    BY <1>3, <2>1 DEF HostData
  <2>. QED BY <2>2, HostInfoAssumption
<1>6. \A o \in Hosts :
        /\ hosts'[o] \in HostData \union {NULL}
        /\ hosts'[o] # NULL <=> hosts[o] # NULL
        /\ hosts[o] # NULL => /\ hosts'[o].group = hosts[o].group /\ hosts'[o].icon = hosts[o].icon
                              /\ hosts'[o].head = IF o = p \/ Head1(o) = s THEN p ELSE hosts[o].head
  <2>. TAKE o \in Hosts
  <2>1. hosts'[o] = IF o \in Live /\ (o = p \/ (Head1(o) = s)) THEN [hosts[o] EXCEPT !.head = p] ELSE hosts[o]
    BY <1>2
  <2>2. CASE o \in Live /\ (o = p \/ Head1(o) = s)
    BY <1>5, <2>1, <2>2 DEF Live
  <2>3. CASE ~(o \in Live /\ (o = p \/ Head1(o) = s))
    BY <1>4, <2>1, <2>3 DEF Live
  <2>. QED BY <2>2, <2>3
<1>7. hosts' \in [Hosts -> HostData \union {NULL}]
  BY <1>2, <1>6
<1>. DEFINE todo == <<s, p>>
            f == [kind |-> "user", at |-> "display", todo |-> todo, drop |-> <<>>]
<1>8. todo \in Seq(Hosts) /\ Len(todo) = 2 /\ todo[1] = s /\ todo[2] = p /\ todo # <<>>
  BY <1>3
<1>9. handlers' = <<f>>
  <2>1. <<f>> \o <<>> = <<f>>
    OBVIOUS
  <2>. QED BY <1>2, <1>3, <1>8, <2>1 DEF Handle
<1>. HIDE DEF todo
<1>10. f \in Handler /\ f.kind = "user" /\ f.at = "display" /\ f.todo = todo /\ f.drop = <<>>
  BY <1>8 DEF Handler
<1>. HIDE DEF f
<1>11. 1..2 = {1, 2} /\ Len(<<>>) = 0
  OBVIOUS
<1>12. \A j \in 1..Len(f.todo) : hosts'[f.todo[j]] # NULL
  BY <1>3, <1>6, <1>8, <1>10, <1>11
<1>13. HandlerSound(f, hosts')
  BY <1>8, <1>10, <1>11, <1>12 DEF HandlerSound
<1>14. \A o \in Hosts : hosts'[o] # NULL /\ hosts'[o].group /\ HeadIn(o, hosts') # o =>
         \E j \in 1..Len(f.todo) : f.todo[j] = o
  <2>. TAKE o \in Hosts
  <2>. HAVE hosts'[o] # NULL /\ hosts'[o].group /\ HeadIn(o, hosts') # o
  <2>1. hosts[o] # NULL /\ Head1(o) = o
    BY <1>3, <1>6, NobodyWaits
  <2>2. o = s
    BY <1>6, <2>1 DEF HeadIn, Head1
  <2>3. 1 \in 1..Len(f.todo)
    BY <1>8, <1>10
  <2>. QED BY <1>8, <1>10, <2>2, <2>3
<1>15. \A o \in Hosts : hosts'[o] # NULL => hosts'[o].icon # "freed"
  BY <1>3, <1>6, NobodyWaits
<1>16. Sound(NULL, <<f>>, hosts')
  BY <1>7, <1>10, <1>13, <1>14, <1>15, SingleSound
<1>. QED BY <1>3, <1>9, <1>16

(* The next object to delete: the handler is the user's, and the last.      *)
LEMMA DeletingOne ==
  ASSUME Sound(menu, handlers, hosts), At("display"), handlers[1].todo = <<>>
  PROVE  LET f == handlers[1]
             o == f.drop[1]
         IN  /\ f \in Handler /\ f.kind = "user" /\ f.drop # <<>> /\ f.drop \in Seq(Hosts)
             /\ menu = NULL /\ Tail(handlers) = <<>>
             /\ o \in Hosts /\ hosts[o] # NULL /\ hosts[o] \in HostData /\ HeadIn(o, hosts) = o
             /\ \A j \in 1..Len(f.drop) : hosts[f.drop[j]] # NULL /\ HeadIn(f.drop[j], hosts) = f.drop[j]
             /\ \A i, j \in 1..Len(f.drop) : f.drop[i] = f.drop[j] => i = j
             /\ 1 \in 1..Len(f.drop)
             /\ \A q \in Hosts : hosts[q] # NULL /\ hosts[q].group => HeadIn(q, hosts) = q
             /\ \A q \in Hosts : hosts[q] # NULL => hosts[q].icon # "freed"
<1>. DEFINE f == handlers[1]
            o == f.drop[1]
<1>1. handlers # <<>> /\ f.at = "display" /\ handlers \in Seq(Handler)
  BY DEF At, Sound
<1>2. f \in Handler /\ HandlerSound(f, hosts) /\ 1 \in 1..Len(handlers)
  BY <1>1, Innermost
<1>3. f.drop # <<>> /\ f.kind = "user" /\ f.drop \in Seq(Hosts)
  BY <1>1, <1>2 DEF HandlerSound, Handler
<1>4. 1 = Len(handlers) /\ menu = NULL
  BY <1>2, <1>3 DEF Sound, UserWaits
<1>5. Tail(handlers) = <<>>
  <2>1. Tail(handlers) \in Seq(Handler) /\ Len(Tail(handlers)) \in Nat
        /\ Len(handlers) = Len(Tail(handlers)) + 1
    BY <1>1, TailProperties
  <2>2. Len(Tail(handlers)) = 0
    BY <1>4, <2>1
  <2>. QED BY <2>1, <2>2, EmptySeq
<1>6. 1 \in 1..Len(f.drop)
  BY <1>3, EmptySeq, LenProperties
<1>7. o \in Hosts
  BY <1>3, <1>6, ElementOfSeq
<1>8. /\ \A j \in 1..Len(f.drop) : hosts[f.drop[j]] # NULL /\ HeadIn(f.drop[j], hosts) = f.drop[j]
      /\ \A i, j \in 1..Len(f.drop) : f.drop[i] = f.drop[j] => i = j
  BY <1>2 DEF HandlerSound
<1>9. hosts[o] # NULL /\ hosts[o] \in HostData /\ HeadIn(o, hosts) = o
  BY <1>6, <1>7, <1>8 DEF Sound
<1>10. \A i \in 1..Len(handlers) : i = 1
  <2>1. \A i \in 1..1 : i = 1
    OBVIOUS
  <2>. QED BY <1>4, <2>1
<1>13. ~\E j \in 1..Len(handlers[1].todo) : TRUE
  <2>1. Len(handlers[1].todo) = 0
    OBVIOUS
  <2>. QED BY <2>1
<1>11. \A q \in Hosts : hosts[q] # NULL /\ hosts[q].group => HeadIn(q, hosts) = q
  <2>. TAKE q \in Hosts
  <2>. HAVE hosts[q] # NULL /\ hosts[q].group
  <2>1. ASSUME HeadIn(q, hosts) # q
        PROVE  \E i \in 1..Len(handlers) : \E j \in 1..Len(handlers[i].todo) : handlers[i].todo[j] = q
    BY <2>1 DEF Sound, FlagsSound
  <2>. QED BY <1>10, <1>13, <2>1
<1>12. \A q \in Hosts : hosts[q] # NULL => hosts[q].icon # "freed"
  BY <1>1, <1>4, <1>10 DEF Sound, IconsSound
<1>. QED BY <1>2, <1>3, <1>4, <1>5, <1>6, <1>7, <1>8, <1>9, <1>11, <1>12

(* The list without its first, which only it names. *)
LEMMA RestOfDrop ==
  ASSUME NEW S, NEW q \in Seq(S), q # <<>>, \A i, j \in 1..Len(q) : q[i] = q[j] => i = j
  PROVE  /\ Tail(q) \in Seq(S)
         /\ \A j \in 1..Len(Tail(q)) :
              /\ Tail(q)[j] \in S /\ Tail(q)[j] # q[1]
              /\ \E i \in 1..Len(q) : q[i] = Tail(q)[j]
         /\ \A i, j \in 1..Len(Tail(q)) : Tail(q)[i] = Tail(q)[j] => i = j
<1>1. /\ Tail(q) \in Seq(S) /\ Len(Tail(q)) \in Nat /\ Len(q) = Len(Tail(q)) + 1
      /\ \A i \in 1..Len(Tail(q)) : q[i + 1] = Tail(q)[i]
  BY TailProperties
<1>2. \A i \in 1..Len(Tail(q)) : i + 1 \in 1..Len(q) /\ i + 1 # 1
  BY <1>1
<1>3. 1 \in 1..Len(q)
  BY <1>1
<1>4. \A i \in 1..Len(Tail(q)) : Tail(q)[i] \in S
  BY <1>1, ElementOfSeq
<1>5. \A j \in 1..Len(Tail(q)) : Tail(q)[j] # q[1] /\ \E i \in 1..Len(q) : q[i] = Tail(q)[j]
  BY <1>1, <1>2, <1>3
<1>6. ASSUME NEW i \in 1..Len(Tail(q)), NEW j \in 1..Len(Tail(q)), Tail(q)[i] = Tail(q)[j]
      PROVE  i = j
  <2>1. q[i + 1] = q[j + 1]
    BY <1>1, <1>6
  <2>2. i + 1 = j + 1
    BY <1>2, <2>1
  <2>. QED BY <2>2
<1>. QED BY <1>1, <1>4, <1>5, <1>6

LEMMA DropSound ==
  ASSUME Sound(menu, handlers, hosts), At("display"), handlers[1].todo = <<>>,
         Drop(Group(handlers[1].drop[1])), GoOn([handlers[1] EXCEPT !.drop = Tail(@)])
  PROVE  Sound(NULL, handlers', hosts')
<1>. DEFINE f == handlers[1]
            o == f.drop[1]
            g == [f EXCEPT !.drop = Tail(@)]
<1>1. /\ f \in Handler /\ f.kind = "user" /\ f.drop # <<>> /\ f.drop \in Seq(Hosts)
      /\ Tail(handlers) = <<>>
      /\ o \in Hosts /\ hosts[o] # NULL /\ HeadIn(o, hosts) = o
      /\ \A j \in 1..Len(f.drop) : hosts[f.drop[j]] # NULL /\ HeadIn(f.drop[j], hosts) = f.drop[j]
      /\ \A i, j \in 1..Len(f.drop) : f.drop[i] = f.drop[j] => i = j
      /\ \A q \in Hosts : hosts[q] # NULL /\ hosts[q].group => HeadIn(q, hosts) = q
      /\ \A q \in Hosts : hosts[q] # NULL => hosts[q].icon # "freed"
  BY DeletingOne
<1>2. hosts \in [Hosts -> HostData \union {NULL}]
  BY DEF Sound
<1>3. \A q \in Hosts : hosts[q] # NULL /\ HeadIn(q, hosts) = q /\ q # o => q \notin Group(o)
  BY <1>1, <1>2, GroupProperties
<1>4. /\ hosts' \in [Hosts -> HostData \union {NULL}]
      /\ \A q \in Hosts : hosts'[q] = IF q \in Group(o) THEN NULL ELSE hosts[q]
  BY <1>2 DEF Drop
<1>. DEFINE at2 == hosts'
<1>5. /\ at2 \in [Hosts -> HostData \union {NULL}]
      /\ \A q \in Hosts : at2[q] # NULL => at2[q] = hosts[q]
      /\ \A q \in Hosts : hosts[q] # NULL /\ HeadIn(q, hosts) = q /\ q # o => at2[q] = hosts[q]
  BY <1>3, <1>4
<1>. HIDE DEF at2
<1>6. \A q \in Hosts : at2[q] # NULL => HeadIn(q, at2) = HeadIn(q, hosts)
  BY <1>5 DEF HeadIn
<1>7. /\ \A q \in Hosts : at2[q] # NULL /\ at2[q].group => HeadIn(q, at2) = q
      /\ \A q \in Hosts : at2[q] # NULL => at2[q].icon # "freed"
  BY <1>1, <1>5, <1>6
<1>8. CASE g.todo = <<>> /\ g.drop = <<>>
  <2>1. handlers' = <<>>
    BY <1>1, <1>8 DEF GoOn
  <2>2. Sound(NULL, <<>>, at2)
    BY <1>5, <1>7, NoneSound
  <2>. QED BY <2>1, <2>2 DEF at2
<1>9. CASE ~(g.todo = <<>> /\ g.drop = <<>>)
  <2>1. <<g>> \o <<>> = <<g>>
    OBVIOUS
  <2>2. handlers' = <<g>>
    BY <1>1, <1>9, <2>1 DEF GoOn
  <2>3. /\ Tail(f.drop) \in Seq(Hosts)
        /\ \A j \in 1..Len(Tail(f.drop)) :
             /\ Tail(f.drop)[j] \in Hosts /\ Tail(f.drop)[j] # o
             /\ \E i \in 1..Len(f.drop) : f.drop[i] = Tail(f.drop)[j]
        /\ \A i, j \in 1..Len(Tail(f.drop)) : Tail(f.drop)[i] = Tail(f.drop)[j] => i = j
    BY <1>1, RestOfDrop
  <2>4. /\ g \in Handler /\ g.kind = "user" /\ g.at = "display" /\ g.todo = <<>> /\ g.drop = Tail(f.drop)
    BY <1>1, <2>3 DEF Handler, At
  <2>. HIDE DEF g
  <2>5. g.drop # <<>>
    BY <1>9, <2>4
  <2>6. \A j \in 1..Len(g.drop) : at2[g.drop[j]] # NULL /\ HeadIn(g.drop[j], at2) = g.drop[j]
    BY <1>1, <1>5, <1>6, <2>3, <2>4
  <2>7. \A j \in 1..Len(g.todo) : at2[g.todo[j]] # NULL
    <3>1. Len(g.todo) = 0
      BY <2>4
    <3>. QED BY <3>1
  <2>8. HandlerSound(g, at2)
    BY <2>3, <2>4, <2>5, <2>6, <2>7 DEF HandlerSound
  <2>9. Sound(NULL, <<g>>, at2)
    BY <1>5, <1>7, <2>4, <2>8, SingleSound
  <2>. QED BY <2>2, <2>9 DEF at2
<1>. QED BY <1>8, <1>9

(* Each member of a group, and its head after it. *)
MembersAndHead(members, o) ==
  [i \in 1..(2 * Len(members)) |-> IF i % 2 = 1 THEN members[(i + 1) \div 2] ELSE o]

LEMMA MembersAndHeadProperties ==
  ASSUME NEW members \in Seq(Hosts), NEW o \in Hosts
  PROVE  /\ MembersAndHead(members, o) \in Seq(Hosts)
         /\ \A j \in 1..Len(MembersAndHead(members, o)) :
              \/ MembersAndHead(members, o)[j] = o
              \/ \E i \in 1..Len(members) : MembersAndHead(members, o)[j] = members[i]
<1>. DEFINE n == Len(members)
            todo == MembersAndHead(members, o)
            step(i) == IF i % 2 = 1 THEN members[(i + 1) \div 2] ELSE o
<1>0. todo = [i \in 1..(2 * n) |-> step(i)]
  BY DEF MembersAndHead
<1>1. n \in Nat /\ \A i \in 1..n : members[i] \in Hosts
  BY ElementOfSeq, LenProperties
<1>. HIDE DEF n
<1>2. \A i \in 1..(2 * n) : step(i) = o \/ \E k \in 1..n : step(i) = members[k]
  <2>. TAKE i \in 1..(2 * n)
  <2>1. CASE i % 2 = 1
    <3>1. (i + 1) \div 2 \in 1..n
      BY <1>1, <2>1
    <3>. QED BY <2>1, <3>1
  <2>2. CASE i % 2 # 1
    BY <2>2
  <2>. QED BY <2>1, <2>2
<1>. HIDE DEF step, todo
<1>3. todo \in [1..(2 * n) -> Hosts] /\ 2 * n \in Nat
  BY <1>0, <1>1, <1>2
<1>4. todo \in Seq(Hosts) /\ Len(todo) = 2 * n
  BY <1>3
<1>5. \A j \in 1..(2 * n) : todo[j] = o \/ \E i \in 1..n : todo[j] = members[i]
  BY <1>0, <1>2
<1>. QED BY <1>4, <1>5 DEF n, todo

LEMMA LeaveSound ==
  ASSUME Sound(menu, handlers, hosts), At("display"), handlers[1].todo = <<>>,
         NEW members, members = SetToSeq(Group(handlers[1].drop[1]) \ {handlers[1].drop[1]}),
         hosts' = Alone(Group(handlers[1].drop[1])),
         GoOn([handlers[1] EXCEPT !.todo = MembersAndHead(members, handlers[1].drop[1])])
  PROVE  Sound(NULL, handlers', hosts')
<1>. DEFINE f == handlers[1]
            o == f.drop[1]
            todo == MembersAndHead(members, o)
            g == [f EXCEPT !.todo = todo]
            at2 == hosts'
<1>1. /\ f \in Handler /\ f.kind = "user" /\ f.drop # <<>> /\ f.drop \in Seq(Hosts)
      /\ Tail(handlers) = <<>>
      /\ o \in Hosts /\ hosts[o] # NULL /\ HeadIn(o, hosts) = o
      /\ \A j \in 1..Len(f.drop) : hosts[f.drop[j]] # NULL /\ HeadIn(f.drop[j], hosts) = f.drop[j]
      /\ \A i, j \in 1..Len(f.drop) : f.drop[i] = f.drop[j] => i = j
      /\ \A q \in Hosts : hosts[q] # NULL /\ hosts[q].group => HeadIn(q, hosts) = q
      /\ \A q \in Hosts : hosts[q] # NULL => hosts[q].icon # "freed"
  BY DeletingOne
<1>2. hosts \in [Hosts -> HostData \union {NULL}]
  BY DEF Sound
<1>3. Group(o) \subseteq Live /\ Live \subseteq Hosts
  BY <1>1, <1>2, GroupProperties
<1>4. /\ at2 \in [Hosts -> HostData \union {NULL}]
      /\ \A q \in Hosts : hosts[q] = NULL => at2[q] = NULL
      /\ \A q \in Hosts : hosts[q] # NULL =>
           /\ at2[q] # NULL /\ at2[q].head \in {hosts[q].head, NULL}
           /\ at2[q].group = hosts[q].group /\ at2[q].icon = hosts[q].icon
  BY <1>2, <1>3, AloneProperties
<1>5. members \in Seq(Hosts) /\ \A i \in 1..Len(members) : members[i] \in Live
  BY <1>3, SetToSeqProperties
<1>6. /\ todo \in Seq(Hosts)
      /\ \A j \in 1..Len(todo) : todo[j] = o \/ \E i \in 1..Len(members) : todo[j] = members[i]
  <2>. DEFINE q == o
  <2>0. q \in Hosts
    BY <1>1
  <2>1. members \in Seq(Hosts)
    BY <1>5
  <2>. HIDE DEF q
  <2>2. /\ MembersAndHead(members, q) \in Seq(Hosts)
        /\ \A j \in 1..Len(MembersAndHead(members, q)) :
             \/ MembersAndHead(members, q)[j] = q
             \/ \E i \in 1..Len(members) : MembersAndHead(members, q)[j] = members[i]
    BY <2>0, <2>1, MembersAndHeadProperties
  <2>. QED BY <2>2 DEF q
<1>. HIDE DEF todo, at2
<1>15. \A q \in Hosts : hosts[q] # NULL => HeadIn(q, at2) \in {HeadIn(q, hosts), q}
  BY <1>4 DEF HeadIn
<1>7. /\ \A q \in Hosts : hosts[q] # NULL /\ HeadIn(q, hosts) = q => at2[q] # NULL /\ HeadIn(q, at2) = q
      /\ \A q \in Hosts : at2[q] # NULL /\ at2[q].group => HeadIn(q, at2) = q
      /\ \A q \in Hosts : at2[q] # NULL => at2[q].icon # "freed"
  <2>1. ASSUME NEW q \in Hosts, at2[q] # NULL
        PROVE  hosts[q] # NULL
    BY <1>4, <2>1
  <2>2. \A q \in Hosts : hosts[q] # NULL /\ HeadIn(q, hosts) = q => at2[q] # NULL /\ HeadIn(q, at2) = q
    BY <1>4, <1>15
  <2>3. \A q \in Hosts : at2[q] # NULL /\ at2[q].group => HeadIn(q, at2) = q
    BY <1>1, <1>4, <2>1, <2>2
  <2>4. \A q \in Hosts : at2[q] # NULL => at2[q].icon # "freed"
    BY <1>1, <1>4, <2>1
  <2>. QED BY <2>2, <2>3, <2>4
<1>8. \A j \in 1..Len(todo) : at2[todo[j]] # NULL
  <2>2. o \in Hosts /\ hosts[o] # NULL
    BY <1>1
  <2>3. \A i \in 1..Len(members) : members[i] \in Hosts /\ hosts[members[i]] # NULL
    BY <1>5 DEF Live
  <2>1. \A j \in 1..Len(todo) : todo[j] \in Hosts /\ hosts[todo[j]] # NULL
    <3>. DEFINE q == o
    <3>1. q \in Hosts /\ hosts[q] # NULL
      BY <2>2
    <3>2. \A j \in 1..Len(todo) : todo[j] = q \/ \E i \in 1..Len(members) : todo[j] = members[i]
      BY <1>6
    <3>. HIDE DEF q
    <3>. QED BY <2>3, <3>1, <3>2
  <2>. QED BY <1>4, <2>1
<1>9. /\ g \in Handler /\ g.kind = "user" /\ g.at = "display" /\ g.todo = todo /\ g.drop = f.drop
  BY <1>1, <1>6 DEF Handler, At
<1>10. handlers' = <<g>>
  <2>1. <<g>> \o <<>> = <<g>>
    OBVIOUS
  <2>2. GoOn(g)
    BY DEF todo
  <2>3. ~(g.todo = <<>> /\ g.drop = <<>>)
    BY <1>1, <1>9
  <2>. HIDE DEF g
  <2>. QED BY <1>1, <2>1, <2>2, <2>3 DEF GoOn
<1>. HIDE DEF g
<1>11. \A j \in 1..Len(f.drop) : f.drop[j] \in Hosts
  BY <1>1, ElementOfSeq
<1>12. \A j \in 1..Len(g.drop) : at2[g.drop[j]] # NULL /\ HeadIn(g.drop[j], at2) = g.drop[j]
  BY <1>1, <1>7, <1>9, <1>11
<1>13. HandlerSound(g, at2)
  BY <1>1, <1>8, <1>9, <1>12 DEF HandlerSound
<1>14. Sound(NULL, <<g>>, at2)
  BY <1>4, <1>7, <1>9, <1>13, SingleSound
<1>. QED BY <1>10, <1>14 DEF at2

LEMMA DeleteSound ==
  ASSUME Sound(menu, handlers, hosts), DeleteHost
  PROVE  Sound(menu', handlers', hosts')
<1>1. At("display") /\ handlers[1].todo = <<>> /\ menu' = menu
  BY DEF DeleteHost
<1>2. menu' = NULL
  BY <1>1, DeletingOne
<1>3. CASE Drop(Group(handlers[1].drop[1])) /\ GoOn([handlers[1] EXCEPT !.drop = Tail(@)])
  BY <1>1, <1>2, <1>3, DropSound
<1>4. CASE ~(Drop(Group(handlers[1].drop[1])) /\ GoOn([handlers[1] EXCEPT !.drop = Tail(@)]))
  <2>. DEFINE members == SetToSeq(Group(handlers[1].drop[1]) \ {handlers[1].drop[1]})
  <2>1. /\ hosts' = Alone(Group(handlers[1].drop[1]))
        /\ GoOn([handlers[1] EXCEPT !.todo = MembersAndHead(members, handlers[1].drop[1])])
    BY <1>4 DEF DeleteHost, MembersAndHead
  <2>. HIDE DEF members
  <2>2. members = SetToSeq(Group(handlers[1].drop[1]) \ {handlers[1].drop[1]})
    BY DEF members
  <2>3. Sound(NULL, handlers', hosts')
    BY <1>1, <2>1, <2>2, LeaveSound
  <2>. QED BY <1>2, <2>3
<1>. QED BY <1>3, <1>4

LEMMA PropertiesSound ==
  ASSUME Sound(menu, handlers, hosts), NEW o \in Hosts, NEW w \in Windows, page_object_show_properties(o, w)
  PROVE  Sound(menu', handlers', hosts')
<1>. DEFINE r == [hosts[o] EXCEPT !.info_window = w, !.widgets = w]
<1>1. Chosen /\ menu.plink = {o} /\ hosts' = [hosts EXCEPT ![o] = r] /\ handlers' = handlers
  BY DEF page_object_show_properties, ChosenFor
<1>2. menu' = NULL /\ Sound(NULL, handlers, hosts) /\ hosts[o] # NULL /\ hosts[o] \in HostData
  BY <1>1, ChosenSound DEF Sound
<1>3. r \in HostData /\ r.head = hosts[o].head /\ r.group = hosts[o].group /\ r.icon = hosts[o].icon
  BY <1>2 DEF HostData
<1>. HIDE DEF r
<1>4. Sound(NULL, handlers, hosts')
  BY <1>1, <1>2, <1>3, OneHostSound
<1>. QED BY <1>1, <1>2, <1>4

(* What closing a window with its button does. *)
LEMMA HideProperties ==
  ASSUME InfoTypeOK, NEW w \in Windows, page_object_hide_properties(w)
  PROVE  LET o == windows[w].po
             p == hosts[o]
             v == p.widgets
             r == [p EXCEPT !.os_data = TRUE, !.os = windows[v].os, !.info_window = NULL]
         IN  /\ windows[w] # NULL /\ handlers = <<>> /\ menu = NULL /\ menu' = menu
             /\ o \in Hosts /\ windows[w] \in Window
             /\ \/ /\ p = NULL \/ v = NULL \/ windows[v] = NULL
                   /\ UNCHANGED <<shown, handlers>>
                   /\ broken' = broken \union (IF p = NULL THEN {"object"} ELSE {"widgets"})
                \/ /\ p # NULL /\ p \in HostData
                   /\ v \in Windows /\ windows[v] # NULL /\ windows[v] \in Window
                   /\ r \in HostData /\ r # NULL /\ r.ip = p.ip /\ r.head = p.head /\ r.group = p.group
                   /\ r.icon = p.icon /\ r.widgets = v /\ r.info_window = NULL
                   /\ r.os = windows[v].os /\ r.ports = p.ports
                   /\ hosts' = [hosts EXCEPT ![o] = r]
                   /\ windows' = [x \in Windows |-> IF x = p.info_window THEN NULL ELSE windows[x]]
                   /\ Handle("user", <<o>>, <<>>)
                   /\ broken' = broken
<1>. DEFINE o == windows[w].po
            p == hosts[o]
            v == p.widgets
            r == [p EXCEPT !.os_data = TRUE, !.os = windows[v].os, !.info_window = NULL]
<1>1. windows[w] # NULL /\ handlers = <<>> /\ menu = NULL /\ menu' = menu
  BY DEF page_object_hide_properties, UserIdle
<1>2. windows[w] \in Window
  BY <1>1 DEF InfoTypeOK
<1>3. o \in Hosts
  BY <1>2 DEF Window
<1>4. CASE p = NULL \/ v = NULL \/ windows[v] = NULL
  BY <1>1, <1>2, <1>3, <1>4 DEF page_object_hide_properties
<1>5. CASE ~(p = NULL \/ v = NULL \/ windows[v] = NULL)
  <2>1. p \in HostData
    BY <1>3, <1>5 DEF InfoTypeOK
  <2>2. v \in Windows
    BY <1>5, <2>1 DEF HostData
  <2>3. windows[v] \in Window
    BY <1>5, <2>2 DEF InfoTypeOK
  <2>4. windows[v].os \in Known
    BY <2>3 DEF Window
  <2>5. /\ r \in HostData /\ r.ip = p.ip /\ r.head = p.head /\ r.group = p.group /\ r.icon = p.icon
        /\ r.widgets = v /\ r.info_window = NULL /\ r.os = windows[v].os /\ r.ports = p.ports
    BY <2>1, <2>4 DEF HostData
  <2>6. r # NULL
    BY <2>5, HostInfoAssumption
  <2>7. /\ hosts' = [hosts EXCEPT ![o] = WithoutWindow([p EXCEPT !.os_data = TRUE, !.os = windows[v].os])]
        /\ windows' = [x \in Windows |-> IF x = p.info_window THEN NULL ELSE windows[x]]
        /\ Handle("user", <<o>>, <<>>)
        /\ broken' = broken
    BY <1>5 DEF page_object_hide_properties
  <2>8. WithoutWindow([p EXCEPT !.os_data = TRUE, !.os = windows[v].os]) = r
    BY <2>1 DEF WithoutWindow, HostData
  <2>9. hosts' = [hosts EXCEPT ![o] = r]
    BY <2>7, <2>8
  <2>. HIDE DEF r
  <2>. QED BY <1>1, <1>2, <1>3, <1>5, <2>1, <2>2, <2>3, <2>5, <2>6, <2>7, <2>9 DEF r
<1>. QED BY <1>4, <1>5

LEMMA HideSound ==
  ASSUME InfoTypeOK, Sound(menu, handlers, hosts), NEW w \in Windows, page_object_hide_properties(w)
  PROVE  Sound(menu', handlers', hosts')
<1>. DEFINE o == windows[w].po
            p == hosts[o]
            r == [p EXCEPT !.os_data = TRUE, !.os = windows[p.widgets].os, !.info_window = NULL]
<1>1. menu = NULL /\ menu' = menu /\ handlers = <<>> /\ o \in Hosts
  BY HideProperties
<1>2. CASE UNCHANGED <<shown, handlers>>
  BY <1>1, <1>2 DEF shown
<1>3. CASE ~UNCHANGED <<shown, handlers>>
  <2>1. /\ p # NULL /\ r \in HostData /\ r # NULL /\ r.head = p.head /\ r.group = p.group /\ r.icon = p.icon
        /\ hosts' = [hosts EXCEPT ![o] = r] /\ Handle("user", <<o>>, <<>>)
    BY <1>3, HideProperties
  <2>. HIDE DEF r
  <2>2. Sound(menu, handlers, hosts')
    BY <1>1, <2>1, OneHostSound
  <2>3. hosts'[o] # NULL
    BY <1>1, <2>1 DEF Sound
  <2>4. Sound(menu, handlers', hosts')
    BY <1>1, <2>1, <2>2, <2>3, HandleOne
  <2>. QED BY <1>1, <2>4
<1>. QED BY <1>2, <1>3

LEMMA SoundStep ==
  ASSUME InfoTypeOK, Sound(menu, handlers, hosts), [InfoNext]_infoVars
  PROVE  Sound(menu', handlers', hosts')
<1>1. CASE page_object_display
  BY <1>1, DisplaySound
<1>2. CASE os_pixmap_list_get
  BY <1>2, GivenPixmapSound
<1>3. CASE net_page_set_pixels_per_unit
  BY <1>3, ShowAllSound
<1>4. ASSUME NEW l \in lookups, ShowNamed(l)
      PROVE  Sound(menu', handlers', hosts')
  BY <1>4, NamedSound
<1>5. ASSUME NEW ip \in HostAddrs, NEW scan \in BOOLEAN, NEW lookup \in BOOLEAN,
             ShowDiscovered(ip, scan, lookup)
      PROVE  Sound(menu', handlers', hosts')
  BY <1>5, DiscoveredSound
<1>6. ASSUME NEW m \in answers, NEW os \in OsNames \union {NULL}, NEW scan \in Scans, NEW probe \in BOOLEAN,
             handle_os_scan_reply(m, os, scan, probe)
      PROVE  Sound(menu', handlers', hosts')
  BY <1>6, ScannedSound
<1>7. ASSUME NEW m \in answers, handle_probe_reply(m)
      PROVE  Sound(menu', handlers', hosts')
  BY <1>7, ProbedSound
<1>8. ASSUME NEW m \in answers, handle_auth_reply(m)
      PROVE  Sound(menu', handlers', hosts')
  BY <1>8, LoginSound
<1>9. ASSUME NEW good \in BOOLEAN, send_auth_request(good)
      PROVE  Sound(menu', handlers', hosts')
  BY <1>9, LoginSound
<1>10. CASE CancelLogin
  BY <1>10, LoginSound
<1>11. ASSUME NEW plink \in SUBSET Live, page_object_show_option_list(plink)
       PROVE  Sound(menu', handlers', hosts')
  BY <1>11, OptionListSound
<1>12. CASE CloseMenu \/ net_page_osscan_plink \/ LookUpNames \/ net_page_probe_plink
  BY <1>12, MenuSound
<1>13. CASE net_page_merge_plink
  BY <1>13, MergeSound
<1>14. ASSUME NEW o \in Hosts, net_page_unmerge_plink(o)
       PROVE  Sound(menu', handlers', hosts')
  BY <1>14, UnmergeSound
<1>15. CASE net_page_delete_page_object
  BY <1>15, DeleteChosenSound
<1>16. CASE DeleteHost
  BY <1>16, DeleteSound
<1>17. ASSUME NEW o \in Hosts, NEW w \in Windows, page_object_show_properties(o, w)
       PROVE  Sound(menu', handlers', hosts')
  BY <1>17, PropertiesSound
<1>18. ASSUME NEW w \in Windows, page_object_hide_properties(w)
       PROVE  Sound(menu', handlers', hosts')
  BY <1>18, HideSound
<1>19. ASSUME NEW w \in Windows, (\E text \in OsNames \union {EmptyText} : EditOs(w, text)) \/ DeleteEvent(w)
       PROVE  Sound(menu', handlers', hosts')
  BY <1>19 DEF EditOs, DeleteEvent
<1>20. CASE UNCHANGED infoVars
  BY <1>20 DEF infoVars
<1>. QED BY <1>1, <1>2, <1>3, <1>4, <1>5, <1>6, <1>7, <1>8, <1>9, <1>10, <1>11, <1>12, <1>13, <1>14, <1>15,
            <1>16, <1>17, <1>18, <1>19, <1>20 DEF InfoNext

-----------------------------------------------------------------------------
(* Types. *)

LEMMA AnswersType ==
  ASSUME InfoTypeOK, Sound(menu, handlers, hosts), [InfoNext]_infoVars
  PROVE  answers' \subseteq Answer
<1>1. /\ \A good \in BOOLEAN : Auth(good) \in Answer
      /\ \A ip \in HostAddrs : OsScan(ip) \in Answer
      /\ \A ip \in HostAddrs, port \in Ports : Probe(ip, port) \in Answer
  BY DEF Auth, OsScan, Probe, Answer
<1>2. answers \subseteq Answer
  BY DEF InfoTypeOK
<1>3. ASSUME NEW ip \in HostAddrs, NEW scan \in BOOLEAN, NEW lookup \in BOOLEAN,
             ShowDiscovered(ip, scan, lookup)
      PROVE  answers' \subseteq Answer
  BY <1>1, <1>2, <1>3 DEF ShowDiscovered, Asks
<1>4. ASSUME NEW m \in answers, NEW os \in OsNames \union {NULL}, NEW scan \in Scans, NEW probe \in BOOLEAN,
             handle_os_scan_reply(m, os, scan, probe)
      PROVE  answers' \subseteq Answer
  <2>1. m.ip \in HostAddrs
    BY <1>2, <1>4 DEF handle_os_scan_reply, Answer
  <2>2. \A i \in 1..Len(scan) : scan[i] \in Ports \X BOOLEAN
    BY HostInfoAssumption, ElementOfSeq
  <2>3. \A i \in 1..Len(scan) : Probe(m.ip, scan[i][1]) \in Answer
    BY <1>1, <2>1, <2>2
  <2>. DEFINE probes == IF probe THEN {Probe(m.ip, scan[i][1]) : i \in 1..Len(scan)} ELSE {}
  <2>4. \/ Asks(answers \ {m}, lookups)
        \/ Asks((answers \ {m}) \union probes, lookups)
    <3>1. HostsAt(m.ip) = {} => Asks(answers \ {m}, lookups)
      BY <1>4, Zenon DEF handle_os_scan_reply
    <3>2. HostsAt(m.ip) # {} => Asks((answers \ {m}) \union probes, lookups)
      BY <1>4, Zenon DEF handle_os_scan_reply
    <3>. QED BY <3>1, <3>2
  <2>5. probes \subseteq Answer
    BY <2>3
  <2>. HIDE DEF probes
  <2>. QED BY <1>2, <2>4, <2>5 DEF Asks
<1>5. ASSUME NEW m \in answers, handle_probe_reply(m) \/ handle_auth_reply(m)
      PROVE  answers' \subseteq Answer
  BY <1>2, <1>5 DEF handle_probe_reply, handle_auth_reply, Asks
<1>6. ASSUME NEW good \in BOOLEAN, send_auth_request(good)
      PROVE  answers' \subseteq Answer
  BY <1>1, <1>2, <1>6 DEF send_auth_request, Asks
<1>7. CASE net_page_osscan_plink
  <2>1. \A o \in menu.plink : hosts[o].ip \in HostAddrs
    BY <1>7, ChosenSound DEF net_page_osscan_plink, Sound, HostData
  <2>. QED BY <1>1, <1>2, <1>7, <2>1 DEF net_page_osscan_plink, Asks
<1>8. CASE net_page_probe_plink
  <2>1. ASSUME NEW o \in menu.plink, NEW port \in PortsToProbe(o)
        PROVE  Probe(hosts[o].ip, port) \in Answer
    <3>1. hosts[o] \in HostData
      BY <1>8, ChosenSound DEF net_page_probe_plink, Sound
    <3>2. hosts[o].ip \in HostAddrs /\ hosts[o].ports \in Seq(Service)
      BY <3>1 DEF HostData
    <3>3. \A i \in DOMAIN hosts[o].ports : hosts[o].ports[i] \in Service
      BY <3>2
    <3>4. \A s \in ToSet(hosts[o].ports) : s.port \in Ports
      BY <3>3 DEF ToSet, Service
    <3>5. port \in Ports
      BY <3>4 DEF PortsToProbe
    <3>. QED BY <1>1, <3>2, <3>5
  <2>. QED BY <1>2, <1>8, <2>1 DEF net_page_probe_plink, Asks
<1>9. CASE answers' = answers
  BY <1>2, <1>9
<1>10. CASE LookUpNames
  BY <1>2, <1>10 DEF LookUpNames, Asks
<1>. QED
  BY <1>3, <1>4, <1>5, <1>6, <1>7, <1>8, <1>9, <1>10
  DEF InfoNext, infoVars, Unasked, page_object_display, os_pixmap_list_get, net_page_set_pixels_per_unit, ShowNamed,
      CancelLogin, page_object_show_option_list, CloseMenu, net_page_merge_plink, net_page_unmerge_plink,
      net_page_delete_page_object, DeleteHost, page_object_show_properties, EditOs,
      page_object_hide_properties, DeleteEvent

(* Lookups are for hosts that are there when they begin.                    *)
LEMMA LookupsBegin ==
  ASSUME InfoTypeOK, Sound(menu, handlers, hosts), [InfoNext]_infoVars
  PROVE  \A l \in lookups' : l \in lookups \/ (l \in NameLookup /\ hosts'[l.po] # NULL)
<1>1. ASSUME NEW ip \in HostAddrs, NEW scan \in BOOLEAN, NEW lookup \in BOOLEAN,
             ShowDiscovered(ip, scan, lookup), NEW l \in lookups', l \notin lookups
      PROVE  l \in NameLookup /\ hosts'[l.po] # NULL
  <2>1. PICK o \in Hosts :
          /\ lookups' \in {lookups, lookups \union {[po |-> o, ip |-> ip]}}
          /\ \/ o \in HostsAt(ip) /\ hosts' = hosts
             \/ hosts' = [hosts EXCEPT ![o] = Host(ip)]
    BY <1>1 DEF ShowDiscovered, Asks
  <2>2. l = [po |-> o, ip |-> ip]
    BY <1>1, <2>1
  <2>3. hosts'[o] # NULL
    <3>1. CASE o \in HostsAt(ip) /\ hosts' = hosts
      BY <3>1 DEF HostsAt, Live
    <3>2. CASE hosts' = [hosts EXCEPT ![o] = Host(ip)]
      <4>. DEFINE r == Host(ip)
      <4>1. r # NULL /\ hosts' = [hosts EXCEPT ![o] = r]
        BY <3>2, HostType
      <4>2. hosts \in [Hosts -> HostData \union {NULL}]
        BY DEF InfoTypeOK
      <4>. HIDE DEF r
      <4>. QED BY <4>1, <4>2
    <3>. QED BY <2>1, <3>1, <3>2
  <2>. QED BY <2>2, <2>3 DEF NameLookup
<1>2. ASSUME LookUpNames, NEW l \in lookups', l \notin lookups
      PROVE  l \in NameLookup /\ hosts'[l.po] # NULL
  <2>1. /\ lookups' = lookups \union {[po |-> o, ip |-> hosts[o].ip] : o \in menu.plink}
        /\ hosts' = hosts /\ Chosen
    BY <1>2 DEF LookUpNames, Asks, shown
  <2>2. PICK o \in menu.plink : l = [po |-> o, ip |-> hosts[o].ip]
    BY <1>2, <2>1
  <2>3. o \in Hosts /\ hosts[o] # NULL
    BY <2>1, ChosenSound
  <2>4. hosts[o].ip \in HostAddrs
    BY <2>3 DEF Sound, HostData
  <2>. QED BY <2>1, <2>2, <2>3, <2>4 DEF NameLookup
<1>3. ASSUME NEW m \in answers, NEW os \in OsNames \union {NULL}, NEW scan \in Scans, NEW probe \in BOOLEAN,
             handle_os_scan_reply(m, os, scan, probe)
      PROVE  lookups' = lookups
  <2>1. HostsAt(m.ip) = {} => lookups' = lookups
    BY <1>3, Zenon DEF handle_os_scan_reply, Asks
  <2>2. HostsAt(m.ip) # {} => lookups' = lookups
    BY <1>3, Zenon DEF handle_os_scan_reply, Asks
  <2>. QED BY <2>1, <2>2
<1>4. ASSUME NEW m \in answers, handle_probe_reply(m)
      PROVE  lookups' = lookups
  BY <1>4, Zenon DEF handle_probe_reply, Asks
<1>5. ASSUME NEW m \in answers, handle_auth_reply(m)
      PROVE  lookups' = lookups
  BY <1>5 DEF handle_auth_reply
<1>6. ASSUME NEW l \in lookups, ShowNamed(l)
      PROVE  lookups' \subseteq lookups
  BY <1>6 DEF ShowNamed
<1>7. CASE lookups' = lookups
  BY <1>7
<1>. QED
  BY <1>1, <1>2, <1>3, <1>4, <1>5, <1>6, <1>7
  DEF InfoNext, infoVars, Unasked, Asks, page_object_display, os_pixmap_list_get, net_page_set_pixels_per_unit,
      send_auth_request, CancelLogin, page_object_show_option_list, CloseMenu, net_page_osscan_plink,
      net_page_probe_plink, net_page_merge_plink, net_page_unmerge_plink, net_page_delete_page_object,
      DeleteHost, page_object_show_properties, EditOs, page_object_hide_properties, DeleteEvent

(* The pages of a window that is opened, of services that belong to them.   *)
LEMMA PagesType ==
  ASSUME InfoTypeOK, NEW o \in Hosts, hosts[o] # NULL
  PROVE  PropertyPages(o) \subseteq [ip : HostAddrs, services : SUBSET HostAddrs]
<1>1. ASSUME NEW q \in Hosts, hosts[q] # NULL
      PROVE  PropertyPage(q) \in [ip : HostAddrs, services : SUBSET HostAddrs]
  <2>1. hosts[q] \in HostData
    BY <1>1 DEF InfoTypeOK
  <2>2. hosts[q].ip \in HostAddrs /\ hosts[q].ports \in Seq(Service)
    BY <2>1 DEF HostData
  <2>3. \A i \in DOMAIN hosts[q].ports : hosts[q].ports[i] \in Service
    BY <2>2
  <2>4. \A s \in ToSet(hosts[q].ports) : s.of \in HostAddrs
    BY <2>3 DEF ToSet, Service
  <2>. QED BY <2>2, <2>4 DEF PropertyPage
<1>2. \A q \in Group(o) : q \in Hosts /\ hosts[q] # NULL
  BY DEF Group, Live
<1>. QED BY <1>1, <1>2 DEF PropertyPages

LEMMA WindowsType ==
  ASSUME InfoTypeOK, Sound(menu, handlers, hosts), [InfoNext]_infoVars
  PROVE  windows' \in [Windows -> Window \union {NULL}]
<1>1. windows \in [Windows -> Window \union {NULL}]
  BY DEF InfoTypeOK
<1>2. CASE DeleteHost
  BY <1>1, <1>2 DEF DeleteHost, Drop, OpenAfter
<1>3. ASSUME NEW o \in Hosts, NEW w \in Windows, page_object_show_properties(o, w)
      PROVE  windows' \in [Windows -> Window \union {NULL}]
  <2>. DEFINE p == hosts[o]
              os == IF HasOs(p) THEN p.os ELSE [of |-> p.ip, text |-> EmptyText]
              fresh == [po |-> o, of |-> p.ip, pages |-> PropertyPages(o), os |-> os]
  <2>1. windows' = [windows EXCEPT ![w] = fresh] /\ p # NULL
    BY <1>3, ChosenSound DEF page_object_show_properties, ChosenFor
  <2>2. p \in HostData
    BY <2>1 DEF InfoTypeOK
  <2>3. p.ip \in HostAddrs /\ os \in Known
    BY <2>2 DEF HostData, HasOs, Known
  <2>4. PropertyPages(o) \subseteq [ip : HostAddrs, services : SUBSET HostAddrs]
    BY <2>1, PagesType
  <2>. HIDE DEF os
  <2>5. fresh \in Window
    BY <2>3, <2>4 DEF Window
  <2>. QED BY <1>1, <2>1, <2>5
<1>4. ASSUME NEW w \in Windows, NEW text \in OsNames \union {EmptyText}, EditOs(w, text)
      PROVE  windows' \in [Windows -> Window \union {NULL}]
  <2>. DEFINE fresh == [windows[w] EXCEPT !.os = [of |-> windows[w].of, text |-> text]]
  <2>1. windows[w] \in Window /\ windows' = [windows EXCEPT ![w] = fresh]
    BY <1>1, <1>4 DEF EditOs
  <2>2. fresh \in Window
    BY <2>1 DEF Window, Known
  <2>. QED BY <1>1, <2>1, <2>2
<1>5. ASSUME NEW w \in Windows, page_object_hide_properties(w)
      PROVE  windows' \in [Windows -> Window \union {NULL}]
  <2>1. \/ windows' = windows
        \/ windows' = [x \in Windows |-> IF x = hosts[windows[w].po].info_window THEN NULL ELSE windows[x]]
    BY <1>5, HideProperties DEF shown
  <2>. QED BY <1>1, <2>1
<1>6. ASSUME NEW w \in Windows, DeleteEvent(w)
      PROVE  windows' \in [Windows -> Window \union {NULL}]
  BY <1>1, <1>6 DEF DeleteEvent
<1>7. CASE windows' = windows
  BY <1>1, <1>7
<1>. QED
  BY <1>2, <1>3, <1>4, <1>5, <1>6, <1>7
  DEF InfoNext, infoVars, shown, page_object_display, os_pixmap_list_get, net_page_set_pixels_per_unit,
      ShowNamed, ShowDiscovered, handle_os_scan_reply, handle_probe_reply, handle_auth_reply,
      send_auth_request, CancelLogin, page_object_show_option_list, CloseMenu, net_page_osscan_plink, LookUpNames,
      net_page_probe_plink, net_page_merge_plink, net_page_unmerge_plink, net_page_delete_page_object

LEMMA FlagsType ==
  ASSUME InfoTypeOK, [InfoNext]_infoVars
  PROVE  /\ os_pixmap_list' \subseteq OsNames /\ logged_in' \in BOOLEAN
         /\ misused' \subseteq {"shown again", "two windows", "closed", "deleted"} /\ misused \subseteq misused'
         /\ broken' \subseteq {"icon", "window", "object", "widgets", "name"}
<1>1. /\ os_pixmap_list \subseteq OsNames /\ logged_in \in BOOLEAN
      /\ misused \subseteq {"shown again", "two windows", "closed", "deleted"}
      /\ broken \subseteq {"icon", "window", "object", "widgets", "name"}
  BY DEF InfoTypeOK
<1>2. CASE os_pixmap_list_get
  BY <1>1, <1>2 DEF os_pixmap_list_get
<1>3. CASE page_object_display
  BY <1>1, <1>3 DEF page_object_display
<1>4. ASSUME NEW m \in answers, handle_auth_reply(m)
      PROVE  os_pixmap_list' = os_pixmap_list /\ logged_in' \in BOOLEAN /\ misused' = misused /\ broken' = broken
  <2>1. m \in Answer /\ m.type = "auth" /\ logged_in' = m.good
    BY <1>4 DEF handle_auth_reply, InfoTypeOK
  <2>2. m.good \in BOOLEAN
    BY <2>1 DEF Answer
  <2>3. os_pixmap_list' = os_pixmap_list /\ misused' = misused /\ broken' = broken
    BY <1>4 DEF handle_auth_reply
  <2>. QED BY <2>1, <2>2, <2>3
<1>5. CASE DeleteHost
  BY <1>1, <1>5 DEF DeleteHost, Drop
<1>6. ASSUME NEW o \in Hosts, NEW w \in Windows, page_object_show_properties(o, w)
      PROVE  /\ os_pixmap_list' = os_pixmap_list /\ logged_in' = logged_in /\ broken' = broken
             /\ misused' \in {misused, misused \union {"two windows"}}
  BY <1>6 DEF page_object_show_properties
<1>7. ASSUME NEW w \in Windows, page_object_hide_properties(w)
      PROVE  /\ os_pixmap_list' = os_pixmap_list /\ logged_in' = logged_in /\ misused' = misused
             /\ broken' \in {broken, broken \union {"object"}, broken \union {"widgets"}}
  BY <1>7 DEF page_object_hide_properties
<1>8. ASSUME NEW w \in Windows, DeleteEvent(w)
      PROVE  /\ os_pixmap_list' = os_pixmap_list /\ logged_in' = logged_in /\ broken' = broken
             /\ misused' = misused \union {"closed"}
  BY <1>8 DEF DeleteEvent
<1>9. CASE Same
  BY <1>1, <1>9 DEF Same
<1>10. CASE UNCHANGED <<os_pixmap_list, logged_in, misused, broken>>
  BY <1>1, <1>10
<1>11. ASSUME NEW l \in lookups, ShowNamed(l)
       PROVE  /\ os_pixmap_list' = os_pixmap_list /\ logged_in' = logged_in /\ misused' = misused
              /\ broken' \in {broken, broken \union {"name"}}
  BY <1>11 DEF ShowNamed
<1>. QED
  BY <1>1, <1>2, <1>3, <1>4, <1>5, <1>6, <1>7, <1>8, <1>9, <1>10, <1>11
  DEF InfoNext, infoVars, net_page_set_pixels_per_unit, EditOs, LookUpNames,
      ShowDiscovered, handle_os_scan_reply, handle_probe_reply,
      send_auth_request, CancelLogin, page_object_show_option_list, CloseMenu, net_page_osscan_plink,
      net_page_probe_plink, net_page_merge_plink, net_page_unmerge_plink, net_page_delete_page_object

LEMMA InfoTypesStep ==
  ASSUME InfoTypeOK, Sound(menu, handlers, hosts), [InfoNext]_infoVars
  PROVE  InfoTypeOK'
<1>1. menu' \in Menu \union {NULL} /\ handlers' \in Seq(Handler) /\ hosts' \in [Hosts -> HostData \union {NULL}]
  BY SoundStep DEF Sound
<1>2. lookups' \subseteq NameLookup
  BY LookupsBegin DEF InfoTypeOK
<1>. QED BY <1>1, <1>2, AnswersType, WindowsType, FlagsType DEF InfoTypeOK

-----------------------------------------------------------------------------
(* Windows, and what is known. *)

(* What is known of a host is about it. *)
TrueHost(p) == (HasOs(p) => p.os.of = p.ip) /\ \A s \in ToSet(p.ports) : s.of = p.ip

HostsTrue(at) == \A o \in Hosts : at[o] # NULL => TrueHost(at[o])

(* A step that no window has to do with. *)
Keeps(at, at2) ==
  \A o \in Hosts :
    /\ at[o] # NULL =>
         /\ at2[o] # NULL /\ at2[o].ip = at[o].ip
         /\ at2[o].info_window = at[o].info_window /\ at2[o].widgets = at[o].widgets
         /\ TrueHost(at[o]) => TrueHost(at2[o])
    /\ at[o] = NULL /\ at2[o] # NULL => at2[o].info_window = NULL /\ TrueHost(at2[o])

LEMMA OneHostKeeps ==
  ASSUME NEW at \in [Hosts -> HostData \union {NULL}], NEW o \in Hosts, at[o] # NULL,
         NEW r, r # NULL, r.ip = at[o].ip, r.info_window = at[o].info_window, r.widgets = at[o].widgets,
         TrueHost(at[o]) => TrueHost(r)
  PROVE  Keeps(at, [at EXCEPT ![o] = r])
<1>. DEFINE at2 == [at EXCEPT ![o] = r]
<1>1. at2[o] = r /\ \A q \in Hosts : q # o => at2[q] = at[q]
  OBVIOUS
<1>. HIDE DEF at2
<1>2. Keeps(at, at2)
  BY <1>1 DEF Keeps
<1>. QED BY <1>2 DEF at2

LEMMA SameInfo ==
  ASSUME NEW p, NEW r, r.ip = p.ip, r.os_data = p.os_data, r.os = p.os, r.ports = p.ports
  PROVE  TrueHost(p) => TrueHost(r)
BY DEF TrueHost, HasOs

LEMMA DisplayKeeps ==
  ASSUME Sound(menu, handlers, hosts), page_object_display
  PROVE  Keeps(hosts, hosts')
<1>. DEFINE o == handlers[1].todo[1]
            p == hosts[o]
<1>1. o \in Hosts /\ p # NULL /\ p \in HostData /\ hosts \in [Hosts -> HostData \union {NULL}]
  BY FirstShown DEF page_object_display, At, Sound
<1>2. CASE Head1(o) # o
  <2>. DEFINE r == [p EXCEPT !.group = FALSE]
  <2>1. hosts' = [hosts EXCEPT ![o] = r]
    BY <1>2 DEF page_object_display, Shown
  <2>2. /\ r \in HostData /\ r.ip = p.ip /\ r.info_window = p.info_window /\ r.widgets = p.widgets
        /\ r.os_data = p.os_data /\ r.os = p.os /\ r.ports = p.ports
    BY <1>1 DEF HostData
  <2>. HIDE DEF r
  <2>3. r # NULL /\ (TrueHost(p) => TrueHost(r))
    BY <2>2, SameInfo, HostInfoAssumption
  <2>. QED BY <1>1, <2>1, <2>2, <2>3, OneHostKeeps
<1>3. CASE Head1(o) = o
  <2>. DEFINE r == [p EXCEPT !.group = TRUE, !.icon = IconFor(p)]
  <2>1. hosts' = [hosts EXCEPT ![o] = r]
    BY <1>3 DEF page_object_display, Shown
  <2>2. /\ r \in HostData /\ r.ip = p.ip /\ r.info_window = p.info_window /\ r.widgets = p.widgets
        /\ r.os_data = p.os_data /\ r.os = p.os /\ r.ports = p.ports
    BY <1>1 DEF HostData, IconFor
  <2>. HIDE DEF r
  <2>3. r # NULL /\ (TrueHost(p) => TrueHost(r))
    BY <2>2, SameInfo, HostInfoAssumption
  <2>. QED BY <1>1, <2>1, <2>2, <2>3, OneHostKeeps
<1>. QED BY <1>2, <1>3

LEMMA GivenPixmapKeeps ==
  ASSUME Sound(menu, handlers, hosts), os_pixmap_list_get
  PROVE  Keeps(hosts, hosts')
<1>. DEFINE o == handlers[1].todo[1]
            p == hosts[o]
            r == [p EXCEPT !.icon = "held"]
<1>1. handlers # <<>> /\ handlers[1].at = "pixmap" /\ hosts' = [hosts EXCEPT ![o] = r]
  BY DEF os_pixmap_list_get, At, Shown
<1>2. handlers[1].todo # <<>>
  BY <1>1, Innermost DEF HandlerSound
<1>3. o \in Hosts /\ p # NULL /\ p \in HostData /\ hosts \in [Hosts -> HostData \union {NULL}]
  BY <1>1, <1>2, FirstShown DEF Sound
<1>4. /\ r \in HostData /\ r.ip = p.ip /\ r.info_window = p.info_window /\ r.widgets = p.widgets
      /\ r.os_data = p.os_data /\ r.os = p.os /\ r.ports = p.ports
  BY <1>3 DEF HostData
<1>. HIDE DEF r
<1>5. r # NULL /\ (TrueHost(p) => TrueHost(r))
  BY <1>4, SameInfo, HostInfoAssumption
<1>. QED BY <1>1, <1>3, <1>4, <1>5, OneHostKeeps

LEMMA ReplyKeeps ==
  ASSUME InfoTypeOK
  PROVE  /\ \A ip \in HostAddrs, scan, lookup \in BOOLEAN :
              ShowDiscovered(ip, scan, lookup) => Keeps(hosts, hosts')
         /\ \A m \in answers, os \in OsNames \union {NULL}, scan \in Scans, probe \in BOOLEAN :
              handle_os_scan_reply(m, os, scan, probe) => Keeps(hosts, hosts')
         /\ \A m \in answers : handle_probe_reply(m) => Keeps(hosts, hosts')
<1>0. hosts \in [Hosts -> HostData \union {NULL}]
  BY DEF InfoTypeOK
<1>. DEFINE same == hosts' = hosts
<1>1. same => Keeps(hosts, hosts')
  BY DEF Keeps
<1>2. ASSUME NEW ip \in HostAddrs, NEW scan \in BOOLEAN, NEW lookup \in BOOLEAN,
             ShowDiscovered(ip, scan, lookup)
      PROVE  Keeps(hosts, hosts')
  <2>1. CASE same
    BY <1>1, <2>1
  <2>2. CASE ~same
    <3>1. PICK o \in Hosts \ Live : hosts' = [hosts EXCEPT ![o] = Host(ip)]
      BY <1>2, <2>2 DEF ShowDiscovered
    <3>2. /\ hosts[o] = NULL /\ hosts'[o] = Host(ip) /\ \A q \in Hosts : q # o => hosts'[q] = hosts[q]
      BY <1>0, <3>1 DEF Live
    <3>3. Host(ip).info_window = NULL /\ TrueHost(Host(ip))
      <4>1. ToSet(<<>>) = {}
        BY DEF ToSet
      <4>. QED BY <4>1, HostType DEF TrueHost
    <3>. QED BY <3>2, <3>3 DEF Keeps
  <2>. QED BY <2>1, <2>2
<1>3. ASSUME NEW m \in answers, NEW os \in OsNames \union {NULL}, NEW scan \in Scans, NEW probe \in BOOLEAN,
             handle_os_scan_reply(m, os, scan, probe)
      PROVE  Keeps(hosts, hosts')
  <2>0. m.ip \in HostAddrs
    BY <1>3 DEF handle_os_scan_reply, InfoTypeOK, Answer
  <2>1. CASE HostsAt(m.ip) = {}
    BY <1>1, <1>3, <2>1 DEF handle_os_scan_reply
  <2>2. CASE HostsAt(m.ip) # {}
    <3>. DEFINE os2 == IF os = NULL THEN NULL ELSE [of |-> m.ip, text |-> os]
                ports2 == ScannedPorts(m.ip, scan)
    <3>1. PICK o \in HostsAt(m.ip) :
            hosts' = [hosts EXCEPT ![o].os_data = TRUE, ![o].os = os2, ![o].ports = ports2]
      BY <1>3, <2>2 DEF handle_os_scan_reply
    <3>. DEFINE p == hosts[o]
                r == [p EXCEPT !.os_data = TRUE, !.os = os2, !.ports = ports2]
    <3>2. o \in Hosts /\ p # NULL /\ p \in HostData /\ p.ip = m.ip
      BY <1>0 DEF HostsAt, Live
    <3>3. hosts' = [hosts EXCEPT ![o] = r]
      BY <3>1
    <3>4. ports2 \in Seq(Service) /\ \A s \in ToSet(ports2) : s.of = m.ip
      BY <2>0, ScannedPortsProperties, HostInfoAssumption
    <3>5. os2 \in Known \union {NULL} /\ (os2 # NULL => os2.of = m.ip)
      BY <2>0 DEF Known
    <3>. HIDE DEF os2, ports2
    <3>6. /\ r \in HostData /\ r.ip = p.ip /\ r.info_window = p.info_window /\ r.widgets = p.widgets
          /\ r.os = os2 /\ r.ports = ports2
      BY <3>2, <3>4, <3>5 DEF HostData
    <3>. HIDE DEF r
    <3>7. r # NULL /\ TrueHost(r)
      BY <3>2, <3>4, <3>5, <3>6, HostInfoAssumption DEF TrueHost, HasOs
    <3>. QED BY <1>0, <3>2, <3>3, <3>6, <3>7, OneHostKeeps
  <2>. QED BY <2>1, <2>2
<1>4. ASSUME NEW m \in answers, handle_probe_reply(m)
      PROVE  Keeps(hosts, hosts')
  <2>1. \A o \in Hosts : hosts[o] = NULL => hosts'[o] = NULL
    BY <1>4 DEF handle_probe_reply, HostsAt, Live
  <2>2. ASSUME NEW o \in Hosts, hosts[o] # NULL, TrueHost(hosts[o])
        PROVE  TrueHost(hosts'[o])
    <3>1. CASE hosts'[o] = hosts[o]
      BY <2>2, <3>1
    <3>2. CASE hosts'[o] # hosts[o]
      <4>1. /\ hosts'[o].ip = hosts[o].ip
            /\ HasOs(hosts'[o]) =>
                 (hosts[o].os_data /\ hosts'[o].os = hosts[o].os) \/ hosts'[o].os.of = hosts[o].ip
            /\ \A s \in ToSet(hosts'[o].ports) : s.of = hosts[o].ip
        BY <1>4, <2>2, <3>2, ProbedHost DEF TrueHost
      <4>2. HasOs(hosts'[o]) => hosts'[o].os.of = hosts[o].ip
        BY <2>2, <4>1 DEF TrueHost, HasOs
      <4>. QED BY <4>1, <4>2 DEF TrueHost
    <3>. QED BY <3>1, <3>2
  <2>. QED BY <1>4, <2>1, <2>2, ProbedHost DEF Keeps
<1>. QED BY <1>2, <1>3, <1>4

(* A host whose head is set. *)
LEMMA HeadKeeps ==
  ASSUME NEW p \in HostData, NEW h \in Hosts \union {NULL}
  PROVE  LET r == [p EXCEPT !.head = h]
         IN  /\ r # NULL /\ r.ip = p.ip /\ r.info_window = p.info_window /\ r.widgets = p.widgets
             /\ TrueHost(p) => TrueHost(r)
<1>. DEFINE r == [p EXCEPT !.head = h]
<1>1. /\ r \in HostData /\ r.ip = p.ip /\ r.info_window = p.info_window /\ r.widgets = p.widgets
      /\ r.os_data = p.os_data /\ r.os = p.os /\ r.ports = p.ports
  BY DEF HostData
<1>. HIDE DEF r
<1>2. r # NULL /\ (TrueHost(p) => TrueHost(r))
  BY <1>1, SameInfo, HostInfoAssumption
<1>. QED BY <1>1, <1>2 DEF r

LEMMA HeadsKeep ==
  ASSUME hosts \in [Hosts -> HostData \union {NULL}],
         \A o \in Hosts : \/ hosts'[o] = hosts[o]
                          \/ hosts[o] # NULL /\ \E h \in Hosts \union {NULL} : hosts'[o] = [hosts[o] EXCEPT !.head = h]
  PROVE  Keeps(hosts, hosts')
<1>. SUFFICES ASSUME NEW o \in Hosts
              PROVE  /\ hosts[o] # NULL =>
                          /\ hosts'[o] # NULL /\ hosts'[o].ip = hosts[o].ip
                          /\ hosts'[o].info_window = hosts[o].info_window /\ hosts'[o].widgets = hosts[o].widgets
                          /\ TrueHost(hosts[o]) => TrueHost(hosts'[o])
                     /\ hosts[o] = NULL /\ hosts'[o] # NULL => hosts'[o].info_window = NULL /\ TrueHost(hosts'[o])
  BY DEF Keeps
<1>1. CASE hosts'[o] = hosts[o]
  BY <1>1
<1>2. CASE hosts'[o] # hosts[o]
  <2>1. PICK h \in Hosts \union {NULL} : hosts'[o] = [hosts[o] EXCEPT !.head = h]
    BY <1>2
  <2>2. hosts[o] # NULL /\ hosts[o] \in HostData
    BY <1>2
  <2>. QED BY <2>1, <2>2, HeadKeeps
<1>. QED BY <1>1, <1>2

LEMMA AloneKeeps ==
  ASSUME InfoTypeOK, NEW o \in Hosts, hosts' = Alone(Group(o))
  PROVE  Keeps(hosts, hosts')
<1>1. hosts \in [Hosts -> HostData \union {NULL}]
  BY DEF InfoTypeOK
<1>2. \A q \in Hosts : hosts'[q] = IF q \in Group(o) THEN [hosts[q] EXCEPT !.head = NULL] ELSE hosts[q]
  BY DEF Alone
<1>3. \A q \in Group(o) : hosts[q] # NULL
  BY DEF Group, Live
<1>4. ASSUME NEW q \in Hosts
      PROVE  \/ hosts'[q] = hosts[q]
             \/ hosts[q] # NULL /\ \E h \in Hosts \union {NULL} : hosts'[q] = [hosts[q] EXCEPT !.head = h]
  <2>1. NULL \in Hosts \union {NULL}
    OBVIOUS
  <2>. QED BY <1>2, <1>3, <2>1
<1>. QED BY <1>1, <1>4, HeadsKeep

LEMMA MergeKeeps ==
  ASSUME InfoTypeOK, Sound(menu, handlers, hosts), net_page_merge_plink
  PROVE  Keeps(hosts, hosts')
<1>0. hosts \in [Hosts -> HostData \union {NULL}]
  BY DEF InfoTypeOK
<1>1. PICK p, s \in menu.plink :
        hosts' = [o \in Hosts |->
             IF o \in Live /\ (o = p \/ (Head1(o) = s)) THEN [hosts[o] EXCEPT !.head = p] ELSE hosts[o]]
  BY DEF net_page_merge_plink
<1>2. p \in Hosts
  BY ChosenSound DEF net_page_merge_plink
<1>3. ASSUME NEW q \in Hosts
      PROVE  \/ hosts'[q] = hosts[q]
             \/ hosts[q] # NULL /\ \E h \in Hosts \union {NULL} : hosts'[q] = [hosts[q] EXCEPT !.head = h]
  <2>1. p \in Hosts \union {NULL}
    BY <1>2
  <2>. QED BY <1>1, <2>1 DEF Live
<1>. QED BY <1>0, <1>3, HeadsKeep

-----------------------------------------------------------------------------

(* Windows and hosts that know of one another; what the windows say. *)
Serve(at, win) ==
  /\ \A w \in Windows : win[w] # NULL =>
       LET o == win[w].po
       IN  /\ at[o] # NULL /\ at[o].ip = win[w].of /\ at[o].info_window = w /\ at[o].widgets = w
  /\ \A o \in Hosts : at[o] # NULL /\ at[o].info_window # NULL =>
       win[at[o].info_window] # NULL /\ win[at[o].info_window].po = o

TrueWindow(x) == x.os.of = x.of /\ \A pg \in x.pages : pg.services \subseteq {pg.ip}

WindowsTrue(win) == \A w \in Windows : win[w] # NULL => TrueWindow(win[w])

MenuTrue(mn) == mn # NULL => \A s \in mn.services : s.of = s.ip

LEMMA WindowsInv ==
  InfoTypeOK =>
    (WindowsServe /\ EntriesBelong /\ InfoBelongs <=>
       (OneWindow => Serve(hosts, windows) /\ HostsTrue(hosts) /\ WindowsTrue(windows) /\ MenuTrue(menu)))
<1>. SUFFICES ASSUME InfoTypeOK
              PROVE  WindowsServe /\ EntriesBelong /\ InfoBelongs <=>
                       (OneWindow => /\ Serve(hosts, windows) /\ HostsTrue(hosts)
                                     /\ WindowsTrue(windows) /\ MenuTrue(menu))
  OBVIOUS
<1>1. \A w \in Windows : windows[w] # NULL => windows[w].po \in Hosts
  BY DEF InfoTypeOK, Window
<1>. USE DEF Serve, HostsTrue, TrueHost, WindowsTrue, TrueWindow, MenuTrue, Live
<1>2. (OneWindow => Serve(hosts, windows)) <=> WindowsServe
  BY <1>1 DEF WindowsServe
<1>3. (OneWindow => HostsTrue(hosts) /\ WindowsTrue(windows) /\ MenuTrue(menu)) <=> EntriesBelong /\ InfoBelongs
  BY DEF EntriesBelong, InfoBelongs
<1>. QED BY <1>2, <1>3

(* A step that no window has to do with. *)
LEMMA KeptServe ==
  ASSUME InfoTypeOK, Serve(hosts, windows), HostsTrue(hosts), Keeps(hosts, hosts')
  PROVE  Serve(hosts', windows) /\ HostsTrue(hosts')
<1>1. \A w \in Windows : windows[w] # NULL => windows[w].po \in Hosts
  BY DEF InfoTypeOK, Window
<1>2. \A o \in Hosts : hosts[o] # NULL =>
        /\ hosts'[o] # NULL /\ hosts'[o].ip = hosts[o].ip
        /\ hosts'[o].info_window = hosts[o].info_window /\ hosts'[o].widgets = hosts[o].widgets
        /\ TrueHost(hosts[o]) => TrueHost(hosts'[o])
  BY DEF Keeps
<1>3. \A o \in Hosts : hosts[o] = NULL /\ hosts'[o] # NULL => hosts'[o].info_window = NULL /\ TrueHost(hosts'[o])
  BY DEF Keeps
<1>4. HostsTrue(hosts')
  BY <1>2, <1>3 DEF HostsTrue
<1>5. Serve(hosts', windows)
  BY <1>1, <1>2, <1>3 DEF Serve
<1>. QED BY <1>4, <1>5

(* The actions that open, change or close a window. *)
WindowStep ==
  \/ DeleteHost
  \/ \E o \in Hosts, w \in Windows : page_object_show_properties(o, w)
  \/ \E w \in Windows, text \in OsNames \union {EmptyText} : EditOs(w, text)
  \/ \E w \in Windows : page_object_hide_properties(w)
  \/ \E w \in Windows : DeleteEvent(w)

LEMMA OtherSteps ==
  ASSUME InfoTypeOK, Sound(menu, handlers, hosts), [InfoNext]_infoVars, ~WindowStep
  PROVE  windows' = windows /\ Keeps(hosts, hosts')
<1>1. hosts' = hosts => Keeps(hosts, hosts')
  BY DEF Keeps
<1>2. CASE page_object_display
  BY <1>2, DisplayKeeps DEF page_object_display
<1>3. CASE os_pixmap_list_get
  BY <1>3, GivenPixmapKeeps DEF os_pixmap_list_get
<1>4. ASSUME NEW ip \in HostAddrs, NEW scan \in BOOLEAN, NEW lookup \in BOOLEAN,
             ShowDiscovered(ip, scan, lookup)
      PROVE  windows' = windows /\ Keeps(hosts, hosts')
  <2>1. windows' = windows
    BY <1>4 DEF ShowDiscovered
  <2>. QED BY <1>4, <2>1, ReplyKeeps
<1>5. ASSUME NEW m \in answers, NEW os \in OsNames \union {NULL}, NEW scan \in Scans, NEW probe \in BOOLEAN,
             handle_os_scan_reply(m, os, scan, probe)
      PROVE  windows' = windows /\ Keeps(hosts, hosts')
  <2>1. windows' = windows
    BY <1>5, Zenon DEF handle_os_scan_reply
  <2>. QED BY <1>5, <2>1, ReplyKeeps
<1>6. ASSUME NEW m \in answers, handle_probe_reply(m)
      PROVE  windows' = windows /\ Keeps(hosts, hosts')
  <2>1. windows' = windows
    BY <1>6, Zenon DEF handle_probe_reply
  <2>. QED BY <1>6, <2>1, ReplyKeeps
<1>7. CASE net_page_merge_plink
  BY <1>7, MergeKeeps DEF net_page_merge_plink
<1>8. ASSUME NEW o \in Hosts, net_page_unmerge_plink(o)
      PROVE  windows' = windows /\ Keeps(hosts, hosts')
  BY <1>8, AloneKeeps DEF net_page_unmerge_plink
<1>9. CASE UNCHANGED shown
  BY <1>1, <1>9 DEF shown
<1>. QED
  BY <1>2, <1>3, <1>4, <1>5, <1>6, <1>7, <1>8, <1>9
  DEF InfoNext, infoVars, shown, WindowStep, net_page_set_pixels_per_unit, ShowNamed, handle_auth_reply,
      send_auth_request, CancelLogin, page_object_show_option_list, CloseMenu, net_page_osscan_plink,
      LookUpNames, net_page_probe_plink, net_page_delete_page_object

(* A menu says of each host what belongs to it.                             *)
LEMMA MenuStep ==
  ASSUME InfoTypeOK, HostsTrue(hosts), MenuTrue(menu), [InfoNext]_infoVars
  PROVE  MenuTrue(menu')
<1>1. ASSUME NEW plink \in SUBSET Live, page_object_show_option_list(plink)
      PROVE  MenuTrue(menu')
  <2>1. ASSUME NEW p \in Live, NEW s \in OpenPorts(p)
        PROVE  s.of = hosts[p].ip
    BY DEF HostsTrue, TrueHost, Live, OpenPorts
  <2>2. \A p \in UNION {Group(o) : o \in plink} : p \in Live
    BY DEF Group
  <2>3. \A s \in menu'.services : s.of = s.ip
    BY <1>1, <2>1, <2>2 DEF page_object_show_option_list
  <2>. QED BY <2>3 DEF MenuTrue
<1>2. CASE menu' = menu
  BY <1>2
<1>3. CASE menu' = NULL
  BY <1>3 DEF MenuTrue
<1>4. ASSUME NEW m \in answers, NEW os \in OsNames \union {NULL}, NEW scan \in Scans, NEW probe \in BOOLEAN,
             handle_os_scan_reply(m, os, scan, probe)
      PROVE  menu' = menu
  BY <1>4, Zenon DEF handle_os_scan_reply
<1>5. ASSUME NEW m \in answers, handle_probe_reply(m)
      PROVE  menu' = menu
  BY <1>5, Zenon DEF handle_probe_reply
<1>. QED
  BY <1>1, <1>2, <1>3, <1>4, <1>5
  DEF InfoNext, infoVars, Chosen, ChosenFor, page_object_display, os_pixmap_list_get,
      net_page_set_pixels_per_unit, ShowNamed, ShowDiscovered, handle_auth_reply, send_auth_request,
      CancelLogin, CloseMenu, net_page_osscan_plink, LookUpNames, net_page_probe_plink, net_page_merge_plink,
      net_page_unmerge_plink, net_page_delete_page_object, DeleteHost, page_object_show_properties, EditOs,
      page_object_hide_properties, DeleteEvent

(* What is deleted takes its windows with it. *)
LEMMA DeleteServe ==
  ASSUME InfoTypeOK, Sound(menu, handlers, hosts), Serve(hosts, windows), HostsTrue(hosts), WindowsTrue(windows),
         DeleteHost
  PROVE  Serve(hosts', windows') /\ HostsTrue(hosts') /\ WindowsTrue(windows') /\ broken' = broken
<1>. DEFINE o == handlers[1].drop[1]
            gone == Group(o)
<1>1. o \in Hosts /\ gone \subseteq Hosts /\ \A q \in gone : hosts[q] # NULL
  BY DeletingOne DEF DeleteHost, Group, Live
<1>2. CASE Drop(gone)
  <2>1. /\ \A q \in Hosts : hosts'[q] = IF q \in gone THEN NULL ELSE hosts[q]
        /\ \A w \in Windows : windows'[w] = IF \E q \in gone : hosts[q].info_window = w THEN NULL ELSE windows[w]
    BY <1>2 DEF Drop, OpenAfter
  <2>2. \A q \in gone : hosts[q].info_window # NULL => windows[hosts[q].info_window] # NULL
    BY <1>1 DEF Serve
  <2>3. broken' = broken
    BY <1>2, <2>2 DEF Drop
  <2>. HIDE DEF o, gone
  <2>4. \A q \in Hosts : hosts'[q] # NULL => q \notin gone /\ hosts'[q] = hosts[q]
    BY <2>1
  <2>5. \A w \in Windows : windows'[w] # NULL =>
          windows'[w] = windows[w] /\ \A q \in gone : hosts[q].info_window # w
    BY <2>1
  <2>6. \A w \in Windows : windows[w] # NULL => windows[w].po \in Hosts
    BY DEF InfoTypeOK, Window
  <2>7. ASSUME NEW w \in Windows, windows'[w] # NULL
        PROVE  LET q == windows'[w].po
               IN  hosts'[q] # NULL /\ hosts'[q].ip = windows'[w].of /\ hosts'[q].info_window = w
                   /\ hosts'[q].widgets = w
    <3>. DEFINE q == windows[w].po
    <3>1. /\ windows'[w] = windows[w] /\ q \in Hosts /\ q \notin gone
          /\ hosts[q] # NULL /\ hosts[q].ip = windows[w].of /\ hosts[q].info_window = w /\ hosts[q].widgets = w
      BY <2>5, <2>6, <2>7 DEF Serve
    <3>2. hosts'[q] = hosts[q]
      BY <2>1, <3>1
    <3>. QED BY <3>1, <3>2
  <2>8. ASSUME NEW q \in Hosts, hosts'[q] # NULL, hosts'[q].info_window # NULL
        PROVE  windows'[hosts'[q].info_window] # NULL /\ windows'[hosts'[q].info_window].po = q
    <3>. DEFINE w == hosts[q].info_window
    <3>1. hosts'[q] = hosts[q] /\ q \notin gone /\ hosts[q] # NULL
      BY <2>4, <2>8
    <3>2. windows[w] # NULL /\ windows[w].po = q
      BY <2>8, <3>1 DEF Serve
    <3>3. w \in Windows
      BY <2>8, <3>1 DEF InfoTypeOK, HostData
    <3>4. \A g \in gone : hosts[g].info_window # w
      <4>. SUFFICES ASSUME NEW g \in gone, hosts[g].info_window = w PROVE FALSE
        OBVIOUS
      <4>1. windows[w].po = g
        BY <1>1, <2>8, <3>1 DEF Serve
      <4>. QED BY <3>1, <3>2, <4>1
    <3>5. windows'[w] = windows[w]
      BY <2>1, <3>3, <3>4
    <3>. QED BY <3>1, <3>2, <3>5
  <2>9. Serve(hosts', windows')
    BY <2>7, <2>8 DEF Serve
  <2>10. HostsTrue(hosts') /\ WindowsTrue(windows')
    BY <2>4, <2>5 DEF HostsTrue, WindowsTrue
  <2>. QED BY <2>3, <2>9, <2>10
<1>3. CASE ~Drop(gone)
  <2>1. hosts' = Alone(gone) /\ windows' = windows /\ broken' = broken
    BY <1>3 DEF DeleteHost
  <2>2. Keeps(hosts, hosts')
    BY <1>1, <2>1, AloneKeeps
  <2>. HIDE DEF o, gone
  <2>. QED BY <2>1, <2>2, KeptServe
<1>. QED BY <1>2, <1>3

(* A window opens for a host that has none.                                 *)
LEMMA ShowServe ==
  ASSUME InfoTypeOK, Sound(menu, handlers, hosts), Serve(hosts, windows), HostsTrue(hosts), WindowsTrue(windows),
         NEW o \in Hosts, NEW w \in Windows, page_object_show_properties(o, w),
         \A v \in Windows : windows[v] # NULL => windows[v].po # o
  PROVE  Serve(hosts', windows') /\ HostsTrue(hosts') /\ WindowsTrue(windows')
<1>. DEFINE p == hosts[o]
            os2 == IF HasOs(p) THEN p.os ELSE [of |-> p.ip, text |-> EmptyText]
            fresh == [po |-> o, of |-> p.ip, pages |-> PropertyPages(o), os |-> os2]
            r == [p EXCEPT !.info_window = w, !.widgets = w]
<1>1. windows[w] = NULL /\ windows' = [windows EXCEPT ![w] = fresh] /\ hosts' = [hosts EXCEPT ![o] = r] /\ p # NULL
  BY ChosenSound DEF page_object_show_properties, ChosenFor
<1>2. /\ hosts \in [Hosts -> HostData \union {NULL}] /\ windows \in [Windows -> Window \union {NULL}]
      /\ p \in HostData
  BY <1>1 DEF InfoTypeOK
<1>3. /\ r \in HostData /\ r.ip = p.ip /\ r.info_window = w /\ r.widgets = w
      /\ r.os_data = p.os_data /\ r.os = p.os /\ r.ports = p.ports
  BY <1>2 DEF HostData
<1>4. /\ hosts'[o] = r /\ \A q \in Hosts : q # o => hosts'[q] = hosts[q]
      /\ windows'[w] = fresh /\ \A v \in Windows : v # w => windows'[v] = windows[v]
  BY <1>1, <1>2
<1>5. TrueHost(p)
  BY <1>1 DEF HostsTrue
<1>6. os2.of = p.ip
  BY <1>5 DEF TrueHost
<1>7. \A pg \in PropertyPages(o) : pg.services \subseteq {pg.ip}
  <2>1. \A q \in Hosts : hosts[q] # NULL => \A s \in ToSet(hosts[q].ports) : s.of = hosts[q].ip
    BY DEF HostsTrue, TrueHost
  <2>2. \A q \in Hosts : hosts[q] # NULL => PropertyPage(q).services \subseteq {PropertyPage(q).ip}
    BY <2>1 DEF PropertyPage
  <2>3. \A q \in Group(o) : q \in Hosts /\ hosts[q] # NULL
    BY DEF Group, Live
  <2>. QED BY <1>1, <2>2, <2>3 DEF PropertyPages
<1>8. /\ fresh.po = o /\ fresh.of = p.ip /\ TrueWindow(fresh) /\ fresh # NULL
  <2>1. fresh.os = os2 /\ fresh.of = p.ip /\ fresh.pages = PropertyPages(o) /\ fresh.po = o
    OBVIOUS
  <2>2. fresh \in Window
    <3>1. os2 \in Known /\ p.ip \in HostAddrs
      BY <1>2 DEF HostData, HasOs, Known
    <3>2. PropertyPages(o) \subseteq [ip : HostAddrs, services : SUBSET HostAddrs]
      BY <1>1, PagesType
    <3>. HIDE DEF os2
    <3>. QED BY <3>1, <3>2 DEF Window
  <2>. HIDE DEF fresh, os2
  <2>. QED BY <1>6, <1>7, <2>1, <2>2, HostInfoAssumption DEF TrueWindow
<1>9. r # NULL
  BY <1>3, HostInfoAssumption
<1>10. \A v \in Windows : windows[v] # NULL => windows[v].po \in Hosts
  BY DEF InfoTypeOK, Window
<1>. HIDE DEF fresh, r, os2
<1>11. HostsTrue(hosts')
  <2>1. TrueHost(r)
    BY <1>3, <1>5, SameInfo
  <2>. QED BY <1>4, <2>1 DEF HostsTrue
<1>12. WindowsTrue(windows')
  BY <1>4, <1>8 DEF WindowsTrue
<1>13. ASSUME NEW v \in Windows, windows'[v] # NULL
       PROVE  LET q == windows'[v].po
              IN  hosts'[q] # NULL /\ hosts'[q].ip = windows'[v].of /\ hosts'[q].info_window = v
                  /\ hosts'[q].widgets = v
  <2>1. CASE v = w
    BY <1>3, <1>4, <1>8, <1>9, <2>1
  <2>2. CASE v # w
    <3>. DEFINE q == windows[v].po
    <3>1. /\ windows'[v] = windows[v] /\ q \in Hosts /\ q # o
          /\ hosts[q] # NULL /\ hosts[q].ip = windows[v].of /\ hosts[q].info_window = v /\ hosts[q].widgets = v
      BY <1>4, <1>10, <1>13, <2>2 DEF Serve
    <3>2. hosts'[q] = hosts[q]
      BY <1>4, <3>1
    <3>. QED BY <3>1, <3>2
  <2>. QED BY <2>1, <2>2
<1>14. ASSUME NEW q \in Hosts, hosts'[q] # NULL, hosts'[q].info_window # NULL
       PROVE  windows'[hosts'[q].info_window] # NULL /\ windows'[hosts'[q].info_window].po = q
  <2>1. CASE q = o
    BY <1>3, <1>4, <1>8, <2>1
  <2>2. CASE q # o
    <3>. DEFINE v == hosts[q].info_window
    <3>1. hosts'[q] = hosts[q] /\ hosts[q] # NULL /\ windows[v] # NULL /\ windows[v].po = q
      BY <1>4, <1>14, <2>2 DEF Serve
    <3>2. v \in Windows /\ v # w
      BY <1>1, <1>2, <1>14, <3>1 DEF HostData
    <3>3. windows'[v] = windows[v]
      BY <1>4, <3>2
    <3>. QED BY <3>1, <3>3
  <2>. QED BY <2>1, <2>2
<1>15. Serve(hosts', windows')
  BY <1>13, <1>14 DEF Serve
<1>. QED BY <1>11, <1>12, <1>15

LEMMA EditServe ==
  ASSUME InfoTypeOK, Serve(hosts, windows), HostsTrue(hosts), WindowsTrue(windows),
         NEW w \in Windows, NEW text \in OsNames \union {EmptyText}, EditOs(w, text)
  PROVE  Serve(hosts', windows') /\ HostsTrue(hosts') /\ WindowsTrue(windows')
<1>. DEFINE fresh == [windows[w] EXCEPT !.os = [of |-> windows[w].of, text |-> text]]
<1>1. windows[w] # NULL /\ windows' = [windows EXCEPT ![w] = fresh] /\ hosts' = hosts
  BY DEF EditOs
<1>2. windows \in [Windows -> Window \union {NULL}] /\ windows[w] \in Window
  BY <1>1 DEF InfoTypeOK
<1>3. fresh \in Window /\ fresh.po = windows[w].po /\ fresh.of = windows[w].of /\ fresh.pages = windows[w].pages
      /\ fresh.os.of = windows[w].of
  BY <1>2 DEF Window, Known
<1>4. windows'[w] = fresh /\ \A v \in Windows : v # w => windows'[v] = windows[v]
  BY <1>1, <1>2
<1>. HIDE DEF fresh
<1>5. fresh # NULL
  BY <1>3, HostInfoAssumption
<1>6. \A v \in Windows : /\ windows'[v] # NULL <=> windows[v] # NULL
                         /\ windows[v] # NULL => windows'[v].po = windows[v].po /\ windows'[v].of = windows[v].of
  BY <1>1, <1>3, <1>4, <1>5
<1>7. \A o \in Hosts : hosts[o] # NULL /\ hosts[o].info_window # NULL => hosts[o].info_window \in Windows
  BY DEF InfoTypeOK, HostData
<1>8. Serve(hosts, windows')
  BY <1>6, <1>7 DEF Serve
<1>9. WindowsTrue(windows')
  BY <1>1, <1>3, <1>4 DEF WindowsTrue, TrueWindow
<1>. QED BY <1>1, <1>8, <1>9

(* The close button finds its host, and the window that is open for it.     *)
LEMMA HideServe ==
  ASSUME InfoTypeOK, Serve(hosts, windows), HostsTrue(hosts), WindowsTrue(windows),
         NEW w \in Windows, page_object_hide_properties(w)
  PROVE  Serve(hosts', windows') /\ HostsTrue(hosts') /\ WindowsTrue(windows') /\ broken' = broken
<1>. DEFINE o == windows[w].po
            p == hosts[o]
            r == [p EXCEPT !.os_data = TRUE, !.os = windows[p.widgets].os, !.info_window = NULL]
<1>1. windows[w] # NULL /\ o \in Hosts
  BY HideProperties
<1>2. p # NULL /\ p.widgets = w /\ p.info_window = w /\ p.ip = windows[w].of
  BY <1>1 DEF Serve
<1>13. w # NULL
  BY HostInfoAssumption
<1>3. /\ r # NULL /\ r.ip = p.ip /\ r.info_window = NULL /\ r.os = windows[w].os /\ r.ports = p.ports
      /\ r \in HostData
      /\ hosts' = [hosts EXCEPT ![o] = r]
      /\ windows' = [x \in Windows |-> IF x = w THEN NULL ELSE windows[x]]
      /\ broken' = broken
  <2>1. ~(p = NULL \/ p.widgets = NULL \/ windows[p.widgets] = NULL)
    BY <1>1, <1>2, <1>13
  <2>2. /\ r # NULL /\ r.ip = p.ip /\ r.info_window = NULL /\ r.os = windows[p.widgets].os /\ r.ports = p.ports
        /\ r \in HostData
        /\ hosts' = [hosts EXCEPT ![o] = r]
        /\ windows' = [x \in Windows |-> IF x = p.info_window THEN NULL ELSE windows[x]]
        /\ broken' = broken
    BY <2>1, HideProperties
  <2>. HIDE DEF r
  <2>. QED BY <1>2, <2>2
<1>4. hosts \in [Hosts -> HostData \union {NULL}]
  BY DEF InfoTypeOK
<1>. HIDE DEF r
<1>5. /\ hosts'[o] = r /\ \A q \in Hosts : q # o => hosts'[q] = hosts[q]
      /\ windows'[w] = NULL /\ \A v \in Windows : v # w => windows'[v] = windows[v]
  BY <1>1, <1>3, <1>4
<1>6. TrueHost(r)
  <2>1. windows[w].os.of = windows[w].of
    BY <1>1 DEF WindowsTrue, TrueWindow
  <2>2. TrueHost(p)
    BY <1>1, <1>2 DEF HostsTrue
  <2>. QED BY <1>2, <1>3, <2>1, <2>2 DEF TrueHost
<1>7. HostsTrue(hosts') /\ WindowsTrue(windows')
  BY <1>5, <1>6 DEF HostsTrue, WindowsTrue
<1>8. \A v \in Windows : windows[v] # NULL => windows[v].po \in Hosts
  BY DEF InfoTypeOK, Window
<1>. DEFINE h == o
<1>9. /\ h \in Hosts /\ hosts'[h] = r /\ \A q \in Hosts : q # h => hosts'[q] = hosts[q]
      /\ hosts[h].info_window = w /\ windows[w].po = h /\ windows[w] # NULL
  BY <1>1, <1>2, <1>5
<1>. HIDE DEF h, o
<1>10. ASSUME NEW v \in Windows, windows'[v] # NULL
       PROVE  LET q == windows'[v].po
              IN  hosts'[q] # NULL /\ hosts'[q].ip = windows'[v].of /\ hosts'[q].info_window = v
                  /\ hosts'[q].widgets = v
  <2>. DEFINE q == windows[v].po
  <2>1. v # w /\ windows'[v] = windows[v]
    BY <1>5, <1>10
  <2>2. q \in Hosts /\ hosts[q] # NULL /\ hosts[q].ip = windows[v].of /\ hosts[q].info_window = v
        /\ hosts[q].widgets = v
    BY <1>8, <1>10, <2>1 DEF Serve
  <2>3. q # h
    BY <1>9, <2>1, <2>2
  <2>4. hosts'[q] = hosts[q]
    BY <1>9, <2>2, <2>3
  <2>. QED BY <2>1, <2>2, <2>4
<1>11. ASSUME NEW q \in Hosts, hosts'[q] # NULL, hosts'[q].info_window # NULL
       PROVE  windows'[hosts'[q].info_window] # NULL /\ windows'[hosts'[q].info_window].po = q
  <2>. DEFINE v == hosts[q].info_window
  <2>1. q # h
    BY <1>3, <1>9, <1>11
  <2>2. hosts'[q] = hosts[q] /\ hosts[q] # NULL /\ windows[v] # NULL /\ windows[v].po = q
    BY <1>9, <1>11, <2>1 DEF Serve
  <2>3. v \in Windows /\ v # w
    BY <1>4, <1>9, <1>11, <2>1, <2>2 DEF HostData
  <2>4. windows'[v] = windows[v]
    BY <1>5, <2>3
  <2>. QED BY <2>2, <2>4
<1>12. Serve(hosts', windows')
  BY <1>10, <1>11 DEF Serve
<1>. QED BY <1>3, <1>7, <1>12

LEMMA WindowsStep ==
  ASSUME InfoInv, [InfoNext]_infoVars
  PROVE  /\ (WindowsServe /\ EntriesBelong /\ InfoBelongs)'
         /\ OneWindow' /\ WindowStep => broken' = broken
<1>. USE DEF InfoInv
<1>1. InfoTypeOK'
  BY InfoTypesStep
<1>2. OneWindow' => OneWindow
  BY FlagsType DEF OneWindow
<1>3. OneWindow => Serve(hosts, windows) /\ HostsTrue(hosts) /\ WindowsTrue(windows) /\ MenuTrue(menu)
  BY WindowsInv
<1>4. ASSUME OneWindow'
      PROVE  /\ Serve(hosts', windows') /\ HostsTrue(hosts') /\ WindowsTrue(windows')
             /\ WindowStep => broken' = broken
  <2>0. InfoTypeOK /\ Sound(menu, handlers, hosts)
    OBVIOUS
  <2>1. Serve(hosts, windows) /\ HostsTrue(hosts) /\ WindowsTrue(windows)
    BY <1>2, <1>3, <1>4
  <2>2. CASE ~WindowStep
    <3>1. windows' = windows /\ Keeps(hosts, hosts')
      BY <2>0, <2>2, OtherSteps
    <3>2. Serve(hosts', windows) /\ HostsTrue(hosts')
      BY <2>0, <2>1, <3>1, KeptServe
    <3>. QED BY <2>1, <2>2, <3>1, <3>2
  <2>3. CASE DeleteHost
    BY <2>0, <2>1, <2>3, DeleteServe
  <2>4. ASSUME NEW o \in Hosts, NEW w \in Windows, page_object_show_properties(o, w)
        PROVE  /\ Serve(hosts', windows') /\ HostsTrue(hosts') /\ WindowsTrue(windows') /\ broken' = broken
    <3>1. \A v \in Windows : windows[v] # NULL => windows[v].po # o
      BY <1>4, <2>4 DEF page_object_show_properties, OneWindow
    <3>2. broken' = broken
      BY <2>4 DEF page_object_show_properties
    <3>. QED BY <2>0, <2>1, <2>4, <3>1, <3>2, ShowServe
  <2>5. ASSUME NEW w \in Windows, NEW text \in OsNames \union {EmptyText}, EditOs(w, text)
        PROVE  /\ Serve(hosts', windows') /\ HostsTrue(hosts') /\ WindowsTrue(windows') /\ broken' = broken
    <3>1. broken' = broken
      BY <2>5 DEF EditOs, Same
    <3>. QED BY <2>0, <2>1, <2>5, <3>1, EditServe
  <2>6. ASSUME NEW w \in Windows, page_object_hide_properties(w)
        PROVE  /\ Serve(hosts', windows') /\ HostsTrue(hosts') /\ WindowsTrue(windows') /\ broken' = broken
    BY <2>0, <2>1, <2>6, HideServe
  <2>7. ASSUME NEW w \in Windows, DeleteEvent(w)
        PROVE  FALSE
    BY <1>4, <2>7 DEF DeleteEvent, OneWindow
  <2>. QED BY <2>2, <2>3, <2>4, <2>5, <2>6, <2>7 DEF WindowStep
<1>5. OneWindow' => MenuTrue(menu')
  BY <1>2, <1>3, MenuStep
<1>6. (WindowsServe /\ EntriesBelong /\ InfoBelongs <=>
         (OneWindow => Serve(hosts, windows) /\ HostsTrue(hosts) /\ WindowsTrue(windows) /\ MenuTrue(menu)))'
  BY <1>1, WindowsInv, PTL
<1>. QED BY <1>4, <1>5, <1>6

-----------------------------------------------------------------------------

(* A host goes only with its deletion, which a lookup for it makes misuse.  *)
LEMMA LookupsStep ==
  ASSUME InfoInv, [InfoNext]_infoVars
  PROVE  LookupsKnown'
<1>. USE DEF InfoInv
<1>1. /\ misused \subseteq misused' /\ lookups \subseteq NameLookup
      /\ \A l \in lookups' : l \in lookups \/ hosts'[l.po] # NULL
  BY FlagsType, LookupsBegin DEF InfoTypeOK
<1>2. CASE ~DeleteHost
  <2>1. ASSUME ~WindowStep
        PROVE  Keeps(hosts, hosts')
    BY <2>1, OtherSteps
  <2>2. ASSUME NEW o \in Hosts, NEW w \in Windows, page_object_show_properties(o, w)
        PROVE  \A q \in Hosts : hosts[q] # NULL => hosts'[q] # NULL
    <3>. DEFINE r == [hosts[o] EXCEPT !.info_window = w, !.widgets = w]
    <3>1. hosts' = [hosts EXCEPT ![o] = r] /\ hosts[o] # NULL
      BY <2>2, ChosenSound DEF page_object_show_properties, ChosenFor
    <3>2. r \in HostData
      BY <3>1 DEF Sound, HostData
    <3>. HIDE DEF r
    <3>. QED BY <3>1, <3>2, HostInfoAssumption DEF Sound
  <2>3. ASSUME NEW w \in Windows, page_object_hide_properties(w)
        PROVE  \A q \in Hosts : hosts[q] # NULL => hosts'[q] # NULL
    <3>. DEFINE o == windows[w].po
                r == [hosts[o] EXCEPT !.os_data = TRUE, !.os = windows[hosts[o].widgets].os, !.info_window = NULL]
    <3>1. hosts' = hosts \/ (o \in Hosts /\ r # NULL /\ hosts' = [hosts EXCEPT ![o] = r])
      BY <2>3, HideProperties DEF shown
    <3>2. hosts \in [Hosts -> HostData \union {NULL}]
      BY DEF InfoTypeOK
    <3>. HIDE DEF r, o
    <3>. QED BY <3>1, <3>2
  <2>4. ASSUME NEW w \in Windows, (\E text \in OsNames \union {EmptyText} : EditOs(w, text)) \/ DeleteEvent(w)
        PROVE  hosts' = hosts
    BY <2>4 DEF EditOs, DeleteEvent
  <2>5. \A q \in Hosts : hosts[q] # NULL => hosts'[q] # NULL
    BY <1>2, <2>1, <2>2, <2>3, <2>4 DEF WindowStep, Keeps
  <2>. QED BY <1>1, <2>5 DEF LookupsKnown, NameLookup
<1>3. CASE DeleteHost
  <2>. DEFINE gone == Group(handlers[1].drop[1])
  <2>1. lookups' = lookups
    BY <1>3 DEF DeleteHost, Unasked
  <2>2. CASE Drop(gone)
    BY <1>1, <2>1, <2>2 DEF LookupsKnown, Drop, NameLookup
  <2>3. CASE ~Drop(gone)
    <3>1. hosts' = Alone(gone) /\ gone \subseteq Live
      BY <1>3, <2>3 DEF DeleteHost, Group
    <3>2. \A q \in Hosts : hosts[q] # NULL => hosts'[q] # NULL
      BY <3>1, AloneProperties DEF Sound
    <3>. QED BY <1>1, <2>1, <3>2 DEF LookupsKnown, NameLookup
  <2>. QED BY <2>2, <2>3
<1>. QED BY <1>2, <1>3

LEMMA MisuseStep ==
  ASSUME InfoInv, [InfoNext]_infoVars
  PROVE  MisuseOnly'
<1>. USE DEF InfoInv
<1>1. /\ misused \subseteq misused' /\ (OneWindow' => OneWindow)
      /\ broken \subseteq {"icon", "window", "object", "widgets", "name"}
  BY FlagsType DEF OneWindow, InfoTypeOK
<1>2. /\ "icon" \in broken => "shown again" \in misused
      /\ "name" \in broken => "deleted" \in misused
      /\ broken \ {"icon", "name"} # {} => ~OneWindow
  BY DEF MisuseOnly
<1>3. CASE page_object_display
  <2>. DEFINE o == handlers[1].todo[1]
  <2>1. o \in Hosts /\ hosts[o] # NULL /\ handlers[1].at = "display" /\ handlers \in Seq(Handler)
    BY <1>3, FirstShown DEF page_object_display, At, Sound
  <2>2. /\ broken' \in {broken, broken \union {"icon"}}
        /\ broken' # broken =>
             /\ hosts[o].icon = "freed"
             /\ (\E i \in 2..Len(handlers) : handlers[i].at = "pixmap" /\ handlers[i].todo[1] = o) =>
                  "shown again" \in misused'
    BY <1>3 DEF page_object_display, Shown
  <2>3. broken' # broken => "shown again" \in misused'
    <3>. SUFFICES ASSUME broken' # broken PROVE "shown again" \in misused'
      OBVIOUS
    <3>1. PICK i \in 1..Len(handlers) : handlers[i].at = "pixmap" /\ handlers[i].todo[1] = o
      BY <2>1, <2>2 DEF Sound, IconsSound
    <3>2. i # 1
      BY <2>1, <3>1
    <3>3. i \in 2..Len(handlers)
      BY <2>1, <3>2, LenProperties
    <3>. QED BY <2>2, <3>1, <3>3
  <2>4. broken' \ {"icon", "name"} = broken \ {"icon", "name"} /\ ("name" \in broken' => "name" \in broken)
    BY <2>2
  <2>5. "icon" \in broken' => "shown again" \in misused'
    BY <1>1, <1>2, <2>2, <2>3
  <2>. QED BY <1>1, <1>2, <2>4, <2>5 DEF MisuseOnly
<1>4. CASE WindowStep
  <2>1. broken' \ {"icon", "name"} # {} => ~OneWindow'
    BY <1>1, <1>2, <1>4, WindowsStep
  <2>2. broken' \intersect {"icon", "name"} \subseteq broken
    <3>1. CASE DeleteHost
      BY <3>1 DEF DeleteHost, Drop
    <3>2. ASSUME NEW w \in Windows, page_object_hide_properties(w)
          PROVE  broken' \subseteq broken \union {"object", "widgets"}
      BY <3>2, HideProperties
    <3>3. CASE broken' = broken
      BY <3>3
    <3>. QED BY <1>4, <3>1, <3>2, <3>3 DEF WindowStep, page_object_show_properties, EditOs, Same, DeleteEvent
  <2>3. /\ "icon" \in broken' => "shown again" \in misused'
        /\ "name" \in broken' => "deleted" \in misused'
    BY <1>1, <1>2, <2>2
  <2>. QED BY <2>1, <2>3 DEF MisuseOnly
<1>5. CASE broken' = broken
  BY <1>1, <1>2, <1>5 DEF MisuseOnly
<1>6. ASSUME NEW m \in answers, NEW os \in OsNames \union {NULL}, NEW scan \in Scans, NEW probe \in BOOLEAN,
             handle_os_scan_reply(m, os, scan, probe)
      PROVE  broken' = broken
  BY <1>6, Zenon DEF handle_os_scan_reply, Same
<1>7. ASSUME NEW m \in answers, handle_probe_reply(m)
      PROVE  broken' = broken
  BY <1>7, Zenon DEF handle_probe_reply, Same
<1>9. ASSUME NEW l \in lookups, ShowNamed(l)
      PROVE  MisuseOnly'
  <2>1. broken' = broken \/ (hosts[l.po] = NULL /\ broken' = broken \union {"name"})
    BY <1>9 DEF ShowNamed
  <2>2. hosts[l.po] = NULL => "deleted" \in misused
    BY DEF LookupsKnown
  <2>. QED BY <1>1, <1>2, <2>1, <2>2 DEF MisuseOnly
<1>8. ASSUME ~page_object_display, ~WindowStep, ~\E l \in lookups : ShowNamed(l)
      PROVE  broken' = broken
  BY <1>6, <1>7, <1>8
  DEF InfoNext, infoVars, WindowStep, Same, os_pixmap_list_get,
      net_page_set_pixels_per_unit, ShowDiscovered, handle_auth_reply, send_auth_request, LookUpNames,
      CancelLogin, page_object_show_option_list, CloseMenu, net_page_osscan_plink, net_page_probe_plink,
      net_page_merge_plink, net_page_unmerge_plink, net_page_delete_page_object
<1>. QED BY <1>3, <1>4, <1>5, <1>8, <1>9

LEMMA InfoInvHolds == InfoSpec => []InfoInv
<1>1. InfoInit => InfoInv
  <2>. SUFFICES ASSUME InfoInit PROVE InfoInv
    OBVIOUS
  <2>. USE DEF InfoInit
  <2>1. InfoTypeOK
    <3>1. answers \subseteq Answer
      BY DEF Auth, Answer
    <3>2. hosts \in [Hosts -> HostData \union {NULL}] /\ windows \in [Windows -> Window \union {NULL}]
      OBVIOUS
    <3>3. menu \in Menu \union {NULL} /\ handlers \in Seq(Handler)
      OBVIOUS
    <3>4. /\ os_pixmap_list \subseteq OsNames /\ logged_in \in BOOLEAN
          /\ misused = {} /\ broken = {} /\ lookups \subseteq NameLookup
      BY HostInfoAssumption
    <3>. QED BY <3>1, <3>2, <3>3, <3>4 DEF InfoTypeOK
  <2>2. Sound(menu, handlers, hosts)
    BY <2>1, NoneSound
  <2>3. WindowsServe /\ EntriesBelong /\ InfoBelongs
    BY DEF WindowsServe, EntriesBelong, InfoBelongs, Live
  <2>4. LookupsKnown /\ MisuseOnly
    BY DEF LookupsKnown, MisuseOnly
  <2>. QED BY <2>1, <2>2, <2>3, <2>4 DEF InfoInv
<1>2. InfoInv /\ [InfoNext]_infoVars => InfoInv'
  <2>. SUFFICES ASSUME InfoInv, [InfoNext]_infoVars PROVE InfoInv'
    OBVIOUS
  <2>1. InfoTypeOK' /\ Sound(menu', handlers', hosts')
    BY InfoTypesStep, SoundStep DEF InfoInv
  <2>. QED BY <2>1, WindowsStep, LookupsStep, MisuseStep DEF InfoInv
<1>. QED BY <1>1, <1>2, PTL DEF InfoSpec

(* Hosts, windows, the menu, the handlers that run and the answers under    *)
(* way keep their types (page_object, gui-canvas.c; gui-handlers.c).        *)
THEOREM HostInfoTypeCorrect == InfoSpec => []InfoTypeOK
<1>1. InfoInv => InfoTypeOK
  BY DEF InfoInv
<1>. QED BY <1>1, InfoInvHolds, PTL

(* The properties windows of gui-canvas.c and the hosts of a page know of   *)
(* one another, and what gui-handlers.c and gui-canvas.c show of a host was *)
(* answered for its address or typed in a window that was opened for it, as *)
(* long as no host has two windows and each is closed with its button.      *)
(* Freed memory is used only when that is not so, when a host is shown      *)
(* again under the dialog that asks for its pixmap, or when reverse_lookup_cb *)
(* is called for a host that was deleted while its name was looked up.      *)
THEOREM HostInfoWindowsAreTrue == InfoSpec => []WindowsAreTrue
<1>1. InfoInv => WindowsAreTrue
  BY DEF InfoInv, WindowsAreTrue
<1>. QED BY <1>1, InfoInvHolds, PTL
=============================================================================
