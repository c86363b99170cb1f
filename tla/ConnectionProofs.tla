-------------------------- MODULE ConnectionProofs --------------------------
(***************************************************************************)
(* Proofs about the connections of src/event.c.                            *)
(*                                                                         *)
(* Framing, for any length field, buffer and event lengths: events leave   *)
(* the buffer whole and in order, and only an event that was split behind  *)
(* its length can stall the connection.                                    *)
(*                                                                         *)
(* Agents, for any number of addresses, connections and requests: the      *)
(* list, the descriptor table and the memory agree, nobody is served       *)
(* without a login, and replies go astray only when the client that asked  *)
(* has hung up.                                                            *)
(***************************************************************************)
EXTENDS Framing, Agents, SequenceTheorems, TLAPS

(* Events are longer than their length field, so their starts differ. *)
StreamGrows ==
  /\ \A i \in 1..Len(ends) : ends[i] > Start(i) + LenBytes
  /\ \A i, j \in 1..Len(ends) : i < j => ends[i] < ends[j]

(* What the value of expected_length says about the bytes in the buffer. *)
Progress ==
  /\ expected = -1 => wp = 0
  /\ expected = 0 => wp < LenBytes \/ split
  /\ pc = "poll" /\ expected > 0 => wp < expected
  /\ pc = "poll" /\ wp > LenBytes => split

IInv ==
  /\ TypeOK
  /\ StreamGrows
  /\ InStep
  /\ Progress
  /\ RefusesOnlyTooLarge
  /\ ExitOnlyAfterSplit

(* The subtraction of event.c:366: right while no more than the length is   *)
(* held, and larger than any read afterwards.                               *)
LEMMA SizeSubtraction ==
  ASSUME NEW held \in 0..BufSize, NEW n \in 0..BufSize
  PROVE  /\ held <= LenBytes => (KnowsLength(held, n) <=> held + n >= LenBytes)
         /\ held > LenBytes => ~KnowsLength(held, n)
<1>1. /\ LenBytes \in Nat /\ BufSize \in Nat /\ BufSize > LenBytes
      /\ Wrap \in Nat /\ Wrap > BufSize + BufSize
  BY FramingAssumption
<1>2. \A w, r \in Nat : r < w => r % w = r /\ (r - w) % w = r
  OBVIOUS
<1>3. CASE held <= LenBytes
  <2>1. LenBytes - held \in Nat /\ LenBytes - held < Wrap
    BY <1>1, <1>3
  <2>2. (LenBytes - held) % Wrap = LenBytes - held
    BY <1>1, <1>2, <2>1
  <2>. QED BY <1>1, <1>3, <2>2 DEF KnowsLength
<1>4. CASE held > LenBytes
  <2> DEFINE r == Wrap + LenBytes - held
  <2>1. r \in Nat /\ r < Wrap /\ r - Wrap = LenBytes - held /\ r > BufSize
    BY <1>1, <1>4
  <2>2. (r - Wrap) % Wrap = r
    BY <1>1, <1>2, <2>1
  <2>3. n < (LenBytes - held) % Wrap
    BY <1>1, <2>1, <2>2
  <2> HIDE DEF r
  <2>. QED BY <1>1, <1>4, <2>3 DEF KnowsLength
<1>. QED BY <1>1, <1>3, <1>4

LEMMA StartIsNat ==
  ASSUME TypeOK, NEW i \in 1..(Len(ends) + 1)
  PROVE  Start(i) \in Nat
BY DEF TypeOK, Start

LEMMA StartOfNext ==
  ASSUME NEW i \in Nat \ {0}
  PROVE  Start(i + 1) = ends[i]
<1>1. i + 1 # 1 /\ i + 1 - 1 = i
  OBVIOUS
<1>. QED BY <1>1 DEF Start

(* An event is found by its start: h->len at the start of event i is its     *)
(* length, once the bytes of the length are there.                          *)
LEMMA LengthAtStart ==
  ASSUME TypeOK, StreamGrows, NEW i \in 1..Len(ends), NEW n \in Nat, n >= LenBytes
  PROVE  Length(Start(i), n) = {ends[i] - Start(i)}
<1>1. Len(ends) \in Nat /\ \A j \in 1..Len(ends) : ends[j] \in Nat
  BY DEF TypeOK
<1>2. ASSUME NEW j \in 1..Len(ends), NEW k \in 1..Len(ends), j < k
      PROVE  Start(j) < Start(k)
  <2>1. ends[j] <= ends[k - 1]
    <3>1. CASE j = k - 1
      BY <1>1, <3>1
    <3>2. CASE j < k - 1
      BY <1>1, <1>2, <3>2 DEF StreamGrows
    <3>. QED BY <1>1, <1>2, <3>1, <3>2
  <2>2. Start(k) = ends[k - 1]
    BY <1>1, <1>2 DEF Start
  <2>3. Start(j) < ends[j]
    <3>1. Start(j) \in Nat
      BY <1>1, StartIsNat
    <3>. QED BY <1>1, <3>1, FramingAssumption DEF StreamGrows
  <2>4. Start(j) \in Nat
    BY <1>1, StartIsNat
  <2>. QED BY <1>1, <1>2, <2>1, <2>2, <2>3, <2>4
<1>3. \A j \in 1..Len(ends) : Start(j) = Start(i) => j = i
  <2> SUFFICES ASSUME NEW j \in 1..Len(ends), Start(j) = Start(i), j # i PROVE FALSE
    OBVIOUS
  <2>1. Start(i) \in Nat /\ Start(j) \in Nat
    BY <1>1, StartIsNat
  <2>2. j < i \/ i < j
    BY <1>1
  <2>. QED BY <1>2, <2>1, <2>2
<1>4. {j \in 1..Len(ends) : Start(j) = Start(i)} = {i}
  BY <1>3
<1>. QED BY <1>4 DEF Length

(* What a read, or "goto again", makes of n bytes behind the held ones, when *)
(* the front of the buffer is the start of event i.                         *)
LEMMA AdvanceStep ==
  ASSUME TypeOK, StreamGrows, NEW i \in 1..(Len(ends) + 1),
         NEW held \in 0..BufSize, NEW n \in Nat, held + n <= BufSize,
         Start(i) + held + n <= Sent, NEW old \in -1..BufSize, NEW known,
         Advance(known, Start(i), held, n, old), known => held + n >= LenBytes
  PROVE  \/ ~known /\ expected' = 0 /\ wp' = held + n /\ pc' = "check"
         \/ /\ known /\ i \in 1..Len(ends)
            /\ expected' = old /\ wp' = held /\ pc' = "removed"
            /\ ends[i] - Start(i) > BufSize
         \/ /\ known /\ i \in 1..Len(ends)
            /\ expected' = ends[i] - Start(i) /\ wp' = held + n /\ pc' = "check"
            /\ expected' <= BufSize
<1>1. CASE ~known
  BY <1>1 DEF Advance
<1>2. CASE known
  <2>1. held + n >= LenBytes /\ LenBytes >= 1 /\ LenBytes \in Nat /\ Len(ends) \in Nat /\ BufSize \in Nat
    BY <1>2, FramingAssumption DEF TypeOK
  <2>2. i # Len(ends) + 1
    BY <2>1, StartIsNat DEF Sent
  <2>3. i \in 1..Len(ends)
    BY <2>1, <2>2
  <2>4. held + n \in Nat
    BY <2>1
  <2>5. Length(Start(i), held + n) = {ends[i] - Start(i)}
    BY <2>1, <2>3, <2>4, LengthAtStart
  <2>. QED BY <1>2, <2>3, <2>5 DEF Advance
<1>. QED BY <1>1, <1>2

LEMMA InitIInv == Init => IInv
<1> SUFFICES ASSUME Init PROVE IInv
  OBVIOUS
<1>1. /\ ends = <<>> /\ ends \in Seq(Nat) /\ Len(ends) = 0 /\ closed = FALSE
      /\ base = 0 /\ wp = 0 /\ expected = -1 /\ handled = 0
      /\ split = FALSE /\ pc = "poll"
  BY EmptySeq DEF Init
<1>2. TypeOK
  <2>1. wp \in 0..BufSize /\ expected \in -1..BufSize
    BY <1>1, FramingAssumption
  <2>2. handled \in 0..Len(ends)
    BY <1>1
  <2>. QED BY <1>1, <2>1, <2>2 DEF TypeOK
<1>3. StreamGrows
  BY <1>1 DEF StreamGrows
<1>4. InStep
  <2>1. Start(1) = 0 /\ Sent = 0
    BY <1>1 DEF Start, Sent
  <2>. QED BY <1>1, <2>1 DEF InStep, Received
<1>5. Progress
  BY <1>1, FramingAssumption DEF Progress
<1>6. RefusesOnlyTooLarge /\ ExitOnlyAfterSplit
  BY <1>1 DEF RefusesOnlyTooLarge, ExitOnlyAfterSplit
<1>. QED BY <1>2, <1>3, <1>4, <1>5, <1>6 DEF IInv

LEMMA SendStep ==
  ASSUME IInv, NEW len \in MsgLens, Send(len)
  PROVE  IInv'
<1>1. /\ ends \in Seq(Nat) /\ Len(ends) \in Nat /\ Sent \in Nat
      /\ len \in Nat /\ len > LenBytes /\ LenBytes \in Nat
      /\ \A i \in 1..Len(ends) : ends[i] \in Nat
  BY StartIsNat, FramingAssumption DEF IInv, TypeOK, Sent
<1>2. ends' = Append(ends, Sent + len) /\ UNCHANGED <<closed, base, wp, expected, handled, split, pc>>
  BY DEF Send
<1>3. /\ ends' \in Seq(Nat) /\ Len(ends') = Len(ends) + 1
      /\ \A i \in 1..Len(ends) : ends'[i] = ends[i]
      /\ ends'[Len(ends) + 1] = Sent + len
  BY <1>1, <1>2, AppendProperties
<1>4. \A i \in 1..(Len(ends) + 1) : Start(i)' = Start(i)
  <2> SUFFICES ASSUME NEW i \in 1..(Len(ends) + 1) PROVE Start(i)' = Start(i)
    OBVIOUS
  <2>1. i # 1 => i - 1 \in 1..Len(ends)
    BY <1>1
  <2>. QED BY <1>3, <2>1 DEF Start
<1>5. Sent' = Sent + len
  BY <1>1, <1>3 DEF Sent, Start
<1>6. \A i \in 1..Len(ends) : ends[i] <= Sent
  <2> SUFFICES ASSUME NEW i \in 1..Len(ends) PROVE ends[i] <= Sent
    OBVIOUS
  <2>1. Sent = ends[Len(ends)]
    <3>1. Len(ends) + 1 # 1 /\ Len(ends) + 1 - 1 = Len(ends)
      BY <1>1
    <3>. QED BY <3>1 DEF Sent, Start
  <2>2. CASE i = Len(ends)
    BY <1>1, <2>1, <2>2
  <2>3. CASE i # Len(ends)
    <3>1. i < Len(ends) /\ Len(ends) \in 1..Len(ends)
      BY <1>1, <2>3
    <3>2. ends[i] < ends[Len(ends)]
      BY <3>1 DEF IInv, StreamGrows
    <3>. QED BY <1>1, <2>1, <3>1, <3>2
  <2>. QED BY <2>2, <2>3
<1>7. StreamGrows'
  <2>1. ASSUME NEW i \in 1..(Len(ends) + 1) PROVE ends'[i] > Start(i)' + LenBytes
    <3>1. CASE i \in 1..Len(ends)
      BY <1>3, <1>4, <3>1 DEF IInv, StreamGrows
    <3>2. CASE i = Len(ends) + 1
      BY <1>1, <1>3, <1>4, <3>2 DEF Sent
    <3>. QED BY <1>1, <3>1, <3>2
  <2>2. ASSUME NEW i \in 1..(Len(ends) + 1), NEW j \in 1..(Len(ends) + 1), i < j
        PROVE  ends'[i] < ends'[j]
    <3>1. i \in 1..Len(ends) /\ ends'[i] = ends[i] /\ ends[i] \in Nat
      <4>1. i \in 1..Len(ends)
        BY <1>1, <2>2
      <4>. QED BY <1>1, <1>3, <4>1
    <3>2. CASE j \in 1..Len(ends)
      BY <1>3, <2>2, <3>1, <3>2 DEF IInv, StreamGrows
    <3>3. CASE j = Len(ends) + 1
      <4>1. ends'[j] = Sent + len /\ ends[i] <= Sent
        BY <1>3, <1>6, <3>1, <3>3
      <4>. QED BY <1>1, <3>1, <4>1
    <3>. QED BY <1>1, <3>2, <3>3
  <2>. QED BY <1>3, <2>1, <2>2 DEF StreamGrows
<1>8. handled \in 0..Len(ends) /\ base \in Nat /\ wp \in Nat
  BY DEF IInv, TypeOK
<1>9. TypeOK'
  BY <1>1, <1>2, <1>3, <1>8 DEF IInv, TypeOK
<1>10. InStep'
  <2>1. base = Start(handled + 1)' /\ Received' = Received
    BY <1>1, <1>2, <1>4, <1>8 DEF IInv, InStep, Received
  <2>2. Received' <= Sent'
    BY <1>1, <1>5, <1>8, <2>1 DEF IInv, InStep, Received
  <2>3. expected > 0 => handled < Len(ends') /\ expected = ends'[handled + 1] - base
    <3>1. SUFFICES ASSUME expected > 0
                   PROVE  handled < Len(ends') /\ expected = ends'[handled + 1] - base
      OBVIOUS
    <3>2. handled < Len(ends) /\ expected = ends[handled + 1] - base
      BY <3>1 DEF IInv, InStep
    <3>3. handled + 1 \in 1..Len(ends)
      BY <1>1, <1>8, <3>2
    <3>4. ends'[handled + 1] = ends[handled + 1]
      BY <1>3, <3>3
    <3>5. handled < Len(ends')
      BY <1>1, <1>3, <1>8, <3>2
    <3>. QED BY <3>2, <3>4, <3>5
  <2>. QED BY <1>2, <2>1, <2>2, <2>3 DEF InStep
<1>11. Progress' /\ ExitOnlyAfterSplit'
  BY <1>2 DEF IInv, Progress, ExitOnlyAfterSplit
<1>12. RefusesOnlyTooLarge'
  BY <1>1, <1>2, <1>3, <1>8 DEF IInv, RefusesOnlyTooLarge
<1>. QED BY <1>7, <1>9, <1>10, <1>11, <1>12 DEF IInv
(* Looking at n bytes behind the held ones, when the front of the buffer is  *)
(* then the start of event h + 1: a read, or "goto again" after an event.   *)
LEMMA FrontStep ==
  ASSUME IInv, NEW h \in 0..Len(ends), NEW held \in 0..BufSize, NEW n \in Nat,
         NEW old \in -1..BufSize, NEW known,
         Advance(known, base', held, n, old),
         base' = Start(h + 1), base' \in Nat, handled' = h,
         held + n <= BufSize, base' + held + n <= Sent,
         known => held + n >= LenBytes,
         ~known => held + n < LenBytes \/ split,
         old = -1 => held = 0,
         old = 0 => held < LenBytes \/ split,
         old > 0 => h < Len(ends) /\ old = ends[h + 1] - base',
         UNCHANGED <<ends, closed, split>>
  PROVE  IInv'
<1>1. /\ LenBytes \in Nat /\ LenBytes >= 1 /\ BufSize \in Nat
      /\ Len(ends) \in Nat /\ Sent \in Nat
      /\ h \in Nat /\ h + 1 \in 1..(Len(ends) + 1)
  BY FramingAssumption, StartIsNat DEF IInv, TypeOK, Sent
<1>2. Sent' = Sent /\ \A i : Start(i)' = Start(i)
  BY DEF Sent, Start
<1>3. StreamGrows'
  BY <1>2 DEF IInv, StreamGrows
<1>4. \/ ~known /\ expected' = 0 /\ wp' = held + n /\ pc' = "check"
      \/ /\ known /\ h < Len(ends)
         /\ expected' = old /\ wp' = held /\ pc' = "removed"
         /\ ends[h + 1] - base' > BufSize
      \/ /\ known /\ h < Len(ends)
         /\ expected' = ends[h + 1] - base' /\ wp' = held + n /\ pc' = "check"
         /\ expected' <= BufSize
  <2>1. Advance(known, Start(h + 1), held, n, old) /\ Start(h + 1) + held + n <= Sent
    OBVIOUS
  <2>2. \/ ~known /\ expected' = 0 /\ wp' = held + n /\ pc' = "check"
        \/ /\ known /\ h + 1 \in 1..Len(ends)
           /\ expected' = old /\ wp' = held /\ pc' = "removed"
           /\ ends[h + 1] - Start(h + 1) > BufSize
        \/ /\ known /\ h + 1 \in 1..Len(ends)
           /\ expected' = ends[h + 1] - Start(h + 1) /\ wp' = held + n /\ pc' = "check"
           /\ expected' <= BufSize
    BY <1>1, <2>1, AdvanceStep DEF IInv
  <2>. QED BY <1>1, <2>2
<1>5. CASE ~known
  <2>1. expected' = 0 /\ wp' = held + n /\ pc' = "check"
    BY <1>4, <1>5
  <2>2. TypeOK'
    BY <1>1, <2>1 DEF IInv, TypeOK
  <2>3. InStep'
    BY <1>2, <2>1 DEF InStep, Received
  <2>4. Progress' /\ RefusesOnlyTooLarge' /\ ExitOnlyAfterSplit'
    BY <1>1, <1>5, <2>1 DEF Progress, RefusesOnlyTooLarge, ExitOnlyAfterSplit
  <2>. QED BY <1>3, <2>2, <2>3, <2>4 DEF IInv
<1>6. CASE known /\ pc' = "removed"
  <2>1. /\ h < Len(ends) /\ expected' = old /\ wp' = held /\ pc' = "removed"
        /\ ends[h + 1] - base' > BufSize
    BY <1>4, <1>6
  <2>2. TypeOK'
    BY <2>1 DEF IInv, TypeOK, Over
  <2>3. base' + held <= Sent
    BY <1>1
  <2>4. InStep'
    BY <1>2, <2>1, <2>3 DEF InStep, Received
  <2>5. Progress' /\ RefusesOnlyTooLarge' /\ ExitOnlyAfterSplit'
    BY <2>1 DEF Progress, RefusesOnlyTooLarge, ExitOnlyAfterSplit
  <2>. QED BY <1>3, <2>2, <2>4, <2>5 DEF IInv
<1>7. CASE known /\ pc' = "check"
  <2>1. /\ h < Len(ends) /\ expected' = ends[h + 1] - base'
        /\ wp' = held + n /\ expected' <= BufSize
    BY <1>4, <1>7
  <2>2. expected' > LenBytes /\ expected' \in Nat
    <3>1. h + 1 \in 1..Len(ends) /\ ends[h + 1] \in Nat
      <4>1. h + 1 \in 1..Len(ends)
        BY <1>1, <2>1
      <4>2. ends \in Seq(Nat)
        BY DEF IInv, TypeOK
      <4>. QED BY <4>1, <4>2
    <3>2. ends[h + 1] > base' + LenBytes
      BY <3>1 DEF IInv, StreamGrows
    <3> DEFINE e == ends[h + 1]
    <3>3. e \in Nat /\ e > base' + LenBytes /\ expected' = e - base'
      BY <2>1, <3>1, <3>2
    <3>4. \A a, b, c \in Nat : a > b + c => a - b > c /\ a - b \in Nat
      OBVIOUS
    <3>. QED BY <1>1, <3>3, <3>4
  <2>3. TypeOK'
    BY <1>1, <1>7, <2>1, <2>2 DEF IInv, TypeOK
  <2>4. InStep'
    BY <1>1, <1>2, <2>1 DEF InStep, Received
  <2>5. Progress' /\ RefusesOnlyTooLarge' /\ ExitOnlyAfterSplit'
    BY <1>1, <1>7, <2>2 DEF Progress, RefusesOnlyTooLarge, ExitOnlyAfterSplit
  <2>. QED BY <1>3, <2>3, <2>4, <2>5 DEF IInv
<1>. QED BY <1>4, <1>5, <1>6, <1>7

LEMMA ReadFirstStep ==
  ASSUME IInv, NEW n \in 1..BufSize, ReadFirst(n)
  PROVE  IInv'
<1>1. /\ pc = "poll" /\ expected = -1 /\ n <= Space /\ n <= Sent - Received
      /\ Advance(n >= LenBytes, base, wp, n, expected)
      /\ UNCHANGED <<ends, closed, base, handled, split>>
  BY DEF ReadFirst
<1>2. /\ wp = 0 /\ BufSize \in Nat /\ LenBytes \in Nat /\ base \in Nat /\ n \in Nat
      /\ base = Start(handled + 1) /\ handled \in 0..Len(ends) /\ Sent \in Nat
  BY <1>1, FramingAssumption, StartIsNat DEF IInv, Progress, TypeOK, InStep, Sent
<1>3. wp + n <= BufSize /\ base + wp + n <= Sent
  BY <1>1, <1>2 DEF Space, Received
<1>4. wp \in 0..BufSize /\ expected \in -1..BufSize
  BY DEF IInv, TypeOK
<1> DEFINE known == n >= LenBytes
<1>5. known => wp + n >= LenBytes
  BY <1>2
<1>6. ~known => wp + n < LenBytes
  BY <1>2
<1>7. Advance(known, base', wp, n, expected)
  BY <1>1
<1> HIDE DEF known
<1>. QED BY <1>1, <1>2, <1>3, <1>4, <1>5, <1>6, <1>7, FrontStep

LEMMA ReadMoreStep ==
  ASSUME IInv, NEW n \in 1..BufSize, ReadMore(n)
  PROVE  IInv'
<1>1. /\ pc = "poll" /\ expected # -1 /\ n <= Space /\ n <= Sent - Received
      /\ Advance(KnowsLength(wp, n), base, wp, n, expected)
      /\ UNCHANGED <<ends, closed, base, handled, split>>
  BY DEF ReadMore
<1>2. /\ wp \in 0..BufSize /\ BufSize \in Nat /\ LenBytes \in Nat /\ base \in Nat /\ n \in Nat
      /\ base = Start(handled + 1) /\ handled \in 0..Len(ends) /\ Sent \in Nat
      /\ expected \in -1..BufSize
  BY FramingAssumption, StartIsNat DEF IInv, TypeOK, InStep, Sent
<1>3. wp + n <= BufSize /\ base + wp + n <= Sent
  BY <1>1, <1>2 DEF Space, Received
<1>4. wp > LenBytes => split
  BY <1>1 DEF IInv, Progress
<1> DEFINE known == KnowsLength(wp, n)
<1>5. n \in 0..BufSize
  BY <1>2
<1>6. /\ wp <= LenBytes => (known <=> wp + n >= LenBytes)
      /\ wp > LenBytes => ~known
  BY <1>2, <1>5, SizeSubtraction
<1>7. Advance(known, base', wp, n, expected)
  BY <1>1
<1> HIDE DEF known
<1>8. known => wp + n >= LenBytes
  BY <1>2, <1>6
<1>9. ~known => wp + n < LenBytes \/ split
  BY <1>2, <1>4, <1>6
<1>10. /\ expected = 0 => wp < LenBytes \/ split
       /\ expected > 0 => handled < Len(ends) /\ expected = ends[handled + 1] - base
  BY DEF IInv, Progress, InStep
<1>. QED BY <1>1, <1>2, <1>3, <1>7, <1>8, <1>9, <1>10, FrontStep

LEMMA DispatchStep ==
  ASSUME IInv, Dispatch
  PROVE  IInv'
<1> DEFINE n == wp - expected
           known == KnowsLength(0, n)
<1>1. /\ wp >= expected /\ expected > 0 /\ handled' = handled + 1
      /\ base' = base + expected /\ UNCHANGED <<ends, closed, split>>
  BY DEF Dispatch, HaveEvent
<1>2. Advance(known, base', 0, n, 0)
  BY <1>1 DEF Dispatch
<1>3. /\ wp \in 0..BufSize /\ BufSize \in Nat /\ LenBytes \in Nat \ {0} /\ base \in Nat
      /\ handled \in 0..Len(ends) /\ Len(ends) \in Nat /\ Sent \in Nat
      /\ expected \in -1..BufSize
  BY FramingAssumption, StartIsNat DEF IInv, TypeOK, Sent
<1>4. handled < Len(ends) /\ expected = ends[handled + 1] - base /\ base + wp <= Sent
  BY <1>1 DEF IInv, InStep, Received
<1>5. handled + 1 \in 0..Len(ends) /\ base' \in Nat /\ base' = Start((handled + 1) + 1)
  <2>1. handled + 1 \in 1..Len(ends) /\ ends[handled + 1] \in Nat
    BY <1>3, <1>4 DEF IInv, TypeOK
  <2>2. base' = ends[handled + 1]
    BY <1>1, <1>3, <1>4, <2>1
  <2>3. handled + 1 \in Nat \ {0}
    BY <1>3
  <2>4. Start((handled + 1) + 1) = ends[handled + 1]
    BY <2>3, StartOfNext
  <2>. QED BY <1>3, <2>1, <2>2, <2>4
<1>6. n \in 0..BufSize /\ n \in Nat /\ 0 + n <= BufSize /\ base' + 0 + n <= Sent
  <2>1. /\ wp \in Int /\ expected \in Int /\ base \in Int /\ BufSize \in Int /\ Sent \in Int
        /\ wp <= BufSize /\ base + wp <= Sent
    BY <1>3, <1>4
  <2>2. wp >= expected /\ expected > 0 /\ base' = base + expected
    BY <1>1
  <2>. QED BY <2>1, <2>2
<1>7. known <=> 0 + n >= LenBytes
  <2>1. 0 \in 0..BufSize /\ 0 <= LenBytes
    BY <1>3
  <2> HIDE DEF n
  <2>. QED BY <1>6, <2>1, SizeSubtraction
<1> HIDE DEF known, n
<1>8. ~known => 0 + n < LenBytes
  BY <1>3, <1>6, <1>7
<1>9. 0 < LenBytes /\ 0 \in -1..BufSize /\ 0 \in 0..BufSize
  BY <1>3
<1>. QED BY <1>1, <1>2, <1>5, <1>6, <1>7, <1>8, <1>9, FrontStep

LEMMA NextIInv == IInv /\ [Next]_vars => IInv'
<1> SUFFICES ASSUME IInv, [Next]_vars PROVE IInv'
  OBVIOUS
<1>1. ASSUME NEW len \in MsgLens, Send(len) PROVE IInv'
  BY <1>1, SendStep
<1>2. CASE Close
  BY <1>2 DEF Close, IInv, TypeOK, StreamGrows, InStep, Progress, RefusesOnlyTooLarge,
              ExitOnlyAfterSplit, Start, Sent, Received
<1>3. ASSUME NEW n \in 1..BufSize, ReadFirst(n) PROVE IInv'
  BY <1>3, ReadFirstStep
<1>4. ASSUME NEW n \in 1..BufSize, ReadMore(n) PROVE IInv'
  BY <1>4, ReadMoreStep
<1>5. CASE Dispatch
  BY <1>5, DispatchStep
<1>6. CASE Return
  <2>1. /\ ~(wp >= expected /\ expected > 0) /\ pc' = "poll"
        /\ split' = (split \/ HoldsPart)
        /\ UNCHANGED <<ends, closed, base, wp, expected, handled>>
    BY <1>6 DEF Return, HaveEvent
  <2>2. split' \in BOOLEAN
    BY <2>1
  <2>3. wp \in Int /\ expected \in Int
    BY FramingAssumption DEF IInv, TypeOK
  <2>4. TypeOK' /\ StreamGrows' /\ InStep' /\ RefusesOnlyTooLarge' /\ ExitOnlyAfterSplit'
    BY <2>1, <2>2 DEF IInv, TypeOK, StreamGrows, InStep, RefusesOnlyTooLarge,
                      ExitOnlyAfterSplit, Start, Sent, Received
  <2>5. (split => split') /\ (HoldsPart => split')
    BY <2>1, Zenon
  <2>6. Progress /\ InStep
    BY DEF IInv
  <2>7. expected > 0 /\ wp < expected => ~FrontIsWhole
    <3> SUFFICES ASSUME expected > 0, wp < expected, FrontIsWhole PROVE FALSE
      OBVIOUS
    <3>1. handled + 1 \in 1..Len(ends)
      BY DEF IInv, TypeOK, FrontIsWhole
    <3>2. ends[handled + 1] \in Int /\ base \in Int
      BY <3>1 DEF IInv, TypeOK
    <3>3. expected = ends[handled + 1] - base /\ base + wp >= ends[handled + 1]
      BY <2>6 DEF InStep, FrontIsWhole, Received
    <3>. QED BY <2>3, <3>2, <3>3
  <2>8. wp > LenBytes => split'
    <3>1. CASE expected > 0
      BY <2>1, <2>3, <2>5, <2>7, <3>1 DEF HoldsPart
    <3>2. CASE expected = 0
      BY <2>3, <2>5, <2>6, <3>2, FramingAssumption DEF Progress
    <3>3. CASE expected = -1
      BY <2>6, <3>3, FramingAssumption DEF Progress
    <3>4. expected > 0 \/ expected = 0 \/ expected = -1
      BY FramingAssumption DEF IInv, TypeOK
    <3>. QED BY <3>1, <3>2, <3>3, <3>4
  <2>9. Progress'
    BY <2>1, <2>3, <2>5, <2>6, <2>8 DEF Progress
  <2>. QED BY <2>4, <2>9 DEF IInv
<1>7. CASE BufferFull
  <2>1. /\ pc = "poll" /\ Space = 0 /\ pc' = "exited"
        /\ UNCHANGED <<ends, closed, base, wp, expected, handled, split>>
    BY <1>7 DEF BufferFull
  <2>2. split
    BY <2>1, FramingAssumption DEF IInv, TypeOK, Progress, Space
  <2>3. TypeOK' /\ StreamGrows' /\ InStep'
    BY <2>1 DEF IInv, TypeOK, StreamGrows, InStep, Start, Sent, Received, Over
  <2>4. Progress' /\ RefusesOnlyTooLarge' /\ ExitOnlyAfterSplit'
    BY <2>1, <2>2 DEF IInv, Progress, RefusesOnlyTooLarge, ExitOnlyAfterSplit
  <2>. QED BY <2>3, <2>4 DEF IInv
<1>8. CASE Destroy
  <2>1. /\ pc' = "destroyed"
        /\ UNCHANGED <<ends, closed, base, wp, expected, handled, split>>
    BY <1>8 DEF Destroy
  <2>2. TypeOK' /\ StreamGrows' /\ InStep'
    BY <2>1 DEF IInv, TypeOK, StreamGrows, InStep, Start, Sent, Received, Over
  <2>3. Progress' /\ RefusesOnlyTooLarge' /\ ExitOnlyAfterSplit'
    BY <2>1 DEF IInv, Progress, RefusesOnlyTooLarge, ExitOnlyAfterSplit
  <2>. QED BY <2>2, <2>3 DEF IInv
<1>9. CASE UNCHANGED vars
  BY <1>9 DEF vars, IInv, TypeOK, StreamGrows, InStep, Progress, RefusesOnlyTooLarge,
              ExitOnlyAfterSplit, Start, Sent, Received
<1>. QED BY <1>1, <1>2, <1>3, <1>4, <1>5, <1>6, <1>7, <1>8, <1>9 DEF Next

LEMMA SpecIInv == Spec => []IInv
BY InitIInv, NextIInv, PTL DEF Spec

(* write_ptr stays inside the buffer, whatever the peer sends and however    *)
(* it is cut into reads.                                                    *)
THEOREM FramingTypeCorrect == Spec => []TypeOK
<1>1. IInv => TypeOK
  BY DEF IInv
<1>. QED BY <1>1, SpecIInv, PTL

(* handle_agent takes every event out once, whole and in order. *)
THEOREM FramingInStep == Spec => []InStep
<1>1. IInv => InStep
  BY DEF IInv
<1>. QED BY <1>1, SpecIInv, PTL

(* A whole event waits in the buffer only after an earlier read stopped      *)
(* behind its length.                                                       *)
THEOREM FramingHandsOutWholeEvents == Spec => []HandsOutWholeEvents
<1>1. IInv => HandsOutWholeEvents
  <2> SUFFICES ASSUME IInv, pc = "poll", FrontIsWhole, ~split PROVE FALSE
    BY DEF HandsOutWholeEvents
  <2>1. /\ handled \in Nat /\ handled < Len(ends) /\ base + wp >= ends[handled + 1]
        /\ base \in Nat /\ wp \in Nat /\ LenBytes \in Nat /\ Len(ends) \in Nat
        /\ expected \in Int /\ base = Start(handled + 1)
    BY FramingAssumption DEF IInv, TypeOK, InStep, FrontIsWhole, Received
  <2>2. handled + 1 \in 1..Len(ends) /\ ends[handled + 1] \in Nat
    BY <2>1 DEF IInv, TypeOK
  <2>3. ends[handled + 1] > base + LenBytes
    BY <2>1, <2>2 DEF IInv, StreamGrows
  <2>4. wp > LenBytes
    BY <2>1, <2>2, <2>3
  <2>. QED BY <2>4 DEF IInv, Progress
<1>. QED BY <1>1, SpecIInv, PTL

(* An event that fits the buffer is never refused as too large. *)
THEOREM FramingRefusesOnlyTooLarge == Spec => []RefusesOnlyTooLarge
<1>1. IInv => RefusesOnlyTooLarge
  BY DEF IInv
<1>. QED BY <1>1, SpecIInv, PTL

(* The agent exits on a full buffer only when an event was split. *)
THEOREM FramingExitOnlyAfterSplit == Spec => []ExitOnlyAfterSplit
<1>1. IInv => ExitOnlyAfterSplit
  BY DEF IInv
<1>. QED BY <1>1, SpecIInv, PTL

-----------------------------------------------------------------------------
(* Agents. *)

(* The flag in the memory of a connection is its own, not its predecessor's.*)
LoginsAreProven ==
  \A c \in Cells : mem[c] # 0 /\ loggedIn[c] => mem[c] \in proven

(* Connections are destroyed when their client has hung up.                 *)
DyingHasHungUp == ~exited /\ dying # NoCell => mem[dying] \in hungUp

(* The pointer that a request keeps is good as long as its client stays.    *)
AskersKeepTheirMemory ==
  ~exited => \A p \in pending : mem[p.cell] = p.asker \/ p.asker \in hungUp

AgentsInv ==
  /\ AgentsTypeOK
  /\ ListIsAllocated
  /\ PolledAreListed
  /\ LoginsAreProven
  /\ ServedAfterLogin
  /\ DyingHasHungUp
  /\ AskersKeepTheirMemory
  /\ RepliesOfTheLiving

(* The steps, with the parameter of each as a constant. *)
LEMMA AgentsNextCases ==
  ASSUME [AgentsNext]_agentsVars, NEW ACTION P,
         \A c \in Cells : Accept(c) => P,
         \A c \in Cells : Request(c) => P,
         \A c \in Cells : Login(c) => P,
         \A c \in Cells : TooLarge(c) => P,
         \A c \in Cells : Notice(c) => P,
         DestroyAgent => P,
         \A p \in pending : event_send(p) => P,
         myexit => P,
         \A n \in Conns : HangUp(n) => P,
         UNCHANGED agentsVars => P
  PROVE  P
BY DEF AgentsNext

LEMMA InitAgentsInv == AgentsInit => AgentsInv
<1> SUFFICES ASSUME AgentsInit PROVE AgentsInv
  OBVIOUS
<1>1. AgentsTypeOK
  <2>1. /\ mem \in [Cells -> Conns \union {0}] /\ loggedIn \in [Cells -> BOOLEAN]
        /\ id \in [Cells -> {"held", "stale"}]
    BY DEF AgentsInit
  <2>2. requests \in 0..MaxRequests
    BY AgentsAssumption DEF AgentsInit
  <2>. QED BY <2>1, <2>2 DEF AgentsInit, AgentsTypeOK
<1>2. ListIsAllocated /\ PolledAreListed
  BY DEF AgentsInit, ListIsAllocated, PolledAreListed
<1>3. LoginsAreProven /\ ServedAfterLogin /\ DyingHasHungUp
  BY DEF AgentsInit, LoginsAreProven, ServedAfterLogin, DyingHasHungUp
<1>4. AskersKeepTheirMemory /\ RepliesOfTheLiving
  BY DEF AgentsInit, AskersKeepTheirMemory, RepliesOfTheLiving
<1>. QED BY <1>1, <1>2, <1>3, <1>4 DEF AgentsInv

-----------------------------------------------------------------------------
(* One lemma per conjunct, one step per action that can disturb it. *)

LEMMA NextAgentsTypeOK == AgentsTypeOK /\ ListIsAllocated /\ [AgentsNext]_agentsVars => AgentsTypeOK'
<1> SUFFICES ASSUME AgentsTypeOK, ListIsAllocated, [AgentsNext]_agentsVars PROVE AgentsTypeOK'
  OBVIOUS
<1>0. MaxRequests \in Nat
  BY AgentsAssumption
<1>1. ASSUME NEW c \in Cells, Accept(c) PROVE AgentsTypeOK'
  <2>1. count' = count + 1 /\ count \in Nat /\ Conns \subseteq Conns' /\ count' \in Conns'
    BY <1>1 DEF AgentsTypeOK, Accept, Conns
  <2>2. mem' \in [Cells -> Conns' \union {0}]
    BY <1>1, <2>1 DEF AgentsTypeOK, Accept, new_agent
  <2>3. /\ loggedIn' \in [Cells -> BOOLEAN] /\ id' \in [Cells -> {"held", "stale"}]
        /\ agents' \subseteq Cells
    BY <1>1 DEF AgentsTypeOK, Accept, new_agent
  <2>4. /\ polled' \subseteq Conns' /\ hungUp' \subseteq Conns'
        /\ served' \subseteq Conns' /\ proven' \subseteq Conns'
    BY <1>1, <2>1 DEF AgentsTypeOK, Accept, work
  <2>5. Requests \subseteq Requests' /\ Replies \subseteq Replies'
    BY <2>1 DEF Requests, Replies
  <2>6. pending' \subseteq Requests' /\ sent' \subseteq Replies'
    BY <1>1, <2>5 DEF AgentsTypeOK, Accept, work
  <2>7. /\ count' \in Nat /\ dying' \in Cells \union {NoCell}
        /\ exited' \in BOOLEAN /\ requests' \in 0..MaxRequests
    BY <1>1, <2>1 DEF AgentsTypeOK, Accept, work
  <2>. QED BY <2>2, <2>3, <2>4, <2>6, <2>7 DEF AgentsTypeOK
<1>2. ASSUME NEW c \in Cells, Request(c) PROVE AgentsTypeOK'
  <2>1. mem[c] \in Conns /\ requests + 1 \in 1..MaxRequests
    BY <1>0, <1>2 DEF AgentsTypeOK, Request, Called
  <2>2. [no |-> requests + 1, cell |-> c, asker |-> mem[c]] \in Requests
    BY <2>1 DEF Requests
  <2>3. requests' \in 0..MaxRequests
    BY <1>0, <1>2, <2>1 DEF Request
  <2>4. /\ Conns' = Conns /\ Requests' = Requests /\ Replies' = Replies
    BY <1>2 DEF Request, table, Conns, Requests, Replies
  <2>5. pending' \subseteq Requests' /\ served' \subseteq Conns'
    BY <1>2, <2>1, <2>2, <2>4 DEF Request, AgentsTypeOK
  <2>. QED BY <1>2, <2>3, <2>4, <2>5 DEF AgentsTypeOK, Request, table
<1>3. ASSUME NEW c \in Cells, Login(c) PROVE AgentsTypeOK'
  <2>1. mem[c] \in Conns
    BY <1>3 DEF AgentsTypeOK, Login, Called
  <2>. QED BY <1>3, <2>1 DEF AgentsTypeOK, Login, work, Conns, Requests, Replies
<1>4. ASSUME NEW c \in Cells, TooLarge(c) PROVE AgentsTypeOK'
  BY <1>4 DEF AgentsTypeOK, TooLarge, work, Conns, Requests, Replies
<1>5. ASSUME NEW c \in Cells, Notice(c) PROVE AgentsTypeOK'
  BY <1>5 DEF AgentsTypeOK, Notice, work, Conns, Requests, Replies
<1>6. CASE DestroyAgent
  BY <1>6 DEF AgentsTypeOK, DestroyAgent, work, Conns, Requests, Replies
<1>7. ASSUME NEW p \in pending, event_send(p) PROVE AgentsTypeOK'
  <2>1. CASE chk_agent(p.cell)
    <3>1. p.no \in 1..MaxRequests /\ p.asker \in Conns /\ p.cell \in Cells
      BY <1>7 DEF AgentsTypeOK, Requests
    <3>2. mem[p.cell] \in Conns
      BY <2>1, <3>1 DEF AgentsTypeOK, ListIsAllocated, chk_agent
    <3>3. [no |-> p.no, to |-> mem[p.cell], asker |-> p.asker] \in Replies
      BY <3>1, <3>2 DEF Replies
    <3>4. /\ Conns' = Conns /\ Requests' = Requests /\ Replies' = Replies
      BY <1>7 DEF event_send, table, Conns, Requests, Replies
    <3>5. sent' \subseteq Replies' /\ pending' \subseteq Requests'
      BY <1>7, <2>1, <3>3, <3>4 DEF event_send, AgentsTypeOK
    <3>. QED BY <1>7, <3>4, <3>5 DEF AgentsTypeOK, event_send, table
  <2>2. CASE ~chk_agent(p.cell)
    BY <1>7, <2>2 DEF AgentsTypeOK, event_send, table, Conns, Requests, Replies
  <2>. QED BY <2>1, <2>2
<1>8. CASE myexit
  BY <1>8 DEF AgentsTypeOK, myexit, work, Conns, Requests, Replies
<1>9. ASSUME NEW n \in Conns, HangUp(n) PROVE AgentsTypeOK'
  BY <1>9 DEF AgentsTypeOK, HangUp, table, work, Conns, Requests, Replies
<1>10. CASE UNCHANGED agentsVars
  BY <1>10 DEF AgentsTypeOK, agentsVars, Conns, Requests, Replies
<1>. QED BY <1>1, <1>2, <1>3, <1>4, <1>5, <1>6, <1>7, <1>8, <1>9, <1>10, AgentsNextCases

LEMMA NextListIsAllocated ==
  AgentsTypeOK /\ ListIsAllocated /\ PolledAreListed /\ [AgentsNext]_agentsVars => ListIsAllocated'
<1> SUFFICES ASSUME AgentsTypeOK, ListIsAllocated, PolledAreListed, [AgentsNext]_agentsVars
             PROVE  ListIsAllocated'
  OBVIOUS
<1>1. ASSUME NEW c \in Cells, Accept(c) PROVE ListIsAllocated'
  <2>1. /\ dying = NoCell /\ dying' = NoCell /\ c # NoCell /\ mem[c] = 0
        /\ agents' = agents \union {c} /\ c \notin agents
    BY <1>1, AgentsAssumption DEF Accept, Idle, new_agent, ListIsAllocated
  <2>2. /\ mem'[c] = count + 1
        /\ \A d \in Cells : d # c => mem'[d] = mem[d] /\ mem[d] <= count
        /\ count \in Nat
    BY <1>1 DEF AgentsTypeOK, Accept, new_agent, Conns
  <2>3. \A d \in agents' : mem'[d] # 0 /\ d # dying'
    BY <2>1, <2>2, AgentsAssumption DEF ListIsAllocated, AgentsTypeOK
  <2>4. \A d, e \in Cells : mem'[d] = mem'[e] /\ mem'[d] # 0 => d = e
    BY <2>2 DEF ListIsAllocated, AgentsTypeOK, Conns
  <2>. QED BY <2>1, <2>3, <2>4 DEF ListIsAllocated
<1>2. ASSUME NEW c \in Cells, Request(c) PROVE ListIsAllocated'
  BY <1>2 DEF ListIsAllocated, Request, table
<1>3. ASSUME NEW c \in Cells, Login(c) PROVE ListIsAllocated'
  BY <1>3 DEF ListIsAllocated, Login
<1>4. ASSUME NEW c \in Cells, TooLarge(c) PROVE ListIsAllocated'
  BY <1>4 DEF ListIsAllocated, TooLarge, Called, Idle
<1>5. ASSUME NEW c \in Cells, Notice(c) PROVE ListIsAllocated'
  BY <1>5 DEF ListIsAllocated, PolledAreListed, Notice, Called, Idle
<1>6. CASE DestroyAgent
  BY <1>6, AgentsAssumption DEF ListIsAllocated, DestroyAgent, AgentsTypeOK
<1>7. ASSUME NEW p \in pending, event_send(p) PROVE ListIsAllocated'
  BY <1>7 DEF ListIsAllocated, event_send, table
<1>8. CASE myexit
  <2>1. PICK unlinked \in SUBSET agents, freed \in SUBSET agents :
          /\ freed \subseteq unlinked
          /\ agents' = agents \ unlinked
          /\ mem' = [c \in Cells |-> IF c \in freed THEN 0 ELSE mem[c]]
    BY <1>8 DEF myexit
  <2>2. dying' = dying /\ id' = id
    BY <1>8 DEF myexit
  <2>3. \A c \in Cells : mem'[c] # 0 => mem'[c] = mem[c]
    BY <2>1
  <2>4. \A c \in agents' : mem'[c] # 0 /\ c # dying'
    BY <2>1, <2>2 DEF ListIsAllocated, AgentsTypeOK
  <2>. QED BY <2>2, <2>3, <2>4 DEF ListIsAllocated
<1>9. ASSUME NEW n \in Conns, HangUp(n) PROVE ListIsAllocated'
  BY <1>9 DEF ListIsAllocated, HangUp, table
<1>10. CASE UNCHANGED agentsVars
  BY <1>10 DEF ListIsAllocated, agentsVars
<1>. QED BY <1>1, <1>2, <1>3, <1>4, <1>5, <1>6, <1>7, <1>8, <1>9, <1>10, AgentsNextCases

(* The connection that c is used for is not that of any other cell.         *)
LEMMA OneCellEach ==
  ASSUME AgentsTypeOK, ListIsAllocated, NEW c \in Cells, mem[c] # 0, NEW d \in Cells, d # c
  PROVE  mem[d] # mem[c]
BY DEF ListIsAllocated

LEMMA NextPolledAreListed ==
  AgentsTypeOK /\ ListIsAllocated /\ PolledAreListed /\ [AgentsNext]_agentsVars => PolledAreListed'
<1> SUFFICES ASSUME AgentsTypeOK, ListIsAllocated, PolledAreListed, [AgentsNext]_agentsVars
             PROVE  PolledAreListed'
  OBVIOUS
<1>1. ASSUME NEW c \in Cells, Accept(c) PROVE PolledAreListed'
  <2>1. /\ dying = NoCell /\ dying' = NoCell /\ c # NoCell /\ mem[c] = 0 /\ c \notin agents
        /\ agents' = agents \union {c} /\ polled' = polled \union {count + 1} /\ ~exited
    BY <1>1, AgentsAssumption DEF Accept, Idle, new_agent, ListIsAllocated
  <2>2. /\ mem'[c] = count + 1 /\ id'[c] = "held"
        /\ \A d \in Cells : d # c => mem'[d] = mem[d] /\ id'[d] = id[d]
        /\ \A d \in Cells : mem[d] <= count /\ mem[d] \in Nat
        /\ count \in Nat
    BY <1>1 DEF AgentsTypeOK, Accept, new_agent, Conns
  <2>3. ASSUME NEW n \in polled'
        PROVE  \E d \in agents' \union {dying'} : d # NoCell /\ mem'[d] = n
    <3>1. CASE n = count + 1
      BY <2>1, <2>2, <3>1
    <3>2. CASE n \in polled
      <4>1. PICK d \in agents : mem[d] = n
        BY <2>1, <3>2 DEF PolledAreListed
      <4>2. d # NoCell /\ d # c /\ d \in Cells
        BY <2>1, AgentsAssumption DEF AgentsTypeOK
      <4>. QED BY <2>1, <2>2, <4>1, <4>2
    <3>. QED BY <2>1, <3>1, <3>2
  <2>4. ASSUME NEW d \in agents'
        PROVE  mem'[d] \in polled' <=> id'[d] = "held"
    <3>1. CASE d = c
      BY <2>1, <2>2, <3>1
    <3>2. CASE d # c
      BY <2>1, <2>2, <3>2 DEF PolledAreListed, AgentsTypeOK
    <3>. QED BY <3>1, <3>2
  <2>. QED BY <2>3, <2>4 DEF PolledAreListed
<1>2. ASSUME NEW c \in Cells, Request(c) PROVE PolledAreListed'
  BY <1>2 DEF PolledAreListed, Request, table
<1>3. ASSUME NEW c \in Cells, Login(c) PROVE PolledAreListed'
  BY <1>3 DEF PolledAreListed, Login
<1>4. ASSUME NEW c \in Cells, TooLarge(c) PROVE PolledAreListed'
  <2>1. ~exited /\ \A d \in agents : d # c => mem[d] # mem[c]
    BY <1>4, OneCellEach DEF TooLarge, Called, Idle, AgentsTypeOK, ListIsAllocated
  <2>2. id'[c] = "stale" /\ \A d \in Cells : d # c => id'[d] = id[d]
    BY <1>4 DEF AgentsTypeOK, TooLarge
  <2>3. \A d \in agents' : mem'[d] \in polled' <=> id'[d] = "held"
    BY <1>4, <2>1, <2>2 DEF TooLarge, PolledAreListed, AgentsTypeOK
  <2>4. \A n \in polled' : \E d \in agents' \union {dying'} : d # NoCell /\ mem'[d] = n
    BY <1>4, <2>1 DEF TooLarge, PolledAreListed
  <2>. QED BY <2>3, <2>4 DEF PolledAreListed
<1>5. ASSUME NEW c \in Cells, Notice(c) PROVE PolledAreListed'
  BY <1>5, AgentsAssumption DEF PolledAreListed, Notice, Called, Idle
<1>6. CASE DestroyAgent
  <2>1. dying \in Cells /\ dying \notin agents
    BY <1>6 DEF DestroyAgent, AgentsTypeOK, ListIsAllocated
  <2>2. \A d \in agents : mem'[d] = mem[d] /\ mem[d] # mem[dying]
    BY <1>6, <2>1 DEF DestroyAgent, AgentsTypeOK, ListIsAllocated
  <2>3. \A d \in agents' : mem'[d] \in polled' <=> id'[d] = "held"
    BY <1>6, <2>2 DEF DestroyAgent, PolledAreListed
  <2>4. ASSUME NEW n \in polled'
        PROVE  \E d \in agents' \union {dying'} : d # NoCell /\ mem'[d] = n
    <3>1. PICK d \in agents \union {dying} : d # NoCell /\ mem[d] = n
      BY <1>6 DEF DestroyAgent, PolledAreListed
    <3>2. d \in agents
      BY <1>6, <3>1 DEF DestroyAgent
    <3>. QED BY <1>6, <2>2, <3>1, <3>2 DEF DestroyAgent
  <2>. QED BY <2>3, <2>4 DEF PolledAreListed
<1>7. ASSUME NEW p \in pending, event_send(p) PROVE PolledAreListed'
  BY <1>7 DEF PolledAreListed, event_send, table
<1>8. CASE myexit
  BY <1>8 DEF myexit, PolledAreListed
<1>9. ASSUME NEW n \in Conns, HangUp(n) PROVE PolledAreListed'
  BY <1>9 DEF PolledAreListed, HangUp, table
<1>10. CASE UNCHANGED agentsVars
  BY <1>10 DEF PolledAreListed, agentsVars
<1>. QED BY <1>1, <1>2, <1>3, <1>4, <1>5, <1>6, <1>7, <1>8, <1>9, <1>10, AgentsNextCases

LEMMA NextLogins ==
  /\ AgentsTypeOK /\ ListIsAllocated /\ LoginsAreProven /\ ServedAfterLogin /\ [AgentsNext]_agentsVars
  => LoginsAreProven' /\ ServedAfterLogin'
<1> SUFFICES ASSUME AgentsTypeOK, ListIsAllocated, LoginsAreProven, ServedAfterLogin, [AgentsNext]_agentsVars
             PROVE  LoginsAreProven' /\ ServedAfterLogin'
  OBVIOUS
<1> DEFINE P == LoginsAreProven' /\ ServedAfterLogin'
<1>1. ASSUME NEW c \in Cells, Accept(c) PROVE P
  <2>1. loggedIn'[c] = FALSE /\ \A d \in Cells : d # c =>
          (loggedIn'[d] <=> loggedIn[d]) /\ mem'[d] = mem[d]
    BY <1>1 DEF AgentsTypeOK, Accept, new_agent
  <2>2. proven' = proven /\ served' = served
    BY <1>1 DEF Accept, work
  <2>. QED BY <2>1, <2>2 DEF LoginsAreProven, ServedAfterLogin
<1>2. ASSUME NEW c \in Cells, Request(c) PROVE P
  <2>1. mem[c] # 0
    BY <1>2 DEF Request, Called, ListIsAllocated
  <2>2. Authenticate => mem[c] \in proven
    BY <1>2, <2>1 DEF Request, Allowed, LoginsAreProven
  <2>. QED BY <1>2, <2>2 DEF Request, table, LoginsAreProven, ServedAfterLogin
<1>3. ASSUME NEW c \in Cells, Login(c) PROVE P
  <2>1. mem' = mem /\ proven' = proven \union {mem[c]} /\ served' = served
    BY <1>3 DEF Login, work
  <2>2. \A d \in Cells : d # c => (loggedIn'[d] <=> loggedIn[d])
    BY <1>3 DEF AgentsTypeOK, Login
  <2>. QED BY <2>1, <2>2 DEF LoginsAreProven, ServedAfterLogin
<1>4. ASSUME NEW c \in Cells, TooLarge(c) PROVE P
  BY <1>4 DEF TooLarge, work, LoginsAreProven, ServedAfterLogin
<1>5. ASSUME NEW c \in Cells, Notice(c) PROVE P
  BY <1>5 DEF Notice, work, LoginsAreProven, ServedAfterLogin
<1>6. CASE DestroyAgent
  <2>1. \A d \in Cells : mem'[d] # 0 => mem'[d] = mem[d]
    BY <1>6 DEF DestroyAgent, AgentsTypeOK
  <2>. QED BY <1>6, <2>1 DEF DestroyAgent, work, LoginsAreProven, ServedAfterLogin
<1>7. ASSUME NEW p \in pending, event_send(p) PROVE P
  BY <1>7 DEF event_send, table, LoginsAreProven, ServedAfterLogin
<1>8. CASE myexit
  <2>1. \A d \in Cells : mem'[d] # 0 => mem'[d] = mem[d]
    BY <1>8 DEF myexit, AgentsTypeOK
  <2>. QED BY <1>8, <2>1 DEF myexit, work, LoginsAreProven, ServedAfterLogin
<1>9. ASSUME NEW n \in Conns, HangUp(n) PROVE P
  BY <1>9 DEF HangUp, table, work, LoginsAreProven, ServedAfterLogin
<1>10. CASE UNCHANGED agentsVars
  BY <1>10 DEF agentsVars, LoginsAreProven, ServedAfterLogin
<1>. QED BY <1>1, <1>2, <1>3, <1>4, <1>5, <1>6, <1>7, <1>8, <1>9, <1>10, AgentsNextCases

(* A cell is freed only when its client has hung up, or the agent exits: a  *)
(* pointer whose client stays keeps its meaning.                            *)
LEMMA NextAskers ==
  /\ AgentsTypeOK /\ ListIsAllocated /\ DyingHasHungUp /\ AskersKeepTheirMemory /\ [AgentsNext]_agentsVars
  => DyingHasHungUp' /\ AskersKeepTheirMemory'
<1> SUFFICES ASSUME AgentsTypeOK, ListIsAllocated, DyingHasHungUp, AskersKeepTheirMemory, [AgentsNext]_agentsVars
             PROVE  DyingHasHungUp' /\ AskersKeepTheirMemory'
  OBVIOUS
<1> DEFINE P == DyingHasHungUp' /\ AskersKeepTheirMemory'
<1>0. \A p \in pending : p.cell \in Cells /\ p.asker # 0
  BY DEF AgentsTypeOK, Requests, Conns
<1>1. ASSUME NEW c \in Cells, Accept(c) PROVE P
  <2>1. mem[c] = 0 /\ \A d \in Cells : d # c => mem'[d] = mem[d]
    BY <1>1 DEF AgentsTypeOK, Accept, new_agent
  <2>2. ~exited /\ dying' = NoCell /\ pending' = pending /\ hungUp' = hungUp
    BY <1>1 DEF Accept, Idle, work
  <2>3. \A p \in pending : p.cell = c => p.asker \in hungUp
    BY <1>0, <2>1, <2>2 DEF AskersKeepTheirMemory
  <2>. QED BY <1>0, <2>1, <2>2, <2>3 DEF DyingHasHungUp, AskersKeepTheirMemory
<1>2. ASSUME NEW c \in Cells, Request(c) PROVE P
  <2> DEFINE r == [no |-> requests + 1, cell |-> c, asker |-> mem[c]]
  <2>1. r.cell = c /\ r.asker = mem[c]
    OBVIOUS
  <2>2. pending' = pending \union {r} /\ mem' = mem /\ hungUp' = hungUp /\ exited' = exited
        /\ dying' = dying
    BY <1>2 DEF Request, table
  <2> HIDE DEF r
  <2>. QED BY <2>1, <2>2 DEF DyingHasHungUp, AskersKeepTheirMemory
<1>3. ASSUME NEW c \in Cells, Login(c) PROVE P
  BY <1>3 DEF Login, work, DyingHasHungUp, AskersKeepTheirMemory
<1>4. ASSUME NEW c \in Cells, TooLarge(c) PROVE P
  BY <1>4 DEF TooLarge, work, DyingHasHungUp, AskersKeepTheirMemory
<1>5. ASSUME NEW c \in Cells, Notice(c) PROVE P
  BY <1>5 DEF Notice, work, DyingHasHungUp, AskersKeepTheirMemory
<1>6. CASE DestroyAgent
  <2>1. dying \in Cells /\ dying' = NoCell /\ mem[dying] \in hungUp /\ ~exited
    BY <1>6 DEF DestroyAgent, AgentsTypeOK, DyingHasHungUp
  <2>2. \A d \in Cells : d # dying => mem'[d] = mem[d]
    BY <1>6 DEF DestroyAgent, AgentsTypeOK
  <2>3. pending' = pending /\ hungUp' = hungUp
    BY <1>6 DEF DestroyAgent, work
  <2>4. \A p \in pending : p.cell = dying => p.asker \in hungUp
    BY <2>1 DEF AskersKeepTheirMemory
  <2>. QED BY <1>0, <2>1, <2>2, <2>3, <2>4 DEF DyingHasHungUp, AskersKeepTheirMemory
<1>7. ASSUME NEW p \in pending, event_send(p) PROVE P
  BY <1>7 DEF event_send, table, DyingHasHungUp, AskersKeepTheirMemory
<1>8. CASE myexit
  BY <1>8 DEF myexit, DyingHasHungUp, AskersKeepTheirMemory
<1>9. ASSUME NEW n \in Conns, HangUp(n) PROVE P
  BY <1>9 DEF HangUp, table, work, DyingHasHungUp, AskersKeepTheirMemory
<1>10. CASE UNCHANGED agentsVars
  BY <1>10 DEF agentsVars, DyingHasHungUp, AskersKeepTheirMemory
<1>. QED BY <1>1, <1>2, <1>3, <1>4, <1>5, <1>6, <1>7, <1>8, <1>9, <1>10, AgentsNextCases

LEMMA NextReplies ==
  AskersKeepTheirMemory /\ RepliesOfTheLiving /\ [AgentsNext]_agentsVars => RepliesOfTheLiving'
<1> SUFFICES ASSUME AskersKeepTheirMemory, RepliesOfTheLiving, [AgentsNext]_agentsVars
             PROVE  RepliesOfTheLiving'
  OBVIOUS
<1> DEFINE Kept == sent' = sent /\ hungUp \subseteq hungUp'
<1>1. ASSUME NEW p \in pending, event_send(p) PROVE RepliesOfTheLiving'
  <2> DEFINE r == [no |-> p.no, to |-> mem[p.cell], asker |-> p.asker]
  <2>1. r.to = mem[p.cell] /\ r.asker = p.asker
    OBVIOUS
  <2>2. sent' \subseteq sent \union {r} /\ hungUp' = hungUp
    BY <1>1 DEF event_send
  <2>3. r.to = r.asker \/ r.asker \in hungUp
    BY <1>1, <2>1 DEF event_send, Idle, AskersKeepTheirMemory
  <2> HIDE DEF r
  <2>. QED BY <2>2, <2>3 DEF RepliesOfTheLiving
<1>2. ASSUME NEW c \in Cells,
             Accept(c) \/ Request(c) \/ Login(c) \/ TooLarge(c) \/ Notice(c)
      PROVE  Kept
  BY <1>2 DEF Accept, Request, Login, TooLarge, Notice, work
<1>3. ASSUME DestroyAgent \/ myexit \/ UNCHANGED agentsVars PROVE Kept
  BY <1>3 DEF DestroyAgent, myexit, agentsVars, work
<1>4. ASSUME NEW n \in Conns, HangUp(n) PROVE Kept
  BY <1>4 DEF HangUp, work
<1>5. Kept => RepliesOfTheLiving'
  BY DEF RepliesOfTheLiving
<1>. QED BY <1>1, <1>2, <1>3, <1>4, <1>5, AgentsNextCases

-----------------------------------------------------------------------------

LEMMA SpecAgentsInv == AgentsSpec => []AgentsInv
<1>1. AgentsInv /\ [AgentsNext]_agentsVars => AgentsInv'
  BY NextAgentsTypeOK, NextListIsAllocated, NextPolledAreListed, NextLogins, NextAskers,
     NextReplies DEF AgentsInv
<1>. QED BY InitAgentsInv, <1>1, PTL DEF AgentsSpec

(* The state keeps its types; in particular nothing is ever written to a    *)
(* freed agent.                                                             *)
THEOREM AgentsTypeCorrect == AgentsSpec => []AgentsTypeOK
<1>1. AgentsInv => AgentsTypeOK
  BY DEF AgentsInv
<1>. QED BY <1>1, SpecAgentsInv, PTL

(* No agent is freed twice, by a second destroy or by event_cleanup() in    *)
(* the signal handler: what is in the list is allocated and is not being    *)
(* destroyed; and only event_cleanup() can use an id that was freed.        *)
THEOREM AgentsListIsAllocated == AgentsSpec => []ListIsAllocated
<1>1. AgentsInv => ListIsAllocated
  BY DEF AgentsInv
<1>. QED BY <1>1, SpecAgentsInv, PTL

(* No descriptor callback is made with freed memory, and an agent in the    *)
(* list has an entry unless it announced too large an event.                *)
THEOREM AgentsPolledAreListed == AgentsSpec => []PolledAreListed
<1>1. AgentsInv => PolledAreListed
  BY DEF AgentsInv
<1>. QED BY <1>1, SpecAgentsInv, PTL

(* With -p no handler runs for a connection that has not logged in, however *)
(* the memory of the agents is used again.                                  *)
THEOREM AgentsServedAfterLogin == AgentsSpec => []ServedAfterLogin
<1>1. AgentsInv => ServedAfterLogin
  BY DEF AgentsInv
<1>. QED BY <1>1, SpecAgentsInv, PTL

(* A reply reaches another client than the one that asked only after that   *)
(* one has hung up.                                                         *)
THEOREM AgentsRepliesOfTheLiving == AgentsSpec => []RepliesOfTheLiving
<1>1. AgentsInv => RepliesOfTheLiving
  BY DEF AgentsInv
<1>. QED BY <1>1, SpecAgentsInv, PTL
=============================================================================
