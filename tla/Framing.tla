------------------------------ MODULE Framing ------------------------------
(***************************************************************************)
(* How the events of one connection are cut out of its byte stream         *)
(* (handle_agent in src/event.c): read what the buffer can take, find the  *)
(* length in the first bytes, hand every whole event to its handler and    *)
(* move the rest to the front of the buffer.                               *)
(*                                                                         *)
(* Bytes are stream offsets: event i ends where ends[i] says and starts    *)
(* where event i-1 ends; buffer[0] holds the byte of the stream at offset  *)
(* base.  The peer is this code's own event_send, so every event is at     *)
(* least a header long.  memcpy on the overlapping rest of the buffer is   *)
(* taken to copy it intact, as the C library of the build does.            *)
(*                                                                         *)
(* A definition marked "Wrong:" is the one below it as a plausible bug      *)
(* would have it; no action uses it (README.md, Sensitivity).              *)
(***************************************************************************)
EXTENDS Integers, Sequences

CONSTANTS
  LenBytes,   (* sizeof(h->len)                                            *)
  BufSize,    (* AGENT_RECV_BUFFER_LENGTH = sizeof(a->buffer)              *)
  MsgLens,    (* the lengths of events that peers send                     *)
  Wrap,       (* sizeof yields a size_t: arithmetic is modulo this         *)
  MaxMsgs     (* bound: events sent on the connection                      *)

ASSUME FramingAssumption ==
  /\ LenBytes \in Nat \ {0}
  /\ BufSize \in Nat /\ BufSize > LenBytes
  /\ MsgLens \subseteq {l \in Nat : l > LenBytes}
  /\ Wrap \in Nat /\ Wrap > BufSize + BufSize
  /\ MaxMsgs \in Nat

VARIABLES
  ends,       (* where each event sent so far ends in the stream           *)
  closed,     (* the peer has closed its side                              *)
  base,       (* the offset of buffer[0]                                   *)
  wp,         (* write_ptr - buffer                                        *)
  expected,   (* expected_length                                           *)
  handled,    (* history: how many events were taken out of the buffer     *)
  split,      (* history: the handler returned holding the length and only *)
              (* a part of the event at the front                          *)
  pc          (* "poll", "check" (the test at the end), or how it ended    *)

vars == <<ends, closed, base, wp, expected, handled, split, pc>>

Over == {"removed", "destroyed", "exited"}

Start(i) == IF i = 1 THEN 0 ELSE ends[i - 1]
Sent     == Start(Len(ends) + 1)
Received == base + wp
Space    == BufSize - wp

Init ==
  /\ ends = <<>>
  /\ closed = FALSE
  /\ base = 0 /\ wp = 0
  /\ expected = -1
  /\ handled = 0
  /\ split = FALSE
  /\ pc = "poll"

-----------------------------------------------------------------------------
(* The peer. *)

(* event_send at the other end: a whole event enters the stream. *)
Send(len) ==
  /\ ~closed
  /\ Len(ends) < MaxMsgs
  /\ ends' = Append(ends, Sent + len)
  /\ UNCHANGED <<closed, base, wp, expected, handled, split, pc>>

(* The peer closes, or the connection breaks. *)
Close ==
  /\ ~closed
  /\ closed' = TRUE
  /\ UNCHANGED <<ends, base, wp, expected, handled, split, pc>>

-----------------------------------------------------------------------------
(* handle_agent. *)

(* h->len when n bytes are there from offset b on: the length of the event  *)
(* that starts at b, or any value when its bytes are not all there or b is  *)
(* no start of an event.                                                    *)
Length(b, n) ==
  IF n >= LenBytes /\ \E i \in 1..Len(ends) : Start(i) = b
  THEN {ends[i] - b : i \in {j \in 1..Len(ends) : Start(j) = b}}
  ELSE 0..(BufSize + 1)

(* Wrong: one byte too early. *)
KnowsLengthEarly(held, n) == ~(n + 1 < (LenBytes - held) % Wrap)

(* The test that decides whether the length is known, after n more bytes    *)
(* behind the held ones: the subtraction is one of size_t.                  *)
KnowsLength(held, n) == ~(n < (LenBytes - held) % Wrap)

(* Set expected_length and advance write_ptr; an event that is too large    *)
(* makes handle_agent return 0 at once, and cheops_io_wait drops the        *)
(* descriptor: expected_length stays the old one.                           *)
Advance(known, b, held, n, old) ==
  \/ /\ ~known
     /\ expected' = 0 /\ wp' = held + n /\ pc' = "check"
  \/ /\ known
     /\ \E len \in Length(b, held + n) :
          \/ len > BufSize /\ expected' = old /\ wp' = held /\ pc' = "removed"
          \/ len <= BufSize /\ expected' = len /\ wp' = held + n /\ pc' = "check"

(* The first read of the connection: expected_length is -1. *)
ReadFirst(n) ==
  /\ pc = "poll" /\ expected = -1
  /\ n <= Space /\ n <= Sent - Received
  /\ Advance(n >= LenBytes, base, wp, n, expected)
  /\ UNCHANGED <<ends, closed, base, handled, split>>

(* Every later read. *)
ReadMore(n) ==
  /\ pc = "poll" /\ expected # -1
  /\ n <= Space /\ n <= Sent - Received
  /\ Advance(KnowsLength(wp, n), base, wp, n, expected)
  /\ UNCHANGED <<ends, closed, base, handled, split>>

HaveEvent == wp >= expected /\ expected > 0

(* Wrong: without "goto again". *)
DispatchOneEvent ==
  /\ pc = "check" /\ HaveEvent
  /\ handled' = handled + 1
  /\ base' = base + expected
  /\ expected' = 0 /\ wp' = wp - expected /\ pc' = "poll"
  /\ UNCHANGED <<ends, closed, split>>

(* A whole event is at the front: its handler runs, the rest of the buffer  *)
(* moves over it, and "goto again" looks at the rest.                       *)
Dispatch ==
  /\ pc = "check" /\ HaveEvent
  /\ handled' = handled + 1
  /\ base' = base + expected
  /\ Advance(KnowsLength(0, wp - expected), base + expected, 0, wp - expected, 0)
  /\ UNCHANGED <<ends, closed, split>>

FrontIsWhole == handled < Len(ends) /\ Received >= ends[handled + 1]

HoldsPart == wp > LenBytes /\ ~FrontIsWhole

(* "Keep running": back to poll(). *)
Return ==
  /\ pc = "check" /\ ~HaveEvent
  /\ pc' = "poll"
  /\ split' = (split \/ HoldsPart)
  /\ UNCHANGED <<ends, closed, base, wp, expected, handled>>

(* read() has no room to read into: exit(1). *)
BufferFull ==
  /\ pc = "poll" /\ Space = 0
  /\ Received < Sent \/ closed
  /\ pc' = "exited"
  /\ UNCHANGED <<ends, closed, base, wp, expected, handled, split>>

(* End of the stream, a read error, or POLLHUP, which is looked at before   *)
(* the data: event_destroy_agent.                                           *)
Destroy ==
  /\ pc = "poll" /\ closed
  /\ pc' = "destroyed"
  /\ UNCHANGED <<ends, closed, base, wp, expected, handled, split>>

Read == \E n \in 1..BufSize : ReadFirst(n) \/ ReadMore(n)

Next ==
  \/ \E len \in MsgLens : Send(len)
  \/ Close
  \/ \E n \in 1..BufSize : ReadFirst(n)
  \/ \E n \in 1..BufSize : ReadMore(n)
  \/ Dispatch
  \/ Return
  \/ BufferFull
  \/ Destroy

Spec == Init /\ [][Next]_vars

(* Data that has arrived makes poll() return, and the handler runs to its   *)
(* end.  Nobody has to send, to close, or to notice a close in time.        *)
Fairness ==
  /\ WF_vars(Read)
  /\ WF_vars(Dispatch)
  /\ WF_vars(Return)

FairSpec == Spec /\ Fairness

-----------------------------------------------------------------------------
(* Properties. *)

(* The state keeps its types; write_ptr stays inside the buffer. *)
TypeOK ==
  /\ ends \in Seq(Nat)
  /\ closed \in BOOLEAN
  /\ base \in Nat
  /\ wp \in 0..BufSize
  /\ expected \in -1..BufSize
  /\ handled \in 0..Len(ends)
  /\ split \in BOOLEAN
  /\ pc \in {"poll", "check"} \union Over

(* However the stream is cut into reads, events come out of the buffer once *)
(* each and in the order they were sent: its front is always the start of   *)
(* the next event, and a positive expected_length is that event's length    *)
(* (also when reads split the length itself or join several events).        *)
InStep ==
  /\ base = Start(handled + 1)
  /\ Received <= Sent
  /\ expected > 0 => handled < Len(ends) /\ expected = ends[handled + 1] - base

(* handle_agent hands out every whole event before it returns to poll(),    *)
(* unless an earlier call returned in the middle of an event: it then held  *)
(* more than the length, the subtraction of event.c:366 wraps around, and   *)
(* the length of that event is never looked at again.                       *)
HandsOutWholeEvents == pc = "poll" /\ FrontIsWhole => split

(* A descriptor is dropped as "event too large" only for an event that does *)
(* not fit the buffer: one of exactly its size is handled.                  *)
RefusesOnlyTooLarge ==
  pc = "removed" => handled < Len(ends) /\ ends[handled + 1] - base > BufSize

(* exit(1) on a full buffer never hits a connection whose events all came   *)
(* in whole, or were only split inside their length.                        *)
ExitOnlyAfterSplit == pc = "exited" => split

(* An event that was sent is handled, unless the connection is stalled in   *)
(* that way or is over.                                                     *)
EveryEventHandled ==
  \A i \in 1..MaxMsgs :
    Len(ends) >= i ~> handled >= i \/ split \/ pc \in Over

=============================================================================
