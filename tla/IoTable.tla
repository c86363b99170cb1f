------------------------------ MODULE IoTable ------------------------------
(***************************************************************************)
(* The descriptor table of the agent (src/io.c): the parallel arrays that  *)
(* poll() works on, and the ids handed to the owners of the entries.       *)
(*                                                                         *)
(* An id is a pointer to a malloc()ed int that holds the entry's index, so *)
(* that removing an entry may move the last one into the hole and keep     *)
(* every id valid (doc/IO.txt).  Indexes start at 1 here, at 0 in the      *)
(* code.  An owner is whoever registers a descriptor: a connection, a      *)
(* listening socket, one direction of a probe.  Callbacks follow the       *)
(* discipline of their callers in src/: inside one, an owner removes only  *)
(* its own entry (event_destroy_agent, recieve_cb); entries of others are  *)
(* removed outside cheops_io_wait, by timers (timeout_cb).                 *)
(*                                                                         *)
(* A definition marked "Wrong:" is the one below it as a plausible bug      *)
(* would have it; no action uses it (README.md, Sensitivity).              *)
(***************************************************************************)
EXTENDS Integers, Sequences

CONSTANTS
  Owners,     (* who may register a descriptor                             *)
  Handles,    (* the addresses malloc() can return for an id               *)
  NoHandle,   (* the NULL id                                               *)
  NoOwner,    (* no callback is running                                    *)
  GrowBy,     (* GROW_SHRINK_SIZE                                          *)
  Wrap,       (* maxfdcnt is unsigned: arithmetic is modulo this           *)
  MaxRoom     (* bound: memory for this many entries                       *)

ASSUME IoAssumption ==
  /\ NoHandle \notin Handles
  /\ NoOwner \notin Owners
  /\ GrowBy \in Nat /\ GrowBy >= 3
  /\ MaxRoom \in Nat
  /\ Wrap \in Nat /\ Wrap > MaxRoom /\ Wrap > GrowBy

VARIABLES
  table,      (* fds[] and ior[], the first fdcnt entries                  *)
  cell,       (* what the int behind each handle holds; 0 when it is free  *)
  held,       (* the id each owner keeps, or NoHandle                      *)
  maxfdcnt,   (* unsigned, starts as -1; the arrays have one entry more    *)
  ready,      (* owners whose descriptor has an event waiting              *)
  x,          (* the loop variable of cheops_io_wait, 0 outside it         *)
  busy,       (* the owner whose callback is running: current_ioc          *)
  removing    (* remove_current_ioc                                        *)

ioVars == <<table, cell, held, maxfdcnt, ready, x, busy, removing>>

IoEntry == [own : Owners, id : Handles, revents : BOOLEAN]

fdcnt == Len(table)
Room  == (maxfdcnt + 1) % Wrap

IoInit ==
  /\ table = <<>>
  /\ cell = [h \in Handles |-> 0]
  /\ held = [o \in Owners |-> NoHandle]
  /\ maxfdcnt = (0 - 1) % Wrap
  /\ ready = {}
  /\ x = 0
  /\ busy = NoOwner
  /\ removing = FALSE

(* Code that may add entries: a callback, or a timer (outside the loop). *)
MayAdd == x = 0 \/ busy # NoOwner

(* Wrong: the comment's test without its boundary. *)
NeedsToGrowLate == fdcnt > maxfdcnt

(* io_grow, as cheops_io_add calls it: "we don't have enough space". *)
NeedsToGrow == fdcnt < maxfdcnt

io_grow ==
  IF NeedsToGrow
  THEN /\ Room + GrowBy <= MaxRoom
       /\ maxfdcnt' = (maxfdcnt + GrowBy) % Wrap
  ELSE UNCHANGED maxfdcnt

(* cheops_io_add, when memory allows; it returns NULL and changes nothing   *)
(* that matters when not.                                                   *)
cheops_io_add(o, h) ==
  /\ MayAdd
  /\ held[o] = NoHandle /\ o # busy
  /\ cell[h] = 0
  /\ io_grow
  /\ table' = Append(table, [own |-> o, id |-> h, revents |-> FALSE])
  /\ cell' = [cell EXCEPT ![h] = fdcnt + 1]
  /\ held' = [held EXCEPT ![o] = h]
  /\ UNCHANGED <<ready, x, busy, removing>>

(* Wrong: the int of the moved entry keeps the old index. *)
io_shrinkStale(k) ==
  /\ table' = [i \in 1..(fdcnt - 1) |-> IF i = k THEN table[fdcnt] ELSE table[i]]
  /\ cell' = [h \in Handles |-> IF h = table[k].id THEN 0 ELSE cell[h]]

(* io_shrink: the last entry moves into the hole, and its int follows it. *)
io_shrink(k) ==
  /\ table' = [i \in 1..(fdcnt - 1) |-> IF i = k THEN table[fdcnt] ELSE table[i]]
  /\ cell' = [h \in Handles |-> IF h = table[k].id THEN 0
                                ELSE IF h = table[fdcnt].id THEN k
                                ELSE cell[h]]

(* cheops_io_remove from outside the loop: current_ioc is -1. *)
RemoveEntry(o) ==
  /\ x = 0
  /\ held[o] # NoHandle
  /\ cell[held[o]] \in 1..fdcnt
  /\ io_shrink(cell[held[o]])
  /\ held' = [held EXCEPT ![o] = NoHandle]
  /\ UNCHANGED <<maxfdcnt, ready, x, busy, removing>>

(* cheops_io_remove by the running callback of its own entry: only a note. *)
RemoveSelf ==
  /\ busy # NoOwner
  /\ held[busy] # NoHandle
  /\ removing' = TRUE
  /\ held' = [held EXCEPT ![busy] = NoHandle]
  /\ UNCHANGED <<table, cell, maxfdcnt, ready, x, busy>>

(* poll() returned with at least one descriptor ready. *)
Poll ==
  /\ x = 0
  /\ \E i \in 1..fdcnt : table[i].own \in ready
  /\ table' = [i \in 1..fdcnt |-> [table[i] EXCEPT !.revents = table[i].own \in ready]]
  /\ x' = 1
  /\ UNCHANGED <<cell, held, maxfdcnt, ready, busy, removing>>

(* The loop of cheops_io_wait reaches an entry with an event: its callback. *)
CallOwner ==
  /\ x \in 1..fdcnt /\ busy = NoOwner
  /\ table[x].revents
  /\ busy' = table[x].own
  /\ removing' = FALSE
  /\ UNCHANGED <<table, cell, held, maxfdcnt, ready, x>>

SkipEntry ==
  /\ x \in 1..fdcnt /\ busy = NoOwner
  /\ ~table[x].revents
  /\ x' = x + 1
  /\ UNCHANGED <<table, cell, held, maxfdcnt, ready, busy, removing>>

(* Wrong: the loop may end before the last entry. *)
ScanDoneEarly ==
  /\ x >= fdcnt /\ busy = NoOwner
  /\ x' = 0
  /\ UNCHANGED <<table, cell, held, maxfdcnt, ready, busy, removing>>

ScanDone ==
  /\ x > fdcnt /\ busy = NoOwner
  /\ x' = 0
  /\ UNCHANGED <<table, cell, held, maxfdcnt, ready, busy, removing>>

(* Wrong: a callback that removed itself and returns 1 keeps its entry. *)
ReturnIgnoringNote(keep, more) ==
  /\ busy # NoOwner
  /\ IF keep
     THEN UNCHANGED <<table, cell, held>>
     ELSE /\ io_shrink(x)
          /\ held' = [held EXCEPT ![busy] = NoHandle]
  /\ ready' = IF more THEN ready ELSE ready \ {busy}
  /\ x' = x + 1
  /\ busy' = NoOwner
  /\ removing' = FALSE
  /\ UNCHANGED maxfdcnt

(* The callback returns; it may have left more to read.  With 0, or after   *)
(* removing itself, the entry goes; the entry moved into its place is not   *)
(* looked at in this pass.                                                  *)
Return(keep, more) ==
  /\ busy # NoOwner
  /\ IF keep /\ ~removing
     THEN UNCHANGED <<table, cell, held>>
     ELSE /\ io_shrink(x)
          /\ held' = [held EXCEPT ![busy] = NoHandle]
  /\ ready' = IF more THEN ready ELSE ready \ {busy}
  /\ x' = x + 1
  /\ busy' = NoOwner
  /\ removing' = FALSE
  /\ UNCHANGED maxfdcnt

(* Data arrives for an owner (or its peer hangs up). *)
BecomeReady(o) ==
  /\ ready' = ready \union {o}
  /\ UNCHANGED <<table, cell, held, maxfdcnt, x, busy, removing>>

IoNext ==
  \/ \E o \in Owners, h \in Handles : cheops_io_add(o, h)
  \/ \E o \in Owners : RemoveEntry(o)
  \/ RemoveSelf
  \/ Poll
  \/ CallOwner
  \/ SkipEntry
  \/ ScanDone
  \/ \E keep, more \in BOOLEAN : Return(keep, more)
  \/ \E o \in Owners : BecomeReady(o)

IoSpec == IoInit /\ [][IoNext]_ioVars

(* The main loop calls poll() again and again, the for loop advances, and a *)
(* callback returns.                                                        *)
IoFairness ==
  /\ WF_ioVars(Poll)
  /\ WF_ioVars(CallOwner)
  /\ WF_ioVars(SkipEntry)
  /\ WF_ioVars(ScanDone)
  /\ WF_ioVars(\E keep, more \in BOOLEAN : Return(keep, more))

FairIoSpec == IoSpec /\ IoFairness

-----------------------------------------------------------------------------
(* Properties. *)

(* The state keeps the types of src/io.c's variables. *)
IoTypeOK ==
  /\ table \in Seq(IoEntry)
  /\ cell \in [Handles -> Nat]
  /\ held \in [Owners -> Handles \union {NoHandle}]
  /\ maxfdcnt \in 0..(Wrap - 1)
  /\ ready \subseteq Owners
  /\ x \in Nat
  /\ busy \in Owners \union {NoOwner}
  /\ removing \in BOOLEAN

Owned(o) == \E i \in 1..fdcnt : table[i].own = o

(* The double indirection works: however entries were added, removed and    *)
(* moved, an id leads to the entry of the owner that holds it, so removing  *)
(* by id never removes the entry of someone else (doc/IO.txt).              *)
IdsLeadHome ==
  \A o \in Owners : held[o] # NoHandle =>
    /\ cell[held[o]] \in 1..fdcnt
    /\ table[cell[held[o]]].own = o
    /\ table[cell[held[o]]].id = held[o]

(* Nobody is called back after having given its id away: every entry is one *)
(* that its owner still holds, or the running one that removed itself; no   *)
(* entry is lost or doubled.                                                *)
EntriesAreHeld ==
  /\ \A i \in 1..fdcnt :
       \/ held[table[i].own] = table[i].id
       \/ i = x /\ busy = table[i].own /\ removing
  /\ \A i, j \in 1..fdcnt : i # j => table[i].own # table[j].own /\ table[i].id # table[j].id

(* The slot that cheops_io_wait will shrink after the callback is still the *)
(* slot of the callback that ran, whatever the callback added.              *)
CurrentSlotStays ==
  busy # NoOwner => x \in 1..fdcnt /\ table[x].own = busy

(* The arrays have room for every entry, although the test in cheops_io_add *)
(* is the inverse of its comment (io.c:112).                                *)
ArraysLargeEnough == fdcnt <= Room

(* Every owner with a waiting event is called back, or its entry goes; that *)
(* removals make the loop skip the entry they moved only delays it.         *)
EveryEventServed ==
  \A o \in Owners : o \in ready /\ Owned(o) ~> busy = o \/ ~Owned(o)

=============================================================================
