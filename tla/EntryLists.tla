------------------------------ MODULE EntryLists ------------------------------
(* The three lists the user of the GUI edits: the commands of services       *)
(* (src/gui-service.c), the pixmaps of operating systems (src/gui-pixmap.c)  *)
(* and the scripts of the host menu (src/script.c).  An entry is a structure *)
(* with a key (port and protocol; a string; a name) and a value (the command *)
(* or the file).  The structures are Cells; h.list is the linked list, h.at  *)
(* the memory: an entry, Free, or Dead, a script that was taken out of its   *)
(* list: its strings are freed, the structure is never freed.                *)
(*                                                                           *)
(* A definition marked "Wrong:" is the one below it as a plausible bug would *)
(* have it; no action uses it (README.md, Sensitivity).                      *)
EXTENDS Naturals, Sequences, SequencesExt

CONSTANTS
  Cells,       (* the addresses malloc returns                              *)
  Free,        (* what a cell that is not in use holds                      *)
  Dead,        (* what the structure of a removed script holds              *)
  NULL         (* no structure                                              *)

Kinds == {"services", "pixmaps", "scripts"}

(* The protocols of services: those of cheops-osscan.h, and the numbers of   *)
(* IP, which the settings dialog and old files use.                          *)
TCP     == 1
UDP     == 2
IpTCP   == 6
IpUDP   == 17

EmptyList == [list |-> <<>>, at |-> [c \in Cells |-> Free]]

Listed(h)     == ToSet(h.list)
Unused(h)     == {c \in Cells : h.at[c] = Free}
Usable(h, c)  == c \in Cells /\ h.at[c] \notin {Free, Dead}
Holders(h, k) == {c \in Listed(h) : h.at[c].key = k}
Entries(h)    == [i \in DOMAIN h.list |-> h.at[h.list[i]]]

(* The first entry with key k, which the searches find.                      *)
FirstHolder(h, k) ==
  h.list[CHOOSE i \in DOMAIN h.list :
           /\ h.at[h.list[i]].key = k
           /\ \A j \in 1..(i - 1) : h.at[h.list[j]].key # k]

PlaceOf(h, c) == CHOOSE i \in DOMAIN h.list : h.list[i] = c

Unlink(h, c, left) ==
  [list |-> RemoveAt(h.list, PlaceOf(h, c)), at |-> [h.at EXCEPT ![c] = left]]

(* A dead structure no row shows is as good as one never used.               *)
Forget(h, shown) ==
  [h EXCEPT !.at = [c \in Cells |-> IF h.at[c] = Dead /\ c \notin shown THEN Free ELSE h.at[c]]]

-----------------------------------------------------------------------------
(* Services and pixmaps: new entries go to the front; c is what malloc       *)
(* returns if the key is new.                                                *)

Put(h, k, v, c) ==
  IF Holders(h, k) # {}
  THEN LET old == FirstHolder(h, k)
       IN  [h |-> [h EXCEPT !.at[old].val = v], ret |-> old]
  ELSE [h   |-> [list |-> <<c>> \o h.list, at |-> [h.at EXCEPT ![c] = [key |-> k, val |-> v]]],
        ret |-> c]

AsEnum(k) ==
  [k EXCEPT ![2] = CASE @ = IpTCP -> TCP [] @ = IpUDP -> UDP [] OTHER -> @]

service_list_add(h, k, v, c)   == Put(h, AsEnum(k), v, c)
os_pixmap_list_add(h, k, v, c) == Put(h, k, v, c)

service_list_remove_ptr(h, c)   == IF c \in Listed(h) THEN Unlink(h, c, Free) ELSE h
os_pixmap_list_remove_ptr(h, c) == IF c \in Listed(h) THEN Unlink(h, c, Free) ELSE h

(* Wrong: another entry with the new key is not looked for. *)
ChangeUnchecked(h, c, k, v) ==
  [h |-> [h EXCEPT !.at[c] = [key |-> k, val |-> v]], ret |-> c]

(* An entry whose new key another one has is removed.                        *)
Change(h, c, k, v) ==
  CASE c \notin Listed(h)          -> [h |-> h, ret |-> NULL]
    [] Holders(h, k) \ {c} # {}    -> [h |-> Unlink(h, c, Free), ret |-> NULL]
    [] OTHER -> [h |-> [h EXCEPT !.at[c] = [key |-> k, val |-> v]], ret |-> c]

(* The key is stored as it comes, the protocol with the number of IP.        *)
service_list_change(h, c, k, v)   == Change(h, c, k, v)
os_pixmap_list_change(h, c, k, v) == Change(h, c, k, v)

-----------------------------------------------------------------------------
(* Scripts: g_list_append puts new entries at the end.                       *)

script_remove_ptr(h, c) == IF c \in Listed(h) THEN Unlink(h, c, Dead) ELSE h

script_add(h, k, v, c) ==
  LET g == IF Holders(h, k) = {} THEN h ELSE script_remove_ptr(h, FirstHolder(h, k))
  IN  [h   |-> [list |-> Append(g.list, c), at |-> [g.at EXCEPT ![c] = [key |-> k, val |-> v]]],
       ret |-> c]

script_change(h, s, k, v, c) ==
  IF s \in Listed(h) THEN script_add(script_remove_ptr(h, s), k, v, c)
  ELSE [h |-> h, ret |-> NULL]

-----------------------------------------------------------------------------
(* Whichever list it is. *)

add(kind, h, k, v, c) ==
  CASE kind = "services" -> service_list_add(h, k, v, c)
    [] kind = "pixmaps"  -> os_pixmap_list_add(h, k, v, c)
    [] kind = "scripts"  -> script_add(h, k, v, c)

change(kind, h, s, k, v, c) ==
  CASE kind = "services" -> service_list_change(h, s, k, v)
    [] kind = "pixmaps"  -> os_pixmap_list_change(h, s, k, v)
    [] kind = "scripts"  -> script_change(h, s, k, v, c)

remove_ptr(kind, h, c) ==
  CASE kind = "services" -> service_list_remove_ptr(h, c)
    [] kind = "pixmaps"  -> os_pixmap_list_remove_ptr(h, c)
    [] kind = "scripts"  -> script_remove_ptr(h, c)

(* The lines of a table added one after the other, to h; no row shows them.  *)
AddLine(kind, h, e) ==
  Forget(add(kind, h, e.key, e.val, CHOOSE c \in Unused(h) : TRUE).h, {})

AddAll(kind, h, lines) ==
  LET after[i \in 0..Len(lines)] ==
        IF i = 0 THEN h ELSE AddLine(kind, after[i - 1], lines[i])
  IN  after[Len(lines)]

service_list_default(lines)   == AddAll("services", EmptyList, lines)
os_pixmap_list_default(lines) == AddAll("pixmaps", EmptyList, lines)
script_default(lines)         == AddAll("scripts", EmptyList, lines)

(* The list is emptied and the built-in entries are added.                   *)
Default(kind, lines) ==
  CASE kind = "services" -> service_list_default(lines)
    [] kind = "pixmaps"  -> os_pixmap_list_default(lines)
    [] kind = "scripts"  -> script_default(lines)
=============================================================================
