--------------------------------- MODULE Tables -------------------------------
(* What the lists of EntryLists promise the user: a table from keys to       *)
(* values and a file that keeps it.  Settings implements it.                 *)
CONSTANTS
  Keys(_),       (* the keys of each kind of table                           *)
  Vals, None,
  Builtin(_),    (* the entries every table of a kind starts with            *)
  Stored(_, _)   (* the key an entry is added or read under                  *)

VARIABLES
  kind,          (* which table this is                                      *)
  table,         (* what it holds: a value or None for each key              *)
  file           (* the table as it was last saved                           *)

Contents(k) == [Keys(k) -> Vals \union {None}]
Empty(k)    == [key \in Keys(k) |-> None]

TypeOK == table \in Contents(kind) /\ file \in Contents(kind)

Init == table = Builtin(kind) /\ file = Empty(kind)

(* What a lookup finds: a table that is empty is built in again.             *)
Filled == IF table = Empty(kind) THEN Builtin(kind) ELSE table

Add(key, v) ==
  /\ table' = [table EXCEPT ![Stored(kind, key)] = v]
  /\ UNCHANGED <<kind, file>>

(* An entry that gets the key of another is lost; a script replaces it.      *)
Edit(old, key, v) ==
  /\ table[old] # None
  /\ table' = [table EXCEPT ![old] = None,
                            ![key] = IF key # old /\ @ # None /\ kind # "scripts" THEN @ ELSE v]
  /\ UNCHANGED <<kind, file>>

Remove(key) ==
  /\ table' = [table EXCEPT ![key] = None]
  /\ UNCHANGED <<kind, file>>

(* A lookup that finds nothing may add the entry it was for.                 *)
Lookup ==
  /\ \/ table' = Filled
     \/ \E key \in Keys(kind), v \in Vals :
          table' = [Filled EXCEPT ![Stored(kind, key)] = v]
  /\ UNCHANGED <<kind, file>>

Save == file' = table /\ UNCHANGED <<kind, table>>

(* What is read is what was saved; of two lines that are stored under one    *)
(* key either may win; a key without a line keeps its built-in value.        *)
Load ==
  /\ table' \in Contents(kind)
  /\ \A key \in Keys(kind) :
       LET lines == {k \in Keys(kind) : file[k] # None /\ Stored(kind, k) = key}
       IN  IF lines = {} THEN table'[key] = Builtin(kind)[key]
           ELSE \E k \in lines : table'[key] = file[k]
  /\ UNCHANGED <<kind, file>>

Next ==
  \/ \E key \in Keys(kind), v \in Vals : Add(key, v)
  \/ \E old, key \in Keys(kind), v \in Vals : Edit(old, key, v)
  \/ \E key \in Keys(kind) : Remove(key)
  \/ Lookup
  \/ Save
  \/ Load

Spec == Init /\ [][Next]_<<kind, table, file>>
=============================================================================
