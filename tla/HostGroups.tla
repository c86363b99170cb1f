----------------------------- MODULE HostGroups -----------------------------
(***************************************************************************)
(* What a page of the GUI shows, without its pointers: hosts, each in a     *)
(* group that is shown as one of its members, and links between hosts.      *)
(* Canvas implements it.                                                    *)
(***************************************************************************)
CONSTANT Hosts

VARIABLES
  head,    (* for each host on the page the member its group is shown as   *)
  edges    (* the pairs of hosts that are linked                           *)

vars == <<head, edges>>

OnPage   == DOMAIN head
Shown    == {x \in OnPage : head[x] = x}
Group(x) == {y \in OnPage : head[y] = head[x]}

Init == head = [x \in {} |-> x] /\ edges = {}

Add(x) ==
  /\ x \notin OnPage
  /\ head' = [y \in OnPage \union {x} |-> IF y = x THEN x ELSE head[y]]
  /\ UNCHANGED edges

Link(x, y) ==
  /\ x # y
  /\ edges' = edges \union {{x, y}}
  /\ UNCHANGED head

Unlink == edges' = {} /\ UNCHANGED head

(* The groups of S are joined and shown as p. *)
Join(p, S) ==
  /\ head' = [x \in OnPage |-> IF head[x] \in S THEN p ELSE head[x]]
  /\ UNCHANGED edges

(* The members of S leave their groups. *)
Split(S) ==
  /\ head' = [x \in OnPage |-> IF x \in S THEN x ELSE head[x]]
  /\ UNCHANGED edges

Choose(x) ==
  /\ head' = [y \in OnPage |-> IF y \in Group(x) THEN x ELSE head[y]]
  /\ UNCHANGED edges

(* S is deleted; a group that loses its head falls apart. *)
Delete(S) ==
  /\ head' = [x \in OnPage \ S |-> IF head[x] \in S THEN x ELSE head[x]]
  /\ edges' = {e \in edges : e \intersect S = {}}

(* The page is saved and loaded: of a group two members stay together.      *)
Reload ==
  \E S \in SUBSET (OnPage \ Shown) :
    /\ \A x \in Shown : Group(x) = {x} \/ \E y \in Group(x) : Group(x) \ S = {x, y} /\ x # y
    /\ Split(S)

Clear == head' = [x \in {} |-> x] /\ edges' = {}

Next ==
  \/ \E x \in Hosts : Add(x)
  \/ \E x, y \in OnPage : Link(x, y)
  \/ Unlink
  \/ \E p \in Shown, S \in SUBSET Shown : p \in S /\ Join(p, S)
  \/ \E p \in Shown : Split(Group(p))
  \/ \E x \in OnPage \ Shown : Split({x})
  \/ \E x \in OnPage : Choose(x)
  \/ \E S \in SUBSET OnPage : Delete(S)
  \/ Reload
  \/ Clear

Spec == Init /\ [][Next]_vars
=============================================================================
