------------------------------- MODULE Canvas -------------------------------
(***************************************************************************)
(* The objects of a page (src/gui-canvas.c, src/gui-viewspace.c): hosts     *)
(* that are merged into one and taken apart again, the links between them,  *)
(* and the file that they are saved in (src/gui-config.c).                  *)
(*                                                                         *)
(* A group of merged hosts is a chain of pointers from its primary, which   *)
(* alone is shown and holds the links of all.  A link knows the two hosts   *)
(* it joins and, where they are merged, the primaries that it is drawn to;  *)
(* one within a group is in the list of the primary twice.                  *)
(*                                                                         *)
(* An object is named by its host (PagesHoldHosts of Requests), so memory   *)
(* that was freed is an object that is not on the page.  An operation that  *)
(* touches freed memory, or leaves a pointer to it behind, changes nothing  *)
(* here but the history variable broken: nothing is claimed of what comes   *)
(* after it.  Positions, widgets and drawing are left out.                  *)
(*                                                                         *)
(* A definition marked "Wrong:" is the one below it as a plausible bug      *)
(* would have it; no action uses it (README.md, Sensitivity).              *)
(***************************************************************************)
EXTENDS Integers, Sequences, SequencesExt

CONSTANTS
  Objects,   (* the hosts                                                  *)
  Links,     (* memory for page_object_link                                *)
  NULL,
  MaxEdits   (* bound: operations of the user                              *)

VARIABLES
  np,           (* the page and what its pointers lead to                  *)
  plink,        (* the objects of np->plink                                *)
  highlighted,  (* those with PAGE_OBJECT_HIGHLIGHT                        *)
  broken,       (* history: the operation that touched freed memory        *)
  edits         (* bound: the number of operations so far                  *)

vars == <<np, plink, highlighted, broken, edits>>

(* page_objects is the list of the page, newest first; touched says whether *)
(* memory was used that had been freed.                                     *)
EmptyPage ==
  [page_objects |-> <<>>, merge |-> [o \in Objects |-> NULL],
   merge_primary |-> [o \in Objects |-> NULL], links |-> [o \in Objects |-> <<>>],
   pol |-> [l \in Links |-> NULL], touched |-> FALSE]

OnPage(h)       == {h.page_objects[i] : i \in 1..Len(h.page_objects)}
Allocated(h)    == {l \in Links : h.pol[l] # NULL}
Use(h, S)       == [h EXCEPT !.touched = @ \/ ~(S \subseteq OnPage(h))]
IsPrimary(h, o) == h.merge_primary[o] = o
IsShown(h, o)   == h.merge_primary[o] \in {NULL, o}
ShownAs(h, o)   == IF h.merge_primary[o] = NULL THEN o ELSE h.merge_primary[o]

Init ==
  /\ np = EmptyPage
  /\ plink = {} /\ highlighted = {}
  /\ broken = "no"
  /\ edits = 0

-----------------------------------------------------------------------------
(* Links *)

(* The objects a link is drawn between, and those it joins. *)
End1(l)  == IF l.merge1 # NULL THEN l.merge1 ELSE l.po1
End2(l)  == IF l.merge2 # NULL THEN l.merge2 ELSE l.po2
Joins(l) == {l.po1, l.po2}

(* Wrong: taken out of one list only. *)
page_object_link_destroyHalf(h, l, po) ==
  IF h.pol[l] = NULL THEN [h EXCEPT !.touched = TRUE]
  ELSE LET e == End1(h.pol[l])
       IN  [Use(h, {e}) EXCEPT !.links[e] = IF e = po THEN @ ELSE RemoveFirst(@, l), !.pol[l] = NULL]

(* The link leaves the lists of its ends but that of po. *)
page_object_link_destroy(h, l, po) ==
  IF h.pol[l] = NULL THEN [h EXCEPT !.touched = TRUE]
  ELSE LET g == FoldLeft(LAMBDA g, e : IF e = po THEN g ELSE [g EXCEPT !.links[e] = RemoveFirst(@, l)],
                         Use(h, {End1(h.pol[l]), End2(h.pol[l])} \ {po}),
                         <<End1(h.pol[l]), End2(h.pol[l])>>)
       IN  [g EXCEPT !.pol[l] = NULL]

DestroyLinks(h, po) ==
  LET g == FoldLeft(LAMBDA g, l : page_object_link_destroy(g, l, po), h, h.links[po])
  IN  [g EXCEPT !.links[po] = <<>>]

(* Found in the list of the primary of either. *)
page_object_link_get(h, a, b) ==
  SelectSeq(h.links[ShownAs(h, a)] \o h.links[ShownAs(h, b)],
            LAMBDA l : h.pol[l] # NULL /\ Joins(h.pol[l]) = {a, b})

DestroyLinkBetween(h, a, b) ==
  LET found == page_object_link_get(h, a, b)
  IN  IF found = <<>> THEN h ELSE page_object_link_destroy(h, found[1], NULL)

(* A link that is there is replaced; the second call finds none. *)
net_page_map_page_objects(h, a, b) ==
  LET g  == DestroyLinkBetween(DestroyLinkBetween(h, a, b), a, b)
      l  == CHOOSE l \in Links : g.pol[l] = NULL
      g1 == [g EXCEPT !.links[ShownAs(g, a)] = Append(@, l)]
      g2 == [g1 EXCEPT !.links[ShownAs(g, b)] = Append(@, l)]
  IN  IF a = b THEN h
      ELSE [Use(g2, {ShownAs(g, a), ShownAs(g, b)}) EXCEPT
              !.pol[l] = [po1 |-> a, po2 |-> b, merge1 |-> g.merge_primary[a],
                          merge2 |-> g.merge_primary[b]]]

-----------------------------------------------------------------------------
(* Groups *)

(* The members behind p in its chain. *)
Chain(h, p) ==
  LET N == Len(h.page_objects) + 1
      at[n \in 1..N] == IF n = 1 THEN h.merge[p]
                        ELSE IF at[n - 1] = NULL THEN NULL ELSE h.merge[at[n - 1]]
  IN  SelectSeq([n \in 1..N |-> at[n]], LAMBDA o : o # NULL)

ChainSet(h, p) == {Chain(h, p)[i] : i \in 1..Len(Chain(h, p))}

(* p gives back to po the links of po that it holds. *)
HandBack(h, p, po) ==
  LET back == SelectSeq(h.links[p], LAMBDA l : po \in Joins(h.pol[l]) /\ ~Contains(h.links[po], l))
  IN  FoldLeft(LAMBDA g, l :
                 IF Contains(g.links[po], l) THEN g
                 ELSE [g EXCEPT !.links[p] = RemoveFirst(@, l), !.links[po] = Append(@, l),
                                !.pol[l].merge1 = IF g.pol[l].po1 = po THEN NULL ELSE @,
                                !.pol[l].merge2 = IF g.pol[l].po2 = po THEN NULL ELSE @],
               h, back)

UnmergePrimary(h, p) ==
  LET g == FoldLeft(LAMBDA g, po :
                      HandBack([g EXCEPT !.merge[po] = NULL, !.merge_primary[po] = NULL], p, po),
                    Use(h, ChainSet(h, p)), Chain(h, p))
  IN  [g EXCEPT !.merge[p] = NULL, !.merge_primary[p] = NULL]

UnmergeSecondary(h, po) ==
  LET p == h.merge_primary[po]
      g == HandBack(Use(h, {p} \union ChainSet(h, p)), p, po)
  IN  [g EXCEPT
         !.merge = [o \in Objects |->
            IF o = po THEN NULL
            ELSE IF o \in {p} \union ChainSet(h, p) /\ h.merge[o] = po THEN h.merge[po] ELSE @[o]],
         !.merge_primary = [o \in Objects |->
            IF o = po \/ (o = p /\ Chain(h, p) = <<po>>) THEN NULL ELSE @[o]]]

(* One that is not merged only gets a message. *)
page_object_unmerge(h, o) ==
  IF IsPrimary(h, o) THEN UnmergePrimary(h, o)
  ELSE IF h.merge_primary[o] # NULL THEN UnmergeSecondary(h, o) ELSE h

(* Wrong: only the ends that s itself has are moved. *)
HandOverOwn(h, p, s) ==
  [h EXCEPT
     !.pol = [l \in Links |->
        IF ~Contains(h.links[s], l) \/ @[l] = NULL THEN @[l]
        ELSE [@[l] EXCEPT !.merge1 = IF h.pol[l].po1 = s THEN p ELSE @,
                          !.merge2 = IF h.pol[l].po2 = s THEN p ELSE @]],
     !.links = [@ EXCEPT ![p] = @ \o h.links[s], ![s] = <<>>]]

(* The links that s holds go to p. *)
HandOver(h, p, s) ==
  [h EXCEPT
     !.pol = [l \in Links |->
        IF ~Contains(h.links[s], l) \/ @[l] = NULL THEN @[l]
        ELSE [@[l] EXCEPT !.merge1 = IF h.pol[l].po1 = s \/ @ = s THEN p ELSE @,
                          !.merge2 = IF h.pol[l].po2 = s \/ @ = s THEN p ELSE @]],
     !.links = [@ EXCEPT ![p] = @ \o h.links[s], ![s] = <<>>]]

MergeSingle(h, p, s) ==
  LET g == HandOver([h EXCEPT !.merge_primary[p] = p], p, s)
  IN  [g EXCEPT !.merge[s] = h.merge[p], !.merge[p] = s, !.merge_primary[s] = p]

(* The whole group of s is appended to that of p.  A member of another      *)
(* group is never merged by itself: only what is shown can be selected.     *)
MergeGroup(h, p, s) ==
  LET g    == HandOver([Use(h, ChainSet(h, p) \union ChainSet(h, s)) EXCEPT !.merge_primary[p] = p], p, s)
      last == IF Chain(h, p) = <<>> THEN p ELSE Last(Chain(h, p))
  IN  [g EXCEPT !.merge[last] = s,
                !.merge_primary = [o \in Objects |->
                   IF o = s \/ o \in ChainSet(h, s) THEN p ELSE @[o]]]

page_object_merge(h, p, s) ==
  IF h.merge_primary[s] = NULL THEN MergeSingle(h, p, s)
  ELSE IF IsPrimary(h, s) THEN MergeGroup(h, p, s)
  ELSE [h EXCEPT !.touched = TRUE]

-----------------------------------------------------------------------------
(* Deleting *)

(* The last part of page_object_delete; nothing if o is not on the page. *)
Drop(h, o) ==
  IF o \notin OnPage(h) THEN h
  ELSE LET g == DestroyLinks(h, o)
       IN  [g EXCEPT !.page_objects = Remove(@, o), !.merge[o] = NULL, !.merge_primary[o] = NULL]

DropMembers(h, p) ==
  FoldLeft(LAMBDA g, o : Drop([Use(g, {o}) EXCEPT !.merge[o] = NULL], o), h, Chain(h, p))

UnmergeMembers(h, p) ==
  FoldLeft(LAMBDA g, o : page_object_unmerge(Use(g, {o}), o), h, Chain(h, p))

(* all: the group goes with its primary (forced, or the user says yes).     *)
(* The last member of a chain is deleted as if it were not merged.          *)
page_object_delete(h, o, all) ==
  CASE o \notin OnPage(h) \/ h.merge[o] = NULL -> Drop(h, o)
    [] OTHER -> Drop(IF ~IsPrimary(h, o) THEN page_object_unmerge(h, o)
                     ELSE IF all THEN DropMembers(h, o) ELSE UnmergeMembers(h, o), o)

After(h, o) ==
  LET i == SelectInSeq(h.page_objects, LAMBDA x : x = o)
  IN  IF i = Len(h.page_objects) THEN {} ELSE {h.page_objects[i + 1]}

(* net_page_remove takes the next object before it deletes one. *)
DeleteAll(h) ==
  FoldLeft(LAMBDA g, o : IF o \notin OnPage(g) THEN g
                         ELSE Use(page_object_delete(g, o, TRUE), After(g, o)),
           h, h.page_objects)

-----------------------------------------------------------------------------
(* src/gui-config.c *)

(* Wrong: the links are written as they are drawn. *)
SavedAsDrawn(h) ==
  [ips    |-> h.page_objects,
   merged |-> [i \in 1..Len(h.page_objects) |->
                LET o == h.page_objects[i]
                IN  IF IsPrimary(h, o) /\ h.merge[o] # NULL THEN <<o, Last(Chain(h, o))>> ELSE <<>>],
   linked |-> FlattenSeq([i \in 1..Len(h.page_objects) |->
                LET ls == h.links[h.page_objects[i]]
                IN  [k \in 1..Len(ls) |-> <<End1(h.pol[ls[k]]), End2(h.pol[ls[k]])>>]])]

(* What is written: the hosts, for each group its primary and, as all are   *)
(* written under the same key, the last of its chain, and the links of each *)
(* list, those that are in two lists twice.                                 *)
Saved(h) ==
  [ips    |-> h.page_objects,
   merged |-> [i \in 1..Len(h.page_objects) |->
                LET o == h.page_objects[i]
                IN  IF IsPrimary(h, o) /\ h.merge[o] # NULL THEN <<o, Last(Chain(h, o))>> ELSE <<>>],
   linked |-> FlattenSeq([i \in 1..Len(h.page_objects) |->
                LET ls == h.links[h.page_objects[i]]
                IN  [k \in 1..Len(ls) |-> <<h.pol[ls[k]].po1, h.pol[ls[k]].po2>>]])]

(* What is read: each host is put in front of those before it, then the     *)
(* groups are merged, then the links are drawn.                             *)
Restored(file) ==
  LET hosts  == [EmptyPage EXCEPT !.page_objects = Reverse(file.ips)]
      merged == FoldLeft(LAMBDA g, m : IF m = <<>> THEN g ELSE page_object_merge(g, m[1], m[2]),
                         hosts, file.merged)
  IN  FoldLeft(LAMBDA g, e : net_page_map_page_objects(g, e[1], e[2]), merged, file.linked)

-----------------------------------------------------------------------------
(* What happens to the page. *)

(* Pointers lead to what is on the page. *)
Closed(h) ==
  /\ \A o \in OnPage(h) : {h.merge[o], h.merge_primary[o]} \subseteq OnPage(h) \union {NULL}
  /\ \A l \in Allocated(h) : Joins(h.pol[l]) \subseteq OnPage(h)

(* The operation what leaves the page as h, if all memory is as it seems.   *)
Becomes(h, what) ==
  /\ broken = "no"
  /\ IF h.touched \/ ~Closed(h) THEN broken' = what /\ UNCHANGED np
                  ELSE np' = h /\ UNCHANGED broken

Edit == edits < MaxEdits /\ edits' = edits + 1

(* Replies. *)
add_host_entry_to_net_page(o) ==
  /\ o \notin OnPage(np)
  /\ Becomes([np EXCEPT !.page_objects = <<o>> \o @], "add")
  /\ UNCHANGED <<plink, highlighted, edits>>

handle_map_icmp_reply(a, b) ==
  /\ a # b
  /\ Allocated(np) = Links => page_object_link_get(np, a, b) # <<>>
  /\ Becomes(net_page_map_page_objects(np, a, b), "map")
  /\ UNCHANGED <<plink, highlighted, edits>>

(* The highlight S after o, or all, was highlighted or not: that of an      *)
(* object which is not shown does not change.                               *)
Shown == {o \in OnPage(np) : IsShown(np, o)}

page_object_highlight_highlight(S, o)   == IF o \in Shown THEN S \union {o} ELSE S
page_object_highlight_unhighlight(S, o) == IF o \in Shown THEN S \ {o} ELSE S
page_object_highlight_toggle(S, o) ==
  IF o \in S THEN page_object_highlight_unhighlight(S, o) ELSE page_object_highlight_highlight(S, o)

net_page_highlight_all(S, highlight) == IF highlight THEN S \union Shown ELSE S \ Shown

(* np->plink becomes what is highlighted. *)
net_page_set_plink(S) ==
  /\ broken = "no"
  /\ highlighted' = S /\ plink' = S
  /\ UNCHANGED <<np, broken, edits>>

HighlightAlone(o) ==
  page_object_highlight_highlight(net_page_highlight_all(highlighted, FALSE), o)

(* A click on an object: with the control key it is added to the highlight, *)
(* or taken out of it; without, it is highlighted alone unless it already   *)
(* is among others.  Dragging moves them.                                   *)
page_object_event_dispatch(o, control) ==
  /\ o \in Shown
  /\ net_page_set_plink(CASE control          -> page_object_highlight_toggle(highlighted, o)
                          [] o \in highlighted -> highlighted
                          [] OTHER            -> HighlightAlone(o))

(* The third button opens the menu of an object.  Where it is highlighted   *)
(* and there is no control key np->plink stays as it is.                    *)
OpenMenu(o, control) ==
  /\ o \in Shown /\ (control \/ o \notin highlighted)
  /\ net_page_set_plink(IF control THEN page_object_highlight_highlight(highlighted, o)
                        ELSE HighlightAlone(o))

(* A click on the page clears the highlight; one that is held draws a       *)
(* rectangle, and what lies in it, and is shown, is highlighted.            *)
net_page_event_dispatch(inside) ==
  net_page_set_plink(net_page_highlight_all(highlighted, FALSE) \union inside)

do_select_all == net_page_set_plink(net_page_highlight_all(highlighted, TRUE))

(* np->plink lists its objects in the reverse order of the page. *)
PlinkSeq == SelectSeq(Reverse(np.page_objects), LAMBDA o : o \in plink)

net_page_merge_plink ==
  /\ Edit
  /\ plink = highlighted /\ Len(PlinkSeq) > 1
  /\ Becomes(FoldLeft(LAMBDA g, s : page_object_merge(g, Head(PlinkSeq), s), np, Tail(PlinkSeq)),
             "merge")
  /\ plink' = {} /\ highlighted' = {}

net_page_unmerge_plink ==
  /\ Edit
  /\ \E o \in plink :
       /\ plink = {o} /\ np.merge[o] # NULL
       /\ Becomes(page_object_unmerge(np, o), "unmerge")
  /\ UNCHANGED <<plink, highlighted>>

(* The menu offers the members behind the object it was opened for.  The    *)
(* old primary loses its highlight and stays in np->plink.                  *)
page_object_set_merge_primary(o) ==
  /\ Edit
  /\ \E p \in plink :
       /\ plink = {p} /\ o \in ChainSet(np, p)
       /\ np.merge_primary[o] \notin {NULL, o}
       /\ LET old == np.merge_primary[o]
          IN  /\ Becomes(page_object_merge(page_object_unmerge(np, o), o, old), "primary")
              /\ highlighted' = highlighted \ {old}
  /\ UNCHANGED plink

(* The objects of yes are primaries whose whole groups are to be deleted. *)
net_page_delete_page_object(yes) ==
  /\ Edit
  /\ plink # {}
  /\ Becomes(FoldLeft(LAMBDA g, o : page_object_delete(g, o, o \in yes), np, PlinkSeq), "delete")
  /\ plink' = {} /\ highlighted' = highlighted \ plink

net_page_unmap_all ==
  /\ Edit
  /\ Becomes(FoldLeft(DestroyLinks, np, np.page_objects), "unmap")
  /\ UNCHANGED <<plink, highlighted>>

(* The page is closed, and another one opened. *)
net_page_remove ==
  /\ Edit
  /\ Becomes(DeleteAll(np), "close")
  /\ plink' = {} /\ highlighted' = {}

(* write_config_file, and read_config_file at the next start. *)
Restart ==
  /\ Edit
  /\ Becomes(Restored(Saved(np)), "restart")
  /\ plink' = {} /\ highlighted' = {}

Next ==
  \/ \E o \in Objects : add_host_entry_to_net_page(o)
  \/ \E a, b \in OnPage(np) : handle_map_icmp_reply(a, b)
  \/ \E o \in OnPage(np), control \in BOOLEAN : page_object_event_dispatch(o, control)
  \/ \E o \in OnPage(np), control \in BOOLEAN : OpenMenu(o, control)
  \/ \E inside \in SUBSET Shown : net_page_event_dispatch(inside)
  \/ do_select_all
  \/ net_page_merge_plink
  \/ net_page_unmerge_plink
  \/ \E o \in OnPage(np) : page_object_set_merge_primary(o)
  \/ \E yes \in SUBSET plink : net_page_delete_page_object(yes)
  \/ net_page_unmap_all
  \/ net_page_remove
  \/ Restart

Spec == Init /\ [][Next]_vars

-----------------------------------------------------------------------------
(* Properties. *)

Members(h, p) == {o \in OnPage(h) : h.merge_primary[o] = p}
Groups        == {Members(np, p) : p \in {o \in OnPage(np) : IsPrimary(np, o)}}
InnerLinks    == {l \in Allocated(np) : \E G \in Groups : Joins(np.pol[l]) \subseteq G}

(* However hosts are merged, taken apart, given another primary, deleted    *)
(* and loaded again: the chain of a primary runs once through exactly those *)
(* that name it as their primary, and nothing else is merged.  Only what is *)
(* shown is highlighted.                                                    *)
GroupsAreChains ==
  /\ \A o \in OnPage(np) :
       IF np.merge_primary[o] = NULL THEN np.merge[o] = NULL
       ELSE IsPrimary(np, np.merge_primary[o])
  /\ \A p \in OnPage(np) : IsPrimary(np, p) =>
       /\ Chain(np, p) # <<>> /\ IsInjective(Chain(np, p))
       /\ ChainSet(np, p) = Members(np, p) \ {p}
  /\ plink \subseteq OnPage(np)
  /\ \A o \in highlighted : o \in OnPage(np) /\ IsShown(np, o)

(* A link is drawn between what its two hosts are shown as, it is in the    *)
(* lists of these two and in no other, twice where they are the same, and   *)
(* no pair of hosts has two.                                                *)
LinksInPlace ==
  /\ \A l \in Allocated(np) :
       LET pol == np.pol[l]
           times(o) == Len(SelectSeq(np.links[o], LAMBDA k : k = l))
       IN  /\ End1(pol) = ShownAs(np, pol.po1) /\ End2(pol) = ShownAs(np, pol.po2)
           /\ \A o \in Objects :
                times(o) = (IF End1(pol) = o THEN 1 ELSE 0) + (IF End2(pol) = o THEN 1 ELSE 0)
  /\ \A o \in Objects : Range(np.links[o]) \subseteq Allocated(np)
  /\ \A k, l \in Allocated(np) : Joins(np.pol[k]) = Joins(np.pol[l]) => k = l

(* The pointers of hosts and links follow one another through every edit    *)
(* (gui-canvas.c:825).                                                      *)
PointersAgree == GroupsAreChains /\ LinksInPlace

(* The pointers implement the groups and links of HostGroups: what is on    *)
(* the page, what it is shown as, and which hosts are linked.               *)
Page == INSTANCE HostGroups WITH
  Hosts <- Objects,
  head  <- [o \in OnPage(np) |-> ShownAs(np, o)],
  edges <- {Joins(np.pol[l]) : l \in Allocated(np)}

ImplementsHostGroups == Page!Spec

(* Freed memory is touched, or pointed to, in three situations only: a page *)
(* with a group is closed (net_page_remove goes on to an object that the    *)
(* deletion of the group has freed); a link within a group, which is in the *)
(* list of its primary twice, is destroyed with that list; or what is       *)
(* deleted is no longer highlighted, because another primary was chosen.    *)
BreaksOnlyWhere ==
  [][broken' # broken =>
       \/ broken' = "close" /\ Groups # {}
       \/ broken' \in {"delete", "unmap"} /\ InnerLinks # {}
       \/ broken' = "delete" /\ plink # highlighted]_vars

=============================================================================
