------------------------------- MODULE BSPTree -------------------------------
(***************************************************************************)
(* The binary space partitioning trees of src/src/tree.c, as operators on  *)
(* a heap of nodes.  A heap h maps each address in Nodes to the node_t it  *)
(* holds (src/src/type.h:281), or to FreeNode when nothing is allocated    *)
(* there; a tree is the address of its root, or NULL.  Of a node that was  *)
(* taken out of its tree and never freed, which no tree leads to any more, *)
(* only the client is kept, in leaked.                                     *)
(*                                                                         *)
(* Abstractions: a client is the window it stands for; the rectangle of a  *)
(* node is left out, and of floating_rectangle only whether it was ever    *)
(* given a value (frect) is kept.                                          *)
(***************************************************************************)
EXTENDS Naturals, FiniteSets, Sequences

CONSTANTS
  Nodes,      \* the addresses malloc can return for a node_t
  Windows,    \* the X windows (a client_t is identified with its window)
  NULL,       \* the null pointer, XCB_NONE
  Malloc(_)   \* which of a set of free addresses malloc returns

ASSUME NullAssumption == NULL \notin Nodes \cup Windows

ASSUME MallocAssumption == \A S \in SUBSET Nodes : S # {} => Malloc(S) \in S

ASSUME NodesAssumption == IsFiniteSet(Nodes)

Layouts    == {"DEFAULT", "MASTER", "STACK"}
NodeTypes  == {"ROOT", "INTERNAL", "EXTERNAL"}
WinStates  == {"TILED", "FLOATING", "FULLSCREEN"}

FreeNode ==
  [type |-> "NONE", client |-> NULL, parent |-> NULL, first |-> NULL,
   second |-> NULL, is_focused |-> FALSE, is_master |-> FALSE, frect |-> FALSE,
   leaked |-> NULL]

NodeRecords ==
  [type : NodeTypes \cup {"NONE"}, client : Windows \cup {NULL},
   parent : Nodes \cup {NULL}, first : Nodes \cup {NULL},
   second : Nodes \cup {NULL}, is_focused : BOOLEAN, is_master : BOOLEAN,
   frect : BOOLEAN, leaked : Windows \cup {NULL}]

Heaps == [Nodes -> NodeRecords]

FreeNodes(h) == {n \in Nodes : h[n].type = "NONE" /\ h[n].leaked = NULL}

\* create_node leaves node_type unset; every caller makes the node EXTERNAL or
\* ROOT before anything reads it, so the type is a parameter here.
create_node(c, type, parent) ==
  [FreeNode EXCEPT !.client = c, !.type = type, !.parent = parent]

-----------------------------------------------------------------------------
(* Walking a tree.                                                         *)

Children(h, n) == {h[n].first, h[n].second} \ {NULL}

\* What hangs below each node, itself included.
below(h) ==
  LET sub[n \in Nodes] ==
        {n} \cup (IF h[n].first = NULL THEN {} ELSE sub[h[n].first])
            \cup (IF h[n].second = NULL THEN {} ELSE sub[h[n].second])
  IN  sub

Subtree(h, r) == IF r = NULL THEN {} ELSE below(h)[r]

IsLeaf(h, n) == h[n].type # "INTERNAL" /\ h[n].client # NULL

Leaves(h, r) == {n \in Subtree(h, r) : IsLeaf(h, n)}

WindowsOf(h, r) == {h[n].client : n \in Leaves(h, r)}

\* The recursive searches of tree.c: the node itself, then the first subtree,
\* then the second.
seek(h, S) ==
  LET found[n \in Nodes] ==
        IF n \in S THEN n
        ELSE IF h[n].first # NULL /\ found[h[n].first] # NULL
               THEN found[h[n].first]
        ELSE IF h[n].second # NULL THEN found[h[n].second] ELSE NULL
  IN  found

FirstIn(h, r, S) == IF r = NULL THEN NULL ELSE seek(h, S)[r]

find_node_by_window_id(h, r, w) ==
  FirstIn(h, r, {n \in Subtree(h, r) : h[n].client # NULL /\ h[n].client = w})

get_focused_node(h, r) ==
  FirstIn(h, r, {n \in Leaves(h, r) : h[n].is_focused})

find_master_node(h, r) ==
  FirstIn(h, r, {n \in Subtree(h, r) : h[n].is_master})

find_any_leaf(h, r, floating) ==
  FirstIn(h, r, {n \in Leaves(h, r) : h[n].client \notin floating})

get_sibling(h, n) ==
  LET p == h[n].parent
  IN  IF h[p].first = n THEN h[p].second ELSE h[p].first

\* Leaves from left to right, the order the stack layout is traversed in.
walk(h) ==
  LET order[n \in Nodes] ==
        IF IsLeaf(h, n) THEN <<n>>
        ELSE (IF h[n].first = NULL THEN <<>> ELSE order[h[n].first])
             \o (IF h[n].second = NULL THEN <<>> ELSE order[h[n].second])
  IN  order

LeafOrder(h, r) == IF r = NULL THEN <<>> ELSE walk(h)[r]

LeafWindows(h, r) ==
  LET order == LeafOrder(h, r) IN [i \in DOMAIN order |-> h[order[i]].client]

\* next_node and prev_node: the neighbour subtree's near edge.  From inside a
\* first child next_node goes down first_child links only, prev_node down
\* second_child links, so both reach the adjacent leaf of a full binary tree.
Neighbour(h, r, n, step) ==
  LET order == LeafOrder(h, r)
      i     == CHOOSE k \in DOMAIN order : order[k] = n
  IN  IF n = r THEN NULL
      ELSE CASE step = "UP"   -> IF i < Len(order) THEN order[i + 1] ELSE NULL
             [] step = "DOWN" -> IF i > 1 THEN order[i - 1] ELSE NULL

-----------------------------------------------------------------------------
(* Flags.                                                                  *)

set_focused_forgets(h, n, flag) == h

set_focused(h, n, flag) == [h EXCEPT ![n].is_focused = flag]

update_focus_adds(h, r, n) == h

\* update_focus: every leaf of the tree but n loses the flag.
update_focus(h, r, n) ==
  [m \in Nodes |-> IF m \in Leaves(h, r) \ {n}
                   THEN [h[m] EXCEPT !.is_focused = FALSE] ELSE h[m]]

master_clean_up_skipped(h, r) == h

master_clean_up(h, r) ==
  [m \in Nodes |-> IF m \in Subtree(h, r)
                   THEN [h[m] EXCEPT !.is_master = FALSE] ELSE h[m]]

\* master_layout with master n, or any tiled leaf when there is no n.
master_layout(h, r, n, floating) ==
  LET m == IF n = NULL THEN find_any_leaf(h, r, floating) ELSE n
  IN  IF m = NULL THEN h ELSE [h EXCEPT ![m].is_master = TRUE]

\* arrange_tree: of the three layouts only MASTER touches a flag.
arrange_tree(h, r, l, floating) ==
  IF r # NULL /\ l = "MASTER"
  THEN master_layout(h, r, find_master_node(h, r), floating)
  ELSE h

-----------------------------------------------------------------------------
(* Surgery.                                                                *)

root_without_stale(h, r, n) == IF h[n].parent = NULL THEN NULL ELSE r

\* The root after n leaves the tree of root r (unlink_node's d->tree).
root_without(h, r, n) ==
  IF h[n].parent = NULL THEN NULL
  ELSE IF h[h[n].parent].parent = NULL THEN get_sibling(h, n)
  ELSE r

\* The sibling is not told that it has a new parent.
splice_keeps_parent(h, n, p, s, g) ==
  [m \in Nodes |->
     CASE m = p -> FreeNode
       [] m = n -> [h[n] EXCEPT !.parent = NULL]
       [] m = s -> [h[s] EXCEPT !.type = IF g = NULL THEN "ROOT" ELSE @]
       [] m = g -> [h[g] EXCEPT !.first  = IF @ = p THEN s ELSE @,
                                !.second = IF h[g].first = p THEN @ ELSE s]
       [] OTHER -> h[m]]

\* The sibling becomes the second child whichever child the parent was.
splice_changes_side(h, n, p, s, g) ==
  [m \in Nodes |->
     CASE m = p -> FreeNode
       [] m = n -> [h[n] EXCEPT !.parent = NULL]
       [] m = s -> [h[s] EXCEPT !.parent = g,
                                !.type   = IF g = NULL THEN "ROOT" ELSE @]
       [] m = g -> [h[g] EXCEPT !.first = IF @ = p THEN h[g].second ELSE @, !.second = s]
       [] OTHER -> h[m]]

\* unlink_node: n's sibling s takes the place of their parent p below g, and p is freed.
splice(h, n, p, s, g) ==
  [m \in Nodes |->
     CASE m = p -> FreeNode
       [] m = n -> [h[n] EXCEPT !.parent = NULL]
       [] m = s -> [h[s] EXCEPT !.parent = g,
                                !.type   = IF g = NULL THEN "ROOT" ELSE @]
       [] m = g -> [h[g] EXCEPT !.first  = IF @ = p THEN s ELSE @,
                                !.second = IF h[g].first = p THEN @ ELSE s]
       [] OTHER -> h[m]]

unlink_node(h, n) ==
  LET p == h[n].parent
  IN  IF p = NULL THEN h ELSE splice(h, n, p, get_sibling(h, n), h[p].parent)

free_node_leaks(h, n) == h

free_node(h, n) == [h EXCEPT ![n] = FreeNode]

\* A node that is unlinked and then neither inserted nor freed.
leak_node(h, n) == [h EXCEPT ![n] = [FreeNode EXCEPT !.leaked = h[n].client]]

\* insert_node: the leaf n becomes the parent of its own client, moved to a new
\* node at, and of the node new, created by the caller.  The flags move with the
\* client; the floating rectangle does when the client floats.
insert_node(h, n, at, new, floating) ==
  [m \in Nodes |->
     CASE m = at  -> [create_node(h[n].client, "EXTERNAL", n) EXCEPT
                        !.is_focused = h[n].is_focused,
                        !.is_master  = h[n].is_master,
                        !.frect      = h[n].frect /\ h[n].client \in floating]
       [] m = n   -> [h[n] EXCEPT !.type   = IF @ = "ROOT" THEN @ ELSE "INTERNAL",
                                  !.client = NULL, !.first = at, !.second = new,
                                  !.is_focused = FALSE, !.is_master = FALSE]
       [] m = new -> [h[new] EXCEPT !.parent = n, !.type = "EXTERNAL"]
       [] OTHER   -> h[m]]

\* Where transfer_node puts a node: a lone root is split whatever it holds,
\* otherwise a tiled leaf is.  NULL is its failure in a tree of several windows
\* that all float.
transfer_target(h, r, floating) ==
  IF h[r].first = NULL /\ h[r].second = NULL THEN r
  ELSE find_any_leaf(h, r, floating)

\* The split node keeps its client too.
transfer_keeps_client(h, leaf, at, n) ==
  [m \in Nodes |->
     CASE m = at   -> create_node(h[leaf].client, "EXTERNAL", leaf)
       [] m = leaf -> [h[leaf] EXCEPT !.type   = IF @ = "ROOT" THEN @ ELSE "INTERNAL",
                                      !.first = at, !.second = n]
       [] m = n    -> [h[n] EXCEPT !.parent = leaf, !.type = "EXTERNAL"]
       [] OTHER    -> h[m]]

\* transfer_node on a non-empty tree.  Unlike insert_node it leaves the flags
\* and the floating rectangle on the split node.
transfer_node(h, leaf, at, n) ==
  [m \in Nodes |->
     CASE m = at   -> create_node(h[leaf].client, "EXTERNAL", leaf)
       [] m = leaf -> [h[leaf] EXCEPT !.type   = IF @ = "ROOT" THEN @ ELSE "INTERNAL",
                                      !.client = NULL, !.first = at, !.second = n]
       [] m = n    -> [h[n] EXCEPT !.parent = leaf, !.type = "EXTERNAL"]
       [] OTHER    -> h[m]]

\* swap_node: n and its sibling change sides.
swap_node(h, n) ==
  LET p == h[n].parent
  IN  [h EXCEPT ![p].first = h[p].second, ![p].second = h[p].first]
-----------------------------------------------------------------------------
\* v is to the left of w in the sequence s.
Precedes(s, v, w) == \E i, j \in DOMAIN s : i < j /\ s[i] = v /\ s[j] = w

\* A heap is well linked when every node of a tree is wired as type.h and tree.c
\* describe: a node has two children or none, children and parents point at each
\* other, a node holds a client exactly when it is a leaf, its type says where it
\* is in its tree, and nothing points at a freed node.
WellLinked(h) ==
  \A n \in Nodes :
    LET x == h[n]
    IN  IF x.type = "NONE"
        THEN x.client = NULL /\ x.parent = NULL /\ x.first = NULL /\ x.second = NULL
        ELSE /\ x.first = NULL <=> x.second = NULL
             /\ x.first # NULL => /\ x.first # x.second
                                  /\ h[x.first].parent = n
                                  /\ h[x.second].parent = n
             /\ x.parent # NULL => n \in Children(h, x.parent)
             /\ x.client = NULL <=> x.first # NULL
             /\ x.type = "ROOT" <=> x.parent = NULL
             /\ x.type = "INTERNAL" => x.first # NULL
             /\ x.type = "EXTERNAL" => x.first = NULL

\* No cycle: going up from a node leads out of any set of nodes.
Acyclic(h) == \A S \in SUBSET Nodes : S # {} => \E n \in S : h[n].parent \notin S
=============================================================================
