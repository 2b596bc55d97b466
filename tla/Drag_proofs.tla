----------------------------- MODULE Drag_proofs -----------------------------
(***************************************************************************)
(* Drags and mouse sessions, for any number of nodes, windows and desktops *)
(* and any configuration.                                                  *)
(*                                                                         *)
(* A session keeps the address of a node while the other handlers go on.   *)
(* What it writes to a node is harmless, and a drop is as long as the node *)
(* is still a leaf of the tree that is shown: it is unlinked and hung next *)
(* to the leaf it is dropped on, and every other window stays where it is. *)
(* The theorems are therefore about the behaviours without a stale drop;   *)
(* the handlers of Desktops keep the invariant by Desktops_proofs.         *)
(***************************************************************************)
EXTENDS Drag, Flags_proofs

\* A drop of a node that is no leaf of the tree that is shown any more, but that
\* drag_end neither notices nor fails on.
StaleDrop ==
  \E n \in Nodes \ {drag.src_node} :
    /\ drag_end(n)
    /\ drag.src_node \notin Leaves(heap, tree[curr])
    /\ ~drop_fails(n)

\* What DragTypeOK says of the sessions.
Sessions ==
  /\ drag \in [active : BOOLEAN, window : Windows \cup {NULL}, src_node : Nodes \cup {NULL}]
  /\ mouse \in [op : {"NONE", "FLOATING", "TILED"}, node : Nodes \cup {NULL}]
  /\ grabbed \in BOOLEAN

DInv == PInv /\ Sessions

-----------------------------------------------------------------------------
(* The steps that move no window.                                          *)

\* A step after which the trees hold the windows as q places them.
LEMMA PInvAfter ==
  ASSUME NEW q, Holds(heap', tree', q), mapped' \subseteq On(q, curr'), Rest'
  PROVE  PInv'
<1>1. PlaceIn(heap', tree') = q
  BY PlacementIs
<1>2. placed' = PlaceIn(heap', tree')
  BY DEF placed, PlaceIn
<1>3. IInv'
  BY InvIsPlantedNext DEF Holds
<1> HIDE DEF placed
<1>4. placed' = q
  BY <1>1, <1>2
<1>5. Holds(heap', tree', placed') /\ mapped' \subseteq On(placed', curr')
  BY <1>4
<1> QED BY <1>3, <1>5 DEF PInv, On

\* Flags, floating rectangles and the end of zwm.
LEMMA FlagsOnly ==
  ASSUME PInv, heap' \in Heaps, SameShape(heap, heap'), running' \in BOOLEAN,
         UNCHANGED <<unmoved, focus_vars, tree, mapped>>
  PROVE  PInv'
<1>1. Holds(heap', tree', placed)
  BY PInvFacts, HoldsFlags
<1>2. mapped' \subseteq On(placed, curr') /\ Rest'
  BY PInvFacts DEF Rest, unmoved, focus_vars
<1> QED BY <1>1, <1>2, PInvAfter

\* Nothing.
LEMMA NothingChanges ==
  ASSUME PInv, UNCHANGED vars
  PROVE  PInv'
BY PInvNext

-----------------------------------------------------------------------------
(* A drop.                                                                 *)

\* n was split for the window w next to its own window v.
SplitFor(h, n, v, w) ==
  /\ n \in Nodes /\ h[n].first \in Nodes /\ h[n].second \in Nodes
  /\ h[h[n].first].client = v /\ h[h[n].second].client = w

\* The windows that are masters in k are masters in h, and so are those with the focus.
Carried(h, k) ==
  \A m \in Nodes :
    /\ k[m].is_master => \E o \in Nodes : h[o].is_master /\ h[o].client = k[m].client
    /\ k[m].is_focused => \E o \in Nodes : h[o].is_focused /\ h[o].client = k[m].client

\* Then k has no more masters than h.
LEMMA MastersCarried ==
  ASSUME NEW h, NEW k, NEW t, NEW p, Masters(h, p), Carried(h, k), Holds(k, t, p)
  PROVE  Masters(k, p)
<1>1. \A m, o \in Nodes : k[m].client # NULL /\ k[m].client = k[o].client => m = o
  BY DEF Holds, Houses
<1> QED BY <1>1 DEF Masters, Carried

\* unlink_node sets no flag.
LEMMA UnlinkCarries ==
  ASSUME NEW h, Good(h), NEW n, LeafNode(h, n)
  PROVE  Carried(h, unlink_node(h, n))
BY UnlinkKeeps DEF Carried, FreeNode

\* insert_node moves the flags of the leaf with its window, and leaves those of the node
\* that is inserted.
LEMMA InsertCarries ==
  ASSUME NEW k, NEW n, Detached(k, n), NEW leaf, LeafNode(k, leaf), leaf # n,
         NEW at \in FreeNodes(k), NEW fl
  PROVE  Carried(k, insert_node(k, leaf, at, n, fl))
<1> DEFINE j == insert_node(k, leaf, at, n, fl)
<1>1. /\ n \in Nodes /\ at \in Nodes /\ leaf \in Nodes
      /\ n # at /\ n # leaf /\ at # leaf
      /\ \A m \in Nodes : k[m] \in NodeRecords
  BY BeforeHanging
<1>2. /\ j[at].client = k[leaf].client
      /\ j[at].is_master = k[leaf].is_master /\ j[at].is_focused = k[leaf].is_focused
  BY <1>1 DEF insert_node, create_node, FreeNode
<1>3. ~j[leaf].is_master /\ ~j[leaf].is_focused
  BY <1>1 DEF insert_node, NodeRecords
<1>4. /\ j[n].client = k[n].client
      /\ j[n].is_master = k[n].is_master /\ j[n].is_focused = k[n].is_focused
  BY <1>1 DEF insert_node, NodeRecords
<1>5. \A m \in Nodes \ {at, leaf, n} : j[m] = k[m]
  BY DEF insert_node
<1> HIDE DEF j
<1>6. Carried(k, j)
  BY <1>1, <1>2, <1>3, <1>4, <1>5 DEF Carried
<1> QED BY <1>6 DEF j

\* find_tree_root finds the tree of the desktop whose windows are below the node.
LEMMA RootFound ==
  ASSUME NEW h, NEW t, NEW p, Holds(h, t, p), NEW d \in DesktopIds, NEW n,
         NEW v \in Windows, NEW w, SplitFor(h, n, v, w), p[v] = d
  PROVE  find_tree_root(h, n) = t[d] /\ t[d] # NULL
<1> DEFINE a == h[n].first
           r == t[d]
<1>1. /\ Good(h) /\ Forest(h) /\ r \in Nodes \cup {NULL}
      /\ n \in Nodes /\ a \in Nodes /\ h[a].client = v /\ v # NULL
  BY GoodIsForest, NullAssumption DEF SplitFor, Holds, Planted
<1>2. a \in Leaves(h, r)
  BY <1>1, LeafIs
<1>3. r \in Nodes /\ a \in below(h)[r] /\ r # NULL
  BY <1>1, <1>2, NullAssumption DEF Leaves, Subtree
<1>4. h[a].parent = n
  <2>1. a \in Children(h, n)
    BY <1>1, NullAssumption DEF Children
  <2> QED BY <1>1, <2>1, ChildrenKnow
<1>5. h[r].parent = NULL
  <2>1. IsRoot(h, r) /\ Wired(h, r)
    BY <1>1, <1>3, WiredIsWellLinked DEF Holds, Planted, Good
  <2> QED BY <2>1 DEF IsRoot, Wired
<1> HIDE DEF a, r
<1>6. a # r
  BY <1>1, <1>4, <1>5, NullAssumption
<1>7. n \in below(h)[r]
  BY <1>1, <1>3, <1>4, <1>6, BelowParents
<1>8. ASSUME NEW x \in Nodes, NEW y \in Nodes, x \in below(h)[y], h[x].parent = NULL
      PROVE  x = y
  <2>1. below(h)[y] \in SUBSET Nodes
    BY <1>1, BelowLeast DEF Closed
  <2> QED BY <1>1, <1>8, <2>1, BelowParents, NullAssumption
<1>9. ASSUME NEW x \in Nodes, h[x].parent = NULL, n \in Subtree(h, x) PROVE x = r
  <2>1. n \in below(h)[x]
    BY <1>9, NullAssumption DEF Subtree
  <2>2. x \in below(h)[r] \/ r \in below(h)[x]
    BY <1>1, <1>3, <1>7, <2>1, NestedOrApart
  <2> QED BY <1>3, <1>5, <1>8, <1>9, <2>2
<1>10. n \in Subtree(h, r)
  BY <1>3, <1>7 DEF Subtree
<1>11. find_tree_root(h, n) = r
  BY <1>3, <1>5, <1>9, <1>10 DEF find_tree_root
<1> QED BY <1>3, <1>11 DEF r

\* insert_node of a drop hangs the detached node next to the leaf; then flags change.
LEMMA DroppedIs ==
  ASSUME NEW k, NEW n, Detached(k, n), NEW leaf, LeafNode(k, leaf), leaf # n,
         FreeNodes(k) # {}, NEW l
  PROVE  \E at \in FreeNodes(k), j \in Heaps :
           /\ Good(j) /\ SplitFrom(k, j, leaf, at, n) /\ j[n].client = k[n].client
           /\ Carried(k, j) /\ (Unleaked(k) => Unleaked(j))
           /\ dropped(k, leaf, n, l) \in Heaps /\ SameShape(j, dropped(k, leaf, n, l))
           /\ find_tree_root(j, leaf) # NULL =>
                dropped(k, leaf, n, l) = arrange_tree(j, find_tree_root(j, leaf), l, floating)
<1> DEFINE at == Malloc(FreeNodes(k))
           j == insert_node(k, leaf, at, n, floating)
           r == find_tree_root(j, leaf)
           m == find_master_node(j, r)
<1>1. at \in FreeNodes(k)
  BY MallocAssumption DEF FreeNodes
<1>2. dropped(k, leaf, n, l) = IF l = "MASTER" THEN master_layout(j, r, m, floating) ELSE j
  BY DEF dropped
<1> HIDE DEF at
<1>3. Good(j) /\ SplitFrom(k, j, leaf, at, n) /\ j[n].client = k[n].client
  BY <1>1, DropGood
<1>4. Carried(k, j)
  BY <1>1, InsertCarries
<1>5. r # NULL => dropped(k, leaf, n, l) = arrange_tree(j, r, l, floating)
  BY <1>2 DEF arrange_tree
<1>6. Unleaked(k) => Unleaked(j)
  BY SurgeryUnleaked DEF Detached
<1> HIDE DEF j, r, m
<1>7. j \in Heaps
  BY <1>3 DEF Good
<1>8. SameShape(j, j)
  BY DEF SameShape
<1>9. master_layout(j, r, m, floating) \in Heaps
      /\ SameShape(j, master_layout(j, r, m, floating))
  BY <1>7, FlagShapes
<1>10. dropped(k, leaf, n, l) \in Heaps /\ SameShape(j, dropped(k, leaf, n, l))
  BY <1>2, <1>7, <1>8, <1>9
<1> QED BY <1>1, <1>3, <1>7, <1>10, <1>4, <1>5, <1>6 DEF r

\* A leaf that is not unlinked stays one, with its window.
LEMMA LeafStays ==
  ASSUME NEW h, Good(h), NEW n, LeafNode(h, n), NEW m, LeafNode(h, m), m # n
  PROVE  LeafNode(unlink_node(h, n), m) /\ unlink_node(h, n)[m].client = h[m].client
<1> DEFINE k == unlink_node(h, n)
<1>1. k[m].client = h[m].client
  BY UnlinkKeeps DEF LeafNode
<1>2. Detached(k, n)
  BY UnlinkDetaches
<1> HIDE DEF k
<1>3. Wired(k, m)
  BY <1>2 DEF Detached, LeafNode
<1>4. LeafNode(k, m) /\ k[m].client = h[m].client
  BY <1>1, <1>3 DEF LeafNode, Wired
<1> QED BY <1>4 DEF k

\* The node src of the tree that is shown, dropped on another leaf n of it.
LEMMA DropEffect ==
  ASSUME PInv, NEW src \in Leaves(heap, tree[curr]), NEW n \in Leaves(heap, tree[curr]), n # src,
         RoomToMove(unlink_node(heap, src)),
         heap' = arrange_tree(dropped(unlink_node(heap, src), n, src, layout[curr]),
                              root_without(heap, tree[curr], src), layout[curr], floating),
         tree' = [tree EXCEPT ![curr] = root_without(heap, tree[curr], src)]
  PROVE  /\ Holds(heap', tree', placed)
         /\ OrderKept(heap, heap', Windows \ {heap[src].client})
         /\ SplitFor(heap', n, heap[n].client, heap[src].client)
         /\ Masters(heap, placed) => Masters(heap', placed)
         /\ Flagged(heap') \subseteq Flagged(heap)
         /\ NoneLeaked => Unleaked(heap')
<1> DEFINE k  == unlink_node(heap, src)
           r  == root_without(heap, tree[curr], src)
           t  == [tree EXCEPT ![curr] = r]
           w  == heap[src].client
           v  == heap[n].client
           q0 == [placed EXCEPT ![w] = NULL]
           d  == dropped(k, n, src, layout[curr])
<1>1. /\ LeafNode(heap, src) /\ LeafNode(heap, n) /\ w \in Windows /\ v \in Windows
      /\ placed[w] = curr /\ placed[v] = curr
  BY PInvFacts, LeafPlaced
<1>2. v # w
  BY <1>1, PInvFacts, NullAssumption DEF Holds, Houses, LeafNode
<1>3. HoldsBut(k, t, q0, src) /\ k[src].client = w
  <2>1. Holds(heap, tree, placed) /\ curr \in DesktopIds
    BY PInvFacts
  <2> QED BY <2>1, HoldsUnlink
<1>4. LeafNode(k, n) /\ k[n].client = v
  BY <1>1, PInvFacts, LeafStays
<1>5. Detached(k, src) /\ FreeNodes(k) # {}
  BY <1>3 DEF HoldsBut, Uprooted, RoomToMove
<1>6. OrderKept(heap, k, Windows \ {w})
  BY <1>1, PInvFacts, UnlinkKeepsOrder
<1>7. [q0 EXCEPT ![w] = q0[v]] = placed
  BY <1>1, <1>2, PInvFacts
<1>8. heap' = arrange_tree(d, r, layout[curr], floating) /\ tree' = t
      /\ t[curr] = r
  BY PInvFacts
<1>9. Carried(heap, k) /\ (NoneLeaked => Unleaked(k))
  BY <1>1, PInvFacts, UnlinkCarries, SurgeryUnleaked DEF NoneLeaked, Good
<1> HIDE DEF k, t, w, v, q0
<1>10. PICK at \in FreeNodes(k), j \in Heaps :
        /\ Good(j) /\ SplitFrom(k, j, n, at, src) /\ j[src].client = k[src].client
        /\ Carried(k, j) /\ (Unleaked(k) => Unleaked(j))
        /\ d \in Heaps /\ SameShape(j, d)
        /\ find_tree_root(j, n) # NULL =>
             d = arrange_tree(j, find_tree_root(j, n), layout[curr], floating)
  BY <1>4, <1>5, DroppedIs
<1> HIDE DEF d, r
<1>11. heap' \in Heaps /\ SameShape(d, heap')
  <2>1. d \in Heaps
    BY <1>10
  <2>2. \A l, fl : arrange_tree(d, r, l, fl) \in Heaps /\ SameShape(d, arrange_tree(d, r, l, fl))
    BY ONLY <2>1, FlagShapes
  <2> QED BY <1>8, <2>2
<1>12. SameShape(j, heap')
  BY <1>10, <1>11, ShapeTwice
<1>13. Holds(j, t, [q0 EXCEPT ![k[src].client] = q0[k[n].client]])
  BY <1>3, <1>4, <1>10, HoldsHung
<1>14. Holds(j, t, placed)
  BY <1>3, <1>4, <1>7, <1>13
<1>15. Holds(heap', tree', placed)
  BY <1>8, <1>11, <1>12, <1>14, HoldsFlags
<1>16. OrderKept(heap, heap', Windows \ {w})
  <2>1. OrderKept(k, j, Windows \ {w})
    BY <1>3, <1>4, <1>5, <1>10, GoodIsForest, HangKeepsOrder
  <2>2. Good(heap')
    BY <1>10, <1>11, <1>12, ShapeGood
  <2>3. OrderKept(j, heap', Windows \ {w})
    BY <1>10, <1>12, <2>2, KeptShape
  <2>4. OrderKept(heap, j, Windows \ {w})
    BY <1>6, <2>1, KeptTwice
  <2> QED BY <2>3, <2>4, KeptTwice
<1>17. SplitFor(j, n, v, w) /\ SplitFor(heap', n, v, w)
  <2>1. n \in Nodes /\ at \in Nodes /\ src \in Nodes
    BY <1>1, <1>10 DEF LeafNode, FreeNodes
  <2>2. j[n].first = at /\ j[n].second = src /\ j[at].client = v /\ j[src].client = w
    BY <1>3, <1>4, <1>10 DEF SplitFrom
  <2> QED BY <1>12, <2>1, <2>2 DEF SameShape, SplitFor
<1>18. d = arrange_tree(j, t[curr], layout[curr], floating) /\ curr \in DesktopIds
  <2>1. curr \in DesktopIds
    BY PInvFacts
  <2> QED BY <1>1, <1>10, <1>17, <1>14, <2>1, RootFound
<1>19. Carried(heap, j)
  BY <1>10, <1>9 DEF Carried
<1>20. ASSUME Masters(heap, placed) PROVE Masters(heap', placed)
  <2>1. Masters(j, placed)
    BY <1>14, <1>20, <1>19, MastersCarried
  <2>2. Masters(d, placed) /\ Holds(d, t, placed)
    BY <1>14, <1>18, <2>1, MastersArrange, HoldsFlagOps
  <2> QED BY <1>8, <1>18, <2>2, MastersArrange
<1>21. Flagged(heap') \subseteq Flagged(heap)
  <2>1. Flagged(j) \subseteq Flagged(heap)
    BY <1>19 DEF Carried, Flagged
  <2>2. Flagged(d) = Flagged(j)
    BY <1>10, <1>18, MasterOpsFocus
  <2>3. Flagged(heap') = Flagged(d)
    BY <1>8, <1>10, MasterOpsFocus
  <2> QED BY <2>1, <2>2, <2>3
<1>22. NoneLeaked => Unleaked(heap')
  BY <1>9, <1>10, <1>12, ShapeUnleaked
<1> QED BY <1>15, <1>16, <1>17, <1>20, <1>21, <1>22 DEF v, w

\* A leaf of the tree that is shown is not a node that was leaked.
LEMMA LeafRegained ==
  ASSUME PInv, NEW n \in Leaves(heap, tree[curr])
  PROVE  regained(heap, n) = heap /\ n \notin FreeNodes(heap)
<1>1. LeafNode(heap, n)
  BY PInvFacts, LeafSearchResult
<1> QED BY <1>1 DEF LeafNode, regained, FreeNodes

\* What drag_end can drop on are leaves of the tree that is shown, and a leaf of that
\* tree can be dropped on every other.
LEMMA TargetIsLeaf ==
  ASSUME PInv, NEW n \in drop_targets
  PROVE  /\ n \in Leaves(heap, tree[curr]) /\ n \in Nodes
         /\ drag.src_node \in Leaves(heap, tree[curr]) /\ n # drag.src_node => ~drop_fails(n)
<1>1. Good(heap) /\ tree[curr] \in Nodes \cup {NULL}
  BY PInvFacts
<1>2. n \in Subtree(heap, tree[curr]) /\ heap[n].type = "EXTERNAL"
  BY DEF drop_targets
<1>3. n \in Nodes
  BY <1>1, <1>2, SubtreeNodes
<1>4. Wired(heap, n)
  BY <1>1, <1>3, WiredIsWellLinked DEF Good
<1>5. n \in Leaves(heap, tree[curr])
  BY <1>2, <1>4 DEF Wired, Leaves, IsLeaf
<1>6. ASSUME drag.src_node \in Leaves(heap, tree[curr]), n # drag.src_node PROVE ~drop_fails(n)
  <2> DEFINE src == drag.src_node
  <2>1. LeafNode(heap, src) /\ Wired(heap, src)
    BY <1>1, <1>6, LeafSearchResult, WiredIsWellLinked DEF Good, LeafNode
  <2>2. below(heap)[src] = BelowStep(heap, below(heap), src)
    BY <1>1, <2>1, GoodIsForest, BelowUnfolds DEF LeafNode
  <2>3. Subtree(heap, src) = {src}
    BY <2>1, <2>2, NullAssumption DEF BelowStep, Wired, LeafNode, Subtree
  <2>4. regained(heap, src) = heap /\ src \notin FreeNodes(heap)
    BY <1>6, LeafRegained
  <2> QED BY <1>6, <2>1, <2>3, <2>4 DEF drop_fails, LeafNode
<1> QED BY <1>3, <1>5, <1>6

\* What happens at the end of a drag that is not stale.
LEMMA DragEndInv ==
  ASSUME PInv, ~StaleDrop, NEW n, drag_end(n)
  PROVE  PInv'
<1> DEFINE src == drag.src_node
           r  == root_without(heap, tree[curr], src)
           h2 == arrange_tree(dropped(unlink_node(heap, src), n, src, layout[curr]), r,
                              layout[curr], floating)
<1>1. Good(heap) /\ heap \in Heaps /\ running \in BOOLEAN
  BY PInvFacts DEF Good, Rest
<1>2. UNCHANGED <<unmoved, focus_vars>> /\ n \in drop_targets \cup {NULL}
  BY DEF drag_end
<1>3. CASE n \in {NULL, src}
  <2>1. heap' = arrange_tree(heap, tree[curr], layout[curr], floating)
        /\ UNCHANGED <<tree, mapped, running>>
    BY <1>3 DEF drag_end
  <2>2. heap' \in Heaps /\ SameShape(heap, heap')
    BY <1>1, <2>1, FlagShapes
  <2> QED BY <1>1, <1>2, <2>1, <2>2, FlagsOnly
<1>4. CASE n \notin {NULL, src} /\ drop_fails(n)
  <2>1. running' = FALSE /\ UNCHANGED <<heap, tree, mapped>>
    BY <1>4 DEF drag_end
  <2>2. heap' \in Heaps /\ SameShape(heap, heap')
    BY <1>1, <2>1 DEF SameShape
  <2> QED BY <1>2, <2>1, <2>2, FlagsOnly
<1>5. CASE n \notin {NULL, src} /\ ~drop_fails(n)
  <2>1. n \in Leaves(heap, tree[curr]) /\ n \in Nodes
    BY <1>2, <1>5, TargetIsLeaf
  <2>2. src \in Leaves(heap, tree[curr])
    BY <1>5, <2>1 DEF StaleDrop
  <2>3. /\ RoomToMove(unlink_node(heap, src)) /\ heap' = h2
        /\ tree' = [tree EXCEPT ![curr] = r]
        /\ mapped' = mapped \cup rendered(h2, r, state)
        /\ running' = running
    <3>1. regained(heap, src) = heap
      BY <2>2, LeafRegained
    <3> QED BY <1>5, <3>1 DEF drag_end
  <2>4. Holds(heap', tree', placed)
    BY <1>5, <2>1, <2>2, <2>3, DropEffect
  <2> HIDE DEF h2, r, src
  <2>5. tree'[curr] = r /\ curr \in DesktopIds
    BY <2>3, PInvFacts
  <2>6. rendered(h2, r, state) \subseteq On(placed, curr)
    <3>1. rendered(heap', tree'[curr], state) = {w \in On(placed, curr) : state[w] # "FULLSCREEN"}
      BY <2>4, <2>5, RenderedPlaced
    <3> QED BY <2>3, <2>5, <3>1
  <2>7. mapped' \subseteq On(placed, curr') /\ mapped' \subseteq Windows
    BY <1>2, <2>3, <2>6, PInvFacts DEF unmoved, On
  <2>8. Rest'
    BY <1>2, <2>3, <2>7, PInvFacts DEF Rest, unmoved, focus_vars
  <2> QED BY <2>4, <2>7, <2>8, PInvAfter
<1> QED BY <1>3, <1>4, <1>5

-----------------------------------------------------------------------------
(* The sessions.                                                           *)

\* The window and the node a session begins with.
LEMMA Starts ==
  ASSUME PInv, Sessions, NEW w, drag_start(w) \/ start_floating(w) \/ start_tiled_resize(w)
  PROVE  Sessions'
<1> DEFINE n == find_node_by_window_id(heap, tree[curr], w)
<1>1. Good(heap) /\ tree[curr] \in Nodes \cup {NULL} /\ n # NULL
  BY PInvFacts DEF drag_start, start_floating, start_tiled_resize
<1>2. LeafNode(heap, n) /\ heap[n].client = w
  BY <1>1, FindResult
<1>3. n \in Nodes /\ heap[n] \in NodeRecords /\ w \in Windows
  BY <1>1, <1>2 DEF LeafNode, Good, Heaps, NodeRecords
<1>4. CASE drag_start(w)
  <2> DEFINE b == TRUE
  <2>1. drag' = [active |-> b, window |-> w, src_node |-> n] /\ grabbed' \in {TRUE, grabbed}
        /\ mouse' = mouse /\ b \in BOOLEAN
    BY <1>4 DEF drag_start
  <2> HIDE DEF b, n
  <2> QED BY <1>3, <2>1 DEF Sessions
<1>5. CASE start_floating(w)
  <2>1. mouse' = [op |-> "FLOATING", node |-> n] /\ grabbed' = TRUE /\ drag' = drag
    BY <1>5 DEF start_floating
  <2> HIDE DEF n
  <2> QED BY <1>3, <2>1 DEF Sessions
<1>6. CASE start_tiled_resize(w)
  <2>1. mouse' = [op |-> "TILED", node |-> heap[n].parent] /\ grabbed' = TRUE /\ drag' = drag
    BY <1>6 DEF start_tiled_resize
  <2> HIDE DEF n
  <2>2. heap[n].parent \in Nodes \cup {NULL}
    BY <1>3 DEF NodeRecords
  <2> QED BY <2>1, <2>2 DEF Sessions
<1> QED BY <1>4, <1>5, <1>6

\* No session is a state of the sessions.
LEMMA NoneOpen ==
  /\ NoDrag \in [active : BOOLEAN, window : Windows \cup {NULL}, src_node : Nodes \cup {NULL}]
  /\ NoMouse \in [op : {"NONE", "FLOATING", "TILED"}, node : Nodes \cup {NULL}]
<1> DEFINE b == FALSE
<1>1. NoDrag = [active |-> b, window |-> NULL, src_node |-> NULL] /\ b \in BOOLEAN
  BY DEF NoDrag
<1> HIDE DEF b
<1> QED BY <1>1 DEF NoMouse

\* A press of a button starts a session or none, and focuses the window or not.
LEMMA ButtonInv ==
  ASSUME DInv, NEW w \in Windows, super_button_press(w)
  PROVE  DInv'
<1>1. PInv /\ Sessions
  BY DEF DInv
<1>2. Sessions'
  <2>1. \/ drag_start(w) \/ start_floating(w) \/ start_tiled_resize(w)
        \/ UNCHANGED session
    BY DEF super_button_press
  <2>2. CASE UNCHANGED session
    BY <1>1, <2>2 DEF Sessions, session
  <2> QED BY <1>1, <2>1, <2>2, Starts
<1>3. PInv'
  <2>1. CASE UNCHANGED vars
    BY <1>1, <2>1, NothingChanges
  <2>2. CASE give_focus(w)
    <3>1. heap' \in Heaps /\ SameShape(heap, heap')
      BY <1>1, <2>2, PInvFacts, OthersKeepShape
    <3>2. Holds(heap', tree, placed)
      BY <1>1, <3>1, PInvFacts, HoldsFlags
    <3>3. UNCHANGED <<tree, layout, n_count, curr, state, mapped, requested, running>>
          /\ focused_win' = w /\ last_focused' = [last_focused EXCEPT ![curr] = w]
      BY <2>2 DEF give_focus, remember
    <3>4. Rest' /\ mapped' \subseteq On(placed, curr')
      BY <1>1, <3>3, PInvFacts DEF Rest
    <3> QED BY <3>2, <3>3, <3>4, PInvAfter
  <2> QED BY <2>1, <2>2 DEF super_button_press
<1> QED BY <1>2, <1>3 DEF DInv

\* The key that starts a drag.
LEMMA KeyboardInv ==
  ASSUME DInv, start_keyboard_drag_wrapper
  PROVE  DInv'
<1>1. PInv /\ Sessions
  BY DEF DInv
<1>2. (\E w : drag_start(w)) /\ UNCHANGED vars
  BY DEF start_keyboard_drag_wrapper
<1>3. Sessions'
  BY <1>1, <1>2, Starts
<1>4. PInv'
  BY <1>1, <1>2, NothingChanges
<1> QED BY <1>3, <1>4 DEF DInv

\* What a mouse session writes to its node: no link, no window and no flag.
LEMMA WriteEffect ==
  ASSUME heap \in Heaps, write_session
  PROVE  /\ heap' \in Heaps /\ SameShape(heap, heap')
         /\ \A o \in Nodes : /\ heap'[o].is_master = heap[o].is_master
                             /\ heap'[o].is_focused = heap[o].is_focused
<1> DEFINE m == mouse.node
           h == [heap EXCEPT ![m].frect = TRUE]
<1>1. heap' = heap \/ heap' = h
  BY DEF write_session
<1> HIDE DEF m
<1>2. /\ h \in Heaps /\ SameShape(heap, h)
      /\ \A o \in Nodes : h[o].is_master = heap[o].is_master /\ h[o].is_focused = heap[o].is_focused
  BY DEF SameShape, Heaps, NodeRecords
<1>3. SameShape(heap, heap)
  BY DEF SameShape
<1> HIDE DEF h
<1> QED BY <1>1, <1>2, <1>3

\* A motion or an Escape of a mouse session.
LEMMA WriteInv ==
  ASSUME PInv, write_session
  PROVE  PInv'
<1>1. heap' \in Heaps /\ SameShape(heap, heap')
  BY PInvFacts, WriteEffect DEF Good
<1>2. running' \in BOOLEAN /\ UNCHANGED <<unmoved, focus_vars, tree, mapped>>
  BY DEF write_session
<1> QED BY <1>1, <1>2, FlagsOnly

-----------------------------------------------------------------------------
(* Every step.                                                             *)

\* The invariant is inductive as long as no drop is stale.
LEMMA DragNextInv ==
  DInv /\ [DragNext]_all_vars /\ ~StaleDrop => DInv'
<1> SUFFICES ASSUME DInv, [DragNext]_all_vars, ~StaleDrop PROVE DInv'
  OBVIOUS
<1>1. PInv /\ Sessions
  BY DEF DInv
<1>2. ASSUME UNCHANGED session PROVE Sessions'
  BY <1>1, <1>2 DEF Sessions, session
<1>3. ASSUME [Next]_vars, UNCHANGED session PROVE DInv'
  BY <1>1, <1>2, <1>3, PInvNext DEF DInv
<1>4. CASE UNCHANGED all_vars
  BY <1>3, <1>4 DEF all_vars
<1>5. CASE pointer_event /\ ~grabbed /\ UNCHANGED session
  BY <1>3, <1>5 DEF Next
<1>6. CASE (key_event \/ client_event) /\ UNCHANGED session
  BY <1>3, <1>6 DEF Next
<1>7. ASSUME NEW n, drag_end(n) PROVE DInv'
  <2>1. drag' = NoDrag /\ grabbed' = FALSE /\ mouse' = mouse
    BY <1>7 DEF drag_end
  <2>2. Sessions'
    BY <1>1, <2>1, NoneOpen DEF Sessions
  <2> QED BY <1>1, <1>7, <2>2, DragEndInv DEF DInv
<1>8. CASE drag_cancel \/ drag_move
  <2>1. /\ heap' = arrange_tree(heap, tree[curr], layout[curr], floating)
        /\ UNCHANGED <<mouse, unmoved, focus_vars, tree, mapped, running>>
        /\ drag' \in {NoDrag, drag} /\ grabbed' \in {FALSE, grabbed}
    BY <1>8 DEF drag_cancel, drag_move, session
  <2>2. heap \in Heaps /\ running \in BOOLEAN
    BY <1>1, PInvFacts DEF Good, Rest
  <2>3. heap' \in Heaps /\ SameShape(heap, heap')
    BY <2>1, <2>2, FlagShapes
  <2>4. PInv'
    BY <1>1, <2>1, <2>2, <2>3, FlagsOnly
  <2>5. Sessions'
    BY <1>1, <2>1, NoneOpen DEF Sessions
  <2> QED BY <2>4, <2>5 DEF DInv
<1>9. CASE handle_mouse_motion \/ cancel_mouse_action
  <2>1. write_session /\ mouse' \in {NoMouse, mouse} /\ grabbed' \in {FALSE, grabbed}
    BY <1>9 DEF handle_mouse_motion, cancel_mouse_action
  <2>2. drag' = drag
    BY <2>1 DEF write_session
  <2>3. Sessions'
    BY <1>1, <2>1, <2>2, NoneOpen DEF Sessions
  <2> QED BY <1>1, <2>1, <2>3, WriteInv DEF DInv
<1>10. CASE finish_mouse_action
  <2>1. UNCHANGED vars /\ drag' = drag /\ mouse' = NoMouse /\ grabbed' = FALSE
    BY <1>10 DEF finish_mouse_action
  <2>2. Sessions'
    BY <1>1, <2>1, NoneOpen DEF Sessions
  <2> QED BY <1>1, <2>1, <2>2, NothingChanges DEF DInv
<1>11. ASSUME NEW w \in Windows, super_button_press(w) PROVE DInv'
  BY <1>11, ButtonInv
<1>12. CASE start_keyboard_drag_wrapper
  BY <1>12, KeyboardInv
<1> QED BY <1>4, <1>5, <1>6, <1>7, <1>8, <1>9, <1>10, <1>11, <1>12 DEF DragNext

\* Hence the invariant holds throughout.
LEMMA DInvAlways == DragSpec /\ [][~StaleDrop]_all_vars => []DInv
<1>1. DragInit => DInv
  <2> SUFFICES ASSUME DragInit PROVE DInv
    OBVIOUS
  <2>1. PInv
    BY InitPInv DEF DragInit
  <2>2. drag = NoDrag /\ mouse = NoMouse /\ grabbed = FALSE
    BY DEF DragInit
  <2>3. Sessions
    BY <2>2, NoneOpen DEF Sessions
  <2> QED BY <2>1, <2>3 DEF DInv
<1>2. DInv /\ [DragNext]_all_vars /\ [~StaleDrop]_all_vars => DInv'
  <2>1. ASSUME DInv, UNCHANGED all_vars PROVE DInv'
    <3>1. UNCHANGED vars /\ drag' = drag /\ mouse' = mouse /\ grabbed' = grabbed
      BY <2>1 DEF all_vars, session
    <3>2. PInv'
      BY <2>1, <3>1, NothingChanges DEF DInv
    <3> QED BY <2>1, <3>1, <3>2 DEF DInv, Sessions
  <2> QED BY <2>1, DragNextInv
<1> QED BY <1>1, <1>2, PTL DEF DragSpec

-----------------------------------------------------------------------------
(* The theorems.                                                           *)

\* Every variable keeps to its type through drags and mouse sessions, whatever other
\* handlers do to the nodes they hold, unless a stale node is dropped.
THEOREM DragTypeCorrect == DragSpec /\ [][~StaleDrop]_all_vars => []DragTypeOK
<1>1. DInv => DragTypeOK
  BY DEF DInv, PInv, IInv, Sessions, DragTypeOK
<1> QED BY <1>1, DInvAlways, PTL

\* Nor do they break a tree: the sessions that end write to nodes they hold, and a drop
\* that is not stale leaves the trees well linked.
THEOREM DragLinked == DragSpec /\ [][~StaleDrop]_all_vars => []Linked
<1>1. DInv => Linked
  BY DEF DInv, PInv, IInv
<1> QED BY <1>1, DInvAlways, PTL

\* While at most one window can float no step of a drag leaks a node.
LEMMA DragUnleaked ==
  ASSUME OneFloats, DInv, NoneLeaked, floating \subseteq Dialogs, ~StaleDrop,
         [DragNext]_all_vars
  PROVE  NoneLeaked' /\ floating' \subseteq Dialogs
<1>1. PInv /\ heap \in Heaps
  BY PInvFacts DEF DInv, Good
<1>2. CASE [Next]_vars
  BY <1>1, <1>2, UnleakedNext, FloatersNext DEF OneFloats
<1>3. ASSUME UNCHANGED state, Unleaked(heap') PROVE NoneLeaked' /\ floating' \subseteq Dialogs
  BY <1>3 DEF NoneLeaked, Unleaked, floating
<1>4. ASSUME UNCHANGED state, heap' = heap \/ SameShape(heap, heap')
      PROVE  NoneLeaked' /\ floating' \subseteq Dialogs
  <2>1. Unleaked(heap')
    BY <1>4, ShapeUnleaked DEF NoneLeaked
  <2> QED BY <1>3, <1>4, <2>1
<1>5. ASSUME UNCHANGED state, heap' = arrange_tree(heap, tree[curr], layout[curr], floating)
      PROVE  NoneLeaked' /\ floating' \subseteq Dialogs
  BY <1>1, <1>4, <1>5, FlagShapes
<1>6. ASSUME NEW n, drag_end(n) PROVE NoneLeaked' /\ floating' \subseteq Dialogs
  <2> DEFINE src == drag.src_node
             r   == root_without(heap, tree[curr], src)
             d   == dropped(unlink_node(heap, src), n, src, layout[curr])
  <2>1. n \in drop_targets \cup {NULL} /\ UNCHANGED state
    BY <1>6 DEF drag_end, unmoved
  <2>2. CASE n \in {NULL, src} \/ drop_fails(n)
    <3>1. heap' = heap \/ heap' = arrange_tree(heap, tree[curr], layout[curr], floating)
      BY <1>6, <2>2 DEF drag_end
    <3> QED BY <1>4, <1>5, <2>1, <3>1
  <2>3. CASE n \notin {NULL, src} /\ ~drop_fails(n)
    <3>1. n \in Leaves(heap, tree[curr]) /\ n \in Nodes
      BY <1>1, <2>1, <2>3, TargetIsLeaf
    <3>2. src \in Leaves(heap, tree[curr])
      BY <1>6, <2>3, <3>1 DEF StaleDrop
    <3>3. RoomToMove(unlink_node(heap, src))
          /\ heap' = arrange_tree(d, r, layout[curr], floating)
          /\ tree' = [tree EXCEPT ![curr] = r]
      <4>1. regained(heap, src) = heap
        BY <1>1, <3>2, LeafRegained
      <4> QED BY <1>6, <2>3, <4>1 DEF drag_end
    <3>4. Unleaked(heap')
      BY <1>1, <2>3, <3>1, <3>2, <3>3, DropEffect
    <3> QED BY <1>3, <2>1, <3>4
  <2> QED BY <2>2, <2>3
<1>7. CASE drag_cancel \/ drag_move
  BY <1>5, <1>7 DEF drag_cancel, drag_move, unmoved
<1>8. CASE handle_mouse_motion \/ cancel_mouse_action
  <2>1. write_session /\ UNCHANGED state
    BY <1>8 DEF handle_mouse_motion, cancel_mouse_action, write_session, unmoved
  <2> QED BY <1>1, <1>4, <2>1, WriteEffect
<1>9. ASSUME NEW w \in Windows, super_button_press(w)
      PROVE  NoneLeaked' /\ floating' \subseteq Dialogs
  <2>1. UNCHANGED vars \/ give_focus(w)
    BY <1>9 DEF super_button_press
  <2>2. CASE give_focus(w)
    <3>1. SameShape(heap, heap') /\ UNCHANGED state
      BY <1>1, <2>2, PInvFacts, OthersKeepShape DEF give_focus
    <3> QED BY <1>4, <3>1
  <2> QED BY <1>4, <2>1, <2>2 DEF vars
<1>10. CASE finish_mouse_action \/ start_keyboard_drag_wrapper \/ UNCHANGED all_vars
  BY <1>4, <1>10 DEF finish_mouse_action, start_keyboard_drag_wrapper, all_vars, vars
<1> QED BY <1>2, <1>6, <1>7, <1>8, <1>9, <1>10 DEF DragNext, Next

\* While at most one window can float, no node is lost and none gets into two trees: the
\* node that a drop takes out of the tree of the current desktop is the one it hangs back.
THEOREM DragOneTree ==
  ASSUME OneFloats
  PROVE  DragSpec /\ [][~StaleDrop]_all_vars => []OneTree
<1> DEFINE J == NoneLeaked /\ floating \subseteq Dialogs
<1>1. DragInit => J
  <2> SUFFICES ASSUME DragInit PROVE J
    OBVIOUS
  <2>1. NoneLeaked
    BY DEF DragInit, Init, FreeNode, NoneLeaked, Unleaked
  <2>2. floating \subseteq Dialogs
    BY DEF DragInit, Init, floating
  <2> QED BY <2>1, <2>2
<1>2. DInv /\ J /\ [DragNext]_all_vars /\ [~StaleDrop]_all_vars => J'
  <2>1. ASSUME DInv, J, UNCHANGED all_vars PROVE J'
    BY <2>1 DEF all_vars, vars, NoneLeaked, Unleaked, floating
  <2>2. ASSUME DInv, J, [DragNext]_all_vars, ~StaleDrop PROVE J'
    BY <2>2, DragUnleaked
  <2> QED BY <2>1, <2>2
<1>3. DInv /\ J => OneTree
  BY PInvOneTree DEF DInv
<1> QED BY <1>1, <1>2, <1>3, DInvAlways, PTL DEF DragSpec

\* A session that outlives its desktop maps no window of the one that was left.
THEOREM DragHiddenUnmapped == DragSpec /\ [][~StaleDrop]_all_vars => []HiddenUnmapped
<1>1. DInv => HiddenUnmapped
  BY PInvHides DEF DInv
<1> QED BY <1>1, DInvAlways, PTL

\* The windows of a leaf that was split are next to each other in the tree.
LEMMA SplitNext ==
  ASSUME NEW h, NEW t, NEW p, Holds(h, t, p), NEW d \in DesktopIds, NEW n,
         NEW v \in Windows, NEW w \in Windows, SplitFor(h, n, v, w), p[v] = d, p[w] = d
  PROVE  \E i \in 1 .. Len(LeafWindows(h, t[d])) - 1 :
           LeafWindows(h, t[d])[i] = v /\ LeafWindows(h, t[d])[i + 1] = w
<1>1. /\ Good(h) /\ t[d] \in Nodes \cup {NULL} /\ v # NULL /\ w # NULL
      /\ \A m, o \in Nodes : h[m].client # NULL /\ h[m].client = h[o].client => m = o
  BY NullAssumption DEF Holds, Houses, Planted
<1>2. n \in Nodes /\ h[n].first \in Nodes /\ h[n].second \in Nodes
      /\ h[h[n].first].client = v /\ h[h[n].second].client = w
  BY DEF SplitFor
<1>3. PICK a \in Leaves(h, t[d]) : h[a].client = v
  BY PlacedLeaf, DesktopsAssumption
<1>4. PICK b \in Leaves(h, t[d]) : h[b].client = w
  BY PlacedLeaf, DesktopsAssumption
<1>5. a \in Nodes /\ b \in Nodes
  BY LeafPlaced
<1>6. a = h[n].first /\ b = h[n].second
  BY <1>1, <1>2, <1>3, <1>4, <1>5
<1>7. t[d] \in Nodes
  BY <1>1, <1>3 DEF Leaves, Subtree
<1>8. h[n].first # NULL /\ h[n].second # NULL
  BY <1>2, NullAssumption
<1> QED BY <1>1, <1>2, <1>3, <1>4, <1>6, <1>7, <1>8, SplitWindowsNext

\* What the drop of a window that is still where the drag found it does to the tree shown.
LEMMA DropStep ==
  ASSUME PInv, NEW n \in Nodes, drag_end(n), Held, n # drag.src_node
  PROVE  LET w      == drag.window
             before == LeafWindows(heap, tree[curr])
             after  == LeafWindows(heap', tree'[curr'])
             shown  == WindowsOf(heap, tree[curr])
         IN  /\ WindowsOf(heap', tree'[curr']) = shown
             /\ \A u, v \in shown \ {w} : Precedes(before, u, v) <=> Precedes(after, u, v)
             /\ \E i \in 1 .. Len(after) - 1 : after[i] = heap[n].client /\ after[i + 1] = w
<1> DEFINE src == drag.src_node
           w == drag.window
           v == heap[n].client
           before == LeafWindows(heap, tree[curr])
           after  == LeafWindows(heap', tree'[curr])
           shown  == WindowsOf(heap, tree[curr])
<1>1. curr' = curr /\ n \in drop_targets /\ src \in Leaves(heap, tree[curr]) /\ heap[src].client = w
  BY NullAssumption DEF drag_end, unmoved, Held
<1>2. n \in Leaves(heap, tree[curr]) /\ ~drop_fails(n)
  BY <1>1, TargetIsLeaf
<1>3. n \notin {NULL, src}
  BY NullAssumption
<1>4. /\ RoomToMove(unlink_node(heap, src))
      /\ heap' = arrange_tree(dropped(unlink_node(heap, src), n, src, layout[curr]),
                              root_without(heap, tree[curr], src), layout[curr], floating)
      /\ tree' = [tree EXCEPT ![curr] = root_without(heap, tree[curr], src)]
  <2>1. regained(heap, src) = heap
    BY <1>1, LeafRegained
  <2> QED BY <1>2, <1>3, <2>1 DEF drag_end
<1>5. /\ Holds(heap', tree', placed)
      /\ OrderKept(heap, heap', Windows \ {w})
      /\ SplitFor(heap', n, v, w)
  BY <1>1, <1>2, <1>3, <1>4, DropEffect
<1>6. /\ Holds(heap, tree, placed) /\ curr \in DesktopIds
      /\ w \in Windows /\ v \in Windows /\ placed[w] = curr /\ placed[v] = curr
  BY <1>1, <1>2, PInvFacts, LeafPlaced
<1>7. WindowsOf(heap', tree'[curr]) = shown /\ shown \subseteq Windows
  <2>1. WindowsOf(heap', tree'[curr]) = {u \in Windows : placed[u] = curr}
    BY <1>5, <1>6, WindowsPlaced
  <2>2. shown = {u \in Windows : placed[u] = curr}
    BY <1>6, WindowsPlaced
  <2> QED BY <2>1, <2>2
<1>8. ASSUME NEW u \in shown \ {w}, NEW x \in shown \ {w}
      PROVE  Precedes(before, u, x) <=> Precedes(after, u, x)
  <2>1. Precedes(before, u, x) <=> WindowLeft(heap, u, x)
    BY <1>6, OrderIs
  <2>2. Precedes(after, u, x) <=> WindowLeft(heap', u, x)
    BY <1>5, <1>6, <1>7, OrderIs
  <2>3. WindowLeft(heap, u, x) <=> WindowLeft(heap', u, x)
    BY <1>5, <1>7 DEF OrderKept
  <2> QED BY <2>1, <2>2, <2>3
<1>9. \E i \in 1 .. Len(after) - 1 : after[i] = v /\ after[i + 1] = w
  BY <1>5, <1>6, SplitNext
<1> HIDE DEF before, shown, w, v
<1>10. /\ WindowsOf(heap', tree'[curr']) = shown
       /\ \A u, x \in shown \ {w} : Precedes(before, u, x) <=>
                                    Precedes(LeafWindows(heap', tree'[curr']), u, x)
       /\ \E i \in 1 .. Len(LeafWindows(heap', tree'[curr'])) - 1 :
            /\ LeafWindows(heap', tree'[curr'])[i] = v
            /\ LeafWindows(heap', tree'[curr'])[i + 1] = w
  BY <1>1, <1>7, <1>8, <1>9
<1> QED BY <1>10 DEF before, shown, w, v

\* A window dropped on another comes right after it, no other window of the desktop
\* changes its place, none is lost and the tree stays well linked, whatever handlers ran
\* between the start of the drag and its end, unless an earlier drop was stale.
THEOREM DropMovesAlways == DragSpec /\ [][~StaleDrop]_all_vars => DropMoves
<1>1. PInv /\ PInv' =>
        [\A n \in Nodes :
           LET w      == drag.window
               before == LeafWindows(heap, tree[curr])
               after  == LeafWindows(heap, tree[curr])'
               shown  == WindowsOf(heap, tree[curr])
           IN  drag_end(n) /\ Held /\ n # drag.src_node =>
                 /\ Linked => Linked'
                 /\ shown' = shown
                 /\ \A u, v \in shown \ {w} : Precedes(before, u, v) <=> Precedes(after, u, v)
                 /\ \E i \in 1 .. Len(after) - 1 :
                      after[i] = heap[n].client /\ after[i + 1] = w]_all_vars
  <2> SUFFICES ASSUME PInv, PInv', NEW n \in Nodes, drag_end(n), Held, n # drag.src_node
               PROVE  LET w      == drag.window
                          before == LeafWindows(heap, tree[curr])
                          after  == LeafWindows(heap', tree'[curr'])
                          shown  == WindowsOf(heap, tree[curr])
                      IN  /\ Linked'
                          /\ WindowsOf(heap', tree'[curr']) = shown
                          /\ \A u, v \in shown \ {w} : Precedes(before, u, v)
                                                       <=> Precedes(after, u, v)
                          /\ \E i \in 1 .. Len(after) - 1 :
                               after[i] = heap[n].client /\ after[i + 1] = w
    OBVIOUS
  <2>1. Linked'
    BY DEF PInv, IInv
  <2> QED BY <2>1, DropStep
<1>2. DInv => PInv
  BY DEF DInv
<1> QED BY <1>1, <1>2, DInvAlways, PTL DEF DropMoves

\* Drags and mouse sessions keep a desktop from having two masters.
LEMMA DragMasters ==
  ASSUME PInv, PInv', Masters(heap, placed), ~StaleDrop, [DragNext]_all_vars,
         "transfer_node" \notin Keys, "_NET_WM_DESKTOP" \notin Messages
  PROVE  Masters(heap', placed')
<1>1. ASSUME [Next]_vars PROVE Masters(heap', placed')
  BY <1>1, NextMarks DEF MastersStep
<1>2. CASE UNCHANGED all_vars
  BY <1>1, <1>2 DEF all_vars
<1>3. ASSUME NEW w \in Windows, super_button_press(w) PROVE Masters(heap', placed')
  <2>1. CASE UNCHANGED vars
    BY <1>1, <2>1
  <2>2. CASE give_focus(w)
    BY <2>2, GiveFocusMarks DEF MastersStep
  <2> QED BY <1>3, <2>1, <2>2 DEF super_button_press
<1>4. ASSUME UNCHANGED tree, heap' = arrange_tree(heap, tree[curr], layout[curr], floating)
      PROVE  Masters(heap', placed')
  <2>1. Holds(heap, tree, placed) /\ curr \in DesktopIds
    BY PInvFacts
  <2>2. Masters(heap', placed) /\ Holds(heap', tree', placed)
    BY <1>4, <2>1, MastersArrange, HoldsFlagOps
  <2> QED BY <2>2, PlacedNext
<1>5. ASSUME NEW n, drag_end(n) PROVE Masters(heap', placed')
  <2> DEFINE src == drag.src_node
             r   == root_without(heap, tree[curr], src)
             d   == dropped(unlink_node(heap, src), n, src, layout[curr])
  <2>1. n \in drop_targets \cup {NULL}
    BY <1>5 DEF drag_end
  <2>2. CASE n \in {NULL, src}
    <3>1. UNCHANGED tree /\ heap' = arrange_tree(heap, tree[curr], layout[curr], floating)
      BY <1>5, <2>2 DEF drag_end
    <3> QED BY <1>4, <3>1
  <2>3. CASE n \notin {NULL, src} /\ drop_fails(n)
    <3>1. UNCHANGED <<heap, tree>>
      BY <1>5, <2>3 DEF drag_end
    <3> QED BY <3>1, NothingMoves DEF MastersStep
  <2>4. CASE n \notin {NULL, src} /\ ~drop_fails(n)
    <3>1. n \in Leaves(heap, tree[curr]) /\ n \in Nodes
      BY <2>1, <2>4, TargetIsLeaf
    <3>2. src \in Leaves(heap, tree[curr])
      BY <1>5, <2>4, <3>1 DEF StaleDrop
    <3>3. RoomToMove(unlink_node(heap, src))
          /\ heap' = arrange_tree(d, r, layout[curr], floating)
          /\ tree' = [tree EXCEPT ![curr] = r]
      <4>1. regained(heap, src) = heap
        BY <3>2, LeafRegained
      <4> QED BY <1>5, <2>4, <4>1 DEF drag_end
    <3>4. Holds(heap', tree', placed) /\ Masters(heap', placed)
      BY <2>4, <3>1, <3>2, <3>3, DropEffect
    <3> QED BY <3>4, PlacedNext
  <2> QED BY <2>2, <2>3, <2>4
<1>6. CASE drag_cancel \/ drag_move
  BY <1>4, <1>6 DEF drag_cancel, drag_move
<1>7. ASSUME write_session PROVE Masters(heap', placed')
  <2>1. heap' \in Heaps /\ SameShape(heap, heap')
        /\ \A o \in Nodes : heap'[o].is_master = heap[o].is_master
    BY <1>7, PInvFacts, WriteEffect DEF Good
  <2>2. \A o \in Nodes : heap'[o].client = heap[o].client
    BY <2>1 DEF SameShape
  <2>3. Holds(heap', tree', placed)
    BY <1>7, <2>1, PInvFacts, HoldsFlags DEF write_session
  <2>4. placed' = placed
    BY <2>3, PlacedNext
  <2> QED BY <2>1, <2>2, <2>4, SameMasters
<1>8. CASE finish_mouse_action \/ start_keyboard_drag_wrapper
  <2>1. UNCHANGED vars
    BY <1>8 DEF finish_mouse_action, start_keyboard_drag_wrapper
  <2> QED BY <1>1, <2>1
<1> QED BY <1>1, <1>2, <1>3, <1>5, <1>6, <1>7, <1>8
        DEF DragNext, Next, handle_mouse_motion, cancel_mouse_action

\* A drop chooses a master for the tree it drops in only when the tree has none, and a
\* dragged master keeps its flag: a desktop has one master at most, through any drags.
THEOREM DragOneMaster ==
  ASSUME "transfer_node" \notin Keys, "_NET_WM_DESKTOP" \notin Messages
  PROVE  DragSpec /\ [][~StaleDrop]_all_vars => []OneMaster
<1> DEFINE J == Masters(heap, placed)
<1>1. DragInit => J
  BY DEF DragInit, Init, FreeNode, Masters
<1>2. DInv /\ DInv' /\ J /\ [DragNext]_all_vars /\ [~StaleDrop]_all_vars => J'
  <2>1. ASSUME DInv, DInv', J, [DragNext]_all_vars, [~StaleDrop]_all_vars
        PROVE  Masters(heap', placed')
    <3>1. CASE UNCHANGED all_vars
      <4>1. UNCHANGED <<heap, tree>>
        BY <3>1 DEF all_vars, vars
      <4> QED BY <2>1, <4>1, NothingMoves DEF MastersStep
    <3>2. CASE ~StaleDrop
      BY <2>1, <3>2, DragMasters DEF DInv
    <3> QED BY <2>1, <3>1, <3>2
  <2> QED BY <2>1 DEF Masters
<1>3. DInv /\ J => OneMaster
  BY MastersIsOne DEF DInv
<1> QED BY <1>1, <1>2, <1>3, DInvAlways, PTL DEF DragSpec

\* A step of a drag or of a mouse session moves no window and sets no focus flag, and the
\* press of a button focuses its window or does not.
LEMMA DragFocus ==
  ASSUME PInv, PInv', ~StaleDrop, [DragNext]_all_vars, ~[Next]_vars
  PROVE  /\ UNCHANGED layout
         /\ \/ \E w \in Windows : give_focus(w)
            \/ placed' = placed /\ Flagged(heap') \subseteq Flagged(heap)
<1>1. heap \in Heaps /\ Holds(heap, tree, placed) /\ curr \in DesktopIds
  BY PInvFacts DEF Good
<1>2. ASSUME UNCHANGED tree, heap' = arrange_tree(heap, tree[curr], layout[curr], floating)
      PROVE  placed' = placed /\ Flagged(heap') \subseteq Flagged(heap)
  <2>1. Holds(heap', tree', placed)
    BY <1>1, <1>2, HoldsFlagOps
  <2>2. Flagged(heap') = Flagged(heap)
    BY <1>1, <1>2, MasterOpsFocus
  <2> QED BY <2>1, <2>2, PlacedNext
<1>3. ASSUME NEW n, drag_end(n)
      PROVE  UNCHANGED layout /\ placed' = placed /\ Flagged(heap') \subseteq Flagged(heap)
  <2> DEFINE src == drag.src_node
             r   == root_without(heap, tree[curr], src)
             d   == dropped(unlink_node(heap, src), n, src, layout[curr])
  <2>1. n \in drop_targets \cup {NULL} /\ UNCHANGED layout
    BY <1>3 DEF drag_end, unmoved
  <2>2. CASE n \in {NULL, src}
    <3>1. UNCHANGED tree /\ heap' = arrange_tree(heap, tree[curr], layout[curr], floating)
      BY <1>3, <2>2 DEF drag_end
    <3> QED BY <1>2, <2>1, <3>1
  <2>3. CASE n \notin {NULL, src} /\ drop_fails(n)
    <3>1. UNCHANGED <<heap, tree>>
      BY <1>3, <2>3 DEF drag_end
    <3> QED BY <2>1, <3>1, NothingMoves
  <2>4. CASE n \notin {NULL, src} /\ ~drop_fails(n)
    <3>1. n \in Leaves(heap, tree[curr]) /\ n \in Nodes
      BY <2>1, <2>4, TargetIsLeaf
    <3>2. src \in Leaves(heap, tree[curr])
      BY <1>3, <2>4, <3>1 DEF StaleDrop
    <3>3. RoomToMove(unlink_node(heap, src))
          /\ heap' = arrange_tree(d, r, layout[curr], floating)
          /\ tree' = [tree EXCEPT ![curr] = r]
      <4>1. regained(heap, src) = heap
        BY <3>2, LeafRegained
      <4> QED BY <1>3, <2>4, <4>1 DEF drag_end
    <3>4. Holds(heap', tree', placed) /\ Flagged(heap') \subseteq Flagged(heap)
      BY <2>4, <3>1, <3>2, <3>3, DropEffect
    <3> QED BY <2>1, <3>4, PlacedNext
  <2> QED BY <2>2, <2>3, <2>4
<1>4. CASE drag_cancel \/ drag_move
  BY <1>2, <1>4 DEF drag_cancel, drag_move, unmoved
<1>5. ASSUME write_session
      PROVE  UNCHANGED layout /\ placed' = placed /\ Flagged(heap') \subseteq Flagged(heap)
  <2>1. Holds(heap', tree', placed)
    BY <1>1, <1>5, WriteEffect, HoldsFlags DEF write_session
  <2>2. \A o \in Nodes : /\ heap'[o].client = heap[o].client
                         /\ heap'[o].is_focused = heap[o].is_focused
    BY <1>1, <1>5, WriteEffect DEF SameShape
  <2>3. Flagged(heap') = Flagged(heap)
    BY <2>2, SameFlagged
  <2> QED BY <1>5, <2>1, <2>3, PlacedNext DEF write_session, unmoved
<1>6. CASE \E w \in Windows : super_button_press(w)
  BY <1>6 DEF super_button_press, give_focus
<1>7. CASE finish_mouse_action \/ start_keyboard_drag_wrapper \/ UNCHANGED all_vars
  BY <1>7 DEF finish_mouse_action, start_keyboard_drag_wrapper, all_vars
<1> QED BY <1>3, <1>4, <1>5, <1>6, <1>7
        DEF DragNext, Next, handle_mouse_motion, cancel_mouse_action

\* A window that is dragged takes its focus flag along, and no session sets one: a desktop
\* has at most one window with the flag, through any drags.
THEOREM DragOneFocused ==
  ASSUME FlagsStay
  PROVE  DragSpec /\ [][~StaleDrop]_all_vars => []OneFocused
<1>1. DragInit => FocusInv
  BY NoneFlagged DEF DragInit, FocusInv, Lone
<1>2. DInv /\ DInv' /\ FocusInv /\ [DragNext]_all_vars /\ [~StaleDrop]_all_vars => FocusInv'
  <2> SUFFICES ASSUME DInv, DInv', FocusInv, [DragNext]_all_vars, [~StaleDrop]_all_vars
               PROVE  FocusInv'
    OBVIOUS
  <2>1. PInv /\ PInv'
    BY DEF DInv
  <2>2. CASE [Next]_vars
    BY <2>2, FocusInvNext
  <2>3. CASE ~[Next]_vars
    <3>1. ~StaleDrop
      BY <2>3 DEF all_vars
    <3>2. UNCHANGED layout
          /\ \/ \E w \in Windows : give_focus(w)
             \/ placed' = placed /\ Flagged(heap') \subseteq Flagged(heap)
      BY <2>1, <2>3, <3>1, DragFocus
    <3>3. NoStack'
      BY <3>2 DEF FocusInv, NoStack
    <3>4. CASE \E w \in Windows : give_focus(w)
      <4>1. FocusStep
        BY <2>1, <3>4, GiveFocusMarks
      <4>2. Lone(Flagged(heap'), placed')
        BY <2>1, <4>1, LoneNext DEF FocusInv, FlagsStay
      <4> QED BY <2>1, <3>3, <4>2 DEF FocusInv, Flagged, Lone
    <3>5. CASE placed' = placed /\ Flagged(heap') \subseteq Flagged(heap)
      <4>1. Lone(Flagged(heap'), placed')
        BY <3>5 DEF FocusInv, Lone
      <4> QED BY <2>1, <3>3, <4>1 DEF FocusInv, Flagged, Lone
    <3> QED BY <3>2, <3>4, <3>5
  <2> QED BY <2>2, <2>3
<1> QED BY <1>1, <1>2, DInvAlways, FocusInvIsOne, PTL DEF DragSpec
=============================================================================
