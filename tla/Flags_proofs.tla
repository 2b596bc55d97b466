---------------------------- MODULE Flags_proofs ----------------------------
(***************************************************************************)
(* The focus flag and the master flag of the nodes, and what zwm remembers *)
(* of them elsewhere: last_focused of every desktop and focused_win.  The  *)
(* flags sit on nodes that surgery creates, splits, splices and frees; the *)
(* argument follows them from window to window, on the placement that      *)
(* Desktops_proofs establishes.                                            *)
(***************************************************************************)
EXTENDS Desktops_proofs

-----------------------------------------------------------------------------
(* What the operators of the trees do to the flags.                        *)

\* The windows whose node carries the focus flag.
Flagged(h) == {w \in Windows : \E m \in Nodes : h[m].client = w /\ h[m].is_focused}

\* Every master is the node of a window, and a desktop has at most one.
Masters(h, p) ==
  /\ \A m \in Nodes : h[m].is_master => h[m].client # NULL
  /\ \A m, k \in Nodes : h[m].is_master /\ h[k].is_master
                           /\ p[h[m].client] = p[h[k].client] => m = k

\* The windows that are in nodes are those that are placed.
LEMMA NodePlaced ==
  ASSUME NEW h, NEW t, NEW p, Holds(h, t, p), NEW m \in Nodes, h[m].client # NULL
  PROVE  h[m].client \in Windows /\ p[h[m].client] \in DesktopIds
<1>1. h[m].client \in Windows
  BY DEF Holds, Planted, Good, Heaps, NodeRecords
<1>2. PICK O : Labelled(h, t, p, Nodes, O)
  BY DEF Holds, Houses
<1> QED BY <1>1, <1>2 DEF Labelled

\* Hence a window with the focus flag is placed.
LEMMA FlaggedPlaced ==
  ASSUME NEW h, NEW t, NEW p, Holds(h, t, p), NEW w \in Flagged(h)
  PROVE  p[w] \in DesktopIds
BY NodePlaced, NullAssumption DEF Flagged

\* The nodes of the windows of desktop d are the leaves of its tree.
LEMMA LeafIs ==
  ASSUME NEW h, NEW t, NEW p, Holds(h, t, p), NEW d \in DesktopIds, NEW m \in Nodes,
         h[m].client # NULL
  PROVE  m \in Leaves(h, t[d]) <=> p[h[m].client] = d
<1>1. h[m].client \in Windows /\ p[h[m].client] \in DesktopIds
  BY NodePlaced
<1>2. m \in Leaves(h, t[d]) => p[h[m].client] = d
  BY LeafPlaced
<1>3. ASSUME p[h[m].client] = d PROVE m \in Leaves(h, t[d])
  <2>1. PICK k \in Leaves(h, t[d]) : h[k].client = h[m].client
    BY <1>1, <1>3, PlacedLeaf, DesktopsAssumption
  <2>2. k \in Nodes
    BY LeafPlaced
  <2>3. m = k
    BY <2>1, <2>2 DEF Holds, Houses
  <2> QED BY <2>3
<1> QED BY <1>2, <1>3

\* Equal clients and flags make equal sets of windows.
LEMMA SameFlagged ==
  ASSUME NEW h, NEW k,
         \A m \in Nodes : k[m].client = h[m].client /\ k[m].is_focused = h[m].is_focused
  PROVE  Flagged(k) = Flagged(h)
BY DEF Flagged

\* The same of masters.
LEMMA SameMasters ==
  ASSUME NEW h, NEW k, NEW p, Masters(h, p),
         \A m \in Nodes : k[m].client = h[m].client /\ k[m].is_master = h[m].is_master
  PROVE  Masters(k, p)
BY DEF Masters

\* The operators on masters leave the focus flags alone.
LEMMA MasterOpsFocus ==
  ASSUME NEW h \in Heaps, NEW r, NEW n, NEW l, NEW fl
  PROVE  /\ Flagged(master_clean_up(h, r)) = Flagged(h)
         /\ Flagged(master_layout(h, r, n, fl)) = Flagged(h)
         /\ Flagged(arrange_tree(h, r, l, fl)) = Flagged(h)
<1>1. \A m \in Nodes : /\ master_clean_up(h, r)[m].client = h[m].client
                       /\ master_clean_up(h, r)[m].is_focused = h[m].is_focused
  BY DEF Heaps, NodeRecords, master_clean_up
<1>2. ASSUME NEW i
      PROVE  \A m \in Nodes : /\ master_layout(h, r, i, fl)[m].client = h[m].client
                              /\ master_layout(h, r, i, fl)[m].is_focused = h[m].is_focused
  <2> DEFINE j == IF i = NULL THEN find_any_leaf(h, r, fl) ELSE i
  <2>1. master_layout(h, r, i, fl) = IF j = NULL THEN h ELSE [h EXCEPT ![j].is_master = TRUE]
    BY DEF master_layout
  <2> HIDE DEF j
  <2> QED BY <2>1 DEF Heaps, NodeRecords
<1>3. \A m \in Nodes : /\ arrange_tree(h, r, l, fl)[m].client = h[m].client
                       /\ arrange_tree(h, r, l, fl)[m].is_focused = h[m].is_focused
  BY <1>2 DEF arrange_tree
<1> QED BY <1>1, <1>2, <1>3, SameFlagged

\* The operators on the focus leave the masters alone.
LEMMA FocusOpsMasters ==
  ASSUME NEW h \in Heaps, NEW p, Masters(h, p), NEW r, NEW n, NEW flag \in BOOLEAN
  PROVE  /\ Masters(set_focused(h, n, flag), p)
         /\ Masters(update_focus(h, r, n), p)
<1>1. \A m \in Nodes : /\ set_focused(h, n, flag)[m].client = h[m].client
                       /\ set_focused(h, n, flag)[m].is_master = h[m].is_master
  BY DEF Heaps, NodeRecords, set_focused
<1>2. \A m \in Nodes : /\ update_focus(h, r, n)[m].client = h[m].client
                       /\ update_focus(h, r, n)[m].is_master = h[m].is_master
  BY DEF Heaps, NodeRecords, update_focus
<1> QED BY <1>1, <1>2, SameMasters

\* set_focused adds the window of its node.
LEMMA SetFocusedFlags ==
  ASSUME NEW h \in Heaps, NEW n \in Nodes, h[n].client \in Windows
  PROVE  Flagged(set_focused(h, n, TRUE)) = Flagged(h) \cup {h[n].client}
<1> DEFINE k == set_focused(h, n, TRUE)
<1>1. /\ k[n].client = h[n].client /\ k[n].is_focused
      /\ \A m \in Nodes : k[m].client = h[m].client
      /\ \A m \in Nodes \ {n} : k[m].is_focused = h[m].is_focused
  BY DEF Heaps, NodeRecords, set_focused
<1> HIDE DEF k
<1>2. Flagged(k) = Flagged(h) \cup {h[n].client}
  BY <1>1 DEF Flagged
<1> QED BY <1>2 DEF k

\* update_focus keeps, of the windows of its desktop, only the one of its node.
LEMMA UpdateFocusFlags ==
  ASSUME NEW h, NEW t, NEW p, Holds(h, t, p), NEW d \in DesktopIds,
         NEW n \in Leaves(h, t[d]) \cup {NULL}
  PROVE  Flagged(update_focus(h, t[d], n)) =
           Flagged(h) \ (On(p, d) \ (IF n = NULL THEN {} ELSE {h[n].client}))
<1> DEFINE k == update_focus(h, t[d], n)
           L == Leaves(h, t[d])
<1>1. /\ h \in Heaps
      /\ \A m \in L : m \in Nodes /\ h[m].client \in Windows /\ p[h[m].client] = d
      /\ \A m \in Nodes : h[m].client # NULL /\ m \notin L => p[h[m].client] # d
      /\ \A m, j \in Nodes : h[m].client # NULL /\ h[m].client = h[j].client => m = j
  BY LeafPlaced, LeafIs DEF Holds, Planted, Good, Houses
<1>2. \A m \in Nodes : /\ k[m].client = h[m].client
                       /\ k[m].is_focused = (h[m].is_focused /\ m \notin L \ {n})
  BY <1>1 DEF update_focus, Heaps, NodeRecords
<1> HIDE DEF k, L
<1>3. ASSUME NEW w \in Windows, NEW m \in Nodes, h[m].client = w
      PROVE  m \in L \ {n} <=> w \in On(p, d) \ (IF n = NULL THEN {} ELSE {h[n].client})
  <2>1. m \in L <=> w \in On(p, d)
    BY <1>1, <1>3, NullAssumption DEF On
  <2>2. n # NULL => (m = n <=> w = h[n].client)
    BY <1>1, <1>3, NullAssumption DEF L
  <2>3. m # NULL
    BY NullAssumption
  <2> QED BY <2>1, <2>2, <2>3
<1>4. Flagged(k) = Flagged(h) \ (On(p, d) \ (IF n = NULL THEN {} ELSE {h[n].client}))
  BY <1>2, <1>3 DEF Flagged
<1> QED BY <1>4 DEF k

\* set_focused and update_focus, as most handlers call them one after the other.
give(h, r, n) == update_focus(set_focused(h, n, TRUE), r, n)

\* The window of the node is then the one of its desktop with the flag.
LEMMA GivenFlags ==
  ASSUME NEW h, NEW t, NEW p, Holds(h, t, p), NEW d \in DesktopIds, NEW n \in Leaves(h, t[d])
  PROVE  Flagged(give(h, t[d], n)) = (Flagged(h) \ On(p, d)) \cup {h[n].client}
<1> DEFINE k == set_focused(h, n, TRUE)
           w == h[n].client
<1>1. n \in Nodes /\ w \in Windows /\ p[w] = d /\ h \in Heaps
  BY LeafPlaced DEF Holds, Planted, Good
<1>2. Holds(k, t, p)
  BY HoldsFlagOps
<1>3. k[n].client = w
  BY <1>1 DEF set_focused, Heaps, NodeRecords
<1>4. Flagged(k) = Flagged(h) \cup {w}
  BY <1>1, SetFocusedFlags
<1> HIDE DEF k
<1>5. n \in Leaves(k, t[d])
  BY <1>1, <1>2, <1>3, LeafIs, NullAssumption
<1>6. Flagged(update_focus(k, t[d], n)) = Flagged(k) \ (On(p, d) \ {w})
  <2>1. n # NULL
    BY <1>1, NullAssumption
  <2> QED BY <1>2, <1>3, <1>5, <2>1, UpdateFocusFlags
<1>7. Flagged(update_focus(k, t[d], n)) = (Flagged(h) \ On(p, d)) \cup {w}
  BY <1>1, <1>4, <1>6 DEF On
<1> QED BY <1>7 DEF k, give

\* Neither the trees nor the masters are changed by it.
LEMMA GivenKeeps ==
  ASSUME NEW h, NEW t, NEW p, Holds(h, t, p), NEW r, NEW n
  PROVE  /\ Holds(give(h, r, n), t, p)
         /\ Masters(h, p) => Masters(give(h, r, n), p)
<1> DEFINE k == set_focused(h, n, TRUE)
<1>1. h \in Heaps
  BY DEF Holds, Planted, Good
<1>2. k \in Heaps /\ Holds(k, t, p)
  BY <1>1, FlagShapes, HoldsFlagOps
<1>3. Masters(h, p) => Masters(k, p)
  BY <1>1, FocusOpsMasters
<1> HIDE DEF k
<1>4. Holds(update_focus(k, r, n), t, p) /\ (Masters(k, p) => Masters(update_focus(k, r, n), p))
  BY <1>2, HoldsFlagOps, FocusOpsMasters
<1> QED BY <1>3, <1>4 DEF k, give

\* The first window of a desktop, in the node n.
LEMMA FirstFlags ==
  ASSUME NEW h, Good(h), NEW n \in FreeNodes(h), NEW x, LoneRoot(x), x.client \in Windows
  PROVE  /\ x.is_focused => Flagged([h EXCEPT ![n] = x]) = Flagged(h) \cup {x.client}
         /\ ~x.is_focused => Flagged([h EXCEPT ![n] = x]) = Flagged(h)
<1> DEFINE k == [h EXCEPT ![n] = x]
<1>1. /\ n \in Nodes /\ h[n].client = NULL /\ h \in Heaps
      /\ k[n] = x /\ \A m \in Nodes \ {n} : k[m] = h[m]
  <2>1. n \in Nodes /\ h[n].type = "NONE" /\ h \in Heaps
    BY DEF FreeNodes, Good
  <2>2. Wired(h, n)
    BY <2>1, WiredIsWellLinked DEF Good
  <2> QED BY <2>1, <2>2 DEF Wired, Heaps
<1> HIDE DEF k
<1>2. NULL \notin Windows /\ x.is_focused \in BOOLEAN
  BY NullAssumption DEF LoneRoot, NodeRecords
<1>3. x.is_focused => Flagged(k) = Flagged(h) \cup {x.client}
  BY <1>1, <1>2 DEF Flagged
<1>4. ~x.is_focused => Flagged(k) = Flagged(h)
  BY <1>1, <1>2 DEF Flagged
<1> QED BY <1>3, <1>4 DEF k

\* The leaf n of h is split for the window w in k: the flags of n go to at with its
\* client, and new, the node of w, has none.
MarksSplit(h, k, n, at, new, w) ==
  /\ at # new /\ at # n /\ new # n
  /\ k[at].client = h[n].client
  /\ k[at].is_focused = h[n].is_focused /\ k[at].is_master = h[n].is_master
  /\ k[n].client = NULL /\ ~k[n].is_focused /\ ~k[n].is_master
  /\ k[new].client = w /\ ~k[new].is_focused /\ ~k[new].is_master
  /\ \A m \in Nodes \ {at, n, new} : k[m] = h[m]

\* That is what happens to the flags before a master is chosen.
LEMMA SplitFlags ==
  ASSUME NEW h, Good(h), NEW n, LeafNode(h, n), NEW r, NEW w \in Windows, NEW fl,
         \E a, b \in FreeNodes(h) : a # b
  PROVE  \E at, new \in FreeNodes(h) :
           MarksSplit(h, with_window(h, r, n, w, "DEFAULT", fl), n, at, new, w)
<1> DEFINE new == Malloc(FreeNodes(h))
           b   == w \in Dialogs
           x   == [create_node(w, "EXTERNAL", NULL) EXCEPT !.frect = b]
           h1  == [h EXCEPT ![new] = x]
           at  == Malloc(FreeNodes(h1))
           k   == insert_node(h1, n, at, new, fl)
<1>1. with_window(h, r, n, w, "DEFAULT", fl) = k
  BY DEF with_window
<1>2. new \in FreeNodes(h)
  BY MallocAssumption DEF FreeNodes
<1>3. /\ x.type = "EXTERNAL" /\ x.client = w /\ x.is_focused = FALSE /\ x.is_master = FALSE
      /\ x \in NodeRecords
  <2>1. b \in BOOLEAN  OBVIOUS
  <2> HIDE DEF b
  <2>2. x \in NodeRecords
    BY <2>1, NewNode DEF NodeTypes
  <2> QED BY <2>2 DEF create_node, FreeNode
<1> HIDE DEF x, new
<1>4. h \in Heaps /\ n \in Nodes /\ new \in Nodes /\ h[n].type # "NONE" /\ h[new].type = "NONE"
  BY <1>2 DEF Good, FreeNodes, LeafNode
<1>5. h1[new] = x /\ \A m \in Nodes \ {new} : h1[m] = h[m]
  BY <1>4 DEF Heaps
<1> HIDE DEF h1
<1>6. FreeNodes(h1) = FreeNodes(h) \ {new}
  BY <1>3, <1>4, <1>5 DEF FreeNodes
<1>7. at \in FreeNodes(h) \ {new}
  <2>1. FreeNodes(h1) # {} /\ FreeNodes(h1) \in SUBSET Nodes
    BY <1>6 DEF FreeNodes
  <2> QED BY <1>6, <2>1, MallocAssumption
<1> HIDE DEF at
<1>8. at # n /\ new # n /\ at # new /\ at \in Nodes
  BY <1>4, <1>7 DEF FreeNodes
<1>9. /\ k[at] = [create_node(h1[n].client, "EXTERNAL", n) EXCEPT
                    !.is_focused = h1[n].is_focused,
                    !.is_master  = h1[n].is_master,
                    !.frect      = h1[n].frect /\ h1[n].client \in fl]
      /\ k[n] = [h1[n] EXCEPT !.type   = IF @ = "ROOT" THEN @ ELSE "INTERNAL",
                              !.client = NULL, !.first = at, !.second = new,
                              !.is_focused = FALSE, !.is_master = FALSE]
      /\ k[new] = [h1[new] EXCEPT !.parent = n, !.type = "EXTERNAL"]
      /\ \A m \in Nodes \ {at, n, new} : k[m] = h1[m]
  BY <1>4, <1>8 DEF insert_node
<1> HIDE DEF k
<1>10. h[n] \in NodeRecords
  BY <1>4 DEF Heaps
<1>11. /\ k[at].client = h[n].client
       /\ k[at].is_focused = h[n].is_focused /\ k[at].is_master = h[n].is_master
  BY <1>4, <1>5, <1>8, <1>9 DEF create_node, FreeNode
<1>12. k[n].client = NULL /\ k[n].is_focused = FALSE /\ k[n].is_master = FALSE
  BY <1>4, <1>5, <1>8, <1>9, <1>10 DEF NodeRecords
<1>13. k[new].client = w /\ k[new].is_focused = FALSE /\ k[new].is_master = FALSE
  BY <1>3, <1>5, <1>9 DEF NodeRecords
<1>14. \A m \in Nodes \ {at, n, new} : k[m] = h[m]
  BY <1>5, <1>9
<1>15. MarksSplit(h, k, n, at, new, w)
  BY <1>8, <1>11, <1>12, <1>13, <1>14 DEF MarksSplit
<1> QED BY <1>1, <1>2, <1>7, <1>15

\* with_window arranges the tree as arrange_tree does.
LEMMA WithArranges ==
  ASSUME NEW h, NEW r, r # NULL, NEW n, NEW w, NEW l, NEW fl
  PROVE  with_window(h, r, n, w, l, fl) =
           arrange_tree(with_window(h, r, n, w, "DEFAULT", fl), r, l, fl)
BY DEF with_window, arrange_tree

\* A new window, at a leaf, leaves the windows with the flag as they are.
LEMMA WithFlags ==
  ASSUME NEW h, NEW t, NEW p, Holds(h, t, p), NEW n, LeafNode(h, n), NEW r, r # NULL,
         NEW w \in Windows, NEW l, NEW fl, \E a, b \in FreeNodes(h) : a # b
  PROVE  Flagged(with_window(h, r, n, w, l, fl)) = Flagged(h)
<1> DEFINE k == with_window(h, r, n, w, "DEFAULT", fl)
<1>1. Good(h)
  BY DEF Holds, Planted
<1>2. k \in Heaps
  BY <1>1, WithWindowSplits
<1>3. PICK at, new \in FreeNodes(h) : MarksSplit(h, k, n, at, new, w)
  BY <1>1, SplitFlags
<1>4. with_window(h, r, n, w, l, fl) = arrange_tree(k, r, l, fl)
  BY WithArranges
<1> HIDE DEF k
<1>5. /\ n \in Nodes /\ at \in Nodes /\ new \in Nodes /\ NULL \notin Windows
      /\ h[at].client = NULL /\ h[new].client = NULL
  <2>1. \A m \in Nodes : h[m].type = "NONE" => h[m].client = NULL
    BY <1>1, WiredIsWellLinked DEF Good, Wired
  <2> QED BY <2>1, NullAssumption DEF FreeNodes, LeafNode
<1>6. ASSUME NEW v \in Flagged(h) PROVE v \in Flagged(k)
  <2>1. PICK m \in Nodes : h[m].client = v /\ h[m].is_focused /\ v \in Windows
    BY DEF Flagged
  <2>2. m \notin {at, new}
    BY <1>5, <2>1
  <2> QED BY <1>3, <1>5, <2>1, <2>2 DEF Flagged, MarksSplit
<1>7. ASSUME NEW v \in Flagged(k) PROVE v \in Flagged(h)
  <2>1. PICK m \in Nodes : k[m].client = v /\ k[m].is_focused /\ v \in Windows
    BY DEF Flagged
  <2>2. m \notin {n, new}
    BY <1>3, <1>5, <2>1 DEF MarksSplit
  <2> QED BY <1>3, <1>5, <2>1, <2>2 DEF Flagged, MarksSplit
<1>8. Flagged(k) = Flagged(h)
  BY <1>6, <1>7
<1> QED BY <1>2, <1>4, <1>8, MasterOpsFocus

\* unlink_node frees a node that holds no window and changes no flag of another.
LEMMA UnlinkKeeps ==
  ASSUME NEW h, Good(h), NEW n, LeafNode(h, n), NEW m \in Nodes
  PROVE  LET k == unlink_node(h, n)
         IN  \/ /\ k[m].client = h[m].client
                /\ k[m].is_focused = h[m].is_focused /\ k[m].is_master = h[m].is_master
             \/ h[m].client = NULL /\ k[m] = FreeNode
<1> DEFINE a == h[n].parent
           s == get_sibling(h, n)
           g == h[a].parent
<1>1. h \in Heaps /\ h[m] \in NodeRecords
  BY DEF Good, Heaps
<1>2. a # NULL => /\ a \in Nodes \ {n} /\ h[a].client = NULL
                  /\ unlink_node(h, n)[a] = FreeNode
  BY UnlinkDetaches DEF SplicedFrom
<1>3. unlink_node(h, n) = IF a = NULL THEN h ELSE splice(h, n, a, s, g)
  BY DEF unlink_node
<1> HIDE DEF a, s, g
<1> DEFINE k == splice(h, n, a, s, g)
<1>4. m # a => /\ k[m].client = h[m].client
               /\ k[m].is_focused = h[m].is_focused /\ k[m].is_master = h[m].is_master
  <2>1. k[m] = CASE m = a -> FreeNode
                 [] m = n -> [h[n] EXCEPT !.parent = NULL]
                 [] m = s -> [h[s] EXCEPT !.parent = g, !.type = IF g = NULL THEN "ROOT" ELSE @]
                 [] m = g -> [h[g] EXCEPT !.first  = IF @ = a THEN s ELSE @,
                                          !.second = IF h[g].first = a THEN @ ELSE s]
                 [] OTHER -> h[m]
    BY DEF splice
  <2> HIDE DEF k
  <2>3. CASE m # a /\ m = n  BY <1>1, <2>1, <2>3 DEF NodeRecords
  <2>4. CASE m # a /\ m # n /\ m = s  BY <1>1, <2>1, <2>4 DEF NodeRecords
  <2>5. CASE m # a /\ m # n /\ m # s /\ m = g  BY <1>1, <2>1, <2>5 DEF NodeRecords
  <2>6. CASE m \notin {a, n, s, g}  BY <2>1, <2>6
  <2> QED BY <2>3, <2>4, <2>5, <2>6
<1> QED BY <1>2, <1>3, <1>4

\* Hence the same windows have the flag.
LEMMA UnlinkFlags ==
  ASSUME NEW h, Good(h), NEW n, LeafNode(h, n)
  PROVE  Flagged(unlink_node(h, n)) = Flagged(h)
<1> DEFINE k == unlink_node(h, n)
<1>1. \A m \in Nodes : \/ k[m].client = h[m].client /\ k[m].is_focused = h[m].is_focused
                       \/ h[m].client = NULL /\ k[m].client = NULL
  BY UnlinkKeeps DEF FreeNode
<1> HIDE DEF k
<1>2. Flagged(k) = Flagged(h)
  BY <1>1, NullAssumption DEF Flagged
<1> QED BY <1>2 DEF k

\* The window of the node that is freed or leaked loses its flag.
LEMMA FreeFlags ==
  ASSUME NEW h, NEW t, NEW p, NEW n, HoldsBut(h, t, p, n), NEW k, Gone(h, k, n)
  PROVE  Flagged(k) = Flagged(h) \ {h[n].client}
<1>1. /\ n \in Nodes /\ h[n].client # NULL
      /\ \A m, j \in Nodes : h[m].client # NULL /\ h[m].client = h[j].client => m = j
      /\ k[n].client = NULL /\ \A m \in Nodes \ {n} : k[m] = h[m]
  BY DEF HoldsBut, Uprooted, Detached, Houses, Gone
<1> QED BY <1>1, NullAssumption DEF Flagged

\* Siblings that change sides keep their flags.
LEMMA SwapFlags ==
  ASSUME NEW h \in Heaps, NEW n
  PROVE  /\ Flagged(swap_node(h, n)) = Flagged(h)
         /\ \A p : Masters(h, p) => Masters(swap_node(h, n), p)
<1>1. \A m \in Nodes : /\ swap_node(h, n)[m].client = h[m].client
                       /\ swap_node(h, n)[m].is_focused = h[m].is_focused
                       /\ swap_node(h, n)[m].is_master = h[m].is_master
  BY DEF swap_node, Heaps, NodeRecords
<1> QED BY <1>1, SameFlagged, SameMasters

\* transfer_node: the window of the leaf that is split loses the flag, the one that comes
\* keeps it.
LEMMA TransferFlags ==
  ASSUME NEW h, NEW t, NEW p, NEW n, HoldsBut(h, t, p, n), NEW leaf, LeafNode(h, leaf),
         leaf # n, FreeNodes(h) # {}
  PROVE  Flagged(transfer_node(h, leaf, Malloc(FreeNodes(h)), n)) =
           Flagged(h) \ {h[leaf].client}
<1> DEFINE at == Malloc(FreeNodes(h))
           k  == transfer_node(h, leaf, at, n)
<1>1. at \in FreeNodes(h)
  BY MallocAssumption DEF FreeNodes
<1> HIDE DEF at
<1>2. /\ at \in Nodes /\ h[at].type = "NONE" /\ leaf \in Nodes /\ n \in Nodes
      /\ at # n /\ at # leaf /\ h[leaf].client # NULL
      /\ h[n] \in NodeRecords /\ h[leaf] \in NodeRecords
      /\ \A m, j \in Nodes : h[m].client # NULL /\ h[m].client = h[j].client => m = j
  BY <1>1 DEF HoldsBut, Uprooted, Detached, Houses, LeafNode, FreeNodes, Heaps
<1>3. h[at].client = NULL
  BY <1>2 DEF HoldsBut, Uprooted, Detached, Wired
<1>4. /\ k[at].client = h[leaf].client /\ k[at].is_focused = FALSE
      /\ k[leaf].client = NULL
      /\ k[n].client = h[n].client /\ k[n].is_focused = h[n].is_focused
      /\ \A m \in Nodes \ {at, leaf, n} : k[m] = h[m]
  BY <1>2 DEF transfer_node, create_node, FreeNode, NodeRecords
<1> HIDE DEF k
<1>5. Flagged(k) = Flagged(h) \ {h[leaf].client}
  <2>1. ASSUME NEW v \in Windows, NEW m \in Nodes, h[m].client = v, h[m].is_focused,
               v # h[leaf].client
        PROVE  v \in Flagged(k)
    BY <1>2, <1>3, <1>4, <2>1, NullAssumption DEF Flagged
  <2>2. ASSUME NEW v \in Windows, NEW m \in Nodes, k[m].client = v, k[m].is_focused
        PROVE  v \in Flagged(h) \ {h[leaf].client}
    BY <1>2, <1>3, <1>4, <2>2, NullAssumption DEF Flagged
  <2> QED BY <2>1, <2>2 DEF Flagged
<1> QED BY <1>5 DEF k, at

-----------------------------------------------------------------------------
(* Masters through the operators.                                          *)

\* A master in the tree of desktop d is a leaf of it.
LEMMA MasterIsLeaf ==
  ASSUME NEW h, NEW t, NEW p, Holds(h, t, p), Masters(h, p), NEW d \in DesktopIds,
         NEW m \in Subtree(h, t[d]), h[m].is_master
  PROVE  m \in Nodes /\ m \in Leaves(h, t[d])
<1>1. Good(h) /\ t[d] \in Nodes \cup {NULL}
  BY DEF Holds, Planted
<1>2. m \in Nodes
  BY <1>1, SubtreeNodes
<1>3. Wired(h, m) /\ h[m].client # NULL
  BY <1>1, <1>2, WiredIsWellLinked DEF Good, Masters
<1> QED BY <1>2, <1>3 DEF Leaves, IsLeaf, Wired

\* master_clean_up leaves its tree without a master.
LEMMA MastersCleanUp ==
  ASSUME NEW h, NEW t, NEW p, Holds(h, t, p), Masters(h, p), NEW d \in DesktopIds
  PROVE  LET k == master_clean_up(h, t[d])
         IN  /\ Masters(k, p)
             /\ \A m \in Nodes : ~(k[m].is_master /\ p[k[m].client] = d)
<1> DEFINE k == master_clean_up(h, t[d])
           S == Subtree(h, t[d])
<1>1. h \in Heaps
  BY DEF Holds, Planted, Good
<1>2. \A m \in Nodes : /\ k[m].client = h[m].client
                       /\ k[m].is_master = (h[m].is_master /\ m \notin S)
  BY <1>1 DEF master_clean_up, Heaps, NodeRecords
<1>3. \A m \in Nodes : h[m].client # NULL /\ p[h[m].client] = d => m \in S
  BY LeafIs DEF Leaves
<1> HIDE DEF k, S
<1>4. Masters(k, p)
  BY <1>2 DEF Masters
<1>5. \A m \in Nodes : ~(k[m].is_master /\ p[k[m].client] = d)
  BY <1>2, <1>3 DEF Masters
<1> QED BY <1>4, <1>5 DEF k

\* master_layout makes a leaf the master of a tree that has no other.
LEMMA MastersLayout ==
  ASSUME NEW h, NEW t, NEW p, Holds(h, t, p), Masters(h, p), NEW d \in DesktopIds,
         NEW n \in Leaves(h, t[d]) \cup {NULL}, NEW fl,
         \A m \in Nodes : h[m].is_master /\ p[h[m].client] = d => m = n
  PROVE  Masters(master_layout(h, t[d], n, fl), p)
<1> DEFINE j == IF n = NULL THEN find_any_leaf(h, t[d], fl) ELSE n
           k == master_layout(h, t[d], n, fl)
<1>1. k = IF j = NULL THEN h ELSE [h EXCEPT ![j].is_master = TRUE]
  BY DEF master_layout
<1>2. j # NULL => j \in Leaves(h, t[d])
  BY AnyLeafResult DEF Holds, Planted
<1>3. \A m \in Nodes : h[m].is_master /\ p[h[m].client] = d => m = j
  BY NullAssumption
<1> HIDE DEF j, k
<1>4. CASE j = NULL
  BY <1>1, <1>4 DEF k
<1>5. CASE j # NULL
  <2>1. j \in Nodes /\ h[j].client # NULL /\ p[h[j].client] = d /\ h \in Heaps
    BY <1>2, <1>5, LeafPlaced, NullAssumption DEF Holds, Planted, Good
  <2>2. \A m \in Nodes : /\ k[m].client = h[m].client
                         /\ k[m].is_master = (h[m].is_master \/ m = j)
    BY <1>1, <1>5, <2>1 DEF Heaps, NodeRecords
  <2>3. \A m \in Nodes : k[m].is_master => h[m].is_master \/ m = j
    BY <2>2
  <2>4. ASSUME NEW a \in Nodes, NEW b \in Nodes, k[a].is_master, k[b].is_master,
               p[k[a].client] = p[k[b].client]
        PROVE  a = b
    <3>1. p[h[a].client] = p[h[b].client]
      BY <2>2, <2>4
    <3>2. (h[a].is_master \/ a = j) /\ (h[b].is_master \/ b = j)
      BY <2>3, <2>4
    <3> QED BY <1>3, <2>1, <3>1, <3>2 DEF Masters
  <2>5. \A m \in Nodes : k[m].is_master => k[m].client # NULL
    BY <2>1, <2>2, <2>3 DEF Masters
  <2>6. Masters(k, p)
    BY <2>4, <2>5 DEF Masters
  <2> QED BY <2>6 DEF k
<1> QED BY <1>4, <1>5

\* arrange_tree chooses a master only when the tree has none.
LEMMA MastersArrange ==
  ASSUME NEW h, NEW t, NEW p, Holds(h, t, p), Masters(h, p), NEW d \in DesktopIds,
         NEW l, NEW fl
  PROVE  Masters(arrange_tree(h, t[d], l, fl), p)
<1> DEFINE n == find_master_node(h, t[d])
           S == {m \in Subtree(h, t[d]) : h[m].is_master}
<1>1. Good(h) /\ t[d] \in Nodes \cup {NULL}
  BY DEF Holds, Planted
<1>2. IF S = {} THEN n = NULL ELSE n \in S
  <2>1. S \in SUBSET Subtree(h, t[d])  OBVIOUS
  <2> QED BY <1>1, <2>1, GoodIsForest, FirstInFinds DEF find_master_node
<1>3. \A m \in S : m \in Nodes /\ m \in Leaves(h, t[d])
  BY MasterIsLeaf
<1>4. \A m \in Nodes : h[m].is_master /\ p[h[m].client] = d => m \in S
  BY LeafIs DEF Leaves, Masters
<1>5. \A m \in S : p[h[m].client] = d
  BY <1>3, LeafPlaced
<1> HIDE DEF n, S
<1>6. n \in Leaves(h, t[d]) \cup {NULL}
  BY <1>2, <1>3
<1>7. \A m \in Nodes : h[m].is_master /\ p[h[m].client] = d => m = n
  <2> SUFFICES ASSUME NEW m \in Nodes, h[m].is_master, p[h[m].client] = d PROVE m = n
    OBVIOUS
  <2>1. m \in S /\ n \in S
    BY <1>2, <1>4
  <2>2. n \in Nodes /\ h[n].is_master /\ p[h[n].client] = d
    BY <1>3, <1>5, <2>1 DEF S
  <2> QED BY <2>2 DEF Masters
<1>8. Masters(master_layout(h, t[d], n, fl), p)
  BY <1>6, <1>7, MastersLayout
<1> QED BY <1>8 DEF arrange_tree, n

\* A window that is in no node becomes the first of desktop d, and is not a master.
LEMMA MastersFirst ==
  ASSUME NEW h, NEW t, NEW p, Holds(h, t, p), Masters(h, p), NEW n \in FreeNodes(h), NEW x,
         ~x.is_master, NEW w, p[w] = NULL, NEW d
  PROVE  Masters([h EXCEPT ![n] = x], [p EXCEPT ![w] = d])
<1> DEFINE k == [h EXCEPT ![n] = x]
           q == [p EXCEPT ![w] = d]
<1>1. n \in Nodes /\ k[n] = x /\ \A m \in Nodes \ {n} : k[m] = h[m]
  BY DEF FreeNodes, Holds, Planted, Good, Heaps
<1>2. \A m \in Nodes : h[m].client # NULL => p[h[m].client] # NULL
  BY NodePlaced, DesktopsAssumption
<1>3. \A m \in Nodes : h[m].client # NULL => q[h[m].client] = p[h[m].client]
  BY <1>2 DEF Holds, Houses
<1> HIDE DEF k, q
<1>4. Masters(k, q)
  BY <1>1, <1>3 DEF Masters
<1> QED BY <1>4 DEF k, q

\* The same for a window at a leaf of desktop d.
LEMMA MastersWith ==
  ASSUME NEW h, NEW t, NEW p, Holds(h, t, p), Masters(h, p), NEW d \in DesktopIds,
         NEW n \in Leaves(h, t[d]), NEW w \in Windows, p[w] = NULL, NEW l, NEW fl,
         \E a, b \in FreeNodes(h) : a # b
  PROVE  Masters(with_window(h, t[d], n, w, l, fl), [p EXCEPT ![w] = d])
<1> DEFINE k == with_window(h, t[d], n, w, "DEFAULT", fl)
           q == [p EXCEPT ![w] = d]
<1>1. /\ Good(h) /\ LeafNode(h, n) /\ n \in Nodes /\ p[h[n].client] = d
      /\ t[d] # NULL
  <2>1. Good(h) /\ LeafNode(h, n) /\ n \in Nodes /\ p[h[n].client] = d
    BY LeafPlaced DEF Holds, Planted
  <2>2. t[d] # NULL
    BY DEF Leaves, Subtree
  <2> QED BY <2>1, <2>2
<1>2. Holds(k, t, q)
  BY <1>1, HoldsWith
<1>3. PICK at, new \in FreeNodes(h) : MarksSplit(h, k, n, at, new, w)
  BY <1>1, SplitFlags
<1>4. with_window(h, t[d], n, w, l, fl) = arrange_tree(k, t[d], l, fl)
  BY <1>1, WithArranges
<1>5. \A m \in Nodes : h[m].client # NULL => q[h[m].client] = p[h[m].client]
  <2>1. \A m \in Nodes : h[m].client # NULL => p[h[m].client] # NULL
    BY NodePlaced, DesktopsAssumption
  <2> QED BY <2>1 DEF Holds, Houses
<1>6. h[n].client # NULL
  BY <1>1 DEF LeafNode
<1> HIDE DEF k, q
<1>7. \A m \in Nodes : k[m].is_master =>
        /\ k[m].client # NULL
        /\ \E j \in Nodes : /\ h[j].is_master /\ h[j].client # NULL
                            /\ q[k[m].client] = p[h[j].client]
                            /\ IF m = at THEN j = n ELSE j = m /\ m # n
  <2> SUFFICES ASSUME NEW m \in Nodes, k[m].is_master
               PROVE  /\ k[m].client # NULL
                      /\ \E j \in Nodes : /\ h[j].is_master /\ h[j].client # NULL
                                          /\ q[k[m].client] = p[h[j].client]
                                          /\ IF m = at THEN j = n ELSE j = m /\ m # n
    OBVIOUS
  <2>1. CASE m = at
    BY <1>1, <1>3, <1>5, <1>6, <2>1 DEF MarksSplit
  <2>2. CASE m # at
    <3>1. m \notin {n, new} /\ k[m] = h[m]
      BY <1>3, <2>2 DEF MarksSplit
    <3> QED BY <1>5, <2>2, <3>1 DEF Masters
  <2> QED BY <2>1, <2>2
<1>8. Masters(k, q)
  <2>1. ASSUME NEW a \in Nodes, NEW b \in Nodes, k[a].is_master, k[b].is_master,
               q[k[a].client] = q[k[b].client]
        PROVE  a = b
    <3>1. PICK i \in Nodes : /\ h[i].is_master /\ q[k[a].client] = p[h[i].client]
                             /\ IF a = at THEN i = n ELSE i = a /\ a # n
      BY <1>7, <2>1
    <3>2. PICK j \in Nodes : /\ h[j].is_master /\ q[k[b].client] = p[h[j].client]
                             /\ IF b = at THEN j = n ELSE j = b /\ b # n
      BY <1>7, <2>1
    <3>3. i = j
      BY <2>1, <3>1, <3>2 DEF Masters
    <3> QED BY <3>1, <3>2, <3>3
  <2> QED BY <1>7, <2>1 DEF Masters
<1>9. Masters(arrange_tree(k, t[d], l, fl), q)
  BY <1>2, <1>8, MastersArrange
<1> QED BY <1>4, <1>9 DEF q

\* A window leaves: its node is unlinked and freed.
LEMMA MastersClose ==
  ASSUME NEW h, NEW t, NEW p, Holds(h, t, p), Masters(h, p), NEW n, LeafNode(h, n)
  PROVE  Masters(free_node(unlink_node(h, n), n), [p EXCEPT ![h[n].client] = NULL])
<1> DEFINE k == unlink_node(h, n)
           j == free_node(k, n)
           w == h[n].client
           q == [p EXCEPT ![w] = NULL]
<1>1. Good(h) /\ n \in Nodes /\ w # NULL
  BY DEF Holds, Planted, LeafNode
<1>2. \A m \in Nodes : k[m].is_master => k[m].client = h[m].client /\ h[m].is_master
  BY <1>1, UnlinkKeeps DEF FreeNode
<1>3. k \in Heaps
  BY <1>1, UnlinkDetaches DEF Detached
<1> HIDE DEF k
<1>4. \A m \in Nodes : j[m].is_master => m # n /\ j[m] = k[m]
  BY <1>1, <1>3 DEF free_node, FreeNode, Heaps
<1>5. \A m \in Nodes : m # n /\ h[m].client # NULL => q[h[m].client] = p[h[m].client]
  <2>1. \A m \in Nodes : m # n /\ h[m].client # NULL => h[m].client # w /\ h[m].client \in Windows
    BY <1>1, NodePlaced DEF Holds, Houses
  <2> QED BY <2>1 DEF Holds, Houses
<1> HIDE DEF j, q
<1>6. Masters(j, q)
  BY <1>2, <1>4, <1>5 DEF Masters
<1> QED BY <1>6 DEF j, k, q

-----------------------------------------------------------------------------
(* What a step does to the focus.                                          *)

\* No desktop has the stack layout.
NoStack == \A d \in DesktopIds : layout[d] # "STACK"

\* No flag changes; a new window may come where it is not given the focus.
Quiet ==
  /\ Flagged(heap') = Flagged(heap)
  /\ UNCHANGED <<last_focused, focused_win, curr>>
  /\ \/ placed' = placed
     \/ \E w \in Windows, d \in DesktopIds :
          /\ placed[w] = NULL /\ placed' = [placed EXCEPT ![w] = d]
          /\ d = curr => ~FocusFollowSpawn

\* The first window of the current desktop carries the flag from the start, even when
\* new windows are not given the focus.
FirstOf(w) ==
  /\ ~FocusFollowSpawn /\ On(placed, curr) = {}
  /\ placed[w] = NULL /\ placed' = [placed EXCEPT ![w] = curr]
  /\ Flagged(heap') = Flagged(heap) \cup {w}
  /\ UNCHANGED <<last_focused, focused_win, curr>>

\* The focus is given to a window of the current desktop, which may be new.
Given(w) ==
  /\ w \in On(placed', curr)
  /\ \/ placed' = placed
     \/ placed[w] = NULL /\ placed' = [placed EXCEPT ![w] = curr]
  /\ Flagged(heap') = (Flagged(heap) \ On(placed', curr)) \cup {w}
  /\ last_focused' = remember(w)
  /\ focused_win' = w \/ "cycle_window" \in Keys
  /\ UNCHANGED curr

\* A fullscreen window is given the focus: the others lose the flag, it gains none.
GivenFullscreen(w) ==
  /\ w \in On(placed, curr) /\ state[w] = "FULLSCREEN"
  /\ placed' = placed
  /\ Flagged(heap') = Flagged(heap) \ (On(placed, curr) \ {w})
  /\ last_focused' = remember(w) /\ focused_win' = w
  /\ UNCHANGED curr

\* A window leaves its desktop.
Withdrawn(w) ==
  /\ placed[w] # NULL /\ placed' = [placed EXCEPT ![w] = NULL]
  /\ Flagged(heap') = Flagged(heap) \ {w}
  /\ focused_win' \in {focused_win, NULL}
  /\ \/ last_focused' = last_focused
     \/ /\ last_focused' = [last_focused EXCEPT ![placed[w]] = NULL]
        /\ On(placed', placed[w]) = {}
  /\ UNCHANGED curr

\* Another desktop is shown, and its last focused window may be given the focus again.
Shown(d) ==
  LET rest == Flagged(heap) \ On(placed, curr)
      w    == last_focused[d]
  IN  /\ d # curr /\ curr' = d /\ placed' = placed
      /\ UNCHANGED last_focused
      /\ \/ Flagged(heap') = rest /\ focused_win' = NULL
         \/ /\ w \in On(placed, d)
            /\ Flagged(heap') = (rest \ On(placed, d)) \cup {w} /\ focused_win' = w

\* Along the stack windows gain the flag and none loses it.
Traversed ==
  /\ "traverse" \in Keys
  /\ Flagged(heap) \subseteq Flagged(heap')
  /\ placed' = placed
  /\ UNCHANGED <<last_focused, focused_win, curr>>

\* A window leaves the current desktop for another one, where one may lose the flag.
Transferred(w) ==
  /\ "transfer_node" \in Keys
  /\ w \in On(placed, curr) /\ placed'[w] # curr
  /\ \A v \in Windows \ {w} : placed'[v] = placed[v]
  /\ (Flagged(heap) \cap On(placed, curr)) \ {w} \subseteq Flagged(heap')
  /\ UNCHANGED <<last_focused, focused_win, curr>>

\* What a step does to the focus when no desktop has the stack layout and no pager moves
\* windows.
FocusStep ==
  \/ Quiet \/ Traversed
  \/ \E w \in Windows : \/ FirstOf(w) \/ Given(w) \/ GivenFullscreen(w)
                        \/ Withdrawn(w) \/ Transferred(w)
  \/ \E d \in DesktopIds : Shown(d)

\* A step keeps the desktops from having two masters.
MastersStep == Masters(heap, placed) => Masters(heap', placed')

\* The placement after a step is the one the heap and the trees hold.
LEMMA PlacedNext ==
  ASSUME NEW q, Holds(heap', tree', q)
  PROVE  placed' = q
<1>1. PlaceIn(heap', tree') = q
  BY PlacementIs
<1> QED BY <1>1 DEF placed, PlaceIn

\* A step that changes nothing of the heap and the trees.
LEMMA NothingMoves ==
  ASSUME UNCHANGED <<heap, tree>>
  PROVE  placed' = placed /\ Flagged(heap') = Flagged(heap) /\ MastersStep
<1>1. placed' = placed
  BY DEF placed
<1> QED BY <1>1 DEF MastersStep

\* Nor of the other records of the focus.
LEMMA NothingMovesQuiet ==
  ASSUME UNCHANGED <<heap, tree, last_focused, focused_win, curr>>
  PROVE  MastersStep /\ FocusStep
<1>1. placed' = placed /\ Flagged(heap') = Flagged(heap) /\ MastersStep
  BY NothingMoves
<1> QED BY <1>1 DEF Quiet, FocusStep

-----------------------------------------------------------------------------
(* Map requests.                                                           *)

\* The heap h with the trees u, in which the new window w is on desktop d.
Admits(w, d, h, u) ==
  LET q == [placed EXCEPT ![w] = d]
  IN  /\ Holds(h, u, q)
      /\ Masters(heap, placed) => Masters(h, q)
      /\ \/ Flagged(h) = Flagged(heap)
         \/ d = curr /\ On(placed, d) = {} /\ Flagged(h) = Flagged(heap) \cup {w}

\* The first window of a desktop that has none.
LEMMA AdmitFirst ==
  ASSUME PInv, NEW w \in Windows, MapRequested(w), NEW d \in DesktopIds, tree[d] = NULL,
         NEW n \in FreeNodes(heap), NEW x, LoneRoot(x), x.client = w, ~x.is_master,
         x.is_focused => d = curr
  PROVE  Admits(w, d, [heap EXCEPT ![n] = x], [tree EXCEPT ![d] = n])
<1> DEFINE q == [placed EXCEPT ![w] = d]
           h == [heap EXCEPT ![n] = x]
<1>1. placed[w] = NULL
  BY RequestedUnplaced
<1>2. Holds(h, [tree EXCEPT ![d] = n], q)
  BY <1>1, PInvFacts, HoldsFirst
<1>3. Masters(heap, placed) => Masters(h, q)
  BY <1>1, PInvFacts, MastersFirst
<1>4. On(placed, d) = {}
  <2>1. WindowsOf(heap, tree[d]) = {}
    BY DEF WindowsOf, Leaves, Subtree
  <2> QED BY <2>1, PInvFacts, WindowsPlaced DEF On
<1>5. /\ x.is_focused => Flagged(h) = Flagged(heap) \cup {w}
      /\ ~x.is_focused => Flagged(h) = Flagged(heap)
  BY PInvFacts, FirstFlags
<1> HIDE DEF h
<1> QED BY <1>2, <1>3, <1>4, <1>5 DEF Admits, h

\* A node that malloc returns for a window that is requested.
LEMMA NodeForRequest ==
  ASSUME NEW w, MapRequested(w)
  PROVE  Malloc(FreeNodes(heap)) \in FreeNodes(heap)
BY MallocAssumption DEF MapRequested, RoomToMap, FreeNodes

\* Another window, at a leaf n.
LEMMA AdmitWith ==
  ASSUME PInv, NEW w \in Windows, MapRequested(w), NEW d \in DesktopIds,
         NEW n \in Leaves(heap, tree[d]), NEW l, NEW fl
  PROVE  Admits(w, d, with_window(heap, tree[d], n, w, l, fl), tree)
<1> DEFINE h == with_window(heap, tree[d], n, w, l, fl)
           q == [placed EXCEPT ![w] = d]
<1>1. placed[w] = NULL
  BY RequestedUnplaced
<1>2. LeafNode(heap, n) /\ placed[heap[n].client] = d
  BY PInvFacts, LeafPlaced
<1>3. \E a, b \in FreeNodes(heap) : a # b
  BY DEF MapRequested, RoomToMap
<1>4. tree[d] # NULL
  BY DEF Leaves, Subtree
<1>5. Holds(h, tree, q)
  BY <1>1, <1>2, <1>3, PInvFacts, HoldsWith
<1>6. Masters(heap, placed) => Masters(h, q)
  BY <1>1, <1>3, PInvFacts, MastersWith
<1>7. Flagged(h) = Flagged(heap)
  BY <1>2, <1>3, <1>4, PInvFacts, WithFlags
<1> HIDE DEF h
<1> QED BY <1>5, <1>6, <1>7 DEF Admits, h

\* The end of handle_map_request.
LEMMA MapOutMarks ==
  ASSUME PInv, NEW w \in Windows, MapRequested(w), NEW h, NEW r, NEW st,
         Admits(w, curr, h, [tree EXCEPT ![curr] = r]), map_out(w, h, r, st)
  PROVE  MastersStep /\ (NoStack => FocusStep)
<1> DEFINE f == find_node_by_window_id(h, r, w)
           q == [placed EXCEPT ![w] = curr]
           u == [tree EXCEPT ![curr] = r]
           k == give(h, r, f)
           spawn == FocusFollowSpawn /\ layout[curr] # "STACK"
<1>1. /\ heap' = IF spawn THEN k ELSE h
      /\ focused_win' = IF spawn THEN w ELSE focused_win
      /\ last_focused' = IF spawn THEN remember(w) ELSE last_focused
      /\ tree' = u /\ curr' = curr
  BY DEF map_out, MapRequested, give
<1>2. /\ placed[w] = NULL /\ q[w] = curr /\ u[curr] = r /\ curr \in DesktopIds
      /\ \A v \in Windows \ {w} : q[v] = placed[v]
  BY RequestedUnplaced, PInvFacts
<1>3. Holds(h, u, q) /\ (Masters(heap, placed) => Masters(h, q))
  BY DEF Admits
<1>4. \/ Flagged(h) = Flagged(heap)
      \/ On(placed, curr) = {} /\ Flagged(h) = Flagged(heap) \cup {w}
  BY DEF Admits
<1> HIDE DEF u
<1>5. f \in Leaves(h, u[curr]) /\ h[f].client = w
  <2> HIDE DEF q
  <2> QED BY <1>2, <1>3, FindPlaced
<1> HIDE DEF f
<1>6. Flagged(k) = (Flagged(h) \ On(q, curr)) \cup {w}
  <2> HIDE DEF q
  <2> QED BY <1>2, <1>3, <1>5, GivenFlags
<1>7. Holds(k, u, q) /\ (Masters(h, q) => Masters(k, q))
  <2> HIDE DEF q
  <2> QED BY <1>3, GivenKeeps
<1> HIDE DEF k
<1>9. placed' = q
  <2> HIDE DEF q
  <2>1. Holds(heap', tree', q)
    BY <1>1, <1>3, <1>7
  <2> QED BY <2>1, PlacedNext
<1>10. MastersStep
  <2> HIDE DEF q
  <2> QED BY <1>1, <1>3, <1>7, <1>9 DEF MastersStep
<1>11. ASSUME NoStack, FocusFollowSpawn PROVE Given(w)
  <2>1. spawn
    BY <1>2, <1>11 DEF NoStack
  <2>2. w \in On(q, curr)
    BY <1>2 DEF On
  <2>3. (Flagged(h) \ On(q, curr)) \cup {w} = (Flagged(heap) \ On(q, curr)) \cup {w}
    BY <1>4, <2>2
  <2> QED BY <1>1, <1>2, <1>6, <1>9, <2>1, <2>2, <2>3 DEF Given
<1>12. ASSUME ~FocusFollowSpawn PROVE Quiet \/ FirstOf(w)
  <2>1. heap' = h /\ UNCHANGED <<last_focused, focused_win, curr>>
    BY <1>1, <1>12
  <2> QED BY <1>2, <1>4, <1>9, <1>12, <2>1 DEF Quiet, FirstOf
<1> QED BY <1>10, <1>11, <1>12 DEF FocusStep

\* The first window of a desktop.
LEMMA FirstWindowMarks ==
  ASSUME PInv, NEW w \in Windows, MapRequested(w), handle_first_window(w)
  PROVE  MastersStep /\ (NoStack => FocusStep)
<1> DEFINE n  == Malloc(FreeNodes(heap))
           b  == w \in Dialogs
           x  == [create_node(w, "ROOT", NULL) EXCEPT !.is_focused = TRUE, !.frect = b]
           h  == [heap EXCEPT ![n] = x]
           st == [state EXCEPT ![w] = initial_state(w)]
<1>1. tree[curr] = NULL /\ map_out(w, h, n, st)
  BY DEF handle_first_window
<1>2. b \in BOOLEAN /\ curr \in DesktopIds /\ n \in FreeNodes(heap)
  BY PInvFacts, NodeForRequest
<1> HIDE DEF b
<1>3. LoneRoot(x) /\ x.client = w /\ ~x.is_master
  <2>1. x.client = w /\ ~x.is_master
    BY DEF create_node, FreeNode
  <2> QED BY <1>2, <2>1, NewRoots
<1> HIDE DEF x, n
<1>4. Admits(w, curr, h, [tree EXCEPT ![curr] = n])
  BY <1>1, <1>2, <1>3, AdmitFirst
<1> HIDE DEF h, st
<1> QED BY <1>1, <1>4, MapOutMarks

\* A map request that is dropped.
LEMMA DroppedMarks ==
  ASSUME NEW w, MapRequested(w),
         UNCHANGED <<heap, tree, n_count, focus_vars, state, mapped>>
  PROVE  MastersStep /\ FocusStep
BY NothingMovesQuiet DEF MapRequested, focus_vars

\* A tiled window on a desktop that has windows.
LEMMA SubsequentWindowMarks ==
  ASSUME PInv, NEW w \in Windows, MapRequested(w), handle_subsequent_window(w)
  PROVE  MastersStep /\ (NoStack => FocusStep)
<1> DEFINE r   == tree[curr]
           f   == get_focused_node(heap, r)
           n   == IF f # NULL /\ heap[f].client \in floating /\ heap[f].type # "ROOT"
                  THEN find_any_leaf(heap, r, floating) ELSE f
           st0 == unfullscreened(state, heap[n].client)
           st  == [st0 EXCEPT ![w] = "TILED"]
           fl  == {v \in Windows : st[v] = "FLOATING"}
           h   == with_window(heap, r, n, w, layout[curr], fl)
           new == find_node_by_window_id(h, r, w)
           h2  == IF layout[curr] = "STACK" THEN set_focused(h, new, TRUE) ELSE h
<1>1. IF n = NULL THEN UNCHANGED <<heap, tree, n_count, focus_vars, state, mapped>>
      ELSE map_out(w, h2, r, st)
  BY DEF handle_subsequent_window
<1>2. n # NULL => n \in Leaves(heap, r)
  BY PInvFacts, FocusedResult, AnyLeafResult
<1>3. [tree EXCEPT ![curr] = r] = tree /\ curr \in DesktopIds
  BY PInvFacts
<1>4. CASE n = NULL
  BY <1>1, <1>4, DroppedMarks
<1>5. CASE n # NULL
  <2> HIDE DEF n, st, fl
  <2>1. Admits(w, curr, h, tree)
    BY <1>2, <1>3, <1>5, AdmitWith
  <2> HIDE DEF h
  <2>2. NoStack => h2 = h
    BY <1>3 DEF NoStack
  <2>3. map_out(w, h2, r, st)
    BY <1>1, <1>5
  <2>4. CASE NoStack
    <3> HIDE DEF h2, r
    <3>1. Admits(w, curr, h2, [tree EXCEPT ![curr] = r])
      BY <1>3, <2>1, <2>2, <2>4
    <3> QED BY <2>3, <3>1, MapOutMarks
  <2>5. CASE ~NoStack
    <3> DEFINE q == [placed EXCEPT ![w] = curr]
               g == find_node_by_window_id(h2, r, w)
    <3>1. Holds(h, tree, q) /\ (Masters(heap, placed) => Masters(h, q))
      BY <2>1 DEF Admits
    <3>2. /\ heap' = give(h2, r, g) \/ heap' = h2
          /\ tree' = tree
      BY <1>3, <2>3 DEF map_out, give
    <3> HIDE DEF q, g
    <3>3. Holds(h2, tree, q) /\ (Masters(h, q) => Masters(h2, q))
      <4>1. h \in Heaps
        BY <3>1 DEF Holds, Planted, Good
      <4> QED BY <3>1, <4>1, HoldsFlagOps, FocusOpsMasters
    <3> HIDE DEF h2
    <3>4. Holds(give(h2, r, g), tree, q) /\ (Masters(h2, q) => Masters(give(h2, r, g), q))
      BY <3>3, GivenKeeps
    <3>5. Holds(heap', tree', q) /\ (Masters(h2, q) => Masters(heap', q))
      BY <3>2, <3>3, <3>4
    <3>7. placed' = q
      BY <3>5, PlacedNext
    <3> QED BY <2>5, <3>1, <3>3, <3>5, <3>7 DEF MastersStep
  <2> QED BY <2>4, <2>5
<1> QED BY <1>4, <1>5

\* A window that floats, on a desktop that has windows.
LEMMA FloatingWindowMarks ==
  ASSUME PInv, NEW w \in Windows, NEW p \in Windows \cup {NULL}, MapRequested(w),
         handle_floating_window(w, p)
  PROVE  MastersStep /\ (NoStack => FocusStep)
<1> DEFINE r  == tree[curr]
           u  == find_node_by_window_id(heap, r, p)
           n  == IF u = NULL THEN find_any_leaf(heap, r, floating) ELSE u
           st == [state EXCEPT ![w] = "FLOATING"]
           fl == floating \cup {w}
           h  == with_window(heap, r, n, w, layout[curr], fl)
<1>1. IF p = NULL \/ n = NULL
      THEN UNCHANGED <<heap, tree, n_count, focus_vars, state, mapped>>
      ELSE map_out(w, h, r, st)
  BY DEF handle_floating_window
<1>2. p # NULL /\ n # NULL => n \in Leaves(heap, r)
  BY PInvFacts, FindPlaced, AnyLeafResult
<1>3. [tree EXCEPT ![curr] = r] = tree /\ curr \in DesktopIds
  BY PInvFacts
<1>4. CASE p = NULL \/ n = NULL
  BY <1>1, <1>4, DroppedMarks
<1>5. CASE ~(p = NULL \/ n = NULL)
  <2> HIDE DEF n, st, fl
  <2>1. Admits(w, curr, h, tree)
    BY <1>2, <1>3, <1>5, AdmitWith
  <2> HIDE DEF h, r
  <2>2. Admits(w, curr, h, [tree EXCEPT ![curr] = r]) /\ map_out(w, h, r, st)
    BY <1>1, <1>3, <1>5, <2>1
  <2> QED BY <2>2, MapOutMarks
<1> QED BY <1>4, <1>5

\* A window whose rule sends it to another desktop.
LEMMA RuleMarks ==
  ASSUME PInv, NEW w \in Windows, MapRequested(w), NEW d \in DesktopIds, d # curr,
         insert_into_desktop(w, d)
  PROVE  MastersStep /\ (NoStack => FocusStep)
<1> DEFINE r   == tree[d]
           n   == IF r = NULL THEN NULL ELSE find_any_leaf(heap, r, floating)
           st0 == IF n = NULL \/ w \in Dialogs THEN state
                  ELSE unfullscreened(state, heap[n].client)
           st  == [st0 EXCEPT ![w] = initial_state(w)]
           fl  == {v \in Windows : st[v] = "FLOATING"}
           top == Malloc(FreeNodes(heap))
           b   == w \in Dialogs
           x   == [create_node(w, "ROOT", NULL) EXCEPT !.frect = b]
           h0  == [heap EXCEPT ![top] = x]
           h1  == with_window(heap, r, n, w, layout[d], fl)
           h   == IF r = NULL THEN h0 ELSE h1
           new == find_node_by_window_id(h, r, w)
           q   == [placed EXCEPT ![w] = d]
<1>1. CASE r # NULL /\ n = NULL
  <2>1. UNCHANGED <<heap, tree, n_count, focus_vars, state, mapped>>
    BY <1>1 DEF insert_into_desktop
  <2> QED BY <2>1, DroppedMarks
<1>2. CASE ~(r # NULL /\ n = NULL)
  <2>1. /\ heap' = IF r # NULL /\ layout[d] = "STACK" /\ w \notin Dialogs
                   THEN set_focused(h, new, TRUE) ELSE h
        /\ tree' = [tree EXCEPT ![d] = IF r = NULL THEN top ELSE r]
        /\ UNCHANGED <<last_focused, focused_win, curr>>
    BY <1>2 DEF insert_into_desktop, MapRequested, focus_vars
  <2>2. placed[w] = NULL
    BY RequestedUnplaced
  <2>3. Admits(w, d, h, tree')
    <3>1. CASE r = NULL
      <4>1. b \in BOOLEAN /\ top \in FreeNodes(heap)
        BY NodeForRequest
      <4> HIDE DEF b
      <4>2. LoneRoot(x) /\ x.client = w /\ ~x.is_master /\ ~x.is_focused
        <5>1. x.client = w /\ ~x.is_master /\ ~x.is_focused
          BY DEF create_node, FreeNode
        <5> QED BY <4>1, <5>1, NewRoots
      <4> HIDE DEF x, top, h1
      <4>3. Admits(w, d, h0, [tree EXCEPT ![d] = top])
        BY <3>1, <4>1, <4>2, AdmitFirst
      <4> QED BY <2>1, <3>1, <4>3
    <3>2. CASE r # NULL
      <4>1. n \in Leaves(heap, r)
        BY <1>2, <3>2, PInvFacts, AnyLeafResult
      <4> HIDE DEF n, fl, h0
      <4>2. Admits(w, d, h1, tree)
        BY <4>1, AdmitWith
      <4>3. tree' = tree
        BY <2>1, <3>2, PInvFacts
      <4> HIDE DEF h1
      <4> QED BY <3>2, <4>2, <4>3
    <3> QED BY <3>1, <3>2
  <2> HIDE DEF h
  <2>4. Holds(h, tree', q) /\ (Masters(heap, placed) => Masters(h, q))
        /\ Flagged(h) = Flagged(heap)
    BY <2>3 DEF Admits
  <2> HIDE DEF q
  <2>5. Holds(heap', tree', q) /\ (Masters(h, q) => Masters(heap', q))
    <3>1. h \in Heaps
      BY <2>4 DEF Holds, Planted, Good
    <3> QED BY <2>1, <2>4, <3>1, HoldsFlagOps, FocusOpsMasters
  <2>6. placed' = q
    BY <2>5, PlacedNext
  <2>7. NoStack => heap' = h
    BY <2>1 DEF NoStack
  <2>8. NoStack => Quiet
    BY <2>1, <2>2, <2>4, <2>6, <2>7 DEF Quiet, q
  <2> QED BY <2>4, <2>5, <2>6, <2>8 DEF MastersStep, FocusStep
<1> QED BY <1>1, <1>2

\* handle_map_request, whichever of the four ways it goes.
LEMMA MapRequestMarks ==
  ASSUME PInv, NEW w \in Windows, NEW p \in Windows \cup {NULL}, handle_map_request(w, p)
  PROVE  MastersStep /\ (NoStack => FocusStep)
<1>1. MapRequested(w)  BY DEF handle_map_request
<1>2. CASE RuleDesktop[w] \notin {NULL, curr}
  <2>1. RuleDesktop[w] \in DesktopIds /\ RuleDesktop[w] # curr
    BY <1>2, DesktopsAssumption
  <2>2. insert_into_desktop(w, RuleDesktop[w])  BY <1>2 DEF handle_map_request
  <2> QED BY <1>1, <2>1, <2>2, RuleMarks
<1>3. CASE ~(RuleDesktop[w] \notin {NULL, curr})
  <2>1. \/ handle_first_window(w)
        \/ handle_subsequent_window(w)
        \/ handle_floating_window(w, p)
    BY <1>3 DEF handle_map_request
  <2> QED BY <1>1, <2>1, FirstWindowMarks, SubsequentWindowMarks, FloatingWindowMarks
<1> QED BY <1>2, <1>3

-----------------------------------------------------------------------------
(* The other handlers.                                                     *)

\* A window is withdrawn.
LEMMA UnmapNotifyMarks ==
  ASSUME PInv, NEW w \in Windows, handle_unmap_notify(w)
  PROVE  MastersStep /\ FocusStep
<1>1. UNCHANGED curr
  BY DEF handle_unmap_notify
<1>2. CASE ~client_exist_in_desktops(w)
  <2>1. UNCHANGED <<heap, tree, last_focused, focused_win>>
    BY <1>2 DEF handle_unmap_notify, focus_vars
  <2> QED BY <1>1, <2>1, NothingMovesQuiet
<1>3. CASE client_exist_in_desktops(w)
  <2> DEFINE d  == desktop_of(w)
             n  == find_node_by_window_id(heap, tree[d], w)
             r  == root_without(heap, tree[d], n)
             u  == [tree EXCEPT ![d] = r]
             h1 == unlink_node(heap, n)
             h2 == free_node(h1, n)
             fl == floating \ {w}
             h  == arrange_tree(h2, r, layout[d], fl)
             q  == [placed EXCEPT ![w] = NULL]
  <2>1. /\ heap' = h /\ tree' = u
        /\ focused_win' \in {focused_win, NULL}
        /\ last_focused' = IF r = NULL THEN [last_focused EXCEPT ![d] = NULL] ELSE last_focused
    BY <1>3 DEF handle_unmap_notify, kill_window
  <2>2. d = placed[w] /\ placed[w] # NULL /\ d \in DesktopIds
    BY <1>3, ManagedPlaced, PInvFacts
  <2> HIDE DEF d
  <2>3. n \in Leaves(heap, tree[d]) /\ heap[n].client = w /\ LeafNode(heap, n)
    BY <2>2, PInvFacts, FindPlaced
  <2> HIDE DEF n, fl
  <2>4. HoldsBut(h1, u, q, n) /\ h1[n].client = w
    <3>1. Holds(heap, tree, placed)
      BY PInvFacts
    <3>2. /\ HoldsBut(unlink_node(heap, n), [tree EXCEPT ![d] = root_without(heap, tree[d], n)],
                      [placed EXCEPT ![heap[n].client] = NULL], n)
          /\ unlink_node(heap, n)[n].client = heap[n].client
      BY <2>2, <2>3, <3>1, HoldsUnlink
    <3> QED BY <2>3, <3>2
  <2>5. u[d] = r
    BY <2>2, PInvFacts
  <2>6. Flagged(h1) = Flagged(heap)
    BY <2>3, PInvFacts, UnlinkFlags
  <2>7. Masters(heap, placed) => Masters(h2, q)
    BY <2>3, PInvFacts, MastersClose
  <2> HIDE DEF h1, u, q, r
  <2>8. Holds(h2, u, q) /\ Flagged(h2) = Flagged(heap) \ {w}
    <3>1. n \in Nodes /\ h1 \in Heaps
      BY <2>4 DEF HoldsBut, Uprooted, Detached
    <3> QED BY <3>1, <2>4, <2>6, FreeGoes, HoldsFree, FreeFlags
  <2> HIDE DEF h2
  <2>9. Holds(h, u, q) /\ Flagged(h) = Flagged(heap) \ {w}
    <3>1. h2 \in Heaps
      BY <2>8 DEF Holds, Planted, Good
    <3>2. Holds(h, u, q)
      BY <2>8, HoldsFlagOps
    <3>3. Flagged(h) = Flagged(h2)
      BY <3>1, MasterOpsFocus
    <3> QED BY <2>8, <3>2, <3>3
  <2>10. Masters(h2, q) => Masters(h, q)
    <3> SUFFICES ASSUME Masters(h2, q) PROVE Masters(arrange_tree(h2, u[d], layout[d], fl), q)
      BY <2>5
    <3> QED BY <2>2, <2>8, MastersArrange
  <2> HIDE DEF h
  <2>11. placed' = q
    BY <2>1, <2>9, PlacedNext
  <2>12. r = NULL => On(q, d) = {}
    <3> SUFFICES ASSUME r = NULL PROVE On(q, d) = {}
      OBVIOUS
    <3>1. WindowsOf(h, u[d]) = {}
      BY <2>5 DEF WindowsOf, Leaves, Subtree
    <3> QED BY <2>2, <2>9, <3>1, WindowsPlaced DEF On
  <2>13. Withdrawn(w)
    BY <1>1, <2>1, <2>2, <2>9, <2>11, <2>12 DEF Withdrawn, q
  <2>14. MastersStep
    BY <2>1, <2>7, <2>10, <2>11 DEF MastersStep
  <2> QED BY <2>13, <2>14 DEF FocusStep
<1> QED BY <1>2, <1>3

\* The pointer and clicks give the focus to a window of the current desktop.
LEMMA GiveFocusMarks ==
  ASSUME PInv, NEW w \in Windows, give_focus(w)
  PROVE  MastersStep /\ FocusStep
<1> DEFINE r == tree[curr]
           n == find_node_by_window_id(heap, r, w)
<1>1. /\ heap' = IF state[w] = "FULLSCREEN" THEN update_focus(heap, r, n) ELSE give(heap, r, n)
      /\ focused_win' = w /\ last_focused' = remember(w) /\ UNCHANGED <<tree, curr>>
      /\ n # NULL
  BY DEF give_focus, give
<1>2. n \in Leaves(heap, r) /\ heap[n].client = w /\ w \in On(placed, curr)
  BY <1>1, PInvFacts, FindPlaced DEF On
<1>3. heap \in Heaps
  BY PInvFacts DEF Good
<1> HIDE DEF n
<1>4. Flagged(update_focus(heap, r, n)) = Flagged(heap) \ (On(placed, curr) \ {w})
  BY <1>1, <1>2, PInvFacts, UpdateFocusFlags
<1>5. Flagged(give(heap, r, n)) = (Flagged(heap) \ On(placed, curr)) \cup {w}
  BY <1>2, PInvFacts, GivenFlags
<1>6. Holds(heap', tree', placed)
  BY <1>1, PInvFacts, HoldsFlagOps, GivenKeeps
<1>7. placed' = placed
  BY <1>6, PlacedNext
<1>8. MastersStep
  BY <1>1, <1>3, <1>7, PInvFacts, FocusOpsMasters, GivenKeeps DEF MastersStep
<1>9. CASE state[w] = "FULLSCREEN"
  BY <1>1, <1>2, <1>4, <1>7, <1>8, <1>9 DEF GivenFullscreen, FocusStep
<1>10. CASE state[w] # "FULLSCREEN"
  BY <1>1, <1>2, <1>5, <1>7, <1>8, <1>10 DEF Given, FocusStep
<1> QED BY <1>9, <1>10

\* cycle_win_wrapper gives the focus too, but leaves focused_win behind.
LEMMA CycleMarks ==
  ASSUME PInv, NEW p, cycle_win_wrapper(p)
  PROVE  MastersStep /\ FocusStep
<1> DEFINE r == tree[curr]
<1>1. /\ "cycle_window" \in Keys
      /\ UNCHANGED <<tree, curr, focused_win>>
      /\ \/ UNCHANGED <<heap, last_focused>>
         \/ \E next \in Leaves(heap, r) :
              heap' = give(heap, r, next) /\ last_focused' = remember(heap[next].client)
  BY DEF cycle_win_wrapper, give
<1>2. CASE UNCHANGED <<heap, last_focused>>
  BY <1>1, <1>2, NothingMovesQuiet
<1>3. CASE \E next \in Leaves(heap, r) :
             heap' = give(heap, r, next) /\ last_focused' = remember(heap[next].client)
  <2>1. PICK next \in Leaves(heap, r) :
          heap' = give(heap, r, next) /\ last_focused' = remember(heap[next].client)
    BY <1>3
  <2> DEFINE w == heap[next].client
  <2>2. w \in Windows /\ w \in On(placed, curr)
    BY PInvFacts, LeafPlaced DEF On
  <2>3. Flagged(heap') = (Flagged(heap) \ On(placed, curr)) \cup {w}
    BY <2>1, PInvFacts, GivenFlags
  <2>4. Holds(heap', tree', placed) /\ (Masters(heap, placed) => Masters(heap', placed))
    BY <1>1, <2>1, PInvFacts, GivenKeeps
  <2>5. placed' = placed
    BY <2>4, PlacedNext
  <2>6. Given(w)
    BY <1>1, <2>1, <2>2, <2>3, <2>5 DEF Given
  <2> QED BY <2>2, <2>4, <2>5, <2>6 DEF MastersStep, FocusStep
<1> QED BY <1>1, <1>2, <1>3

\* traverse_stack_wrapper adds a flag.
LEMMA TraverseMarks ==
  ASSUME PInv, NEW step, traverse_stack_wrapper(step)
  PROVE  MastersStep /\ FocusStep
<1> DEFINE f == get_focused_node(heap, tree[curr])
           n == IF f = NULL THEN NULL ELSE Neighbour(heap, tree[curr], f, step)
<1>1. /\ heap' = set_focused(heap, n, TRUE) /\ "traverse" \in Keys
      /\ UNCHANGED <<tree, last_focused, focused_win, curr>>
  BY DEF traverse_stack_wrapper, focus_vars
<1> HIDE DEF n
<1>2. heap \in Heaps
  BY PInvFacts DEF Good
<1>3. Holds(heap', tree', placed)
  BY <1>1, PInvFacts, HoldsFlagOps
<1>4. placed' = placed
  BY <1>3, PlacedNext
<1>5. Flagged(heap) \subseteq Flagged(heap')
  <2>1. \A m \in Nodes : /\ heap'[m].client = heap[m].client
                         /\ heap[m].is_focused => heap'[m].is_focused
    BY <1>1, <1>2 DEF set_focused, Heaps, NodeRecords
  <2> QED BY <2>1 DEF Flagged
<1>6. MastersStep
  BY <1>1, <1>2, <1>4, FocusOpsMasters DEF MastersStep
<1> QED BY <1>1, <1>4, <1>5, <1>6 DEF Traversed, FocusStep

\* The pointer over no window: nothing is found.
LEMMA FindNull ==
  ASSUME NEW h, Good(h), NEW r \in Nodes \cup {NULL}
  PROVE  find_node_by_window_id(h, r, NULL) = NULL
<1> DEFINE S == {m \in Subtree(h, r) : h[m].client # NULL /\ h[m].client = NULL}
<1>1. S = {} /\ S \in SUBSET Subtree(h, r)
  OBVIOUS
<1> QED BY <1>1, GoodIsForest, FirstInFinds DEF find_node_by_window_id

\* layout_handler clears the masters of the tree before it makes one.
LEMMA LayoutMarks ==
  ASSUME PInv, NEW t, NEW p \in Windows \cup {NULL}, layout_handler(t, p)
  PROVE  MastersStep /\ ("STACK" \notin LayoutKeys => FocusStep)
<1> DEFINE r == tree[curr]
           n == find_node_by_window_id(heap, r, p)
           h == master_clean_up(heap, r)
           j == master_layout(h, r, n, floating)
           k == set_focused(h, n, TRUE)
<1>1. /\ heap' = IF t = "MASTER" /\ n # NULL THEN j
                 ELSE IF t = "STACK" /\ n # NULL THEN k ELSE h
      /\ t \in LayoutKeys
      /\ UNCHANGED <<tree, curr, last_focused, focused_win>>
  BY DEF layout_handler, apply_layout, focus_vars
<1>2. n # NULL => n \in Leaves(heap, r)
  BY PInvFacts, FindPlaced, FindNull
<1> HIDE DEF n
<1>3. heap \in Heaps /\ Holds(heap, tree, placed) /\ curr \in DesktopIds
  BY PInvFacts DEF Good
<1>4. Holds(h, tree, placed) /\ Flagged(h) = Flagged(heap)
  BY <1>3, HoldsFlagOps, MasterOpsFocus
<1>5. Masters(heap, placed) =>
        /\ Masters(h, placed)
        /\ \A m \in Nodes : ~(h[m].is_master /\ placed[h[m].client] = curr)
  BY <1>3, MastersCleanUp
<1>6. n # NULL => n \in Leaves(h, r)
  <2> SUFFICES ASSUME n # NULL PROVE n \in Leaves(h, r)
    OBVIOUS
  <2>1. n \in Nodes /\ heap[n].client # NULL /\ placed[heap[n].client] = curr
    BY <1>2, <1>3, LeafPlaced, NullAssumption
  <2>2. h[n].client = heap[n].client
    BY <1>3, <2>1 DEF master_clean_up, Heaps, NodeRecords
  <2> HIDE DEF h
  <2> QED BY <1>3, <1>4, <2>1, <2>2, LeafIs
<1> HIDE DEF h
<1>7. h \in Heaps
  BY <1>4 DEF Holds, Planted, Good
<1>8. Holds(j, tree, placed) /\ Flagged(j) = Flagged(heap) /\ Holds(k, tree, placed)
  <2>1. Holds(j, tree, placed)
    BY <1>4, HoldsFlagOps
  <2>2. Flagged(j) = Flagged(heap)
    BY <1>4, <1>7, MasterOpsFocus
  <2>3. Holds(k, tree, placed)
    BY <1>4, HoldsFlagOps
  <2> QED BY <2>1, <2>2, <2>3
<1>9. Masters(heap, placed) /\ n # NULL => Masters(j, placed)
  BY <1>3, <1>4, <1>5, <1>6, MastersLayout
<1>10. Masters(h, placed) => Masters(k, placed)
  BY <1>7, FocusOpsMasters
<1> HIDE DEF j, k
<1>11. placed' = placed
  <2>1. Holds(heap', tree', placed)
    BY <1>1, <1>4, <1>8
  <2> QED BY <2>1, PlacedNext
<1>12. MastersStep
  BY <1>1, <1>5, <1>9, <1>10, <1>11 DEF MastersStep
<1>13. "STACK" \notin LayoutKeys => Quiet
  BY <1>1, <1>4, <1>8, <1>11 DEF Quiet
<1> QED BY <1>12, <1>13 DEF FocusStep

\* A window floats or is tiled again.
LEMMA ChangeStateMarks ==
  ASSUME PInv, NEW s, NEW p, change_state(s, p)
  PROVE  MastersStep /\ FocusStep
<1> DEFINE n == find_node_by_window_id(heap, tree[curr], p)
           h == [heap EXCEPT ![n].frect = TRUE]
<1>1. heap' \in {h, heap} /\ UNCHANGED <<tree, curr, last_focused, focused_win>>
  BY DEF change_state, focus_vars
<1>2. heap \in Heaps
  BY PInvFacts DEF Good
<1> HIDE DEF n
<1>3. /\ h \in Heaps /\ SameShape(heap, h)
      /\ \A m \in Nodes : /\ h[m].client = heap[m].client
                          /\ h[m].is_focused = heap[m].is_focused
                          /\ h[m].is_master = heap[m].is_master
  BY <1>2 DEF Heaps, NodeRecords, SameShape
<1> HIDE DEF h
<1>4. Holds(heap', tree', placed)
  BY <1>1, <1>3, PInvFacts, HoldsFlags
<1>5. placed' = placed
  BY <1>4, PlacedNext
<1>6. Flagged(heap') = Flagged(heap)
  BY <1>1, <1>3, SameFlagged
<1>7. MastersStep
  BY <1>1, <1>3, <1>5, SameMasters DEF MastersStep
<1> QED BY <1>1, <1>5, <1>6, <1>7 DEF Quiet, FocusStep

\* Fullscreen changes nothing of the trees.
LEMMA SetFullscreenMarks ==
  ASSUME NEW w, NEW flag, set_fullscreen(w, flag)
  PROVE  MastersStep /\ FocusStep
BY NothingMovesQuiet DEF set_fullscreen, focus_vars

\* Two siblings change sides.
LEMMA SwapMarks ==
  ASSUME PInv, swap_node_wrapper
  PROVE  MastersStep /\ FocusStep
<1> DEFINE n == get_focused_node(heap, tree[curr])
<1>1. /\ n # NULL /\ heap[n].parent # NULL
      /\ heap' = swap_node(heap, n)
      /\ UNCHANGED <<tree, curr, last_focused, focused_win>>
  BY DEF swap_node_wrapper, focus_vars
<1>2. n \in Nodes
  BY <1>1, PInvFacts, FocusedResult DEF LeafNode
<1> HIDE DEF n
<1>3. heap \in Heaps
  BY PInvFacts DEF Good
<1>4. Holds(heap', tree', placed)
  BY <1>1, <1>2, PInvFacts, HoldsSwap
<1>5. placed' = placed
  BY <1>4, PlacedNext
<1>6. Flagged(heap') = Flagged(heap) /\ (Masters(heap, placed) => Masters(heap', placed))
  BY <1>1, <1>3, SwapFlags
<1> QED BY <1>1, <1>5, <1>6 DEF Quiet, MastersStep, FocusStep

\* Another desktop is shown.
LEMMA SwitchMarks ==
  ASSUME PInv, NEW d \in DesktopIds, switch_desktop(d)
  PROVE  MastersStep /\ FocusStep
<1> DEFINE old == tree[curr]
           new == tree[d]
           h   == update_focus(heap, old, NULL)
           w   == last_focused[d]
           n   == find_node_by_window_id(h, new, w)
<1>1. /\ d # curr /\ curr' = d /\ UNCHANGED <<tree, last_focused>>
      /\ \/ heap' = h /\ focused_win' = NULL
         \/ w # NULL /\ n # NULL /\ heap' = give(h, new, n) /\ focused_win' = w
  BY DEF switch_desktop, give
<1>2. heap \in Heaps /\ w \in Windows \cup {NULL}
  BY PInvFacts DEF Good, IInv, TypeOK
<1>3. Holds(h, tree, placed)
  BY PInvFacts, HoldsFlagOps
<1>4. Masters(heap, placed) => Masters(h, placed)
  BY <1>2, FocusOpsMasters
<1>5. Flagged(h) = Flagged(heap) \ On(placed, curr)
  BY PInvFacts, UpdateFocusFlags
<1> HIDE DEF h
<1>6. w # NULL /\ n # NULL => /\ n \in Leaves(h, tree[d]) /\ h[n].client = w
                             /\ w \in Windows /\ placed[w] = d
  BY <1>2, <1>3, FindPlaced
<1> HIDE DEF n, w
<1>7. /\ Holds(give(h, new, n), tree, placed)
      /\ Masters(h, placed) => Masters(give(h, new, n), placed)
  BY <1>3, GivenKeeps
<1>8. w # NULL /\ n # NULL =>
        Flagged(give(h, new, n)) = (Flagged(h) \ On(placed, d)) \cup {w}
  BY <1>3, <1>6, GivenFlags
<1>9. placed' = placed
  <2>1. Holds(heap', tree', placed)
    BY <1>1, <1>3, <1>7
  <2> QED BY <2>1, PlacedNext
<1>10. MastersStep
  BY <1>1, <1>4, <1>7, <1>9 DEF MastersStep
<1>11. Shown(d)
  <2>1. w # NULL /\ n # NULL => w \in On(placed, d)
    BY <1>6 DEF On
  <2> QED BY <1>1, <1>5, <1>8, <1>9, <2>1 DEF Shown, w
<1> QED BY <1>10, <1>11 DEF FocusStep

\* The focused window is transferred to another desktop, or lost on the way.
LEMMA TransferMarks ==
  ASSUME PInv, NEW d \in DesktopIds, transfer_node_wrapper(d)
  PROVE  FocusStep
<1> DEFINE n    == get_focused_node(heap, tree[curr])
           h1   == unlink_node(heap, n)
           t1   == [tree EXCEPT ![curr] = root_without(heap, tree[curr], n)]
           leaf == IF t1[d] = NULL THEN NULL ELSE transfer_target(h1, t1[d], floating)
           hr   == [h1 EXCEPT ![n].type = "ROOT"]
           ht   == transfer_node(h1, leaf, Malloc(FreeNodes(h1)), n)
           h2   == IF t1[d] = NULL THEN hr ELSE ht
           t2   == [t1 EXCEPT ![d] = IF t1[d] = NULL THEN n ELSE t1[d]]
           h3   == arrange_tree(h2, t2[d], layout[d], floating)
           h4   == IF layout[d] = "STACK" THEN set_focused(h3, n, TRUE) ELSE h3
           h5   == arrange_tree(h4, t2[curr], layout[curr], floating)
           w    == heap[n].client
           lost == t1[d] # NULL /\ leaf = NULL
           hf   == leak_node(h1, n)
           q0   == [placed EXCEPT ![w] = NULL]
           q1   == [placed EXCEPT ![w] = d]
           Kept == (Flagged(heap) \cap On(placed, curr)) \ {w}
<1>1. /\ leaf = NULL \/ RoomToMove(h1)
      /\ heap' = IF lost THEN hf ELSE h5
      /\ tree' = IF lost THEN t1 ELSE t2
      /\ UNCHANGED <<last_focused, focused_win, curr>>
      /\ "transfer_node" \in Keys /\ d # curr /\ n # NULL
  BY DEF transfer_node_wrapper, move_node, focus_vars
<1>2. n \in Leaves(heap, tree[curr]) /\ LeafNode(heap, n)
  BY <1>1, PInvFacts, FocusedResult
<1> HIDE DEF n
<1>3. w \in Windows /\ placed[w] = curr /\ w \in On(placed, curr) /\ curr # NULL
  BY <1>2, PInvFacts, LeafPlaced DEF On
<1>4. HoldsBut(h1, t1, q0, n) /\ h1[n].client = w
  <2>1. Holds(heap, tree, placed) /\ curr \in DesktopIds
    BY PInvFacts
  <2>2. /\ HoldsBut(unlink_node(heap, n), [tree EXCEPT ![curr] = root_without(heap, tree[curr], n)],
                    [placed EXCEPT ![heap[n].client] = NULL], n)
        /\ unlink_node(heap, n)[n].client = heap[n].client
    BY <1>2, <2>1, HoldsUnlink
  <2> QED BY <2>2
<1>5. Flagged(h1) = Flagged(heap)
  BY <1>2, PInvFacts, UnlinkFlags
<1>6. /\ q1 = [q0 EXCEPT ![w] = d]
      /\ q0[w] # curr /\ q1[w] # curr
      /\ \A v \in Windows \ {w} : q0[v] = placed[v] /\ q1[v] = placed[v]
  BY <1>1, <1>3, PInvFacts
<1> HIDE DEF h1, t1, w
<1>7. CASE lost
  <2>1. Holds(hf, t1, q0) /\ Flagged(hf) = Flagged(heap) \ {w}
    <3>1. n \in Nodes /\ h1 \in Heaps
      BY <1>4 DEF HoldsBut, Uprooted, Detached
    <3> QED BY <3>1, <1>4, <1>5, FreeGoes, HoldsFree, FreeFlags
  <2> HIDE DEF hf, q0, lost
  <2>2. placed' = q0
    BY <1>1, <1>7, <2>1, PlacedNext
  <2>3. Kept \subseteq Flagged(heap')
    BY <1>1, <1>7, <2>1
  <2>4. Transferred(w)
    BY <1>1, <1>3, <1>6, <2>2, <2>3 DEF Transferred
  <2> QED BY <1>3, <2>4 DEF FocusStep
<1>8. CASE ~lost
  <2>1. Holds(h2, t2, q1) /\ Kept \subseteq Flagged(h2)
    <3>1. CASE t1[d] = NULL
      <4>1. t2 = [t1 EXCEPT ![d] = n]
        BY <3>1
      <4>2. Holds(hr, t2, q1)
        BY <1>4, <1>6, <3>1, <4>1, HoldsRoot
      <4>3. Flagged(hr) = Flagged(h1)
        <5>1. h1 \in Heaps
          BY <1>4 DEF HoldsBut, Uprooted, Detached
        <5>2. \A m \in Nodes : hr[m].client = h1[m].client /\ hr[m].is_focused = h1[m].is_focused
          BY <5>1 DEF Heaps, NodeRecords
        <5> QED BY <5>2, SameFlagged
      <4> HIDE DEF hr
      <4> QED BY <1>5, <3>1, <4>2, <4>3
    <3>2. CASE t1[d] # NULL
      <4>1. t2 = t1
        BY <1>4, <3>2 DEF HoldsBut, Uprooted
      <4>2. leaf = transfer_target(h1, t1[d], floating) /\ leaf # NULL
        BY <1>8, <3>2
      <4>3. LeafNode(h1, leaf) /\ leaf # n
        BY <1>4, <3>2, <4>2, TargetResult DEF HoldsBut
      <4>4. FreeNodes(h1) # {}
        BY <1>1, <4>2 DEF RoomToMove
      <4>5. q0[h1[leaf].client] = d
        <5> HIDE DEF q0
        <5> QED BY <1>4, <3>2, <4>2, TargetPlaced
      <4> HIDE DEF leaf
      <4>6. Holds(ht, t1, [q0 EXCEPT ![h1[n].client] = q0[h1[leaf].client]])
        BY <1>4, <4>3, <4>4, HoldsTransfer
      <4>7. Flagged(ht) = Flagged(h1) \ {h1[leaf].client}
        BY <1>4, <4>3, <4>4, TransferFlags
      <4>8. h1[leaf].client \notin Kept
        BY <1>1, <1>6, <4>5 DEF On
      <4> HIDE DEF ht
      <4> QED BY <1>4, <1>5, <1>6, <3>2, <4>1, <4>5, <4>6, <4>7, <4>8
    <3> QED BY <3>1, <3>2
  <2> HIDE DEF h2, q1, t2, Kept
  <2>2. h2 \in Heaps
    BY <2>1 DEF Holds, Planted, Good
  <2>3. Holds(h3, t2, q1)
    BY <2>1, HoldsFlagOps
  <2>4. Flagged(h3) = Flagged(h2)
    BY <2>2, MasterOpsFocus
  <2> HIDE DEF h3
  <2>5. h3 \in Heaps
    BY <2>3 DEF Holds, Planted, Good
  <2>6. Holds(h4, t2, q1)
    BY <2>3, HoldsFlagOps
  <2>7. Flagged(h3) \subseteq Flagged(h4)
    <3>1. \A m \in Nodes : /\ h4[m].client = h3[m].client
                           /\ h3[m].is_focused => h4[m].is_focused
      BY <2>5 DEF set_focused, Heaps, NodeRecords
    <3> QED BY <3>1 DEF Flagged
  <2> HIDE DEF h4
  <2>8. h4 \in Heaps
    BY <2>6 DEF Holds, Planted, Good
  <2>9. Holds(h5, t2, q1)
    BY <2>6, HoldsFlagOps
  <2>10. Flagged(h5) = Flagged(h4)
    BY <2>8, MasterOpsFocus
  <2> HIDE DEF h5, lost
  <2>11. placed' = q1
    BY <1>1, <1>8, <2>9, PlacedNext
  <2>12. Kept \subseteq Flagged(heap')
    BY <1>1, <1>8, <2>1, <2>4, <2>7, <2>10
  <2>13. Transferred(w)
    BY <1>1, <1>3, <1>6, <2>11, <2>12 DEF Transferred, Kept
  <2> QED BY <1>3, <2>13 DEF FocusStep
<1> QED BY <1>7, <1>8

\* Every step, when no pager moves windows and no key makes a stack.
LEMMA NextMarks ==
  ASSUME PInv, [Next]_vars, "_NET_WM_DESKTOP" \notin Messages
  PROVE  /\ "transfer_node" \notin Keys => MastersStep
         /\ NoStack /\ "STACK" \notin LayoutKeys => FocusStep
<1>1. CASE UNCHANGED vars
  <2>1. UNCHANGED <<heap, tree, last_focused, focused_win, curr>>
    BY <1>1 DEF vars
  <2> QED BY <2>1, NothingMovesQuiet
<1>2. ASSUME NEW w \in Windows, NEW p \in under_cursor, handle_map_request(w, p)
      PROVE  MastersStep /\ (NoStack => FocusStep)
  <2>1. p \in Windows \cup {NULL}
    BY PInvFacts DEF under_cursor
  <2> QED BY <1>2, <2>1, MapRequestMarks
<1>3. ASSUME NEW w \in Windows, handle_unmap_notify(w) PROVE MastersStep /\ FocusStep
  BY <1>3, UnmapNotifyMarks
<1>4. ASSUME NEW w \in Windows, handle_enter_notify(w) \/ handle_button_press(w)
      PROVE  MastersStep /\ FocusStep
  <2>1. give_focus(w)
    BY <1>4 DEF handle_enter_notify, handle_button_press
  <2> QED BY <2>1, GiveFocusMarks
<1>5. ASSUME NEW p, cycle_win_wrapper(p) PROVE MastersStep /\ FocusStep
  BY <1>5, CycleMarks
<1>6. ASSUME NEW step, traverse_stack_wrapper(step) PROVE MastersStep /\ FocusStep
  BY <1>6, TraverseMarks
<1>7. ASSUME NEW t, NEW p \in under_cursor, layout_handler(t, p)
      PROVE  MastersStep /\ ("STACK" \notin LayoutKeys => FocusStep)
  <2>1. p \in Windows \cup {NULL}
    BY PInvFacts DEF under_cursor
  <2> QED BY <1>7, <2>1, LayoutMarks
<1>8. ASSUME NEW s, NEW p, change_state(s, p) PROVE MastersStep /\ FocusStep
  BY <1>8, ChangeStateMarks
<1>9. ASSUME NEW p, set_fullscreen_wrapper(p) PROVE MastersStep /\ FocusStep
  <2>1. set_fullscreen(p, state[p] # "FULLSCREEN")
    BY <1>9 DEF set_fullscreen_wrapper
  <2> QED BY <2>1, SetFullscreenMarks
<1>10. ASSUME NEW w, NEW flag, handle_net_wm_state(w, flag) PROVE MastersStep /\ FocusStep
  <2>1. set_fullscreen(w, flag)
    BY <1>10 DEF handle_net_wm_state
  <2> QED BY <2>1, SetFullscreenMarks
<1>11. CASE swap_node_wrapper
  BY <1>11, SwapMarks
<1>12. ASSUME NEW d \in DesktopIds, switch_desktop(d) PROVE MastersStep /\ FocusStep
  BY <1>12, SwitchMarks
<1>13. ASSUME NEW d \in DesktopIds, transfer_node_wrapper(d)
       PROVE  "transfer_node" \in Keys /\ FocusStep
  BY <1>13, TransferMarks DEF transfer_node_wrapper
<1>14. ASSUME NEW w \in Windows, NEW d \in DesktopIds, handle_net_wm_desktop(w, d)
       PROVE  FALSE
  BY <1>14 DEF handle_net_wm_desktop
<1> QED BY <1>1, <1>2, <1>3, <1>4, <1>5, <1>6, <1>7, <1>8, <1>9, <1>10, <1>11, <1>12,
           <1>13, <1>14 DEF Next, pointer_event, key_event, client_event

-----------------------------------------------------------------------------
(* Theorems.                                                               *)

\* A set whose elements are all equal has one at most.
LEMMA AtMostOne ==
  ASSUME NEW S, \A m, k \in S : m = k
  PROVE  Cardinality(S) <= 1
<1>1. CASE S = {}
  BY <1>1, FS_EmptySet
<1>2. CASE S # {}
  <2>1. PICK m \in S : TRUE
    BY <1>2
  <2>2. S = {m}
    BY <2>1
  <2>3. Cardinality({m}) = 1
    BY FS_Singleton
  <2> QED BY <2>2, <2>3
<1> QED BY <1>1, <1>2

\* OneMaster says of the trees what Masters says of the placement.
LEMMA MastersIsOne ==
  ASSUME PInv, Masters(heap, placed)
  PROVE  OneMaster
<1> SUFFICES ASSUME NEW d \in DesktopIds
             PROVE  LET S == {n \in Subtree(heap, tree[d]) : heap[n].is_master}
                    IN  Cardinality(S) <= 1 /\ S \subseteq Leaves(heap, tree[d])
  BY DEF OneMaster
<1> DEFINE S == {n \in Subtree(heap, tree[d]) : heap[n].is_master}
<1>1. \A m \in S : m \in Nodes /\ m \in Leaves(heap, tree[d])
  BY PInvFacts, MasterIsLeaf
<1>2. \A m \in S : heap[m].is_master /\ placed[heap[m].client] = d
  BY <1>1, PInvFacts, LeafPlaced
<1> HIDE DEF S
<1>3. \A m, k \in S : m = k
  BY <1>1, <1>2 DEF Masters
<1>4. Cardinality(S) <= 1
  BY <1>3, AtMostOne
<1> QED BY <1>1, <1>4 DEF S

\* OneMaster: however windows come, go, change sides and change the layout, a desktop has
\* at most one master, a window.  (A transfer leaves the flag of the master on the node it
\* splits, tree.c:2188: lost_transfer.)
THEOREM OneMasterAlways ==
  ASSUME "transfer_node" \notin Keys, "_NET_WM_DESKTOP" \notin Messages
  PROVE  Spec => []OneMaster
<1> DEFINE J == PInv /\ Masters(heap, placed)
<1>1. Init => J
  BY InitPInv DEF Init, FreeNode, Masters
<1>2. J /\ [Next]_vars => J'
  <2>1. ASSUME J, [Next]_vars PROVE PInv' /\ Masters(heap', placed')
    BY <2>1, PInvNext, NextMarks DEF MastersStep
  <2> QED BY <2>1 DEF Masters
<1>3. J => OneMaster
  BY MastersIsOne
<1> QED BY <1>1, <1>2, <1>3, PTL DEF Spec

\* A window with the focus flag is on a desktop of its own.
Lone(F, p) == \A v, w \in F : p[v] = p[w] => v = w

\* Without traverse and transfers each step leaves a desktop one flagged window at most.
LEMMA LoneNext ==
  ASSUME PInv, FocusStep, Lone(Flagged(heap), placed),
         "traverse" \notin Keys, "transfer_node" \notin Keys
  PROVE  Lone(Flagged(heap'), placed')
<1>1. \A v \in Flagged(heap) : v \in Windows /\ placed[v] # NULL
  BY PInvFacts, FlaggedPlaced DEF Flagged
<1>2. placed \in [Windows -> DesktopIds \cup {NULL}] /\ curr # NULL
  BY PInvFacts
<1>3. ASSUME Quiet PROVE Lone(Flagged(heap'), placed')
  BY <1>1, <1>2, <1>3 DEF Quiet, Lone
<1>4. ASSUME NEW w \in Windows, FirstOf(w) PROVE Lone(Flagged(heap'), placed')
  BY <1>1, <1>2, <1>4 DEF FirstOf, Lone, On
<1>5. ASSUME NEW w \in Windows, Given(w) PROVE Lone(Flagged(heap'), placed')
  BY <1>1, <1>2, <1>5 DEF Given, Lone, On
<1>6. ASSUME NEW w \in Windows, GivenFullscreen(w) PROVE Lone(Flagged(heap'), placed')
  BY <1>6 DEF GivenFullscreen, Lone
<1>7. ASSUME NEW w \in Windows, Withdrawn(w) PROVE Lone(Flagged(heap'), placed')
  BY <1>1, <1>2, <1>7 DEF Withdrawn, Lone
<1>8. ASSUME NEW d \in DesktopIds, Shown(d) PROVE Lone(Flagged(heap'), placed')
  BY <1>1, <1>2, <1>8 DEF Shown, Lone, On
<1> QED BY <1>3, <1>4, <1>5, <1>6, <1>7, <1>8 DEF FocusStep, Traversed, Transferred

\* No step makes a stack unless a key does.
LEMMA NoStackNext ==
  ASSUME NoStack, [Next]_vars, "STACK" \notin LayoutKeys
  PROVE  NoStack'
<1>1. \/ UNCHANGED layout
      \/ \E t \in LayoutKeys : layout' = [layout EXCEPT ![curr] = t]
  <2>1. CASE UNCHANGED vars
    BY <2>1 DEF vars
  <2>2. ASSUME NEW w, NEW p, handle_map_request(w, p) PROVE UNCHANGED layout
    BY <2>2 DEF handle_map_request, MapRequested
  <2>3. ASSUME NEW w, handle_unmap_notify(w) PROVE UNCHANGED layout
    BY <2>3 DEF handle_unmap_notify
  <2>4. ASSUME NEW w, handle_enter_notify(w) \/ handle_button_press(w) PROVE UNCHANGED layout
    BY <2>4 DEF handle_enter_notify, handle_button_press, give_focus
  <2>5. ASSUME NEW p, cycle_win_wrapper(p) PROVE UNCHANGED layout
    BY <2>5 DEF cycle_win_wrapper
  <2>6. ASSUME NEW step, traverse_stack_wrapper(step) PROVE UNCHANGED layout
    BY <2>6 DEF traverse_stack_wrapper
  <2>7. ASSUME NEW t, NEW p, layout_handler(t, p)
        PROVE  t \in LayoutKeys /\ layout' = [layout EXCEPT ![curr] = t]
    BY <2>7 DEF layout_handler
  <2>8. ASSUME NEW s, NEW p, change_state(s, p) PROVE UNCHANGED layout
    BY <2>8 DEF change_state
  <2>9. ASSUME NEW w, NEW flag, set_fullscreen(w, flag) PROVE UNCHANGED layout
    BY <2>9 DEF set_fullscreen
  <2>10. CASE swap_node_wrapper
    BY <2>10 DEF swap_node_wrapper
  <2>11. ASSUME NEW d, switch_desktop(d) PROVE UNCHANGED layout
    BY <2>11 DEF switch_desktop
  <2>12. ASSUME NEW n, NEW d, NEW td, move_node(n, d, td) PROVE UNCHANGED layout
    BY <2>12 DEF move_node
  <2> QED BY <2>1, <2>2, <2>3, <2>4, <2>5, <2>6, <2>7, <2>8, <2>9, <2>10, <2>11, <2>12
          DEF Next, pointer_event, key_event, client_event, set_fullscreen_wrapper,
              handle_net_wm_state, transfer_node_wrapper, handle_net_wm_desktop
<1>2. CASE UNCHANGED layout
  BY <1>2 DEF NoStack
<1>3. CASE \E t \in LayoutKeys : layout' = [layout EXCEPT ![curr] = t]
  BY <1>3 DEF NoStack
<1> QED BY <1>1, <1>2, <1>3

\* The windows with the flag, each alone on its desktop.
FocusInv == PInv /\ NoStack /\ Lone(Flagged(heap), placed)

\* What keeps it: no key traverses a stack, makes one, or moves windows, and no pager does.
FlagsStay ==
  /\ "traverse" \notin Keys /\ "transfer_node" \notin Keys
  /\ "STACK" \notin LayoutKeys /\ "_NET_WM_DESKTOP" \notin Messages

\* At the start no window has the flag.
LEMMA NoneFlagged ==
  ASSUME Init
  PROVE  PInv /\ NoStack /\ Flagged(heap) = {}
BY InitPInv DEF Init, FreeNode, Flagged, NoStack

\* FocusInv is inductive.
LEMMA FocusInvNext ==
  ASSUME FlagsStay, FocusInv, [Next]_vars
  PROVE  FocusInv'
<1>1. PInv' /\ NoStack' /\ FocusStep
  BY PInvNext, NoStackNext, NextMarks DEF FocusInv, FlagsStay
<1>2. Lone(Flagged(heap'), placed')
  BY <1>1, LoneNext DEF FocusInv, FlagsStay
<1> QED BY <1>1, <1>2 DEF FocusInv, Flagged, Lone

\* Hence it holds throughout.
LEMMA FocusInvAlways ==
  ASSUME FlagsStay
  PROVE  Spec => []FocusInv
<1>1. Init => FocusInv
  BY NoneFlagged DEF FocusInv, Lone
<1>2. FocusInv /\ [Next]_vars => FocusInv'
  BY FocusInvNext
<1> QED BY <1>1, <1>2, PTL DEF Spec

\* OneFocused says of the trees what FocusInv says of the windows.
LEMMA FocusInvIsOne == FocusInv => OneFocused
<1> SUFFICES ASSUME FocusInv, NEW d \in DesktopIds
             PROVE  Cardinality({n \in Leaves(heap, tree[d]) : heap[n].is_focused}) <= 1
  BY DEF OneFocused
<1> DEFINE S == {n \in Leaves(heap, tree[d]) : heap[n].is_focused}
<1>1. \A m \in S : /\ m \in Nodes /\ heap[m].client \in Flagged(heap)
                   /\ placed[heap[m].client] = d
  BY PInvFacts, LeafPlaced DEF FocusInv, Flagged
<1>2. \A m, k \in Nodes : heap[m].client \in Windows /\ heap[m].client = heap[k].client => m = k
  BY PInvFacts, NullAssumption DEF FocusInv, Holds, Houses
<1> HIDE DEF S
<1>3. \A m, k \in S : m = k
  BY <1>1, <1>2 DEF FocusInv, Lone, Flagged
<1>4. Cardinality(S) <= 1
  BY <1>3, AtMostOne
<1> QED BY <1>4 DEF S

\* OneFocused: whatever the pointer, the keys and the clients do, at most one window of a
\* desktop carries the focus flag, so that get_focused_node finds the one there is.
THEOREM OneFocusedAlways ==
  ASSUME FlagsStay
  PROVE  Spec => []OneFocused
BY FocusInvAlways, FocusInvIsOne, PTL

\* get_focused_node returns a leaf with the flag.
LEMMA FocusedIsFlagged ==
  ASSUME NEW h, NEW t, NEW p, Holds(h, t, p), NEW d \in DesktopIds,
         get_focused_node(h, t[d]) # NULL
  PROVE  /\ h[get_focused_node(h, t[d])].client \in Flagged(h)
         /\ p[h[get_focused_node(h, t[d])].client] = d
<1> DEFINE n == get_focused_node(h, t[d])
           S == {m \in Leaves(h, t[d]) : h[m].is_focused}
<1>1. Good(h) /\ t[d] \in Nodes \cup {NULL}
  BY DEF Holds, Planted
<1>2. n \in S
  <2>1. S \in SUBSET Subtree(h, t[d])
    BY DEF Leaves
  <2> QED BY <1>1, <2>1, GoodIsForest, FirstInFinds DEF get_focused_node
<1> HIDE DEF n
<1>3. n \in Leaves(h, t[d]) /\ h[n].is_focused
  BY <1>2
<1>4. n \in Nodes /\ h[n].client \in Windows /\ p[h[n].client] = d
  BY <1>3, LeafPlaced
<1> QED BY <1>3, <1>4 DEF Flagged, n

\* Only windows of the current desktop carry the flag, and last_focused names them.
Recalled == \A v \in Flagged(heap) : placed[v] = curr /\ last_focused[curr] = v

\* What has the flag after a step is what last_focused names after it.
LEMMA RecalledNext ==
  ASSUME PInv, FocusStep, Recalled, FocusFollowSpawn,
         "traverse" \notin Keys, "transfer_node" \notin Keys
  PROVE  \A v \in Flagged(heap') : placed'[v] = curr' /\ last_focused'[curr'] = v
<1> DEFINE Goal == \A v \in Flagged(heap') : placed'[v] = curr' /\ last_focused'[curr'] = v
<1>1. \A v \in Flagged(heap) : v \in Windows /\ v \in On(placed, curr) /\ last_focused[curr] = v
  BY DEF Recalled, On, Flagged
<1>2. /\ placed \in [Windows -> DesktopIds \cup {NULL}] /\ curr # NULL /\ curr \in DesktopIds
      /\ last_focused \in [DesktopIds -> Windows \cup {NULL}]
  BY PInvFacts DEF IInv, TypeOK
<1>3. ASSUME Quiet PROVE Goal
  BY <1>1, <1>2, <1>3 DEF Quiet, On
<1>4. ASSUME NEW w \in Windows, FirstOf(w) PROVE Goal
  BY <1>4 DEF FirstOf
<1>5. ASSUME NEW w \in Windows, Given(w) PROVE Goal
  <2>1. Flagged(heap') = {w}
    BY <1>1, <1>2, <1>5 DEF Given, On
  <2> QED BY <1>2, <1>5, <2>1 DEF Given, On, remember
<1>6. ASSUME NEW w \in Windows, GivenFullscreen(w) PROVE Goal
  <2>1. Flagged(heap') \subseteq {w}
    BY <1>1, <1>6 DEF GivenFullscreen
  <2> QED BY <1>2, <1>6, <2>1 DEF GivenFullscreen, On, remember
<1>7. ASSUME NEW w \in Windows, Withdrawn(w) PROVE Goal
  <2> SUFFICES ASSUME NEW v \in Flagged(heap') PROVE placed'[v] = curr' /\ last_focused'[curr'] = v
    OBVIOUS
  <2>1. v \in Flagged(heap) /\ v # w /\ curr' = curr
    BY <1>7 DEF Withdrawn
  <2>2. placed'[v] = curr
    BY <1>1, <1>2, <1>7, <2>1 DEF Withdrawn, On
  <2>3. last_focused'[curr] = last_focused[curr]
    BY <1>1, <1>2, <1>7, <2>1, <2>2 DEF Withdrawn, On
  <2> QED BY <1>1, <2>1, <2>2, <2>3
<1>8. ASSUME NEW d \in DesktopIds, Shown(d) PROVE Goal
  <2>1. Flagged(heap) \ On(placed, curr) = {}
    BY <1>1
  <2> QED BY <1>8, <2>1 DEF Shown, On
<1> QED BY <1>3, <1>4, <1>5, <1>6, <1>7, <1>8 DEF FocusStep, Traversed, Transferred

\* Remembered: with focus_follow_spawn the window that has the focus flag when a desktop is
\* left is the one that last_focused names, the one restore_last_focus gives it back to.
THEOREM RememberedAlways ==
  ASSUME FlagsStay, FocusFollowSpawn
  PROVE  Spec => Remembered
<1> DEFINE A == LET f == get_focused_node(heap, tree[curr])
                IN  curr' # curr /\ f # NULL => last_focused[curr] = heap[f].client
           J == FocusInv /\ Recalled
<1>1. Init => J
  BY NoneFlagged DEF FocusInv, Lone, Recalled
<1>2. FocusInv /\ Recalled /\ [Next]_vars => Recalled'
  <2> SUFFICES ASSUME FocusInv, Recalled, [Next]_vars PROVE Recalled'
    OBVIOUS
  <2>1. FocusStep
    BY NextMarks DEF FocusInv, FlagsStay
  <2>2. \A v \in Flagged(heap') : placed'[v] = curr' /\ last_focused'[curr'] = v
    BY <2>1, RecalledNext DEF FocusInv, FlagsStay
  <2> QED BY <2>2 DEF Recalled, Flagged
<1>3. FocusInv /\ Recalled => A
  <2> SUFFICES ASSUME FocusInv, Recalled, get_focused_node(heap, tree[curr]) # NULL
               PROVE  last_focused[curr] = heap[get_focused_node(heap, tree[curr])].client
    OBVIOUS
  <2>1. heap[get_focused_node(heap, tree[curr])].client \in Flagged(heap)
    BY PInvFacts, FocusedIsFlagged DEF FocusInv
  <2> QED BY <2>1 DEF Recalled
<1> HIDE DEF A
<1>4. Spec => []FocusInv
  BY FocusInvAlways
<1>5. Init => Recalled
  BY <1>1
<1>6. Spec => [][A]_vars
  BY <1>2, <1>3, <1>4, <1>5, PTL DEF Spec
<1> QED BY <1>6 DEF A, Remembered

\* No window is fullscreen, and focused_win, when it is a window of the current desktop,
\* has the flag.
Plain   == \A w \in Windows : state[w] # "FULLSCREEN"
Tracked == focused_win \in On(placed, curr) => focused_win \in Flagged(heap)

\* What keeps it: no request makes a window fullscreen, cycle_win_wrapper, which leaves
\* focused_win behind, is not bound, and new windows are given the focus.
FocusFollows ==
  /\ FocusFollowSpawn
  /\ "cycle_window" \notin Keys /\ "fullscreen" \notin Keys
  /\ "STACK" \notin LayoutKeys
  /\ "_NET_WM_STATE" \notin Messages /\ "_NET_WM_DESKTOP" \notin Messages

\* The states of the windows change by these assignments.
LEMMA PlainNext ==
  ASSUME PInv, Plain, [Next]_vars, FocusFollows
  PROVE  Plain'
<1> DEFINE OK(st) == \A w \in Windows : st[w] # "FULLSCREEN"
<1>1. state \in [Windows -> WinStates]
  BY DEF PInv, IInv, TypeOK
<1>2. ASSUME NEW st, OK(st), st \in [Windows -> WinStates], NEW w,
             NEW s \in WinStates \ {"FULLSCREEN"}
      PROVE  OK([st EXCEPT ![w] = s]) /\ [st EXCEPT ![w] = s] \in [Windows -> WinStates]
  BY <1>2
<1>3. \A w : initial_state(w) \in WinStates \ {"FULLSCREEN"}
  BY DEF initial_state, WinStates
<1>4. ASSUME NEW w PROVE unfullscreened(state, w) = state
  BY <1>1 DEF unfullscreened, Plain
<1>5. {"FLOATING", "TILED"} \subseteq WinStates \ {"FULLSCREEN"}
  BY DEF WinStates
<1>6. \/ UNCHANGED state
      \/ \E w, s : s \in WinStates \ {"FULLSCREEN"} /\ state' = [state EXCEPT ![w] = s]
  <2> DEFINE Set == \E w, s : s \in WinStates \ {"FULLSCREEN"} /\ state' = [state EXCEPT ![w] = s]
  <2>1. ASSUME UNCHANGED vars PROVE UNCHANGED state
    BY <2>1 DEF vars
  <2>2. ASSUME NEW w \in Windows, NEW p, handle_map_request(w, p) PROVE UNCHANGED state \/ Set
    <3>1. CASE \E d : insert_into_desktop(w, d)
      BY <1>3, <1>4, <3>1 DEF insert_into_desktop
    <3>2. CASE handle_first_window(w)
      BY <1>3, <3>2 DEF handle_first_window, map_out
    <3>3. CASE handle_subsequent_window(w)
      BY <1>4, <1>5, <3>3 DEF handle_subsequent_window, map_out
    <3>4. CASE handle_floating_window(w, p)
      BY <1>5, <3>4 DEF handle_floating_window, map_out
    <3> QED BY <2>2, <3>1, <3>2, <3>3, <3>4 DEF handle_map_request
  <2>3. ASSUME NEW w, handle_unmap_notify(w) PROVE UNCHANGED state \/ Set
    BY <1>5, <2>3 DEF handle_unmap_notify, kill_window
  <2>4. ASSUME NEW w, handle_enter_notify(w) \/ handle_button_press(w) PROVE UNCHANGED state
    BY <2>4 DEF handle_enter_notify, handle_button_press, give_focus
  <2>5. ASSUME NEW p, cycle_win_wrapper(p) PROVE UNCHANGED state
    BY <2>5 DEF cycle_win_wrapper
  <2>6. ASSUME NEW step, traverse_stack_wrapper(step) PROVE UNCHANGED state
    BY <2>6 DEF traverse_stack_wrapper
  <2>7. ASSUME NEW t, NEW p, layout_handler(t, p) PROVE UNCHANGED state
    BY <2>7 DEF layout_handler
  <2>8. ASSUME NEW s \in {"TILED", "FLOATING"}, NEW p, change_state(s, p) PROVE Set
    BY <1>5, <2>8 DEF change_state
  <2>9. ASSUME NEW p, set_fullscreen_wrapper(p) PROVE FALSE
    BY <2>9 DEF set_fullscreen_wrapper, FocusFollows
  <2>10. ASSUME NEW w, NEW flag, handle_net_wm_state(w, flag) PROVE FALSE
    BY <2>10 DEF handle_net_wm_state, FocusFollows
  <2>11. ASSUME swap_node_wrapper PROVE UNCHANGED state
    BY <2>11 DEF swap_node_wrapper
  <2>12. ASSUME NEW d, switch_desktop(d) PROVE UNCHANGED state
    BY <2>12 DEF switch_desktop
  <2>13. ASSUME NEW n, NEW d, NEW td, move_node(n, d, td) PROVE UNCHANGED state \/ Set
    BY <1>5, <2>13 DEF move_node
  <2> HIDE DEF Set
  <2>14. UNCHANGED state \/ Set
    BY <2>1, <2>2, <2>3, <2>4, <2>5, <2>6, <2>7, <2>8, <2>9, <2>10, <2>11, <2>12, <2>13
       DEF Next, pointer_event, key_event, client_event, transfer_node_wrapper,
           handle_net_wm_desktop
  <2> QED BY <2>14 DEF Set
<1> QED BY <1>1, <1>2, <1>6 DEF Plain

\* focused_win follows the flag, or leaves the current desktop.
LEMMA TrackedNext ==
  ASSUME PInv, Plain, Tracked, FocusStep, FocusFollows
  PROVE  focused_win' \in On(placed', curr') => focused_win' \in Flagged(heap')
<1> DEFINE Goal == focused_win' \in On(placed', curr') => focused_win' \in Flagged(heap')
<1>1. /\ placed \in [Windows -> DesktopIds \cup {NULL}] /\ curr # NULL /\ curr \in DesktopIds
      /\ NULL \notin Windows
  BY PInvFacts, NullAssumption
<1>2. ASSUME Quiet PROVE Goal
  BY <1>1, <1>2 DEF Quiet, On, Tracked, FocusFollows
<1>3. ASSUME NEW w \in Windows, FirstOf(w) PROVE Goal
  BY <1>3 DEF FirstOf, FocusFollows
<1>4. ASSUME NEW w \in Windows, Given(w) PROVE Goal
  BY <1>4 DEF Given, FocusFollows
<1>5. ASSUME NEW w \in Windows, GivenFullscreen(w) PROVE Goal
  BY <1>5 DEF GivenFullscreen, Plain
<1>6. ASSUME NEW w \in Windows, Withdrawn(w) PROVE Goal
  BY <1>1, <1>6 DEF Withdrawn, On, Tracked
<1>7. ASSUME NEW d \in DesktopIds, Shown(d) PROVE Goal
  BY <1>1, <1>7 DEF Shown, On
<1>8. ASSUME Traversed PROVE Goal
  BY <1>8 DEF Traversed, Tracked, On
<1>9. ASSUME NEW w \in Windows, Transferred(w) PROVE Goal
  BY <1>1, <1>9 DEF Transferred, On, Tracked
<1> QED BY <1>2, <1>3, <1>4, <1>5, <1>6, <1>7, <1>8, <1>9 DEF FocusStep

\* FocusAgrees: the global focused_win, which suppresses enter events, names a window that
\* has the focus flag whenever it names one of the current desktop, however windows are
\* traversed, transferred, lost, shown again or come back under the same name.
THEOREM FocusAgreesAlways ==
  ASSUME FocusFollows
  PROVE  Spec => []FocusAgrees
<1> DEFINE J == PInv /\ NoStack /\ Plain /\ Tracked
<1>1. Init => J
  BY NoneFlagged, NullAssumption DEF Init, Plain, Tracked, On
<1>2. J /\ [Next]_vars => J'
  <2> SUFFICES ASSUME J, [Next]_vars PROVE J'
    OBVIOUS
  <2>1. PInv' /\ NoStack' /\ FocusStep /\ Plain'
    BY PInvNext, NoStackNext, NextMarks, PlainNext DEF FocusFollows
  <2>2. focused_win' \in On(placed', curr') => focused_win' \in Flagged(heap')
    BY <2>1, TrackedNext
  <2> QED BY <2>1, <2>2 DEF Tracked, Flagged, On
<1>3. J => FocusAgrees
  <2> SUFFICES ASSUME J, NEW w \in WindowsOf(heap, tree[curr]), w = focused_win
               PROVE  heap[find_node_by_window_id(heap, tree[curr], w)].is_focused
    BY DEF FocusAgrees
  <2> DEFINE n == find_node_by_window_id(heap, tree[curr], w)
  <2>1. w \in Windows /\ placed[w] = curr
    BY PInvFacts, WindowsPlaced
  <2>2. n \in Nodes /\ heap[n].client = w
    BY <2>1, PInvFacts, FindPlaced DEF LeafNode
  <2> HIDE DEF n
  <2>3. PICK m \in Nodes : heap[m].client = w /\ heap[m].is_focused
    BY <2>1 DEF Tracked, On, Flagged
  <2>4. m = n
    BY <2>1, <2>2, <2>3, PInvFacts, NullAssumption DEF Holds, Houses
  <2> QED BY <2>3, <2>4 DEF n
<1> QED BY <1>1, <1>2, <1>3, PTL DEF Spec
=============================================================================
