-------------------------- MODULE Desktops_proofs --------------------------
(***************************************************************************)
(* The trees of the desktops, for any number of nodes, windows and         *)
(* desktops and any configuration.                                         *)
(*                                                                         *)
(* First type correctness and the wiring: TypeOK and Linked are together   *)
(* inductive.  Every handler is a few surgeries of BSPTree_proofs one      *)
(* after the other; what is left to follow is which nodes are roots, and   *)
(* of which desktops.                                                      *)
(*                                                                         *)
(* Then which windows are on which desktop: the handlers implement         *)
(* Placement, every node that is not leaked is in one tree and every       *)
(* window in one node, nothing of a hidden desktop is on the screen, and a *)
(* window is lost, and its node leaked, only on its way to a desktop whose *)
(* windows all float.  That argument labels every node with the desktop    *)
(* whose tree it is in: an edge joins nodes of one label, so surgery is    *)
(* local to the labels.                                                    *)
(*                                                                         *)
(* Last their order from left to right, of which a handler disturbs only   *)
(* the window it is about, and the swap two; and that no node is leaked    *)
(* while at most one window can float.                                     *)
(***************************************************************************)
EXTENDS Desktops, BSPTree_proofs

IInv == TypeOK /\ Linked

\* The heap h holds the trees t.
Planted(h, t) ==
  /\ Good(h)
  /\ t \in [DesktopIds -> Nodes \cup {NULL}]
  /\ \A d \in DesktopIds : t[d] # NULL =>
       /\ IsRoot(h, t[d])
       /\ \A e \in DesktopIds : t[e] = t[d] => e = d

\* What TypeOK says of the variables that surgery leaves alone.
Rest ==
  /\ layout \in [DesktopIds -> Layouts]
  /\ n_count \in [DesktopIds -> 0 .. UINT16 - 1]
  /\ last_focused \in [DesktopIds -> Windows \cup {NULL}]
  /\ curr \in DesktopIds
  /\ state \in [Windows -> WinStates]
  /\ focused_win \in Windows \cup {NULL}
  /\ mapped \subseteq Windows
  /\ requested \subseteq Windows
  /\ running \in BOOLEAN

\* The invariant, as the lemmas below speak of it.
LEMMA InvIsPlanted == IInv <=> Planted(heap, tree) /\ Rest
<1>1. \A d \in DesktopIds : tree \in [DesktopIds -> Nodes \cup {NULL}] =>
        (tree[d] # NULL => tree[d] \in Nodes)
  OBVIOUS
<1> QED BY <1>1 DEF IInv, TypeOK, Linked, Planted, Rest, Good, IsRoot

\* The invariant after a step.
LEMMA InvIsPlantedNext == IInv' <=> Planted(heap', tree') /\ Rest'
<1>1. \A d \in DesktopIds : tree' \in [DesktopIds -> Nodes \cup {NULL}] =>
        (tree'[d] # NULL => tree'[d] \in Nodes)
  OBVIOUS
<1> QED BY <1>1 DEF IInv, TypeOK, Linked, Planted, Rest, Good, IsRoot

\* The trees are nodes or NULL, which is what the searches ask for.
LEMMA Trees ==
  ASSUME IInv
  PROVE  /\ Good(heap) /\ tree[curr] \in Nodes \cup {NULL} /\ curr \in DesktopIds
         /\ \A d \in DesktopIds : tree[d] \in Nodes \cup {NULL}
BY DEF IInv, TypeOK, Linked, Good

-----------------------------------------------------------------------------
(* What each surgery does to the trees of the desktops.                    *)

\* Flags do not matter.
LEMMA PlantedFlags ==
  ASSUME NEW h, NEW t, Planted(h, t), NEW k \in Heaps, SameShape(h, k)
  PROVE  Planted(k, t)
BY ShapeGood DEF Planted

\* Hence none of the flag operators does harm.
LEMMA PlantedFlagOps ==
  ASSUME NEW h, NEW t, Planted(h, t), NEW r, NEW n, NEW l, NEW fl, NEW flag \in BOOLEAN
  PROVE  /\ Planted(set_focused(h, n, flag), t)
         /\ Planted(update_focus(h, r, n), t)
         /\ Planted(master_clean_up(h, r), t)
         /\ Planted(master_layout(h, r, n, fl), t)
         /\ Planted(arrange_tree(h, r, l, fl), t)
<1>1. h \in Heaps  BY DEF Planted, Good
<1> QED BY <1>1, FlagShapes, PlantedFlags

\* The first window of desktop d.
LEMMA PlantedFirst ==
  ASSUME NEW h, NEW t, Planted(h, t), NEW d \in DesktopIds, NEW n \in FreeNodes(h),
         NEW x, LoneRoot(x)
  PROVE  Planted([h EXCEPT ![n] = x], [t EXCEPT ![d] = n])
<1> DEFINE k == [h EXCEPT ![n] = x]
<1>1. Good(h) /\ n \in Nodes /\ h[n].type = "NONE"  BY DEF Planted, FreeNodes
<1>2. Good(k) /\ \A m \in Nodes : IsRoot(k, m) <=> m = n \/ IsRoot(h, m)
  BY <1>1, RootGood
<1> HIDE DEF k
<1>3. \A e \in DesktopIds : t[e] # n  BY <1>1, NullAssumption DEF Planted, IsRoot
<1>4. Planted(k, [t EXCEPT ![d] = n])
  BY <1>1, <1>2, <1>3, NullAssumption DEF Planted, IsRoot
<1> QED BY <1>4 DEF k

\* Another window at the leaf n splits it, and may set a flag.
LEMMA WithWindowSplits ==
  ASSUME NEW h, Good(h), NEW n, LeafNode(h, n), NEW r, NEW w \in Windows,
         NEW l, NEW fl, \E a, b \in FreeNodes(h) : a # b
  PROVE  \E at, new \in FreeNodes(h), k \in Heaps :
           /\ at # new /\ Good(k) /\ \A m \in Nodes : IsRoot(k, m) <=> IsRoot(h, m)
           /\ SplitFrom(h, k, n, at, new) /\ k[new].client = w
           /\ Unleaked(h) => Unleaked(k)
           /\ with_window(h, r, n, w, l, fl) \in Heaps
           /\ SameShape(k, with_window(h, r, n, w, l, fl))
<1> DEFINE new == Malloc(FreeNodes(h))
           dlg == w \in Dialogs
           h1  == [h EXCEPT ![new] = [create_node(w, "EXTERNAL", NULL) EXCEPT !.frect = dlg]]
           at  == Malloc(FreeNodes(h1))
           h2  == insert_node(h1, n, at, new, fl)
           h3  == with_window(h, r, n, w, l, fl)
<1>1. new \in FreeNodes(h) /\ new \in Nodes  BY MallocAssumption DEF FreeNodes
<1>2. dlg \in BOOLEAN /\ h \in Heaps  BY DEF Good
<1>3. h3 = IF l = "MASTER" THEN master_layout(h2, r, find_master_node(h2, r), fl) ELSE h2
  BY DEF with_window
<1> HIDE DEF new, dlg, h3
<1>4. Unleaked(h) => Unleaked(h2)
  <2> DEFINE x == [create_node(w, "EXTERNAL", NULL) EXCEPT !.frect = dlg]
  <2>1. x \in NodeRecords /\ x.leaked = NULL
    <3>1. x.leaked = NULL  BY DEF create_node, FreeNode
    <3> QED BY <1>2, <3>1, NewNode DEF NodeTypes
  <2> HIDE DEF x
  <2>2. h1 \in Heaps /\ (Unleaked(h) => Unleaked(h1))
    BY <2>1, <1>2, NewUnleaked DEF Heaps, x
  <2> HIDE DEF h1
  <2> QED BY <2>2, SurgeryUnleaked
<1>5. h1[new].type = "EXTERNAL" /\ \A m \in Nodes \ {new} : h1[m] = h[m]
  BY <1>1, <1>2 DEF Heaps, create_node, FreeNode
<1> HIDE DEF h1
<1>6. FreeNodes(h1) = FreeNodes(h) \ {new}  BY <1>1, <1>5 DEF FreeNodes
<1>7. at \in FreeNodes(h) /\ at # new
  <2>1. FreeNodes(h1) \in SUBSET Nodes /\ FreeNodes(h1) # {}
    BY <1>6 DEF FreeNodes
  <2> QED BY <2>1, <1>6, MallocAssumption
<1> HIDE DEF at
<1>8. /\ Good(h2) /\ \A m \in Nodes : IsRoot(h2, m) <=> IsRoot(h, m)
      /\ SplitFrom(h, h2, n, at, new) /\ h2[new].client = w
  <2>1. Good(h2) /\ \A m \in Nodes : IsRoot(h2, m) <=> IsRoot(h, m)
    BY <1>1, <1>2, <1>7, InsertGood DEF h1
  <2>2. SplitFrom(h, h2, n, at, new)
    BY <1>1, <1>2, <1>7, InsertGood DEF h1
  <2>3. h2[new].client = w
    BY <1>1, <1>2, <1>7, InsertGood DEF h1
  <2> QED BY <2>1, <2>2, <2>3
<1> HIDE DEF h2
<1>9. h2 \in Heaps  BY <1>8 DEF Good
<1>10. h3 \in Heaps /\ SameShape(h2, h3)
  <2>1. SameShape(h2, h2)  BY DEF SameShape
  <2> QED BY <1>3, <1>9, <2>1, FlagShapes
<1> QED BY <1>1, <1>7, <1>8, <1>9, <1>10, <1>4 DEF h3

\* Another window, at a leaf.
LEMMA PlantedWith ==
  ASSUME NEW h, NEW t, Planted(h, t), NEW n, LeafNode(h, n), NEW r, NEW w \in Windows,
         NEW l, NEW fl, \E a, b \in FreeNodes(h) : a # b
  PROVE  Planted(with_window(h, r, n, w, l, fl), t)
<1>1. PICK k \in Heaps :
        /\ Good(k) /\ \A m \in Nodes : IsRoot(k, m) <=> IsRoot(h, m)
        /\ with_window(h, r, n, w, l, fl) \in Heaps
        /\ SameShape(k, with_window(h, r, n, w, l, fl))
  BY WithWindowSplits DEF Planted
<1>2. Planted(k, t)  BY <1>1, NullAssumption DEF Planted, IsRoot
<1> QED BY <1>1, <1>2, PlantedFlags

\* The trees t hang in h, in which n has been detached from all of them.
Uprooted(h, t, n) ==
  /\ Detached(h, n)
  /\ t \in [DesktopIds -> Nodes \cup {NULL}]
  /\ \A d \in DesktopIds : t[d] # NULL =>
       /\ IsRoot(h, t[d])
       /\ t[d] # n
       /\ \A e \in DesktopIds : t[e] = t[d] => e = d

\* A leaf n of the tree of desktop d is unlinked.
LEMMA PlantedUnlink ==
  ASSUME NEW h, NEW t, Planted(h, t), NEW d \in DesktopIds, NEW n \in Subtree(h, t[d]),
         LeafNode(h, n)
  PROVE  /\ Uprooted(unlink_node(h, n), [t EXCEPT ![d] = root_without(h, t[d], n)], n)
         /\ unlink_node(h, n)[n].client = h[n].client
<1> DEFINE k == unlink_node(h, n)
           p == h[n].parent
           s == get_sibling(h, n)
           r == root_without(h, t[d], n)
           u == [t EXCEPT ![d] = r]
<1>1. Good(h)  BY DEF Planted
<1>2. /\ Detached(k, n) /\ k[n].client = h[n].client
      /\ p # NULL => s \in Nodes \ {n, p}
      /\ \A m \in Nodes \ {n} : IsRoot(k, m) <=>
           \/ IsRoot(h, m) /\ m # p
           \/ p # NULL /\ h[p].parent = NULL /\ m = s
  BY <1>1, UnlinkDetaches
<1>3. /\ \A m \in Nodes : Wired(h, m) /\ h[m] \in NodeRecords
      /\ n \in Nodes /\ h[n].type # "NONE"
  BY <1>1, WiredIsWellLinked DEF Good, Heaps, LeafNode
<1>4. Anchored(h, t[d], n) /\ t[d] # NULL
  <2>1. t[d] \in Nodes \cup {NULL}  BY DEF Planted
  <2>2. t[d] \in Nodes  BY <1>1, <2>1, SubtreeNodes
  <2>3. h[t[d]].parent = NULL
    BY <1>3, <2>2, NullAssumption DEF Planted, IsRoot, Wired
  <2> QED BY <1>1, <2>1, <2>2, <2>3, NullAssumption, SubtreeNodes
<1>5. p # NULL => /\ p \in Nodes /\ h[p].type # "NONE" /\ h[n].type # "ROOT"
                  /\ s = h[p].first \/ s = h[p].second
                  /\ h[s].parent = p
  BY <1>3, <1>2, NullAssumption DEF Wired, NodeRecords, get_sibling
<1>6. p # NULL => h[s].type # "ROOT"
  BY <1>5, <1>2, <1>3, NullAssumption DEF Wired
<1>7. r = IF p = NULL THEN NULL ELSE IF h[p].parent = NULL THEN s ELSE t[d]
  BY DEF root_without
<1>8. /\ \A e \in DesktopIds : t[e] \in Nodes \cup {NULL}
      /\ \A e \in DesktopIds : t[e] # NULL =>
           h[t[e]].type = "ROOT" /\ \A c \in DesktopIds : t[c] = t[e] => c = e
      /\ u \in [DesktopIds -> Nodes \cup {NULL}]
      /\ u[d] = r /\ \A e \in DesktopIds \ {d} : u[e] = t[e]
  BY <1>2, <1>7 DEF Planted, IsRoot
<1> HIDE DEF k, p, s, r, u
<1>9. CASE p = NULL
  <2>1. n = t[d]  BY <1>4, <1>9 DEF Anchored, p
  <2> QED BY <2>1, <1>2, <1>7, <1>8, <1>9, NullAssumption DEF Uprooted, IsRoot, k, u, r
<1>10. CASE p # NULL /\ h[p].parent = NULL
  <2>1. p = t[d]  BY <1>4, <1>10 DEF Anchored, p
  <2>2. \A e \in DesktopIds : t[e] # n  BY <1>5, <1>8, <1>10, NullAssumption, <1>3
  <2>3. \A e \in DesktopIds : t[e] # s  BY <1>6, <1>8, <1>10, <1>2, NullAssumption
  <2> QED BY <2>1, <2>2, <2>3, <1>2, <1>7, <1>8, <1>10, NullAssumption
          DEF Uprooted, IsRoot, k, u, r
<1>11. CASE p # NULL /\ h[p].parent # NULL
  <2>1. h[p].type # "ROOT"  BY <1>3, <1>5, <1>11 DEF Wired
  <2>2. \A e \in DesktopIds : t[e] # n /\ t[e] # p
    BY <2>1, <1>3, <1>5, <1>8, <1>11, NullAssumption
  <2>3. u = t  BY <1>7, <1>8, <1>11 DEF Planted
  <2> QED BY <2>1, <2>2, <2>3, <1>2, <1>7, <1>8, <1>11, NullAssumption
          DEF Uprooted, IsRoot, k, u, r
<1> QED BY <1>9, <1>10, <1>11

\* The detached node is freed or leaked.
LEMMA PlantedFree ==
  ASSUME NEW k, NEW t, NEW n, Uprooted(k, t, n)
  PROVE  Planted(free_node(k, n), t) /\ Planted(leak_node(k, n), t)
<1>1. Gone(k, free_node(k, n), n) /\ Gone(k, leak_node(k, n), n)
  BY FreeGoes DEF Uprooted, Detached
<1>2. ASSUME NEW j, Gone(k, j, n) PROVE Planted(j, t)
  <2>1. Good(j) /\ \A m \in Nodes : IsRoot(j, m) <=> IsRoot(k, m) /\ m # n
    BY <1>2, FreeDetached DEF Uprooted
  <2> QED BY <2>1 DEF Uprooted, Planted, IsRoot
<1> QED BY <1>1, <1>2

\* The detached node becomes the tree of an empty desktop.
LEMMA PlantedRoot ==
  ASSUME NEW k, NEW t, NEW n, Uprooted(k, t, n), NEW d \in DesktopIds
  PROVE  Planted([k EXCEPT ![n].type = "ROOT"], [t EXCEPT ![d] = n])
<1> DEFINE j == [k EXCEPT ![n].type = "ROOT"]
<1>1. Good(j) /\ \A m \in Nodes : IsRoot(j, m) <=> IsRoot(k, m) \/ m = n
  BY RootDetached DEF Uprooted
<1>2. n \in Nodes  BY DEF Uprooted, Detached
<1> HIDE DEF j
<1>3. Planted(j, [t EXCEPT ![d] = n])
  BY <1>1, <1>2, NullAssumption DEF Uprooted, Planted, IsRoot
<1> QED BY <1>3 DEF j

\* The leaf transfer_node splits is allocated and not the node that moves.
LEMMA TargetResult ==
  ASSUME NEW k, NEW t, NEW n, Uprooted(k, t, n), NEW d \in DesktopIds, t[d] # NULL,
         NEW fl, transfer_target(k, t[d], fl) # NULL
  PROVE  LeafNode(k, transfer_target(k, t[d], fl)) /\ transfer_target(k, t[d], fl) # n
<1> DEFINE r    == t[d]
           leaf == transfer_target(k, r, fl)
<1>1. /\ r \in Nodes /\ r # n /\ k[r].type = "ROOT"
      /\ k[n].parent = NULL
      /\ \A m \in Nodes \ {n} : Wired(k, m)
  BY DEF Uprooted, Detached, IsRoot
<1>2. CASE k[r].first = NULL /\ k[r].second = NULL
  <2>1. leaf = r  BY <1>2 DEF transfer_target
  <2> QED BY <2>1, <1>1, <1>2 DEF LeafNode, Wired
<1>3. CASE ~(k[r].first = NULL /\ k[r].second = NULL)
  <2>1. leaf = find_any_leaf(k, r, fl)  BY <1>3 DEF transfer_target
  <2>2. leaf \in Leaves(k, r)
    <3>1. {m \in Leaves(k, r) : k[m].client \notin fl} \in SUBSET Subtree(k, r)
      BY DEF Leaves
    <3> QED BY <1>1, <2>1, <3>1, DetachedIsForest, FirstInFinds DEF find_any_leaf, Uprooted
  <2>3. leaf \in Subtree(k, r) /\ k[leaf].client # NULL  BY <2>2 DEF Leaves, IsLeaf
  <2>4. leaf \in Nodes /\ (leaf # r => k[leaf].parent \in Nodes)
    BY <1>1, <2>3, DetachedIsForest, SubtreeInside DEF Uprooted
  <2>5. leaf # n  BY <2>4, <1>1, NullAssumption
  <2> QED BY <2>3, <2>4, <2>5, <1>1 DEF LeafNode, Wired
<1> QED BY <1>2, <1>3

\* The detached node is hung into a tree.
LEMMA PlantedHung ==
  ASSUME NEW k, NEW t, NEW n, Uprooted(k, t, n), NEW leaf, LeafNode(k, leaf), leaf # n,
         NEW at \in FreeNodes(k), NEW j, SplitFrom(k, j, leaf, at, n),
         j[n].client = k[n].client
  PROVE  Planted(j, t)
<1>1. Good(j) /\ \A m \in Nodes : IsRoot(j, m) <=> IsRoot(k, m) /\ m # n
  BY HungGood DEF Uprooted
<1> QED BY <1>1 DEF Uprooted, Planted, IsRoot

\* transfer_node hangs it.
LEMMA PlantedTransfer ==
  ASSUME NEW k, NEW t, NEW n, Uprooted(k, t, n), NEW leaf, LeafNode(k, leaf), leaf # n,
         FreeNodes(k) # {}
  PROVE  Planted(transfer_node(k, leaf, Malloc(FreeNodes(k)), n), t)
<1> DEFINE at == Malloc(FreeNodes(k))
           j == transfer_node(k, leaf, at, n)
<1>1. at \in FreeNodes(k)  BY MallocAssumption DEF FreeNodes
<1> HIDE DEF at
<1>2. SplitFrom(k, j, leaf, at, n) /\ j[n].client = k[n].client
  BY <1>1, TransferGood DEF Uprooted
<1> HIDE DEF j
<1>3. Planted(j, t)  BY <1>1, <1>2, PlantedHung
<1> QED BY <1>3 DEF j, at

-----------------------------------------------------------------------------
(* The initial state and the handlers.                                     *)

\* A remainder is less than what it was divided by.
LEMMA Remainder ==
  ASSUME NEW m \in Nat, m >= 1, NEW x \in Nat
  PROVE  x % m \in 0 .. m - 1
OBVIOUS

\* A uint16_t stays one.
LEMMA Counters ==
  ASSUME NEW c \in 0 .. UINT16 - 1
  PROVE  plus1(c) \in 0 .. UINT16 - 1 /\ minus1(c) \in 0 .. UINT16 - 1
<1>1. UINT16 \in Nat /\ UINT16 >= 1  BY DEF UINT16
<1>2. c + 1 \in Nat /\ c + UINT16 - 1 \in Nat
  <2>1. c \in Nat  BY <1>1
  <2> QED BY <1>1, <2>1
<1> QED BY <1>1, <1>2, Remainder DEF plus1, minus1

\* The windows of a tree are windows.
LEMMA TreeWindows ==
  ASSUME NEW h, Good(h), NEW r \in Nodes \cup {NULL}, NEW st
  PROVE  WindowsOf(h, r) \subseteq Windows /\ rendered(h, r, st) \subseteq Windows
<1>1. \A n \in Leaves(h, r) : h[n].client \in Windows
  BY LeafSearchResult DEF LeafNode, Good, Heaps, NodeRecords
<1> QED BY <1>1 DEF WindowsOf, rendered

\* The states windows are given.
LEMMA States ==
  ASSUME NEW st \in [Windows -> WinStates], NEW w, NEW v
  PROVE  /\ unfullscreened(st, v) \in [Windows -> WinStates]
         /\ [st EXCEPT ![w] = "TILED"] \in [Windows -> WinStates]
         /\ [st EXCEPT ![w] = "FLOATING"] \in [Windows -> WinStates]
         /\ [st EXCEPT ![w] = "FULLSCREEN"] \in [Windows -> WinStates]
         /\ [st EXCEPT ![w] = initial_state(w)] \in [Windows -> WinStates]
<1>1. {"TILED", "FLOATING", "FULLSCREEN"} = WinStates  BY DEF WinStates
<1>2. ASSUME NEW x \in WinStates, NEW u  PROVE [st EXCEPT ![u] = x] \in [Windows -> WinStates]
  OBVIOUS
<1>3. initial_state(w) \in WinStates  BY <1>1 DEF initial_state
<1>4. unfullscreened(st, v) \in [Windows -> WinStates]  BY <1>1 DEF unfullscreened
<1> QED BY <1>1, <1>2, <1>3, <1>4

\* In the initial state nothing is allocated.
LEMMA InitInv == Init => IInv
<1> SUFFICES ASSUME Init PROVE IInv
  OBVIOUS
<1>1. heap \in Heaps  BY DEF Init, Heaps, FreeNode, NodeRecords
<1>2. \A n \in Nodes : Wired(heap, n)  BY DEF Init, FreeNode, Wired
<1>3. Acyclic(heap)  BY NullAssumption DEF Init, FreeNode, Acyclic
<1>4. Good(heap)  BY <1>1, <1>2, <1>3, WiredIsWellLinked DEF Good
<1>5. Planted(heap, tree)  BY <1>4 DEF Planted, Init
<1>6. 0 \in DesktopIds  BY DesktopsAssumption DEF DesktopIds
<1>7. Rest  BY <1>6 DEF Init, Rest, Layouts, WinStates, UINT16
<1> QED BY <1>5, <1>7, InvIsPlanted

\* The end of handle_map_request, with the window in the tree r of the heap h.
LEMMA MapOutInv ==
  ASSUME Rest, NEW w \in Windows, MapRequested(w),
         NEW h, NEW r, Planted(h, [tree EXCEPT ![curr] = r]),
         NEW st \in [Windows -> WinStates], map_out(w, h, r, st)
  PROVE  IInv'
<1> DEFINE f == find_node_by_window_id(h, r, w)
<1>1. /\ heap' = update_focus(set_focused(h, f, TRUE), r, f) \/ heap' = h
      /\ tree' = [tree EXCEPT ![curr] = r]
  BY DEF map_out
<1>2. Planted(heap', tree')  BY <1>1, PlantedFlagOps
<1>3. rendered(h, r, st) \subseteq Windows  BY TreeWindows DEF Planted
<1>4. plus1(n_count[curr]) \in 0 .. UINT16 - 1  BY Counters DEF Rest
<1>5. /\ focused_win' \in {w, focused_win}
      /\ last_focused' = [last_focused EXCEPT ![curr] = w] \/ last_focused' = last_focused
      /\ n_count' = [n_count EXCEPT ![curr] = plus1(n_count[curr])]
      /\ state' = st /\ mapped' = mapped \cup rendered(h, r, st)
      /\ requested' = requested \cup {w}
      /\ UNCHANGED <<layout, curr, running>>
  BY DEF map_out, MapRequested, remember
<1>6. Rest'  BY <1>3, <1>4, <1>5 DEF Rest
<1> QED BY <1>2, <1>6, InvIsPlantedNext

\* A map request that is dropped.
LEMMA DroppedInv ==
  ASSUME IInv, NEW w \in Windows, MapRequested(w),
         UNCHANGED <<heap, tree, n_count, focus_vars, state, mapped>>
  PROVE  IInv'
<1>1. Planted(heap, tree) /\ Rest  BY InvIsPlanted
<1>2. Planted(heap', tree')  BY <1>1
<1>3. Rest'  BY <1>1 DEF Rest, MapRequested, focus_vars
<1> QED BY <1>2, <1>3, InvIsPlantedNext

\* The first window of a desktop (handle_first_window).
LEMMA FirstWindowInv ==
  ASSUME IInv, NEW w \in Windows, MapRequested(w), handle_first_window(w)
  PROVE  IInv'
<1> DEFINE n == Malloc(FreeNodes(heap))
           b == w \in Dialogs
           h == [heap EXCEPT ![n] = [create_node(w, "ROOT", NULL) EXCEPT
                                       !.is_focused = TRUE, !.frect = b]]
           st == [state EXCEPT ![w] = initial_state(w)]
<1>1. Planted(heap, tree) /\ Rest  BY InvIsPlanted
<1>2. n \in FreeNodes(heap)
  BY MallocAssumption DEF MapRequested, RoomToMap, FreeNodes
<1>3. map_out(w, h, n, st)  BY DEF handle_first_window
<1>4. st \in [Windows -> WinStates]  BY <1>1, States DEF Rest
<1>5. curr \in DesktopIds /\ b \in BOOLEAN  BY <1>1 DEF Rest
<1> HIDE DEF n, b, st
<1>6. Planted(h, [tree EXCEPT ![curr] = n])
  <2>1. LoneRoot([create_node(w, "ROOT", NULL) EXCEPT !.is_focused = TRUE, !.frect = b])
    BY <1>5, NewRoots
  <2> QED BY <1>1, <1>2, <1>5, <2>1, PlantedFirst
<1> HIDE DEF h
<1> QED BY <1>1, <1>3, <1>4, <1>6, MapOutInv

\* A tiled window on a desktop that has windows (handle_subsequent_window).
LEMMA SubsequentWindowInv ==
  ASSUME IInv, NEW w \in Windows, MapRequested(w), handle_subsequent_window(w)
  PROVE  IInv'
<1> DEFINE r   == tree[curr]
           f   == get_focused_node(heap, r)
           n   == IF f # NULL /\ heap[f].client \in floating /\ heap[f].type # "ROOT"
                  THEN find_any_leaf(heap, r, floating) ELSE f
           st  == [unfullscreened(state, heap[n].client) EXCEPT ![w] = "TILED"]
           fl  == {v \in Windows : st[v] = "FLOATING"}
           h   == with_window(heap, r, n, w, layout[curr], fl)
           new == find_node_by_window_id(h, r, w)
           h2  == IF layout[curr] = "STACK" THEN set_focused(h, new, TRUE) ELSE h
<1>1. Planted(heap, tree) /\ Rest  BY InvIsPlanted
<1>2. IF n = NULL THEN UNCHANGED <<heap, tree, n_count, focus_vars, state, mapped>>
      ELSE map_out(w, h2, r, st)
  BY DEF handle_subsequent_window
<1>3. n # NULL => LeafNode(heap, n)  BY <1>1, Trees, FocusedResult, AnyLeafResult DEF Planted
<1>4. st \in [Windows -> WinStates]
  <2>1. unfullscreened(state, heap[n].client) \in [Windows -> WinStates]
    BY <1>1, States DEF Rest
  <2> QED BY <2>1, States
<1>5. [tree EXCEPT ![curr] = r] = tree  BY <1>1 DEF Planted
<1>6. CASE n = NULL  BY <1>2, <1>6, DroppedInv
<1>7. CASE n # NULL
  <2> HIDE DEF n, st, fl
  <2>1. LeafNode(heap, n)  BY <1>3, <1>7
  <2>2. \E a, b \in FreeNodes(heap) : a # b  BY DEF MapRequested, RoomToMap
  <2>3. Planted(h, tree)  BY <1>1, <2>1, <2>2, PlantedWith
  <2> HIDE DEF h
  <2>4. Planted(h2, tree)  BY <2>3, PlantedFlagOps
  <2> HIDE DEF h2, r
  <2>5. Planted(h2, [tree EXCEPT ![curr] = r])  BY <2>4, <1>5
  <2>6. map_out(w, h2, r, st)  BY <1>2, <1>7
  <2> QED BY <1>1, <1>4, <2>5, <2>6, MapOutInv
<1> QED BY <1>6, <1>7

\* A window that floats, on a desktop that has windows (handle_floating_window).
LEMMA FloatingWindowInv ==
  ASSUME IInv, NEW w \in Windows, NEW p, MapRequested(w), handle_floating_window(w, p)
  PROVE  IInv'
<1> DEFINE r  == tree[curr]
           u  == find_node_by_window_id(heap, r, p)
           n  == IF u = NULL THEN find_any_leaf(heap, r, floating) ELSE u
           st == [state EXCEPT ![w] = "FLOATING"]
           fl == floating \cup {w}
           h  == with_window(heap, r, n, w, layout[curr], fl)
<1>1. Planted(heap, tree) /\ Rest  BY InvIsPlanted
<1>2. IF p = NULL \/ n = NULL
      THEN UNCHANGED <<heap, tree, n_count, focus_vars, state, mapped>>
      ELSE map_out(w, h, r, st)
  BY DEF handle_floating_window
<1>3. n # NULL => LeafNode(heap, n)  BY <1>1, Trees, FindResult, AnyLeafResult DEF Planted
<1>4. st \in [Windows -> WinStates]  BY <1>1, States DEF Rest
<1>5. [tree EXCEPT ![curr] = r] = tree  BY <1>1 DEF Planted
<1>6. CASE p = NULL \/ n = NULL  BY <1>2, <1>6, DroppedInv
<1>7. CASE ~(p = NULL \/ n = NULL)
  <2> HIDE DEF n, st, fl
  <2>1. LeafNode(heap, n)  BY <1>3, <1>7
  <2>2. \E a, b \in FreeNodes(heap) : a # b  BY DEF MapRequested, RoomToMap
  <2>3. Planted(h, tree)  BY <1>1, <2>1, <2>2, PlantedWith
  <2> HIDE DEF h, r
  <2>5. Planted(h, [tree EXCEPT ![curr] = r])  BY <2>3, <1>5
  <2>6. map_out(w, h, r, st)  BY <1>2, <1>7
  <2> QED BY <1>1, <1>4, <2>5, <2>6, MapOutInv
<1> QED BY <1>6, <1>7

\* A window whose rule sends it to another desktop (insert_into_desktop).
LEMMA RuleInv ==
  ASSUME IInv, NEW w \in Windows, MapRequested(w), NEW d \in DesktopIds,
         insert_into_desktop(w, d)
  PROVE  IInv'
<1> DEFINE r   == tree[d]
           n   == IF r = NULL THEN NULL ELSE find_any_leaf(heap, r, floating)
           st0 == IF n = NULL \/ w \in Dialogs THEN state
                  ELSE unfullscreened(state, heap[n].client)
           st  == [st0 EXCEPT ![w] = initial_state(w)]
           fl  == {v \in Windows : st[v] = "FLOATING"}
           top == Malloc(FreeNodes(heap))
           dlg == w \in Dialogs
           h0  == [heap EXCEPT ![top] = [create_node(w, "ROOT", NULL) EXCEPT !.frect = dlg]]
           h1  == with_window(heap, r, n, w, layout[d], fl)
           h   == IF r = NULL THEN h0 ELSE h1
           new == find_node_by_window_id(h, r, w)
<1>1. Planted(heap, tree) /\ Rest  BY InvIsPlanted
<1>2. CASE r # NULL /\ n = NULL
  <2>1. UNCHANGED <<heap, tree, n_count, focus_vars, state, mapped>>
    BY <1>2 DEF insert_into_desktop
  <2> QED BY <2>1, DroppedInv
<1>3. CASE ~(r # NULL /\ n = NULL)
  <2>1. /\ heap' = IF r # NULL /\ layout[d] = "STACK" /\ w \notin Dialogs
                   THEN set_focused(h, new, TRUE) ELSE h
        /\ tree' = [tree EXCEPT ![d] = IF r = NULL THEN top ELSE r]
        /\ n_count' = [n_count EXCEPT ![d] = plus1(n_count[d])]
        /\ state' = st
        /\ UNCHANGED <<focus_vars, mapped>>
    BY <1>3 DEF insert_into_desktop
  <2>2. top \in FreeNodes(heap)
    BY MallocAssumption DEF MapRequested, RoomToMap, FreeNodes
  <2>3. st \in [Windows -> WinStates]
    <3>1. st0 \in [Windows -> WinStates]  BY <1>1, States DEF Rest
    <3> HIDE DEF st0
    <3> QED BY <3>1, States
  <2>4. n # NULL => LeafNode(heap, n)  BY <1>1, Trees, AnyLeafResult DEF Planted
  <2>5. dlg \in BOOLEAN  OBVIOUS
  <2>6. r \in Nodes \cup {NULL}  BY <1>1 DEF Planted
  <2> HIDE DEF n, st, fl, top, dlg
  <2>7. Planted(h, tree')
    <3>1. CASE r = NULL
      <4>1. LoneRoot([create_node(w, "ROOT", NULL) EXCEPT !.frect = dlg])
        BY <2>5, NewRoots
      <4>2. Planted(h0, [tree EXCEPT ![d] = top])
        BY <4>1, <1>1, <2>2, PlantedFirst
      <4> HIDE DEF h0, h1
      <4> QED BY <4>2, <3>1, <2>1
    <3>2. CASE r # NULL
      <4>1. LeafNode(heap, n)  BY <1>3, <2>4, <3>2
      <4>2. \E a, b \in FreeNodes(heap) : a # b  BY DEF MapRequested, RoomToMap
      <4>3. Planted(h1, tree)  BY <1>1, <4>1, <4>2, PlantedWith
      <4>4. tree' = tree  BY <1>1, <2>1, <3>2 DEF Planted
      <4> HIDE DEF h0, h1
      <4> QED BY <3>2, <4>3, <4>4
    <3> QED BY <3>1, <3>2
  <2> HIDE DEF h
  <2>8. Planted(heap', tree')  BY <2>1, <2>7, PlantedFlagOps
  <2>9. plus1(n_count[d]) \in 0 .. UINT16 - 1  BY <1>1, Counters DEF Rest
  <2>10. Rest'  BY <1>1, <2>1, <2>3, <2>9 DEF Rest, MapRequested, focus_vars
  <2> QED BY <2>8, <2>10, InvIsPlantedNext
<1> QED BY <1>2, <1>3

\* handle_map_request, whichever of the four ways it goes.
LEMMA MapRequestInv ==
  ASSUME IInv, NEW w \in Windows, NEW p, handle_map_request(w, p)
  PROVE  IInv'
<1>1. MapRequested(w)  BY DEF handle_map_request
<1>2. CASE RuleDesktop[w] \notin {NULL, curr}
  <2>1. RuleDesktop[w] \in DesktopIds  BY <1>2, DesktopsAssumption
  <2>2. insert_into_desktop(w, RuleDesktop[w])  BY <1>2 DEF handle_map_request
  <2> QED BY <1>1, <2>1, <2>2, RuleInv
<1>3. CASE ~(RuleDesktop[w] \notin {NULL, curr})
  <2>1. \/ handle_first_window(w)
        \/ handle_subsequent_window(w)
        \/ handle_floating_window(w, p)
    BY <1>3 DEF handle_map_request
  <2> QED BY <1>1, <2>1, FirstWindowInv, SubsequentWindowInv, FloatingWindowInv
<1> QED BY <1>2, <1>3

\* A window that is in some desktop is found at a leaf of it.
LEMMA Located ==
  ASSUME IInv, NEW w, client_exist_in_desktops(w)
  PROVE  LET d == desktop_of(w)
             n == find_node_by_window_id(heap, tree[d], w)
         IN  d \in DesktopIds /\ n \in Subtree(heap, tree[d]) /\ LeafNode(heap, n)
<1> DEFINE d == desktop_of(w)
           n == find_node_by_window_id(heap, tree[d], w)
<1>1. Good(heap)  BY InvIsPlanted DEF Planted
<1>2. d \in DesktopIds /\ find_node_by_window_id(heap, tree[d], w) # NULL
  BY DEF client_exist_in_desktops, desktop_of
<1> HIDE DEF d
<1> QED BY <1>1, <1>2, Trees, FindResult DEF d

\* A window is withdrawn and its node deleted (kill_window, delete_node).
LEMMA UnmapNotifyInv ==
  ASSUME IInv, NEW w \in Windows, handle_unmap_notify(w)
  PROVE  IInv'
<1>1. Planted(heap, tree) /\ Rest  BY InvIsPlanted
<1>2. requested' \subseteq Windows /\ UNCHANGED <<layout, curr, running>>
  BY <1>1 DEF handle_unmap_notify, Rest
<1>3. CASE client_exist_in_desktops(w)
  <2> DEFINE d  == desktop_of(w)
             n  == find_node_by_window_id(heap, tree[d], w)
             r  == root_without(heap, tree[d], n)
             u  == [tree EXCEPT ![d] = r]
             h1 == unlink_node(heap, n)
             h2 == free_node(h1, n)
             h  == arrange_tree(h2, r, layout[d], floating \ {w})
             st == [state EXCEPT ![w] = "TILED"]
  <2>1. /\ heap' = h /\ tree' = u
        /\ n_count' = [n_count EXCEPT ![d] = minus1(n_count[d])]
        /\ state' = st
        /\ focused_win' \in {NULL, focused_win}
        /\ last_focused' \in {[last_focused EXCEPT ![d] = NULL], last_focused}
        /\ mapped' = (mapped \ {w}) \cup shown_after(d, h, r, st)
    BY <1>3 DEF handle_unmap_notify, kill_window
  <2>2. d \in DesktopIds /\ n \in Subtree(heap, tree[d]) /\ LeafNode(heap, n)
    BY <1>3, Located
  <2> HIDE DEF d, n, st
  <2>3. Uprooted(h1, u, n)  BY <1>1, <2>2, PlantedUnlink
  <2>11. u[d] = r  BY <1>1, <2>2 DEF Planted
  <2> HIDE DEF h1, u
  <2>4. Planted(h2, u)  BY <2>3, PlantedFree
  <2> HIDE DEF h2
  <2>5. Planted(h, u)  BY <2>4, PlantedFlagOps
  <2> HIDE DEF h, r
  <2>6. Planted(heap', tree')  BY <2>1, <2>5
  <2>7. shown_after(d, h, r, st) \subseteq Windows
    <3>1. r \in Nodes \cup {NULL}  BY <2>2, <2>5, <2>11 DEF Planted
    <3>2. rendered(h, r, st) \subseteq Windows  BY <2>5, <3>1, TreeWindows DEF Planted
    <3> QED BY <3>2 DEF shown_after
  <2>8. st \in [Windows -> WinStates]  BY <1>1, States DEF Rest, st
  <2>9. minus1(n_count[d]) \in 0 .. UINT16 - 1  BY <1>1, <2>2, Counters DEF Rest
  <2>10. Rest'  BY <1>1, <1>2, <2>1, <2>2, <2>7, <2>8, <2>9 DEF Rest
  <2> QED BY <2>6, <2>10, InvIsPlantedNext
<1>4. CASE ~client_exist_in_desktops(w)
  <2>1. UNCHANGED <<heap, tree, n_count, focus_vars, state, mapped>>
    BY <1>4 DEF handle_unmap_notify
  <2>2. Rest'  BY <1>1, <1>2, <2>1 DEF Rest, focus_vars
  <2> QED BY <1>1, <2>1, <2>2, InvIsPlantedNext
<1> QED BY <1>3, <1>4

\* A node moves to another desktop, or is lost on the way (transfer_node).
LEMMA MoveNodeInv ==
  ASSUME IInv, NEW d \in DesktopIds, NEW td \in DesktopIds,
         NEW n \in Subtree(heap, tree[d]), LeafNode(heap, n), move_node(n, d, td)
  PROVE  IInv'
<1> DEFINE h1   == unlink_node(heap, n)
           t1   == [tree EXCEPT ![d] = root_without(heap, tree[d], n)]
           leaf == IF t1[td] = NULL THEN NULL ELSE transfer_target(h1, t1[td], floating)
           hr   == [h1 EXCEPT ![n].type = "ROOT"]
           ht   == transfer_node(h1, leaf, Malloc(FreeNodes(h1)), n)
           h2   == IF t1[td] = NULL THEN hr ELSE ht
           t2   == [t1 EXCEPT ![td] = IF t1[td] = NULL THEN n ELSE t1[td]]
           h3   == arrange_tree(h2, t2[td], layout[td], floating)
           h4   == IF layout[td] = "STACK" THEN set_focused(h3, n, TRUE) ELSE h3
           h5   == arrange_tree(h4, t2[d], layout[d], floating)
           w    == heap[n].client
           lost == t1[td] # NULL /\ leaf = NULL
           less == [n_count EXCEPT ![d] = minus1(n_count[d])]
           more == [less EXCEPT ![td] = plus1(less[td])]
           hf   == leak_node(h1, n)
<1>1. Planted(heap, tree) /\ Rest  BY InvIsPlanted
<1>2. /\ leaf = NULL \/ RoomToMove(h1)
      /\ heap' = IF lost THEN hf ELSE h5
      /\ tree' = IF lost THEN t1 ELSE t2
      /\ n_count' = IF lost THEN n_count ELSE more
      /\ state' = IF lost THEN [state EXCEPT ![w] = "TILED"] ELSE state
      /\ mapped' = (mapped \ {w}) \cup IF lost THEN {} ELSE shown_after(d, h5, t2[d], state)
      /\ UNCHANGED <<layout, focus_vars, curr, requested, running>>
  BY DEF move_node
<1>3. Uprooted(h1, t1, n)  BY <1>1, PlantedUnlink
<1> HIDE DEF h1, t1
<1>4. Planted(hf, t1)  BY <1>3, PlantedFree
<1>5. ASSUME ~lost PROVE Planted(h5, t2)
  <2>1. CASE t1[td] = NULL
    <3>1. t2 = [t1 EXCEPT ![td] = n]  BY <2>1
    <3>2. Planted(hr, t2)  BY <1>3, <3>1, PlantedRoot
    <3> HIDE DEF hr, ht, t2
    <3>3. Planted(h2, t2)  BY <2>1, <3>2
    <3> HIDE DEF h2
    <3>4. Planted(h3, t2)  BY <3>3, PlantedFlagOps
    <3> HIDE DEF h3
    <3>5. Planted(h4, t2)  BY <3>4, PlantedFlagOps
    <3> HIDE DEF h4
    <3> QED BY <3>5, PlantedFlagOps
  <2>2. CASE t1[td] # NULL
    <3>1. t2 = t1  BY <2>2, <1>3 DEF Uprooted
    <3>2. leaf = transfer_target(h1, t1[td], floating) /\ leaf # NULL  BY <2>2, <1>5
    <3>3. LeafNode(h1, leaf) /\ leaf # n  BY <1>3, <2>2, <3>2, TargetResult
    <3>4. FreeNodes(h1) # {}  BY <1>2, <3>2 DEF RoomToMove
    <3> HIDE DEF leaf
    <3>5. Planted(ht, t1)  BY <1>3, <3>3, <3>4, PlantedTransfer
    <3> HIDE DEF hr, ht, t2
    <3>6. Planted(h2, t2)  BY <2>2, <3>1, <3>5
    <3> HIDE DEF h2
    <3>7. Planted(h3, t2)  BY <3>6, PlantedFlagOps
    <3> HIDE DEF h3
    <3>8. Planted(h4, t2)  BY <3>7, PlantedFlagOps
    <3> HIDE DEF h4
    <3> QED BY <3>8, PlantedFlagOps
  <2> QED BY <2>1, <2>2
<1> HIDE DEF hf, h5, t2, lost, w
<1>6. Planted(heap', tree')  BY <1>2, <1>4, <1>5
<1>7. ~lost => shown_after(d, h5, t2[d], state) \subseteq Windows
  <2>1. ~lost => rendered(h5, t2[d], state) \subseteq Windows
    BY <1>5, TreeWindows DEF Planted
  <2> QED BY <2>1 DEF shown_after
<1>8. more \in [DesktopIds -> 0 .. UINT16 - 1]
  <2>1. less \in [DesktopIds -> 0 .. UINT16 - 1]
    <3>1. minus1(n_count[d]) \in 0 .. UINT16 - 1  BY <1>1, Counters DEF Rest
    <3> QED BY <1>1, <3>1 DEF Rest
  <2> HIDE DEF less
  <2>2. plus1(less[td]) \in 0 .. UINT16 - 1  BY <2>1, Counters
  <2> QED BY <2>1, <2>2
<1>9. [state EXCEPT ![w] = "TILED"] \in [Windows -> WinStates]  BY <1>1, States DEF Rest
<1> HIDE DEF more
<1>10. Rest'  BY <1>1, <1>2, <1>7, <1>8, <1>9 DEF Rest, focus_vars
<1> QED BY <1>6, <1>10, InvIsPlantedNext

\* Handlers that move the focus change flags and the records of what is focused.
LEMMA GiveFocusInv ==
  ASSUME IInv, NEW w \in Windows, give_focus(w)
  PROVE  IInv'
<1> DEFINE n == find_node_by_window_id(heap, tree[curr], w)
           h == IF state[w] = "FULLSCREEN" THEN heap ELSE set_focused(heap, n, TRUE)
<1>1. Planted(heap, tree) /\ Rest  BY InvIsPlanted
<1>2. /\ heap' = update_focus(h, tree[curr], n)
      /\ focused_win' = w
      /\ last_focused' = [last_focused EXCEPT ![curr] = w]
      /\ UNCHANGED <<tree, layout, n_count, curr, state, mapped, requested, running>>
  BY DEF give_focus, remember
<1>3. Planted(h, tree)  BY <1>1, PlantedFlagOps
<1> HIDE DEF h
<1>4. Planted(heap', tree')  BY <1>2, <1>3, PlantedFlagOps
<1>5. Rest'  BY <1>1, <1>2 DEF Rest
<1> QED BY <1>4, <1>5, InvIsPlantedNext

\* The focus moves to any other window of the tree (cycle_win_wrapper).
LEMMA CycleInv ==
  ASSUME IInv, NEW p, cycle_win_wrapper(p)
  PROVE  IInv'
<1> DEFINE r == tree[curr]
<1>1. Planted(heap, tree) /\ Rest  BY InvIsPlanted
<1>2. UNCHANGED <<tree, layout, n_count, curr, state, focused_win, mapped, requested>>
  BY DEF cycle_win_wrapper
<1>3. CASE UNCHANGED <<heap, last_focused>> /\ running' = FALSE
  <2>1. Rest'  BY <1>1, <1>2, <1>3 DEF Rest
  <2> QED BY <1>1, <1>2, <1>3, <2>1, InvIsPlantedNext
<1>4. CASE \E next \in Leaves(heap, r) :
             /\ heap' = update_focus(set_focused(heap, next, TRUE), r, next)
             /\ last_focused' = [last_focused EXCEPT ![curr] = heap[next].client]
             /\ UNCHANGED running
  <2>1. PICK next \in Leaves(heap, r) :
             /\ heap' = update_focus(set_focused(heap, next, TRUE), r, next)
             /\ last_focused' = [last_focused EXCEPT ![curr] = heap[next].client]
             /\ UNCHANGED running
    BY <1>4
  <2>2. heap[next].client \in Windows
    BY <1>1, Trees, LeafSearchResult DEF Planted, LeafNode, Good, Heaps, NodeRecords
  <2>3. Planted(heap', tree')  BY <1>1, <1>2, <2>1, PlantedFlagOps
  <2>4. Rest'  BY <1>1, <1>2, <2>1, <2>2 DEF Rest
  <2> QED BY <2>3, <2>4, InvIsPlantedNext
<1>5. \/ UNCHANGED <<heap, last_focused>> /\ running' = FALSE
      \/ \E next \in Leaves(heap, r) :
             /\ heap' = update_focus(set_focused(heap, next, TRUE), r, next)
             /\ last_focused' = [last_focused EXCEPT ![curr] = heap[next].client]
             /\ UNCHANGED running
  BY DEF cycle_win_wrapper, remember
<1> QED BY <1>3, <1>4, <1>5

\* The focus moves along the stack (traverse_stack_wrapper).
LEMMA TraverseInv ==
  ASSUME IInv, NEW step, traverse_stack_wrapper(step)
  PROVE  IInv'
<1> DEFINE f == get_focused_node(heap, tree[curr])
           n == IF f = NULL THEN NULL ELSE Neighbour(heap, tree[curr], f, step)
<1>1. Planted(heap, tree) /\ Rest  BY InvIsPlanted
<1>2. /\ heap' = set_focused(heap, n, TRUE)
      /\ UNCHANGED <<tree, layout, n_count, focus_vars, curr, state, mapped,
                     requested, running>>
  BY DEF traverse_stack_wrapper
<1>3. Planted(heap', tree')  BY <1>1, <1>2, PlantedFlagOps
<1>4. Rest'  BY <1>1, <1>2 DEF Rest, focus_vars
<1> QED BY <1>3, <1>4, InvIsPlantedNext

\* The layout changes: masters are cleared and one is set (layout_handler).
LEMMA LayoutInv ==
  ASSUME IInv, NEW t, NEW p, layout_handler(t, p)
  PROVE  IInv'
<1> DEFINE r == tree[curr]
           n == find_node_by_window_id(heap, r, p)
           h == master_clean_up(heap, r)
<1>1. Planted(heap, tree) /\ Rest  BY InvIsPlanted
<1>2. /\ t \in LayoutKeys
      /\ layout' = [layout EXCEPT ![curr] = t]
      /\ heap' \in {master_layout(h, r, n, floating), set_focused(h, n, TRUE), h}
      /\ mapped' = mapped \cup rendered(heap, r, state)
      /\ UNCHANGED <<tree, n_count, focus_vars, curr, state, requested, running>>
  BY DEF layout_handler, apply_layout
<1>3. Planted(h, tree)  BY <1>1, PlantedFlagOps
<1> HIDE DEF h
<1>4. Planted(heap', tree')  BY <1>2, <1>3, PlantedFlagOps
<1>5. t \in Layouts  BY <1>2, DesktopsAssumption
<1>6. rendered(heap, r, state) \subseteq Windows  BY <1>1, Trees, TreeWindows DEF Planted
<1>7. Rest'  BY <1>1, <1>2, <1>5, <1>6 DEF Rest, focus_vars
<1> QED BY <1>4, <1>7, InvIsPlantedNext

\* A window floats or is tiled again (change_state).
LEMMA ChangeStateInv ==
  ASSUME IInv, NEW s \in {"TILED", "FLOATING"}, NEW p, change_state(s, p)
  PROVE  IInv'
<1> DEFINE r  == tree[curr]
           n  == find_node_by_window_id(heap, r, p)
           st == [state EXCEPT ![p] = s]
           h  == [heap EXCEPT ![n].frect = TRUE]
<1>1. Planted(heap, tree) /\ Rest  BY InvIsPlanted
<1>2. /\ state' = st
      /\ heap' \in {h, heap}
      /\ mapped' = mapped \cup rendered(heap, r, st)
      /\ UNCHANGED <<tree, layout, n_count, focus_vars, curr, requested, running>>
  BY DEF change_state
<1>3. Planted(h, tree)
  <2>1. heap \in Heaps  BY <1>1 DEF Planted, Good
  <2>2. h \in Heaps /\ SameShape(heap, h)  BY <2>1 DEF Heaps, NodeRecords, SameShape
  <2> QED BY <1>1, <2>2, PlantedFlags
<1>4. st \in [Windows -> WinStates]  BY <1>1, States DEF Rest
<1>5. rendered(heap, r, st) \subseteq Windows  BY <1>1, Trees, TreeWindows DEF Planted
<1> HIDE DEF h, st
<1>6. Planted(heap', tree')  BY <1>1, <1>2, <1>3
<1>7. Rest'  BY <1>1, <1>2, <1>4, <1>5 DEF Rest, focus_vars
<1> QED BY <1>6, <1>7, InvIsPlantedNext

\* Fullscreen changes the state of a window and nothing of its tree.
LEMMA SetFullscreenInv ==
  ASSUME IInv, NEW w, NEW flag, set_fullscreen(w, flag)
  PROVE  IInv'
<1>1. Planted(heap, tree) /\ Rest  BY InvIsPlanted
<1>2. state' \in [Windows -> WinStates]  BY <1>1, States DEF set_fullscreen, Rest
<1>3. UNCHANGED <<heap, tree, layout, n_count, focus_vars, curr, mapped, requested, running>>
  BY DEF set_fullscreen
<1>4. Rest'  BY <1>1, <1>2, <1>3 DEF Rest, focus_vars
<1> QED BY <1>1, <1>3, <1>4, InvIsPlantedNext

\* Two siblings change sides (swap_node_wrapper).
LEMMA SwapInv ==
  ASSUME IInv, swap_node_wrapper
  PROVE  IInv'
<1> DEFINE n == get_focused_node(heap, tree[curr])
<1>1. Planted(heap, tree) /\ Rest  BY InvIsPlanted
<1>2. /\ n # NULL /\ heap[n].parent # NULL
      /\ heap' = swap_node(heap, n)
      /\ mapped' = mapped \cup rendered(heap, tree[curr], state)
      /\ UNCHANGED <<tree, layout, n_count, focus_vars, curr, state, requested, running>>
  BY DEF swap_node_wrapper
<1>3. n \in Nodes  BY <1>1, <1>2, Trees, FocusedResult DEF Planted, LeafNode
<1> HIDE DEF n
<1>4. Planted(heap', tree')
  <2>1. Good(heap') /\ \A m \in Nodes : IsRoot(heap', m) <=> IsRoot(heap, m)
    BY <1>1, <1>2, <1>3, SwapGood DEF Planted
  <2> QED BY <1>1, <1>2, <2>1, NullAssumption DEF Planted, IsRoot
<1>5. rendered(heap, tree[curr], state) \subseteq Windows  BY <1>1, Trees, TreeWindows DEF Planted
<1>6. Rest'  BY <1>1, <1>2, <1>5 DEF Rest, focus_vars
<1> QED BY <1>4, <1>6, InvIsPlantedNext

\* Another desktop is shown (switch_desktop).
LEMMA SwitchInv ==
  ASSUME IInv, NEW d \in DesktopIds, switch_desktop(d)
  PROVE  IInv'
<1> DEFINE old == tree[curr]
           new == tree[d]
           h   == update_focus(heap, old, NULL)
           n   == find_node_by_window_id(h, new, last_focused[d])
           h1  == set_focused(h, n, TRUE)
<1>1. Planted(heap, tree) /\ Rest  BY InvIsPlanted
<1>2. /\ curr' = d
      /\ mapped' = (mapped \ WindowsOf(heap, old)) \cup WindowsOf(heap, new)
      /\ heap' \in {update_focus(h1, new, n), h}
      /\ focused_win' \in {last_focused[d], NULL}
      /\ UNCHANGED <<tree, layout, n_count, last_focused, state, requested, running>>
  BY DEF switch_desktop
<1>3. Planted(h, tree)  BY <1>1, PlantedFlagOps
<1> HIDE DEF h
<1>4. Planted(h1, tree)  BY <1>3, PlantedFlagOps
<1> HIDE DEF h1
<1>5. Planted(heap', tree')  BY <1>2, <1>3, <1>4, PlantedFlagOps
<1>6. WindowsOf(heap, new) \subseteq Windows  BY <1>1, Trees, TreeWindows DEF Planted
<1>7. Rest'  BY <1>1, <1>2, <1>6 DEF Rest
<1> QED BY <1>5, <1>7, InvIsPlantedNext

\* The key binding that moves the focused window (transfer_node_wrapper).
LEMMA TransferInv ==
  ASSUME IInv, NEW d \in DesktopIds, transfer_node_wrapper(d)
  PROVE  IInv'
<1> DEFINE n == get_focused_node(heap, tree[curr])
<1>1. Planted(heap, tree) /\ Rest  BY InvIsPlanted
<1>2. n # NULL /\ move_node(n, curr, d)  BY DEF transfer_node_wrapper
<1>3. n \in Subtree(heap, tree[curr]) /\ LeafNode(heap, n)
  BY <1>1, <1>2, Trees, FocusedResult DEF Planted
<1>4. curr \in DesktopIds  BY <1>1 DEF Rest
<1> HIDE DEF n
<1> QED BY <1>2, <1>3, <1>4, MoveNodeInv

\* The pager's request to move a window (handle_net_wm_desktop).
LEMMA NetWmDesktopInv ==
  ASSUME IInv, NEW w \in Windows, NEW d \in DesktopIds, handle_net_wm_desktop(w, d)
  PROVE  IInv'
<1> DEFINE o == desktop_of(w)
           n == find_node_by_window_id(heap, tree[o], w)
<1>1. client_exist_in_desktops(w) /\ move_node(n, o, d)  BY DEF handle_net_wm_desktop
<1>2. o \in DesktopIds /\ n \in Subtree(heap, tree[o]) /\ LeafNode(heap, n)
  BY <1>1, Located
<1> HIDE DEF n, o
<1> QED BY <1>1, <1>2, MoveNodeInv

\* Every step preserves the invariant.
LEMMA NextInv == IInv /\ [Next]_vars => IInv'
<1> SUFFICES ASSUME IInv, [Next]_vars PROVE IInv'
  OBVIOUS
<1>1. CASE UNCHANGED vars
  <2>1. Planted(heap, tree) /\ Rest  BY InvIsPlanted
  <2>2. Rest'  BY <1>1, <2>1 DEF vars, Rest
  <2> QED BY <1>1, <2>1, <2>2, InvIsPlantedNext DEF vars
<1>2. ASSUME NEW w \in Windows, NEW p, handle_map_request(w, p) PROVE IInv'
  BY <1>2, MapRequestInv
<1>3. ASSUME NEW w \in Windows, handle_unmap_notify(w) PROVE IInv'
  BY <1>3, UnmapNotifyInv
<1>4. ASSUME NEW w \in Windows, handle_enter_notify(w) \/ handle_button_press(w) PROVE IInv'
  <2>1. give_focus(w)  BY <1>4 DEF handle_enter_notify, handle_button_press
  <2> QED BY <2>1, GiveFocusInv
<1>5. ASSUME NEW p, cycle_win_wrapper(p) PROVE IInv'
  BY <1>5, CycleInv
<1>6. ASSUME NEW step, traverse_stack_wrapper(step) PROVE IInv'
  BY <1>6, TraverseInv
<1>7. ASSUME NEW t, NEW p, layout_handler(t, p) PROVE IInv'
  BY <1>7, LayoutInv
<1>8. ASSUME NEW s \in {"TILED", "FLOATING"}, NEW p, change_state(s, p) PROVE IInv'
  BY <1>8, ChangeStateInv
<1>9. ASSUME NEW p, set_fullscreen_wrapper(p) PROVE IInv'
  <2>1. set_fullscreen(p, state[p] # "FULLSCREEN")  BY <1>9 DEF set_fullscreen_wrapper
  <2> QED BY <2>1, SetFullscreenInv
<1>10. ASSUME NEW w, NEW flag, handle_net_wm_state(w, flag) PROVE IInv'
  <2>1. set_fullscreen(w, flag)  BY <1>10 DEF handle_net_wm_state
  <2> QED BY <2>1, SetFullscreenInv
<1>11. CASE swap_node_wrapper
  BY <1>11, SwapInv
<1>12. ASSUME NEW d \in DesktopIds, switch_desktop(d) PROVE IInv'
  BY <1>12, SwitchInv
<1>13. ASSUME NEW d \in DesktopIds, transfer_node_wrapper(d) PROVE IInv'
  BY <1>13, TransferInv
<1>14. ASSUME NEW w \in Windows, NEW d \in DesktopIds, handle_net_wm_desktop(w, d) PROVE IInv'
  BY <1>14, NetWmDesktopInv
<1> QED BY <1>1, <1>2, <1>3, <1>4, <1>5, <1>6, <1>7, <1>8, <1>9, <1>10, <1>11, <1>12,
           <1>13, <1>14 DEF Next, pointer_event, key_event, client_event

\* Every variable keeps to its type whatever events arrive, for any number of windows,
\* nodes and desktops: the uint16_t counters, the states and the window ids zwm keeps.
THEOREM TypeCorrect == Spec => []TypeOK
<1>1. IInv => TypeOK  BY DEF IInv
<1> QED BY InitInv, NextInv, <1>1, PTL DEF Spec

\* No sequence of handlers leaves a dangling pointer, a node with one child, a child whose
\* parent does not know it, a cycle, or a desktop whose tree is not a root of its own: the
\* surgeries of tree.c keep every tree well linked.
THEOREM LinkedAlways == Spec => []Linked
<1>1. IInv => Linked  BY DEF IInv
<1> QED BY InitInv, NextInv, <1>1, PTL DEF Spec

-----------------------------------------------------------------------------
(* Heaps, trees and the windows in them.                                   *)

\* O labels the nodes of h with desktops; for the nodes S that hang in the trees t
\* the label says whose tree that is, and p says the same of their windows.
Labelled(h, t, p, S, O) ==
  /\ O \in [Nodes -> DesktopIds]
  /\ \A m \in Nodes : h[m].parent # NULL => O[m] = O[h[m].parent]
  /\ \A m \in S : IsRoot(h, m) => t[O[m]] = m
  /\ \A m \in S : h[m].client # NULL => p[h[m].client] = O[m]

\* The windows p places, and no others, are in the nodes S, each in one.
Houses(h, t, p, S) ==
  /\ p \in [Windows -> DesktopIds \cup {NULL}]
  /\ \E O : Labelled(h, t, p, S, O)
  /\ \A w \in Windows : p[w] # NULL => \E m \in S : h[m].client = w
  /\ \A m, k \in Nodes : h[m].client # NULL /\ h[m].client = h[k].client => m = k

\* The heap h holds the trees t with the windows where p places them.
Holds(h, t, p) == Planted(h, t) /\ Houses(h, t, p, Nodes)

\* The same, but for the detached node n and its window.
HoldsBut(h, t, p, n) ==
  Uprooted(h, t, n) /\ Houses(h, t, p, Nodes \ {n}) /\ p[h[n].client] = NULL

\* The nodes of the tree of desktop d are labelled d.
LEMMA TreeLabels ==
  ASSUME NEW h, Forest(h), NEW t \in [DesktopIds -> Nodes \cup {NULL}], NEW p, NEW S, NEW O,
         Labelled(h, t, p, S, O), NEW d \in DesktopIds,
         t[d] # NULL => t[d] \in S /\ IsRoot(h, t[d]),
         \A e \in DesktopIds : t[e] = t[d] /\ t[d] # NULL => e = d,
         NEW m \in Subtree(h, t[d])
  PROVE  O[m] = d
<1>1. t[d] # NULL /\ t[d] \in Nodes
  BY SubtreeInside, NullAssumption
<1>2. O[m] = O[t[d]]
  BY SubtreeLabels DEF Labelled
<1>3. t[O[t[d]]] = t[d] /\ O[t[d]] \in DesktopIds
  BY <1>1 DEF Labelled
<1> QED BY <1>1, <1>2, <1>3

\* A leaf of the tree of desktop d holds a window of that desktop.
LEMMA LeafPlaced ==
  ASSUME NEW h, NEW t, NEW p, Holds(h, t, p), NEW d \in DesktopIds, NEW m \in Leaves(h, t[d])
  PROVE  /\ m \in Nodes /\ LeafNode(h, m) /\ h[m].client \in Windows
         /\ p[h[m].client] = d
<1>1. Good(h) /\ t \in [DesktopIds -> Nodes \cup {NULL}]
  BY DEF Holds, Planted
<1>2. m \in Subtree(h, t[d]) /\ LeafNode(h, m)
  BY <1>1, LeafSearchResult
<1>3. h[m].client \in Windows
  BY <1>1, <1>2 DEF LeafNode, Good, Heaps, NodeRecords
<1>4. PICK O : Labelled(h, t, p, Nodes, O)
  BY DEF Holds, Houses
<1>5. O[m] = d
  BY <1>1, <1>2, <1>4, GoodIsForest, TreeLabels DEF Holds, Planted, IsRoot
<1> QED BY <1>2, <1>3, <1>4, <1>5 DEF Labelled, LeafNode

\* The same while n is detached: the leaves of the trees are not n.
LEMMA LeafPlacedBut ==
  ASSUME NEW h, NEW t, NEW p, NEW n, HoldsBut(h, t, p, n), NEW d \in DesktopIds,
         NEW m \in Leaves(h, t[d])
  PROVE  m \in Nodes \ {n} /\ p[h[m].client] = d
<1>1. /\ Forest(h) /\ t \in [DesktopIds -> Nodes \cup {NULL}]
      /\ \A e \in DesktopIds : t[e] # NULL => t[e] # n /\ IsRoot(h, t[e])
      /\ h[n].parent = NULL
  BY DetachedIsForest DEF HoldsBut, Uprooted, Detached
<1>2. m \in Subtree(h, t[d]) /\ h[m].client # NULL
  BY DEF Leaves, IsLeaf
<1>3. m \in Nodes \ {n}
  BY <1>1, <1>2, SubtreeInside, NullAssumption
<1>4. PICK O : Labelled(h, t, p, Nodes \ {n}, O)
  BY DEF HoldsBut, Houses
<1>5. O[m] = d
  BY <1>1, <1>2, <1>4, TreeLabels DEF HoldsBut, Uprooted, IsRoot
<1> QED BY <1>2, <1>3, <1>4, <1>5 DEF Labelled

\* The leaf transfer_node splits holds a window of the desktop it moves to.
LEMMA TargetPlaced ==
  ASSUME NEW h, NEW t, NEW p, NEW n, HoldsBut(h, t, p, n), NEW d \in DesktopIds,
         t[d] # NULL, NEW fl, transfer_target(h, t[d], fl) # NULL
  PROVE  p[h[transfer_target(h, t[d], fl)].client] = d
<1> DEFINE r    == t[d]
           leaf == transfer_target(h, r, fl)
<1>1. /\ Forest(h) /\ r \in Nodes /\ IsRoot(h, r)
  BY DetachedIsForest DEF HoldsBut, Uprooted
<1>2. leaf \in Leaves(h, r)
  <2>1. CASE h[r].first = NULL /\ h[r].second = NULL
    <3>1. leaf = r
      BY <2>1 DEF transfer_target
    <3>2. h[r].client # NULL /\ h[r].type = "ROOT"
      BY <3>1, TargetResult DEF HoldsBut, LeafNode, Uprooted, IsRoot
    <3>3. r \in Subtree(h, r)
      BY <1>1, BelowLeast, NullAssumption DEF Subtree
    <3> QED BY <3>1, <3>2, <3>3 DEF Leaves, IsLeaf
  <2>2. CASE ~(h[r].first = NULL /\ h[r].second = NULL)
    <3>1. leaf = find_any_leaf(h, r, fl)
      BY <2>2 DEF transfer_target
    <3>2. {m \in Leaves(h, r) : h[m].client \notin fl} \in SUBSET Subtree(h, r)
      BY DEF Leaves
    <3> QED BY <1>1, <3>1, <3>2, FirstInFinds DEF find_any_leaf
  <2> QED BY <2>1, <2>2
<1> HIDE DEF leaf
<1>3. p[h[leaf].client] = d
  BY <1>2, LeafPlacedBut
<1> QED BY <1>3 DEF leaf

\* An allocated node is in the tree of the desktop it is labelled with: the parents of
\* the nodes of one label lead to a root of that label, which is that tree.
LEMMA AllocatedInTree ==
  ASSUME NEW h, NEW t, NEW p, Planted(h, t), NEW O, Labelled(h, t, p, Nodes, O),
         NEW m \in Nodes, h[m].type # "NONE"
  PROVE  O[m] \in DesktopIds /\ m \in Subtree(h, t[O[m]])
<1> DEFINE d == O[m]
           S == {k \in Nodes : h[k].type # "NONE" /\ O[k] = d}
<1>1. Good(h) /\ \A k \in Nodes : Wired(h, k)
  BY WiredIsWellLinked DEF Planted, Good
<1>2. PICK r \in S : h[r].parent \notin S
  BY <1>1 DEF Good, Acyclic
<1>3. h[r].parent = NULL
  <2> SUFFICES ASSUME h[r].parent # NULL PROVE FALSE
    OBVIOUS
  <2>1. h[r].parent \in Nodes /\ h[h[r].parent].type # "NONE"
    BY <1>1, <1>2, ParentAllocated
  <2> QED BY <1>2, <2>1 DEF Labelled
<1>4. t[d] = r
  BY <1>1, <1>2, <1>3 DEF Labelled, Wired, IsRoot
<1>5. \A k \in Nodes : h[k].type # "NONE" /\ h[k].parent = NULL /\ O[k] = O[r] => k = r
  BY <1>1, <1>2, <1>4 DEF Wired, IsRoot, Labelled
<1>6. Subtree(h, r) = {k \in Nodes : h[k].type # "NONE" /\ O[k] = O[r]}
  BY <1>1, <1>2, <1>5, SubtreeIsLabelled DEF Labelled
<1> QED BY <1>2, <1>4, <1>6 DEF Labelled

\* A window placed on desktop d is in a leaf of the tree of d.
LEMMA PlacedLeaf ==
  ASSUME NEW h, NEW t, NEW p, Holds(h, t, p), NEW w \in Windows, p[w] # NULL
  PROVE  p[w] \in DesktopIds /\ \E m \in Leaves(h, t[p[w]]) : h[m].client = w
<1> DEFINE d == p[w]
<1>1. /\ Good(h) /\ t \in [DesktopIds -> Nodes \cup {NULL}]
      /\ \A m \in Nodes : Wired(h, m) /\ h[m] \in NodeRecords
  BY WiredIsWellLinked DEF Holds, Planted, Good, Heaps
<1>2. d \in DesktopIds
  BY DEF Holds, Houses
<1>3. PICK m \in Nodes : h[m].client = w
  BY DEF Holds, Houses
<1>4. PICK O : Labelled(h, t, p, Nodes, O)
  BY DEF Holds, Houses
<1>5. w # NULL /\ O[m] = d
  BY <1>3, <1>4, NullAssumption DEF Labelled
<1>6. h[m].type # "NONE" /\ h[m].type # "INTERNAL"
  BY <1>1, <1>3, <1>5, NullAssumption DEF Wired
<1>7. m \in Subtree(h, t[d])
  BY <1>4, <1>5, <1>6, AllocatedInTree DEF Holds
<1>8. m \in Leaves(h, t[d])
  BY <1>3, <1>5, <1>6, <1>7 DEF Leaves, IsLeaf
<1> QED BY <1>2, <1>3, <1>8

\* The windows of the tree of desktop d are those placed there.
LEMMA WindowsPlaced ==
  ASSUME NEW h, NEW t, NEW p, Holds(h, t, p), NEW d \in DesktopIds
  PROVE  WindowsOf(h, t[d]) = {w \in Windows : p[w] = d}
<1>1. WindowsOf(h, t[d]) \subseteq {w \in Windows : p[w] = d}
  BY LeafPlaced DEF WindowsOf
<1>2. {w \in Windows : p[w] = d} \subseteq WindowsOf(h, t[d])
  BY PlacedLeaf, DesktopsAssumption DEF WindowsOf
<1> QED BY <1>1, <1>2

\* find_node_by_window_id finds a window on its desktop and on no other.
LEMMA FindPlaced ==
  ASSUME NEW h, NEW t, NEW p, Holds(h, t, p), NEW d \in DesktopIds, NEW w \in Windows
  PROVE  LET n == find_node_by_window_id(h, t[d], w)
         IN  /\ n # NULL <=> p[w] = d
             /\ n # NULL => /\ n \in Subtree(h, t[d]) /\ LeafNode(h, n)
                            /\ h[n].client = w /\ n \in Leaves(h, t[d])
<1> DEFINE S == {m \in Subtree(h, t[d]) : h[m].client # NULL /\ h[m].client = w}
           n == find_node_by_window_id(h, t[d], w)
<1>1. Good(h) /\ t[d] \in Nodes \cup {NULL}
  BY DEF Holds, Planted
<1>2. IF S = {} THEN n = NULL ELSE n \in S
  <2>1. S \in SUBSET Subtree(h, t[d])  OBVIOUS
  <2> QED BY <1>1, <2>1, GoodIsForest, FirstInFinds DEF find_node_by_window_id
<1>3. \A m \in S : m \in Leaves(h, t[d]) /\ m # NULL /\ LeafNode(h, m)
  <2> SUFFICES ASSUME NEW m \in S PROVE m \in Leaves(h, t[d]) /\ m # NULL /\ LeafNode(h, m)
    OBVIOUS
  <2>1. m \in Nodes
    BY <1>1, SubtreeNodes
  <2>2. Wired(h, m)
    BY <1>1, <2>1, WiredIsWellLinked DEF Good
  <2> QED BY <2>1, <2>2, NullAssumption DEF Wired, Leaves, IsLeaf, LeafNode
<1>4. p[w] = d => S # {}
  <2> SUFFICES ASSUME p[w] = d PROVE S # {}
    OBVIOUS
  <2>1. p[w] # NULL
    BY DesktopsAssumption
  <2>2. PICK m \in Leaves(h, t[d]) : h[m].client = w
    BY <2>1, PlacedLeaf
  <2> QED BY <2>2 DEF Leaves, IsLeaf
<1> HIDE DEF n
<1>5. n # NULL => n \in S /\ n \in Leaves(h, t[d]) /\ LeafNode(h, n)
  BY <1>2, <1>3
<1>6. n # NULL => p[w] = d
  BY <1>5, LeafPlaced
<1> QED BY <1>2, <1>3, <1>4, <1>5, <1>6 DEF n

-----------------------------------------------------------------------------
(* What each surgery does to the placement.                                *)

\* Flags do not matter.
LEMMA HoldsFlags ==
  ASSUME NEW h, NEW t, NEW p, Holds(h, t, p), NEW k \in Heaps, SameShape(h, k)
  PROVE  Holds(k, t, p)
<1>1. Planted(k, t)
  BY PlantedFlags DEF Holds
<1>2. PICK O : Labelled(h, t, p, Nodes, O)
  BY DEF Holds, Houses
<1>3. Labelled(k, t, p, Nodes, O)
  BY <1>2 DEF Labelled, SameShape, IsRoot
<1>4. Houses(k, t, p, Nodes)
  BY <1>3 DEF Holds, Houses, SameShape
<1> QED BY <1>1, <1>4 DEF Holds

\* Hence none of the flag operators moves a window.
LEMMA HoldsFlagOps ==
  ASSUME NEW h, NEW t, NEW p, Holds(h, t, p), NEW r, NEW n, NEW l, NEW fl,
         NEW flag \in BOOLEAN
  PROVE  /\ Holds(set_focused(h, n, flag), t, p)
         /\ Holds(update_focus(h, r, n), t, p)
         /\ Holds(master_clean_up(h, r), t, p)
         /\ Holds(master_layout(h, r, n, fl), t, p)
         /\ Holds(arrange_tree(h, r, l, fl), t, p)
<1>1. h \in Heaps  BY DEF Holds, Planted, Good
<1> QED BY <1>1, FlagShapes, HoldsFlags

\* The first window of desktop d.
LEMMA HoldsFirst ==
  ASSUME NEW h, NEW t, NEW p, Holds(h, t, p), NEW d \in DesktopIds, t[d] = NULL,
         NEW n \in FreeNodes(h), NEW x, LoneRoot(x), x.client \in Windows, p[x.client] = NULL
  PROVE  Holds([h EXCEPT ![n] = x], [t EXCEPT ![d] = n], [p EXCEPT ![x.client] = d])
<1> DEFINE k == [h EXCEPT ![n] = x]
           u == [t EXCEPT ![d] = n]
           w == x.client
           q == [p EXCEPT ![w] = d]
<1>1. Planted(k, u)
  BY PlantedFirst DEF Holds
<1>2. /\ n \in Nodes /\ h[n].type = "NONE" /\ h[n].client = NULL
      /\ h \in Heaps /\ \A m \in Nodes : Wired(h, m) /\ h[m] \in NodeRecords
  <2>1. n \in Nodes /\ h[n].type = "NONE" /\ Good(h)
    BY DEF FreeNodes, Holds, Planted
  <2>2. \A m \in Nodes : Wired(h, m) /\ h[m] \in NodeRecords
    BY <2>1, WiredIsWellLinked DEF Good, Heaps
  <2> QED BY <2>1, <2>2 DEF Wired, Good
<1>3. PICK O : Labelled(h, t, p, Nodes, O)
  BY DEF Holds, Houses
<1>4. /\ k[n] = x /\ \A m \in Nodes \ {n} : k[m] = h[m]
      /\ u[d] = n /\ \A e \in DesktopIds \ {d} : u[e] = t[e]
  BY <1>2 DEF Heaps, Holds, Planted
<1>5. /\ x.type = "ROOT" /\ x.parent = NULL /\ w \in Windows /\ w # NULL
      /\ p \in [Windows -> DesktopIds \cup {NULL}]
      /\ q \in [Windows -> DesktopIds \cup {NULL}]
      /\ q[w] = d /\ \A v \in Windows \ {w} : q[v] = p[v]
  BY NullAssumption DEF LoneRoot, Holds, Houses
<1>6. \A m \in Nodes : h[m].client # w
  BY <1>3, <1>5, DesktopsAssumption DEF Labelled
<1> DEFINE U == [O EXCEPT ![n] = d]
<1>7. U \in [Nodes -> DesktopIds] /\ U[n] = d /\ \A m \in Nodes \ {n} : U[m] = O[m]
  BY <1>2, <1>3 DEF Labelled
<1> HIDE DEF k, u, q, U
<1>8. Labelled(k, u, q, Nodes, U)
  <2>1. ASSUME NEW m \in Nodes, k[m].parent # NULL PROVE U[m] = U[k[m].parent]
    <3>1. m # n /\ k[m] = h[m]
      BY <1>4, <1>5, <2>1
    <3>2. h[m].parent \in Nodes \ {n}
      BY <1>2, <2>1, <3>1, NullAssumption DEF Wired, NodeRecords
    <3> QED BY <1>3, <1>7, <2>1, <3>1, <3>2 DEF Labelled
  <2>2. ASSUME NEW m \in Nodes, IsRoot(k, m) PROVE u[U[m]] = m
    <3>1. CASE m = n  BY <1>4, <1>7, <3>1
    <3>2. CASE m # n
      <4>1. t[O[m]] = m /\ O[m] \in DesktopIds
        BY <1>3, <1>4, <2>2, <3>2 DEF Labelled, IsRoot
      <4>2. O[m] # d
        BY <4>1, NullAssumption
      <4> QED BY <1>4, <1>7, <3>2, <4>1, <4>2
    <3> QED BY <3>1, <3>2
  <2>3. ASSUME NEW m \in Nodes, k[m].client # NULL PROVE q[k[m].client] = U[m]
    <3>1. CASE m = n  BY <1>4, <1>5, <1>7, <3>1
    <3>2. CASE m # n
      <4>1. h[m].client \in Windows \ {w}
        BY <1>2, <1>4, <1>6, <2>3, <3>2 DEF NodeRecords
      <4> QED BY <1>3, <1>4, <1>5, <1>7, <2>3, <3>2, <4>1 DEF Labelled
    <3> QED BY <3>1, <3>2
  <2> QED BY <1>7, <2>1, <2>2, <2>3 DEF Labelled
<1>9. Houses(k, u, q, Nodes)
  <2>1. ASSUME NEW v \in Windows, q[v] # NULL PROVE \E m \in Nodes : k[m].client = v
    <3>1. CASE v = w  BY <1>2, <1>4, <3>1
    <3>2. CASE v # w
      <4>1. PICK m \in Nodes : h[m].client = v
        BY <1>5, <2>1, <3>2 DEF Holds, Houses
      <4>2. m # n
        BY <1>2, <4>1, NullAssumption
      <4> QED BY <1>4, <4>1, <4>2
    <3> QED BY <3>1, <3>2
  <2>2. ASSUME NEW m \in Nodes, NEW j \in Nodes, k[m].client # NULL,
               k[m].client = k[j].client
        PROVE  m = j
    BY <1>4, <1>6, <2>2 DEF Holds, Houses
  <2> QED BY <1>5, <1>8, <2>1, <2>2 DEF Houses
<1> QED BY <1>1, <1>9 DEF Holds, k, u, q

\* Splitting a leaf adds the window of the new node to the desktop of the leaf.
LEMMA HousesSplit ==
  ASSUME NEW h \in Heaps, NEW t, NEW p, NEW S \in SUBSET Nodes, NEW new \in Nodes,
         S \cup {new} = Nodes, new \in S => h[new].client = NULL,
         Houses(h, t, p, S), NEW k, NEW leaf \in S, NEW at \in FreeNodes(h), at # new,
         leaf # new, SplitFrom(h, k, leaf, at, new),
         \A m \in Nodes \ {new} : Wired(h, m) /\ h[m].parent # new,
         h[leaf].client # NULL,
         NEW w \in Windows, k[new].client = w, p[w] = NULL,
         \A m \in Nodes \ {new} : h[m].client # w
  PROVE  Houses(k, t, [p EXCEPT ![w] = p[h[leaf].client]], Nodes)
<1> DEFINE d == p[h[leaf].client]
           q == [p EXCEPT ![w] = d]
<1>1. PICK O : Labelled(h, t, p, S, O)
  BY DEF Houses
<1>2. /\ at \in Nodes /\ h[at].type = "NONE" /\ h[at].client = NULL /\ at # leaf
      /\ h[leaf].client \in Windows \ {w}
      /\ O[leaf] = d /\ d \in DesktopIds
      /\ \A m \in Nodes \ {new} : h[m].parent # at /\ h[m] \in NodeRecords
  <2>1. at \in Nodes /\ h[at].type = "NONE"
    BY DEF FreeNodes
  <2>2. h[at].client = NULL /\ at # leaf
    BY <2>1 DEF Wired
  <2>3. h[leaf].client \in Windows \ {w}
    BY DEF Heaps, NodeRecords
  <2>4. O[leaf] = d /\ d \in DesktopIds
    BY <1>1 DEF Labelled
  <2>5. \A m \in Nodes \ {new} : h[m].parent # at /\ h[m] \in NodeRecords
    BY <2>1, NullAssumption DEF Wired, Heaps, NodeRecords
  <2> QED BY <2>1, <2>2, <2>3, <2>4, <2>5
<1>3. /\ p \in [Windows -> DesktopIds \cup {NULL}]
      /\ q \in [Windows -> DesktopIds \cup {NULL}]
      /\ q[w] = d /\ \A v \in Windows \ {w} : q[v] = p[v]
  BY <1>2 DEF Houses
<1> DEFINE U == [O EXCEPT ![at] = d, ![new] = d]
<1>4. /\ U \in [Nodes -> DesktopIds] /\ U[at] = d /\ U[new] = d /\ U[leaf] = d
      /\ \A m \in Nodes \ {at, new} : U[m] = O[m]
  BY <1>1, <1>2 DEF Labelled
<1>5. \A m \in Nodes \ {at, leaf, new} :
        /\ k[m] = h[m] /\ m \in S
        /\ h[m].parent # NULL => h[m].parent \in Nodes \ {at, new}
  BY <1>2 DEF SplitFrom, NodeRecords
<1> HIDE DEF U, q, d
<1>6. Labelled(k, t, q, Nodes, U)
  <2>1. ASSUME NEW m \in Nodes, k[m].parent # NULL PROVE U[m] = U[k[m].parent]
    <3>1. CASE m \in {at, new}
      BY <1>4, <3>1 DEF SplitFrom
    <3>2. CASE m = leaf
      <4>1. k[m].parent = h[leaf].parent /\ h[leaf].parent \in Nodes \ {at, new}
        BY <1>2, <2>1, <3>2 DEF SplitFrom, NodeRecords
      <4> QED BY <1>1, <1>2, <1>4, <2>1, <3>2, <4>1 DEF Labelled
    <3>3. CASE m \notin {at, leaf, new}
      BY <1>1, <1>4, <1>5, <2>1, <3>3 DEF Labelled
    <3> QED BY <3>1, <3>2, <3>3
  <2>2. ASSUME NEW m \in Nodes, IsRoot(k, m) PROVE t[U[m]] = m
    <3>1. m \notin {at, new}
      BY <2>2 DEF SplitFrom, IsRoot
    <3>2. IsRoot(h, m) /\ m \in S
      BY <1>5, <2>2, <3>1 DEF SplitFrom, IsRoot
    <3> QED BY <1>1, <1>4, <3>1, <3>2 DEF Labelled
  <2>3. ASSUME NEW m \in Nodes, k[m].client # NULL PROVE q[k[m].client] = U[m]
    <3>1. CASE m = at
      BY <1>2, <1>3, <1>4, <3>1 DEF SplitFrom, d
    <3>2. CASE m = new
      BY <1>3, <1>4, <3>2
    <3>3. CASE m \notin {at, leaf, new}
      <4>1. h[m].client \in Windows \ {w}
        BY <1>2, <1>5, <2>3, <3>3 DEF NodeRecords
      <4> QED BY <1>1, <1>3, <1>4, <1>5, <2>3, <3>3, <4>1 DEF Labelled
    <3> QED BY <2>3, <3>1, <3>2, <3>3 DEF SplitFrom
  <2> QED BY <1>4, <2>1, <2>2, <2>3 DEF Labelled
<1>7. ASSUME NEW v \in Windows, q[v] # NULL PROVE \E m \in Nodes : k[m].client = v
  <2>1. CASE v = w  BY <2>1
  <2>2. CASE v # w
    <3>1. PICK m \in S : h[m].client = v
      BY <1>3, <1>7, <2>2 DEF Houses
    <3>2. CASE m = leaf  BY <1>2, <3>1, <3>2 DEF SplitFrom
    <3>3. CASE m = new
      BY <3>1, <3>3, NullAssumption
    <3>4. CASE m \notin {leaf, new}
      BY <1>2, <1>5, <3>1, <3>4, NullAssumption
    <3> QED BY <3>2, <3>3, <3>4
  <2> QED BY <2>1, <2>2
<1>8. ASSUME NEW m \in Nodes, NEW j \in Nodes, k[m].client # NULL, k[m].client = k[j].client
      PROVE  m = j
  <2>1. \A i \in Nodes : k[i].client # NULL =>
          \/ i = at /\ k[i].client = h[leaf].client
          \/ i = new /\ k[i].client = w
          \/ i \notin {at, leaf, new} /\ k[i].client = h[i].client /\ h[i].client # w
    BY <1>5 DEF SplitFrom
  <2> QED BY <1>2, <1>8, <2>1 DEF Houses
<1> QED BY <1>3, <1>6, <1>7, <1>8 DEF Houses, q, d

\* Another window, at a leaf, goes where the window of the leaf is.
LEMMA HoldsWith ==
  ASSUME NEW h, NEW t, NEW p, Holds(h, t, p), NEW n, LeafNode(h, n), NEW r, NEW w \in Windows,
         p[w] = NULL, NEW l, NEW fl, \E a, b \in FreeNodes(h) : a # b
  PROVE  Holds(with_window(h, r, n, w, l, fl), t, [p EXCEPT ![w] = p[h[n].client]])
<1> DEFINE q == [p EXCEPT ![w] = p[h[n].client]]
<1>1. Good(h)
  BY DEF Holds, Planted
<1>2. PICK at, new \in FreeNodes(h), k \in Heaps :
        /\ at # new /\ Good(k) /\ \A m \in Nodes : IsRoot(k, m) <=> IsRoot(h, m)
        /\ SplitFrom(h, k, n, at, new) /\ k[new].client = w
        /\ with_window(h, r, n, w, l, fl) \in Heaps
        /\ SameShape(k, with_window(h, r, n, w, l, fl))
  BY <1>1, WithWindowSplits
<1>3. Planted(k, t)
  BY <1>2, NullAssumption DEF Holds, Planted, IsRoot
<1>4. /\ \A m \in Nodes : Wired(h, m) /\ h[m] \in NodeRecords
      /\ h \in Heaps /\ new \in Nodes /\ h[new].type = "NONE"
  BY <1>1, WiredIsWellLinked DEF Good, Heaps, FreeNodes
<1>5. /\ h[new].client = NULL /\ new # n /\ n \in Nodes /\ h[n].client # NULL
      /\ \A m \in Nodes \ {new} : h[m].parent # new
  BY <1>4, NullAssumption DEF Wired, LeafNode, NodeRecords
<1>6. \A m \in Nodes : h[m].client # w
  <2>1. PICK O : Labelled(h, t, p, Nodes, O)
    BY DEF Holds, Houses
  <2>2. w # NULL
    BY NullAssumption
  <2> QED BY <2>1, <2>2, DesktopsAssumption DEF Labelled
<1>7. Houses(k, t, q, Nodes)
  BY <1>2, <1>4, <1>5, <1>6, HousesSplit DEF Holds
<1> HIDE DEF q
<1>8. Holds(k, t, q)
  BY <1>3, <1>7 DEF Holds
<1> QED BY <1>2, <1>8, HoldsFlags DEF q

\* The detached node is hung next to a leaf: its window joins that leaf's desktop.
LEMMA HoldsHung ==
  ASSUME NEW k, NEW t, NEW p, NEW n, HoldsBut(k, t, p, n), NEW leaf, LeafNode(k, leaf),
         leaf # n, NEW at \in FreeNodes(k), NEW j, SplitFrom(k, j, leaf, at, n),
         j[n].client = k[n].client
  PROVE  Holds(j, t, [p EXCEPT ![k[n].client] = p[k[leaf].client]])
<1> DEFINE w == k[n].client
           q == [p EXCEPT ![w] = p[k[leaf].client]]
<1>1. Planted(j, t)
  BY PlantedHung DEF HoldsBut
<1>2. Detached(k, n)
  BY DEF HoldsBut, Uprooted
<1>3. /\ k \in Heaps /\ n \in Nodes /\ at # n /\ w \in Windows
      /\ leaf \in Nodes \ {n} /\ k[leaf].client # NULL
      /\ \A m \in Nodes \ {n} : Wired(k, m) /\ k[m].parent # n
  BY <1>2 DEF Detached, FreeNodes, Heaps, NodeRecords, LeafNode
<1>4. \A m \in Nodes \ {n} : k[m].client # w
  BY <1>3, NullAssumption DEF HoldsBut, Houses
<1>5. Houses(j, t, q, Nodes)
  <2>1. Houses(k, t, p, Nodes \ {n}) /\ p[w] = NULL
    BY DEF HoldsBut
  <2> HIDE DEF w
  <2>2. j[n].client = w
    BY DEF w
  <2> QED BY <1>3, <1>4, <2>1, <2>2, HousesSplit
<1> HIDE DEF q
<1>6. Holds(j, t, q)
  BY <1>1, <1>5 DEF Holds
<1> QED BY <1>6 DEF q

\* transfer_node does that.
LEMMA HoldsTransfer ==
  ASSUME NEW k, NEW t, NEW p, NEW n, HoldsBut(k, t, p, n), NEW leaf, LeafNode(k, leaf),
         leaf # n, FreeNodes(k) # {}
  PROVE  Holds(transfer_node(k, leaf, Malloc(FreeNodes(k)), n), t,
               [p EXCEPT ![k[n].client] = p[k[leaf].client]])
<1> DEFINE at == Malloc(FreeNodes(k))
           j == transfer_node(k, leaf, at, n)
           q == [p EXCEPT ![k[n].client] = p[k[leaf].client]]
<1>1. at \in FreeNodes(k)
  BY MallocAssumption DEF FreeNodes
<1> HIDE DEF at
<1>2. SplitFrom(k, j, leaf, at, n) /\ j[n].client = k[n].client
  BY <1>1, TransferGood DEF HoldsBut, Uprooted
<1> HIDE DEF j
<1>3. Holds(j, t, q)
  BY <1>1, <1>2, HoldsHung
<1> QED BY <1>3 DEF j, at

\* A leaf n of desktop d is unlinked.
LEMMA HoldsUnlink ==
  ASSUME NEW h, NEW t, NEW p, Holds(h, t, p), NEW d \in DesktopIds, NEW n \in Leaves(h, t[d])
  PROVE  /\ HoldsBut(unlink_node(h, n), [t EXCEPT ![d] = root_without(h, t[d], n)],
                     [p EXCEPT ![h[n].client] = NULL], n)
         /\ unlink_node(h, n)[n].client = h[n].client
<1> DEFINE k == unlink_node(h, n)
           u == [t EXCEPT ![d] = root_without(h, t[d], n)]
           w == h[n].client
           q == [p EXCEPT ![w] = NULL]
           m0 == h[n].parent
           s == get_sibling(h, n)
           g == h[m0].parent
<1>1. /\ n \in Nodes /\ LeafNode(h, n) /\ w \in Windows /\ p[w] = d
      /\ n \in Subtree(h, t[d])
  BY LeafPlaced DEF Leaves
<1>2. Uprooted(k, u, n) /\ k[n].client = w
  BY <1>1, PlantedUnlink DEF Holds
<1>3. /\ Good(h) /\ \A m \in Nodes : Wired(h, m) /\ h[m] \in NodeRecords
      /\ t \in [DesktopIds -> Nodes \cup {NULL}]
  BY WiredIsWellLinked DEF Holds, Planted, Good, Heaps
<1>4. PICK O : Labelled(h, t, p, Nodes, O)
  BY DEF Holds, Houses
<1>5. /\ p \in [Windows -> DesktopIds \cup {NULL}]
      /\ q \in [Windows -> DesktopIds \cup {NULL}]
      /\ q[w] = NULL /\ \A v \in Windows \ {w} : q[v] = p[v]
  BY <1>1 DEF Holds, Houses
<1>6. O[n] = d
  BY <1>1, <1>4, NullAssumption DEF Labelled
<1>7. \A m \in Nodes \ {n} : h[m].client # w
  BY <1>1, NullAssumption DEF Holds, Houses
<1>8. /\ Detached(k, n) /\ k[n].client = w
      /\ m0 # NULL => s \in Nodes \ {n, m0}
      /\ m0 = NULL => k = h
      /\ m0 # NULL => /\ SplicedFrom(h, k, n, m0, s, g)
                      /\ m0 \in Nodes \ {n} /\ h[m0].client = NULL
                      /\ h[s].parent = m0
  BY <1>1, <1>3, UnlinkDetaches
<1> HIDE DEF q, k
<1>9. ASSUME NEW m \in Nodes \ {n}
      PROVE  \/ k[m].client = h[m].client
             \/ m = m0 /\ k[m].client = NULL /\ h[m].client = NULL
  <2>1. CASE m0 = NULL  BY <1>8, <2>1
  <2>2. CASE m0 # NULL
    <3>1. m = g => g # NULL  BY NullAssumption
    <3> HIDE DEF m0, s, g
    <3> QED BY <1>8, <2>2, <3>1 DEF SplicedFrom, FreeNode
  <2> QED BY <2>1, <2>2
<1>10. \A m \in Nodes \ {n} : h[m].client # NULL => k[m].client = h[m].client
  BY <1>9
<1>11. Labelled(k, u, q, Nodes \ {n}, O)
  <2>1. ASSUME NEW m \in Nodes, k[m].parent # NULL PROVE O[m] = O[k[m].parent]
    <3>1. CASE m0 = NULL  BY <1>4, <1>8, <2>1, <3>1 DEF Labelled
    <3>2. CASE m0 # NULL
      <4>1. m # n /\ m # m0
        BY <1>8, <2>1, <3>2 DEF SplicedFrom, FreeNode
      <4>2. CASE m = s
        <5>1. k[m].parent = g /\ h[s].parent = m0
          BY <1>8, <3>2, <4>2 DEF SplicedFrom
        <5>2. O[s] = O[m0]
          BY <1>4, <1>8, <3>2, <5>1 DEF Labelled
        <5>3. O[m0] = O[g]
          BY <1>4, <1>8, <2>1, <3>2, <4>2, <5>1 DEF Labelled
        <5> QED BY <4>2, <5>1, <5>2, <5>3
      <4>3. CASE m # s
        <5>1. k[m].parent = h[m].parent
          BY <1>8, <3>2, <4>1, <4>3, NullAssumption DEF SplicedFrom
        <5> QED BY <1>4, <2>1, <5>1 DEF Labelled
      <4> QED BY <4>2, <4>3
    <3> QED BY <3>1, <3>2
  <2>2. ASSUME NEW m \in Nodes \ {n}, IsRoot(k, m) PROVE u[O[m]] = m
    <3>1. CASE m0 = NULL
      <4>1. t[O[m]] = m
        BY <1>4, <1>8, <2>2, <3>1 DEF Labelled
      <4>2. IsRoot(h, n)
        BY <1>1, <1>3, <3>1 DEF Wired, LeafNode, IsRoot
      <4>3. t[O[n]] = n
        BY <1>1, <1>4, <4>2 DEF Labelled
      <4>4. O[m] # d
        BY <1>6, <4>1, <4>3
      <4> QED BY <1>3, <1>4, <4>1, <4>4 DEF Labelled
    <3>2. CASE m0 # NULL
      <4>1. m # m0
        BY <1>8, <2>2, <3>2 DEF SplicedFrom, FreeNode, IsRoot
      <4>2. CASE g = NULL /\ m = s
        <5>1. u[d] = s
          BY <1>3, <3>2, <4>2 DEF root_without
        <5>2. O[s] = O[m0] /\ O[n] = O[m0]
          BY <1>1, <1>4, <1>8, <3>2 DEF Labelled
        <5> QED BY <1>6, <4>2, <5>1, <5>2
      <4>3. CASE ~(g = NULL /\ m = s)
        <5>1. IsRoot(h, m)
          <6>1. m = g => g # NULL
            BY NullAssumption
          <6>2. k[m].type = h[m].type
            BY <1>8, <3>2, <4>1, <4>3, <6>1 DEF SplicedFrom
          <6> QED BY <2>2, <6>2 DEF IsRoot
        <5>2. t[O[m]] = m /\ O[m] \in DesktopIds
          BY <1>4, <5>1 DEF Labelled
        <5>3. CASE g # NULL
          <6>1. u = t
            BY <1>3, <3>2, <5>3 DEF root_without
          <6> QED BY <5>2, <6>1
        <5>4. CASE g = NULL
          <6>1. IsRoot(h, m0)
            <7>1. h[m0].type # "NONE"
              BY <1>1, <1>3, <3>2, ParentAllocated
            <7> QED BY <1>3, <1>8, <3>2, <5>4, <7>1 DEF Wired, IsRoot
          <6>2. t[O[m0]] = m0 /\ O[m0] = d
            BY <1>1, <1>4, <1>6, <1>8, <3>2, <6>1 DEF Labelled
          <6>3. O[m] # d
            BY <4>1, <5>2, <6>2
          <6> QED BY <1>3, <5>2, <6>3
        <5> QED BY <5>3, <5>4
      <4> QED BY <4>2, <4>3
    <3> QED BY <3>1, <3>2
  <2>3. ASSUME NEW m \in Nodes \ {n}, k[m].client # NULL PROVE q[k[m].client] = O[m]
    <3>1. k[m].client = h[m].client /\ h[m].client \in Windows \ {w}
      BY <1>3, <1>7, <1>9, <2>3 DEF NodeRecords
    <3> QED BY <1>4, <1>5, <2>3, <3>1 DEF Labelled
  <2>4. O \in [Nodes -> DesktopIds]
    BY <1>4 DEF Labelled
  <2> QED BY <2>1, <2>2, <2>3, <2>4 DEF Labelled
<1>12. ASSUME NEW v \in Windows, q[v] # NULL PROVE \E m \in Nodes \ {n} : k[m].client = v
  <2>1. v # w /\ p[v] # NULL
    BY <1>5, <1>12
  <2>2. PICK m \in Nodes : h[m].client = v
    BY <2>1 DEF Holds, Houses
  <2> QED BY <1>10, <2>1, <2>2, NullAssumption
<1>13. ASSUME NEW m \in Nodes, NEW j \in Nodes, k[m].client # NULL, k[m].client = k[j].client
       PROVE  m = j
  <2>1. k[m].client = h[m].client /\ k[j].client = h[j].client
    BY <1>8, <1>9, <1>13
  <2> QED BY <1>13, <2>1 DEF Holds, Houses
<1>14. Houses(k, u, q, Nodes \ {n})
  BY <1>5, <1>11, <1>12, <1>13 DEF Houses
<1>15. HoldsBut(k, u, q, n)
  BY <1>2, <1>5, <1>14 DEF HoldsBut
<1> QED BY <1>2, <1>15 DEF k, q

\* The detached node is freed or leaked.
LEMMA HoldsFree ==
  ASSUME NEW k, NEW t, NEW p, NEW n, HoldsBut(k, t, p, n)
  PROVE  Holds(free_node(k, n), t, p) /\ Holds(leak_node(k, n), t, p)
<1>1. Gone(k, free_node(k, n), n) /\ Gone(k, leak_node(k, n), n)
  BY FreeGoes DEF HoldsBut, Uprooted, Detached
<1>2. PICK O : Labelled(k, t, p, Nodes \ {n}, O)
  BY DEF HoldsBut, Houses
<1>3. ASSUME NEW j, Gone(k, j, n), Planted(j, t) PROVE Holds(j, t, p)
  <2>1. Labelled(j, t, p, Nodes, O)
    BY <1>2, <1>3 DEF Gone, Labelled, IsRoot
  <2>2. Houses(j, t, p, Nodes)
    BY <1>3, <2>1 DEF Gone, HoldsBut, Houses
  <2> QED BY <1>3, <2>2 DEF Holds
<1> QED BY <1>1, <1>3, PlantedFree DEF HoldsBut

\* The detached node becomes the tree of an empty desktop.
LEMMA HoldsRoot ==
  ASSUME NEW k, NEW t, NEW p, NEW n, HoldsBut(k, t, p, n), NEW d \in DesktopIds, t[d] = NULL
  PROVE  Holds([k EXCEPT ![n].type = "ROOT"], [t EXCEPT ![d] = n],
               [p EXCEPT ![k[n].client] = d])
<1> DEFINE j == [k EXCEPT ![n].type = "ROOT"]
           u == [t EXCEPT ![d] = n]
           w == k[n].client
           q == [p EXCEPT ![w] = d]
<1>1. Planted(j, u)
  BY PlantedRoot DEF HoldsBut
<1>2. /\ n \in Nodes /\ k \in Heaps /\ w \in Windows /\ k[n].parent = NULL
      /\ \A m \in Nodes \ {n} : k[m].parent # n /\ k[m] \in NodeRecords
  BY DEF HoldsBut, Uprooted, Detached, Heaps, NodeRecords
<1>3. /\ j[n].parent = NULL /\ j[n].client = w
      /\ \A m \in Nodes \ {n} : j[m] = k[m]
  BY <1>2 DEF Heaps, NodeRecords
<1>4. u[d] = n /\ \A e \in DesktopIds \ {d} : u[e] = t[e]
  BY DEF HoldsBut, Uprooted
<1>5. /\ p \in [Windows -> DesktopIds \cup {NULL}]
      /\ q \in [Windows -> DesktopIds \cup {NULL}]
      /\ q[w] = d /\ \A v \in Windows \ {w} : q[v] = p[v]
  BY <1>2 DEF HoldsBut, Houses
<1>6. PICK O : Labelled(k, t, p, Nodes \ {n}, O)
  BY DEF HoldsBut, Houses
<1>7. \A m \in Nodes \ {n} : k[m].client # w
  BY <1>2, NullAssumption DEF HoldsBut, Houses
<1> DEFINE U == [O EXCEPT ![n] = d]
<1>8. U \in [Nodes -> DesktopIds] /\ U[n] = d /\ \A m \in Nodes \ {n} : U[m] = O[m]
  BY <1>2, <1>6 DEF Labelled
<1> HIDE DEF j, u, q, U
<1>9. Labelled(j, u, q, Nodes, U)
  <2>1. ASSUME NEW m \in Nodes, j[m].parent # NULL PROVE U[m] = U[j[m].parent]
    <3>1. m # n /\ j[m] = k[m]
      BY <1>3, <2>1
    <3>2. k[m].parent \in Nodes \ {n}
      BY <1>2, <2>1, <3>1 DEF NodeRecords
    <3> QED BY <1>6, <1>8, <2>1, <3>1, <3>2 DEF Labelled
  <2>2. ASSUME NEW m \in Nodes, IsRoot(j, m) PROVE u[U[m]] = m
    <3>1. CASE m = n  BY <1>4, <1>8, <3>1
    <3>2. CASE m # n
      <4>1. t[O[m]] = m /\ O[m] \in DesktopIds
        BY <1>3, <1>6, <2>2, <3>2 DEF Labelled, IsRoot
      <4>2. O[m] # d
        BY <4>1, NullAssumption
      <4> QED BY <1>4, <1>8, <3>2, <4>1, <4>2
    <3> QED BY <3>1, <3>2
  <2>3. ASSUME NEW m \in Nodes, j[m].client # NULL PROVE q[j[m].client] = U[m]
    <3>1. CASE m = n  BY <1>3, <1>5, <1>8, <3>1
    <3>2. CASE m # n
      <4>1. k[m].client \in Windows \ {w}
        BY <1>2, <1>3, <1>7, <2>3, <3>2 DEF NodeRecords
      <4> QED BY <1>3, <1>5, <1>6, <1>8, <2>3, <3>2, <4>1 DEF Labelled
    <3> QED BY <3>1, <3>2
  <2> QED BY <1>8, <2>1, <2>2, <2>3 DEF Labelled
<1>10. ASSUME NEW v \in Windows, q[v] # NULL PROVE \E m \in Nodes : j[m].client = v
  <2>1. CASE v = w  BY <1>2, <1>3, <2>1
  <2>2. CASE v # w
    BY <1>3, <1>5, <1>10, <2>2 DEF HoldsBut, Houses
  <2> QED BY <2>1, <2>2
<1>11. ASSUME NEW m \in Nodes, NEW i \in Nodes, j[m].client # NULL, j[m].client = j[i].client
       PROVE  m = i
  BY <1>3, <1>11 DEF HoldsBut, Houses
<1>12. Houses(j, u, q, Nodes)
  BY <1>5, <1>9, <1>10, <1>11 DEF Houses
<1> QED BY <1>1, <1>12 DEF Holds, j, u, q

\* Two siblings change sides.
LEMMA HoldsSwap ==
  ASSUME NEW h, NEW t, NEW p, Holds(h, t, p), NEW n \in Nodes, h[n].parent # NULL
  PROVE  Holds(swap_node(h, n), t, p)
<1> DEFINE k == swap_node(h, n)
<1>1. Good(h) /\ h \in Heaps /\ h[n].parent \in Nodes
  BY ParentAllocated DEF Holds, Planted, Good
<1>2. Good(k) /\ \A m \in Nodes : IsRoot(k, m) <=> IsRoot(h, m)
  BY <1>1, SwapGood
<1>3. \A m \in Nodes : k[m].parent = h[m].parent /\ k[m].client = h[m].client
  BY <1>1 DEF swap_node, Heaps, NodeRecords
<1> HIDE DEF k
<1>4. Planted(k, t)
  BY <1>2, NullAssumption DEF Holds, Planted, IsRoot
<1>5. PICK O : Labelled(h, t, p, Nodes, O)
  BY DEF Holds, Houses
<1>6. Labelled(k, t, p, Nodes, O)
  BY <1>2, <1>3, <1>5 DEF Labelled
<1>7. Houses(k, t, p, Nodes)
  BY <1>3, <1>6 DEF Holds, Houses
<1> QED BY <1>4, <1>7 DEF Holds, k

-----------------------------------------------------------------------------
(* The placement of a state, and what a handler may do to it.              *)

\* The windows p places on desktop d.
On(p, d) == {w \in Windows : p[w] = d}

\* The definition of placed, for any heap and trees.
PlaceIn(h, t) ==
  LET at == [d \in DesktopIds |-> WindowsOf(h, t[d])]
  IN  [w \in Windows |-> IF \E d \in DesktopIds : w \in at[d]
                         THEN CHOOSE d \in DesktopIds : w \in at[d] ELSE NULL]

\* A placement that a heap holds is the one placed defines.
LEMMA PlacementIs ==
  ASSUME NEW h, NEW t, NEW p, Holds(h, t, p)
  PROVE  PlaceIn(h, t) = p
<1> DEFINE at == [d \in DesktopIds |-> WindowsOf(h, t[d])]
<1>1. p \in [Windows -> DesktopIds \cup {NULL}]
  BY DEF Holds, Houses
<1>2. \A d \in DesktopIds, w \in Windows : w \in at[d] <=> p[w] = d
  BY WindowsPlaced
<1> HIDE DEF at
<1>3. ASSUME NEW w \in Windows
      PROVE  p[w] = IF \E d \in DesktopIds : w \in at[d]
                    THEN CHOOSE d \in DesktopIds : w \in at[d] ELSE NULL
  <2>1. CASE \E d \in DesktopIds : w \in at[d]
    <3> DEFINE c == CHOOSE d \in DesktopIds : w \in at[d]
    <3>1. c \in DesktopIds /\ w \in at[c]  BY <2>1
    <3> QED BY <1>2, <2>1, <3>1
  <2>2. CASE ~\E d \in DesktopIds : w \in at[d]
    BY <1>1, <1>2, <2>2
  <2> QED BY <2>1, <2>2
<1>4. p = [w \in Windows |-> IF \E d \in DesktopIds : w \in at[d]
                             THEN CHOOSE d \in DesktopIds : w \in at[d] ELSE NULL]
  BY <1>1, <1>3
<1> QED BY <1>4 DEF PlaceIn, at

\* The invariant: the heap holds the placement, and what is on the screen is placed on
\* the current desktop.
PInv == IInv /\ Holds(heap, tree, placed) /\ mapped \subseteq On(placed, curr)

\* A window is on no desktop, and comes to desktop d.
Opens(w, d, q) ==
  /\ placed[w] = NULL /\ q = [placed EXCEPT ![w] = d]
  /\ mapped \subseteq mapped' /\ (d = curr => w \in mapped')
  /\ n_count' = [n_count EXCEPT ![d] = plus1(@)]
  /\ UNCHANGED curr

\* Desktop d has several windows, and all of them float.
CrowdFloats(q, d) ==
  /\ \E v, w \in On(q, d) : v # w
  /\ On(q, d) \subseteq floating

\* A window is withdrawn, or lost on its way to a desktop whose windows all float.
Closes(w, q) ==
  /\ placed[w] # NULL /\ q = [placed EXCEPT ![w] = NULL]
  /\ mapped \ {w} \subseteq mapped'
  /\ \/ w \notin requested' /\ n_count' = [n_count EXCEPT ![placed[w]] = minus1(@)]
     \/ \E d \in DesktopIds : CrowdFloats(q, d)
  /\ UNCHANGED curr

\* A window goes to desktop d; only a pager can bring one to the current desktop.
Moves(w, d, q) ==
  /\ placed[w] # NULL /\ q = [placed EXCEPT ![w] = d]
  /\ mapped \ {w} \subseteq mapped'
  /\ d = curr => "_NET_WM_DESKTOP" \in Messages
  /\ n_count' = [[n_count EXCEPT ![placed[w]] = minus1(@)] EXCEPT ![d] = plus1(@)]
  /\ UNCHANGED curr

\* Another desktop is shown.
Switches(d, q) ==
  /\ d # curr /\ curr' = d /\ q = placed /\ mapped' = On(q, d)
  /\ UNCHANGED n_count

\* No window goes anywhere.
Stays(q) ==
  /\ q = placed /\ mapped \subseteq mapped'
  /\ UNCHANGED <<curr, n_count>>

\* What a handler does, when q is the placement it leaves.
Effect(q) ==
  /\ Holds(heap', tree', q)
  /\ mapped' \subseteq On(q, curr')
  /\ \/ Stays(q)
     \/ \E d \in DesktopIds : Switches(d, q)
     \/ \E w \in Windows : Closes(w, q) \/ \E d \in DesktopIds : Opens(w, d, q) \/ Moves(w, d, q)

\* The heap, the trees and the current desktop in a state of the invariant.
LEMMA PInvFacts ==
  ASSUME PInv
  PROVE  /\ IInv /\ Rest /\ Good(heap) /\ Holds(heap, tree, placed)
         /\ placed \in [Windows -> DesktopIds \cup {NULL}]
         /\ curr \in DesktopIds /\ NULL \notin DesktopIds
         /\ tree \in [DesktopIds -> Nodes \cup {NULL}]
         /\ mapped \subseteq On(placed, curr) /\ mapped \subseteq Windows
         /\ n_count \in [DesktopIds -> 0 .. UINT16 - 1]
BY InvIsPlanted, DesktopsAssumption DEF PInv, Rest, Planted, Holds, Houses

\* What render_tree maps of desktop d is placed there.
LEMMA RenderedPlaced ==
  ASSUME NEW h, NEW t, NEW p, Holds(h, t, p), NEW d \in DesktopIds, NEW st
  PROVE  rendered(h, t[d], st) = {w \in On(p, d) : st[w] # "FULLSCREEN"}
BY WindowsPlaced DEF rendered, On

\* A map request is for a window that is on no desktop.
LEMMA RequestedUnplaced ==
  ASSUME PInv, NEW w \in Windows, MapRequested(w)
  PROVE  placed[w] = NULL
<1>1. \A d \in DesktopIds : WindowsOf(heap, tree[d]) = {v \in Windows : placed[v] = d}
  BY PInvFacts, WindowsPlaced
<1>2. \A d \in DesktopIds : w \notin WindowsOf(heap, tree[d])
  BY DEF MapRequested, Managed
<1> QED BY <1>1, <1>2, PInvFacts

\* client_exist_in_desktops and desktop_of find the desktop a window is placed on.
LEMMA ManagedPlaced ==
  ASSUME PInv, NEW w \in Windows
  PROVE  /\ client_exist_in_desktops(w) <=> placed[w] # NULL
         /\ client_exist_in_desktops(w) => desktop_of(w) = placed[w]
<1>1. \A d \in DesktopIds : find_node_by_window_id(heap, tree[d], w) # NULL <=> placed[w] = d
  BY PInvFacts, FindPlaced
<1> QED BY <1>1, PInvFacts DEF client_exist_in_desktops, desktop_of

-----------------------------------------------------------------------------
(* The effects of the handlers.                                            *)

\* A handler that changes flags or nothing of the heap, and may render a tree.
LEMMA StaysEffect ==
  ASSUME PInv, Holds(heap', tree', placed), UNCHANGED <<curr, n_count>>,
         \/ mapped' = mapped
         \/ \E st : \/ mapped' = mapped \cup rendered(heap, tree[curr], st)
                    \/ mapped' = mapped \cup rendered(heap', tree'[curr], st)
  PROVE  Effect(placed)
<1>1. \A st : rendered(heap, tree[curr], st) \subseteq On(placed, curr)
  BY PInvFacts, RenderedPlaced
<1>2. \A st : rendered(heap', tree'[curr], st) \subseteq On(placed, curr)
  BY PInvFacts, RenderedPlaced
<1> QED BY <1>1, <1>2, PInvFacts DEF Effect, Stays

\* The end of handle_map_request, with the window in the tree r of the heap h.
LEMMA MapOutEffect ==
  ASSUME PInv, NEW w \in Windows, MapRequested(w), NEW h, NEW r \in Nodes \cup {NULL},
         Holds(h, [tree EXCEPT ![curr] = r], [placed EXCEPT ![w] = curr]),
         NEW st, st[w] # "FULLSCREEN", map_out(w, h, r, st)
  PROVE  Effect([placed EXCEPT ![w] = curr])
<1> DEFINE f == find_node_by_window_id(h, r, w)
           q == [placed EXCEPT ![w] = curr]
           u == [tree EXCEPT ![curr] = r]
<1>1. /\ heap' = update_focus(set_focused(h, f, TRUE), r, f) \/ heap' = h
      /\ tree' = u /\ mapped' = mapped \cup rendered(h, r, st)
      /\ n_count' = [n_count EXCEPT ![curr] = plus1(n_count[curr])]
      /\ curr' = curr
  BY DEF map_out, MapRequested
<1>2. placed[w] = NULL
  BY RequestedUnplaced
<1>3. Holds(h, u, q) /\ u[curr] = r /\ q[w] = curr
      /\ \A v \in Windows \ {w} : q[v] = placed[v]
  BY PInvFacts
<1> HIDE DEF u, f, q
<1>4. Holds(heap', tree', q)
  <2> DEFINE k == set_focused(h, f, TRUE)
  <2>1. Holds(k, u, q)
    BY <1>3, HoldsFlagOps
  <2> HIDE DEF k
  <2>2. Holds(update_focus(k, r, f), u, q)
    BY <2>1, HoldsFlagOps
  <2> QED BY <1>1, <1>3, <2>2 DEF k
<1>5. rendered(h, r, st) = {v \in On(q, curr) : st[v] # "FULLSCREEN"}
  BY <1>3, PInvFacts, RenderedPlaced
<1>6. On(placed, curr) \subseteq On(q, curr) /\ w \in On(q, curr)
  BY <1>3 DEF On
<1>7. mapped' \subseteq On(q, curr') /\ mapped \subseteq mapped' /\ w \in mapped'
  BY <1>1, <1>5, <1>6, PInvFacts
<1>8. Opens(w, curr, q)
  BY <1>1, <1>2, <1>7 DEF Opens, q
<1> QED BY <1>4, <1>7, <1>8, PInvFacts DEF Effect, q

\* A map request that is dropped.
LEMMA DroppedEffect ==
  ASSUME PInv, NEW w \in Windows, MapRequested(w),
         UNCHANGED <<heap, tree, n_count, focus_vars, state, mapped>>
  PROVE  Effect(placed)
<1>1. Holds(heap', tree', placed) /\ UNCHANGED <<curr, n_count, mapped>>
  BY PInvFacts DEF MapRequested
<1> QED BY <1>1, StaysEffect

\* The first window of a desktop.
LEMMA FirstWindowEffect ==
  ASSUME PInv, NEW w \in Windows, MapRequested(w), handle_first_window(w)
  PROVE  Effect([placed EXCEPT ![w] = curr])
<1> DEFINE n == Malloc(FreeNodes(heap))
           b == w \in Dialogs
           x == [create_node(w, "ROOT", NULL) EXCEPT !.is_focused = TRUE, !.frect = b]
           h == [heap EXCEPT ![n] = x]
           st == [state EXCEPT ![w] = initial_state(w)]
<1>1. n \in FreeNodes(heap) /\ n \in Nodes
  BY MallocAssumption DEF MapRequested, RoomToMap, FreeNodes
<1>2. tree[curr] = NULL /\ map_out(w, h, n, st)
  BY DEF handle_first_window
<1>3. st[w] # "FULLSCREEN"
  BY PInvFacts DEF Rest, initial_state
<1>4. LoneRoot(x) /\ x.client = w
  <2>1. b \in BOOLEAN  OBVIOUS
  <2>2. x.client = w  BY DEF create_node, FreeNode
  <2> HIDE DEF b
  <2> QED BY <2>1, <2>2, NewRoots
<1> HIDE DEF x, n, st
<1>5. Holds(h, [tree EXCEPT ![curr] = n], [placed EXCEPT ![w] = curr])
  BY <1>1, <1>2, <1>4, PInvFacts, RequestedUnplaced, HoldsFirst
<1> HIDE DEF h
<1> QED BY <1>1, <1>2, <1>3, <1>5, MapOutEffect

\* A tiled window on a desktop that has windows.
LEMMA SubsequentWindowEffect ==
  ASSUME PInv, NEW w \in Windows, MapRequested(w), handle_subsequent_window(w)
  PROVE  \E q : Effect(q)
<1> DEFINE r   == tree[curr]
           f   == get_focused_node(heap, r)
           n   == IF f # NULL /\ heap[f].client \in floating /\ heap[f].type # "ROOT"
                  THEN find_any_leaf(heap, r, floating) ELSE f
           st0 == unfullscreened(state, heap[n].client)
           st  == [st0 EXCEPT ![w] = "TILED"]
           fl  == {v \in Windows : st[v] = "FLOATING"}
           h   == with_window(heap, r, n, w, layout[curr], fl)
           new == find_node_by_window_id(h, r, w)
           h2  == IF layout[curr] = "STACK" THEN set_focused(h, new, TRUE) ELSE h
<1>1. IF n = NULL THEN UNCHANGED <<heap, tree, n_count, focus_vars, state, mapped>>
      ELSE map_out(w, h2, r, st)
  BY DEF handle_subsequent_window
<1>2. n # NULL => n \in Leaves(heap, r)
  BY PInvFacts, FocusedResult, AnyLeafResult
<1>3. st[w] # "FULLSCREEN"
  <2>1. st0 \in [Windows -> WinStates]
    BY PInvFacts, States DEF Rest
  <2> HIDE DEF st0
  <2> QED BY <2>1
<1>4. [tree EXCEPT ![curr] = r] = tree
  BY PInvFacts
<1>5. CASE n = NULL
  BY <1>1, <1>5, DroppedEffect
<1>6. CASE n # NULL
  <2> DEFINE q == [placed EXCEPT ![w] = curr]
  <2> HIDE DEF n, st, fl
  <2>1. LeafNode(heap, n) /\ placed[heap[n].client] = curr
    BY <1>2, <1>6, PInvFacts, LeafPlaced
  <2>2. \E a, b \in FreeNodes(heap) : a # b  BY DEF MapRequested, RoomToMap
  <2>3. Holds(h, tree, q)
    BY <2>1, <2>2, PInvFacts, RequestedUnplaced, HoldsWith
  <2> HIDE DEF h, q
  <2>4. Holds(h2, tree, q)
    BY <2>3, HoldsFlagOps
  <2>5. r \in Nodes \cup {NULL}
    BY PInvFacts
  <2> HIDE DEF h2, r
  <2>6. Holds(h2, [tree EXCEPT ![curr] = r], q) /\ map_out(w, h2, r, st)
    BY <1>1, <1>4, <1>6, <2>4
  <2>7. Effect(q)
    BY <1>3, <2>5, <2>6, MapOutEffect DEF q
  <2> QED BY <2>7
<1> QED BY <1>5, <1>6

\* A window that floats, on a desktop that has windows.
LEMMA FloatingWindowEffect ==
  ASSUME PInv, NEW w \in Windows, NEW p \in Windows \cup {NULL}, MapRequested(w),
         handle_floating_window(w, p)
  PROVE  \E q : Effect(q)
<1> DEFINE r  == tree[curr]
           u  == find_node_by_window_id(heap, r, p)
           n  == IF u = NULL THEN find_any_leaf(heap, r, floating) ELSE u
           st == [state EXCEPT ![w] = "FLOATING"]
           fl == floating \cup {w}
           h  == with_window(heap, r, n, w, layout[curr], fl)
<1>1. IF p = NULL \/ n = NULL
      THEN UNCHANGED <<heap, tree, n_count, focus_vars, state, mapped>>
      ELSE map_out(w, h, r, st)
  BY DEF handle_floating_window
<1>2. p # NULL /\ n # NULL => n \in Leaves(heap, r)
  BY PInvFacts, FindPlaced, AnyLeafResult
<1>3. st[w] # "FULLSCREEN"
  BY PInvFacts DEF Rest
<1>4. [tree EXCEPT ![curr] = r] = tree
  BY PInvFacts
<1>5. CASE p = NULL \/ n = NULL
  BY <1>1, <1>5, DroppedEffect
<1>6. CASE ~(p = NULL \/ n = NULL)
  <2> DEFINE q == [placed EXCEPT ![w] = curr]
  <2> HIDE DEF n, st, fl
  <2>1. LeafNode(heap, n) /\ placed[heap[n].client] = curr
    BY <1>2, <1>6, PInvFacts, LeafPlaced
  <2>2. \E a, b \in FreeNodes(heap) : a # b  BY DEF MapRequested, RoomToMap
  <2>3. Holds(h, tree, q)
    BY <2>1, <2>2, PInvFacts, RequestedUnplaced, HoldsWith
  <2>5. r \in Nodes \cup {NULL}
    BY PInvFacts
  <2> HIDE DEF h, q, r
  <2>6. Holds(h, [tree EXCEPT ![curr] = r], q) /\ map_out(w, h, r, st)
    BY <1>1, <1>4, <1>6, <2>3
  <2>7. Effect(q)
    BY <1>3, <2>5, <2>6, MapOutEffect DEF q
  <2> QED BY <2>7
<1> QED BY <1>5, <1>6

\* A window whose rule sends it to another desktop.
LEMMA RuleEffect ==
  ASSUME PInv, NEW w \in Windows, MapRequested(w), NEW d \in DesktopIds, d # curr,
         insert_into_desktop(w, d)
  PROVE  \E q : Effect(q)
<1> DEFINE r   == tree[d]
           n   == IF r = NULL THEN NULL ELSE find_any_leaf(heap, r, floating)
           st0 == IF n = NULL \/ w \in Dialogs THEN state
                  ELSE unfullscreened(state, heap[n].client)
           st  == [st0 EXCEPT ![w] = initial_state(w)]
           fl  == {v \in Windows : st[v] = "FLOATING"}
           top == Malloc(FreeNodes(heap))
           dlg == w \in Dialogs
           x   == [create_node(w, "ROOT", NULL) EXCEPT !.frect = dlg]
           h0  == [heap EXCEPT ![top] = x]
           h1  == with_window(heap, r, n, w, layout[d], fl)
           h   == IF r = NULL THEN h0 ELSE h1
           new == find_node_by_window_id(h, r, w)
           q   == [placed EXCEPT ![w] = d]
<1>1. CASE r # NULL /\ n = NULL
  <2>1. UNCHANGED <<heap, tree, n_count, focus_vars, state, mapped>>
    BY <1>1 DEF insert_into_desktop
  <2> QED BY <2>1, DroppedEffect
<1>2. CASE ~(r # NULL /\ n = NULL)
  <2>1. /\ heap' = IF r # NULL /\ layout[d] = "STACK" /\ w \notin Dialogs
                   THEN set_focused(h, new, TRUE) ELSE h
        /\ tree' = [tree EXCEPT ![d] = IF r = NULL THEN top ELSE r]
        /\ n_count' = [n_count EXCEPT ![d] = plus1(n_count[d])]
        /\ mapped' = mapped /\ curr' = curr
    BY <1>2 DEF insert_into_desktop, MapRequested
  <2>2. placed[w] = NULL
    BY RequestedUnplaced
  <2>3. Holds(h, tree', q)
    <3>1. CASE r = NULL
      <4>1. top \in FreeNodes(heap)
        BY MallocAssumption DEF MapRequested, RoomToMap, FreeNodes
      <4>2. LoneRoot(x) /\ x.client = w
        <5>1. dlg \in BOOLEAN  OBVIOUS
        <5>2. x.client = w  BY DEF create_node, FreeNode
        <5> HIDE DEF dlg
        <5> QED BY <5>1, <5>2, NewRoots
      <4> HIDE DEF x, top, h1
      <4>3. Holds(h0, [tree EXCEPT ![d] = top], q)
        BY <2>2, <3>1, <4>1, <4>2, PInvFacts, HoldsFirst
      <4> QED BY <2>1, <3>1, <4>3
    <3>2. CASE r # NULL
      <4>1. n \in Leaves(heap, r)
        BY <1>2, <3>2, PInvFacts, AnyLeafResult
      <4> HIDE DEF n, fl, h0
      <4>2. LeafNode(heap, n) /\ placed[heap[n].client] = d
        BY <4>1, PInvFacts, LeafPlaced
      <4>3. \E a, b \in FreeNodes(heap) : a # b  BY DEF MapRequested, RoomToMap
      <4>4. Holds(h1, tree, q)
        BY <2>2, <4>2, <4>3, PInvFacts, HoldsWith
      <4>5. tree' = tree
        BY <2>1, <3>2, PInvFacts
      <4> HIDE DEF h1
      <4> QED BY <3>2, <4>4, <4>5
    <3> QED BY <3>1, <3>2
  <2> HIDE DEF h
  <2>4. Holds(heap', tree', q)
    <3> HIDE DEF q
    <3> QED BY <2>1, <2>3, HoldsFlagOps
  <2>5. mapped' \subseteq On(q, curr')
    BY <2>1, <2>2, PInvFacts DEF On
  <2>6. Opens(w, d, q)
    BY <2>1, <2>2 DEF Opens
  <2>7. Effect(q)
    <3> HIDE DEF q
    <3> QED BY <2>4, <2>5, <2>6 DEF Effect
  <2> QED BY <2>7
<1> QED BY <1>1, <1>2

\* handle_map_request, whichever of the four ways it goes.
LEMMA MapRequestEffect ==
  ASSUME PInv, NEW w \in Windows, NEW p \in Windows \cup {NULL}, handle_map_request(w, p)
  PROVE  \E q : Effect(q)
<1>1. MapRequested(w)  BY DEF handle_map_request
<1>2. CASE RuleDesktop[w] \notin {NULL, curr}
  <2>1. RuleDesktop[w] \in DesktopIds /\ RuleDesktop[w] # curr
    BY <1>2, DesktopsAssumption
  <2>2. insert_into_desktop(w, RuleDesktop[w])  BY <1>2 DEF handle_map_request
  <2> QED BY <1>1, <2>1, <2>2, RuleEffect
<1>3. CASE ~(RuleDesktop[w] \notin {NULL, curr})
  <2>1. \/ handle_first_window(w)
        \/ handle_subsequent_window(w)
        \/ handle_floating_window(w, p)
    BY <1>3 DEF handle_map_request
  <2> QED BY <1>1, <2>1, FirstWindowEffect, SubsequentWindowEffect, FloatingWindowEffect
<1> QED BY <1>2, <1>3

-----------------------------------------------------------------------------
(* Windows that are closed, moved or lost.                                 *)

\* transfer_node fails only in a tree of several windows that all float: the lowest
\* node that has children has two, and they are leaves.
LEMMA LostFloats ==
  ASSUME NEW k, NEW t, NEW p, NEW n, HoldsBut(k, t, p, n), NEW d \in DesktopIds,
         t[d] # NULL, NEW fl, transfer_target(k, t[d], fl) = NULL
  PROVE  (\E v, w \in On(p, d) : v # w) /\ On(p, d) \subseteq fl
<1> DEFINE j == free_node(k, n)
           r == t[d]
<1>1. Holds(j, t, p)
  BY HoldsFree
<1>2. /\ Forest(k) /\ r \in Nodes /\ n \in Nodes /\ k \in Heaps
      /\ k[n].first = NULL /\ k[n].second = NULL /\ IsRoot(k, r) /\ r # n
  BY DetachedIsForest DEF HoldsBut, Uprooted, Detached
<1>3. /\ j[n] = FreeNode /\ \A m \in Nodes \ {n} : j[m] = k[m]
  BY <1>2 DEF free_node, Heaps
<1> HIDE DEF j
<1>4. Good(j) /\ Forest(j)
  BY <1>1, GoodIsForest DEF Holds, Planted
<1>5. \A m \in Nodes : Children(j, m) = Children(k, m)
  BY <1>2, <1>3 DEF Children, FreeNode
<1>6. Subtree(j, r) = Subtree(k, r)
  BY <1>2, <1>4, <1>5, SameSubtree
<1>7. \A m \in Leaves(j, r) : m \in Leaves(k, r) /\ j[m].client = k[m].client
  <2> SUFFICES ASSUME NEW m \in Leaves(j, r)
               PROVE  m \in Leaves(k, r) /\ j[m].client = k[m].client
    OBVIOUS
  <2>1. m \in Subtree(j, r) /\ m \in Nodes /\ j[m].client # NULL
    BY <1>1, LeafPlaced, NullAssumption DEF Leaves
  <2>2. m # n
    BY <1>3, <2>1 DEF FreeNode
  <2> QED BY <1>3, <1>6, <2>1, <2>2 DEF Leaves, IsLeaf
<1>8. find_any_leaf(k, r, fl) = NULL
  BY <1>2, NullAssumption DEF transfer_target
<1>9. {m \in Leaves(k, r) : k[m].client \notin fl} = {}
  <2>1. {m \in Leaves(k, r) : k[m].client \notin fl} \in SUBSET Subtree(k, r)
    BY DEF Leaves
  <2>2. \A m \in Subtree(k, r) : m # NULL
    BY <1>2, SubtreeInside, NullAssumption
  <2> QED BY <1>2, <1>8, <2>1, <2>2, FirstInFinds DEF find_any_leaf
<1>10. On(p, d) \subseteq fl
  <2> SUFFICES ASSUME NEW w \in Windows, p[w] = d PROVE w \in fl
    BY DEF On
  <2>1. PICK m \in Leaves(j, r) : j[m].client = w
    BY <1>1, PlacedLeaf, DesktopsAssumption
  <2> QED BY <1>7, <1>9, <2>1
<1>11. Closed(j, Subtree(j, r)) /\ r \in Subtree(j, r)
  BY <1>2, <1>4, BelowLeast, NullAssumption DEF Subtree
<1> DEFINE T == {m \in Subtree(j, r) : Children(j, m) # {}}
<1>12. PICK m \in T : Children(j, m) \cap T = {}
  <2>1. Children(j, r) # {}
    BY <1>2, <1>5, NullAssumption DEF transfer_target, Children
  <2>2. T \in SUBSET Nodes /\ T # {}
    BY <1>11, <2>1 DEF Closed
  <2> QED BY <1>4, <2>2, LowestNode
<1>13. \A c \in Children(j, m) : c \in Leaves(j, r)
  <2> SUFFICES ASSUME NEW c \in Children(j, m) PROVE c \in Leaves(j, r)
    OBVIOUS
  <2>1. c \in Subtree(j, r) /\ Children(j, c) = {}
    BY <1>11, <1>12 DEF Closed
  <2>2. c \in Nodes /\ j[c].type # "NONE"
    <3>1. j[r].type # "NONE"
      BY <1>2, <1>3 DEF IsRoot
    <3> QED BY <1>2, <1>4, <2>1, <3>1, SubtreeNodes
  <2>3. Wired(j, c)
    BY <1>4, <2>2, WiredIsWellLinked DEF Good
  <2> QED BY <2>1, <2>2, <2>3 DEF Leaves, IsLeaf, Wired, Children
<1>14. PICK a, b \in Children(j, m) : a # b
  <2>1. m \in Nodes /\ (j[m].first # NULL \/ j[m].second # NULL)
    BY <1>11, <1>12 DEF Closed, Children
  <2>2. Wired(j, m)
    BY <1>4, <2>1, WiredIsWellLinked DEF Good
  <2> QED BY <2>1, <2>2 DEF Wired, Children
<1>15. /\ a \in Nodes /\ b \in Nodes
       /\ j[a].client \in Windows /\ j[b].client \in Windows
       /\ p[j[a].client] = d /\ p[j[b].client] = d
  BY <1>1, <1>13, LeafPlaced
<1>16. j[a].client # j[b].client
  BY <1>1, <1>14, <1>15, NullAssumption DEF Holds, Houses
<1> QED BY <1>10, <1>15, <1>16 DEF On

\* A window is withdrawn: it is on no desktop any more.
LEMMA UnmapNotifyEffect ==
  ASSUME PInv, NEW w \in Windows, handle_unmap_notify(w)
  PROVE  Effect([placed EXCEPT ![w] = NULL])
<1>1. requested' = requested \ {w} /\ UNCHANGED <<layout, curr, running>>
  BY DEF handle_unmap_notify
<1>2. CASE ~client_exist_in_desktops(w)
  <2>1. UNCHANGED <<heap, tree, n_count, focus_vars, state, mapped>>
    BY <1>2 DEF handle_unmap_notify
  <2>2. Holds(heap', tree', placed)
    BY <2>1, PInvFacts
  <2>3. Effect(placed)
    BY <1>1, <2>1, <2>2, StaysEffect
  <2>4. [placed EXCEPT ![w] = NULL] = placed
    BY <1>2, ManagedPlaced, PInvFacts
  <2> QED BY <2>3, <2>4
<1>3. CASE client_exist_in_desktops(w)
  <2> DEFINE d  == desktop_of(w)
             n  == find_node_by_window_id(heap, tree[d], w)
             r  == root_without(heap, tree[d], n)
             u  == [tree EXCEPT ![d] = r]
             h1 == unlink_node(heap, n)
             h2 == free_node(h1, n)
             h  == arrange_tree(h2, r, layout[d], floating \ {w})
             st == [state EXCEPT ![w] = "TILED"]
             q  == [placed EXCEPT ![w] = NULL]
  <2>1. /\ heap' = h /\ tree' = u
        /\ n_count' = [n_count EXCEPT ![d] = minus1(n_count[d])]
        /\ mapped' = (mapped \ {w}) \cup shown_after(d, h, r, st)
    BY <1>3 DEF handle_unmap_notify, kill_window
  <2>2. d = placed[w] /\ placed[w] # NULL /\ d \in DesktopIds
    BY <1>3, ManagedPlaced, PInvFacts
  <2> HIDE DEF d
  <2>3. n \in Leaves(heap, tree[d]) /\ heap[n].client = w
    BY <2>2, PInvFacts, FindPlaced
  <2> HIDE DEF n, st
  <2>4. HoldsBut(h1, u, q, n)
    BY <2>2, <2>3, PInvFacts, HoldsUnlink
  <2>5. u[d] = r
    BY <2>2, PInvFacts
  <2> HIDE DEF h1, u, q
  <2>6. Holds(h2, u, q)
    BY <2>4, HoldsFree
  <2> HIDE DEF h2
  <2>7. Holds(h, u, q)
    BY <2>6, HoldsFlagOps
  <2> HIDE DEF h, r
  <2>8. shown_after(d, h, r, st) \subseteq On(q, curr)
    BY <2>2, <2>5, <2>7, RenderedPlaced DEF shown_after
  <2>9. On(placed, curr) \ {w} \subseteq On(q, curr)
    BY PInvFacts DEF On, q
  <2>10. mapped' \subseteq On(q, curr') /\ mapped \ {w} \subseteq mapped'
    BY <1>1, <2>1, <2>8, <2>9, PInvFacts
  <2>11. Closes(w, q)
    BY <1>1, <2>1, <2>2, <2>10 DEF Closes, q
  <2>12. Effect(q)
    BY <2>1, <2>7, <2>10, <2>11 DEF Effect
  <2> QED BY <2>12 DEF q
<1> QED BY <1>2, <1>3

\* A window moves to another desktop, or is lost on the way to one where every window
\* floats.
LEMMA MoveNodeEffect ==
  ASSUME PInv, NEW d \in DesktopIds, NEW td \in DesktopIds,
         NEW n \in Leaves(heap, tree[d]), move_node(n, d, td),
         td = curr => "_NET_WM_DESKTOP" \in Messages
  PROVE  \/ Effect([placed EXCEPT ![heap[n].client] = NULL])
         \/ Effect([placed EXCEPT ![heap[n].client] = td])
<1> DEFINE h1   == unlink_node(heap, n)
           t1   == [tree EXCEPT ![d] = root_without(heap, tree[d], n)]
           leaf == IF t1[td] = NULL THEN NULL ELSE transfer_target(h1, t1[td], floating)
           hr   == [h1 EXCEPT ![n].type = "ROOT"]
           ht   == transfer_node(h1, leaf, Malloc(FreeNodes(h1)), n)
           h2   == IF t1[td] = NULL THEN hr ELSE ht
           t2   == [t1 EXCEPT ![td] = IF t1[td] = NULL THEN n ELSE t1[td]]
           h3   == arrange_tree(h2, t2[td], layout[td], floating)
           h4   == IF layout[td] = "STACK" THEN set_focused(h3, n, TRUE) ELSE h3
           h5   == arrange_tree(h4, t2[d], layout[d], floating)
           w    == heap[n].client
           lost == t1[td] # NULL /\ leaf = NULL
           less == [n_count EXCEPT ![d] = minus1(n_count[d])]
           more == [less EXCEPT ![td] = plus1(less[td])]
           hf   == leak_node(h1, n)
           q0   == [placed EXCEPT ![w] = NULL]
           q1   == [placed EXCEPT ![w] = td]
<1>1. /\ leaf = NULL \/ RoomToMove(h1)
      /\ heap' = IF lost THEN hf ELSE h5
      /\ tree' = IF lost THEN t1 ELSE t2
      /\ n_count' = IF lost THEN n_count ELSE more
      /\ mapped' = (mapped \ {w}) \cup IF lost THEN {} ELSE shown_after(d, h5, t2[d], state)
      /\ UNCHANGED <<layout, focus_vars, curr, requested, running>>
  BY DEF move_node
<1>2. w \in Windows /\ placed[w] = d /\ d # NULL
  BY PInvFacts, LeafPlaced
<1>3. HoldsBut(h1, t1, q0, n) /\ h1[n].client = w
  <2>1. Holds(heap, tree, placed)
    BY PInvFacts
  <2>2. /\ HoldsBut(unlink_node(heap, n), [tree EXCEPT ![d] = root_without(heap, tree[d], n)],
                    [placed EXCEPT ![heap[n].client] = NULL], n)
        /\ unlink_node(heap, n)[n].client = heap[n].client
    BY <2>1, HoldsUnlink
  <2> QED BY <2>2
<1>4. q1 = [q0 EXCEPT ![w] = td] /\ q0 = [placed EXCEPT ![w] = NULL]
      /\ \A e \in DesktopIds : On(placed, e) \ {w} \subseteq On(q1, e) \cap On(q0, e)
  BY PInvFacts DEF On
<1> HIDE DEF h1, t1, w, q0
<1>5. CASE lost
  <2>1. transfer_target(h1, t1[td], floating) = NULL /\ t1[td] # NULL
    BY <1>5
  <2>2. CrowdFloats(q0, td)
    BY <1>3, <2>1, LostFloats DEF CrowdFloats
  <2>3. Holds(hf, t1, q0)
    BY <1>3, HoldsFree
  <2> HIDE DEF hf, h5, t2, lost, q1
  <2>4. mapped' = mapped \ {w} /\ mapped' \subseteq On(q0, curr')
    BY <1>1, <1>4, <1>5, PInvFacts
  <2>5. Closes(w, q0)
    BY <1>1, <1>2, <1>4, <2>2, <2>4 DEF Closes
  <2>6. Effect(q0)
    BY <1>1, <1>2, <1>5, <2>3, <2>4, <2>5 DEF Effect
  <2> QED BY <2>6 DEF q0, w
<1>6. CASE ~lost
  <2>1. Holds(h2, t2, q1)
    <3>1. CASE t1[td] = NULL
      <4>1. t2 = [t1 EXCEPT ![td] = n]
        BY <3>1
      <4>2. Holds(hr, t2, q1)
        BY <1>3, <1>4, <3>1, <4>1, HoldsRoot
      <4> QED BY <3>1, <4>2
    <3>2. CASE t1[td] # NULL
      <4>1. t2 = t1
        BY <1>3, <3>2 DEF HoldsBut, Uprooted
      <4>2. leaf = transfer_target(h1, t1[td], floating) /\ leaf # NULL
        BY <1>6, <3>2
      <4>3. LeafNode(h1, leaf) /\ leaf # n
        BY <1>3, <3>2, <4>2, TargetResult DEF HoldsBut
      <4>4. FreeNodes(h1) # {}
        BY <1>1, <4>2 DEF RoomToMove
      <4>5. q0[h1[leaf].client] = td
        BY <1>3, <3>2, <4>2, TargetPlaced
      <4> HIDE DEF leaf
      <4>6. Holds(ht, t1, [q0 EXCEPT ![h1[n].client] = q0[h1[leaf].client]])
        BY <1>3, <4>3, <4>4, HoldsTransfer
      <4> QED BY <1>3, <1>4, <3>2, <4>1, <4>5, <4>6
    <3> QED BY <3>1, <3>2
  <2> HIDE DEF h2, q1, t2
  <2>2. Holds(h3, t2, q1)
    BY <2>1, HoldsFlagOps
  <2> HIDE DEF h3
  <2>3. Holds(h4, t2, q1)
    BY <2>2, HoldsFlagOps
  <2> HIDE DEF h4
  <2>4. Holds(h5, t2, q1)
    BY <2>3, HoldsFlagOps
  <2> HIDE DEF h5, hf, lost
  <2>5. shown_after(d, h5, t2[d], state) \subseteq On(q1, curr)
    BY <2>4, RenderedPlaced DEF shown_after
  <2>6. mapped' \subseteq On(q1, curr') /\ mapped \ {w} \subseteq mapped'
    BY <1>1, <1>4, <1>6, <2>5, PInvFacts
  <2>7. Moves(w, td, q1)
    BY <1>1, <1>2, <1>6, <2>6 DEF Moves, q1
  <2>8. Effect(q1)
    BY <1>1, <1>2, <1>6, <2>4, <2>6, <2>7 DEF Effect
  <2> QED BY <2>8 DEF q1, w
<1> QED BY <1>5, <1>6

-----------------------------------------------------------------------------
(* Focus, layout, state, order and the switch.                             *)

\* The pointer and clicks give the focus to a window.
LEMMA GiveFocusEffect ==
  ASSUME PInv, NEW w \in Windows, give_focus(w)
  PROVE  \E q : Effect(q)
<1> DEFINE n == find_node_by_window_id(heap, tree[curr], w)
           h == IF state[w] = "FULLSCREEN" THEN heap ELSE set_focused(heap, n, TRUE)
<1>1. /\ heap' = update_focus(h, tree[curr], n)
      /\ UNCHANGED <<tree, n_count, curr, mapped>>
  BY DEF give_focus
<1>2. Holds(h, tree, placed)
  BY PInvFacts, HoldsFlagOps
<1> HIDE DEF h
<1>3. Holds(heap', tree', placed)
  BY <1>1, <1>2, HoldsFlagOps
<1> QED BY <1>1, <1>3, StaysEffect

\* The focus moves to any other window of the tree.
LEMMA CycleEffect ==
  ASSUME PInv, NEW p, cycle_win_wrapper(p)
  PROVE  \E q : Effect(q)
<1> DEFINE r == tree[curr]
<1>1. /\ UNCHANGED <<tree, n_count, curr, mapped>>
      /\ \/ heap' = heap
         \/ \E next \in Leaves(heap, r) :
              heap' = update_focus(set_focused(heap, next, TRUE), r, next)
  BY DEF cycle_win_wrapper
<1>2. Holds(heap', tree', placed)
  <2>1. CASE heap' = heap
    BY <1>1, <2>1, PInvFacts
  <2>2. CASE \E next \in Leaves(heap, r) :
               heap' = update_focus(set_focused(heap, next, TRUE), r, next)
    <3>1. PICK next : heap' = update_focus(set_focused(heap, next, TRUE), r, next)
      BY <2>2
    <3> DEFINE h == set_focused(heap, next, TRUE)
    <3>2. Holds(h, tree, placed)
      BY PInvFacts, HoldsFlagOps
    <3> HIDE DEF h
    <3>3. Holds(update_focus(h, r, next), tree, placed)
      BY <3>2, HoldsFlagOps
    <3> QED BY <1>1, <3>1, <3>3 DEF h
  <2> QED BY <1>1, <2>1, <2>2
<1> QED BY <1>1, <1>2, StaysEffect

\* The focus moves along the stack.
LEMMA TraverseEffect ==
  ASSUME PInv, NEW step, traverse_stack_wrapper(step)
  PROVE  \E q : Effect(q)
<1> DEFINE f == get_focused_node(heap, tree[curr])
           n == IF f = NULL THEN NULL ELSE Neighbour(heap, tree[curr], f, step)
<1>1. heap' = set_focused(heap, n, TRUE) /\ UNCHANGED <<tree, n_count, curr, mapped>>
  BY DEF traverse_stack_wrapper
<1>2. Holds(heap', tree', placed)
  BY <1>1, PInvFacts, HoldsFlagOps
<1> QED BY <1>1, <1>2, StaysEffect

\* Masters are cleared and one is set.
LEMMA LayoutEffect ==
  ASSUME PInv, NEW t, NEW p, layout_handler(t, p)
  PROVE  \E q : Effect(q)
<1> DEFINE r == tree[curr]
           n == find_node_by_window_id(heap, r, p)
           h == master_clean_up(heap, r)
<1>1. /\ heap' \in {master_layout(h, r, n, floating), set_focused(h, n, TRUE), h}
      /\ mapped' = mapped \cup rendered(heap, r, state)
      /\ UNCHANGED <<tree, n_count, curr>>
  BY DEF layout_handler, apply_layout, focus_vars
<1>2. Holds(h, tree, placed)
  BY PInvFacts, HoldsFlagOps
<1> HIDE DEF h
<1>3. Holds(heap', tree', placed)
  BY <1>1, <1>2, HoldsFlagOps
<1> QED BY <1>1, <1>3, StaysEffect

\* A window floats or is tiled again.
LEMMA ChangeStateEffect ==
  ASSUME PInv, NEW s, NEW p, change_state(s, p)
  PROVE  \E q : Effect(q)
<1> DEFINE r  == tree[curr]
           n  == find_node_by_window_id(heap, r, p)
           st == [state EXCEPT ![p] = s]
           h  == [heap EXCEPT ![n].frect = TRUE]
<1>1. /\ heap' \in {h, heap}
      /\ mapped' = mapped \cup rendered(heap, r, st)
      /\ UNCHANGED <<tree, n_count, curr>>
  BY DEF change_state, focus_vars
<1>2. Holds(h, tree, placed)
  <2>1. heap \in Heaps
    BY PInvFacts DEF Good
  <2>2. h \in Heaps /\ SameShape(heap, h)
    BY <2>1 DEF Heaps, NodeRecords, SameShape
  <2> QED BY <2>2, PInvFacts, HoldsFlags
<1> HIDE DEF h, st
<1>3. Holds(heap', tree', placed)
  BY <1>1, <1>2, PInvFacts
<1> QED BY <1>1, <1>3, StaysEffect

\* Fullscreen changes nothing of the trees.
LEMMA SetFullscreenEffect ==
  ASSUME PInv, NEW w, NEW flag, set_fullscreen(w, flag)
  PROVE  \E q : Effect(q)
<1>1. UNCHANGED <<heap, tree, n_count, curr, mapped>>
  BY DEF set_fullscreen
<1>2. Holds(heap', tree', placed)
  BY <1>1, PInvFacts
<1> QED BY <1>1, <1>2, StaysEffect

\* Two siblings change sides.
LEMMA SwapEffect ==
  ASSUME PInv, swap_node_wrapper
  PROVE  \E q : Effect(q)
<1> DEFINE n == get_focused_node(heap, tree[curr])
<1>1. /\ n # NULL /\ heap[n].parent # NULL
      /\ heap' = swap_node(heap, n)
      /\ mapped' = mapped \cup rendered(heap, tree[curr], state)
      /\ UNCHANGED <<tree, n_count, curr>>
  BY DEF swap_node_wrapper, focus_vars
<1>2. n \in Nodes
  BY <1>1, PInvFacts, FocusedResult DEF LeafNode
<1> HIDE DEF n
<1>3. Holds(heap', tree', placed)
  BY <1>1, <1>2, PInvFacts, HoldsSwap
<1> QED BY <1>1, <1>3, StaysEffect

\* Another desktop is shown: what is mapped is what is placed there.
LEMMA SwitchEffect ==
  ASSUME PInv, NEW d \in DesktopIds, switch_desktop(d)
  PROVE  \E q : Effect(q)
<1> DEFINE old == tree[curr]
           new == tree[d]
           h   == update_focus(heap, old, NULL)
           n   == find_node_by_window_id(h, new, last_focused[d])
           h1  == set_focused(h, n, TRUE)
<1>1. /\ d # curr /\ curr' = d
      /\ mapped' = (mapped \ WindowsOf(heap, old)) \cup WindowsOf(heap, new)
      /\ heap' \in {update_focus(h1, new, n), h}
      /\ UNCHANGED <<tree, n_count>>
  BY DEF switch_desktop
<1>2. Holds(h, tree, placed)
  BY PInvFacts, HoldsFlagOps
<1> HIDE DEF h
<1>3. Holds(h1, tree, placed)
  BY <1>2, HoldsFlagOps
<1> HIDE DEF h1
<1>4. Holds(heap', tree', placed)
  BY <1>1, <1>2, <1>3, HoldsFlagOps
<1>5. WindowsOf(heap, old) = On(placed, curr) /\ WindowsOf(heap, new) = On(placed, d)
  BY PInvFacts, WindowsPlaced DEF On
<1>6. mapped' = On(placed, d)
  BY <1>1, <1>5, PInvFacts
<1>7. Effect(placed)
  BY <1>1, <1>4, <1>6 DEF Effect, Switches
<1> QED BY <1>7

\* The key binding that moves the focused window.
LEMMA TransferEffect ==
  ASSUME PInv, NEW d \in DesktopIds, transfer_node_wrapper(d)
  PROVE  \E q : Effect(q)
<1> DEFINE n == get_focused_node(heap, tree[curr])
<1>1. n # NULL /\ d # curr /\ move_node(n, curr, d)
  BY DEF transfer_node_wrapper
<1>2. n \in Leaves(heap, tree[curr])
  BY <1>1, PInvFacts, FocusedResult
<1> HIDE DEF n
<1> QED BY <1>1, <1>2, PInvFacts, MoveNodeEffect

\* The pager's request to move a window.
LEMMA NetWmDesktopEffect ==
  ASSUME PInv, NEW w \in Windows, NEW d \in DesktopIds, handle_net_wm_desktop(w, d)
  PROVE  \E q : Effect(q)
<1> DEFINE o == desktop_of(w)
           n == find_node_by_window_id(heap, tree[o], w)
<1>1. /\ client_exist_in_desktops(w) /\ move_node(n, o, d)
      /\ "_NET_WM_DESKTOP" \in Messages
  BY DEF handle_net_wm_desktop
<1>2. o = placed[w] /\ placed[w] # NULL /\ o \in DesktopIds
  BY <1>1, ManagedPlaced, PInvFacts
<1> HIDE DEF o
<1>3. n \in Leaves(heap, tree[o])
  BY <1>2, PInvFacts, FindPlaced
<1> HIDE DEF n
<1> QED BY <1>1, <1>2, <1>3, MoveNodeEffect

\* Every step has an effect.
LEMMA NextEffect ==
  ASSUME PInv, [Next]_vars
  PROVE  \E q : Effect(q)
<1>1. CASE UNCHANGED vars
  <2>1. UNCHANGED <<heap, tree, n_count, curr, mapped>>
    BY <1>1 DEF vars
  <2>2. Holds(heap', tree', placed)
    BY <2>1, PInvFacts
  <2> QED BY <2>1, <2>2, StaysEffect
<1>2. ASSUME NEW w \in Windows, NEW p \in under_cursor, handle_map_request(w, p)
      PROVE  \E q : Effect(q)
  <2>1. p \in Windows \cup {NULL}
    BY PInvFacts DEF under_cursor
  <2> QED BY <1>2, <2>1, MapRequestEffect
<1>3. ASSUME NEW w \in Windows, handle_unmap_notify(w) PROVE \E q : Effect(q)
  BY <1>3, UnmapNotifyEffect
<1>4. ASSUME NEW w \in Windows, handle_enter_notify(w) \/ handle_button_press(w)
      PROVE  \E q : Effect(q)
  <2>1. give_focus(w)
    BY <1>4 DEF handle_enter_notify, handle_button_press
  <2> QED BY <2>1, GiveFocusEffect
<1>5. ASSUME NEW p, cycle_win_wrapper(p) PROVE \E q : Effect(q)
  BY <1>5, CycleEffect
<1>6. ASSUME NEW step, traverse_stack_wrapper(step) PROVE \E q : Effect(q)
  BY <1>6, TraverseEffect
<1>7. ASSUME NEW t, NEW p, layout_handler(t, p) PROVE \E q : Effect(q)
  BY <1>7, LayoutEffect
<1>8. ASSUME NEW s, NEW p, change_state(s, p) PROVE \E q : Effect(q)
  BY <1>8, ChangeStateEffect
<1>9. ASSUME NEW p, set_fullscreen_wrapper(p) PROVE \E q : Effect(q)
  <2>1. set_fullscreen(p, state[p] # "FULLSCREEN")
    BY <1>9 DEF set_fullscreen_wrapper
  <2> QED BY <2>1, SetFullscreenEffect
<1>10. ASSUME NEW w, NEW flag, handle_net_wm_state(w, flag) PROVE \E q : Effect(q)
  <2>1. set_fullscreen(w, flag)
    BY <1>10 DEF handle_net_wm_state
  <2> QED BY <2>1, SetFullscreenEffect
<1>11. CASE swap_node_wrapper
  BY <1>11, SwapEffect
<1>12. ASSUME NEW d \in DesktopIds, switch_desktop(d) PROVE \E q : Effect(q)
  BY <1>12, SwitchEffect
<1>13. ASSUME NEW d \in DesktopIds, transfer_node_wrapper(d) PROVE \E q : Effect(q)
  BY <1>13, TransferEffect
<1>14. ASSUME NEW w \in Windows, NEW d \in DesktopIds, handle_net_wm_desktop(w, d)
       PROVE  \E q : Effect(q)
  BY <1>14, NetWmDesktopEffect
<1> QED BY <1>1, <1>2, <1>3, <1>4, <1>5, <1>6, <1>7, <1>8, <1>9, <1>10, <1>11, <1>12,
           <1>13, <1>14 DEF Next, pointer_event, key_event, client_event

-----------------------------------------------------------------------------
(* The invariant is inductive.                                             *)

\* placed after a step is the placement the handler leaves.
LEMMA StepIs ==
  ASSUME PInv, [Next]_vars
  PROVE  Effect(placed') /\ placed' \in [Windows -> DesktopIds \cup {NULL}]
<1>1. PICK q : Effect(q)
  BY NextEffect
<1>2. Holds(heap', tree', q)
  BY <1>1 DEF Effect
<1>3. PlaceIn(heap', tree') = q
  BY <1>2, PlacementIs
<1>4. placed' = PlaceIn(heap', tree')
  BY DEF placed, PlaceIn
<1> QED BY <1>1, <1>2, <1>3, <1>4 DEF Holds, Houses

\* The first state: no node is allocated and no window is on the screen.
LEMMA InitPInv == Init => PInv /\ placed = [w \in Windows |-> NULL]
<1> SUFFICES ASSUME Init PROVE PInv /\ placed = [w \in Windows |-> NULL]
  OBVIOUS
<1> DEFINE p == [w \in Windows |-> NULL]
<1>1. IInv
  BY InitInv
<1>2. \A m \in Nodes : heap[m] = FreeNode
  BY DEF Init
<1>3. Labelled(heap, tree, p, Nodes, [m \in Nodes |-> curr])
  BY <1>1, <1>2, InvIsPlanted DEF Labelled, FreeNode, IsRoot, Rest
<1>4. Holds(heap, tree, p)
  BY <1>1, <1>2, <1>3, InvIsPlanted DEF Holds, Houses, FreeNode
<1>5. placed = p
  <2>1. placed = PlaceIn(heap, tree)
    BY DEF placed, PlaceIn
  <2> QED BY <1>4, <2>1, PlacementIs
<1> QED BY <1>1, <1>4, <1>5 DEF PInv, Init

\* Every step preserves the invariant.
LEMMA PInvNext == PInv /\ [Next]_vars => PInv'
<1> SUFFICES ASSUME PInv, [Next]_vars PROVE PInv'
  OBVIOUS
<1>1. IInv'
  BY NextInv DEF PInv
<1>2. Holds(heap', tree', placed') /\ mapped' \subseteq On(placed', curr')
  BY StepIs DEF Effect
<1> QED BY <1>1, <1>2 DEF PInv, On

\* Hence the invariant holds throughout.
LEMMA PInvAlways == Spec => []PInv
<1>1. Init => PInv
  BY InitPInv
<1> QED BY <1>1, PInvNext, PTL DEF Spec

\* What the invariant says of a managed window, before a step and after it.
LEMMA ManagedIs ==
  /\ PInv => \A w \in Windows : w \in Managed <=> placed[w] # NULL
  /\ PInv' => \A w \in Windows : w \in Managed' <=> placed'[w] # NULL
<1>1. ASSUME NEW h, NEW t, NEW p, Holds(h, t, p)
      PROVE  \A w \in Windows : w \in UNION {WindowsOf(h, t[d]) : d \in DesktopIds}
                                <=> p[w] # NULL
  <2>1. \A d \in DesktopIds : WindowsOf(h, t[d]) = {w \in Windows : p[w] = d}
    BY <1>1, WindowsPlaced
  <2>2. p \in [Windows -> DesktopIds \cup {NULL}] /\ NULL \notin DesktopIds
    BY <1>1, DesktopsAssumption DEF Holds, Houses
  <2> QED BY <2>1, <2>2
<1>2. PInv => \A w \in Windows : w \in Managed <=> placed[w] # NULL
  BY <1>1 DEF PInv, Managed
<1>3. PInv' => \A w \in Windows : w \in Managed' <=> placed'[w] # NULL
  BY <1>1 DEF PInv, Managed
<1> QED BY <1>2, <1>3

-----------------------------------------------------------------------------
(* The theorems.                                                           *)

\* No node is leaked.
NoneLeaked == Unleaked(heap)

\* OneTree says of the trees what PInv says of the windows, but for the nodes leaked.
LEMMA PInvOneTree == PInv => (NoneLeaked => OneTree)
<1> SUFFICES ASSUME PInv, NoneLeaked PROVE OneTree
  OBVIOUS
<1>1. Good(heap) /\ Holds(heap, tree, placed) /\ tree \in [DesktopIds -> Nodes \cup {NULL}]
  BY PInvFacts
<1>2. PICK O : Labelled(heap, tree, placed, Nodes, O)
  BY <1>1 DEF Holds, Houses
<1>3. ASSUME NEW n \in Allocated
      PROVE  Cardinality({d \in DesktopIds : n \in Subtree(heap, tree[d])}) = 1
  <2>1. n \in Nodes /\ heap[n].type # "NONE"
    BY <1>3 DEF Allocated, NoneLeaked, Unleaked
  <2>2. n \in Subtree(heap, tree[O[n]]) /\ O[n] \in DesktopIds
    BY <1>1, <1>2, <2>1, AllocatedInTree DEF Holds
  <2>3. \A d \in DesktopIds : n \in Subtree(heap, tree[d]) => O[n] = d
    BY <1>1, <1>2, <2>1, GoodIsForest, TreeLabels DEF Holds, Planted, IsRoot
  <2>4. {d \in DesktopIds : n \in Subtree(heap, tree[d])} = {O[n]}
    BY <2>2, <2>3
  <2> QED BY <2>4, FS_Singleton
<1>4. \A n, m \in Nodes : heap[n].client # NULL /\ heap[n].client = heap[m].client => n = m
  BY <1>1 DEF Holds, Houses
<1> QED BY <1>3, <1>4 DEF OneTree

\* Surgery shares no node and makes no cycle, and loses none but those a failed transfer
\* leaks: for any number of nodes, windows and desktops, while none is leaked, every
\* allocated node is in the tree of exactly one desktop and every window in at most one
\* node.
THEOREM OneTreeAlways == Spec => [](NoneLeaked => OneTree)
BY PInvOneTree, PInvAlways, PTL

\* HiddenUnmapped says of the tree shown what PInv says of the windows.
LEMMA PInvHides == PInv => HiddenUnmapped
<1> SUFFICES ASSUME PInv PROVE HiddenUnmapped
  OBVIOUS
<1>1. WindowsOf(heap, tree[curr]) = On(placed, curr)
  BY PInvFacts, WindowsPlaced DEF On
<1> QED BY <1>1, PInvFacts DEF HiddenUnmapped

\* Whatever is inserted, moved or rendered on the other desktops, no window of a desktop
\* that is not shown is ever mapped.
THEOREM HiddenUnmappedAlways == Spec => []HiddenUnmapped
BY PInvHides, PInvAlways, PTL

\* The handlers of zwm implement Placement: whatever the configuration, each step opens,
\* closes or moves one window, or switches the desktop, or rearranges what is there, and
\* what is on the screen changes as the user expects.
THEOREM DesktopsImplementPlacement == Spec => ImplementsPlacement
<1>1. Init => Placed!Init
  BY InitPInv, PInvFacts DEF Init, Placed!Init, PInv, IInv, TypeOK
<1>2. PInv /\ [Next]_vars => [Placed!Next]_(Placed!vars)
  <2> SUFFICES ASSUME PInv, [Next]_vars PROVE Placed!Next
    OBVIOUS
  <2>1. Effect(placed')
    BY StepIs
  <2>2. \A p, d : Placed!on(p, d) = On(p, d)
    BY DEF Placed!on, On
  <2>3. CASE Stays(placed')
    BY <2>1, <2>2, <2>3 DEF Effect, Stays, Placed!Next, Placed!Rearrange, Placed!Keeps
  <2>4. ASSUME NEW d \in DesktopIds, Switches(d, placed') PROVE Placed!Next
    BY <2>2, <2>4 DEF Switches, Placed!Next, Placed!Switch
  <2>5. ASSUME NEW w \in Windows, Closes(w, placed') PROVE Placed!Next
    BY <2>1, <2>2, <2>5 DEF Effect, Closes, Placed!Next, Placed!Close, Placed!Keeps
  <2>6. ASSUME NEW w \in Windows, NEW d \in DesktopIds, Opens(w, d, placed')
        PROVE  Placed!Next
    BY <2>1, <2>2, <2>6 DEF Effect, Opens, Placed!Next, Placed!Open, Placed!Keeps
  <2>7. ASSUME NEW w \in Windows, NEW d \in DesktopIds, Moves(w, d, placed')
        PROVE  Placed!Next
    BY <2>1, <2>2, <2>7 DEF Effect, Moves, Placed!Next, Placed!Move, Placed!Keeps
  <2> QED BY <2>1, <2>3, <2>4, <2>5, <2>6, <2>7 DEF Effect
<1> QED BY <1>1, <1>2, PInvAlways, PTL DEF Spec, ImplementsPlacement, Placed!Spec

\* A managed window whose client still wants it stays managed, but for one way to lose it:
\* it moves to a desktop with several windows, all of which float (transfer_node fails
\* and zwm.c:919-923 returns with the node in no tree).
LostOnlyToFloating ==
  [][\A w \in Managed : w \in requested' /\ w \notin Managed' =>
       \E d \in DesktopIds : CrowdFloats(placed', d)]_vars

LEMMA LossStep ==
  ASSUME PInv, PInv', [Next]_vars, NEW w \in Managed, w \in requested', w \notin Managed'
  PROVE  \E d \in DesktopIds : CrowdFloats(placed', d)
<1>1. w \in Windows
  BY PInvFacts, TreeWindows DEF Managed
<1>2. placed[w] # NULL /\ placed'[w] = NULL
  BY <1>1, ManagedIs
<1>3. Effect(placed')
  BY StepIs
<1>4. placed \in [Windows -> DesktopIds \cup {NULL}] /\ NULL \notin DesktopIds
  BY PInvFacts
<1>5. PICK v \in Windows : Closes(v, placed')
  BY <1>1, <1>2, <1>3, <1>4 DEF Effect, Stays, Switches, Opens, Moves
<1>6. v = w
  BY <1>1, <1>2, <1>4, <1>5 DEF Closes
<1> QED BY <1>5, <1>6 DEF Closes

\* Hence LostOnlyToFloating, for any configuration.
THEOREM LossesAreToFloating == Spec => LostOnlyToFloating
<1>1. PInv /\ PInv' /\ [Next]_vars =>
        \A w \in Managed : w \in requested' /\ w \notin Managed' =>
          \E d \in DesktopIds : CrowdFloats(placed', d)
  BY LossStep
<1> QED BY <1>1, PInvAlways, PInvNext, PTL DEF Spec, LostOnlyToFloating

-----------------------------------------------------------------------------
(* When at most one window can float.                                      *)

\* At most one window floats, whatever happens: no key makes a window float, and at most
\* one window does so by its type, hints or rule.
OneFloats == "change_state" \notin Keys /\ \A v, w \in Dialogs : v = w

\* Without the key, only what is floating from the start floats.
LEMMA FloatersNext ==
  ASSUME PInv, "change_state" \notin Keys, floating \subseteq Dialogs, [Next]_vars
  PROVE  floating' \subseteq Dialogs
<1> DEFINE Floaters(st) == {w \in Windows : st[w] = "FLOATING"}
<1>1. state \in [Windows -> WinStates] /\ Floaters(state) \subseteq Dialogs
  BY PInvFacts DEF Rest, floating
<1>2. ASSUME NEW st, st \in [Windows -> WinStates], Floaters(st) \subseteq Dialogs,
             NEW w, NEW x, x # "FLOATING" \/ w \in Dialogs
      PROVE  Floaters([st EXCEPT ![w] = x]) \subseteq Dialogs
  BY <1>2
<1>3. ASSUME NEW v
      PROVE  Floaters(unfullscreened(state, v)) \subseteq Dialogs
             /\ unfullscreened(state, v) \in [Windows -> WinStates]
  BY <1>1, States DEF unfullscreened
<1>4. \A w : initial_state(w) # "FLOATING" \/ w \in Dialogs
  BY DEF initial_state
<1> SUFFICES Floaters(state') \subseteq Dialogs
  BY DEF floating
<1> HIDE DEF Floaters
<1>5. CASE UNCHANGED vars
  BY <1>1, <1>5 DEF vars
<1>6. ASSUME NEW w \in Windows, NEW p, handle_map_request(w, p)
      PROVE  Floaters(state') \subseteq Dialogs
  <2>1. CASE state' = state
    BY <1>1, <2>1
  <2>2. CASE \E st : (st = state \/ \E v : st = unfullscreened(state, v))
                     /\ (\/ state' = [st EXCEPT ![w] = initial_state(w)]
                         \/ state' = [st EXCEPT ![w] = "TILED"])
    BY <1>1, <1>2, <1>3, <1>4, <2>2
  <2>3. CASE w \in Dialogs /\ state' = [state EXCEPT ![w] = "FLOATING"]
    BY <1>1, <1>2, <2>3
  <2>4. handle_first_window(w) => state' = [state EXCEPT ![w] = initial_state(w)]
    BY DEF handle_first_window, map_out
  <2>5. handle_subsequent_window(w) => \/ state' = state
                                       \/ \E v : state' = [unfullscreened(state, v) EXCEPT ![w] = "TILED"]
    BY DEF handle_subsequent_window, map_out
  <2>6. handle_floating_window(w, p) => \/ state' = state
                                        \/ state' = [state EXCEPT ![w] = "FLOATING"]
    BY DEF handle_floating_window, map_out
  <2>7. ASSUME NEW d, insert_into_desktop(w, d)
        PROVE  \/ state' = state
               \/ state' = [state EXCEPT ![w] = initial_state(w)]
               \/ \E v : state' = [unfullscreened(state, v) EXCEPT ![w] = initial_state(w)]
    BY <2>7 DEF insert_into_desktop
  <2>8. \/ \E d : insert_into_desktop(w, d)
        \/ handle_first_window(w)
        \/ handle_subsequent_window(w)
        \/ w \in Dialogs /\ handle_floating_window(w, p)
    BY <1>6 DEF handle_map_request
  <2> QED BY <2>1, <2>2, <2>3, <2>4, <2>5, <2>6, <2>7, <2>8
<1>7. ASSUME NEW w \in Windows, handle_unmap_notify(w)
      PROVE  Floaters(state') \subseteq Dialogs
  <2>1. state' = state \/ state' = [state EXCEPT ![w] = "TILED"]
    BY <1>7 DEF handle_unmap_notify, kill_window
  <2> QED BY <1>1, <1>2, <2>1
<1>8. ASSUME NEW n, NEW d, NEW td, move_node(n, d, td)
      PROVE  Floaters(state') \subseteq Dialogs
  <2>1. state' = state \/ \E w : state' = [state EXCEPT ![w] = "TILED"]
    BY <1>8 DEF move_node
  <2> QED BY <1>1, <1>2, <2>1
<1>9. ASSUME NEW w, NEW flag, set_fullscreen(w, flag)
      PROVE  Floaters(state') \subseteq Dialogs
  <2>1. \/ state' = [state EXCEPT ![w] = "FULLSCREEN"]
        \/ state' = [state EXCEPT ![w] = "TILED"]
    BY <1>9 DEF set_fullscreen
  <2> QED BY <1>1, <1>2, <2>1
<1>10. \/ state' = state
       \/ \E w \in Windows, p \in under_cursor : handle_map_request(w, p)
       \/ \E w \in Windows : handle_unmap_notify(w)
       \/ \E n, d, td : move_node(n, d, td)
       \/ \E w, flag : set_fullscreen(w, flag)
  <2>1. pointer_event => state' = state
    BY DEF pointer_event, handle_enter_notify, handle_button_press, give_focus
  <2>2. key_event => \/ state' = state
                     \/ \E n, d, td : move_node(n, d, td)
                     \/ \E w, flag : set_fullscreen(w, flag)
    BY DEF key_event, cycle_win_wrapper, traverse_stack_wrapper, layout_handler, change_state,
           set_fullscreen_wrapper, swap_node_wrapper, switch_desktop, transfer_node_wrapper
  <2>3. client_event => \/ \E w \in Windows, p \in under_cursor : handle_map_request(w, p)
                        \/ \E w \in Windows : handle_unmap_notify(w)
                        \/ \E n, d, td : move_node(n, d, td)
                        \/ \E w, flag : set_fullscreen(w, flag)
    BY DEF client_event, handle_net_wm_state, handle_net_wm_desktop
  <2> QED BY <2>1, <2>2, <2>3 DEF Next, vars
<1> QED BY <1>1, <1>6, <1>7, <1>8, <1>9, <1>10

\* So no desktop is crowded with windows that float.
LEMMA NoCrowdFloats ==
  ASSUME OneFloats, floating \subseteq Dialogs, NEW q, NEW d
  PROVE  ~CrowdFloats(q, d)
BY DEF OneFloats, CrowdFloats

\* The invariant while at most one window can float.
FInv == PInv /\ floating \subseteq Dialogs

LEMMA FInvAlways ==
  ASSUME OneFloats
  PROVE  Spec => []FInv
<1>1. Init => FInv
  BY InitPInv DEF FInv, Init, floating
<1>2. FInv /\ [Next]_vars => FInv'
  BY PInvNext, FloatersNext DEF FInv, OneFloats
<1> QED BY <1>1, <1>2, PTL DEF Spec

\* While at most one window can float, no transfer, rule, layout change or request of a
\* pager loses a window: a managed one stays managed until its client withdraws it.
THEOREM ConservedWhenOneFloats ==
  ASSUME OneFloats
  PROVE  Spec => Conserved
<1>1. FInv /\ PInv' /\ [Next]_vars =>
        (\A w \in Managed : w \in requested' => w \in Managed')
  <2> SUFFICES ASSUME FInv, PInv', [Next]_vars,
                      NEW w \in Managed, w \in requested', w \notin Managed'
               PROVE  FALSE
    OBVIOUS
  <2>1. \E d \in DesktopIds : CrowdFloats(placed', d)
    BY LossStep DEF FInv
  <2> QED BY <2>1, NoCrowdFloats DEF FInv
<1>2. FInv => PInv
  BY DEF FInv
<1> QED BY <1>1, <1>2, FInvAlways, PInvAlways, PTL DEF Spec, Conserved

\* The counters are exact, in terms of the placement.
Counted == \A d \in DesktopIds : n_count[d] = Cardinality(On(placed, d))

\* The leaves of a tree and the windows of its desktop are as many, and no more than nodes.
LEMMA AsManyLeaves ==
  ASSUME NEW h, NEW t, NEW p, Holds(h, t, p), NEW d \in DesktopIds
  PROVE  /\ IsFiniteSet(On(p, d))
         /\ Cardinality(On(p, d)) = Cardinality(Leaves(h, t[d]))
         /\ Cardinality(On(p, d)) \in 0 .. Cardinality(Nodes)
<1> DEFINE L == Leaves(h, t[d])
           f == [m \in L |-> h[m].client]
<1>1. \A m \in L : m \in Nodes /\ h[m].client \in On(p, d)
  BY LeafPlaced DEF On
<1>2. \A w \in On(p, d) : \E m \in L : h[m].client = w
  BY PlacedLeaf, DesktopsAssumption DEF On
<1>3. \A m, k \in L : h[m].client = h[k].client => m = k
  BY <1>1, NullAssumption DEF Holds, Houses, On
<1> HIDE DEF L
<1>4. f \in Bijection(L, On(p, d))
  BY <1>1, <1>2, <1>3 DEF Bijection, Injection, Surjection, IsInjective
<1>5. IsFiniteSet(L) /\ Cardinality(L) <= Cardinality(Nodes)
  <2>1. L \in SUBSET Nodes
    BY <1>1
  <2> QED BY <2>1, NodesAssumption, FS_Subset
<1>6. ExistsBijection(L, On(p, d))
  BY <1>4 DEF ExistsBijection
<1>7. IsFiniteSet(On(p, d)) /\ Cardinality(On(p, d)) = Cardinality(L)
  BY <1>5, <1>6, FS_Bijection
<1>8. Cardinality(L) \in Nat /\ Cardinality(Nodes) \in Nat
  BY <1>5, NodesAssumption, FS_CardinalityType
<1> QED BY <1>5, <1>7, <1>8 DEF L

\* What is less than the divisor is its own remainder.
LEMMA SmallRemainder ==
  ASSUME NEW m \in Nat, NEW c \in Nat, c < m
  PROVE  c % m = c /\ (c > 0 => (c + m - 1) % m = c - 1)
<1>1. c % m = c
  OBVIOUS
<1>2. c > 0 => (c + m - 1) % m = c - 1
  OBVIOUS
<1> QED BY <1>1, <1>2

\* The counter does not wrap around while it is less than 65535, nor below zero while it
\* is more.
LEMMA ExactCounters ==
  ASSUME NEW c \in 0 .. UINT16 - 1
  PROVE  /\ c + 1 < UINT16 => plus1(c) = c + 1
         /\ c > 0 => minus1(c) = c - 1
<1>1. UINT16 \in Nat
  BY DEF UINT16
<1>2. c \in Nat /\ c + 1 \in Nat /\ c < UINT16
  BY <1>1
<1> QED BY <1>1, <1>2, SmallRemainder DEF plus1, minus1

\* A window more or less on desktop d.
LEMMA OneMoreOneLess ==
  ASSUME NEW p \in [Windows -> DesktopIds \cup {NULL}], NEW d \in DesktopIds,
         IsFiniteSet(On(p, d)), NEW w \in Windows, NEW e \in DesktopIds \cup {NULL},
         NULL \notin DesktopIds,
         NEW q, q[w] = e, \A v \in Windows \ {w} : q[v] = p[v]
  PROVE  /\ p[w] = d /\ e # d => Cardinality(On(q, d)) = Cardinality(On(p, d)) - 1
         /\ p[w] # d /\ e = d => Cardinality(On(q, d)) = Cardinality(On(p, d)) + 1
         /\ (p[w] = d <=> e = d) => Cardinality(On(q, d)) = Cardinality(On(p, d))
<1>1. p[w] = d /\ e # d => w \in On(p, d) /\ On(q, d) = On(p, d) \ {w}
  BY DEF On
<1>2. p[w] # d /\ e = d => w \notin On(p, d) /\ On(q, d) = On(p, d) \cup {w}
  BY DEF On
<1>3. (p[w] = d <=> e = d) => On(q, d) = On(p, d)
  BY DEF On
<1>4. p[w] = d /\ e # d => Cardinality(On(q, d)) = Cardinality(On(p, d)) - 1
  BY <1>1, FS_RemoveElement
<1>5. p[w] # d /\ e = d => Cardinality(On(q, d)) = Cardinality(On(p, d)) + 1
  BY <1>2, FS_AddElement
<1> QED BY <1>3, <1>4, <1>5

\* Every step keeps the counters exact, when no window is lost.
LEMMA CountedNext ==
  ASSUME FInv, Counted, OneFloats, Cardinality(Nodes) < UINT16, [Next]_vars
  PROVE  Counted'
<1>1. /\ PInv /\ PInv'
      /\ placed \in [Windows -> DesktopIds \cup {NULL}] /\ NULL \notin DesktopIds
      /\ n_count \in [DesktopIds -> 0 .. UINT16 - 1]
  BY PInvFacts, PInvNext DEF FInv
<1>2. Effect(placed')
  BY <1>1, StepIs
<1>3. \A d \in DesktopIds :
        /\ IsFiniteSet(On(placed, d))
        /\ Cardinality(On(placed, d)) \in 0 .. Cardinality(Nodes)
        /\ Cardinality(On(placed', d)) \in 0 .. Cardinality(Nodes)
  BY <1>1, AsManyLeaves DEF PInv
<1>4. Cardinality(Nodes) \in Nat /\ UINT16 \in Nat
  BY NodesAssumption, FS_CardinalityType DEF UINT16
<1> SUFFICES ASSUME NEW d \in DesktopIds PROVE n_count'[d] = Cardinality(On(placed', d))
  BY DEF Counted, On
<1>5. n_count[d] = Cardinality(On(placed, d)) /\ n_count[d] \in 0 .. UINT16 - 1
  BY <1>1 DEF Counted
<1>6. /\ n_count[d] + 1 < UINT16 => plus1(n_count[d]) = n_count[d] + 1
      /\ n_count[d] > 0 => minus1(n_count[d]) = n_count[d] - 1
  BY <1>5, ExactCounters
<1>7. CASE Stays(placed') \/ \E e \in DesktopIds : Switches(e, placed')
  BY <1>5, <1>7 DEF Stays, Switches
<1>8. ASSUME NEW w \in Windows, NEW e \in DesktopIds, Opens(w, e, placed')
      PROVE  n_count'[d] = Cardinality(On(placed', d))
  <2>1. /\ placed[w] # d /\ placed' = [placed EXCEPT ![w] = e]
        /\ n_count' = [n_count EXCEPT ![e] = plus1(n_count[e])]
    BY <1>1, <1>8 DEF Opens
  <2>2. /\ e = d => Cardinality(On(placed', d)) = Cardinality(On(placed, d)) + 1
        /\ e # d => Cardinality(On(placed', d)) = Cardinality(On(placed, d))
    <3>1. IsFiniteSet(On(placed, d)) /\ placed \in [Windows -> DesktopIds \cup {NULL}]
          /\ e \in DesktopIds \cup {NULL} /\ NULL \notin DesktopIds
      BY <1>1, <1>3
    <3>2. placed'[w] = e /\ \A v \in Windows \ {w} : placed'[v] = placed[v]
      BY <2>1, <3>1
    <3>3. placed[w] # d
      BY <2>1
    <3> QED BY <3>1, <3>2, <3>3, OneMoreOneLess
  <2>3. CASE e = d
    <3>1. n_count'[d] = plus1(n_count[d])
      BY <1>1, <2>1, <2>3
    <3>2. n_count[d] + 1 < UINT16
      BY <1>3, <1>4, <1>5, <2>2, <2>3
    <3> QED BY <1>5, <1>6, <2>2, <2>3, <3>1, <3>2
  <2>4. CASE e # d
    BY <1>1, <1>5, <2>1, <2>2, <2>4
  <2> QED BY <2>3, <2>4
<1>9. ASSUME NEW w \in Windows, Closes(w, placed')
      PROVE  n_count'[d] = Cardinality(On(placed', d))
  <2>1. /\ placed[w] \in DesktopIds /\ placed' = [placed EXCEPT ![w] = NULL]
        /\ n_count' = [n_count EXCEPT ![placed[w]] = minus1(n_count[placed[w]])]
    BY <1>1, <1>9, NoCrowdFloats DEF Closes, FInv
  <2>2. /\ placed[w] = d => Cardinality(On(placed', d)) = Cardinality(On(placed, d)) - 1
        /\ placed[w] # d => Cardinality(On(placed', d)) = Cardinality(On(placed, d))
    <3>1. IsFiniteSet(On(placed, d)) /\ placed \in [Windows -> DesktopIds \cup {NULL}]
          /\ NULL \in DesktopIds \cup {NULL} /\ NULL \notin DesktopIds
      BY <1>1, <1>3
    <3>2. placed'[w] = NULL /\ \A v \in Windows \ {w} : placed'[v] = placed[v]
      BY <2>1, <3>1
    <3> QED BY <3>1, <3>2, OneMoreOneLess
  <2>3. CASE placed[w] = d
    <3>1. n_count'[d] = minus1(n_count[d])
      BY <1>1, <2>1, <2>3
    <3>2. n_count[d] > 0
      BY <1>3, <1>4, <1>5, <2>2, <2>3
    <3> QED BY <1>5, <1>6, <2>2, <2>3, <3>1, <3>2
  <2>4. CASE placed[w] # d
    BY <1>1, <1>5, <2>1, <2>2, <2>4
  <2> QED BY <2>3, <2>4
<1>10. ASSUME NEW w \in Windows, NEW e \in DesktopIds, Moves(w, e, placed')
       PROVE  n_count'[d] = Cardinality(On(placed', d))
  <2> DEFINE o == placed[w]
             less == [n_count EXCEPT ![o] = minus1(n_count[o])]
  <2>1. /\ o \in DesktopIds /\ placed' = [placed EXCEPT ![w] = e]
        /\ n_count' = [less EXCEPT ![e] = plus1(less[e])]
    BY <1>1, <1>10 DEF Moves
  <2>2. /\ o = d /\ e # d => Cardinality(On(placed', d)) = Cardinality(On(placed, d)) - 1
        /\ o # d /\ e = d => Cardinality(On(placed', d)) = Cardinality(On(placed, d)) + 1
        /\ (o = d <=> e = d) => Cardinality(On(placed', d)) = Cardinality(On(placed, d))
    <3>1. IsFiniteSet(On(placed, d)) /\ placed \in [Windows -> DesktopIds \cup {NULL}]
          /\ e \in DesktopIds \cup {NULL} /\ NULL \notin DesktopIds
      BY <1>1, <1>3
    <3>2. placed'[w] = e /\ \A v \in Windows \ {w} : placed'[v] = placed[v]
      BY <2>1, <3>1
    <3> QED BY <3>1, <3>2, OneMoreOneLess
  <2>3. less \in [DesktopIds -> 0 .. UINT16 - 1] /\ less[d] = IF o = d THEN minus1(n_count[d]) ELSE n_count[d]
    <3>1. minus1(n_count[o]) \in 0 .. UINT16 - 1
      BY <1>1, <2>1, Counters
    <3> QED BY <1>1, <2>1, <3>1
  <2>4. n_count'[d] = IF e = d THEN plus1(less[d]) ELSE less[d]
    BY <2>1, <2>3
  <2>5. o = d => n_count[d] > 0
    <3> SUFFICES ASSUME o = d PROVE n_count[d] > 0
      OBVIOUS
    <3>1. w \in On(placed, d)
      BY DEF On
    <3>2. Cardinality(On(placed, d)) # 0
      BY <1>3, <3>1, FS_EmptySet
    <3> QED BY <1>5, <3>2
  <2> HIDE DEF less, o
  <2>6. CASE o = d /\ e # d
    BY <1>5, <1>6, <2>2, <2>3, <2>4, <2>5, <2>6
  <2>7. CASE o # d /\ e = d
    <3>1. n_count[d] + 1 < UINT16
      BY <1>3, <1>4, <1>5, <2>2, <2>7
    <3> QED BY <1>5, <1>6, <2>2, <2>3, <2>4, <2>7, <3>1
  <2>8. CASE o = d /\ e = d
    <3>1. less[d] = n_count[d] - 1 /\ less[d] + 1 < UINT16
      BY <1>4, <1>5, <1>6, <2>3, <2>5, <2>8
    <3>2. plus1(less[d]) = less[d] + 1
      BY <2>3, <3>1, ExactCounters
    <3> QED BY <1>5, <2>2, <2>4, <2>8, <3>1, <3>2
  <2>9. CASE o # d /\ e # d
    BY <1>5, <2>2, <2>3, <2>4, <2>9
  <2> QED BY <2>6, <2>7, <2>8, <2>9
<1> QED BY <1>2, <1>7, <1>8, <1>9, <1>10 DEF Effect

\* While at most one window can float and there are fewer nodes than a uint16_t counts,
\* n_count is the number of windows of its desktop: no handler forgets to update it, and
\* none does so twice.
THEOREM CountExactWhenOneFloats ==
  ASSUME OneFloats, Cardinality(Nodes) < UINT16
  PROVE  Spec => []CountExact
<1>1. Init => Counted
  <2> SUFFICES ASSUME Init, NEW d \in DesktopIds PROVE n_count[d] = Cardinality(On(placed, d))
    BY DEF Counted
  <2>1. On(placed, d) = {}
    BY InitPInv, DesktopsAssumption DEF On
  <2> QED BY <2>1, FS_EmptySet DEF Init
<1>2. FInv /\ Counted /\ [Next]_vars => Counted'
  BY CountedNext
<1>3. FInv /\ Counted => CountExact
  BY AsManyLeaves DEF FInv, PInv, Counted, CountExact
<1> QED BY <1>1, <1>2, <1>3, FInvAlways, PTL DEF Spec

\* Every window of the current desktop is on the screen, unless a pager moves one there.
THEOREM CurrentShownAlways ==
  ASSUME "_NET_WM_DESKTOP" \notin Messages
  PROVE  Spec => []CurrentShown
<1> DEFINE Up == On(placed, curr) \subseteq mapped
<1>1. Init => Up
  BY InitPInv, PInvFacts DEF On
<1>2. PInv /\ Up /\ [Next]_vars => Up'
  <2> SUFFICES ASSUME PInv, Up, [Next]_vars PROVE On(placed', curr') \subseteq mapped'
    BY DEF On
  <2>1. Effect(placed') /\ placed \in [Windows -> DesktopIds \cup {NULL}]
        /\ curr \in DesktopIds /\ NULL \notin DesktopIds
    BY StepIs, PInvFacts
  <2>2. CASE Stays(placed') \/ \E d \in DesktopIds : Switches(d, placed')
    BY <2>2 DEF Stays, Switches
  <2>3. ASSUME NEW w \in Windows, Closes(w, placed') PROVE On(placed', curr') \subseteq mapped'
    BY <2>1, <2>3 DEF Closes, On
  <2>4. ASSUME NEW w \in Windows, NEW d \in DesktopIds, Opens(w, d, placed')
        PROVE  On(placed', curr') \subseteq mapped'
    BY <2>1, <2>4 DEF Opens, On
  <2>5. ASSUME NEW w \in Windows, NEW d \in DesktopIds, Moves(w, d, placed')
        PROVE  On(placed', curr') \subseteq mapped'
    BY <2>1, <2>5 DEF Moves, On
  <2> QED BY <2>1, <2>2, <2>3, <2>4, <2>5 DEF Effect
<1>3. PInv /\ Up => CurrentShown
  <2> SUFFICES ASSUME PInv, Up PROVE CurrentShown
    OBVIOUS
  <2>1. WindowsOf(heap, tree[curr]) = On(placed, curr)
    BY PInvFacts, WindowsPlaced DEF On
  <2> QED BY <2>1 DEF CurrentShown
<1> HIDE DEF Up
<1> QED BY <1>1, <1>2, <1>3, PInvAlways, PTL DEF Spec

-----------------------------------------------------------------------------
(* The order of the windows.                                               *)

\* A step that leaves every window but w in order.
Keeps(w) == OrderKept(heap, heap', Windows \ {w})

\* Changes of flags keep the order of all windows.
LEMMA ShapeKeeps ==
  ASSUME IInv, NEW h, Good(h), NEW w, OrderKept(heap, h, Windows \ {w}),
         heap' \in Heaps, SameShape(h, heap')
  PROVE  Keeps(w)
<1> DEFINE k == heap'
<1>1. Good(k) /\ OrderKept(h, k, Windows \ {w})
  BY ShapeGood, KeptShape
<1> HIDE DEF k
<1>2. OrderKept(heap, k, Windows \ {w})
  BY <1>1, KeptTwice
<1> QED BY <1>2 DEF Keeps, k

\* Changes of flags, one after the other.
LEMMA ShapeTwice ==
  ASSUME NEW h, NEW k, NEW j, SameShape(h, k), SameShape(k, j)
  PROVE  SameShape(h, j)
BY DEF SameShape

\* A new window at a leaf leaves the others in order.
LEMMA WithKeepsOrder ==
  ASSUME NEW h, Good(h), NEW n, LeafNode(h, n), NEW r, NEW w \in Windows,
         NEW l, NEW fl, \E a, b \in FreeNodes(h) : a # b
  PROVE  /\ Good(with_window(h, r, n, w, l, fl))
         /\ OrderKept(h, with_window(h, r, n, w, l, fl), Windows \ {w})
<1> DEFINE j == with_window(h, r, n, w, l, fl)
<1>1. PICK at \in FreeNodes(h), new \in FreeNodes(h), k \in Heaps :
        /\ at # new /\ Good(k) /\ SplitFrom(h, k, n, at, new) /\ k[new].client = w
        /\ j \in Heaps /\ SameShape(k, j)
  BY WithWindowSplits
<1> HIDE DEF j
<1>2. OrderKept(h, k, Windows \ {w})
  BY <1>1, NewKeepsOrder
<1>3. Good(j) /\ OrderKept(k, j, Windows \ {w})
  BY <1>1, ShapeGood, KeptShape
<1>4. OrderKept(h, j, Windows \ {w})
  BY <1>2, <1>3, KeptTwice
<1> QED BY <1>3, <1>4 DEF j

\* The end of handle_map_request only sets and clears flags.
LEMMA MapOutKeeps ==
  ASSUME IInv, NEW w, NEW h, Good(h), OrderKept(heap, h, Windows \ {w}), NEW r, NEW st,
         map_out(w, h, r, st)
  PROVE  Keeps(w)
<1> DEFINE f == find_node_by_window_id(h, r, w)
           h1 == set_focused(h, f, TRUE)
           h2 == update_focus(h1, r, f)
<1>1. heap' = h2 \/ heap' = h
  BY DEF map_out
<1>2. h \in Heaps /\ SameShape(h, h)
  BY DEF Good, SameShape
<1>3. h1 \in Heaps /\ SameShape(h, h1)
  BY <1>2, FlagShapes
<1> HIDE DEF h1
<1>4. h2 \in Heaps /\ SameShape(h1, h2)
  BY <1>3, FlagShapes
<1> HIDE DEF h2
<1>5. heap' \in Heaps /\ SameShape(h, heap')
  BY <1>1, <1>2, <1>3, <1>4, ShapeTwice
<1> QED BY <1>5, ShapeKeeps

\* The first window of a desktop.
LEMMA FirstWindowKeeps ==
  ASSUME IInv, NEW w \in Windows, MapRequested(w), handle_first_window(w)
  PROVE  Keeps(w)
<1> DEFINE n == Malloc(FreeNodes(heap))
           b == w \in Dialogs
           x == [create_node(w, "ROOT", NULL) EXCEPT !.is_focused = TRUE, !.frect = b]
           h == [heap EXCEPT ![n] = x]
           st == [state EXCEPT ![w] = initial_state(w)]
<1>1. Good(heap)
  BY Trees
<1>2. n \in FreeNodes(heap)
  BY MallocAssumption DEF MapRequested, RoomToMap, FreeNodes
<1>3. map_out(w, h, n, st)
  BY DEF handle_first_window
<1>4. LoneRoot(x) /\ x.client = w
  <2>1. b \in BOOLEAN
    OBVIOUS
  <2>2. x.client = w
    BY DEF create_node, FreeNode
  <2> HIDE DEF b
  <2> QED BY <2>1, <2>2, NewRoots
<1> HIDE DEF x, n, st
<1>5. Good(h) /\ OrderKept(heap, h, Windows \ {w})
  BY <1>1, <1>2, <1>4, RootGood, FirstKeepsOrder
<1> HIDE DEF h
<1> QED BY <1>3, <1>5, MapOutKeeps

\* A map request that is dropped.
LEMMA DroppedKeeps ==
  ASSUME heap' = heap, NEW w
  PROVE  Keeps(w)
BY DEF Keeps, OrderKept

\* A tiled window on a desktop that has windows.
LEMMA SubsequentWindowKeeps ==
  ASSUME IInv, NEW w \in Windows, MapRequested(w), handle_subsequent_window(w)
  PROVE  Keeps(w)
<1> DEFINE r   == tree[curr]
           f   == get_focused_node(heap, r)
           n   == IF f # NULL /\ heap[f].client \in floating /\ heap[f].type # "ROOT"
                  THEN find_any_leaf(heap, r, floating) ELSE f
           st  == [unfullscreened(state, heap[n].client) EXCEPT ![w] = "TILED"]
           fl  == {v \in Windows : st[v] = "FLOATING"}
           h   == with_window(heap, r, n, w, layout[curr], fl)
           new == find_node_by_window_id(h, r, w)
           h2  == IF layout[curr] = "STACK" THEN set_focused(h, new, TRUE) ELSE h
<1>1. IF n = NULL THEN UNCHANGED <<heap, tree, n_count, focus_vars, state, mapped>>
      ELSE map_out(w, h2, r, st)
  BY DEF handle_subsequent_window
<1>2. n # NULL => LeafNode(heap, n)
  BY Trees, FocusedResult, AnyLeafResult
<1>3. CASE n = NULL
  BY <1>1, <1>3, DroppedKeeps
<1>4. CASE n # NULL
  <2> HIDE DEF n, st, fl
  <2>1. \E a, b \in FreeNodes(heap) : a # b
    BY DEF MapRequested, RoomToMap
  <2>2. Good(h) /\ OrderKept(heap, h, Windows \ {w})
    BY <1>2, <1>4, <2>1, Trees, WithKeepsOrder
  <2> HIDE DEF h
  <2>3. h \in Heaps
    BY <2>2 DEF Good
  <2>4. h2 \in Heaps /\ SameShape(h, h2)
    <3>1. set_focused(h, new, TRUE) \in Heaps /\ SameShape(h, set_focused(h, new, TRUE))
      BY <2>3, FlagShapes
    <3>2. SameShape(h, h)
      BY DEF SameShape
    <3> QED BY <2>3, <3>1, <3>2
  <2> HIDE DEF h2
  <2>5. Good(h2) /\ OrderKept(h, h2, Windows \ {w})
    BY <2>2, <2>4, ShapeGood, KeptShape
  <2>6. OrderKept(heap, h2, Windows \ {w})
    BY <2>2, <2>5, KeptTwice
  <2> QED BY <1>1, <1>4, <2>5, <2>6, MapOutKeeps
<1> QED BY <1>3, <1>4

\* A floating window on a desktop that has windows.
LEMMA FloatingWindowKeeps ==
  ASSUME IInv, NEW w \in Windows, NEW p, MapRequested(w), handle_floating_window(w, p)
  PROVE  Keeps(w)
<1> DEFINE r  == tree[curr]
           u  == find_node_by_window_id(heap, r, p)
           n  == IF u = NULL THEN find_any_leaf(heap, r, floating) ELSE u
           st == [state EXCEPT ![w] = "FLOATING"]
           fl == floating \cup {w}
           h  == with_window(heap, r, n, w, layout[curr], fl)
<1>1. IF p = NULL \/ n = NULL
      THEN UNCHANGED <<heap, tree, n_count, focus_vars, state, mapped>>
      ELSE map_out(w, h, r, st)
  BY DEF handle_floating_window
<1>2. n # NULL => LeafNode(heap, n)
  BY Trees, FindResult, AnyLeafResult
<1>3. CASE p = NULL \/ n = NULL
  BY <1>1, <1>3, DroppedKeeps
<1>4. CASE ~(p = NULL \/ n = NULL)
  <2> HIDE DEF n, st, fl
  <2>1. \E a, b \in FreeNodes(heap) : a # b
    BY DEF MapRequested, RoomToMap
  <2>2. Good(h) /\ OrderKept(heap, h, Windows \ {w})
    BY <1>2, <1>4, <2>1, Trees, WithKeepsOrder
  <2> HIDE DEF h
  <2> QED BY <1>1, <1>4, <2>2, MapOutKeeps
<1> QED BY <1>3, <1>4

\* A window whose rule sends it to another desktop.
LEMMA RuleKeeps ==
  ASSUME IInv, NEW w \in Windows, MapRequested(w), NEW d \in DesktopIds,
         insert_into_desktop(w, d)
  PROVE  Keeps(w)
<1> DEFINE r   == tree[d]
           n   == IF r = NULL THEN NULL ELSE find_any_leaf(heap, r, floating)
           st0 == IF n = NULL \/ w \in Dialogs THEN state
                  ELSE unfullscreened(state, heap[n].client)
           st  == [st0 EXCEPT ![w] = initial_state(w)]
           fl  == {v \in Windows : st[v] = "FLOATING"}
           top == Malloc(FreeNodes(heap))
           dlg == w \in Dialogs
           x   == [create_node(w, "ROOT", NULL) EXCEPT !.frect = dlg]
           h0  == [heap EXCEPT ![top] = x]
           h1  == with_window(heap, r, n, w, layout[d], fl)
           h   == IF r = NULL THEN h0 ELSE h1
           new == find_node_by_window_id(h, r, w)
<1>1. CASE r # NULL /\ n = NULL
  <2>1. heap' = heap
    BY <1>1 DEF insert_into_desktop
  <2> QED BY <2>1, DroppedKeeps
<1>2. CASE ~(r # NULL /\ n = NULL)
  <2>1. heap' = IF r # NULL /\ layout[d] = "STACK" /\ w \notin Dialogs
                THEN set_focused(h, new, TRUE) ELSE h
    BY <1>2 DEF insert_into_desktop
  <2>2. Good(h) /\ OrderKept(heap, h, Windows \ {w})
    <3>1. CASE r = NULL
      <4>1. top \in FreeNodes(heap)
        BY MallocAssumption DEF MapRequested, RoomToMap, FreeNodes
      <4>2. LoneRoot(x) /\ x.client = w
        <5>1. dlg \in BOOLEAN  OBVIOUS
        <5>2. x.client = w  BY DEF create_node, FreeNode
        <5> HIDE DEF dlg
        <5> QED BY <5>1, <5>2, NewRoots
      <4> HIDE DEF x, top, h1
      <4>3. Good(h0) /\ OrderKept(heap, h0, Windows \ {w})
        BY <4>1, <4>2, Trees, RootGood, FirstKeepsOrder
      <4> QED BY <3>1, <4>3
    <3>2. CASE r # NULL
      <4>1. LeafNode(heap, n)
        BY <1>2, <3>2, Trees, AnyLeafResult
      <4>2. \E a, b \in FreeNodes(heap) : a # b
        BY DEF MapRequested, RoomToMap
      <4> HIDE DEF n, fl, h0
      <4>3. Good(h1) /\ OrderKept(heap, h1, Windows \ {w})
        BY <4>1, <4>2, Trees, WithKeepsOrder
      <4> QED BY <3>2, <4>3
    <3> QED BY <3>1, <3>2
  <2> HIDE DEF h
  <2>3. h \in Heaps /\ SameShape(h, h)
    BY <2>2 DEF Good, SameShape
  <2>4. heap' \in Heaps /\ SameShape(h, heap')
    BY <2>1, <2>3, FlagShapes
  <2> QED BY <2>2, <2>4, ShapeKeeps
<1> QED BY <1>1, <1>2

\* handle_map_request, whichever of the four ways it goes.
LEMMA MapRequestKeeps ==
  ASSUME IInv, NEW w \in Windows, NEW p, handle_map_request(w, p)
  PROVE  Keeps(w)
<1>1. MapRequested(w)  BY DEF handle_map_request
<1>2. CASE RuleDesktop[w] \notin {NULL, curr}
  <2>1. RuleDesktop[w] \in DesktopIds
    BY <1>2, DesktopsAssumption
  <2>2. insert_into_desktop(w, RuleDesktop[w])  BY <1>2 DEF handle_map_request
  <2> QED BY <1>1, <2>1, <2>2, RuleKeeps
<1>3. CASE ~(RuleDesktop[w] \notin {NULL, curr})
  <2>1. \/ handle_first_window(w)
        \/ handle_subsequent_window(w)
        \/ handle_floating_window(w, p)
    BY <1>3 DEF handle_map_request
  <2> QED BY <1>1, <2>1, FirstWindowKeeps, SubsequentWindowKeeps, FloatingWindowKeeps
<1> QED BY <1>2, <1>3

\* A window is withdrawn.
LEMMA UnmapNotifyKeeps ==
  ASSUME IInv, NEW w \in Windows, handle_unmap_notify(w)
  PROVE  Keeps(w)
<1>1. CASE ~client_exist_in_desktops(w)
  <2>1. heap' = heap
    BY <1>1 DEF handle_unmap_notify
  <2> QED BY <2>1, DroppedKeeps
<1>2. CASE client_exist_in_desktops(w)
  <2> DEFINE d  == desktop_of(w)
             n  == find_node_by_window_id(heap, tree[d], w)
             r  == root_without(heap, tree[d], n)
             h1 == unlink_node(heap, n)
             h2 == free_node(h1, n)
             h  == arrange_tree(h2, r, layout[d], floating \ {w})
  <2>1. heap' = h
    BY <1>2 DEF handle_unmap_notify, kill_window
  <2>2. LeafNode(heap, n) /\ heap[n].client = w
    <3>1. d \in DesktopIds /\ n # NULL
      BY <1>2 DEF client_exist_in_desktops, desktop_of
    <3> HIDE DEF d
    <3> QED BY <3>1, Trees, FindResult
  <2> HIDE DEF n
  <2>3. OrderKept(heap, h1, Windows \ {w}) /\ Detached(h1, n) /\ h1[n].client = w
    BY <2>2, Trees, UnlinkKeepsOrder, UnlinkDetaches
  <2> HIDE DEF h1
  <2>4. Good(h2) /\ OrderKept(h1, h2, Windows \ {w})
    BY <2>3, FreeGoes, FreeDetached, FreeKeepsOrder DEF Detached
  <2>5. OrderKept(heap, h2, Windows \ {w})
    BY <2>3, <2>4, KeptTwice
  <2> HIDE DEF h2
  <2>6. h \in Heaps /\ SameShape(h2, h)
    BY <2>4, FlagShapes DEF Good
  <2> HIDE DEF h
  <2> QED BY <2>1, <2>4, <2>5, <2>6, ShapeKeeps
<1> QED BY <1>1, <1>2

\* A window goes to another desktop, or is lost on the way.
LEMMA MoveNodeKeeps ==
  ASSUME IInv, NEW d \in DesktopIds, NEW td \in DesktopIds,
         NEW n \in Leaves(heap, tree[d]), move_node(n, d, td)
  PROVE  Keeps(heap[n].client)
<1> DEFINE h1   == unlink_node(heap, n)
           t1   == [tree EXCEPT ![d] = root_without(heap, tree[d], n)]
           leaf == IF t1[td] = NULL THEN NULL ELSE transfer_target(h1, t1[td], floating)
           hr   == [h1 EXCEPT ![n].type = "ROOT"]
           ht   == transfer_node(h1, leaf, Malloc(FreeNodes(h1)), n)
           h2   == IF t1[td] = NULL THEN hr ELSE ht
           t2   == [t1 EXCEPT ![td] = IF t1[td] = NULL THEN n ELSE t1[td]]
           h3   == arrange_tree(h2, t2[td], layout[td], floating)
           h4   == IF layout[td] = "STACK" THEN set_focused(h3, n, TRUE) ELSE h3
           h5   == arrange_tree(h4, t2[d], layout[d], floating)
           w    == heap[n].client
           lost == t1[td] # NULL /\ leaf = NULL
           hf   == leak_node(h1, n)
           U    == Windows \ {w}
<1>1. /\ leaf = NULL \/ RoomToMove(h1)
      /\ heap' = IF lost THEN hf ELSE h5
  BY DEF move_node
<1>2. Planted(heap, tree)
  BY InvIsPlanted
<1>3. LeafNode(heap, n) /\ n \in Subtree(heap, tree[d])
  BY Trees, LeafSearchResult
<1>4. Uprooted(h1, t1, n) /\ h1[n].client = w
  BY <1>2, <1>3, PlantedUnlink
<1>5. OrderKept(heap, h1, U)
  BY <1>3, Trees, UnlinkKeepsOrder
<1> HIDE DEF h1, t1, w
<1>6. Detached(h1, n)
  BY <1>4 DEF Uprooted
<1>7. CASE lost
  <2>1. Good(hf) /\ OrderKept(h1, hf, U)
    BY <1>4, <1>6, FreeGoes, FreeDetached, FreeKeepsOrder DEF Detached
  <2>2. OrderKept(heap, hf, U)
    BY <1>5, <2>1, KeptTwice
  <2>3. heap' \in Heaps /\ SameShape(hf, heap')
    BY <1>1, <1>7, <2>1 DEF Good, SameShape
  <2>4. Keeps(w)
    <3> HIDE DEF hf
    <3> QED BY <2>1, <2>2, <2>3, ShapeKeeps
  <2> QED BY <2>4 DEF w
<1>8. CASE ~lost
  <2>1. Good(h2) /\ OrderKept(h1, h2, U)
    <3>1. CASE t1[td] = NULL
      <4>1. Good(hr) /\ OrderKept(h1, hr, Windows)
        BY <1>6, RootDetached, RootKeepsOrder
      <4> QED BY <3>1, <4>1 DEF OrderKept
    <3>2. CASE t1[td] # NULL
      <4>1. leaf = transfer_target(h1, t1[td], floating) /\ leaf # NULL
        BY <1>8, <3>2
      <4>2. LeafNode(h1, leaf) /\ leaf # n
        BY <1>4, <3>2, <4>1, TargetResult
      <4>3. FreeNodes(h1) # {}
        BY <1>1, <4>1 DEF RoomToMove
      <4>4. Malloc(FreeNodes(h1)) \in FreeNodes(h1)
        BY <4>3, MallocAssumption DEF FreeNodes
      <4> HIDE DEF leaf
      <4>5. Good(ht) /\ SplitFrom(h1, ht, leaf, Malloc(FreeNodes(h1)), n) /\ ht[n].client = w
        BY <1>4, <1>6, <4>2, <4>4, TransferGood
      <4> HIDE DEF ht
      <4>6. Forest(ht)
        BY <4>5, GoodIsForest
      <4>7. OrderKept(h1, ht, U)
        BY <1>4, <1>6, <4>2, <4>4, <4>5, <4>6, HangKeepsOrder
      <4> QED BY <3>2, <4>5, <4>7
    <3> QED BY <3>1, <3>2
  <2> HIDE DEF h2
  <2>2. OrderKept(heap, h2, U)
    BY <1>5, <2>1, KeptTwice
  <2>3. h2 \in Heaps
    BY <2>1 DEF Good
  <2>4. h3 \in Heaps /\ SameShape(h2, h3)
    BY <2>3, FlagShapes
  <2> HIDE DEF h3
  <2>5. h4 \in Heaps /\ SameShape(h3, h4)
    <3>1. SameShape(h3, h3)
      BY DEF SameShape
    <3> QED BY <2>4, <3>1, FlagShapes
  <2> HIDE DEF h4
  <2>6. h5 \in Heaps /\ SameShape(h4, h5)
    BY <2>5, FlagShapes
  <2> HIDE DEF h5, lost
  <2>7. SameShape(h2, h5)
    BY <2>4, <2>5, <2>6, ShapeTwice
  <2>8. Keeps(w)
    BY <1>1, <1>8, <2>1, <2>2, <2>6, <2>7, ShapeKeeps
  <2> QED BY <2>8 DEF w
<1> QED BY <1>7, <1>8

\* No other handler but the swap changes more than flags.
LEMMA OthersKeepShape ==
  ASSUME IInv,
         \/ \E w : give_focus(w) \/ \E flag : set_fullscreen(w, flag)
         \/ \E p : cycle_win_wrapper(p)
         \/ \E step : traverse_stack_wrapper(step)
         \/ \E t, p : layout_handler(t, p)
         \/ \E s, p : change_state(s, p)
         \/ \E d : switch_desktop(d)
  PROVE  heap' \in Heaps /\ SameShape(heap, heap')
<1>1. heap \in Heaps /\ SameShape(heap, heap)
  BY Trees DEF Good, SameShape
<1>2. ASSUME NEW w, give_focus(w) PROVE heap' \in Heaps /\ SameShape(heap, heap')
  <2> DEFINE n == find_node_by_window_id(heap, tree[curr], w)
             h == IF state[w] = "FULLSCREEN" THEN heap ELSE set_focused(heap, n, TRUE)
  <2>1. heap' = update_focus(h, tree[curr], n)
    BY <1>2 DEF give_focus
  <2>2. h \in Heaps /\ SameShape(heap, h)
    BY <1>1, FlagShapes
  <2> HIDE DEF h
  <2>3. heap' \in Heaps /\ SameShape(h, heap')
    BY <2>1, <2>2, FlagShapes
  <2> QED BY <2>2, <2>3, ShapeTwice
<1>3. ASSUME NEW w, NEW flag, set_fullscreen(w, flag)
      PROVE  heap' \in Heaps /\ SameShape(heap, heap')
  BY <1>1, <1>3 DEF set_fullscreen
<1>4. ASSUME NEW p, cycle_win_wrapper(p) PROVE heap' \in Heaps /\ SameShape(heap, heap')
  <2>1. \/ heap' = heap
        \/ \E next : heap' = update_focus(set_focused(heap, next, TRUE), tree[curr], next)
    BY <1>4 DEF cycle_win_wrapper
  <2>2. ASSUME NEW next, heap' = update_focus(set_focused(heap, next, TRUE), tree[curr], next)
        PROVE  heap' \in Heaps /\ SameShape(heap, heap')
    <3> DEFINE h == set_focused(heap, next, TRUE)
    <3>1. h \in Heaps /\ SameShape(heap, h)
      BY <1>1, FlagShapes
    <3> HIDE DEF h
    <3>2. heap' \in Heaps /\ SameShape(h, heap')
      BY <2>2, <3>1, FlagShapes DEF h
    <3> QED BY <3>1, <3>2, ShapeTwice
  <2> QED BY <1>1, <2>1, <2>2
<1>5. ASSUME NEW step, traverse_stack_wrapper(step)
      PROVE  heap' \in Heaps /\ SameShape(heap, heap')
  <2> DEFINE f == get_focused_node(heap, tree[curr])
             n == IF f = NULL THEN NULL ELSE Neighbour(heap, tree[curr], f, step)
  <2>1. heap' = set_focused(heap, n, TRUE)
    BY <1>5 DEF traverse_stack_wrapper
  <2> HIDE DEF n
  <2> QED BY <1>1, <2>1, FlagShapes
<1>6. ASSUME NEW t, NEW p, layout_handler(t, p)
      PROVE  heap' \in Heaps /\ SameShape(heap, heap')
  <2> DEFINE r == tree[curr]
             n == find_node_by_window_id(heap, r, p)
             h == master_clean_up(heap, r)
  <2>1. heap' \in {master_layout(h, r, n, floating), set_focused(h, n, TRUE), h}
    BY <1>6 DEF layout_handler, apply_layout
  <2>2. h \in Heaps /\ SameShape(heap, h)
    BY <1>1, FlagShapes
  <2> HIDE DEF h, n, r
  <2>4. SameShape(h, h)
    BY DEF SameShape
  <2>3. heap' \in Heaps /\ SameShape(h, heap')
    BY <2>1, <2>2, <2>4, FlagShapes
  <2> QED BY <2>2, <2>3, ShapeTwice
<1>7. ASSUME NEW s, NEW p, change_state(s, p)
      PROVE  heap' \in Heaps /\ SameShape(heap, heap')
  <2> DEFINE n == find_node_by_window_id(heap, tree[curr], p)
             h == [heap EXCEPT ![n].frect = TRUE]
  <2>1. heap' = h \/ heap' = heap
    BY <1>7 DEF change_state
  <2> HIDE DEF n
  <2>2. h \in Heaps /\ SameShape(heap, h)
    BY <1>1 DEF SameShape, Heaps, NodeRecords
  <2> QED BY <1>1, <2>1, <2>2
<1>8. ASSUME NEW d, switch_desktop(d) PROVE heap' \in Heaps /\ SameShape(heap, heap')
  <2> DEFINE new == tree[d]
             h   == update_focus(heap, tree[curr], NULL)
             n   == find_node_by_window_id(h, new, last_focused[d])
             h1  == set_focused(h, n, TRUE)
             h2  == update_focus(h1, new, n)
  <2>1. heap' = h2 \/ heap' = h
    BY <1>8 DEF switch_desktop
  <2>2. h \in Heaps /\ SameShape(heap, h)
    BY <1>1, FlagShapes
  <2> HIDE DEF h
  <2>3. h1 \in Heaps /\ SameShape(h, h1)
    BY <2>2, FlagShapes
  <2> HIDE DEF h1
  <2>4. h2 \in Heaps /\ SameShape(h1, h2)
    BY <2>3, FlagShapes
  <2> HIDE DEF h2
  <2> QED BY <2>1, <2>2, <2>3, <2>4, ShapeTwice
<1> QED BY <1>2, <1>3, <1>4, <1>5, <1>6, <1>7, <1>8

\* A step that leaves every window but w in order, and w not on desktop d both before
\* and after.
Spares(d, w) == Keeps(w) /\ ~(placed[w] = d /\ placed'[w] = d)

\* What every step does to the order of a desktop's windows.
LEMMA StepKeeps ==
  ASSUME PInv, [Next]_vars, NEW d \in DesktopIds
  PROVE  \/ OrderKept(heap, heap', Windows)
         \/ \E w \in Windows : Spares(d, w)
         \/ \E w \in Windows : handle_net_wm_desktop(w, d) /\ Keeps(w)
         \/ swap_node_wrapper
<1> DEFINE goal == \/ OrderKept(heap, heap', Windows)
                   \/ \E w \in Windows : Spares(d, w)
                   \/ \E w \in Windows : handle_net_wm_desktop(w, d) /\ Keeps(w)
                   \/ swap_node_wrapper
<1>1. IInv /\ placed \in [Windows -> DesktopIds \cup {NULL}]
  BY PInvFacts
<1>2. ASSUME NEW q, Effect(q) PROVE placed' = q
  <2>1. Holds(heap', tree', q)
    BY <1>2 DEF Effect
  <2>2. PlaceIn(heap', tree') = q
    BY <2>1, PlacementIs
  <2>3. placed' = PlaceIn(heap', tree')
    BY DEF placed, PlaceIn
  <2> QED BY <2>2, <2>3
<1>3. ASSUME heap' \in Heaps, SameShape(heap, heap') PROVE goal
  <2>1. Good(heap')
    BY <1>1, <1>3, Trees, ShapeGood
  <2>2. OrderKept(heap, heap', Windows)
    BY <1>1, <1>3, <2>1, Trees, KeptShape
  <2> QED BY <2>2
<1>4. ASSUME NEW w \in Windows, NEW p, handle_map_request(w, p) PROVE goal
  <2>1. Keeps(w)
    BY <1>1, <1>4, MapRequestKeeps
  <2>2. placed[w] = NULL
    BY <1>4, RequestedUnplaced DEF handle_map_request
  <2> QED BY <2>1, <2>2, DesktopsAssumption DEF Spares
<1>5. ASSUME NEW w \in Windows, handle_unmap_notify(w) PROVE goal
  <2>1. Keeps(w)
    BY <1>1, <1>5, UnmapNotifyKeeps
  <2>2. placed' = [placed EXCEPT ![w] = NULL]
    BY <1>2, <1>5, UnmapNotifyEffect
  <2>3. placed'[w] # d
    BY <1>1, <2>2, DesktopsAssumption
  <2> QED BY <2>1, <2>3 DEF Spares
<1>6. ASSUME NEW o \in DesktopIds, NEW td \in DesktopIds, NEW n \in Leaves(heap, tree[o]),
             move_node(n, o, td), td = curr => "_NET_WM_DESKTOP" \in Messages
      PROVE  /\ Keeps(heap[n].client) /\ heap[n].client \in Windows
             /\ placed[heap[n].client] = o
             /\ td = d \/ Spares(d, heap[n].client)
  <2> DEFINE w == heap[n].client
  <2>1. Keeps(w)
    BY <1>1, <1>6, MoveNodeKeeps
  <2>2. w \in Windows /\ placed[w] = o
    BY <1>6, PInvFacts, LeafPlaced
  <2>3. placed' = [placed EXCEPT ![w] = NULL] \/ placed' = [placed EXCEPT ![w] = td]
    BY <1>2, <1>6, MoveNodeEffect
  <2>4. td # d => placed'[w] # d
    BY <1>1, <2>2, <2>3, DesktopsAssumption
  <2> HIDE DEF w
  <2>5. td = d \/ Spares(d, w)
    BY <2>1, <2>4 DEF Spares
  <2> QED BY <2>1, <2>2, <2>5 DEF w
<1>7. ASSUME NEW td \in DesktopIds, transfer_node_wrapper(td) PROVE goal
  <2> DEFINE n == get_focused_node(heap, tree[curr])
             w == heap[n].client
  <2>1. n # NULL /\ td # curr /\ move_node(n, curr, td)
    BY <1>7 DEF transfer_node_wrapper
  <2>2. n \in Leaves(heap, tree[curr])
    BY <2>1, PInvFacts, FocusedResult
  <2> HIDE DEF n
  <2>3. Keeps(w) /\ w \in Windows /\ placed[w] = curr /\ (td = d \/ Spares(d, w))
    BY <1>6, <2>1, <2>2, PInvFacts
  <2> HIDE DEF w
  <2>4. Spares(d, w)
    BY <2>1, <2>3 DEF Spares
  <2> QED BY <2>3, <2>4
<1>8. ASSUME NEW w \in Windows, NEW td \in DesktopIds, handle_net_wm_desktop(w, td) PROVE goal
  <2> DEFINE o == desktop_of(w)
             n == find_node_by_window_id(heap, tree[o], w)
  <2>1. /\ client_exist_in_desktops(w) /\ move_node(n, o, td)
        /\ "_NET_WM_DESKTOP" \in Messages
    BY <1>8 DEF handle_net_wm_desktop
  <2>2. o = placed[w] /\ placed[w] # NULL /\ o \in DesktopIds
    BY <2>1, ManagedPlaced, PInvFacts
  <2> HIDE DEF o
  <2>3. n \in Leaves(heap, tree[o]) /\ heap[n].client = w
    BY <2>2, PInvFacts, FindPlaced
  <2> HIDE DEF n
  <2>4. Keeps(w) /\ (td = d \/ Spares(d, w))
    BY <1>6, <2>1, <2>2, <2>3
  <2> QED BY <1>8, <2>4
<1>9. ASSUME UNCHANGED vars PROVE goal
  <2>1. heap' \in Heaps /\ SameShape(heap, heap')
    BY <1>1, <1>9, Trees DEF vars, Good, SameShape
  <2> QED BY <1>3, <2>1
<1>10. ASSUME swap_node_wrapper PROVE goal
  BY <1>10
<1>11. ASSUME \/ \E w : give_focus(w) \/ \E flag : set_fullscreen(w, flag)
              \/ \E p : cycle_win_wrapper(p)
              \/ \E step : traverse_stack_wrapper(step)
              \/ \E t, p : layout_handler(t, p)
              \/ \E s, p : change_state(s, p)
              \/ \E td : switch_desktop(td)
       PROVE  goal
  <2>1. heap' \in Heaps /\ SameShape(heap, heap')
    BY <1>1, <1>11, OthersKeepShape
  <2> QED BY <1>3, <2>1
<1> HIDE DEF goal
<1>12. ASSUME pointer_event PROVE goal
  <2>1. \E w : give_focus(w)
    BY <1>12 DEF pointer_event, handle_enter_notify, handle_button_press
  <2> QED BY <1>11, <2>1
<1>13. ASSUME key_event PROVE goal
  <2>1. ASSUME NEW p, cycle_win_wrapper(p) PROVE goal
    BY <1>11, <2>1
  <2>2. ASSUME NEW step, traverse_stack_wrapper(step) PROVE goal
    BY <1>11, <2>2
  <2>3. ASSUME NEW t, NEW p, layout_handler(t, p) PROVE goal
    BY <1>11, <2>3
  <2>4. ASSUME NEW s, NEW p, change_state(s, p) PROVE goal
    BY <1>11, <2>4
  <2>5. ASSUME NEW p, set_fullscreen_wrapper(p) PROVE goal
    <3>1. set_fullscreen(p, state[p] # "FULLSCREEN")
      BY <2>5 DEF set_fullscreen_wrapper
    <3> QED BY <1>11, <3>1
  <2>6. ASSUME NEW td, switch_desktop(td) PROVE goal
    BY <1>11, <2>6
  <2> QED BY <1>7, <1>10, <1>13, <2>1, <2>2, <2>3, <2>4, <2>5, <2>6 DEF key_event
<1>14. ASSUME client_event PROVE goal
  <2>1. ASSUME NEW w, NEW flag, handle_net_wm_state(w, flag) PROVE goal
    <3>1. \E v, f : set_fullscreen(v, f)
      BY <2>1 DEF handle_net_wm_state
    <3> QED BY <1>11, <3>1
  <2> QED BY <1>4, <1>5, <1>8, <1>14, <2>1 DEF client_event
<1>15. goal
  BY <1>9, <1>12, <1>13, <1>14 DEF Next
<1> QED BY <1>15 DEF goal

\* In a state of the invariant the windows of a desktop come from left to right.
LEMMA OrderIs ==
  ASSUME NEW h, NEW t, NEW p, Holds(h, t, p), NEW d \in DesktopIds,
         NEW u \in WindowsOf(h, t[d]), NEW v \in WindowsOf(h, t[d])
  PROVE  Precedes(LeafWindows(h, t[d]), u, v) <=> WindowLeft(h, u, v)
<1>1. Good(h) /\ Unique(h) /\ t[d] \in Nodes \cup {NULL}
  BY DEF Holds, Houses, Planted, Unique
<1> QED BY <1>1, LeafWindowsOrder

\* The windows that stay on a desktop and are kept in order.
LEMMA StableStep ==
  ASSUME PInv, PInv', NEW d \in DesktopIds, NEW W, OrderKept(heap, heap', W),
         NEW v \in W, NEW w \in W, v \in WindowsOf(heap, tree[d]), w \in WindowsOf(heap, tree[d]),
         v \in WindowsOf(heap', tree'[d]), w \in WindowsOf(heap', tree'[d])
  PROVE  Precedes(LeafWindows(heap, tree[d]), v, w)
           <=> Precedes(LeafWindows(heap', tree'[d]), v, w)
<1>1. Precedes(LeafWindows(heap, tree[d]), v, w) <=> WindowLeft(heap, v, w)
  BY OrderIs DEF PInv
<1>2. Precedes(LeafWindows(heap', tree'[d]), v, w) <=> WindowLeft(heap', v, w)
  BY OrderIs DEF PInv
<1>3. WindowLeft(heap, v, w) <=> WindowLeft(heap', v, w)
  BY DEF OrderKept
<1> QED BY <1>1, <1>2, <1>3

\* Only swap changes the left-to-right order of windows that stay on a desktop; a pager
\* that sends a window to the desktop it is on moves that window and no other.
THEOREM OrderStableAlways == Spec => OrderStable
<1> DEFINE same(d, S) == \A v, w \in S : Precedes(LeafWindows(heap, tree[d]), v, w)
                                          <=> Precedes(LeafWindows(heap', tree'[d]), v, w)
           both(d) == WindowsOf(heap, tree[d]) \cap WindowsOf(heap', tree'[d])
           stable(d) == \/ same(d, both(d))
                        \/ swap_node_wrapper
                        \/ \E w \in both(d) : handle_net_wm_desktop(w, d)
                                              /\ same(d, both(d) \ {w})
           Stable == \A d \in DesktopIds : stable(d)
<1>1. ASSUME PInv, PInv', [Next]_vars PROVE Stable
  <2> SUFFICES ASSUME NEW d \in DesktopIds PROVE stable(d)
    OBVIOUS
  <2>1. both(d) \subseteq Windows
    BY <1>1, PInvFacts, TreeWindows
  <2>2. ASSUME NEW W, OrderKept(heap, heap', W) PROVE same(d, both(d) \cap W)
    BY <1>1, <2>2, StableStep
  <2>3. \A w \in Windows : w \in both(d) <=> placed[w] = d /\ placed'[w] = d
    <3>1. WindowsOf(heap, tree[d]) = {w \in Windows : placed[w] = d}
      BY <1>1, WindowsPlaced DEF PInv
    <3>2. WindowsOf(heap', tree'[d]) = {w \in Windows : placed'[w] = d}
      BY <1>1, WindowsPlaced DEF PInv
    <3> QED BY <3>1, <3>2
  <2> HIDE DEF both, same
  <2>4. CASE OrderKept(heap, heap', Windows)
    <3>1. both(d) \cap Windows = both(d)
      BY <2>1
    <3> QED BY <2>2, <2>4, <3>1
  <2>5. ASSUME NEW w \in Windows, Spares(d, w) PROVE stable(d)
    <3>1. both(d) \cap (Windows \ {w}) = both(d)
      BY <2>1, <2>3, <2>5 DEF Spares
    <3> QED BY <2>2, <2>5, <3>1 DEF Spares, Keeps
  <2>6. ASSUME NEW w \in Windows, handle_net_wm_desktop(w, d), Keeps(w) PROVE stable(d)
    <3>1. both(d) \cap (Windows \ {w}) = both(d) \ {w}
      BY <2>1
    <3>2. same(d, both(d) \ {w})
      BY <2>2, <2>6, <3>1 DEF Keeps
    <3>3. CASE w \in both(d)
      BY <2>6, <3>2, <3>3
    <3>4. CASE w \notin both(d)
      <4>1. both(d) \ {w} = both(d)
        BY <3>4
      <4> QED BY <3>2, <4>1
    <3> QED BY <3>3, <3>4
  <2> QED BY <1>1, <2>4, <2>5, <2>6, StepKeeps
<1>2. PInv /\ PInv' /\ [Next]_vars =>
        [\A d \in DesktopIds :
           LET before  == LeafWindows(heap, tree[d])
               after   == LeafWindows(heap, tree[d])'
               both1   == WindowsOf(heap, tree[d]) \cap WindowsOf(heap, tree[d])'
               Same(S) == \A v, w \in S : Precedes(before, v, w) <=> Precedes(after, v, w)
           IN  \/ Same(both1)
               \/ swap_node_wrapper
               \/ \E w \in both1 : handle_net_wm_desktop(w, d) /\ Same(both1 \ {w})]_vars
  BY <1>1
<1>3. Spec => []PInv
  BY PInvAlways
<1> QED BY <1>2, <1>3, PTL DEF Spec, OrderStable

-----------------------------------------------------------------------------
(* When at most one window can float, no node is leaked.                   *)

\* The end of handle_map_request leaks nothing.
LEMMA MapOutUnleaked ==
  ASSUME NEW w, NEW h \in Heaps, Unleaked(h), NEW r, NEW st, map_out(w, h, r, st)
  PROVE  Unleaked(heap')
<1> DEFINE f == find_node_by_window_id(h, r, w)
           h1 == set_focused(h, f, TRUE)
           h2 == update_focus(h1, r, f)
<1>1. heap' = h2 \/ heap' = h
  BY DEF map_out
<1>2. h1 \in Heaps /\ Unleaked(h1)
  BY FlagShapes, ShapeUnleaked
<1> HIDE DEF h1
<1>3. Unleaked(h2)
  BY <1>2, FlagShapes, ShapeUnleaked
<1> QED BY <1>1, <1>3

\* A node for a window and its insertion leak nothing.
LEMMA WithUnleaked ==
  ASSUME NEW h, Good(h), Unleaked(h), NEW n, LeafNode(h, n), NEW r, NEW w \in Windows,
         NEW l, NEW fl, \E a, b \in FreeNodes(h) : a # b
  PROVE  with_window(h, r, n, w, l, fl) \in Heaps /\ Unleaked(with_window(h, r, n, w, l, fl))
BY WithWindowSplits, ShapeUnleaked

\* handle_map_request leaks nothing, whichever of the four ways it goes.
LEMMA MapRequestUnleaked ==
  ASSUME IInv, NoneLeaked, NEW w \in Windows, NEW p, handle_map_request(w, p)
  PROVE  NoneLeaked'
<1>1. /\ Good(heap) /\ heap \in Heaps /\ Unleaked(heap)
      /\ MapRequested(w) /\ \E a, b \in FreeNodes(heap) : a # b
      /\ tree[curr] \in Nodes \cup {NULL}
      /\ \A d \in DesktopIds : tree[d] \in Nodes \cup {NULL}
  BY Trees DEF Good, NoneLeaked, handle_map_request, MapRequested, RoomToMap
<1> SUFFICES Unleaked(heap')
  BY DEF NoneLeaked, Unleaked
<1>2. ASSUME handle_first_window(w) PROVE Unleaked(heap')
  <2> DEFINE b == w \in Dialogs
             n == Malloc(FreeNodes(heap))
             x == [create_node(w, "ROOT", NULL) EXCEPT !.is_focused = TRUE, !.frect = b]
             h == [heap EXCEPT ![n] = x]
             st == [state EXCEPT ![w] = initial_state(w)]
  <2>1. map_out(w, h, n, st)
    BY <1>2 DEF handle_first_window
  <2>2. x \in NodeRecords /\ x.leaked = NULL
    <3>1. b \in BOOLEAN
      OBVIOUS
    <3>2. x.leaked = NULL
      BY DEF create_node, FreeNode
    <3> HIDE DEF b
    <3> QED BY <3>1, <3>2, NewNode DEF NodeTypes
  <2> HIDE DEF x, n, st
  <2>3. h \in Heaps /\ Unleaked(h)
    BY <1>1, <2>2, NewUnleaked DEF Heaps
  <2> HIDE DEF h
  <2> QED BY <2>1, <2>3, MapOutUnleaked
<1>3. ASSUME handle_subsequent_window(w) PROVE Unleaked(heap')
  <2> DEFINE r   == tree[curr]
             f   == get_focused_node(heap, r)
             n   == IF f # NULL /\ heap[f].client \in floating /\ heap[f].type # "ROOT"
                    THEN find_any_leaf(heap, r, floating) ELSE f
             st  == [unfullscreened(state, heap[n].client) EXCEPT ![w] = "TILED"]
             fl  == {v \in Windows : st[v] = "FLOATING"}
             h   == with_window(heap, r, n, w, layout[curr], fl)
             new == find_node_by_window_id(h, r, w)
             h2  == IF layout[curr] = "STACK" THEN set_focused(h, new, TRUE) ELSE h
  <2>1. IF n = NULL THEN heap' = heap ELSE map_out(w, h2, r, st)
    BY <1>3 DEF handle_subsequent_window
  <2>2. n # NULL => LeafNode(heap, n)
    BY <1>1, FocusedResult, AnyLeafResult
  <2> HIDE DEF n, st, fl
  <2>3. n # NULL => h \in Heaps /\ Unleaked(h)
    BY <1>1, <2>2, WithUnleaked
  <2> HIDE DEF h
  <2>4. n # NULL => h2 \in Heaps /\ Unleaked(h2)
    BY <2>3, FlagShapes, ShapeUnleaked
  <2> HIDE DEF h2
  <2> QED BY <1>1, <2>1, <2>4, MapOutUnleaked
<1>4. ASSUME handle_floating_window(w, p) PROVE Unleaked(heap')
  <2> DEFINE r  == tree[curr]
             u  == find_node_by_window_id(heap, r, p)
             n  == IF u = NULL THEN find_any_leaf(heap, r, floating) ELSE u
             st == [state EXCEPT ![w] = "FLOATING"]
             fl == floating \cup {w}
             h  == with_window(heap, r, n, w, layout[curr], fl)
  <2>1. IF p = NULL \/ n = NULL THEN heap' = heap ELSE map_out(w, h, r, st)
    BY <1>4 DEF handle_floating_window
  <2>2. n # NULL => LeafNode(heap, n)
    BY <1>1, FindResult, AnyLeafResult
  <2> HIDE DEF n, st, fl
  <2>3. n # NULL => h \in Heaps /\ Unleaked(h)
    BY <1>1, <2>2, WithUnleaked
  <2> HIDE DEF h
  <2> QED BY <1>1, <2>1, <2>3, MapOutUnleaked
<1>5. ASSUME NEW d \in DesktopIds, insert_into_desktop(w, d) PROVE Unleaked(heap')
  <2> DEFINE r   == tree[d]
             n   == IF r = NULL THEN NULL ELSE find_any_leaf(heap, r, floating)
             st0 == IF n = NULL \/ w \in Dialogs THEN state
                    ELSE unfullscreened(state, heap[n].client)
             st  == [st0 EXCEPT ![w] = initial_state(w)]
             fl  == {v \in Windows : st[v] = "FLOATING"}
             top == Malloc(FreeNodes(heap))
             dlg == w \in Dialogs
             x   == [create_node(w, "ROOT", NULL) EXCEPT !.frect = dlg]
             h0  == [heap EXCEPT ![top] = x]
             h1  == with_window(heap, r, n, w, layout[d], fl)
             h   == IF r = NULL THEN h0 ELSE h1
             new == find_node_by_window_id(h, r, w)
  <2>1. \/ r # NULL /\ n = NULL /\ heap' = heap
        \/ ~(r # NULL /\ n = NULL) /\ heap' \in {h, set_focused(h, new, TRUE)}
    BY <1>5 DEF insert_into_desktop
  <2>2. x \in NodeRecords /\ x.leaked = NULL
    <3>1. dlg \in BOOLEAN
      OBVIOUS
    <3>2. x.leaked = NULL
      BY DEF create_node, FreeNode
    <3> HIDE DEF dlg
    <3> QED BY <3>1, <3>2, NewNode DEF NodeTypes
  <2>3. r # NULL /\ n # NULL => LeafNode(heap, n)
    BY <1>1, AnyLeafResult
  <2> HIDE DEF x, top
  <2>4. h0 \in Heaps /\ Unleaked(h0)
    BY <1>1, <2>2, NewUnleaked DEF Heaps
  <2> HIDE DEF n, fl, h0
  <2>5. r # NULL /\ n # NULL => h1 \in Heaps /\ Unleaked(h1)
    BY <1>1, <2>3, WithUnleaked
  <2> HIDE DEF h1
  <2>6. ~(r # NULL /\ n = NULL) => h \in Heaps /\ Unleaked(h)
    BY <2>4, <2>5
  <2> HIDE DEF h
  <2> QED BY <1>1, <2>1, <2>6, FlagShapes, ShapeUnleaked
<1>6. RuleDesktop[w] \notin {NULL, curr} => RuleDesktop[w] \in DesktopIds
  BY DesktopsAssumption
<1> QED BY <1>2, <1>3, <1>4, <1>5, <1>6 DEF handle_map_request

\* kill_window frees the node of the window.
LEMMA UnmapNotifyUnleaked ==
  ASSUME IInv, NoneLeaked, NEW w \in Windows, handle_unmap_notify(w)
  PROVE  NoneLeaked'
<1> SUFFICES Unleaked(heap')
  BY DEF NoneLeaked, Unleaked
<1>1. CASE ~client_exist_in_desktops(w)
  BY <1>1 DEF handle_unmap_notify, NoneLeaked
<1>2. CASE client_exist_in_desktops(w)
  <2> DEFINE d  == desktop_of(w)
             n  == find_node_by_window_id(heap, tree[d], w)
             r  == root_without(heap, tree[d], n)
             h1 == unlink_node(heap, n)
             h2 == free_node(h1, n)
             h  == arrange_tree(h2, r, layout[d], floating \ {w})
  <2>1. heap' = h
    BY <1>2 DEF handle_unmap_notify, kill_window
  <2>2. LeafNode(heap, n) /\ heap \in Heaps
    <3>1. d \in DesktopIds /\ n # NULL
      BY <1>2 DEF client_exist_in_desktops, desktop_of
    <3> HIDE DEF d
    <3> QED BY <3>1, Trees, FindResult DEF Good
  <2> HIDE DEF n
  <2>3. h1 \in Heaps /\ n \in Nodes /\ Unleaked(h1)
    BY <2>2, Trees, UnlinkDetaches, SurgeryUnleaked DEF Detached, NoneLeaked
  <2> HIDE DEF h1
  <2>4. h2 \in Heaps /\ Unleaked(h2)
    BY <2>3, FreeGoes, SurgeryUnleaked DEF Gone
  <2> HIDE DEF h2
  <2> QED BY <2>1, <2>4, FlagShapes, ShapeUnleaked
<1> QED BY <1>1, <1>2

\* A node that moves is leaked only when the windows of the desktop it goes to float.
LEMMA MoveNodeUnleaked ==
  ASSUME PInv, NoneLeaked, OneFloats, floating \subseteq Dialogs,
         NEW d \in DesktopIds, NEW td \in DesktopIds,
         NEW n \in Leaves(heap, tree[d]), move_node(n, d, td)
  PROVE  NoneLeaked'
<1> DEFINE h1   == unlink_node(heap, n)
           t1   == [tree EXCEPT ![d] = root_without(heap, tree[d], n)]
           leaf == IF t1[td] = NULL THEN NULL ELSE transfer_target(h1, t1[td], floating)
           hr   == [h1 EXCEPT ![n].type = "ROOT"]
           ht   == transfer_node(h1, leaf, Malloc(FreeNodes(h1)), n)
           h2   == IF t1[td] = NULL THEN hr ELSE ht
           t2   == [t1 EXCEPT ![td] = IF t1[td] = NULL THEN n ELSE t1[td]]
           h3   == arrange_tree(h2, t2[td], layout[td], floating)
           h4   == IF layout[td] = "STACK" THEN set_focused(h3, n, TRUE) ELSE h3
           h5   == arrange_tree(h4, t2[d], layout[d], floating)
           q0   == [placed EXCEPT ![heap[n].client] = NULL]
<1> SUFFICES Unleaked(heap')
  BY DEF NoneLeaked, Unleaked
<1>1. /\ leaf = NULL \/ RoomToMove(h1)
      /\ (t1[td] # NULL /\ leaf = NULL) \/ heap' = h5
  BY DEF move_node
<1>2. HoldsBut(h1, t1, q0, n)
  BY PInvFacts, HoldsUnlink
<1>3. Uprooted(h1, t1, n) /\ h1 \in Heaps /\ Detached(h1, n)
  BY <1>2 DEF HoldsBut, Uprooted, Detached
<1>4. Unleaked(h1)
  BY PInvFacts, SurgeryUnleaked DEF NoneLeaked, Good
<1> HIDE DEF h1, t1, q0
<1>5. ~(t1[td] # NULL /\ leaf = NULL)
  <2> SUFFICES ASSUME t1[td] # NULL, leaf = NULL PROVE FALSE
    OBVIOUS
  <2>1. transfer_target(h1, t1[td], floating) = NULL
    OBVIOUS
  <2>2. CrowdFloats(q0, td)
    BY <1>2, <2>1, LostFloats DEF CrowdFloats
  <2> QED BY <2>2, NoCrowdFloats
<1>6. h2 \in Heaps /\ Unleaked(h2)
  <2>1. CASE t1[td] = NULL
    <3>1. hr \in Heaps
      BY <1>3, RootDetached DEF Good
    <3>2. Unleaked(hr)
      BY <1>3, <1>4, SurgeryUnleaked
    <3> QED BY <2>1, <3>1, <3>2
  <2>2. CASE t1[td] # NULL
    <3>1. leaf = transfer_target(h1, t1[td], floating) /\ leaf # NULL
      BY <1>5, <2>2
    <3>2. LeafNode(h1, leaf) /\ leaf # n
      BY <1>3, <2>2, <3>1, TargetResult
    <3>3. Malloc(FreeNodes(h1)) \in FreeNodes(h1)
      BY <1>1, <3>1, MallocAssumption DEF RoomToMove, FreeNodes
    <3> HIDE DEF leaf
    <3>4. ht \in Heaps
      BY <1>3, <3>2, <3>3, TransferGood DEF Good
    <3>5. Unleaked(ht)
      BY <1>3, <1>4, SurgeryUnleaked
    <3> QED BY <2>2, <3>4, <3>5
  <2> QED BY <2>1, <2>2
<1> HIDE DEF h2
<1>7. h3 \in Heaps /\ Unleaked(h3)
  BY <1>6, FlagShapes, ShapeUnleaked
<1> HIDE DEF h3
<1>8. h4 \in Heaps /\ Unleaked(h4)
  BY <1>7, FlagShapes, ShapeUnleaked
<1> HIDE DEF h4
<1>9. Unleaked(h5)
  BY <1>8, FlagShapes, ShapeUnleaked
<1> HIDE DEF h5, leaf
<1> QED BY <1>1, <1>5, <1>9

\* Hence no step leaks a node while at most one window can float.
LEMMA UnleakedNext ==
  ASSUME PInv, NoneLeaked, OneFloats, floating \subseteq Dialogs, [Next]_vars
  PROVE  NoneLeaked'
<1>1. IInv /\ heap \in Heaps
  BY PInvFacts DEF Good
<1>2. CASE UNCHANGED vars
  BY <1>2 DEF vars, NoneLeaked, Unleaked
<1>3. ASSUME NEW w \in Windows, NEW p, handle_map_request(w, p) PROVE NoneLeaked'
  BY <1>1, <1>3, MapRequestUnleaked
<1>4. ASSUME NEW w \in Windows, handle_unmap_notify(w) PROVE NoneLeaked'
  BY <1>1, <1>4, UnmapNotifyUnleaked
<1>5. ASSUME NEW td \in DesktopIds, transfer_node_wrapper(td) PROVE NoneLeaked'
  <2> DEFINE n == get_focused_node(heap, tree[curr])
  <2>1. n # NULL /\ move_node(n, curr, td)
    BY <1>5 DEF transfer_node_wrapper
  <2>2. n \in Leaves(heap, tree[curr])
    BY <2>1, PInvFacts, FocusedResult
  <2> HIDE DEF n
  <2> QED BY <2>1, <2>2, PInvFacts, MoveNodeUnleaked
<1>6. ASSUME NEW w \in Windows, NEW td \in DesktopIds, handle_net_wm_desktop(w, td)
      PROVE  NoneLeaked'
  <2> DEFINE o == desktop_of(w)
             n == find_node_by_window_id(heap, tree[o], w)
  <2>1. client_exist_in_desktops(w) /\ move_node(n, o, td)
    BY <1>6 DEF handle_net_wm_desktop
  <2>2. o = placed[w] /\ placed[w] # NULL /\ o \in DesktopIds
    BY <2>1, ManagedPlaced, PInvFacts
  <2> HIDE DEF o
  <2>3. n \in Leaves(heap, tree[o])
    BY <2>2, PInvFacts, FindPlaced
  <2> HIDE DEF n
  <2> QED BY <2>1, <2>2, <2>3, MoveNodeUnleaked
<1>7. ASSUME swap_node_wrapper PROVE NoneLeaked'
  <2>1. \E n : heap' = swap_node(heap, n)
    BY <1>7 DEF swap_node_wrapper
  <2> QED BY <1>1, <2>1, SurgeryUnleaked DEF NoneLeaked, Unleaked
<1>8. ASSUME \/ \E w : give_focus(w) \/ \E flag : set_fullscreen(w, flag)
             \/ \E p : cycle_win_wrapper(p)
             \/ \E step : traverse_stack_wrapper(step)
             \/ \E t, p : layout_handler(t, p)
             \/ \E s, p : change_state(s, p)
             \/ \E td : switch_desktop(td)
      PROVE  NoneLeaked'
  <2>1. SameShape(heap, heap')
    BY <1>1, <1>8, OthersKeepShape
  <2> QED BY <2>1 DEF SameShape, NoneLeaked, Unleaked
<1>9. ASSUME pointer_event PROVE NoneLeaked'
  <2>1. \E w : give_focus(w)
    BY <1>9 DEF pointer_event, handle_enter_notify, handle_button_press
  <2> QED BY <1>8, <2>1
<1>10. ASSUME key_event PROVE NoneLeaked'
  <2>1. ASSUME NEW p, set_fullscreen_wrapper(p) PROVE NoneLeaked'
    <3>1. set_fullscreen(p, state[p] # "FULLSCREEN")
      BY <2>1 DEF set_fullscreen_wrapper
    <3> QED BY <1>8, <3>1
  <2>2. ASSUME NEW p, cycle_win_wrapper(p) PROVE NoneLeaked'
    BY <1>8, <2>2
  <2>3. ASSUME NEW step, traverse_stack_wrapper(step) PROVE NoneLeaked'
    BY <1>8, <2>3
  <2>4. ASSUME NEW t, NEW p, layout_handler(t, p) PROVE NoneLeaked'
    BY <1>8, <2>4
  <2>5. ASSUME NEW s, NEW p, change_state(s, p) PROVE NoneLeaked'
    BY <1>8, <2>5
  <2>6. ASSUME NEW td, switch_desktop(td) PROVE NoneLeaked'
    BY <1>8, <2>6
  <2> QED BY <1>5, <1>7, <1>10, <2>1, <2>2, <2>3, <2>4, <2>5, <2>6 DEF key_event
<1>11. ASSUME client_event PROVE NoneLeaked'
  <2>1. ASSUME NEW w, NEW flag, handle_net_wm_state(w, flag) PROVE NoneLeaked'
    <3>1. \E v, f : set_fullscreen(v, f)
      BY <2>1 DEF handle_net_wm_state
    <3> QED BY <1>8, <3>1
  <2> QED BY <1>3, <1>4, <1>6, <1>11, <2>1 DEF client_event
<1> QED BY <1>2, <1>9, <1>10, <1>11 DEF Next

\* While at most one window can float no transfer fails, so none leaks its node: every
\* allocated node is in the tree of exactly one desktop, and every window in at most one
\* node.
THEOREM OneTreeWhenOneFloats ==
  ASSUME OneFloats
  PROVE  Spec => []OneTree
<1>1. Init => NoneLeaked
  BY DEF Init, FreeNode, NoneLeaked, Unleaked
<1>2. NoneLeaked /\ FInv /\ [Next]_vars => NoneLeaked'
  BY UnleakedNext DEF FInv
<1>3. FInv /\ NoneLeaked => OneTree
  BY PInvOneTree DEF FInv
<1> QED BY <1>1, <1>2, <1>3, FInvAlways, PTL DEF Spec
=============================================================================
