------------------------------ MODULE Geometry ------------------------------
(***************************************************************************)
(* The rectangles of the tiles of one desktop: how a split divides the     *)
(* rectangle of a node (split_rect and apply_default_layout of             *)
(* src/src/tree.c, which do not divide alike), and the handlers that open, *)
(* close, resize, flip and swap tiles, change the layout, the gap or the   *)
(* usable area of the monitor.  The trees are those of BSPTree.            *)
(*                                                                         *)
(* Abstractions: no window floats or is fullscreen; the focused window is  *)
(* any of the desktop (Desktops has the focus); a ratio is a fraction, and *)
(* products with it are exact (a double may lose a pixel where the         *)
(* quotient is whole).  A session that drags the edge between two tiles is *)
(* one action, from its start to the release (Drag has its steps).         *)
(***************************************************************************)
EXTENDS BSPTree, Integers

CONSTANTS
  BorderWidth,   \* conf.border_width
  FirstGap,      \* conf.window_gap when zwm starts
  MaxGap,        \* bound: the gap is not grown beyond it
  MinTile,       \* bound: a tile is not shrunk below it by the resize keys
  Offered,       \* layouts there are keys for
  Areas,         \* the usable areas that bars leave of the monitor
  NegToU16(_)    \* what the build makes of a negative double stored in a uint16_t

ASSUME GeometryAssumption ==
  /\ Offered \subseteq Layouts
  /\ BorderWidth \in Nat /\ FirstGap \in Nat /\ MaxGap \in Nat /\ MinTile \in Nat
  /\ \A v \in -65535 .. -1 : NegToU16(v) \in 0 .. 65535

VARIABLES
  heap,        \* the nodes
  tree,        \* desk->tree
  rect,        \* rectangle of each node
  split,       \* split_type and split_ratio of each node
  layout,
  window_gap,  \* conf.window_gap
  usable,      \* get_usable_area(curr_monitor)
  running      \* FALSE once zwm has dereferenced a null pointer

vars == <<heap, tree, rect, split, layout, window_gap, usable, running>>

Axes == {"HORIZONTAL", "VERTICAL"}
other(a) == CHOOSE b \in Axes : b # a

\* x and width are the HORIZONTAL position and size, y and height the VERTICAL ones.
Rectangle(p, s) == [pos |-> p, size |-> s]
Sides(h, v) == [HORIZONTAL |-> h, VERTICAL |-> v]
NoRect == Rectangle(Sides(0, 0), Sides(0, 0))

\* split_ratio is 0.0 in a new node.
NewSplit == [type |-> "DYNAMIC", ratio |-> <<0, 1>>]

U16(v) == v % 65536
I16(v) == ((v + 32768) % 65536) - 32768

-----------------------------------------------------------------------------
(* Dividing a rectangle.                                                   *)

normalize_split_ratio(q) == IF q[1] <= 0 \/ q[1] >= q[2] THEN <<1, 2>> ELSE q

\* The product of a length and a ratio, cut to an integer.
share(len, ratio) ==
  LET q == normalize_split_ratio(ratio)
  IN  IF len >= 0 THEN (len * q[1]) \div q[2] ELSE -((-len * q[1]) \div q[2])

\* clamp_ratio: from a twentieth to nineteen twentieths.
clamp_ratio(q) ==
  IF 20 * q[1] < q[2] THEN <<1, 20>> ELSE IF 20 * q[1] > 19 * q[2] THEN <<19, 20>> ELSE q

\* A node that was never resized is split along its longer side.
split_axis(sp, r) ==
  IF sp.type # "DYNAMIC" THEN sp.type
  ELSE IF r.size["HORIZONTAL"] >= r.size["VERTICAL"] THEN "HORIZONTAL" ELSE "VERTICAL"

\* Two parts of r along a, of the given sizes, the border of the first and the gap
\* between them.
parts(r, a, first, second, g) ==
  <<[r EXCEPT !.size[a] = first],
    [r EXCEPT !.pos[a] = I16(@ + first + g + BorderWidth), !.size[a] = second]>>

split_rect_forgets(sp, r, g) ==
  LET a     == split_axis(sp, r)
      first == U16(share(r.size[a] - (g - BorderWidth), sp.ratio))
  IN  parts(r, a, first, U16(r.size[a] - first), g)

\* split_rect: with the border that a new window needs it is 2 * BorderWidth too wide.
split_rect(sp, r, g) ==
  LET a     == split_axis(sp, r)
      gap   == g - BorderWidth
      first == U16(share(r.size[a] - gap, sp.ratio))
  IN  parts(r, a, first, U16(r.size[a] - first - gap), g)

\* One split of apply_default_layout, whose gap is unsigned.
default_split(sp, r, g) ==
  LET a     == split_axis(sp, r)
      part  == share(r.size[a] - U16(g - BorderWidth), sp.ratio)
      first == IF part < 0 THEN NegToU16(part) ELSE part
  IN  parts(r, a, first, U16(r.size[a] - first - g - BorderWidth), g)

\* One split of apply_master_layout below the master: the upper and the lower half.
master_split(r, g) ==
  LET len   == r.size["VERTICAL"]
      gap   == g - BorderWidth
      first == U16(share(len - gap, <<1, 2>>))
  IN  parts(r, "VERTICAL", first, U16(len - first - g - BorderWidth), g)

\* The rectangles rs, after those below the node top of heap h were computed from
\* its rectangle r downwards; Halves(n, r) are those of the children of n.
laid_below(h, rs, top, r, Halves(_, _)) ==
  LET of[n \in Nodes] ==
        IF n = top THEN r
        ELSE LET p == h[n].parent IN Halves(p, of[p])[IF n = h[p].first THEN 1 ELSE 2]
      covered == Subtree(h, top)
  IN  [n \in Nodes |-> IF n \in covered THEN of[n] ELSE rs[n]]

\* resize_subtree, of a node whose rectangle is in rs; it does nothing to a leaf.
resize_subtree(h, rs, sps, top, g) ==
  LET Halves(n, r) == split_rect(sps[n], r, g) IN laid_below(h, rs, top, rs[top], Halves)

-----------------------------------------------------------------------------
(* Layouts.                                                                *)

\* calculate_base_rect, calculate_monitor_area and fill_root_rectangle.
calculate_base_rect(u, g) ==
  LET from(a) == I16(u.pos[a] + g)
      size(a) == U16(u.size[a] - 2 * g - 2 * BorderWidth)
  IN  Rectangle(Sides(from("HORIZONTAL"), from("VERTICAL")),
                Sides(size("HORIZONTAL"), size("VERTICAL")))

default_layout(h, rs, sps, top, u, g) ==
  LET Halves(n, r) == default_split(sps[n], r, g)
  IN  laid_below(h, rs, top, calculate_base_rect(u, g), Halves)

stack_layout(h, rs, top, u, g) ==
  LET Halves(n, r) == <<r, r>> IN laid_below(h, rs, top, calculate_base_rect(u, g), Halves)

\* Seven tenths of the width are the master's, the others share the rest; a master
\* that is alone has it all.
master_rects(h, rs, top, master, u, g) ==
  LET width  == u.size["HORIZONTAL"]
      wide   == (7 * width) \div 10
      height == U16(u.size["VERTICAL"] - 2 * g)
      at(x)  == Sides(I16(x), I16(u.pos["VERTICAL"] + g))
      of(w)  == Sides(U16(w), height)
      r1     == Rectangle(at(u.pos["HORIZONTAL"] + g), of(wide - 2 * g))
      r2     == Rectangle(at(u.pos["HORIZONTAL"] + wide), of((3 * width) \div 10 - g))
      Halves(n, r) ==
        IF h[n].first = master THEN <<r1, r>>
        ELSE IF h[n].second = master THEN <<r, r1>>
        ELSE master_split(r, g)
  IN  IF master = top
      THEN [rs EXCEPT ![top] = Rectangle(at(u.pos["HORIZONTAL"] + g), of(width - 2 * g))]
      ELSE laid_below(h, rs, top, r2, Halves)

\* arrange_tree: the heap may get a master (BSPTree), the rectangles are computed anew.
arranged(h, rs, sps, top, l, u, g) ==
  CASE l = "DEFAULT" -> default_layout(h, rs, sps, top, u, g)
    [] l = "STACK"   -> stack_layout(h, rs, top, u, g)
    [] l = "MASTER"  ->
         master_rects(h, rs, top, find_master_node(arrange_tree(h, top, l, {}), top), u, g)

-----------------------------------------------------------------------------
(* Windows.                                                                *)

Fresh == FreeNodes(heap)
on_tree == Leaves(heap, tree)

Init ==
  /\ heap = [n \in Nodes |-> FreeNode]
  /\ tree = NULL
  /\ rect = [n \in Nodes |-> NoRect]
  /\ split = [n \in Nodes |-> NewSplit]
  /\ layout = "DEFAULT"
  /\ window_gap = FirstGap
  /\ usable \in Areas
  /\ running = TRUE

\* Nodes that are not allocated are as create_node will make them.
tidy(h) ==
  /\ heap' = h
  /\ split' = [n \in Nodes |-> IF h[n].type = "NONE" THEN NewSplit ELSE split[n]]

\* handle_first_window.
first_window(w) ==
  LET at == Malloc(Fresh)
  IN  /\ tree = NULL
      /\ tidy([heap EXCEPT ![at] = create_node(w, "ROOT", NULL)])
      /\ tree' = at
      /\ rect' = [rect EXCEPT ![at] = calculate_base_rect(usable, window_gap)]

\* The rectangles after the leaf n of heap h was split into at and new.
rects_of_insertion(h, n, at, new) ==
  LET halves == split_rect(split[n], rect[n], window_gap)
  IN  CASE layout = "DEFAULT" -> [rect EXCEPT ![at] = halves[1], ![new] = halves[2]]
        [] layout = "STACK"   -> [rect EXCEPT ![at] = rect[n], ![new] = rect[n]]
        [] layout = "MASTER"  -> arranged(h, rect, split, tree, layout, usable, window_gap)

\* handle_subsequent_window: beside the focused window n.
subsequent_window(w, n) ==
  LET at  == Malloc(Fresh)
      new == Malloc(Fresh \ {at})
      h   == insert_node([heap EXCEPT ![new] = create_node(w, "EXTERNAL", NULL)], n, at, new, {})
  IN  /\ tidy(arrange_tree(h, tree, layout, {}))
      /\ rect' = rects_of_insertion(h, n, at, new)
      /\ UNCHANGED tree

handle_map_request(w) ==
  /\ running
  /\ w \notin WindowsOf(heap, tree)
  /\ first_window(w) \/ \E n \in on_tree : subsequent_window(w, n)
  /\ UNCHANGED <<layout, window_gap, usable, running>>

\* delete_node arranges what is left of the tree.
handle_unmap_notify(n) ==
  LET r == root_without(heap, tree, n)
      h == free_node(unlink_node(heap, n), n)
  IN  /\ running
      /\ tidy(arrange_tree(h, r, layout, {}))
      /\ tree' = r
      /\ rect' = IF r = NULL THEN rect
                 ELSE arranged(h, rect, split, r, layout, usable, window_gap)
      /\ UNCHANGED <<layout, window_gap, usable, running>>

-----------------------------------------------------------------------------
(* Keys that move edges.                                                   *)

unchanged_but_rects == UNCHANGED <<heap, tree, layout, window_gap, usable, running>>

\* Ratios are kept in lowest terms.
lowest(q) ==
  LET d == CHOOSE k \in 1 .. q[2] : /\ q[1] % k = 0 /\ q[2] % k = 0
                                    /\ \A j \in k + 1 .. q[2] : q[1] % j # 0 \/ q[2] % j # 0
  IN  <<q[1] \div d, q[2] \div d>>

\* update_split_ratio, of node p when its first child is as in rs.
update_split_ratio(rs, p, a) ==
  LET avail == rect[p].size[a] - (window_gap - BorderWidth)
      first == rs[heap[p].first].size[a]
      q     == IF avail > 0 THEN lowest(normalize_split_ratio(<<first, avail>>)) ELSE <<1, 2>>
  IN  [type |-> a, ratio |-> q]

\* dynamic_resize by d: n gains what its sibling s loses.  Where neither lines up with
\* the other, nothing is resized but what is below s.
dynamic_resize(n, d) ==
  LET p == heap[n].parent
      s == get_sibling(heap, n)
      lined == {a \in Axes : rect[n].pos[other(a)] = rect[s].pos[other(a)]}
      a == IF "VERTICAL" \in lined THEN "VERTICAL" ELSE "HORIZONTAL"
      room == IF d > 0 THEN rect[s].size[a] > 5 ELSE rect[n].size[a] > 5
      ahead == rect[n].pos[a] < rect[s].pos[a]
      moved == IF lined = {} \/ ~room THEN rect
               ELSE [rect EXCEPT ![n].size[a] = U16(@ + d), ![s].size[a] = U16(@ - d),
                                 ![IF ahead THEN s ELSE n].pos[a] = IF ahead THEN @ + d ELSE @ - d]
  IN  /\ rect' = resize_subtree(heap, moved, split, s, window_gap)
      /\ split' = IF lined = {} THEN split ELSE [split EXCEPT ![p] = update_split_ratio(moved, p, a)]

dynamic_resize_wrapper(n, d) ==
  /\ running
  /\ layout = "DEFAULT"
  /\ n # tree
  /\ dynamic_resize(n, d)
  /\ \A m \in on_tree : \A a \in Axes : rect'[m].size[a] >= MinTile
  /\ unchanged_but_rects

\* flip_node: n takes the left or upper half, whichever child it is, along its own
\* longer side.
flip_node_wrapper(n) ==
  LET p == heap[n].parent
      s == get_sibling(heap, n)
      a == split_axis(NewSplit, rect[n])
      part == rect[p].size[a] - window_gap
      half == U16(IF part >= 0 THEN part \div 2 ELSE -(-part \div 2))
      turned == [rect EXCEPT
        ![n] = [rect[p] EXCEPT !.size[a] = half],
        ![s] = [rect[p] EXCEPT !.pos[a] = I16(@ + half + window_gap),
                               !.size[a] = U16(@ - half - window_gap)]]
  IN  /\ running
      /\ n # tree
      /\ rect' = resize_subtree(heap, turned, split, s, window_gap)
      /\ split' = [split EXCEPT ![p] = update_split_ratio(turned, p, a)]
      /\ unchanged_but_rects

\* swap_node: the two children of a node change sides and rectangles.
swap_node_wrapper(n) ==
  LET s == get_sibling(heap, n)
      h == swap_node(heap, n)
  IN  /\ running
      /\ n # tree
      /\ heap' = h
      /\ rect' = resize_subtree(h, [rect EXCEPT ![n] = rect[s], ![s] = rect[n]], split, s, window_gap)
      /\ UNCHANGED <<tree, split, layout, window_gap, usable, running>>

\* start_tiled_resize and the motions after it: the edge between n and its sibling is
\* left as near to the first end as it can be: 40 pixels, or half of a shorter node
\* (bound: it may be left anywhere between the two ends).
drag_edge(n) ==
  LET p == heap[n].parent
      s == get_sibling(heap, n)
      lined == {a \in Axes : rect[n].pos[other(a)] = rect[s].pos[other(a)]}
      a == IF "HORIZONTAL" \in lined THEN "HORIZONTAL" ELSE "VERTICAL"
      avail == rect[p].size[a] - (window_gap - BorderWidth)
      least == IF avail < 80 THEN IF avail \div 2 < 1 THEN 1 ELSE avail \div 2 ELSE 40
      sp == [split EXCEPT ![p] =
               [type |-> a, ratio |-> lowest(clamp_ratio(<<least, avail>>))]]
  IN  /\ running
      /\ layout = "DEFAULT"
      /\ n # tree /\ lined # {} /\ avail > 0
      /\ split' = sp
      /\ rect' = resize_subtree(heap, rect, sp, p, window_gap)
      /\ unchanged_but_rects

-----------------------------------------------------------------------------
(* Layouts, gaps and bars.                                                 *)

\* layout_handler and apply_layout; MASTER and STACK are for the window below the
\* pointer, if there is one.
layout_handler(l) ==
  LET h == master_clean_up(heap, tree)
  IN  /\ running
      /\ l = "STACK" => Cardinality(on_tree) > 1
      /\ layout' = l
      /\ \/ /\ l # "MASTER" /\ tree # NULL
            /\ heap' = h
            /\ rect' = arranged(h, rect, split, tree, l, usable, window_gap)
         \/ /\ l = "DEFAULT" => tree = NULL
            /\ heap' = h /\ rect' = rect
         \/ /\ l = "MASTER"
            /\ \E n \in on_tree :
                 /\ heap' = master_layout(h, tree, n, {})
                 /\ rect' = master_rects(h, rect, tree, n, usable, window_gap)
      /\ UNCHANGED <<tree, split, window_gap, usable, running>>

\* Unlike arrange_tree, apply_monitor_layout_changes takes the children of a master that
\* is alone for granted.
apply_monitor_layout_changes(u, g) ==
  IF tree = NULL THEN UNCHANGED <<heap, rect, running>>
  ELSE IF layout = "MASTER" /\ heap[tree].first = NULL
  THEN running' = FALSE /\ UNCHANGED <<heap, rect>>
  ELSE /\ heap' = arrange_tree(heap, tree, layout, {})
       /\ rect' = arranged(heap, rect, split, tree, layout, u, g)
       /\ UNCHANGED running

gap_handler(g) ==
  /\ running
  /\ window_gap' = g
  /\ apply_monitor_layout_changes(usable, g)
  /\ UNCHANGED <<tree, split, layout, usable>>

grown == window_gap + 5
shrunk == IF window_gap <= 5 THEN 0 ELSE window_gap - 5

\* arrange_trees, after a bar came or went.
arrange_trees(u) ==
  /\ running
  /\ usable' = u
  /\ apply_monitor_layout_changes(u, window_gap)
  /\ UNCHANGED <<tree, split, layout, window_gap>>

Next ==
  \/ \E w \in Windows : handle_map_request(w)
  \/ \E n \in on_tree : handle_unmap_notify(n)
  \/ \E n \in on_tree :
       \/ \E d \in {5, -5} : dynamic_resize_wrapper(n, d)
       \/ flip_node_wrapper(n)
       \/ swap_node_wrapper(n)
       \/ drag_edge(n)
  \/ \E l \in Offered : layout_handler(l)
  \/ grown <= MaxGap /\ gap_handler(grown)
  \/ gap_handler(shrunk)
  \/ \E u \in Areas : arrange_trees(u)

Spec == Init /\ [][Next]_vars

-----------------------------------------------------------------------------
(* Properties.                                                             *)

\* A window on the screen has its border around it.
frame(n) == [rect[n] EXCEPT !.size = [a \in Axes |-> @[a] + 2 * BorderWidth]]

Before(r, s, a) == r.pos[a] + r.size[a] <= s.pos[a]

Apart ==
  \A m, n \in on_tree : m # n =>
    \E a \in Axes : Before(frame(m), frame(n), a) \/ Before(frame(n), frame(m), a)

Inside ==
  \A n \in on_tree : \A a \in Axes :
    /\ frame(n).pos[a] >= usable.pos[a]
    /\ frame(n).pos[a] + frame(n).size[a] <= usable.pos[a] + usable.size[a]

\* split_rect leaves what it divides 2 * BorderWidth too wide, so each split above a
\* tile takes as much from the gap, until the next layout: there are no more splits
\* than the gap has room for.
Shallow ==
  LET depth[n \in Nodes] == IF n = tree THEN 0 ELSE 1 + depth[heap[n].parent]
  IN  \A n \in on_tree : window_gap >= 2 * BorderWidth * depth[n]

\* In the default layout no two windows overlap and none is under a bar or beyond the
\* screen, whichever of the two ways of dividing a rectangle, the resize, flip, swap
\* and drag of edges that change the one and the ratios that the other will use, or a
\* return from another layout put them where they are (tree.c:360, 1143, 1948, 2297).
TilesFit == running /\ layout = "DEFAULT" /\ Shallow => Apart /\ Inside

=============================================================================
