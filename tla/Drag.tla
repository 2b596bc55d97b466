--------------------------------- MODULE Drag ---------------------------------
(***************************************************************************)
(* Moving and resizing windows with the mouse: the drag of a tiled window  *)
(* to another partition (src/src/drag.c) and the mouse sessions of         *)
(* src/src/zwm.c.  A session lasts many events and keeps the address of a  *)
(* node from its first to its last; in between clients map and withdraw    *)
(* windows, pagers move them and keys switch desktops (module Desktops),   *)
(* and none of those handlers looks at the sessions.                       *)
(*                                                                         *)
(* Abstractions: which leaf the pointer is over, and whether it is near an *)
(* edge, are choices; the live preview, made on a clone of the tree, moves *)
(* windows but no node.                                                    *)
(***************************************************************************)
EXTENDS Desktops

VARIABLES
  drag,     \* drag_state: active, window, src_node
  mouse,    \* mouse_state: op, and the node_t that motion events write to
  grabbed   \* zwm has the pointer: X sends it no other pointer event

session  == <<drag, mouse, grabbed>>
all_vars == <<vars, session>>

NoDrag  == [active |-> FALSE, window |-> NULL, src_node |-> NULL]
NoMouse == [op |-> "NONE", node |-> NULL]

\* What there is of the variables of Desktops that no session changes.
unmoved == <<layout, n_count, curr, state, requested>>

-----------------------------------------------------------------------------
(* Starting.                                                               *)

\* Only tiled windows of the current desktop.  A pointer grab that fails is ignored.
drag_start(w) ==
  LET n == find_node_by_window_id(heap, tree[curr], w)
  IN  /\ n # NULL /\ state[w] = "TILED"
      /\ drag' = [active |-> TRUE, window |-> w, src_node |-> n]
      /\ grabbed' \in {TRUE, grabbed}
      /\ UNCHANGED mouse

start_floating(w) ==
  LET n == find_node_by_window_id(heap, tree[curr], w)
  IN  /\ n # NULL /\ state[w] = "FLOATING"
      /\ mouse' = [op |-> "FLOATING", node |-> n]
      /\ grabbed' = TRUE
      /\ UNCHANGED drag

\* The edge that is dragged is the one the window shares with its sibling.
start_tiled_resize(w) ==
  LET n == find_node_by_window_id(heap, tree[curr], w)
  IN  /\ n # NULL /\ state[w] = "TILED" /\ layout[curr] = "DEFAULT"
      /\ heap[n].parent # NULL
      /\ mouse' = [op |-> "TILED", node |-> heap[n].parent]
      /\ grabbed' = TRUE
      /\ UNCHANGED drag

\* A press starts a session if it can, and then focuses the window like any other.
super_button_press(w) ==
  /\ running /\ ~grabbed
  /\ w \in mapped
  /\ \/ drag_start(w) \/ start_floating(w) \/ start_tiled_resize(w)
     \/ UNCHANGED session
  /\ IF FocusFollowPointer THEN UNCHANGED vars ELSE give_focus(w)

start_keyboard_drag_wrapper ==
  LET f == get_focused_node(heap, tree[curr])
  IN  /\ running /\ "keyboard_drag" \in Keys
      /\ f # NULL
      /\ drag_start(heap[f].client)
      /\ UNCHANGED vars

-----------------------------------------------------------------------------
(* Ending a drag.                                                          *)

\* find_leaf_at_point finds tiled external leaves: never a lone root.
drop_targets ==
  {n \in Subtree(heap, tree[curr]) : /\ heap[n].type = "EXTERNAL"
                                     /\ heap[n].client \notin floating}

\* The root of the tree n is in, found upwards.
find_tree_root(h, n) ==
  CHOOSE r \in Nodes : h[r].parent = NULL /\ n \in Subtree(h, r)

\* The dropped node becomes the target's FIRST child instead of the second.
dropped_in_front(h, target, n, l) ==
  LET at == Malloc(FreeNodes(h))
      i  == insert_node(h, target, at, n, floating)
  IN  [i EXCEPT ![target].first = n, ![target].second = at]

\* A master is chosen anew, whatever master the tree has.
dropped_new_master(h, target, n, l) ==
  LET i == insert_node(h, target, Malloc(FreeNodes(h)), n, floating)
      r == find_tree_root(i, target)
  IN  IF l = "MASTER" THEN master_layout(i, r, NULL, floating) ELSE i

\* insert_node of drag_end, with what it does to the master of the target's tree.
dropped(h, target, n, l) ==
  LET i == insert_node(h, target, Malloc(FreeNodes(h)), n, floating)
      r == find_tree_root(i, target)
  IN  IF l = "MASTER" THEN master_layout(i, r, find_master_node(i, r), floating) ELSE i

\* A node that a failed transfer left in no tree still has its client.
regained(h, n) ==
  IF h[n].type = "NONE" THEN [h EXCEPT ![n] = create_node(h[n].leaked, "EXTERNAL", NULL)]
  ELSE h

\* The node was split by a window mapped in the meantime: it holds no client, and
\* insert_node reads the client's state in the default layout; in the master layout
\* it never finds the root of a target that is inside what was dragged.
drop_fails(target) ==
  LET src == drag.src_node
  IN  \/ src \in FreeNodes(heap)
      \/ regained(heap, src)[src].client = NULL /\ layout[curr] = "DEFAULT"
      \/ target \in Subtree(heap, src) /\ layout[curr] = "MASTER"

\* drag_end over the leaf target, NULL where there is none.  The node taken out is
\* src_node, whatever it is by now, and out of the CURRENT desktop.
drag_end(target) ==
  LET src == drag.src_node
      h0  == regained(heap, src)
      h   == unlink_node(h0, src)
      r   == root_without(h0, tree[curr], src)
      h2  == arrange_tree(dropped(h, target, src, layout[curr]), r, layout[curr], floating)
  IN  /\ running /\ drag.active /\ mouse.op = "NONE"
      /\ target \in drop_targets \cup {NULL}
      /\ drag' = NoDrag /\ grabbed' = FALSE
      /\ UNCHANGED <<mouse, unmoved, focus_vars>>
      /\ IF target \in {NULL, src}
         THEN /\ heap' = arrange_tree(heap, tree[curr], layout[curr], floating)
              /\ UNCHANGED <<tree, mapped, running>>
         ELSE IF drop_fails(target)
         THEN running' = FALSE /\ UNCHANGED <<heap, tree, mapped>>
         ELSE /\ RoomToMove(h)
              /\ heap' = h2
              /\ tree' = [tree EXCEPT ![curr] = r]
              /\ mapped' = mapped \cup rendered(h2, r, state)
              /\ UNCHANGED running

\* Escape, and a motion that leaves a target: the tree is laid out again.
drag_cancel ==
  /\ running /\ drag.active
  /\ drag' = NoDrag /\ grabbed' = FALSE
  /\ heap' = arrange_tree(heap, tree[curr], layout[curr], floating)
  /\ UNCHANGED <<mouse, unmoved, focus_vars, tree, mapped, running>>

drag_move ==
  /\ running /\ drag.active /\ mouse.op = "NONE"
  /\ heap' = arrange_tree(heap, tree[curr], layout[curr], floating)
  /\ UNCHANGED <<session, unmoved, focus_vars, tree, mapped, running>>

-----------------------------------------------------------------------------
(* The mouse sessions.                                                     *)

\* The node is no more what it was: freed, or a leaf where children are expected.
mouse_fails ==
  \/ mouse.node \in FreeNodes(heap)
  \/ mouse.op = "TILED" /\ heap[mouse.node].first = NULL

\* A motion, and an Escape, write to the node without a look at what it is by now.
write_session ==
  /\ running' = ~mouse_fails
  /\ heap' = IF mouse_fails \/ mouse.op = "TILED" THEN heap
             ELSE [heap EXCEPT ![mouse.node].frect = TRUE]
  /\ UNCHANGED <<drag, unmoved, focus_vars, tree, mapped>>

handle_mouse_motion ==
  /\ running /\ mouse.op # "NONE"
  /\ write_session
  /\ UNCHANGED <<mouse, grabbed>>

cancel_mouse_action ==
  /\ running /\ mouse.op # "NONE" /\ ~drag.active
  /\ write_session
  /\ mouse' = NoMouse /\ grabbed' = FALSE

finish_mouse_action ==
  /\ running /\ mouse.op # "NONE"
  /\ mouse' = NoMouse /\ grabbed' = FALSE
  /\ UNCHANGED <<vars, drag>>

-----------------------------------------------------------------------------
DragInit == Init /\ drag = NoDrag /\ mouse = NoMouse /\ grabbed = FALSE

DragNext ==
  \/ pointer_event /\ ~grabbed /\ UNCHANGED session
  \/ (key_event \/ client_event) /\ UNCHANGED session
  \/ \E w \in Windows : super_button_press(w)
  \/ start_keyboard_drag_wrapper
  \/ \E n \in Nodes \cup {NULL} : drag_end(n)
  \/ drag_cancel \/ drag_move
  \/ handle_mouse_motion \/ cancel_mouse_action \/ finish_mouse_action

DragSpec == DragInit /\ [][DragNext]_all_vars

-----------------------------------------------------------------------------
(* Properties.                                                             *)

DragTypeOK ==
  /\ TypeOK
  /\ drag \in [active : BOOLEAN, window : Windows \cup {NULL}, src_node : Nodes \cup {NULL}]
  /\ mouse \in [op : {"NONE", "FLOATING", "TILED"}, node : Nodes \cup {NULL}]
  /\ grabbed \in BOOLEAN

\* The dragged window is still the leaf the drag began with, on the desktop shown.
Held ==
  /\ drag.src_node \in Leaves(heap, tree[curr])
  /\ heap[drag.src_node].client = drag.window

\* Dropping a window that is still where the drag found it puts it right after the
\* window it is dropped on, keeps every other window in its place, loses none, and
\* keeps the tree well linked, however far the tree changed since the drag began.
DropMoves ==
  [][\A n \in Nodes :
       LET w      == drag.window
           before == LeafWindows(heap, tree[curr])
           after  == LeafWindows(heap, tree[curr])'
           shown  == WindowsOf(heap, tree[curr])
       IN  drag_end(n) /\ Held /\ n # drag.src_node =>
             /\ Linked => Linked'
             /\ shown' = shown
             /\ \A u, v \in shown \ {w} : Precedes(before, u, v) <=> Precedes(after, u, v)
             /\ \E i \in 1 .. Len(after) - 1 :
                  after[i] = heap[n].client /\ after[i + 1] = w]_all_vars
=============================================================================
