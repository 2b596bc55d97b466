------------------------------ MODULE Desktops ------------------------------
(***************************************************************************)
(* The desktops of one monitor and the handlers that move windows through  *)
(* their trees (src/src/zwm.c): map requests, withdrawals, rules, the key  *)
(* bindings and the EWMH requests of pagers.  zwm is one thread running    *)
(* one handler at a time, so a handler is one action; what interleaves is  *)
(* the order in which clients, the pointer, the keyboard and pagers make   *)
(* events.                                                                 *)
(***************************************************************************)
EXTENDS BSPTree

CONSTANTS
  VirtualDesktops,     \* conf.virtual_desktops
  Dialogs,             \* windows whose type, hints or rule make them float
  RuleDesktop,         \* the desktop of a window's rule, NULL without one
  FocusFollowPointer,  \* conf.focus_follow_pointer
  FocusFollowSpawn,    \* conf.focus_follow_spawn
  RestoreLastFocus,    \* conf.restore_last_focus
  Keys,                \* the functions keys are bound to
  LayoutKeys,          \* the layouts keys are bound to
  Messages             \* the client messages pagers and clients send

DesktopIds == 0 .. VirtualDesktops - 1
UINT16     == 65536

ASSUME DesktopsAssumption ==
  /\ VirtualDesktops \in 1 .. 10
  /\ NULL \notin DesktopIds
  /\ Dialogs \subseteq Windows
  /\ RuleDesktop \in [Windows -> DesktopIds \cup {NULL}]
  /\ {FocusFollowPointer, FocusFollowSpawn, RestoreLastFocus} \subseteq BOOLEAN
  /\ LayoutKeys \subseteq Layouts

VARIABLES
  heap,          \* the allocated node_t's
  tree,          \* desktops[d]->tree
  layout,        \* desktops[d]->layout
  n_count,       \* desktops[d]->n_count, a uint16_t
  last_focused,  \* desktops[d]->last_focused, a window
  curr,          \* curr_monitor->desk
  state,         \* client->state of the managed windows, TILED for the others
  focused_win,   \* the global focused_win
  mapped,        \* the managed windows the X server has mapped
  requested,     \* windows whose client asked to be shown and still wants to
  running        \* FALSE once zwm has dereferenced a null pointer

desktop_vars == <<heap, tree, n_count>>
focus_vars   == <<last_focused, focused_win>>
vars == <<heap, tree, layout, n_count, last_focused, curr, state, focused_win,
          mapped, requested, running>>

floating == {w \in Windows : state[w] = "FLOATING"}

Managed == UNION {WindowsOf(heap, tree[d]) : d \in DesktopIds}

client_exist_in_desktops(w) ==
  \E d \in DesktopIds : find_node_by_window_id(heap, tree[d], w) # NULL

\* The desktop find_window_in_desktops finds w in.
desktop_of(w) ==
  CHOOSE d \in DesktopIds : find_node_by_window_id(heap, tree[d], w) # NULL

rendered_inverted(h, r, st) == {w \in WindowsOf(h, r) : st[w] = "FULLSCREEN"}

\* render_tree maps every window of a tree that is not fullscreen.
rendered(h, r, st) == {w \in WindowsOf(h, r) : st[w] # "FULLSCREEN"}

minus1_forgets(c) == c
minus1_twice(c)   == c - 2

plus1(c)  == (c + 1) % UINT16
minus1(c) == (c + UINT16 - 1) % UINT16

shown_after_always(d, h, r, st) == rendered(h, r, st)

\* What a handler that changed desktop d renders of it: the tree that is shown.
shown_after(d, h, r, st) == IF d = curr THEN rendered(h, r, st) ELSE {}

remember_forgets(w) == last_focused

\* update_focus also records the window it keeps as the desktop's last focused.
remember(w) == [last_focused EXCEPT ![curr] = w]

\* Bound: a step that might need more nodes than Nodes has left is not explored
\* (malloc does not fail).  Mapping a window takes at most two, a transfer one.
RoomToMap     == \E a, b \in FreeNodes(heap) : a # b
RoomToMove(h) == FreeNodes(h) # {}

\* What the pointer can be over: a mapped window, or the root, which X reports as
\* None.  (The key bindings compare it with wm->root_window, which X never reports
\* as the child of the root: that guard never holds and is left out.)
under_cursor == mapped \cup {NULL}

Init ==
  /\ heap = [n \in Nodes |-> FreeNode]
  /\ tree = [d \in DesktopIds |-> NULL]
  /\ layout = [d \in DesktopIds |-> "DEFAULT"]
  /\ n_count = [d \in DesktopIds |-> 0]
  /\ last_focused = [d \in DesktopIds |-> NULL]
  /\ curr = 0
  /\ state = [w \in Windows |-> "TILED"]
  /\ focused_win = NULL
  /\ mapped = {}
  /\ requested = {}
  /\ running = TRUE

-----------------------------------------------------------------------------
(* Mapping a window.                                                       *)

\* A map request reaches zwm only for an unmapped window; one that is already in
\* a tree is ignored.
MapRequested(w) ==
  /\ running
  /\ w \notin mapped \cup Managed
  /\ RoomToMap
  /\ requested' = requested \cup {w}
  /\ UNCHANGED <<layout, curr, running>>

\* The end of handle_map_request, once w is in the tree r of the heap h.
map_out(w, h, r, st) ==
  LET spawn == FocusFollowSpawn /\ layout[curr] # "STACK"
      f     == find_node_by_window_id(h, r, w)
  IN  /\ heap' = IF spawn THEN update_focus(set_focused(h, f, TRUE), r, f) ELSE h
      /\ focused_win' = IF spawn THEN w ELSE focused_win
      /\ last_focused' = IF spawn THEN remember(w)
                         ELSE last_focused
      /\ tree' = [tree EXCEPT ![curr] = r]
      /\ n_count' = [n_count EXCEPT ![curr] = plus1(@)]
      /\ state' = st
      /\ mapped' = mapped \cup rendered(h, r, st)

initial_state(w) == IF w \in Dialogs THEN "FLOATING" ELSE "TILED"

\* The target is dropped out of fullscreen before it is split.
unfullscreened(st, w) ==
  [st EXCEPT ![w] = IF @ = "FULLSCREEN" THEN "TILED" ELSE @]

\* The first window of a desktop, tiled or floating, is its focused root.
handle_first_window(w) ==
  LET n == Malloc(FreeNodes(heap))
  IN  /\ tree[curr] = NULL
      /\ map_out(w, [heap EXCEPT ![n] = [create_node(w, "ROOT", NULL) EXCEPT
                                           !.is_focused = TRUE,
                                           !.frect = w \in Dialogs]],
                 n, [state EXCEPT ![w] = initial_state(w)])

\* A new window w, whose node is created and inserted at the leaf n of the tree r.
with_window(h, r, n, w, l, fl) ==
  LET new == Malloc(FreeNodes(h))
      h1  == [h EXCEPT ![new] = [create_node(w, "EXTERNAL", NULL) EXCEPT
                                   !.frect = w \in Dialogs]]
      h2  == insert_node(h1, n, Malloc(FreeNodes(h1)), new, fl)
  IN  IF l = "MASTER" THEN master_layout(h2, r, find_master_node(h2, r), fl)
      ELSE h2

handle_subsequent_window(w) ==
  LET r   == tree[curr]
      f   == get_focused_node(heap, r)
      n   == IF f # NULL /\ heap[f].client \in floating /\ heap[f].type # "ROOT"
             THEN find_any_leaf(heap, r, floating) ELSE f
      st  == [unfullscreened(state, heap[n].client) EXCEPT ![w] = "TILED"]
      h   == with_window(heap, r, n, w, layout[curr], {v \in Windows : st[v] = "FLOATING"})
      new == find_node_by_window_id(h, r, w)
  IN  /\ r # NULL
      /\ IF n = NULL
         THEN UNCHANGED <<heap, tree, n_count, focus_vars, state, mapped>>
         ELSE map_out(w, IF layout[curr] = "STACK" THEN set_focused(h, new, TRUE) ELSE h,
                      r, st)

handle_floating_window(w, p) ==
  LET r  == tree[curr]
      u  == find_node_by_window_id(heap, r, p)
      n  == IF u = NULL THEN find_any_leaf(heap, r, floating) ELSE u
      st == [state EXCEPT ![w] = "FLOATING"]
      fl == floating \cup {w}
  IN  /\ r # NULL
      /\ IF p = NULL \/ n = NULL
         THEN UNCHANGED <<heap, tree, n_count, focus_vars, state, mapped>>
         ELSE map_out(w, with_window(heap, r, n, w, layout[curr], fl), r, st)

\* A rule sends the window to a desktop that is not shown: it is inserted there,
\* unmapped.
insert_into_desktop(w, d) ==
  LET r   == tree[d]
      n   == IF r = NULL THEN NULL ELSE find_any_leaf(heap, r, floating)
      st0 == IF n = NULL \/ w \in Dialogs THEN state
             ELSE unfullscreened(state, heap[n].client)
      st  == [st0 EXCEPT ![w] = initial_state(w)]
      fl  == {v \in Windows : st[v] = "FLOATING"}
      top == Malloc(FreeNodes(heap))
      h   == IF r = NULL
             THEN [heap EXCEPT ![top] = [create_node(w, "ROOT", NULL) EXCEPT
                                           !.frect = w \in Dialogs]]
             ELSE with_window(heap, r, n, w, layout[d], fl)
      new == find_node_by_window_id(h, r, w)
  IN  IF r # NULL /\ n = NULL
      THEN UNCHANGED <<heap, tree, n_count, focus_vars, state, mapped>>
      ELSE /\ heap' = IF r # NULL /\ layout[d] = "STACK" /\ w \notin Dialogs
                      THEN set_focused(h, new, TRUE) ELSE h
           /\ tree' = [tree EXCEPT ![d] = IF r = NULL THEN top ELSE r]
           /\ n_count' = [n_count EXCEPT ![d] = plus1(@)]
           /\ state' = st
           /\ UNCHANGED <<focus_vars, mapped>>

handle_map_request(w, p) ==
  /\ MapRequested(w)
  /\ IF RuleDesktop[w] \notin {NULL, curr} THEN insert_into_desktop(w, RuleDesktop[w])
     ELSE \/ handle_first_window(w)
          \/ w \notin Dialogs /\ handle_subsequent_window(w)
          \/ w \in Dialogs /\ handle_floating_window(w, p)

-----------------------------------------------------------------------------
(* A client withdraws or destroys its window: UnmapNotify, DestroyNotify.  *)

kill_window(w) ==
  LET d  == desktop_of(w)
      n  == find_node_by_window_id(heap, tree[d], w)
      r  == root_without(heap, tree[d], n)
      h  == arrange_tree(free_node(unlink_node(heap, n), n), r, layout[d],
                         floating \ {w})
      st == [state EXCEPT ![w] = "TILED"]
  IN  /\ heap' = h
      /\ tree' = [tree EXCEPT ![d] = r]
      /\ n_count' = [n_count EXCEPT ![d] = minus1(@)]
      /\ state' = st
      /\ focused_win' = IF r = NULL THEN NULL ELSE focused_win
      /\ last_focused' = IF r = NULL THEN [last_focused EXCEPT ![d] = NULL]
                         ELSE last_focused
      /\ mapped' = (mapped \ {w}) \cup shown_after(d, h, r, st)

handle_unmap_notify(w) ==
  /\ running
  /\ w \in requested
  /\ requested' = requested \ {w}
  /\ UNCHANGED <<layout, curr, running>>
  /\ IF client_exist_in_desktops(w) THEN kill_window(w)
     ELSE UNCHANGED <<heap, tree, n_count, focus_vars, state, mapped>>

-----------------------------------------------------------------------------
(* Focus: the pointer, clicks and the focus keys.                          *)

give_focus(w) ==
  LET n == find_node_by_window_id(heap, tree[curr], w)
  IN  /\ n # NULL
      /\ heap' = update_focus(IF state[w] = "FULLSCREEN" THEN heap
                              ELSE set_focused(heap, n, TRUE), tree[curr], n)
      /\ focused_win' = w
      /\ last_focused' = remember(w)
      /\ UNCHANGED <<tree, layout, n_count, curr, state, mapped, requested, running>>

handle_enter_notify(w) ==
  /\ running /\ FocusFollowPointer
  /\ w \in mapped /\ w # focused_win
  /\ give_focus(w)

handle_button_press(w) ==
  /\ running /\ ~FocusFollowPointer
  /\ w \in mapped
  /\ give_focus(w)

\* The neighbour depends on the rectangles: any other window of the tree that is
\* no lone root may be it.  Without a focused window and with the pointer over
\* none of the tree, find_tree_root dereferences its null argument.
cycle_win_wrapper(p) ==
  LET r == tree[curr]
      f == get_focused_node(heap, r)
      n == IF f # NULL THEN f ELSE find_node_by_window_id(heap, r, p)
  IN  /\ running /\ "cycle_window" \in Keys
      /\ UNCHANGED <<tree, layout, n_count, curr, state, focused_win, mapped, requested>>
      /\ \/ /\ n = NULL
            /\ running' = FALSE
            /\ UNCHANGED <<heap, last_focused>>
         \/ \E next \in Leaves(heap, r) \ {n} :
              /\ n # NULL
              /\ heap' = update_focus(set_focused(heap, next, TRUE), r, next)
              /\ last_focused' = remember(heap[next].client)
              /\ UNCHANGED running

traverse_stack_wrapper(step) ==
  LET r == tree[curr]
      f == get_focused_node(heap, r)
      n == IF f = NULL THEN NULL ELSE Neighbour(heap, r, f, step)
  IN  /\ running /\ "traverse" \in Keys
      /\ n # NULL
      /\ heap' = set_focused(heap, n, TRUE)
      /\ UNCHANGED <<tree, layout, n_count, focus_vars, curr, state, mapped,
                     requested, running>>

-----------------------------------------------------------------------------
(* Layout, state and order of the windows of the current desktop.          *)

\* The window under the pointer, in the node n, becomes the master or the focused
\* top of the stack.
apply_layout(h, r, t, n) ==
  CASE t = "MASTER" /\ n # NULL -> master_layout(h, r, n, floating)
    [] t = "STACK" /\ n # NULL  -> set_focused(h, n, TRUE)
    [] OTHER                    -> h

layout_handler(t, p) ==
  LET r == tree[curr]
      n == find_node_by_window_id(heap, r, p)
  IN  /\ running /\ t \in LayoutKeys
      /\ ~(t = "STACK" /\ n_count[curr] < 2)
      /\ layout' = [layout EXCEPT ![curr] = t]
      /\ heap' = apply_layout(master_clean_up(heap, r), r, t, n)
      /\ mapped' = mapped \cup rendered(heap, r, state)
      /\ UNCHANGED <<tree, n_count, focus_vars, curr, state, requested, running>>

\* Making a window float gives its node a floating rectangle.
change_state(s, p) ==
  LET r  == tree[curr]
      n  == find_node_by_window_id(heap, r, p)
      st == [state EXCEPT ![p] = s]
  IN  /\ running /\ "change_state" \in Keys
      /\ n # NULL /\ heap[n].type # "ROOT"
      /\ state[p] # s
      /\ state' = st
      /\ heap' = IF s = "FLOATING" THEN [heap EXCEPT ![n].frect = TRUE] ELSE heap
      /\ mapped' = mapped \cup rendered(heap, r, st)
      /\ UNCHANGED <<tree, layout, n_count, focus_vars, curr, requested, running>>

\* set_fullscreen: leaving fullscreen always leaves the window tiled.
set_fullscreen(w, flag) ==
  /\ state' = [state EXCEPT ![w] = IF flag THEN "FULLSCREEN" ELSE "TILED"]
  /\ UNCHANGED <<heap, tree, layout, n_count, focus_vars, curr, mapped, requested,
                 running>>

set_fullscreen_wrapper(p) ==
  /\ running /\ "fullscreen" \in Keys
  /\ p \in WindowsOf(heap, tree[curr])
  /\ set_fullscreen(p, state[p] # "FULLSCREEN")

handle_net_wm_state(w, flag) ==
  /\ running /\ "_NET_WM_STATE" \in Messages
  /\ client_exist_in_desktops(w)
  /\ set_fullscreen(w, flag)

swap_node_wrapper ==
  LET n == get_focused_node(heap, tree[curr])
  IN  /\ running /\ "swap" \in Keys
      /\ n # NULL /\ heap[n].parent # NULL
      /\ heap' = swap_node(heap, n)
      /\ mapped' = mapped \cup rendered(heap, tree[curr], state)
      /\ UNCHANGED <<tree, layout, n_count, focus_vars, curr, state, requested, running>>

-----------------------------------------------------------------------------
(* Between desktops.                                                       *)

\* The old desktop's windows are hidden and lose their focus flag, the new one's
\* are shown and, with restore_last_focus, the window last focused there is again.
switch_desktop(d) ==
  LET old     == tree[curr]
      new     == tree[d]
      h       == update_focus(heap, old, NULL)
      n       == find_node_by_window_id(h, new, last_focused[d])
      restore == RestoreLastFocus /\ layout[d] # "STACK" /\ last_focused[d] # NULL
                 /\ n # NULL
  IN  /\ running
      /\ d # curr
      /\ curr' = d
      /\ mapped' = (mapped \ WindowsOf(heap, old)) \cup WindowsOf(heap, new)
      /\ heap' = IF restore THEN update_focus(set_focused(h, n, TRUE), new, n) ELSE h
      /\ focused_win' = IF restore THEN last_focused[d] ELSE NULL
      /\ UNCHANGED <<tree, layout, n_count, last_focused, state, requested, running>>

\* The node n of desktop d moves to the tree of desktop td (unlink_node, then
\* transfer_node, then arrange_tree on both).  When transfer_node fails the node
\* is in no tree any more, nobody frees it, and nothing else has been updated.
move_node(n, d, td) ==
  LET h1   == unlink_node(heap, n)
      t1   == [tree EXCEPT ![d] = root_without(heap, tree[d], n)]
      leaf == IF t1[td] = NULL THEN NULL ELSE transfer_target(h1, t1[td], floating)
      h2   == IF t1[td] = NULL THEN [h1 EXCEPT ![n].type = "ROOT"]
              ELSE transfer_node(h1, leaf, Malloc(FreeNodes(h1)), n)
      t2   == [t1 EXCEPT ![td] = IF @ = NULL THEN n ELSE @]
      h3   == arrange_tree(h2, t2[td], layout[td], floating)
      h4   == IF layout[td] = "STACK" THEN set_focused(h3, n, TRUE) ELSE h3
      h5   == arrange_tree(h4, t2[d], layout[d], floating)
      w    == heap[n].client
      lost == t1[td] # NULL /\ leaf = NULL
      less == [n_count EXCEPT ![d] = minus1(@)]
  IN  /\ leaf = NULL \/ RoomToMove(h1)
      /\ heap' = IF lost THEN leak_node(h1, n) ELSE h5
      /\ tree' = IF lost THEN t1 ELSE t2
      /\ n_count' = IF lost THEN n_count ELSE [less EXCEPT ![td] = plus1(@)]
      /\ state' = IF lost THEN [state EXCEPT ![w] = "TILED"] ELSE state
      /\ mapped' = (mapped \ {w}) \cup
                     IF lost THEN {} ELSE shown_after(d, h5, t2[d], state)
      /\ UNCHANGED <<layout, focus_vars, curr, requested, running>>

transfer_node_wrapper(d) ==
  LET n == get_focused_node(heap, tree[curr])
  IN  /\ running /\ "transfer_node" \in Keys
      /\ d # curr
      /\ n # NULL
      /\ move_node(n, curr, d)

handle_net_wm_desktop(w, d) ==
  /\ running /\ "_NET_WM_DESKTOP" \in Messages
  /\ client_exist_in_desktops(w)
  /\ move_node(find_node_by_window_id(heap, tree[desktop_of(w)], w), desktop_of(w), d)

-----------------------------------------------------------------------------
pointer_event == \E w \in Windows : handle_enter_notify(w) \/ handle_button_press(w)

key_event ==
  \/ \E p \in under_cursor : cycle_win_wrapper(p)
  \/ \E step \in {"UP", "DOWN"} : traverse_stack_wrapper(step)
  \/ \E t \in Layouts, p \in under_cursor : layout_handler(t, p)
  \/ \E s \in {"TILED", "FLOATING"}, p \in mapped : change_state(s, p)
  \/ \E p \in mapped : set_fullscreen_wrapper(p)
  \/ swap_node_wrapper
  \/ \E d \in DesktopIds : switch_desktop(d)
  \/ \E d \in DesktopIds : transfer_node_wrapper(d)

\* Requests of clients and pagers.
client_event ==
  \/ \E w \in Windows, p \in under_cursor : handle_map_request(w, p)
  \/ \E w \in Windows : handle_unmap_notify(w)
  \/ \E w \in Windows, flag \in BOOLEAN : handle_net_wm_state(w, flag)
  \/ \E w \in Windows, d \in DesktopIds : handle_net_wm_desktop(w, d)

Next == pointer_event \/ key_event \/ client_event

Spec == Init /\ [][Next]_vars

-----------------------------------------------------------------------------
(* Properties.                                                             *)

TypeOK ==
  /\ heap \in Heaps
  /\ tree \in [DesktopIds -> Nodes \cup {NULL}]
  /\ layout \in [DesktopIds -> Layouts]
  /\ n_count \in [DesktopIds -> 0 .. UINT16 - 1]
  /\ last_focused \in [DesktopIds -> Windows \cup {NULL}]
  /\ curr \in DesktopIds
  /\ state \in [Windows -> WinStates]
  /\ focused_win \in Windows \cup {NULL}
  /\ mapped \subseteq Windows
  /\ requested \subseteq Windows
  /\ running \in BOOLEAN

\* The heap stays well linked, without a cycle, whatever is inserted, closed, swapped
\* or moved, and every desktop's tree is NULL or an allocated root that no other desktop has
\* (tree.c's surgery: insert_node, unlink_node, transfer_node, swap_node).
Linked ==
  /\ WellLinked(heap) /\ Acyclic(heap)
  /\ \A d \in DesktopIds : tree[d] # NULL =>
       /\ heap[tree[d]].type = "ROOT"
       /\ \A e \in DesktopIds : tree[e] = tree[d] => e = d

\* The nodes of the heap, those that are leaked included.
Allocated == {n \in Nodes : heap[n].type # "NONE" \/ heap[n].leaked # NULL}

\* Every allocated node is in the tree of exactly one desktop and every window in
\* at most one node: surgery leaks no node, shares none between desktops and makes
\* no cycle, and client_exist_in_desktops keeps a window from being added twice.
OneTree ==
  /\ \A n \in Allocated : Cardinality({d \in DesktopIds : n \in Subtree(heap, tree[d])}) = 1
  /\ \A n, m \in Nodes : heap[n].client # NULL /\ heap[n].client = heap[m].client => n = m

\* n_count is the number of windows of the desktop: what type.h:308 calls it.
CountExact ==
  \A d \in DesktopIds : n_count[d] = Cardinality(Leaves(heap, tree[d]))

\* No window of a desktop that is not shown is mapped: rules, transfers, pagers and
\* the rendering of other trees never bring one up (type.h:311).
HiddenUnmapped == mapped \subseteq WindowsOf(heap, tree[curr])

\* Every window of the current desktop is mapped.
CurrentShown == WindowsOf(heap, tree[curr]) \subseteq mapped

\* A managed window stays managed until its client withdraws it: no transfer, rule
\* or layout change loses one.
Conserved ==
  [][\A w \in Managed : w \in requested' => w \in Managed']_vars

\* Only swap changes the left-to-right order of windows that stay on a desktop:
\* closing, mapping and moving a window leave the others in order.
OrderStable ==
  [][\A d \in DesktopIds :
       LET before  == LeafWindows(heap, tree[d])
           after   == LeafWindows(heap, tree[d])'
           both    == WindowsOf(heap, tree[d]) \cap WindowsOf(heap, tree[d])'
           Same(S) == \A v, w \in S : Precedes(before, v, w) <=> Precedes(after, v, w)
       IN  \/ Same(both)
           \/ swap_node_wrapper
           \/ \E w \in both : handle_net_wm_desktop(w, d) /\ Same(both \ {w})]_vars

\* A tree has at most one master, and it is a window: master_layout gives the large
\* rectangle to one node and apply_master_layout the rest to the others.
OneMaster ==
  \A d \in DesktopIds :
    LET masters == {n \in Subtree(heap, tree[d]) : heap[n].is_master}
    IN  /\ Cardinality(masters) <= 1
        /\ masters \subseteq Leaves(heap, tree[d])

\* At most one window of a desktop carries the focus flag, so that the key bindings,
\* which act on get_focused_node, act on the window that has the focus.
OneFocused ==
  \A d \in DesktopIds :
    Cardinality({n \in Leaves(heap, tree[d]) : heap[n].is_focused}) <= 1

\* When a desktop is left, the window that has the focus flag is the one
\* restore_last_focus will give it back to (README.md:187).
Remembered ==
  [][LET f == get_focused_node(heap, tree[curr])
     IN  curr' # curr /\ f # NULL => last_focused[curr] = heap[f].client]_vars

\* The global focused_win, which suppresses enter events, names the window of the
\* current desktop that carries the focus flag, when it names one of its windows.
FocusAgrees ==
  \A w \in WindowsOf(heap, tree[curr]) : w = focused_win =>
    heap[find_node_by_window_id(heap, tree[curr], w)].is_focused

-----------------------------------------------------------------------------
(* The desktops as the user sees them.                                     *)

placed ==
  LET at == [d \in DesktopIds |-> WindowsOf(heap, tree[d])]
  IN  [w \in Windows |-> IF \E d \in DesktopIds : w \in at[d]
                         THEN CHOOSE d \in DesktopIds : w \in at[d] ELSE NULL]

Placed == INSTANCE Placement WITH place <- placed, current <- curr, shown <- mapped

\* The handlers implement Placement: each opens, closes or moves one window, or
\* switches the desktop, or rearranges what is there (zwm.c:5987, 4664, 884, 5190).
ImplementsPlacement == Placed!Spec
=============================================================================
