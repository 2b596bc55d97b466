------------------------------ MODULE Stacking ------------------------------
(***************************************************************************)
(* The stacking order: the layer, transient depth and recency that order   *)
(* the windows (stack_key, src/src/zwm.c:5588), restack (src/src/tree.c),  *)
(* which enforces and publishes the order, and the handlers that change    *)
(* what the order depends on or raise a window behind its back.  Left out  *)
(* are the drags of the mouse (src/src/drag.c:108, zwm.c:4184 and 4217),   *)
(* which raise the window they take hold of, also over layers above its    *)
(* own, until something else restacks.                                     *)
(*                                                                         *)
(* Abstractions: one monitor; a tree is the set of windows of its desktop, *)
(* so the focused leaf, the neighbour of a leaf and the leaf a window is   *)
(* inserted at are any of them (BSPTree and Desktops have the trees).      *)
(***************************************************************************)
EXTENDS Naturals, FiniteSets, SequencesExt

CONSTANTS
  WindowOrder,         \* the windows, in the order of their X ids
  NULL,                \* XCB_NONE, no client
  VirtualDesktops,     \* conf.virtual_desktops
  TransientFor,        \* WM_TRANSIENT_FOR of each window, NULL without one
  Dialogs,             \* windows whose type, hints or rule make them float
  Toolbars,            \* windows whose type puts them in the layer above
  AskedState,          \* _NET_WM_STATE as each client sets it before it maps
  RuleDesktop,         \* the desktop of a window's rule, NULL without one
  Configurations,      \* what conf may be
  Keys,                \* the functions keys are bound to
  LayoutKeys,          \* the layouts keys are bound to
  Messages,            \* the client messages pagers and clients send
  StateAtoms           \* the atoms that _NET_WM_STATE messages name

Windows    == {WindowOrder[i] : i \in DOMAIN WindowOrder}
DesktopIds == 0 .. VirtualDesktops - 1
Atoms      == {"ABOVE", "BELOW", "FULLSCREEN", "MODAL", "HIDDEN"}
WinStates  == {"TILED", "FLOATING", "FULLSCREEN"}
Layouts    == {"DEFAULT", "MASTER", "STACK"}

Clients ==
  [desk : DesktopIds, state : WinStates, transient_for : Windows \cup {NULL},
   ewmh_state : SUBSET Atoms, mru_seq : Nat, override_redirect : BOOLEAN]

\* Where the X server's ids put a window.
xid(w) == CHOOSE i \in DOMAIN WindowOrder : WindowOrder[i] = w

\* No window is its own transient ancestor: transient_depth would never return.
ASSUME StackingAssumption ==
  /\ WindowOrder \in Seq(Windows) /\ IsInjective(WindowOrder)
  /\ NULL \notin Windows \cup DesktopIds \cup Clients
  /\ VirtualDesktops \in 1 .. 10
  /\ TransientFor \in [Windows -> Windows \cup {NULL}]
  /\ \A S \in SUBSET Windows : S # {} => \E w \in S : TransientFor[w] \notin S
  /\ Dialogs \cup Toolbars \subseteq Windows
  /\ AskedState \in [Windows -> SUBSET Atoms]
  /\ RuleDesktop \in [Windows -> DesktopIds \cup {NULL}]
  /\ Configurations \subseteq [focus_follow_pointer : BOOLEAN,
                                focus_follow_spawn : BOOLEAN,
                                restore_last_focus : BOOLEAN]
  /\ LayoutKeys \subseteq Layouts
  /\ StateAtoms \subseteq Atoms

VARIABLES
  conf,          \* read from the configuration file at the start
  client,        \* the client_t of each managed window, NULL for the others
  layout,        \* desktops[d]->layout
  curr,          \* curr_monitor->desk
  focused_win,   \* the global focused_win
  mru_counter,   \* curr_monitor->mru_counter
  mapped,        \* the managed windows the X server has mapped
  net_wm_state,  \* the _NET_WM_STATE property of each window
  stacking,      \* the X server's order of the windows: pairs, the second over the first
  published,     \* _NET_CLIENT_LIST_STACKING
  loose          \* history: windows that since the last restack were focused
                 \* without one or brought up by a pager's change of desktop

vars == <<conf, client, layout, curr, focused_win, mru_counter, mapped, net_wm_state,
          stacking, published, loose>>

Managed == {w \in Windows : client[w] # NULL}

on(c, d) == {w \in Windows : c[w] # NULL /\ c[w].desk = d}

-----------------------------------------------------------------------------
(* The order.                                                              *)

layer == [DESKTOP |-> 0, BELOW |-> 1, NORMAL |-> 2, ABOVE |-> 3, FULLSCREEN |-> 4]

compute_layer(c, w) ==
  LET s == c[w].ewmh_state
  IN  IF "FULLSCREEN" \in s \/ c[w].state = "FULLSCREEN" THEN layer.FULLSCREEN
      ELSE IF w \in Toolbars \/ {"MODAL", "ABOVE"} \cap s # {} THEN layer.ABOVE
      ELSE IF "BELOW" \in s THEN layer.BELOW
      ELSE IF c[w].state = "FLOATING" THEN layer.ABOVE
      ELSE layer.NORMAL

\* The window w is transient for, when it is managed.
parent_of(c, w) ==
  LET p == c[w].transient_for IN IF p # NULL /\ c[p] # NULL THEN p ELSE NULL

transient_depth(c) ==
  LET depth[w \in {v \in Windows : c[v] # NULL}] ==
        IF parent_of(c, w) = NULL THEN 0 ELSE 1 + depth[parent_of(c, w)]
  IN  depth

larger(a, b) == IF a >= b THEN a ELSE b

own_layer(c, w) == compute_layer(c, w)

\* A transient is at least at its parent's layer.
stack_layer(c, w) ==
  LET p == parent_of(c, w)
  IN  IF p = NULL THEN compute_layer(c, w)
      ELSE larger(compute_layer(c, w), compute_layer(c, p))

\* The bit fields of stack_key from the most significant to the least, and the
\* window id that breaks ties.
stack_key(c, w) ==
  <<IF "HIDDEN" \in c[w].ewmh_state THEN 0 ELSE 1, stack_layer(c, w),
    transient_depth(c)[w], c[w].mru_seq, xid(w)>>

\* cmp_stack_item.
key_less(a, b) ==
  \E i \in DOMAIN a : a[i] < b[i] /\ \A j \in 1 .. i - 1 : a[j] = b[j]

\* The clients restack orders.
collect_clients(c) == {w \in Windows : c[w] # NULL /\ ~c[w].override_redirect}

sorted_visible(c) ==
  LET S    == {w \in collect_clients(c) : "HIDDEN" \notin c[w].ewmh_state}
      key  == [w \in S |-> stack_key(c, w)]
      rank == [w \in S |-> Cardinality({v \in S : key_less(key[v], key[w])})]
  IN  [i \in 1 .. Cardinality(S) |-> CHOOSE w \in S : rank[w] = i - 1]

sorted(c) ==
  LET S    == collect_clients(c)
      key  == [w \in S |-> stack_key(c, w)]
      rank == [w \in S |-> Cardinality({v \in S : key_less(key[v], key[w])})]
  IN  [i \in 1 .. Cardinality(S) |-> CHOOSE w \in S : rank[w] = i - 1]

\* The pairs of a sequence of windows, the second after the first.
in_order(order) ==
  {e \in Windows \X Windows :
     \E i, j \in DOMAIN order : i < j /\ e = <<order[i], order[j]>>}

raise_window(s, w) == {e \in Windows \X Windows : e[1] # w /\ (e[2] = w \/ e \in s)}

one_pass(c, order, s) ==
  LET ordered == in_order(order)
      S       == ToSet(order)
  IN  {e \in Windows \X Windows :
         \/ e \in ordered
         \/ e[1] \in S /\ e[2] \notin S
         \/ e[1] \notin S /\ e[2] \notin S /\ e \in s}

\* The least goes to the bottom of all windows, each of the others directly above
\* the one before it, and the fullscreen ones are then raised over everything.
restacked(c, order, s) ==
  LET ordered    == in_order(order)
      fullscreen == {w \in ToSet(order) : c[w].state = "FULLSCREEN"}
      usual      == ToSet(order) \ fullscreen
      others     == Windows \ ToSet(order)
  IN  {e \in Windows \X Windows :
         \/ e \in ordered /\ (e[1] \in fullscreen <=> e[2] \in fullscreen)
         \/ e[1] \in usual /\ e[2] \notin usual
         \/ e[1] \in others /\ e[2] \in fullscreen
         \/ e[1] \in others /\ e[2] \in others /\ e \in s}

published_only(c) ==
  /\ published' = sorted(c)
  /\ loose' = {}
  /\ UNCHANGED stacking

\* restack as the last word of a handler that leaves the clients c.
restack(c) ==
  LET order == sorted(c)
  IN  /\ stacking' = restacked(c, order, stacking)
      /\ published' = order
      /\ loose' = {}

-----------------------------------------------------------------------------
(* What the handlers are made of.                                          *)

has_floating_window(c, d) == \E w \in on(c, d) : c[w].state = "FLOATING"

tiled_on(c, d) == {w \in on(c, d) : c[w].state # "FLOATING"}

\* render_tree maps the windows of a tree that are not fullscreen.
rendered(c, d) == {w \in on(c, d) : c[w].state # "FULLSCREEN"}

\* update_client_ewmh_state on all the windows S.
flagged(c, S, atom) ==
  [w \in Windows |-> IF w \in S THEN [c[w] EXCEPT !.ewmh_state = @ \cup {atom}] ELSE c[w]]

unflagged(c, S, atom) ==
  [w \in Windows |-> IF w \in S THEN [c[w] EXCEPT !.ewmh_state = @ \ {atom}] ELSE c[w]]

\* update_net_wm_state_atom on all the windows S.
atom_set(S, atom, set) ==
  [w \in Windows |-> IF w \notin S THEN net_wm_state[w]
                     ELSE IF set THEN net_wm_state[w] \cup {atom}
                     ELSE net_wm_state[w] \ {atom}]

used(c, w) == [c EXCEPT ![w].mru_seq = mru_counter + 1]

\* set_fullscreen on a client, and on its property, which it overwrites.
set_fullscreen(c, w, flag) ==
  [c EXCEPT ![w].state = IF flag THEN "FULLSCREEN" ELSE "TILED",
            ![w].ewmh_state = IF flag THEN @ \cup {"FULLSCREEN"} ELSE @ \ {"FULLSCREEN"}]

fullscreen_atoms(atoms, flag) ==
  IF flag THEN {"FULLSCREEN"} ELSE atoms \ {"FULLSCREEN"}

\* The window that makes room is dropped out of fullscreen first.
unfullscreened(c, n) ==
  IF n # NULL /\ c[n].state = "FULLSCREEN" THEN set_fullscreen(c, n, FALSE) ELSE c

room_atoms(n) ==
  IF n # NULL /\ client[n].state = "FULLSCREEN"
  THEN [net_wm_state EXCEPT ![n] = @ \ {"FULLSCREEN"}] ELSE net_wm_state

-----------------------------------------------------------------------------
Init ==
  /\ conf \in Configurations
  /\ client = [w \in Windows |-> NULL]
  /\ layout = [d \in DesktopIds |-> "DEFAULT"]
  /\ curr = 0
  /\ focused_win = NULL
  /\ mru_counter = 1
  /\ mapped = {}
  /\ net_wm_state = AskedState
  /\ stacking = in_order(WindowOrder)
  /\ published = <<>>
  /\ loose = {}

(* Mapping and withdrawing.                                                *)

\* The client that fill_icccm_ewmh and a map handler make of a window: its state
\* flags are what the property says, which outlives the last time it was managed.
new_client(w, st) ==
  [desk |-> curr, state |-> st, transient_for |-> TransientFor[w],
   ewmh_state |-> net_wm_state[w], mru_seq |-> mru_counter + 1,
   override_redirect |-> FALSE]

\* The end of handle_map_request: focus_follow_spawn raises the window once more.
map_out(w, c) ==
  LET spawn == conf.focus_follow_spawn /\ layout[curr] # "STACK"
      order == sorted(c)
      s     == restacked(c, order, stacking)
  IN  /\ client' = c
      /\ mru_counter' = mru_counter + 1
      /\ mapped' = mapped \cup rendered(c, curr)
      /\ published' = order
      /\ stacking' = IF spawn THEN raise_window(s, w) ELSE s
      /\ loose' = IF spawn THEN {w} ELSE {}
      /\ focused_win' = IF spawn THEN w ELSE focused_win

\* On a desktop with windows a tiled one is inserted at a leaf that is tiled or
\* alone; without such a leaf the request is ignored.
handle_tiled_window_request(w) ==
  \E n \in IF on(client, curr) = {} THEN {NULL}
           ELSE IF Cardinality(on(client, curr)) = 1 THEN on(client, curr)
           ELSE tiled_on(client, curr) :
    /\ map_out(w, [unfullscreened(client, n) EXCEPT ![w] = new_client(w, "TILED")])
    /\ net_wm_state' = room_atoms(n)

\* With no window under the pointer the request is ignored.
handle_floating_window_request(w) ==
  /\ on(client, curr) = {} \/ mapped # {}
  /\ map_out(w, [client EXCEPT ![w] = new_client(w, "FLOATING")])
  /\ UNCHANGED net_wm_state

\* A rule puts the window on a desktop that is not shown.  fill_icccm_ewmh is not
\* called: the fields it sets are what malloc left there, of which transient_for
\* is taken to be no window's id.
insert_into_desktop(w, d) ==
  \E n \in IF on(client, d) = {} THEN {NULL} ELSE tiled_on(client, d),
     garbage \in SUBSET StateAtoms, override \in BOOLEAN :
    LET st == IF w \in Dialogs THEN "FLOATING" ELSE "TILED"
        t  == IF w \in Dialogs THEN NULL ELSE n
        c  == [unfullscreened(client, t) EXCEPT ![w] =
                 [desk |-> d, state |-> st, transient_for |-> NULL,
                  ewmh_state |-> garbage \cup {"HIDDEN"}, mru_seq |-> 0,
                  override_redirect |-> override]]
    IN  /\ client' = c
        /\ net_wm_state' = [room_atoms(t) EXCEPT ![w] = @ \cup {"HIDDEN"}]
        /\ restack(c)
        /\ UNCHANGED <<focused_win, mru_counter, mapped>>

handle_map_request(w) ==
  /\ client[w] = NULL
  /\ UNCHANGED <<conf, layout, curr>>
  /\ IF RuleDesktop[w] \notin {NULL, curr} THEN insert_into_desktop(w, RuleDesktop[w])
     ELSE IF w \in Dialogs THEN handle_floating_window_request(w)
     ELSE handle_tiled_window_request(w)

left_mapped(w) ==
  LET c == [client EXCEPT ![w] = NULL]
  IN  /\ client[w] # NULL
      /\ client' = c
      /\ focused_win' = IF on(c, client[w].desk) = {} THEN NULL ELSE focused_win
      /\ restack(c)
      /\ UNCHANGED <<conf, layout, curr, mru_counter, net_wm_state, mapped>>

\* kill_window: the property of the window stays as it is.
handle_unmap_notify(w) ==
  LET d == client[w].desk
      c == [client EXCEPT ![w] = NULL]
  IN  /\ client[w] # NULL
      /\ client' = c
      /\ mapped' = (mapped \ {w}) \cup (IF d = curr THEN rendered(c, d) ELSE {})
      /\ focused_win' = IF on(c, d) = {} THEN NULL ELSE focused_win
      /\ restack(c)
      /\ UNCHANGED <<conf, layout, curr, mru_counter, net_wm_state>>

-----------------------------------------------------------------------------
(* Focus: the pointer, clicks and the focus keys.                          *)

\* With focus_follow_pointer the window the pointer enters is the most recently
\* used; without, entering only restores the order over a floating window, and
\* raises a fullscreen one.
handle_enter_notify(w) ==
  LET c   == used(client, w)
      dlg == has_floating_window(client, curr)
      s   == IF dlg THEN restacked(client, sorted(client), stacking) ELSE stacking
      fs  == client[w].state = "FULLSCREEN"
  IN  /\ w \in mapped \cap on(client, curr)
      /\ UNCHANGED <<conf, layout, curr, mapped, net_wm_state>>
      /\ \/ /\ conf.focus_follow_pointer /\ w # focused_win
            /\ client' = c
            /\ mru_counter' = mru_counter + 1
            /\ focused_win' = w
            /\ restack(c)
         \/ /\ ~conf.focus_follow_pointer
            /\ stacking' = IF fs THEN raise_window(s, w) ELSE s
            /\ published' = IF dlg THEN sorted(client) ELSE published
            /\ loose' = (IF dlg THEN {} ELSE loose) \cup (IF fs THEN {w} ELSE {})
            /\ UNCHANGED <<client, mru_counter, focused_win>>

\* A click raises a window that is not floating, and the order is restored only
\* over a floating one; mru_seq stays as it is.
handle_button_press(w) ==
  LET still == client[w].state = "FLOATING"
               \/ (client[w].state = "TILED" /\ layout[curr] = "STACK")
      s     == IF still THEN stacking ELSE raise_window(stacking, w)
      dlg   == has_floating_window(client, curr)
  IN  /\ ~conf.focus_follow_pointer
      /\ w \in mapped \cap on(client, curr)
      /\ focused_win' = w
      /\ stacking' = IF dlg THEN restacked(client, sorted(client), s) ELSE s
      /\ published' = IF dlg THEN sorted(client) ELSE published
      /\ loose' = IF dlg THEN {} ELSE IF still THEN loose ELSE loose \cup {w}
      /\ UNCHANGED <<conf, client, layout, curr, mru_counter, mapped, net_wm_state>>

\* The neighbour of the focused window becomes the most recently used; cycle_win
\* leaves it raised (its restack is commented out).
cycle_win_wrapper(next) ==
  /\ "cycle_window" \in Keys
  /\ next \in on(client, curr) /\ on(client, curr) # {next}
  /\ client' = used(client, next)
  /\ mru_counter' = mru_counter + 1
  /\ stacking' = IF next \in mapped THEN raise_window(stacking, next) ELSE stacking
  /\ loose' = loose \cup {next}
  /\ UNCHANGED <<conf, layout, curr, focused_win, mapped, net_wm_state, published>>

traverse_stack_wrapper(n) ==
  /\ "traverse" \in Keys
  /\ n \in on(client, curr) /\ on(client, curr) # {n}
  /\ client' = used(client, n)
  /\ mru_counter' = mru_counter + 1
  /\ restack(used(client, n))
  /\ UNCHANGED <<conf, layout, curr, focused_win, mapped, net_wm_state>>

-----------------------------------------------------------------------------
(* Layout and state.                                                       *)

layout_handler(t) ==
  /\ t \in LayoutKeys
  /\ ~(t = "STACK" /\ Cardinality(on(client, curr)) < 2)
  /\ layout' = [layout EXCEPT ![curr] = t]
  /\ mapped' = mapped \cup rendered(client, curr)
  /\ restack(client)
  /\ UNCHANGED <<conf, client, curr, focused_win, mru_counter, net_wm_state>>

\* ewmh_state and the property keep what they say of a window that was fullscreen.
change_state(s, w) ==
  LET c == [client EXCEPT ![w].state = s]
  IN  /\ "change_state" \in Keys
      /\ w \in mapped \cap on(client, curr) /\ on(client, curr) # {w}
      /\ client[w].state # s
      /\ client' = c
      /\ mapped' = mapped \cup rendered(c, curr)
      /\ restack(c)
      /\ UNCHANGED <<conf, layout, curr, focused_win, mru_counter, net_wm_state>>

set_fullscreen_wrapper(w) ==
  LET flag == client[w].state # "FULLSCREEN"
      c    == set_fullscreen(client, w, flag)
  IN  /\ "fullscreen" \in Keys
      /\ w \in mapped \cap on(client, curr)
      /\ client' = c
      /\ net_wm_state' = [net_wm_state EXCEPT ![w] = fullscreen_atoms(@, flag)]
      /\ restack(c)
      /\ UNCHANGED <<conf, layout, curr, focused_win, mru_counter, mapped>>

\* Toggling looks at ewmh_state for the flag and, after it is set, at the client's
\* state for fullscreen.
handle_net_wm_state(w, action, atom) ==
  LET set   == action = "ADD" \/ (action = "TOGGLE" /\ atom \notin client[w].ewmh_state)
      full  == action = "ADD" \/ (action = "TOGGLE" /\ client[w].state # "FULLSCREEN")
      c     == IF set THEN flagged(client, {w}, atom) ELSE unflagged(client, {w}, atom)
      fs    == atom = "FULLSCREEN"
      after == IF fs THEN set_fullscreen(c, w, full) ELSE c
      atoms == atom_set({w}, atom, set)
  IN  /\ "_NET_WM_STATE" \in Messages
      /\ client[w] # NULL
      /\ client' = after
      /\ net_wm_state' = IF fs THEN [atoms EXCEPT ![w] = fullscreen_atoms(@, full)] ELSE atoms
      /\ restack(after)
      /\ UNCHANGED <<conf, layout, curr, focused_win, mru_counter, mapped>>

-----------------------------------------------------------------------------
(* Between desktops.                                                       *)

\* The windows of the old desktop are hidden and those of the new one are shown;
\* with restore_last_focus the last focused of them, if any, is used and raised.
switched(d) ==
  unflagged(flagged(client, on(client, curr), "HIDDEN"), on(client, d), "HIDDEN")

switched_atoms(d) ==
  [w \in Windows |-> IF w \in on(client, d) THEN net_wm_state[w] \ {"HIDDEN"}
                     ELSE atom_set(on(client, curr), "HIDDEN", TRUE)[w]]

restorable(d) ==
  {NULL} \cup (IF conf.restore_last_focus /\ layout[d] # "STACK" THEN on(client, d) ELSE {})

after_switch(d, w) == IF w = NULL THEN switched(d) ELSE used(switched(d), w)

switch_desktop(d, w) ==
  /\ d # curr
  /\ w \in restorable(d)
  /\ curr' = d
  /\ client' = after_switch(d, w)
  /\ net_wm_state' = switched_atoms(d)
  /\ mapped' = (mapped \ on(client, curr)) \cup on(client, d)
  /\ mru_counter' = IF w = NULL THEN mru_counter ELSE mru_counter + 1
  /\ focused_win' = w
  /\ UNCHANGED <<conf, layout>>

unordered_switch(d, w) ==
  /\ switch_desktop(d, w)
  /\ UNCHANGED <<stacking, published, loose>>

\* The keys restack after the switch, the message of a pager does not.
switch_desktop_wrapper(d, w) ==
  /\ switch_desktop(d, w)
  /\ restack(after_switch(d, w))

handle_net_desktop_change(d, w) ==
  /\ "_NET_CURRENT_DESKTOP" \in Messages
  /\ switch_desktop(d, w)
  /\ stacking' = IF w = NULL THEN stacking ELSE raise_window(stacking, w)
  /\ loose' = loose \cup on(client, d)
  /\ UNCHANGED published

\* The window is hidden, unlinked and transferred; without a leaf to split in a tree
\* of floating windows it is lost.  Nothing is restacked.
move_node(w, d) ==
  LET at   == client[w].desk
      T    == on(client, d) \ {w}
      lost == Cardinality(T) > 1 /\ T \cap tiled_on(client, d) = {}
      c    == IF lost THEN [client EXCEPT ![w] = NULL]
              ELSE [flagged(client, {w}, "HIDDEN") EXCEPT ![w].desk = d]
  IN  /\ client' = c
      /\ net_wm_state' = atom_set({w}, "HIDDEN", TRUE)
      /\ mapped' = (mapped \ {w}) \cup
                     (IF at = curr /\ ~lost THEN rendered(c, curr) ELSE {})
      /\ UNCHANGED <<conf, layout, curr, focused_win, mru_counter, stacking, published, loose>>

transfer_node_wrapper(w, d) ==
  /\ "transfer_node" \in Keys
  /\ d # curr
  /\ w \in on(client, curr)
  /\ move_node(w, d)

handle_net_wm_desktop(w, d) ==
  /\ "_NET_WM_DESKTOP" \in Messages
  /\ client[w] # NULL
  /\ move_node(w, d)

-----------------------------------------------------------------------------
pointer_event == \E w \in Windows : handle_enter_notify(w) \/ handle_button_press(w)

key_event ==
  \/ \E w \in Windows :
       \/ cycle_win_wrapper(w)
       \/ traverse_stack_wrapper(w)
       \/ set_fullscreen_wrapper(w)
       \/ \E s \in {"TILED", "FLOATING"} : change_state(s, w)
       \/ \E d \in DesktopIds : transfer_node_wrapper(w, d)
  \/ \E t \in Layouts : layout_handler(t)
  \/ \E d \in DesktopIds : \E w \in restorable(d) : switch_desktop_wrapper(d, w)

client_event ==
  \/ \E w \in Windows :
       \/ handle_map_request(w)
       \/ handle_unmap_notify(w)
       \/ \E action \in {"ADD", "REMOVE", "TOGGLE"}, atom \in StateAtoms :
            handle_net_wm_state(w, action, atom)
       \/ \E d \in DesktopIds : handle_net_wm_desktop(w, d)
  \/ \E d \in DesktopIds : \E w \in restorable(d) : handle_net_desktop_change(d, w)

Next == pointer_event \/ key_event \/ client_event

Spec == Init /\ [][Next]_vars

-----------------------------------------------------------------------------
(* Properties.                                                             *)

over(w, v) == <<v, w>> \in stacking

TypeOK ==
  /\ conf \in Configurations
  /\ client \in [Windows -> Clients \cup {NULL}]
  /\ layout \in [DesktopIds -> Layouts]
  /\ curr \in DesktopIds
  /\ focused_win \in Windows \cup {NULL}
  /\ mru_counter \in Nat
  /\ mapped \subseteq Managed
  /\ net_wm_state \in [Windows -> SUBSET Atoms]
  /\ stacking \subseteq Windows \X Windows
  /\ \A v, w \in Windows : over(v, w) <=> v # w /\ ~over(w, v)
  /\ \A u, v, w \in Windows : over(u, v) /\ over(v, w) => over(u, w)
  /\ published \in Seq(Windows)
  /\ loose \subseteq Windows

\* The windows of the screen whose place the last restack decided.  Those wrongly
\* flagged hidden are left out: a flag read from the property a window kept from
\* when it was withdrawn on a hidden desktop, or set by a pager's move.
Settled ==
  {w \in (mapped \ loose) \cap collect_clients(client) : "HIDDEN" \notin client[w].ewmh_state}

\* On the screen no window is over one that belongs above it: every handler that
\* changes a layer, a recency or a hidden flag restacks before it returns, or
\* changes it alike for all that is shown (tree.c:816).
Ordered ==
  LET Plain == {w \in Settled : client[w].state # "FULLSCREEN"}
      key   == [w \in Plain |-> stack_key(client, w)]
  IN  \A v, w \in Plain : key_less(key[v], key[w]) => over(w, v)

\* A dialog is over the window it is transient for, whatever layers the two asked
\* for, unless that window is fullscreen (zwm.c:5634).
DialogAbove ==
  \A w \in Settled :
    LET p == parent_of(client, w)
    IN  p \in Settled /\ client[p].state # "FULLSCREEN" => over(w, p)

\* A fullscreen window is over every window that is not (tree.c:828).
FullscreenAbove ==
  \A w \in Settled, v \in Settled :
    client[w].state = "FULLSCREEN" /\ client[v].state # "FULLSCREEN" => over(w, v)

\* The published list names every window zwm manages, once (zwm.c:1740): what takes
\* part in the order takes part in the list.
Listed ==
  /\ collect_clients(client) \subseteq ToSet(published)
  /\ IsInjective(published)

=============================================================================
