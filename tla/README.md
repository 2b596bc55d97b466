# Verification of zwm

zwm is a tiling window manager for X11, written in C.  This directory holds TLA+
models of it, TLC configurations that check them on small instances, and TLAPS proofs
of the facts the rest stands on.

Source references are to the repository: `tree.c`, `zwm.c`, `drag.c`, `config_parser.c`
and `type.h` are in `src/src/`.

## The system

zwm is one process with one thread.  `event_loop` (zwm.c:7212) takes one X event at
a time and runs one handler to its end, so a handler is atomic with respect to the
other handlers.  What is concurrent is outside: clients map, withdraw and destroy
windows, the user moves the pointer and presses keys, pagers send EWMH messages,
outputs are plugged in and out, the configuration file is edited.  Their events reach
zwm in any order, and a handler may find everything changed since the one before it,
or even, as its requests go to the server one by one, in its middle.

| Component | State | Operations | Interacts with |
|---|---|---|---|
| BSP trees (tree.c) | `node_t`: parent, two children, client, flags | insert, unlink, delete, transfer, swap, search, master flags | every handler, through `curr_monitor->desk->tree` |
| Desktops and handlers (zwm.c) | `desktop_t`: tree, layout, `n_count`, `last_focused`; `curr_monitor->desk`; `focused_win`; state of each client | map and withdrawal, rules, focus, layouts, states, switch, transfer | trees; the X server (what is mapped); pagers |
| Mouse sessions (drag.c, zwm.c) | `drag_state`, `mouse_state`: address of a node kept over many events | start, motion, release, Escape | trees, and all handlers that run during a session |
| Monitors (zwm.c) | linked list of `monitor_t`, `curr_monitor`, `prim_monitor`, `head_monitor` | RandR change, merge, pointer crossing | desktops of each monitor |
| Stacking (tree.c, zwm.c) | flags, state, type and `mru_seq` of each client; the X server's order; the published list | restack, raise | focus handlers, clients' hints, pagers |
| Geometry (tree.c, zwm.c) | rectangle, split type and ratio of each node; the gap | layouts, resize, flip, swap, drag of an edge | trees, struts |
| Struts (zwm.c) | list of strut windows, padding of each monitor | add, remove, recalculate | bars, monitors, geometry |
| Visibility (zwm.c) | the root window's event mask | show, hide | X event queue, clients |
| Reload (zwm.c, config_parser.c) | bindings, rules, number of desktops, grabs | parse, reload, MappingNotify | desktops, keys, pagers |
| EWMH and ICCCM (zwm.c) | properties | publish, read | bars, pagers, clients |
| Logger, queue | none that outlives a call | | |

What is hard: a node's address kept across events (sessions); three separate records
of which window has the focus; counters kept by hand and used to size arrays;
operations of several steps that fail in the middle; one pointer used for two linked
lists; hot-plug at any moment; an order of windows that some twenty handlers change
the keys of; unmaps that zwm causes and must not take for a client's; an array of
desktops that shrinks under windows, keys and messages.  PROJECT.json lists each at
its line, with the properties meant to catch it, or the reason why none does.

What makes each component correct:

* trees: full binary trees, consistent links, one node per window, no leak, order of
  windows kept;
* handlers: no window lost or doubled, exact counters, only windows of the shown
  desktop mapped, one focused window and one master; together, what `Placement` says;
* sessions: a drop moves the dragged window and nothing else;
* monitors: the list follows the outputs, pointers stay in it, no window is lost,
  trees fit the monitors that are left;
* stacking: the server's order is the one the keys ask for, dialogs over their parents,
  fullscreen windows over everything, everything published;
* geometry: tiles do not overlap and stay in the usable area;
* struts: the usable area is clear of the bars, and a bar's space comes back;
* visibility: zwm ends up managing what clients want shown, and listens;
* reload: pagers are told the truth, the current desktop is one that exists, nothing of a desktop that is gone is shown, no
  window goes with anything but its desktop, every binding is grabbed.

## Modules

| Module | Models |
|---|---|
| `BSPTree` | tree.c as operators on a heap: `Nodes -> node_t`.  A tree is its root's address.  `splice` and `root_without` are the two halves of `unlink_node`; `insert_node`, `transfer_node`, `swap_node`, `free_node` the other surgery. |
| `Placement` | the abstract specification: which windows are on which desktop, which one is shown and what is on the screen. |
| `Desktops` | one monitor's desktops and one action per handler: map requests in their five forms, withdrawal, pointer and click focus, every key that changes a tree, focus or layout, and pager requests.  It implements `Placement`. |
| `Drag` | `Desktops` with the mouse and keyboard sessions between its handlers. |
| `Geometry` | the rectangles of one desktop's tiles, on the heap of `BSPTree`. |
| `Monitors` | the list of monitors and RandR changes; a tree is its set of windows. |
| `Stacking` | what decides the stacking order, and every handler that changes it. |
| `Struts` | struts and usable areas as functions. |
| `Clients` | zwm, its clients and the X server, one request at a time; the bars and their struts. |
| `Reload` | the configuration file, keys, rules, grabs and the number of desktops. |
| `BSPTree_proofs` | what the recursive walks of `BSPTree` compute, and what each surgery does to a well linked, acyclic heap and to the order of its leaves. |
| `Desktops_proofs` | the types of `Desktops` and the shape of its trees; which windows are on which desktop, the refinement of `Placement`, the counters, the screen; the order of the windows. |
| `Flags_proofs` | the focus and master flags of nodes, `last_focused` and `focused_win`. |
| `Drag_proofs` | `Drag`: what a drop does to the trees, the order, the flags; what sessions leave alone. |
| `Clients_proofs` | `Clients`: zwm keeps in step with clients and server, and clear of the bars. |
| `Stacking_proofs` | `Stacking`: the server's order is the one the keys ask for, and what follows from it. |
| `Reload_proofs` | `Reload`: pagers, screen, windows, types and grabs after reloads. |
| `Monitors_proofs` | `Monitors`: the list follows the outputs, its pointers stay in it, no window goes with a monitor. |
| `MCDesktops`, `MCDrag`, `MCGeometry`, `MCMonitors`, `MCStacking`, `MCClients`, `MCReload` | constants, views and bounds for TLC. |

`Drag` extends `Desktops`, which extends `BSPTree`; `Geometry` extends `BSPTree`;
`Clients` extends `Struts`.  `BSPTree_proofs`, `Desktops_proofs`, `Flags_proofs` and
`Drag_proofs` extend one another in this order.

### Trees

A heap maps each address to a record; `FreeNode` stands for memory that is not
allocated, so a leak, a double use or a use after free is visible.  A node that no tree has
and nobody frees keeps its address and its client (`leaked`); it is never given out again.  That is what
becomes of the node of a failed transfer, whose callers return without freeing it.  A client is the
window it stands for.  The rectangles of a node are in `Geometry`; of the floating
rectangle `frect` says whether it was ever given.  Searches (`find_node_by_window_id`,
`get_focused_node`, `find_any_leaf`, ...) return what the recursive C functions return:
the node itself, then the first child's subtree, then the second's.  `create_node`
leaves the node's type uninitialised; all callers set it before it is read.  The
allocator is a constant operator, `Malloc(S)`: some address of the set `S` of free
ones.  Allocation does not fail.

### Handlers

| Action | Code |
|---|---|
| `handle_map_request` | `handle_map_request` and the five functions it ends in: first, tiled, floating, rule to another desktop, and the ways each gives up |
| `handle_unmap_notify` | `handle_unmap_notify` / `handle_destroy_notify`, `kill_window`, `delete_node` |
| `handle_enter_notify`, `handle_button_press` | focus by pointer, focus by click |
| `cycle_win_wrapper`, `traverse_stack_wrapper` | the two focus keys |
| `layout_handler`, `change_state`, `set_fullscreen_wrapper`, `swap_node_wrapper` | keys that change a desktop |
| `handle_net_wm_state`, `handle_net_wm_desktop` | EWMH requests |
| `switch_desktop`, `transfer_node_wrapper` | keys that leave or move between desktops |

`mapped` is what the X server shows, as far as zwm's own maps and unmaps decide it;
`requested` is the client's side: it asked for its window to be shown and has not
withdrawn it.  `under_cursor` is whatever the pointer may be over.  A null pointer
dereferenced makes `running` FALSE and ends the behaviour, here and in the other
modules.  The GRID layout is not among `Layouts`: choosing it clears the masters and
does nothing else, and `arrange_tree` for it has no effect on nodes.

`ImplementsPlacement` is the refinement: with `place` the desktop whose tree has a
window, `current` and `shown` as they are, every handler opens, closes or moves one
window, switches the desktop, or rearranges what is there.

### Sessions

`drag` and `mouse` hold the address that `drag_state.src_node`, `mouse_state.node` or
`mouse_state.parent` holds.  `grabbed` says that zwm has the pointer: no press or enter
event is delivered.  A pointer grab that fails does not stop a drag (its reply is
ignored), hence `grabbed' \in {TRUE, grabbed}`.  Which leaf is under the cursor is any tiled
external leaf, or none.  A session that uses a node that is free, or that no longer is of
the kind it needs, makes `running` FALSE: what C does there is undefined, and no
property speaks of what follows.  The live preview works on a clone of the tree and is
left out; what remains of it is `arrange_tree` when it is cleared.

### Geometry

A rectangle is a position and a size for each of two axes, so that what the code writes
once for width and once for height is written once.  Sides are 16 bits wide, and the
conversion of a negative double to one, which C leaves undefined, is the parameter
`NegToU16`.  There are two ways to divide: `split_rect`, used where one split changes
(insertion, resize, flip, swap, drag), and `default_split` of `apply_default_layout`,
used when a whole tree is laid out; they do not divide alike, which is what `TilesFit`
is about.  The drag of an edge is one action here; its steps are in `Drag`.  The focused
window is any of the desktop.  A ratio is a fraction.

### Monitors

A monitor is an address; the list hangs together by `next`, the field `update_monitors`
also uses for its list of monitors to remove.  `examine` is one turn of its loop over the
outputs, `remove_monitor` one turn of the second loop.  A window's place in its tree
is left to `Desktops`; only the fact that decides whether a transfer fails
(`CanTransfer`) is kept.  `area` is the rectangle a tree was last laid out for.
`ewmh_update_client_list` gives the lists that may be published: the windows of all trees, cut at the sum of
`n_count`.
`pending` is a ScreenChangeNotify not handled yet; outputs may change again before.

### Stacking

`client` holds, of each managed window, what `compute_layer` and `stack_key` read: state,
`ewmh_state`, type, transient window, recency.  `stacking` is the X server's order of all
windows, as the set of the pairs in which the second is over the first; `restack` makes it, and
raising one window (`set_focus`, `win_focus`, also from the window-cycling key and a pager's switch)
disturbs it.  The raises of mouse drags (drag.c:108, zwm.c:4184), after which nothing is restacked either,
are left out; `loose` remembers the windows so raised until the next `restack`.  A window that a rule puts on another desktop
has a `client_t` that malloc filled: `new_client` chooses its fields.  Trees are sets
here, so the focused leaf, a neighbour, and the leaf a window is inserted at are any.

### Clients, bars and the server

The server carries out one request at a time.  A handler sets zwm's own state and leaves
in `todo` the requests it makes; `x_request` carries out the first of them, and between
two of them `client` may map, withdraw, destroy or resize anything.  `set_visibility`
is three requests: SubstructureNotify out of the root's event mask, the map or unmap, and
the mask again.  What the server would have told zwm meanwhile is in `unreported`; a window
destroyed then stays in a tree (`Ghosts`), and the next `set_focus` on it fails, which ends
a switch half way (`gave_up`).  On a desktop that has windows a map request may be dropped, because no node has
the focus flag or the pointer is over the root window; neither is kept here, so it is a choice, and
`refused` remembers the windows it fell on until their clients ask again.  Bars are kept in `strut_windows`; `screen` is what zwm last
read from RandR, while struts are measured from the screen of the start, `FirstScreen`, as
the code does.  A strut whose range is given backwards is read as `ranges_overlap` reads it.

### Reload

A file is a sequence of lines: `virtual_desktops`, bindings, rules, and bad ones, at which
`parse_config` stops.  The lists of bindings and of rules are functions on the numbers of the lines they
come from, whose order is the lists' own.  `reload_config_wrapper` parses, replaces bindings, rules and grabs, and
grows or shrinks the array; windows of desktops that go are freed with their trees.  Keys
look their binding up by the symbol; a pager's message may be on its way while the number of
desktops changes.  A desktop past the array's end makes `running` FALSE.

The number of desktops is what `atoi` makes of the line (config_parser.c:1015): nothing bounds it but the 16 bits
of `n_of_desktops`.  A reload that fails sets conf to `DefaultDesktops` and leaves the array as it
was, so conf and array may differ either way, and the next reload compares the new number with
conf.  With conf above the array's length it reads or leaves entries that were never set (`crash`).  With conf
below it, `more_desktops` puts empty desktops in the place of those beyond conf, and `fewer_desktops` neither frees
the desktops beyond conf nor goes home from one of them: `listed` is FALSE when `curr_monitor->desk` has
been replaced or cut off, and the windows of its tree, which only `curr_monitor->desk` still leads to, are at
`Detached`.  `cycle_desktop_wrapper` counts with the array's length, and renders the next desktop
even when `switch_desktop` has refused to go there.

## Runs

| Run | Instance | Result |
|---|---|---|
| `desktops_moves` | 2 tiled windows, one with a rule, and a dialog, 2 desktops, 5 nodes; transfer, swap, pager | `TypeOK`, `Linked`, `OneTree`, `CountExact`, `HiddenUnmapped`, `Conserved`, `OrderStable`, `ImplementsPlacement` hold |
| `desktops_layouts` | 3 windows, 1 desktop, 3 layouts; traverse, swap, cycle, fullscreen | `OneMaster` holds |
| `desktops_focus` | 3 windows, one a dialog, 2 desktops, click to focus, focus on spawn, restore | `OneFocused`, `FocusAgrees`, `CurrentShown`, `Remembered` hold |
| `drag_drops` | 2 tiled windows and a dialog, 1 desktop, master layout, all sessions | `DragTypeOK`, `OneMaster`, `DropMoves` hold |
| `geometry` | up to 3 tiles on a screen of 79 x 83 with a border of 1, gap of 5, a bar of 8 | `TilesFit` holds |
| `monitors_laptop` | 1 fixed and 1 external output, 2 modes, 2 windows, 2 desktops | `TypeOK`, `InSync`, `PointersListed`, `Conserved`, `Refitted` hold |
| `stacking_layers` | a window, its dialog and another, 1 desktop, two configurations | `TypeOK`, `Ordered`, `DialogAbove`, `FullscreenAbove` hold |
| `stacking_desktops` | a window with a rule and its dialog, 2 desktops, stack layout, pagers | `Ordered`, `Listed` hold |
| `clients` | 2 windows and a bar, 2 desktops, 2 arrangements of 2 monitors | `TypeOK`, `InStep`, `Listening`, `BarsClear`, `Forgotten`, `ComesToBeManaged`, `SpaceReturned` hold |
| `reload` | 2 windows, 6 files with one, three or four desktops, 2 keyboards, 2 desktops by default | `TypeOK`, `PagerInformed`, `OnlyShown`, `BoundKeysGrabbed`, `Kept` hold |
| `lost_transfer` | 2 dialogs, 1 tiled window, 2 desktops | `Conserved` violated |
| `merged_count` | 2 outputs, 2 windows | `ClientListComplete` violated |

The two runs that end in a violation show disagreements between the code and what its
documentation says of it; PROJECT.json quotes the lines.

### Fairness

Only `clients` has liveness properties, under `WF_vars(zwm_step)`: the event loop goes
on while there is an event or a request to make, and the server answers.  That is all
the code's own scheduling gives, and all that is used: nothing is asked of clients, who
may stop at any moment or map and unmap for ever.  `Forgotten`, `ComesToBeManaged` and
`SpaceReturned` therefore have an escape for a client that changes its mind.  The other modules have no
fairness: their handlers are single steps, and nobody is obliged to cause an event.

### What the passing runs leave out, and why

The passing runs say what holds of the code as it is, so each is set up without the
events for which its property is known to fail:

* with two dialogs on a desktop, a transfer to it fails, loses a window (`lost_transfer`), leaks its
  node, and leaves `n_count` too high.  `desktops_moves` has one dialog;
* transfers in the master layout leave `is_master` on the node that was split, and a
  second master appears.  `desktops_layouts` and `drag_drops` have one desktop;
* `traverse_stack_wrapper` flags a second node as focused; `desktops_focus` does not bind it.
  `cycle_win_wrapper`, fullscreen and layouts move the flag without `focused_win`, so they are not bound
  there either;
* the first window of a desktop is flagged focused but not recorded in `last_focused`;
  with `FocusFollowSpawn`, as in `desktops_focus`, it is recorded by what follows;
* a pager that moves a window from a hidden desktop to the current one leaves it unmapped
  (zwm.c:6572): `CurrentShown` is not checked with pager messages, and `Placement` asks of a move only
  that nothing else disappears;
* when an output that is not the last one is unplugged, the list is cut; when two change in
  one event, the monitor pointers can be left on a freed monitor, and windows can be merged into a monitor
  that has no desktops yet.  With two dialogs on the receiving desktop a merge is abandoned.
  In `monitors_laptop` only the last output changes, and there are no dialogs;
* in `monitors_laptop` no property speaks of `mapped`: windows merged from a shown desktop into
  a hidden one stay mapped in the present code;
* `Ordered`, `DialogAbove` and `FullscreenAbove` speak of `Settled` windows: not of those a focus
  has raised since the last restack, and not of those wrongly flagged hidden;
* `InStep` leaves out the states with a ghost and those after a switch that gave up.  Of the windows in `refused`,
  whose map request zwm dropped, neither it nor `ComesToBeManaged` says that they are managed;
* once a failed reload has left conf below the length of the array, desktops are shown beside the current one, cut
  off and overwritten (see the divergences).  `reload` explores these behaviours: `TypeOK`, `BoundKeysGrabbed` and what
  `PagerInformed` says of the truth hold of them.  `OnlyShown`, `Kept`, and that the current desktop is among those
  pagers are told of, are stated of a behaviour up to there, which the history variable `counted` marks;
* `BarsClear` speaks of the struts zwm has made room for, which may be older than the bar's, and the screens
  of the run have one size;
* `TilesFit` speaks of the default layout and of trees that are not too deep for the gap, see `Shallow`.

### Divergences

With a run of their own: a transfer that fails loses the window (`lost_transfer`), and a merge leaves the
counts behind that the client list is cut at (`merged_count`).  The others were met while modelling, each at
its line; the models do what the code does.

* A transfer that fails never frees the node and its client: nothing refers to them after tree.c:2177, and the
  callers return (zwm.c:919, 6594; comment at tree.c:2088).  TLC finds `OneTree` violated in the instance of `lost_transfer`.
* A failed reload sets conf to the default, 7 desktops, and leaves an array that may have more (zwm.c:1348).
  From then on, `cycle_desktop_wrapper` renders desktops that `switch_desktop` refuses, beside the current one
  (zwm.c:5335; comment at type.h:311); a reload that asks for more than conf replaces desktops with windows by empty
  ones (zwm.c:1392); and one that asks for fewer cuts the array off without leaving a desktop whose number is above conf
  (zwm.c:1422), which stays `curr_monitor->desk`.  Without `counted` in them, TLC finds
  `OnlyShown` and `Kept` violated in six states of the instance of `reload`.
* A map request for a tiled window is dropped when no node of the desktop has the focus
  flag (zwm.c:5725), as after the focused window is closed; and that of a floating one when the pointer is over the
  root (zwm.c:5799).  Nothing retries either (`refused` of `Clients`).
* Nested dialogs: `stack_layer` raises a transient to the layer its parent has of its own (zwm.c:5634, whose
  comment says "transients are at least at their parent's layer"), and not to the one the parent was itself
  raised to.  The dialog of a dialog of a fullscreen window comes out under its parent.
* A move to another desktop that fails loses the client (`lost_transfer`) without a restack; its dialogs
  then have other keys than those they were stacked by.
* A drop on another desktop after a switch in the middle of a drag loses windows (drag.c:193, tree.c:2080).
* `update_monitors` pushes a monitor to remove on its list `dl` with `exist->next = dl` (zwm.c:3063), through the pointer
  that still links the list of monitors.  Unplugging any output but the last one cuts off the monitors behind it before
  their own outputs are looked up: zwm adds new ones for these, links the first behind the monitor it is about to
  remove, and then merges that one too, which has no desktops yet (the assertion at zwm.c:2953).  zwm.c:3021 says
  that it "updates the monitor list accordingly".  With `Hotplug = {eDP}`, the first output, in `monitors_laptop`, TLC
  finds `Conserved`, `InSync` and `PointersListed` violated within four states.
* A change that connects one output and disconnects another takes the first branch only: `curr_monitor` and
  `prim_monitor` are left on the monitor that was freed (zwm.c:3175).
* Trees are laid out for the current monitor, also when they are on another one (tree.c:1245); README.md:32.
* A click raises a window without making it the most recently used (zwm.c `handle_button_press`, type.h:262).
* The handler for a bar that changes its strut is never called: PropertyNotify is selected on managed windows
  only (zwm.c:6280).
* A file that fails half way leaves its first bindings instead of the default ones (comment at zwm.c:7264).
* The number of desktops is 0 when a reloaded file does not name one; `nd = virtual_desktops` passes the
  check of `switch_desktop` (zwm.c:5200); with two monitors, the desktop of one that is not current is left dangling
  by a reload that takes it away.
* A lone window in the master layout and a gap key, a bar or a reload: `apply_monitor_layout_changes`
  dereferences a null child (zwm.c:1297); `master_layout` has the guard and a comment for it (tree.c:1346).
* The gap key goes down to 0 while the border stays: the unsigned difference in `apply_default_layout` wraps
  (tree.c:1156, zwm.c:1489).
* What `split_rect` divides ends up 2 * border_width wider than what `apply_default_layout` does (tree.c:360,
  1143).  Each split above a tile adds as much: with the default gap of 10 and border of 2, a third consecutive
  split of the last tile overlaps the next one, until the tree is laid out again.
* The resize keys stop at 5 pixels of width, and the next layout subtracts 2 * border_width more than that
  split left, so a narrow tile's width wraps (tree.c:1948).
* Flipping a second child puts it first on the screen; the next layout puts it last again (tree.c:2297).

### Bounds

* Three windows make every shape of the surgery: a lone root, a root with two leaves, and
  an inner node on either side, so that `unlink_node` meets a sibling that is a leaf and one that is
  not, and a grandparent that is there or not.  Three windows need at most five nodes.
* `RoomToMap`, `RoomToMove`: a step that would need more nodes than `Nodes` has is not
  explored.  With five nodes and three windows that never keeps a window out.
* `Whole` (drag_drops): nothing is explored beyond a drop that has broken a tree or a
  handler that has freed the node of a session.  `DropMoves` says nothing of either.
* `Monitors`: one address more than there are outputs, `FreeAddresses # {}` in the guard
  of `handle_monitor_changes`.
* `OneChanges` (stacking_layers): only one window is made fullscreen or flagged above; two windows of each
  of the other kinds are enough for a pair to be ordered wrongly, and the third window is the bystander.
* `MaxQueue` (clients): clients are quiet while an event waits.  Between two requests of a handler they
  still act, one event crosses each of zwm's requests, and `todo` is not bounded.
* `MaxGap`, `MinTile` and `Bounded` (geometry): the resize keys shrink no tile below `MinTile`; a change of
  the gap or a bar that comes is the last step, so the states after it are checked but not explored; two of
  the three layouts have keys; the drag leaves the edge at one place.  Two levels of splits,
  in either direction, with the three values a split ratio can be given, are within the bounds.
* The files of `reload`: one, three and four desktops, one bad at its fourth line, one bad at
  once, one that names no number.  With two desktops by default, a failed reload leaves conf above the array's length,
  equal to it, and below it by one and by two, and the reload after it takes either branch with the current desktop
  below, at and above conf.  Numbers above 65535 and negative ones, which `n_of_desktops` cannot hold, are left out.
* The views identify states that differ in the addresses of nodes only, in the names of windows where nothing
  depends on them (`MCGeometry`), in the counters of recency where only their order
  counts (`MCStacking`), or in variables that nothing reads in that run (`last_focused` without restore;
  `n_count` of monitors, and the area of an empty tree).  The symmetry sets are windows that the
  configuration treats alike.
* `CHECK_DEADLOCK FALSE` is set where the process may really stop or wait: a null dereference
  (`desktops_layouts`, `drag_drops`, `geometry`, `reload`), or no event (`clients`).

## Properties

`Linked` and `OneTree` are the shape of the trees; `CountExact` ties the counter to them;
`HiddenUnmapped` / `CurrentShown` tie what is on the screen to the
current desktop; `Conserved` says that a window a client wants shown is not lost by
anything but its withdrawal; `OrderStable` that surgery keeps the left-to-right order of
the windows it does not concern; `OneMaster`, `OneFocused`, `FocusAgrees`,
`Remembered` relate the flags, the layouts and the two other records of the focus;
`DropMoves` says that a drop puts the window right after the one it is dropped on and
changes nothing else, when the drag still holds what it began with; `TilesFit` that the two
ways to divide a rectangle and the ratios they share keep windows apart and in their area; `InSync`,
`PointersListed`, `Conserved` and `Refitted` (Monitors) relate the list to the outputs, the global
pointers to the list, and windows and areas to both.

`Ordered` relates the server's order to the keys of all windows; `DialogAbove` and
`FullscreenAbove` say what that order is for; `Listed` relates it to what pagers see.
`InStep` says that zwm, once it has answered all events, manages what clients want; `Listening`
that no path leaves the event mask cut; `Forgotten`, `ComesToBeManaged` and `SpaceReturned` that it gets there.
`BarsClear` compares the paddings with what EWMH means by a strut, stated independently in
`Struts` as a band of the screen (`covered`).  `PagerInformed`, `OnlyShown`, `Kept` and
`BoundKeysGrabbed` relate what a reload leaves of desktops, screen, windows and grabs, and
say that `curr_monitor->desk` is not left on a desktop that the array no longer has.  `ClientListComplete` is what
the comment on `ewmh_update_client_list` promises of the list.

## Proofs

Eight modules hold proofs, for any value of the constants that the named assumptions allow.
The assumptions are only those of the modules themselves: NULL is no node, window or desktop; `Malloc` returns
one of the addresses offered; `Nodes` is finite; the configuration's constants have their types; there are one to
ten desktops; RandR enumerates each output once; files are sequences of lines that the parser knows, with any number of desktops
that 16 bits hold.  Where a theorem needs more, it says so in an ASSUME of its own, listed below.

| Module | Theorems |
|---|---|
| `Desktops_proofs` | `TypeCorrect`, `LinkedAlways`, `OrderStableAlways`, `OneTreeAlways`, `HiddenUnmappedAlways`, `DesktopsImplementPlacement`, `LossesAreToFloating`, `ConservedWhenOneFloats`, `CountExactWhenOneFloats`, `OneTreeWhenOneFloats`, `CurrentShownAlways` |
| `Flags_proofs` | `OneMasterAlways`, `OneFocusedAlways`, `RememberedAlways`, `FocusAgreesAlways` |
| `Drag_proofs` | `DragTypeCorrect`, `DragLinked`, `DragOneTree`, `DragHiddenUnmapped`, `DropMovesAlways`, `DragOneMaster`, `DragOneFocused` |
| `Clients_proofs` | `TypeCorrect`, `ListeningAlways`, `InStepAlways`, `BarsClearAlways` |
| `Stacking_proofs` | `TypeCorrect`, `ListedAlways`, `FullscreenAboveAlways`, `DialogAboveAlways`, `OrderedAlways` |
| `Reload_proofs` | `TypeCorrect`, `PagersAreInformed`, `FewDesktopsAreCounted`, `OnlyTheCurrentDesktopIsShown`, `WindowsAreKept`, `NoDeadBinding` |
| `Monitors_proofs` | `MonitorTypes`, `InSyncAlways`, `PointersAlways`, `ConservedAlways`, `RefittedAlways` |

Theorems that hold only of some configurations, and why the rest is excluded:

| Theorem | Hypothesis | Without it |
|---|---|---|
| `ConservedWhenOneFloats`, `CountExactWhenOneFloats` | at most one window can float (`OneFloats`) | a transfer to a desktop of several windows that all float loses the window and its count (run `lost_transfer`); `LossesAreToFloating` proves, of any configuration, that this is the only way |
| `OneTreeAlways` | only while no node is leaked (`NoneLeaked`) | the node of a failed transfer is in no tree (see the divergences) |
| `OneTreeWhenOneFloats`, `DragOneTree` | `OneFloats` | as there: this is what makes `NoneLeaked` hold always |
| `CountExactWhenOneFloats` | fewer than 65536 nodes | the counter wraps |
| `CurrentShownAlways` | no `_NET_WM_DESKTOP` messages | zwm.c:6572 leaves a window that a pager brings to the current desktop unmapped |
| `OneMasterAlways` | no key or pager moves windows between desktops | `transfer_node` leaves `is_master` on the node it splits (tree.c:2188), and a window that comes with it is a second master |
| `OneFocusedAlways`, `RememberedAlways` | `FlagsStay`: the same, and no key traverses or makes a stack | a window moved with its flag meets another one; `traverse_stack_wrapper` and the stack layout set a flag and clear none |
| `RememberedAlways` | `FocusFollowSpawn` | the first window of a desktop has the flag before anything records it |
| `FocusAgreesAlways` | `FocusFollows`: `FocusFollowSpawn`, no stack, no cycling, no fullscreen, no pager that moves windows; traversing and transfers by key are allowed | `cycle_win_wrapper` leaves `focused_win` behind; a fullscreen window gets no flag; a pager brings a window that is `focused_win` back without one |
| all of `Drag_proofs` | no stale drop (`[][~StaleDrop]_all_vars`): a node that is dropped is still a leaf of the tree that is shown, or the drop does nothing or fails | drag.c:193 unlinks the node from the desktop that is shown, whatever tree it is in, and hangs a node that was split with what is below it; freed memory becomes a node again |
| `DragOneMaster`, `DragOneFocused` | those of `OneMasterAlways` and `OneFocusedAlways` | as there |
| `BarsClearAlways` | all screens have the size of the first | struts are measured from the screen of the start (zwm.c:2038) |
| `DialogAboveAlways` | no transient has transients (`Flat`) | see "nested dialogs" under the divergences |
| `OrderedAlways` | no move loses a client (`NothingLost`) | a client lost in a move, see the divergences |
| `OnlyTheCurrentDesktopIsShown`, `WindowsAreKept`, the second half of `PagersAreInformed` | `counted`, in the properties themselves: no failed reload has left conf below the length of the array; `FewDesktopsAreCounted` proves it of files that ask for no more desktops than the default (`FewDesktops`) | see the divergences |
| all of `Monitors_proofs` | `OneExternal`: two outputs or more, of which only the last can be unplugged or switched off; an address for each; at most one window floats | another output cuts the list (zwm.c:3063, see the divergences); with two dialogs a merge is abandoned half way |

### Walks of a tree

A recursive function is a CHOOSE, so each has to be shown to exist before its recursion can be unfolded:
`BSPTree_proofs` exhibits a solution of each equation.  `Subtree` is the least set with the node that is closed
under children (`BelowUnfolds`, `BelowLeast`); `FirstIn`, which all searches are, finds a node of a set exactly
when that set meets the subtree (`FirstInFinds`).  There is no induction over trees in this: where one is needed, the
proof takes a lowest counterexample, a node none of whose proper descendants is one (`LowestNode`, from
`Acyclic` and the finiteness of `Nodes`).

### The order of the windows

`LeafOrder` concatenates sequences, and surgery in the middle of a tree changes all the sequences above it.  The proofs
therefore speak of it as a relation: `Left(h, m, n)`, there is a node that m is below the first child of and n
below the second.  `walk` lists the leaves below a node each once and in this order (by a lowest node again), so that
`OrderIs`: a window precedes another in `LeafWindows` when its node is to the left.  What a piece of surgery does to
`Left` can be said without a path: hanging a node beside a leaf (`HangKeepsOrder`) and taking a leaf out
(`UnlinkKeepsOrder`) change what is below only a few nodes, and keep two other windows as they
were (`OrderKept`).  `StepKeeps` has it of every handler but a swap; `OrderStable` is read off it.

### Drags

The invariant `DInv` is `PInv` and the types of the sessions.  A session may hold a node that is freed,
that was split, or that is on another desktop by now; it is inductive all the same because a session
that writes, writes no link and no window (`WriteEffect`), and a drop looks at what the node is only
when it takes it out.  `StaleDrop` is the step at which this goes wrong, and the theorems hold of the behaviours without
one.  Of any other drop `DropEffect` says all at once: the windows stay where they
are placed, the order of the others is kept, the target was split for the two windows (`SplitFor`, from which
`SplitWindowsNext` has them next to each other), a desktop keeps its one master and flags stay with their windows.
`RootFound` shows that `find_tree_root` finds the tree of the desktop that is shown, which `insert_node` relies on.

### The shape of the trees

The inductive invariant is `IInv == TypeOK /\ Linked`.  Neither half is inductive alone: that
`unlink_node` leaves a well linked heap needs the parent's and sibling's links, and their
types need the addresses to be nodes.  `Linked` says more than that links agree: `Acyclic` is what makes
the node taken out, its sibling and its grandparent three different nodes, so that
the assignments of `splice` do not overwrite one another.  It is stated over sets of nodes
(every set has a node whose parent is outside it), because then surgery that only moves a few
parents can be argued about without induction over paths.

`BSPTree_proofs` works with `Good(h)`, well linked and acyclic, and `Detached(h, n)`, which
describes the heap between `unlink_node` and the free or the transfer that follows: one root that
no desktop has.  It has one lemma per operation (`RootGood`, `InsertGood`,
`Spliced`, `UnlinkDetaches`, `FreeDetached`, `RootDetached`, `TransferGood`, `SwapGood`).
`Desktops_proofs` lifts each to the desktops (`Planted`) and then has one lemma per handler;
`NextInv` combines them.

### Where the windows are

`PInv` adds to that invariant that the heap `Holds` the windows where `placed` says, and that what is mapped is of
the current desktop.  `Holds` speaks of no path either: there is a labelling of the nodes with desktops in which
a child has its parent's label, a root labelled d is the tree of d, and a node that holds a window has the label of the
window's desktop.  Surgery changes few parents, so a labelling of the heap before is a labelling of
the heap after but for the nodes it touches (`HoldsFirst`, `HoldsWith`, `HoldsUnlink`, `HoldsFree`,
`HoldsTransfer`, `HoldsSwap`); `AllocatedInTree` and `PlacedLeaf` lead back from labels to subtrees.  A node that is leaked has no label and no
window; that no other node leaks is the rest of `OneTreeAlways`, and with one window that may float
no transfer fails, so none does (`UnleakedNext`).
Each handler then has one of five effects on `placed` (`Opens`, `Closes`, `Moves`, `Switches`, `Stays`:
`NextEffect`), which are the actions of `Placement`, with the counter and the screen along: the refinement,
`HiddenUnmapped`, `Conserved`, `CountExact` and `CurrentShown` are read off them.  For `CountExact`
the leaves of a tree are in bijection with the windows of its desktop (`AsManyLeaves`).  With one window that may
float (`FInv`), `NoCrowdFloats`: no desktop of several windows has floating ones only.

### The flags of the nodes

`Flags_proofs` speaks of windows and not of nodes: `Flagged(h)` is the set of windows whose node carries the
focus flag, `Masters(h, p)` says of a placement that a desktop has one master at most.  Surgery makes
and frees nodes, but moves few flags from window to window: a split takes the flags along
with the client (`SplitFlags`), `unlink_node` frees only a node without a window (`UnlinkFlags`), a freed node takes its
window's flag with it (`FreeFlags`), `transfer_node` drops that of the window it splits
(`TransferFlags`), and `set_focused` followed by `update_focus` leaves its window as the one of its desktop
(`GivenFlags`).  With `PInv` each handler is then one of nine steps on `Flagged`, `placed`, `last_focused`,
`focused_win` and `curr` (`FocusStep`, proved by `NextMarks`), and the three invariants are read off these:

* `OneFocused` is `Lone`: two flagged windows are on two desktops;
* `Remembered` needs `Recalled`: only windows of the current desktop are flagged, and `last_focused` names them.
  This is more than the property says, and it is inductive because `switch_desktop` clears the flags of the
  desktop it leaves;
* `FocusAgrees` needs that no window is fullscreen (`Plain`), because `set_focus` gives the flag to others only.
  That `focused_win` is not cleared when its window is withdrawn is harmless only since a window that comes back
  under the same name is given the focus again, or comes to another desktop by a rule.

Every hypothesis is needed: TLC finds a counterexample to the property when any one of them alone is dropped
(in `MCDesktops` with three windows and two desktops).

### Clients and the server

`IInv` of `Clients_proofs` ties together what a client wants, what zwm has in its trees, the queue, the
requests still to be made and the mask: `Wanted` (nothing that is on its way will take a wanted window from
zwm, and one that it does not manage has its request on the way), `Unwanted` (an unwanted one it manages, or is about to,
has its notice on the way, or zwm did not hear it), `Hidden` and `Shown` (where the screen and the current desktop
differ, a request that mends it is in `todo`, or a window that is gone stopped the rendering), and `Phased` (each request
leaves the mask as the next one expects it, and the last one leaves it set).  A request that is dropped leaves its
window out of `Wanted` until it is repeated (`Dropped`, `HandlerRefuses`), and can do nothing else: the window is in no tree,
so no request in `todo` and no notice is about it.  It is `Phased` that carries
`Listening`, and with `Wanted` the heart of `InStep`: an unmap zwm makes is never heard as the
client's.  `BarsClear` has an invariant of its own, `Room`: every accepted strut is within the
paddings of all monitors; that a padding then keeps the usable area out of the strut's band is arithmetic on
one side at a time.

### The stacking order

`Right` says of the server's order: it is a strict order of all windows (`Stacked`); a fullscreen window whose
place the last restack decided is over the others (`FullAbove`); dialogs over their windows
(`DialogsOver`, with `Flat`); each settled pair as its keys say (`KeysAgree`, with `NothingLost`); the published list
has every client once (`Lists`).  `stack_key` orders the clients strictly because the window id breaks
ties, so a client's rank is a bijection onto the positions of the sorted list, and `restack`, which
raises them in that order, leaves every pair as its keys say (`AfterRestack`).  Handlers that do not restack raise
one window that then is loose (`AfterRaise`) or make fewer windows be seen (`AfterFewer`); what the proofs have to
show of each handler is that it changes no key of a window that is still settled.  This is where the two
hypotheses come from: both were found as proof attempts that failed, and TLC gives a counterexample for each.

### Reloads

Two invariants carry the theorems.  `Typed` holds of every file and after every reload: what zwm published is what it
has, every managed window is on a desktop of the array or on the one that was cut off while it was
shown (`Array`), and the bindings, rules and messages are such as a file or a pager can make.  It needs no
order between conf and the array, because each handler either checks an index against the array or ends the run with it,
and because both branches of a reload say what becomes of every desktop: freed, replaced, cut off, or kept.
`TypeCorrect` and `PagersAreInformed` are read off it.

`Home` is what `Typed` cannot say without that order: the current desktop is listed, and the windows on the screen are
its own.  It survives a reload only if every desktop that leaves the array has a number below what conf said before, for
these are the ones `fewer_desktops` frees and goes home from, and those `more_desktops` leaves alone; and it
survives `cycle_desktop_wrapper` only if no index of the array exceeds conf.  Both are `Counted`, and what
is inductive is that `Counted` and `Home` hold as long as `counted` does (`AlwaysHome`): a failed reload
may break `Counted` (zwm.c:1348), and a later one may restore it over an array that has lost the current desktop, so the
properties need the history and not the state.  `FewDesktopsAreCounted` says of which files `counted` is a fact: with
them every array is at most as long as the default a failed reload falls back to (`Few`).

For `NoDeadBinding`, `BoundKeysGrabbed` is inductive as it stands: a grab that stops at the first key the keyboard does
not have leaves `is_kgrabbed` FALSE, and no step changes the bindings or the keyboard zwm has read
without grabbing again.

### The list of monitors

`Inv` of `Monitors_proofs` says of the heap of `monitor_t`s that it is a list L (`Roster`): the next pointers run from
`head_monitor` through the addresses of L, each once; the monitors there show the outputs in the order RandR
enumerates them; every other address is free.  With it, L has a monitor for each output but perhaps the last, each of them
with its desktops, the pointers are in L (`Ready`), and once no change is pending L matches the outputs (`Matching`).
The properties ask for much less: nothing in `InSync` or `Conserved` speaks of the order of the list.  But the order
is what the code lives by.  `update_monitors` pushes a monitor on its list of monitors to remove through
the pointer that also links the list (zwm.c:3063); only for the last monitor is that pointer NULL before
and after.  The last monitor is the last output's, because monitors are added in RandR's order and only the last output
comes and goes: that is what `OneExternal` is for, which `monitors_laptop` is an instance of; what happens to any other is among the divergences.

`Chain`, the list as the code walks it, is a recursive function, as are `Iterated` (the two loops of
`update_monitors`, the windows and desktops of a merge, the outputs at the start): each solution is exhibited, and a
least index at which it would go wrong is refuted (`ChainIs`, `ExaminedIs`, `MovesAre`, `MergeIs`, `SetupOutputs`).
`MovesAre` holds for any order in which the windows of a tree are met, provided the order has all of them.
`UpdateIs` puts the cases together: the last output is or is not listed, and is on, off or unplugged.  From its
result, `HandledIs` reads off the invariant, that windows stay on a desktop of the same number, and that trees fit.

### Only model-checked

* `Geometry` (`TilesFit`), the one invariant of a run without a theorem.  It is true only of sizes that do not wrap
  around in 16 bits, which the run's bounds see to, so a theorem would have to assume that of every state.  Its
  inductive invariant would say how the children of each split divide their parent's rectangle, up to
  `2 * BorderWidth` for each split; TLC finds no state of a small instance that refutes it, but the SMT solver does not
  get through the remainders and quotients of `U16`, `I16` and `share`, and no part of it is proved.
* Liveness under fairness (`Forgotten`, `ComesToBeManaged`, `SpaceReturned`), which is out of the prover's reach,
  as is ENABLED.

## Not modelled

PROJECT.json lists every component.  Left out for good: logging, the queue (no state outlives
a call), colours and cursors, the characters of a configuration line, names and classes, and the X server's own
rules for input focus.  Left out so far: floating rectangles and the directional neighbour
(`find_closest_neighbor`), Xinerama, `cycle_monitors`, grabs of single windows and buttons,
`_NET_ACTIVE_WINDOW`, more than one monitor in `Stacking`, `Clients`' desktops and `Reload`.

## Plan

1. (done) trees, handlers, sessions, monitors; `TypeCorrect`, `LinkedAlways`.
2. (done) `Stacking`; `Placement` and the refinement; `Struts` and `Clients` with liveness; `Reload` and
   its theorems; `Geometry`.
3. (done) Proofs of the windows, flags and orders of `Desktops` and its refinement, of `Drag`, `Clients`, `Stacking`,
   `Reload` and `Monitors`.
4. `split_rect` keeps two halves apart, which is arithmetic without recursion; `Monitors` with any number of external
   outputs behind the fixed ones, one of which changes at a time.
5. Two monitors in `Reload` and `Stacking`; neighbours and floating rectangles in `Geometry`.
