------------------------------ MODULE Monitors ------------------------------
(***************************************************************************)
(* The list of monitors of zwm (src/src/zwm.c) and what RandR hot-plugging *)
(* does to it: outputs are connected, switched off, moved and unplugged at *)
(* any moment, a ScreenChangeNotify follows, and handle_monitor_changes    *)
(* looks at every output again.  A monitor_t is an address; the list       *)
(* hangs together by next pointers, which update_monitors also uses for    *)
(* its list of monitors to remove.                                         *)
(*                                                                         *)
(* Abstractions: a desktop's tree is its set of windows (modules BSPTree   *)
(* and Desktops have the trees); a rectangle is the output it belongs to   *)
(* and a mode; every desktop has the default layout.  Bound: a change is   *)
(* handled only while an address is free (FreeAddresses).                  *)
(***************************************************************************)
EXTENDS Naturals, FiniteSets, Sequences
LOCAL INSTANCE FiniteSetsExt

CONSTANTS
  OutputOrder,      \* the outputs, in the order RandR enumerates them
  Hotplug,          \* the outputs that can be unplugged or switched off
  Modes,            \* the modes an output can be in
  Addresses,        \* the addresses malloc can return for a monitor_t
  Windows,
  Dialogs,          \* the windows that float
  VirtualDesktops,  \* conf.virtual_desktops
  NULL,
  Malloc(_)

Outputs    == {OutputOrder[i] : i \in DOMAIN OutputOrder}
DesktopIds == 0 .. VirtualDesktops - 1
UINT16     == 65536

ASSUME MonitorsAssumption ==
  /\ VirtualDesktops \in 1 .. 10
  /\ OutputOrder \in Seq(Outputs)
  /\ \A i, j \in DOMAIN OutputOrder : OutputOrder[i] = OutputOrder[j] => i = j
  /\ IsFiniteSet(Addresses) /\ IsFiniteSet(Windows)
  /\ Hotplug \subseteq Outputs
  /\ Dialogs \subseteq Windows
  /\ NULL \notin Addresses \cup Windows \cup Outputs
  /\ \A S \in SUBSET Addresses : S # {} => Malloc(S) \in S

Statuses   == {"ON", "OFF", "UNPLUGGED"}   \* OFF: connected, but without a CRTC
Rectangles == Outputs \X Modes

VARIABLES
  status,         \* of each output, as RandR reports it
  mode,           \* of each output that is on
  pending,        \* a ScreenChangeNotify zwm has not handled yet
  mon,            \* the monitor_t at each address
  head_monitor,
  prim_monitor,
  curr_monitor,
  multi_monitors,
  mapped,         \* the windows the X server has mapped
  running         \* FALSE once zwm has used a monitor_t that is freed or unfinished:
                  \* what it does from there on is undefined

hardware == <<status, mode, pending>>
pointers == <<head_monitor, prim_monitor, curr_monitor>>
vars     == <<status, mode, pending, mon, head_monitor, prim_monitor, curr_monitor,
              multi_monitors, mapped, running>>

FreeMonitor ==
  [output |-> NULL, next |-> NULL, rectangle |-> NULL, desktops |-> FALSE, desk |-> 0,
   tree    |-> [d \in DesktopIds |-> {}],
   n_count |-> [d \in DesktopIds |-> 0],
   area    |-> [d \in DesktopIds |-> NULL]]

\* A monitor for output o; desktops says whether setup_desktops has given it any.
\* area is the rectangle each desktop's tree was last laid out for.
init_monitor(o, m) ==
  [FreeMonitor EXCEPT !.output = o, !.rectangle = <<o, m>>]

MonitorRecords ==
  [output : Outputs \cup {NULL}, next : Addresses \cup {NULL},
   rectangle : Rectangles \cup {NULL}, desktops : BOOLEAN, desk : DesktopIds,
   tree : [DesktopIds -> SUBSET Windows],
   n_count : [DesktopIds -> 0 .. UINT16 - 1],
   area : [DesktopIds -> Rectangles \cup {NULL}]]

\* FoldLeft, by recursion on the length of the sequence, which a proof can unfold.
Iterated(op(_, _), base, seq) ==
  LET upto[i \in 0 .. Len(seq)] == IF i = 0 THEN base ELSE op(upto[i - 1], seq[i])
  IN  upto[Len(seq)]

-----------------------------------------------------------------------------
(* The list.                                                               *)

\* The monitors from address a on, in order.
Chain(M, a) ==
  LET from[k \in 0 .. Cardinality(Addresses)] ==
        [x \in Addresses \cup {NULL} |->
           IF x = NULL \/ k = 0 THEN <<>> ELSE <<x>> \o from[k - 1][M[x].next]]
  IN  from[Cardinality(Addresses)][a]

In(seq) == {seq[i] : i \in DOMAIN seq}

Listed == In(Chain(mon, head_monitor))

\* The first element of a sequence that is in S, or NULL.
FirstOf(seq, S) ==
  LET found == {i \in DOMAIN seq : seq[i] \in S}
  IN  IF found = {} THEN NULL ELSE seq[CHOOSE i \in found : \A j \in found : i <= j]

get_monitor_by_randr_id_skips_last(M, head, o) ==
  FirstOf(Chain(M, head), {a \in Addresses : M[a].output = o /\ M[a].next # NULL})

get_monitor_by_randr_id(M, head, o) ==
  FirstOf(Chain(M, head), {a \in Addresses : M[a].output = o})

\* s is [mon, head]; the new monitor goes to the end of the list.
add_monitor(s, a, m) ==
  LET list == Chain(s.mon, s.head)
      M    == [s.mon EXCEPT ![a] = m]
  IN  IF list = <<>> THEN [s EXCEPT !.mon = M, !.head = a]
      ELSE [s EXCEPT !.mon = [M EXCEPT ![list[Len(list)]].next = a]]

unlink_monitor_forgets(s, a) == s

unlink_monitor_moves_head(s, a) == [s EXCEPT !.head = s.mon[a].next, !.mon[a].next = NULL]

unlink_monitor(s, a) ==
  LET list == Chain(s.mon, s.head)
      prev == FirstOf(list, {b \in Addresses : s.mon[b].next = a})
      next == s.mon[a].next
  IN  IF a \notin In(list) THEN s
      ELSE IF prev = NULL
           THEN [s EXCEPT !.head = next, !.mon[a].next = NULL]
           ELSE [s EXCEPT !.mon = [s.mon EXCEPT ![prev].next = next, ![a].next = NULL]]

destroy_monitor(s, a) ==
  LET u == unlink_monitor(s, a)
  IN  [u EXCEPT !.mon = [u.mon EXCEPT ![a] = FreeMonitor]]

FreeAddresses(M) == {a \in Addresses : M[a].output = NULL}

setup_desktops_anew(M, list) ==
  [a \in Addresses |->
     IF a \in list THEN [M[a] EXCEPT !.desktops = TRUE, !.tree = FreeMonitor.tree] ELSE M[a]]

\* setup_desktops: monitors that have desktops keep them.
setup_desktops(M, list) ==
  [a \in Addresses |-> IF a \in list THEN [M[a] EXCEPT !.desktops = TRUE] ELSE M[a]]

-----------------------------------------------------------------------------
(* update_monitors.                                                        *)

\* One output.  A monitor to remove is pushed on the list dl through its own next
\* pointer, while it still is in the list of monitors.
examine(s, o) ==
  LET exist == get_monitor_by_randr_id(s.mon, s.head, o)
      a     == Malloc(FreeAddresses(s.mon))
  IN  CASE status[o] = "UNPLUGGED" /\ exist # NULL ->
             [s EXCEPT !.mon[exist].next = s.dl, !.dl = exist]
        [] status[o] = "ON" /\ exist = NULL ->
             [add_monitor(s, a, init_monitor(o, mode[o])) EXCEPT
                !.changes = @ \cup {"CONNECTED"}]
        [] status[o] = "ON" /\ exist # NULL /\ s.mon[exist].rectangle # <<o, mode[o]>> ->
             [s EXCEPT !.mon[exist].rectangle = <<o, mode[o]>>,
                       !.changes = @ \cup {"LAYOUT"}]
        [] OTHER -> s

\* transfer_node fails in a tree of several windows that all float.
CanTransfer(tree) == Cardinality(tree) < 2 \/ ~(tree \subseteq Dialogs)

\* The current monitor, as a handler finds it.
Monitor(M, a) == IF a = NULL THEN FreeMonitor ELSE M[a]

\* merge_monitors moves one window: unlink_node, then transfer_node.
move_window(t, w) ==
  IF ~t.ok \/ w \notin t.old THEN t
  ELSE IF CanTransfer(t.new) THEN [t EXCEPT !.old = @ \ {w}, !.new = @ \cup {w}]
  ELSE [t EXCEPT !.old = @ \ {w}, !.ok = FALSE]

\* One desktop of r goes to the same desktop of m, window after window in the order
\* their leaves are met in; a failure abandons the rest.  n_count is left alone.
move_windows(old, new, order) ==
  Iterated(move_window, [old |-> old, new |-> new, ok |-> TRUE], order)

merge_desktop(s, r, m, d, order) ==
  LET t == move_windows(s.mon[r].tree[d], s.mon[m].tree[d], order)
      M == [s.mon EXCEPT ![r].tree[d] = t.old, ![m].tree[d] = t.new,
                         ![m].area[d] = IF t.ok THEN Monitor(s.mon, curr_monitor).rectangle
                                        ELSE @]
  IN  IF ~s.ok \/ s.mon[r].tree[d] = {} THEN s ELSE [s EXCEPT !.ok = t.ok, !.mon = M]

merge_monitors(s, r, m, order) ==
  LET merge(t, d) == merge_desktop(t, r, m, d - 1, order)
  IN  Iterated(merge, [s EXCEPT !.ok = TRUE], [d \in 1 .. VirtualDesktops |-> d])

\* merge_monitors, then destroy_monitor unless it failed.  Either monitor may be one
\* that has no desktops: freed before, or added by this very change.
remove_monitor(s, r, m, order) ==
  LET all == merge_monitors(s, r, m, order)
  IN  IF ~s.running THEN s
      ELSE IF ~s.mon[r].desktops \/ ~s.mon[m].desktops THEN [s EXCEPT !.running = FALSE]
      ELSE IF all.ok THEN destroy_monitor(all, r)
      ELSE all

\* The monitor the windows go to: the primary one, or the first that stays.
refuge(s, gone) ==
  IF prim_monitor \notin gone THEN prim_monitor
  ELSE FirstOf(Chain(s.mon, s.head), Addresses \ gone)

examine_outputs ==
  Iterated(examine, [mon |-> mon, head |-> head_monitor, dl |-> NULL,
                     changes |-> {}, ok |-> TRUE, running |-> TRUE], OutputOrder)

remove_monitors(s, gone, m, order) ==
  LET remove(t, r) == remove_monitor(t, r, m, order) IN Iterated(remove, s, gone)

update_monitors(order) ==
  LET s    == examine_outputs
      gone == Chain(s.mon, s.dl)
      m    == refuge(s, In(gone))
  IN  IF s.dl = NULL \/ m = NULL THEN s
      ELSE remove_monitors([s EXCEPT !.changes = @ \cup {"DISCONNECTED"}], gone, m, order)

-----------------------------------------------------------------------------
(* The handlers.                                                           *)

\* The primary output's monitor is the first to be current: any of them, and the
\* head of the list when RandR names none.
setup_monitors(list) ==
  /\ prim_monitor \in In(list)
  /\ curr_monitor = prim_monitor
  /\ multi_monitors = (Len(list) > 1)

\* The outputs that are on when zwm starts have a monitor each, with desktops.
setup_output(t, o) ==
  IF status[o] = "ON"
  THEN add_monitor(t, Malloc(FreeAddresses(t.mon)), init_monitor(o, mode[o]))
  ELSE t

setup_outputs ==
  Iterated(setup_output, [mon |-> [a \in Addresses |-> FreeMonitor], head |-> NULL], OutputOrder)

Init ==
  /\ status \in [Outputs -> Statuses]
  /\ \E o \in Outputs : status[o] = "ON"
  /\ \A o \in Outputs \ Hotplug : status[o] = "ON"
  /\ mode \in [Outputs -> Modes]
  /\ pending = FALSE
  /\ LET s    == setup_outputs
         list == Chain(s.mon, s.head)
     IN  /\ mon = setup_desktops(s.mon, In(list))
         /\ head_monitor = s.head
         /\ setup_monitors(list)
  /\ mapped = {}
  /\ running = TRUE

\* Only the desktops that are shown are laid out again.
arrange_shown(M, list) ==
  [a \in Addresses |->
     IF a \in list /\ M[a].tree[M[a].desk] # {}
     THEN [M[a] EXCEPT !.area[M[a].desk] = M[a].rectangle] ELSE M[a]]

\* What arrange_trees makes of the monitors: each tree fills its monitor.
arrange_trees(M, list) ==
  [a \in Addresses |->
     IF a \in list
     THEN [M[a] EXCEPT !.area = [d \in DesktopIds |->
                                   IF M[a].tree[d] = {} THEN @[d] ELSE M[a].rectangle]]
     ELSE M[a]]

\* What render_trees maps: the desktop each monitor shows.
render_trees(M, list) == UNION {M[a].tree[M[a].desk] : a \in list}

handle_monitor_changes(order) ==
  LET s      == update_monitors(order)
      list   == In(Chain(s.mon, s.head))
      render == "CONNECTED" \notin s.changes /\ s.changes # {}
      moved  == "CONNECTED" \notin s.changes /\ "DISCONNECTED" \in s.changes
  IN  /\ running /\ pending
      /\ FreeAddresses(mon) # {}
      /\ pending' = FALSE
      /\ running' = s.running
      /\ head_monitor' = s.head
      /\ prim_monitor' = IF moved THEN s.head ELSE prim_monitor
      /\ curr_monitor' = IF moved THEN s.head ELSE curr_monitor
      /\ mon' = IF "CONNECTED" \in s.changes THEN setup_desktops(s.mon, list)
                ELSE IF render THEN arrange_trees(s.mon, list)
                ELSE s.mon
      /\ mapped' = IF render THEN mapped \cup render_trees(s.mon, list) ELSE mapped
      /\ multi_monitors' = IF s.changes = {} THEN multi_monitors
                           ELSE Cardinality(list) > 1
      /\ UNCHANGED <<status, mode>>

\* An output is plugged in, unplugged, switched on or off, or changes mode.
screen_change(o, st, m) ==
  /\ <<st, m>> # <<status[o], mode[o]>>
  /\ o \in Hotplug \/ st = "ON"
  /\ st # "ON" => m = mode[o]
  /\ status' = [status EXCEPT ![o] = st]
  /\ mode' = [mode EXCEPT ![o] = m]
  /\ pending' = TRUE
  /\ UNCHANGED <<mon, pointers, multi_monitors, mapped, running>>

Managed == UNION {mon[a].tree[d] : a \in Listed, d \in DesktopIds}

\* The pointer enters monitor a (handle_enter_notify).
enter_monitor(a) ==
  /\ running /\ multi_monitors
  /\ a \in Listed /\ mon[a].desktops /\ a # curr_monitor
  /\ curr_monitor' = a
  /\ UNCHANGED <<hardware, mon, head_monitor, prim_monitor, multi_monitors, mapped, running>>

\* handle_map_request puts a window on the current monitor, where its tree takes one
\* (module Desktops has the requests that fail).
handle_map_request(w) ==
  LET m == Monitor(mon, curr_monitor)
      d == m.desk
  IN  /\ running
      /\ w \notin mapped \cup Managed
      /\ CanTransfer(m.tree[d])
      /\ mon' = [mon EXCEPT
                   ![curr_monitor].tree[d] = @ \cup {w},
                   ![curr_monitor].n_count[d] = (@ + 1) % UINT16,
                   ![curr_monitor].area[d] = IF m.tree[d] = {} THEN m.rectangle ELSE @]
      /\ mapped' = mapped \cup m.tree[d] \cup {w}
      /\ running' = m.desktops
      /\ UNCHANGED <<hardware, pointers, multi_monitors>>

\* The client of w destroys it: kill_window looks at the current desktop, then at the
\* monitors of the list.  What is left of the tree is laid out for the CURRENT monitor
\* (arrange_tree), and mapped again if it is the current desktop.
kill_window(w) ==
  LET m     == Monitor(mon, curr_monitor)
      here  == w \in m.tree[m.desk]
      owner == IF here THEN curr_monitor
               ELSE FirstOf(Chain(mon, head_monitor),
                            {a \in Addresses : \E d \in DesktopIds : w \in mon[a].tree[d]})
      d     == CHOOSE i \in DesktopIds : w \in mon[owner].tree[i]
  IN  /\ running
      /\ w \in mapped \cup Managed
      /\ running' = m.desktops
      /\ mon' = IF owner = NULL THEN mon
                ELSE [mon EXCEPT
                        ![owner].tree[d] = @ \ {w},
                        ![owner].n_count[d] = (@ + UINT16 - 1) % UINT16,
                        ![owner].area[d] = IF mon[owner].tree[d] = {w} THEN @ ELSE m.rectangle]
      /\ mapped' = IF here THEN (mapped \cup m.tree[m.desk]) \ {w} ELSE mapped \ {w}
      /\ UNCHANGED <<hardware, pointers, multi_monitors>>

\* switch_desktop on the current monitor.
switch_desktop(d) ==
  LET m == Monitor(mon, curr_monitor)
  IN  /\ running
      /\ d # m.desk
      /\ running' = m.desktops
      /\ mon' = [mon EXCEPT ![curr_monitor].desk = d]
      /\ mapped' = (mapped \ m.tree[m.desk]) \cup m.tree[d]
      /\ UNCHANGED <<hardware, pointers, multi_monitors>>

\* The lists ewmh_update_client_list may publish: of the windows of all trees, as many
\* as n_count counts, in the order the trees are met in; what no tree fills of a longer
\* list names no window.
ewmh_update_client_list(M) ==
  LET slots == Listed \X DesktopIds
      all   == UNION {M[s[1]].tree[s[2]] : s \in slots}
      size  == MapThenSumSet(LAMBDA s : M[s[1]].n_count[s[2]], slots)
  IN  {list \in SUBSET all : Cardinality(list) = Min({size, Cardinality(all)})}

Orders == {s \in [1 .. Cardinality(Windows) -> Windows] : In(s) = Windows}

Next ==
  \/ \E order \in Orders : handle_monitor_changes(order)
  \/ \E o \in Outputs, st \in Statuses, m \in Modes : screen_change(o, st, m)
  \/ \E a \in Addresses : enter_monitor(a)
  \/ \E w \in Windows : handle_map_request(w) \/ kill_window(w)
  \/ \E d \in DesktopIds : switch_desktop(d)

Spec == Init /\ [][Next]_vars

-----------------------------------------------------------------------------
(* Properties.                                                             *)

TypeOK ==
  /\ status \in [Outputs -> Statuses]
  /\ mode \in [Outputs -> Modes]
  /\ pending \in BOOLEAN /\ multi_monitors \in BOOLEAN /\ running \in BOOLEAN
  /\ mon \in [Addresses -> MonitorRecords]
  /\ {head_monitor, prim_monitor, curr_monitor} \subseteq Addresses
  /\ mapped \subseteq Windows

\* Once the last change is handled, every output that is on has a monitor, every
\* unplugged output has none, and no two monitors show the same output.
InSync ==
  ~pending =>
    /\ \A o \in Outputs :
         LET shown == {a \in Listed : mon[a].output = o}
         IN  /\ Cardinality(shown) <= 1
             /\ status[o] = "ON" => shown # {}
             /\ status[o] = "UNPLUGGED" => shown = {}
    /\ multi_monitors = (Cardinality(Listed) > 1)

\* The global monitor pointers point into the list of monitors, and every monitor
\* there has desktops: no handler reaches a freed or unfinished monitor_t.
PointersListed ==
  /\ prim_monitor \in Listed /\ curr_monitor \in Listed
  /\ \A a \in Listed : mon[a].desktops

\* The windows on desktops number d of all monitors.
On(d) == UNION {mon[a].tree[d] : a \in Listed}

\* Plugging and unplugging monitors loses no window: until its client destroys it, a
\* window stays on a desktop of the same number of some monitor (zwm.c:2944-2949).
Conserved ==
  [][\A d \in DesktopIds : \A w \in On(d) : w \in On(d)' \/ kill_window(w)]_vars

\* Handling a change that only takes monitors away or resizes them leaves every tree
\* that is still listed laid out for its monitor, those merge_monitors laid out for the
\* current one (tree.c:1245) and those nobody looks at included (zwm.c:3186-3200).
Refitted ==
  [][LET only_less == Listed' \subseteq Listed
         changed   == Listed' # Listed \/ \E a \in Listed : mon'[a].rectangle # mon[a].rectangle
     IN  pending /\ ~pending' /\ running' /\ only_less /\ changed =>
           \A a \in Listed' : \A d \in DesktopIds :
             mon'[a].tree[d] # {} => mon'[a].area[d] = mon'[a].rectangle]_vars

\* The client list that is published when a window comes or goes names every window
\* zwm manages, whatever monitor it came from (zwm.c:1706-1710).
ClientListComplete ==
  [][\A w \in Windows : handle_map_request(w) \/ kill_window(w) =>
       \A list \in ewmh_update_client_list(mon') : list = Managed']_vars
=============================================================================
