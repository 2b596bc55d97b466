------------------------------ MODULE Clients ------------------------------
(***************************************************************************)
(* zwm between its clients and the X server.  The server carries out one   *)
(* request at a time, those of zwm and those of the clients, and queues    *)
(* events for zwm; event_loop (src/src/zwm.c:7212) takes one event and its *)
(* handler makes a sequence of requests, between which clients go on       *)
(* mapping, withdrawing and destroying their windows.  While zwm hides or  *)
(* shows a window it does not listen to SubstructureNotify                 *)
(* (set_visibility, zwm.c:4814).                                           *)
(*                                                                         *)
(* A desktop is the set of its windows.  A map handler may drop the        *)
(* request for a window, where the tree decides, if the desktop has others *)
(* (Desktops has the trees): nobody asks again but the client.  No window  *)
(* is fullscreen.  A window id is not used again.                          *)
(***************************************************************************)
EXTENDS Struts, FiniteSets, SequencesExt

CONSTANTS
  Apps,             \* windows zwm manages
  Bars,             \* docks, which it only makes room for
  NULL,
  VirtualDesktops,
  BarStruts,        \* the struts bars set
  Screens,          \* what RandR may report
  FirstScreen,      \* what it reports at the start, where wm->screen is read
  MaxQueue          \* bound: clients and keys are quiet while as many events wait

Windows    == Apps \cup Bars
DesktopIds == 0 .. VirtualDesktops - 1

ASSUME ClientsAssumption ==
  /\ Apps \cap Bars = {}
  /\ NULL \notin Windows \cup DesktopIds
  /\ IsFiniteSet(Apps) /\ IsFiniteSet(Bars)
  /\ VirtualDesktops \in 1 .. 10
  /\ MaxQueue \in Nat \ {0}
  /\ NoStrut \in BarStruts
  /\ BarStruts \subseteq [Sides -> [size : Nat, first : Int, last : Int]]
  /\ FirstScreen \in Screens
  /\ \A scr \in Screens :
       /\ scr.width \in Nat /\ scr.height \in Nat
       /\ scr.monitors \subseteq [x : Int, y : Int, width : Nat, height : Nat]

VARIABLES
  \* of the X server and the clients
  exists,         \* windows that were not destroyed
  wants,          \* managed windows their client mapped and did not withdraw since
  viewable,       \* windows the server has mapped
  display,        \* the screen and its monitors, as RandR reports them
  strut,          \* _NET_WM_STRUT_PARTIAL of each bar
  queue,          \* events on their way to zwm
  listening,      \* is SubstructureNotify in the root's event mask?
  \* of zwm
  running,        \* the process has not exited
  desk_of,        \* the desktop whose tree has the window, NULL without one
  curr,           \* curr_monitor->desk
  strut_windows,  \* the list of the same name
  screen,         \* the monitors as zwm last read them
  padding,        \* the padding of each monitor
  todo,           \* requests the handler that runs has yet to make
  \* history
  reserved,       \* the strut each bar had at the last recalculation
  unreported,     \* windows that changed while zwm did not listen
  refused,        \* windows whose request zwm dropped and no client repeated
  gave_up         \* did the last switch of desktop return half way?

server == <<exists, wants, viewable, display, strut, queue, listening>>
zwm    == <<running, desk_of, curr, strut_windows, screen, padding, todo>>
vars   == <<server, zwm, reserved, unreported, refused, gave_up>>

on(d) == {w \in Apps : desk_of[w] = d}

event(type, arg) == [type |-> type, arg |-> arg]
request(op, w)   == [op |-> op, win |-> w]

\* Events of substructure are queued while zwm listens; map requests, and what
\* clients send themselves, always.
notified(q, events) == IF listening THEN q \o events ELSE q

-----------------------------------------------------------------------------
(* The requests of a handler.                                              *)

tiles(order) == [i \in DOMAIN order |-> request("tile", order[i])]

\* set_visibility of each window in turn, which zwm does not listen to.
set_visibility(op, order) ==
  [i \in 1 .. 3 * Len(order) |->
     request(<<"mute", op, "unmute">>[1 + ((i - 1) % 3)], order[1 + ((i - 1) \div 3)])]

unmasked_hide(order) == [i \in DOMAIN order |-> request("hide", order[i])]

\* hide_windows ends with set_focus, whose failure ends the switch when the window
\* is the root of the tree; further down nobody looks at it.
hide_windows(order) ==
  set_visibility("hide", order) \o
    (IF Len(order) = 1 THEN <<request("unfocus", order[1])>> ELSE <<>>)

left_muted(order) ==
  [i \in 1 .. 2 * Len(order) |->
     request(<<"mute", "show">>[1 + ((i - 1) % 2)], order[1 + ((i - 1) \div 2)])]

show_windows(order) == set_visibility("show", order)

Init ==
  /\ exists = Windows
  /\ wants = {}
  /\ viewable = {}
  /\ strut \in [Bars -> BarStruts]
  /\ queue = <<>>
  /\ listening = TRUE
  /\ running = TRUE
  /\ desk_of = [w \in Windows |-> NULL]
  /\ curr = 0
  /\ strut_windows = {}
  /\ display = FirstScreen
  /\ screen = FirstScreen
  /\ padding = [m \in screen.monitors |-> NoPadding]
  /\ todo = <<>>
  /\ reserved = [b \in Bars |-> NoStrut]
  /\ unreported = {}
  /\ refused = {}
  /\ gave_up = FALSE

-----------------------------------------------------------------------------
(* Clients and the user.                                                   *)

\* A client that withdrew its window maps it again only when zwm has forgotten it,
\* as ICCCM asks of it; one that sees its window unmapped may ask again.
client_map(w) ==
  /\ w \in exists \ viewable
  /\ Len(queue) < MaxQueue
  /\ w \in wants \cup Bars \/ (desk_of[w] = NULL /\ \A i \in DOMAIN queue : queue[i].arg # w)
  /\ wants' = wants \cup ({w} \cap Apps)
  /\ queue' = Append(queue, event("MapRequest", w))
  /\ refused' = refused \ {w}
  /\ UNCHANGED <<exists, viewable, display, strut, listening, zwm, reserved, unreported, gave_up>>

\* XWithdrawWindow: the server unmaps the window, and the client sends an
\* UnmapNotify of its own to the root, which needs no SubstructureNotify.
client_withdraw(w) ==
  /\ w \in wants
  /\ Len(queue) < MaxQueue
  /\ wants' = wants \ {w}
  /\ viewable' = viewable \ {w}
  /\ queue' = Append(IF w \in viewable THEN notified(queue, <<event("UnmapNotify", w)>>)
                     ELSE queue, event("UnmapNotify", w))
  /\ UNCHANGED <<exists, display, strut, listening, zwm, reserved, unreported, refused, gave_up>>

\* A bar is only unmapped.
bar_unmap(b) ==
  /\ b \in Bars \cap viewable
  /\ Len(queue) < MaxQueue
  /\ viewable' = viewable \ {b}
  /\ queue' = notified(queue, <<event("UnmapNotify", b)>>)
  /\ UNCHANGED <<exists, wants, display, strut, listening, zwm, reserved, unreported, refused,
                 gave_up>>

client_destroy(w) ==
  /\ w \in exists
  /\ Len(queue) < MaxQueue
  /\ exists' = exists \ {w}
  /\ wants' = wants \ {w}
  /\ viewable' = viewable \ {w}
  /\ queue' = notified(queue, (IF w \in viewable THEN <<event("UnmapNotify", w)>> ELSE <<>>)
                              \o <<event("DestroyNotify", w)>>)
  /\ unreported' = IF listening THEN unreported ELSE unreported \cup {w}
  /\ UNCHANGED <<display, strut, listening, zwm, reserved, refused, gave_up>>

\* zwm selects PropertyNotify on the windows it manages only: no event is queued.
bar_resize(b, s) ==
  /\ b \in exists
  /\ Len(queue) < MaxQueue
  /\ strut' = [strut EXCEPT ![b] = s]
  /\ UNCHANGED <<exists, wants, viewable, display, queue, listening, zwm, reserved,
                 unreported, refused, gave_up>>

key_press(d) ==
  /\ Len(queue) < MaxQueue
  /\ queue' = Append(queue, event("KeyPress", d))
  /\ UNCHANGED <<exists, wants, viewable, display, strut, listening, zwm, reserved,
                 unreported, refused, gave_up>>

\* A monitor's rectangle changes.
screen_change(scr) ==
  /\ Len(queue) < MaxQueue
  /\ scr # display
  /\ display' = scr
  /\ queue' = Append(queue, event("ScreenChange", NULL))
  /\ UNCHANGED <<exists, wants, viewable, strut, listening, zwm, reserved, unreported,
                 refused, gave_up>>

-----------------------------------------------------------------------------
(* Handlers.                                                               *)

\* The list is updated, the padding is only ever added to.
grown_only(scr, gone) ==
  /\ strut_windows' = (strut_windows \ gone) \cup (Bars \cap exists)
  /\ reserved' = [b \in Bars |-> IF b \in exists THEN strut[b] ELSE reserved[b]]
  /\ UNCHANGED padding

\* The monitors are the ones known before the handler.
on_old_monitors(scr, gone) ==
  /\ padding' = [m \in screen.monitors |-> NoPadding]
  /\ strut_windows' = strut_windows \ gone
  /\ UNCHANGED reserved

\* recalculate_all_struts asks every child of the root, mapped or not, and keeps
\* those with a strut in the list, from which the handler may have removed gone.
recalculate_all_struts(scr, gone) ==
  LET present == {b \in Bars \cap exists : strut[b] # NoStrut /\ accepted(strut[b], FirstScreen)}
  IN  /\ padding' = [m \in scr.monitors |->
                       recalculated(m, {strut[b] : b \in present}, FirstScreen)]
      /\ strut_windows' = (strut_windows \ gone) \cup present
      /\ reserved' = [b \in Bars |-> IF b \in present THEN strut[b] ELSE NoStrut]

\* A request is not answered on a desktop that has windows.
first_only(w) ==
  /\ IF desk_of[w] # NULL \/ on(curr) # {} \/ w \notin Apps \cap exists
     THEN UNCHANGED <<desk_of, todo>>
     ELSE /\ desk_of' = [desk_of EXCEPT ![w] = curr]
          /\ todo' = tiles(<<w>>)
  /\ UNCHANGED <<running, padding, strut_windows, reserved, curr, screen, refused, gave_up>>

\* create_client exits when the window it is to manage is gone; a bar that is gone
\* has no type, so it is managed as well.  On a desktop with windows the request of a
\* tiled one is dropped if no node has the focus flag, and that of a floating one if
\* the pointer is over the root window.
handle_map_request(w) ==
  /\ IF w \notin exists
     THEN /\ running' = (desk_of[w] # NULL)
          /\ UNCHANGED <<desk_of, todo, padding, strut_windows, reserved, refused>>
     ELSE IF w \in Bars
     THEN \E order \in SetToSeqs(on(curr)) :
            /\ recalculate_all_struts(screen, {})
            /\ todo' = Append(tiles(order), request("map", w))
            /\ UNCHANGED <<running, desk_of, refused>>
     ELSE IF desk_of[w] # NULL
     THEN UNCHANGED <<running, desk_of, todo, padding, strut_windows, reserved, refused>>
     ELSE /\ \/ \E order \in SetToSeqs(on(curr) \cup {w}) :
                  /\ desk_of' = [desk_of EXCEPT ![w] = curr]
                  /\ todo' = tiles(order)
                  /\ refused' = refused \ {w}
             \/ /\ on(curr) # {}
                /\ refused' = refused \cup {w}
                /\ UNCHANGED <<desk_of, todo>>
          /\ UNCHANGED <<running, padding, strut_windows, reserved>>
  /\ UNCHANGED <<curr, screen, gave_up>>

\* Only the desktop that is shown is searched for the window.
unmap_here(w) ==
  /\ IF desk_of[w] = curr
     THEN \E order \in SetToSeqs(on(curr) \ {w}) :
            /\ desk_of' = [desk_of EXCEPT ![w] = NULL]
            /\ todo' = <<request("kill", w)>> \o tiles(order)
     ELSE UNCHANGED <<desk_of, todo>>
  /\ UNCHANGED <<running, padding, strut_windows, reserved, curr, screen, refused, gave_up>>

\* handle_unmap_notify and handle_destroy_notify do the same: kill_window, or the
\* space of a bar.
handle_unmap_notify(w) ==
  /\ IF desk_of[w] # NULL
     THEN \E order \in SetToSeqs(IF desk_of[w] = curr THEN on(curr) \ {w} ELSE {}) :
            /\ desk_of' = [desk_of EXCEPT ![w] = NULL]
            /\ todo' = <<request("kill", w)>> \o tiles(order)
            /\ UNCHANGED <<padding, strut_windows, reserved>>
     ELSE IF w \in strut_windows
     THEN \E order \in SetToSeqs(on(curr)) :
            /\ recalculate_all_struts(screen, {w})
            /\ todo' = tiles(order)
            /\ UNCHANGED desk_of
     ELSE UNCHANGED <<desk_of, todo, padding, strut_windows, reserved>>
  /\ UNCHANGED <<running, curr, screen, refused, gave_up>>

switch_desktop_wrapper(d) ==
  /\ IF d = curr THEN \E order \in SetToSeqs(on(d)) : todo' = tiles(order)
     ELSE \E from \in SetToSeqs(on(curr)), to \in SetToSeqs(on(d)) :
            todo' = hide_windows(from) \o show_windows(to) \o tiles(to)
  /\ curr' = d
  /\ gave_up' = FALSE
  /\ UNCHANGED <<running, desk_of, screen, padding, strut_windows, reserved, refused>>

\* The LAYOUT branch: the rectangles are read again, and with nothing changed that
\* is all.
handle_monitor_changes ==
  /\ screen' = display
  /\ IF display = screen THEN UNCHANGED <<padding, strut_windows, reserved, todo>>
     ELSE \E order \in SetToSeqs(on(curr)) :
            /\ recalculate_all_struts(display, {})
            /\ todo' = tiles(order)
  /\ UNCHANGED <<running, desk_of, curr, refused, gave_up>>

handle_event ==
  /\ running /\ todo = <<>> /\ queue # <<>>
  /\ queue' = Tail(queue)
  /\ LET e == Head(queue)
     IN  CASE e.type = "MapRequest" -> handle_map_request(e.arg)
           [] e.type \in {"UnmapNotify", "DestroyNotify"} -> handle_unmap_notify(e.arg)
           [] e.type = "KeyPress" -> switch_desktop_wrapper(e.arg)
           [] e.type = "ScreenChange" -> handle_monitor_changes
  /\ UNCHANGED <<exists, wants, viewable, display, strut, listening, unreported>>

\* The server carries out the next request of the handler.  tile fails on a window
\* that is gone, which ends the rendering of its tree; the unmap of kill_window and
\* those of set_visibility may fail without consequence.
x_request ==
  LET r    == Head(todo)
      gone == r.win \notin exists
  IN  /\ running /\ todo # <<>>
      /\ IF gone /\ r.op = "tile"
         THEN \E n \in 1 .. Len(todo) :
                /\ \A i \in 1 .. n : todo[i].op = "tile"
                /\ n < Len(todo) => todo[n + 1].op # "tile"
                /\ todo' = SubSeq(todo, n + 1, Len(todo))
         ELSE todo' = IF gone /\ r.op = "unfocus" THEN <<>> ELSE Tail(todo)
      /\ gave_up' = (gave_up \/ (gone /\ r.op = "unfocus"))
      /\ listening' = IF r.op = "mute" THEN FALSE ELSE IF r.op = "unmute" THEN TRUE ELSE listening
      /\ viewable' = IF r.op \in {"tile", "show", "map"} THEN viewable \cup ({r.win} \cap exists)
                     ELSE IF r.op \in {"hide", "kill"} THEN viewable \ {r.win} ELSE viewable
      /\ queue' = IF r.op \in {"hide", "kill"} /\ r.win \in viewable
                  THEN notified(queue, <<event("UnmapNotify", r.win)>>) ELSE queue
      /\ UNCHANGED <<exists, wants, display, strut, running, desk_of, curr, strut_windows, screen,
                     padding, reserved, unreported, refused>>

-----------------------------------------------------------------------------
client ==
  \/ \E w \in Windows : client_map(w) \/ client_withdraw(w) \/ client_destroy(w)
  \/ \E b \in Bars : bar_unmap(b) \/ \E s \in BarStruts : bar_resize(b, s)
  \/ \E d \in DesktopIds : key_press(d)
  \/ \E scr \in Screens : screen_change(scr)

\* The one thread of zwm, and the server that answers it.
zwm_step == x_request \/ handle_event

Next == client \/ zwm_step

\* The event loop goes on while there are events, and the server answers; nothing
\* is asked of the clients.
Spec == Init /\ [][Next]_vars /\ WF_vars(zwm_step)

-----------------------------------------------------------------------------
(* Properties.                                                             *)

TypeOK ==
  /\ exists \subseteq Windows /\ wants \subseteq Apps \cap exists /\ viewable \subseteq exists
  /\ strut \in [Bars -> BarStruts]
  /\ \A i \in DOMAIN queue : queue[i].arg \in Windows \cup DesktopIds \cup {NULL}
  /\ listening \in BOOLEAN /\ running \in BOOLEAN
  /\ desk_of \in [Windows -> DesktopIds \cup {NULL}]
  /\ curr \in DesktopIds
  /\ strut_windows \subseteq Bars
  /\ display \in Screens /\ screen \in Screens
  /\ DOMAIN padding = screen.monitors
  /\ \A i \in DOMAIN todo : todo[i].win \in Windows
  /\ reserved \in [Bars -> BarStruts]
  /\ unreported \subseteq Windows /\ refused \subseteq Apps
  /\ gave_up \in BOOLEAN

\* zwm has answered all it was told.
Quiet == running /\ todo = <<>> /\ queue = <<>>

\* Windows zwm manages and will never hear of again (zwm.c:4832).
Ghosts == {w \in unreported \cap Apps : desk_of[w] # NULL}

\* Once it has answered, zwm manages the windows clients want shown, but for those
\* whose request it dropped, and no other, and those of the current desktop are the
\* ones on the screen: no window is lost to an event zwm caused itself by hiding it
\* (zwm.c:4829), or to requests that cross.  Ghosts stop every later rendering, and a
\* switch that gave up shows nothing.
InStep ==
  Quiet /\ Ghosts = {} /\ ~gave_up =>
    \A w \in Apps : /\ desk_of[w] # NULL <=> w \in wants \ refused
                    /\ w \in viewable <=> desk_of[w] = curr

\* zwm listens again whenever it waits for an event (zwm.c:4867).
Listening == todo = <<>> => listening

\* No monitor's usable area is under a bar that zwm has made room for (zwm.c:2143).
BarsClear ==
  \A m \in screen.monitors, b \in Bars :
    ~covered(reserved[b], screen, get_usable_area(m, padding[m]))

\* A window its client withdrew or destroyed is forgotten, unless the client wants
\* it again, zwm was not told of it, or zwm exited (zwm.c:6683, 6824).
Forgotten ==
  \A w \in Apps :
    (desk_of[w] # NULL /\ w \notin wants) ~>
      (desk_of[w] = NULL \/ w \in wants \cup unreported \/ ~running)

\* A window that its client maps comes to be managed, or its request is dropped on a
\* desktop that has windows (zwm.c:5987).
ComesToBeManaged ==
  \A w \in Apps :
    w \in wants ~> (desk_of[w] # NULL \/ w \in refused \/ w \notin wants \/ ~running)

\* The space of a bar that is gone is given back (zwm.c:6838).
SpaceReturned ==
  \A b \in Bars :
    b \notin exists ~> (reserved[b] = NoStrut \/ b \in unreported \/ ~running)

=============================================================================
