------------------------------ MODULE Placement ------------------------------
(***************************************************************************)
(* What a user may expect of the desktops: every window is on one desktop  *)
(* or on none, only windows of the current one are on the screen, and each *)
(* event does one thing.  A window is hidden only because it is closed or  *)
(* moved, or by a switch, and a switch brings up all the windows of the    *)
(* desktop it goes to.  Desktops is shown to implement this: its trees,    *)
(* layouts and counters are ways to do it.                                 *)
(***************************************************************************)

CONSTANTS Windows, DesktopIds, NULL

VARIABLES
  place,    \* the desktop of each window, NULL for one that is not managed
  current,  \* the desktop that is shown
  shown     \* the windows on the screen

vars == <<place, current, shown>>

on(p, d) == {w \in Windows : p[w] = d}

Init ==
  /\ place = [w \in Windows |-> NULL]
  /\ current \in DesktopIds
  /\ shown = {}

\* The windows S stay on the screen, and others of the current desktop may come up.
Keeps(S) == S \subseteq shown' /\ shown' \subseteq on(place', current')

\* A window comes to be managed, on the current desktop or where its rule says.
Open(w, d) ==
  /\ place[w] = NULL
  /\ place' = [place EXCEPT ![w] = d]
  /\ Keeps(shown)
  /\ d = current => w \in shown'
  /\ UNCHANGED current

Close(w) ==
  /\ place[w] # NULL
  /\ place' = [place EXCEPT ![w] = NULL]
  /\ Keeps(shown \ {w})
  /\ UNCHANGED current

Move(w, d) ==
  /\ place[w] # NULL
  /\ place' = [place EXCEPT ![w] = d]
  /\ Keeps(shown \ {w})
  /\ UNCHANGED current

Switch(d) ==
  /\ d # current
  /\ current' = d
  /\ shown' = on(place, d)
  /\ UNCHANGED place

\* Another order, layout or state of the windows.
Rearrange == Keeps(shown) /\ UNCHANGED <<place, current>>

Next ==
  \/ Rearrange
  \/ \E d \in DesktopIds : Switch(d)
  \/ \E w \in Windows : Close(w) \/ \E d \in DesktopIds : Open(w, d) \/ Move(w, d)

Spec == Init /\ [][Next]_vars
=============================================================================
