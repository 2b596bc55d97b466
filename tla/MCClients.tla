----------------------------- MODULE MCClients -----------------------------
(***************************************************************************)
(* Instances of Clients for TLC: screens of a few pixels, and struts at    *)
(* each of their edges.                                                    *)
(***************************************************************************)
EXTENDS Clients, TLC

CONSTANTS w1, w2, b1

rect(x, y, w, h) == [x |-> x, y |-> y, width |-> w, height |-> h]
arrangement(w, h, monitors) == [width |-> w, height |-> h, monitors |-> monitors]

\* Two monitors side by side, the second lower; and one above the other.
Beside  == arrangement(6, 5, {rect(0, 0, 3, 4), rect(3, 1, 3, 4)})
Stacked == arrangement(6, 5, {rect(0, 0, 6, 3), rect(1, 3, 4, 2)})

TwoScreens == {Beside, Stacked}

\* A bar with something at every edge, the range of one the wrong way round.
side(size, first, last) == [size |-> size, first |-> first, last |-> last]
Frame == [top |-> side(1, 0, 3), bottom |-> side(2, 3, 5), left |-> side(4, 1, 4),
          right |-> side(1, 2, 0)]

FrameStruts == {NoStrut, Frame}
=============================================================================
