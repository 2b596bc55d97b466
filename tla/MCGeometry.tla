----------------------------- MODULE MCGeometry -----------------------------
EXTENDS Geometry, TLC

CONSTANTS w1, w2, w3

MCMalloc(S) == CHOOSE n \in S : \A m \in S : n <= m

Area(x, y, w, h) == Rectangle(Sides(x, y), Sides(w, h))

MCAreas == {Area(0, 0, 79, 83), Area(0, 8, 79, 75)}

\* x86-64: the conversion is to 32 bits, and the lower half is stored.
Wraps(v) == v % 65536

\* A change of the gap, or a bar that comes, is the last step.
Whole == Area(0, 0, 79, 83)

Bounded == running /\ window_gap = FirstGap /\ usable = Whole

Term ==
  LET term[n \in Nodes] ==
        <<heap[n].is_master, rect[n], split[n],
          IF heap[n].first = NULL THEN <<>> ELSE term[heap[n].first],
          IF heap[n].second = NULL THEN <<>> ELSE term[heap[n].second]>>
  IN  IF tree = NULL THEN <<>> ELSE term[tree]

\* Makes TLC evaluate the functions that the view leaves out.
Evaluated == heap = heap /\ rect = rect /\ split = split

View == <<Term, layout, window_gap, usable, running, Evaluated>>
=============================================================================
