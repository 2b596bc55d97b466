------------------------------- MODULE Struts -------------------------------
(***************************************************************************)
(* The space bars reserve at the edges of the screen: ewmh_handle_struts,  *)
(* recalculate_all_struts and get_usable_area (src/src/zwm.c:1984) as      *)
(* functions of the struts that the children of the root window carry.     *)
(*                                                                         *)
(* A strut is a record of its four sides, each the size it reserves, from  *)
(* the edge of the whole screen, and the range of pixels it spans along    *)
(* that edge (_NET_WM_STRUT_PARTIAL).  A monitor is its rectangle.  The    *)
(* clamps to INT16_MAX are left out: screens are smaller.                  *)
(***************************************************************************)
EXTENDS Integers, FiniteSetsExt

Sides == {"left", "right", "top", "bottom"}

NoSide  == [size |-> 0, first |-> 0, last |-> 0]
NoStrut == [side \in Sides |-> NoSide]

NoPadding == [side \in Sides |-> 0]

contains(a, b, c, d) == a <= c /\ b >= d

\* Both ends count, so ranges that only touch overlap; of each range the ends may
\* come in either order.
ranges_overlap(a, b, c, d) ==
  \E i, j \in {a, b}, k, l \in {c, d} : i <= k /\ j >= l

\* How far a strut side of this size reaches into the monitor m.
reach(m, side, size, screen) ==
  CASE side = "left"   -> size - m.x
    [] side = "right"  -> m.x + m.width - (screen.width - size)
    [] side = "top"    -> size - m.y
    [] side = "bottom" -> m.y + m.height - (screen.height - size)

spans(m, side, s) ==
  IF side \in {"left", "right"}
  THEN ranges_overlap(s.first, s.last, m.y, m.y + m.height)
  ELSE ranges_overlap(s.first, s.last, m.x, m.x + m.width)

\* Unreasonably large struts are rejected as a whole.
accepted(strut, screen) ==
  /\ strut.left.size < screen.width /\ strut.right.size < screen.width
  /\ strut.top.size < screen.height /\ strut.bottom.size < screen.height

\* What one strut asks of a side of m; nothing when it does not reach it.
ewmh_handle_struts(m, side, strut, screen) ==
  LET s == strut[side]
  IN  IF accepted(strut, screen) /\ s.size > 0 /\ spans(m, side, s)
      THEN reach(m, side, s.size, screen) ELSE 0

\* The padding of m: from nothing, the furthest reach of all struts on each side.
recalculated(m, struts, screen) ==
  [side \in Sides |->
     Max({0} \cup {ewmh_handle_struts(m, side, strut, screen) : strut \in struts})]

get_usable_area(m, padding) ==
  [x      |-> m.x + padding.left,
   y      |-> m.y + padding.top,
   width  |-> Max({0, m.width - padding.left - padding.right}),
   height |-> Max({0, m.height - padding.top - padding.bottom})]

-----------------------------------------------------------------------------
(* What the extended window manager hints mean by a strut: a side of it    *)
(* takes a band of the screen, between the ends of its range in either     *)
(* order.                                                                  *)

band(strut, side, screen) ==
  LET s    == strut[side]
      from == IF s.first <= s.last THEN s.first ELSE s.last
      to   == IF s.first <= s.last THEN s.last ELSE s.first
      long == to - from + 1
  IN  CASE side = "left"   -> [x |-> 0, y |-> from, width |-> s.size, height |-> long]
        [] side = "right"  -> [x |-> screen.width - s.size, y |-> from,
                               width |-> s.size, height |-> long]
        [] side = "top"    -> [x |-> from, y |-> 0, width |-> long, height |-> s.size]
        [] side = "bottom" -> [x |-> from, y |-> screen.height - s.size,
                               width |-> long, height |-> s.size]

overlap(a, b) ==
  /\ a.width > 0 /\ a.height > 0 /\ b.width > 0 /\ b.height > 0
  /\ a.x < b.x + b.width /\ b.x < a.x + a.width
  /\ a.y < b.y + b.height /\ b.y < a.y + a.height

covered(strut, screen, r) == \E side \in Sides : overlap(band(strut, side, screen), r)

=============================================================================
