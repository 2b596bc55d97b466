------------------------------ MODULE MCDesktops ------------------------------
(***************************************************************************)
(* Instances of Desktops for TLC.  Node addresses are numbers and malloc   *)
(* returns the least free one.  Which address a node has makes no          *)
(* difference to any property, so the view identifies states whose trees   *)
(* are the same up to addresses: it shows each tree as a term, and keeps   *)
(* apart the heaps that are not made of well-formed trees only.  Nothing   *)
(* reads last_focused unless restore_last_focus is set.                    *)
(***************************************************************************)
EXTENDS Desktops, TLC

CONSTANTS w1, w2, w3

MCMalloc(S) == CHOOSE n \in S : \A m \in S : n <= m

NoRules == [w \in Windows |-> NULL]
OneRule == [w \in Windows |-> IF w = w3 THEN 1 ELSE NULL]

Symmetry == Permutations(Windows)

Term(h, r) ==
  LET term[n \in Nodes] ==
        <<h[n].type, h[n].client, h[n].is_focused, h[n].is_master, h[n].frect,
          IF h[n].first = NULL THEN <<>> ELSE term[h[n].first],
          IF h[n].second = NULL THEN <<>> ELSE term[h[n].second]>>
  IN  IF r = NULL THEN <<>> ELSE term[r]

View ==
  <<[d \in DesktopIds |-> Term(heap, tree[d])], Cardinality(FreeNodes(heap)), Linked,
    layout, n_count, IF RestoreLastFocus THEN last_focused ELSE <<>>, curr, state, focused_win, mapped, requested,
    running>>
==============================================================================
