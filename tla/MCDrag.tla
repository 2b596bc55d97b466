-------------------------------- MODULE MCDrag --------------------------------
(***************************************************************************)
(* Instances of Drag for TLC, as in MCDesktops: the view shows each tree   *)
(* as a term in which the nodes that sessions hold are marked.             *)
(***************************************************************************)
EXTENDS Drag, TLC

CONSTANTS w1, w2, w3

MCMalloc(S) == CHOOSE n \in S : \A m \in S : n <= m

NoRules == [w \in Windows |-> NULL]

\* The nodes that sessions hold.
HeldNodes == {drag.src_node, mouse.node} \ {NULL}

\* Bound: nothing is explored beyond a drop that has broken a tree, or beyond a
\* handler that frees the node of a session.
Whole == Linked /\ HeldNodes \cap FreeNodes(heap) = {}

Term(h, r) ==
  LET term[n \in Nodes] ==
        <<h[n].type, h[n].client, h[n].is_focused, h[n].is_master, h[n].frect,
          n = drag.src_node, n = mouse.node,
          IF h[n].first = NULL THEN <<>> ELSE term[h[n].first],
          IF h[n].second = NULL THEN <<>> ELSE term[h[n].second]>>
  IN  IF r = NULL THEN <<>> ELSE term[r]

DragView ==
  <<IF Whole THEN [d \in DesktopIds |-> Term(heap, tree[d])]
    ELSE <<heap, tree, drag.src_node, mouse.node>>,
    layout, n_count, curr, state, focused_win, mapped, requested, running,
    drag.active, drag.window, mouse.op, grabbed>>

=============================================================================
