----------------------------- MODULE MCStacking -----------------------------
(***************************************************************************)
(* Instances of Stacking for TLC.  Only the order of the recencies         *)
(* matters, so the view shows which window was used before which instead   *)
(* of the counters, which grow without bound.  Where a window zwm does not *)
(* manage is in the stack makes no difference either (mapping it restacks  *)
(* it), nor does the order of the published list, which zwm never reads.   *)
(* The number of pairs never varies: taking it makes TLC enumerate them.   *)
(***************************************************************************)
EXTENDS Stacking, TLC

CONSTANTS w1, w2, w3

MCOrder == <<w1, w2, w3>>

Two     == <<w1, w2>>

\* w2 is a dialog of w1.
Dialog == [w \in Windows |-> IF w = w2 THEN w1 ELSE NULL]

Nothing == [w \in Windows |-> {}]
Pointer == [focus_follow_pointer |-> TRUE, focus_follow_spawn |-> TRUE, restore_last_focus |-> TRUE]
Clicks == [focus_follow_pointer |-> FALSE, focus_follow_spawn |-> FALSE, restore_last_focus |-> FALSE]
Both == {Pointer, Clicks}
NoRules == [w \in Windows |-> NULL]
OneRule == [w \in Windows |-> IF w = w1 THEN 1 ELSE NULL]

\* Bound: only w1 is ever made fullscreen, or asked to change its state.
OneChanges ==
  \A w \in Windows \ {w1} :
    /\ "FULLSCREEN" \notin net_wm_state[w]
    /\ client[w] # NULL =>
         client[w].state # "FULLSCREEN" /\ client[w].ewmh_state \cap {"ABOVE", "FULLSCREEN"} = {}

View ==
  <<[w \in Windows |-> IF client[w] = NULL THEN NULL ELSE [client[w] EXCEPT !.mru_seq = 0]],
    {<<v, w>> \in Managed \X Managed : client[v].mru_seq < client[w].mru_seq},
    conf, layout, curr, focused_win, mapped, net_wm_state, stacking \cap (Managed \X Managed),
    [w \in Windows |-> Cardinality({i \in DOMAIN published : published[i] = w})],
    loose \cap Managed, Cardinality(stacking)>>
=============================================================================
