------------------------------ MODULE MCMonitors ------------------------------
(***************************************************************************)
(* Instance of Monitors for TLC: a laptop with one external output.        *)
(***************************************************************************)
EXTENDS Monitors, TLC

CONSTANTS eDP, HDMI

MCMalloc(S) == CHOOSE a \in S : \A b \in S : a <= b

Laptop == <<eDP, HDMI>>

\* Nothing reads a desktop's n_count, and the run with this view states no property
\* of it; nor the rectangle of an empty tree, which is set again with its first window.
View ==
  <<hardware, pointers, multi_monitors, mapped, running,
    [a \in Addresses |->
       [mon[a] EXCEPT !.n_count = <<>>,
                      !.area = [d \in DesktopIds |->
                                  IF mon[a].tree[d] = {} THEN NULL ELSE @[d]]]]>>

Symmetry == Permutations(Windows)
==============================================================================
