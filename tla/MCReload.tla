------------------------------ MODULE MCReload ------------------------------
(***************************************************************************)
(* Instances of Reload for TLC: files with one, three or four desktops,    *)
(* two that cannot be read to their end and one that names no number of    *)
(* desktops.  The key 0 reloads; the keys 1 to 3 are the digits.           *)
(***************************************************************************)
EXTENDS Reload, TLC

CONSTANTS w1, w2

reload(sym) == bind(sym, "reload_config", NULL)
to(sym)     == bind(sym, "switch_desktop", NULL)
send(sym)   == bind(sym, "transfer_node", NULL)
right(sym)  == bind(sym, "cycle_desktop", "RIGHT")

MCDefaultKeys ==
  <<set_key_args(reload(0)), set_key_args(to(1)), set_key_args(to(3)), set_key_args(right(2))>>

ThreeDesktops == <<virtual_desktops(3), reload(0), right(1), to(3), rule(w1, 3)>>
FourDesktops  == <<rule(w2, 4), reload(0), virtual_desktops(4), send(2), right(3)>>
OneDesktop    == <<rule(w1, -1), virtual_desktops(1), reload(0), to(1), right(3)>>
Broken        == <<virtual_desktops(2), reload(0), to(2), bad, to(1)>>
Unfinished    == <<bad>>
NoNumber      == <<reload(0), to(1)>>

MCFiles == {FourDesktops, ThreeDesktops, OneDesktop, Broken, Unfinished, NoNumber}

\* The digits may move, and the second keyboard lacks one of them.
keyboard(k) == [sym \in 0 .. 3 |-> k[sym + 1]]
MCKeymaps == {keyboard(<<10, 11, 12, 13>>), keyboard(<<10, 12, 11, NULL>>)}
=============================================================================
