------------------------------- MODULE Reload -------------------------------
(***************************************************************************)
(* The configuration file and what is made of it: parse_config             *)
(* (src/src/config_parser.c:1074), the keys it binds, which zwm grabs on   *)
(* the root window, its rules, and the number of desktops, which a reload  *)
(* changes under the windows, the keys and the pagers that were there      *)
(* before (reload_config_wrapper, src/src/zwm.c:1321).                     *)
(*                                                                         *)
(* Abstractions: one monitor; a desktop is the set of its windows, and a   *)
(* transfer succeeds (Desktops has the trees).  Of the file's variables    *)
(* only virtual_desktops is kept.  A desktop that the array does not have  *)
(* is undefined behaviour, which ends the run.                             *)
(*                                                                         *)
(* A reload that fails sets conf back and leaves the array of desktops     *)
(* alone.  When the array is the longer of the two, the next reload may    *)
(* take the desktop that is shown out of the array: curr_monitor->desk is  *)
(* then a desktop nothing else leads to, and its windows are at Detached.  *)
(***************************************************************************)
EXTENDS Integers, Sequences, FiniteSetsExt

CONSTANTS
  Windows,
  NULL,
  Files,            \* what the file may say: sequences of lines
  DefaultKeys,      \* _keys_, in the order they are tried
  DefaultDesktops,  \* NUMBER_OF_DESKTOPS
  Keymaps           \* the keycode of each keysym, NULL without one

Funcs == {"switch_desktop", "transfer_node", "cycle_desktop", "reload_config"}

\* A line is one of these; a bad one is a rule, a binding or a truth value that
\* cannot be parsed.
virtual_desktops(n)  == [key |-> "virtual_desktops", value |-> n]
bind(sym, func, arg) == [key |-> "bind", keysym |-> sym, execute |-> func, arg |-> arg]
rule(w, d)           == [key |-> "rule", win |-> w, desktop_id |-> d]
bad                  == [key |-> "bad"]

\* The number is what atoi makes of the value, and n_of_desktops has 16 bits.  Files
\* with a negative or a larger number are left out.
MaxDesktops == 65535

IsLine(l) ==
  \/ l.key = "virtual_desktops" /\ l.value \in 0 .. MaxDesktops
  \/ l.key = "bind" /\ l.execute \in Funcs
  \/ l.key = "rule" /\ l.win \in Windows
  \/ l.key = "bad"

ASSUME ReloadAssumption ==
  /\ NULL \notin Windows \cup Int
  /\ DefaultDesktops \in 1 .. MaxDesktops
  /\ \A f \in Files : /\ f \in Seq({f[i] : i \in DOMAIN f})
                      /\ \A i \in DOMAIN f : IsLine(f[i])

VARIABLES
  file,           \* the configuration file
  conf,           \* conf.virtual_desktops
  key_head,       \* the bindings read from the file
  rule_head,      \* the rules read from the file
  keymap,         \* the keyboard
  remapped,       \* is a MappingNotify on its way?
  grabbed,        \* keycodes grabbed on the root window
  is_kgrabbed,
  n_of_desktops,  \* of the monitor: the length of its array of desktops
  desk,           \* the id of curr_monitor->desk
  listed,         \* is curr_monitor->desk in the array, at that index?
  desk_of,        \* the desktop whose tree has the window, Detached, or NULL
  mapped,         \* the windows the X server has mapped
  published,      \* _NET_NUMBER_OF_DESKTOPS and _NET_CURRENT_DESKTOP
  asked,          \* the desktop a pager's message on its way asks for, or NULL
  running,        \* FALSE once zwm has used a desktop its array does not have
  \* history
  counted         \* has conf never said fewer desktops than the array has?

conf_vars    == <<conf, counted>>
key_vars     == <<key_head, rule_head, grabbed, is_kgrabbed>>
desktop_vars == <<n_of_desktops, desk, listed, desk_of, mapped, published>>
outside      == <<file, keymap, remapped, asked>>
vars         == <<conf_vars, key_vars, desktop_vars, outside, running>>

\* Where the windows are whose desktop is shown and no longer in the array.
Detached == -1

on(d) == {w \in Windows : desk_of[w] = d}

\* Where the windows of curr_monitor->desk are.
here == IF listed THEN desk ELSE Detached

-----------------------------------------------------------------------------
(* The parser.                                                             *)

\* switch_desktop and transfer_node take their argument, 8 bits wide, from the key.
set_key_args(l) ==
  [keysym |-> l.keysym, execute |-> l.execute,
   arg |-> IF l.execute \in {"switch_desktop", "transfer_node"}
            THEN (l.keysym - 1) % 256 ELSE l.arg]

\* Lines are read up to the first bad one.
lines_read(f) == {i \in DOMAIN f : \A j \in 1 .. i : f[j].key # "bad"}
entries(f, key) == {i \in lines_read(f) : f[i].key = key}

\* The last number of desktops counts; without one it stays what the caller set.
number_of_desktops(f, default) ==
  LET numbers == entries(f, "virtual_desktops")
  IN  IF numbers = {} THEN default ELSE f[Max(numbers)].value

\* The lists of bindings and rules are in the order of their lines.
parse_config(f, default) ==
  [ok       |-> lines_read(f) = DOMAIN f,
   desktops |-> number_of_desktops(f, default),
   keys     |-> [i \in entries(f, "bind") |-> set_key_args(f[i])],
   rules    |-> [i \in entries(f, "rule") |-> f[i]]]

\* What the keys do: those read from the file, if any.
bound(keys) == IF DOMAIN keys # {} THEN keys ELSE DefaultKeys

\* grab_keys gives up at a key the keyboard lacks.
grabbable(ks, map) ==
  {i \in DOMAIN ks : \A j \in DOMAIN ks : map[ks[j].keysym] = NULL => i < j}

\* The keys grabbed are added to those before.
grab_keys(keys, map, before, flag) ==
  LET ks == bound(keys)
  IN  /\ grabbed' = before \cup {map[ks[i].keysym] : i \in grabbable(ks, map)}
      /\ is_kgrabbed' = (flag \/ grabbable(ks, map) = DOMAIN ks)

\* main: load_config, setup_desktops, grab_keys.
Init ==
  /\ file \in Files
  /\ keymap \in Keymaps
  /\ LET c  == parse_config(file, 0)
         n  == IF c.ok THEN c.desktops ELSE DefaultDesktops
         ks == bound(c.keys)
     IN  /\ key_head = c.keys
         /\ rule_head = c.rules
         /\ conf = n
         /\ n_of_desktops = n
         /\ running = (n > 0)
         /\ published = [number |-> n, current |-> 0]
         /\ grabbed = {keymap[ks[i].keysym] : i \in grabbable(ks, keymap)}
         /\ is_kgrabbed = (grabbable(ks, keymap) = DOMAIN ks)
  /\ remapped = FALSE
  /\ desk = 0
  /\ listed = TRUE
  /\ desk_of = [w \in Windows |-> NULL]
  /\ mapped = {}
  /\ asked = NULL
  /\ counted = TRUE

-----------------------------------------------------------------------------
(* Switching and moving.                                                   *)

crash == running' = FALSE /\ UNCHANGED desktop_vars

kept_all(n) == {}
gone_one(n) == {w \in Windows : desk_of[w] # NULL /\ desk_of[w] >= n - 1}

\* The windows on desktops from n on.
gone(n) == {w \in Windows : desk_of[w] # NULL /\ desk_of[w] >= n}

\* What is left of the trees when the array is cut at n and current is shown: a tree
\* that is not in the array is lost, unless it is the one that is shown.
trees(n, current) ==
  [w \in Windows |-> IF w \notin gone(n) \cup on(Detached) THEN desk_of[w]
                     ELSE IF desk_of[w] = current THEN Detached ELSE NULL]

unhidden(d) == mapped \cup on(d)

\* What is mapped once desktop d is the current one.
shown_at(d) == IF d = here THEN mapped ELSE (mapped \ on(here)) \cup on(d)

\* The number is checked against conf, and conf itself passes.
switch_desktop(d) ==
  IF d > conf THEN UNCHANGED <<desktop_vars, running>>
  ELSE IF d \notin 0 .. n_of_desktops - 1 THEN crash
  ELSE /\ desk' = d
       /\ listed' = TRUE
       /\ mapped' = shown_at(d)
       /\ desk_of' = trees(n_of_desktops, d)
       /\ published' = [published EXCEPT !.current = d]
       /\ UNCHANGED <<n_of_desktops, running>>

\* The next desktop is rendered whether switch_desktop went there or refused.
cycle_desktop_wrapper(d) ==
  LET step == IF d = "RIGHT" THEN 1 ELSE -1
      next == (desk + step + n_of_desktops) % n_of_desktops
  IN  IF ~listed THEN UNCHANGED <<desktop_vars, running>>
      ELSE IF next > conf THEN /\ mapped' = mapped \cup on(next)
                               /\ UNCHANGED <<n_of_desktops, desk, listed, desk_of, published, running>>
      ELSE switch_desktop(next)

\* The focused window is any of the desktop; no bound is checked.
transfer_node_wrapper(d) ==
  IF d = desk \/ on(here) = {} THEN UNCHANGED <<desktop_vars, running>>
  ELSE IF d \notin 0 .. n_of_desktops - 1 THEN crash
  ELSE \E w \in on(here) :
         /\ desk_of' = [desk_of EXCEPT ![w] = d]
         /\ mapped' = mapped \ {w}
         /\ UNCHANGED <<n_of_desktops, desk, listed, published, running>>

-----------------------------------------------------------------------------
(* Reloading.                                                              *)

stays(n) == desk

\* The desktops from n up to what conf said before are freed; when the current one has
\* the number of one of them, zwm switches to the first.
home(n) == IF desk \in n .. conf - 1 THEN 0 ELSE desk

\* What the pagers are told in the end, once array and current desktop are settled.
told(n, d) == [number |-> n, current |-> d]

\* Every desktop from what conf said before is a new, empty one, also where the array
\* had others.  Those between the length of the array and what conf said before are
\* never set, and their names are read right after.
more_desktops(n) ==
  IF conf > n_of_desktops THEN crash
  ELSE /\ n_of_desktops' = n
       /\ listed' = (listed /\ desk < conf)
       /\ desk_of' = trees(conf, here)
       /\ published' = told(n, desk)
       /\ UNCHANGED <<desk, mapped, running>>

\* Without a desktop left there is nowhere to switch to, and after a reload that
\* failed conf may count desktops that the array never had.
fewer_desktops(n) ==
  IF conf > n_of_desktops \/ n = 0 THEN crash
  ELSE LET d    == home(n)
           goes == d # desk
       IN  /\ n_of_desktops' = n
           /\ desk' = d
           /\ listed' = (goes \/ (listed /\ desk < n))
           /\ mapped' = IF goes THEN shown_at(d) ELSE mapped
           /\ desk_of' = trees(n, IF goes THEN d ELSE here)
           /\ published' = told(n, d)
           /\ UNCHANGED running

\* conf says at least as many desktops as the array has.
Counted == running => conf >= n_of_desktops

\* Everything is zeroed and read anew.  When the file cannot be read to its end conf
\* gets its defaults, the desktops stay and so do the bindings read so far.  (The tree
\* that is rendered in the end is on the screen already.)
reload_config_wrapper ==
  LET c == parse_config(file, 0)
  IN  /\ key_head' = c.keys
      /\ rule_head' = c.rules
      /\ grab_keys(c.keys, keymap, {}, FALSE)
      /\ conf' = IF c.ok THEN c.desktops ELSE DefaultDesktops
      /\ IF c.ok /\ c.desktops > conf THEN more_desktops(c.desktops)
         ELSE IF c.ok /\ c.desktops < conf THEN fewer_desktops(c.desktops)
         ELSE UNCHANGED <<desktop_vars, running>>
      /\ counted' = (counted /\ Counted')

-----------------------------------------------------------------------------
(* Handlers.                                                               *)

run_key(b) ==
  \/ b.execute = "reload_config" /\ reload_config_wrapper
  \/ /\ UNCHANGED <<conf_vars, key_vars>>
     /\ \/ b.execute = "switch_desktop" /\ switch_desktop(b.arg)
        \/ b.execute = "transfer_node" /\ transfer_node_wrapper(b.arg)
        \/ b.execute = "cycle_desktop" /\ cycle_desktop_wrapper(b.arg)

\* The first binding of the key that was pressed; a key grabbed for nothing is lost.
handle_key_press(sym) ==
  LET ks == bound(key_head)
      is == {i \in DOMAIN ks : ks[i].keysym = sym}
  IN  /\ running
      /\ keymap[sym] \in grabbed
      /\ UNCHANGED outside
      /\ IF is # {} THEN run_key(ks[Min(is)])
         ELSE UNCHANGED <<conf_vars, key_vars, desktop_vars, running>>

trusts_flag ==
  /\ running /\ remapped
  /\ remapped' = FALSE
  /\ IF is_kgrabbed THEN UNCHANGED <<grabbed, is_kgrabbed>>
     ELSE grab_keys(key_head, keymap, grabbed, FALSE)
  /\ UNCHANGED <<conf_vars, key_head, rule_head, desktop_vars, file, keymap, asked, running>>

\* After a failure nothing is released: what was grabbed stays grabbed.
handle_mapping_notify ==
  /\ running /\ remapped
  /\ remapped' = FALSE
  /\ grab_keys(key_head, keymap, IF is_kgrabbed THEN {} ELSE grabbed, FALSE)
  /\ UNCHANGED <<conf_vars, key_head, rule_head, desktop_vars, file, keymap, asked, running>>

\* The first rule that names the window may send it to a desktop that is not shown,
\* whatever its number, -1 meaning none.  The number is compared with the id of the
\* current desktop.
handle_map_request(w) ==
  LET is     == {i \in DOMAIN rule_head : rule_head[i].win = w}
      id     == IF is = {} THEN -1 ELSE rule_head[Min(is)].desktop_id
      target == IF id = -1 THEN desk ELSE id - 1
  IN  /\ running
      /\ desk_of[w] = NULL /\ w \notin mapped
      /\ UNCHANGED <<conf_vars, key_vars, outside>>
      /\ IF target = desk
         THEN /\ desk_of' = [desk_of EXCEPT ![w] = here]
              /\ mapped' = mapped \cup {w}
              /\ UNCHANGED <<n_of_desktops, desk, listed, published, running>>
         ELSE IF target \notin 0 .. n_of_desktops - 1 THEN crash
         ELSE /\ desk_of' = [desk_of EXCEPT ![w] = target]
              /\ UNCHANGED <<n_of_desktops, desk, listed, mapped, published, running>>

\* The window is looked for in the array.  Clients whose window is in no tree of the
\* array leave it as it is.
handle_unmap_notify(w) ==
  /\ running
  /\ desk_of[w] \in 0 .. n_of_desktops - 1
  /\ desk_of' = [desk_of EXCEPT ![w] = NULL]
  /\ mapped' = mapped \ {w}
  /\ UNCHANGED <<conf_vars, key_vars, outside, n_of_desktops, desk, listed, published, running>>

\* The atom of _NET_NUMBER_OF_DESKTOPS, which the message is checked against, is
\* larger than any number a pager asks for.
handle_net_desktop_change ==
  /\ running /\ asked # NULL
  /\ switch_desktop(asked)
  /\ asked' = NULL
  /\ UNCHANGED <<conf_vars, key_vars, file, keymap, remapped>>

-----------------------------------------------------------------------------
(* The user, the keyboard and a pager, which asks for what it sees published. *)

edit_config(f) ==
  /\ running
  /\ file' = f
  /\ UNCHANGED <<conf_vars, key_vars, desktop_vars, keymap, remapped, asked, running>>

change_keymap(m) ==
  /\ running
  /\ keymap' = m
  /\ remapped' = TRUE
  /\ UNCHANGED <<conf_vars, key_vars, desktop_vars, file, asked, running>>

pager_asks(d) ==
  /\ running /\ asked = NULL
  /\ asked' = d
  /\ UNCHANGED <<conf_vars, key_vars, desktop_vars, file, keymap, remapped, running>>

Next ==
  \/ \E sym \in DOMAIN keymap : handle_key_press(sym)
  \/ handle_mapping_notify
  \/ \E w \in Windows : handle_map_request(w) \/ handle_unmap_notify(w)
  \/ handle_net_desktop_change
  \/ \E f \in Files : edit_config(f)
  \/ \E m \in Keymaps : change_keymap(m)
  \/ \E d \in 0 .. published.number - 1 : pager_asks(d)

Spec == Init /\ [][Next]_vars

-----------------------------------------------------------------------------
(* Properties.                                                             *)

\* No window is on a desktop that a reload has freed or cut off (zwm.c:1431).
TypeOK ==
  /\ file \in Files /\ keymap \in Keymaps
  /\ conf \in 0 .. MaxDesktops /\ n_of_desktops \in 0 .. MaxDesktops
  /\ \A i \in DOMAIN key_head : key_head[i].execute \in Funcs
  /\ \A i \in DOMAIN rule_head : rule_head[i].win \in Windows
  /\ {remapped, is_kgrabbed, running, listed, counted} \subseteq BOOLEAN
  /\ desk \in 0 .. MaxDesktops
  /\ published \in [number : 0 .. MaxDesktops, current : 0 .. MaxDesktops]
  /\ desk_of \in [Windows -> (0 .. n_of_desktops - 1) \cup {Detached, NULL}]
  /\ mapped \subseteq Windows
  /\ asked \in (0 .. MaxDesktops) \cup {NULL}

\* What files have to ask for that conf never says fewer desktops than the array has:
\* otherwise a reload that fails breaks it.
FewDesktops ==
  \A f \in Files : \A i \in DOMAIN f :
    f[i].key = "virtual_desktops" => f[i].value <= DefaultDesktops

\* Pagers are told the truth, however files, keys and messages on their way follow each
\* other, and also when a reload takes the current desktop out of the array; but for
\* that case the current desktop is one of those they are told of (zwm.c:1443, 1452, 5283).
PagerInformed ==
  running => /\ published = [number |-> n_of_desktops, current |-> desk]
             /\ counted => published.current < published.number

\* curr_monitor->desk is a desktop that the array still has, and the windows on the
\* screen are its own, also after the desktop that was shown is removed by a reload,
\* unless one that failed has left conf below the length of the array (zwm.c:1423).
OnlyShown == running /\ counted => listed /\ mapped = on(desk)

\* Until the client withdraws it, a window stays managed, unless a reload removes
\* the desktop it is on, under the same condition (zwm.c:1427).
Kept ==
  [][\A w \in Windows :
       counted /\ desk_of[w] # NULL /\ desk_of[w]' = NULL =>
         handle_unmap_notify(w) \/ desk_of[w] >= n_of_desktops']_vars

\* When zwm takes its keys for grabbed, every key that does something is: no binding
\* is dead after a reload, or after the keyboard changed and zwm was told.
BoundKeysGrabbed ==
  is_kgrabbed /\ ~remapped =>
    LET ks == bound(key_head) IN \A i \in DOMAIN ks : keymap[ks[i].keysym] \in grabbed

=============================================================================
