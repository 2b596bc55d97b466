---------------------------- MODULE Reload_proofs ----------------------------
(***************************************************************************)
(* What a reload of the configuration leaves true, for every set of files, *)
(* every keyboard and every default.  Always: pagers are told the truth,   *)
(* no window is on a desktop that is gone, and no binding is dead.  Until  *)
(* conf says fewer desktops than the array has (counted): the current      *)
(* desktop is in the array, only its windows are on the screen, and no     *)
(* window is lost but with its desktop.  That conf never says fewer is     *)
(* proved of files that ask for no more desktops than a reload that fails. *)
(*                                                                         *)
(* Under Counted a number that conf refuses is one the array refuses too,  *)
(* and a number it lets through is either a desktop or the end of the run. *)
(***************************************************************************)
EXTENDS Reload, TLAPS, WellFoundedInduction

-----------------------------------------------------------------------------
(* The last of several lines.                                              *)

Before == OpToRel(<, Nat)

\* Before holds of two numbers in increasing order.
LEMMA BeforeIs == \A x, y \in Nat : x < y => <<x, y>> \in Before
BY DEF Before, OpToRel

\* A set of numbers that is not empty has a least element.
LEMMA LeastIn ==
  ASSUME NEW T, T \subseteq Nat, T # {}
  PROVE  \E x \in T : \A y \in T : ~(y < x)
<1>1. IsWellFoundedOn(Before, Nat)
  BY NatLessThanWellFounded DEF Before
<1>2. \E x \in T : \A y \in T : ~(<<y, x>> \in Before)
  BY <1>1, WFMin
<1> QED BY <1>2, BeforeIs

\* The last of several lines is one of them (parse_config keeps the last value).
LEMMA MaxIn ==
  ASSUME NEW n \in Nat, NEW S, S \subseteq 1 .. n, S # {}
  PROVE  Max(S) \in S
<1> DEFINE T == {n - i : i \in S}
<1>1. T \subseteq Nat
  OBVIOUS
<1>2. T # {}
  <2>1. PICK i \in S : TRUE
    OBVIOUS
  <2>2. n - i \in T
    OBVIOUS
  <2> QED BY <2>2
<1>3. PICK x \in T : \A y \in T : ~(y < x)
  <2> HIDE DEF T
  <2> QED BY <1>1, <1>2, LeastIn
<1>4. PICK i \in S : x = n - i
  OBVIOUS
<1>5. \A j \in S : i >= j
  <2> TAKE j \in S
  <2>1. n - j \in T
    OBVIOUS
  <2>2. ~(n - j < n - i)
    BY <2>1, <1>3, <1>4
  <2> QED BY <2>2
<1> QED BY <1>5 DEF Max

\* A desktop is a number, Detached is no desktop of the array, and NULL is no number.
LEMMA Numbers == /\ DefaultDesktops \in 1 .. MaxDesktops /\ MaxDesktops \in Nat
                 /\ Detached = -1
                 /\ NULL \notin Int /\ NULL \notin Windows
<1>1. MaxDesktops \in Nat
  BY DEF MaxDesktops
<1>2. NULL \notin Int /\ NULL \notin Windows /\ DefaultDesktops \in 1 .. MaxDesktops
  BY ReloadAssumption
<1> QED BY <1>1, <1>2 DEF Detached

\* A file that is read, to its end or not, gives a number of desktops that one of its
\* lines asks for, or none, and its bindings and rules are those of its lines.
LEMMA Parsed ==
  ASSUME NEW f \in Files
  PROVE  /\ parse_config(f, 0).desktops \in 0 .. MaxDesktops
         /\ FewDesktops => parse_config(f, 0).desktops <= DefaultDesktops
         /\ \A i \in DOMAIN parse_config(f, 0).keys :
              parse_config(f, 0).keys[i].execute \in Funcs
         /\ \A i \in DOMAIN parse_config(f, 0).rules :
              parse_config(f, 0).rules[i].win \in Windows
<1>1. Len(f) \in Nat /\ DOMAIN f = 1 .. Len(f)
  <2>1. f \in Seq({f[i] : i \in DOMAIN f})
    BY ReloadAssumption
  <2> QED BY <2>1
<1>2. \A i \in DOMAIN f : IsLine(f[i])
  BY ReloadAssumption
<1>3. /\ number_of_desktops(f, 0) \in 0 .. MaxDesktops
      /\ FewDesktops => number_of_desktops(f, 0) <= DefaultDesktops
  <2> DEFINE numbers == entries(f, "virtual_desktops")
  <2>1. numbers \subseteq 1 .. Len(f)
    BY <1>1 DEF entries, lines_read
  <2>2. \A i \in numbers : f[i].value \in 0 .. MaxDesktops
    BY <1>2 DEF entries, lines_read, IsLine
  <2>3. FewDesktops => \A i \in numbers : f[i].value <= DefaultDesktops
    BY DEF FewDesktops, entries, lines_read
  <2>4. DefaultDesktops \in Nat /\ MaxDesktops \in Nat
    BY Numbers
  <2>5. number_of_desktops(f, 0) = IF numbers = {} THEN 0 ELSE f[Max(numbers)].value
    BY DEF number_of_desktops
  <2> HIDE DEF numbers
  <2>6. numbers # {} => Max(numbers) \in numbers
    BY <1>1, <2>1, MaxIn
  <2> QED BY <2>2, <2>3, <2>4, <2>5, <2>6
<1>4. \A i \in entries(f, "bind") : set_key_args(f[i]).execute \in Funcs
  BY <1>2 DEF entries, lines_read, IsLine, set_key_args
<1>5. \A i \in entries(f, "rule") : f[i].win \in Windows
  BY <1>2 DEF entries, lines_read, IsLine
<1> QED BY <1>3, <1>4, <1>5 DEF parse_config

-----------------------------------------------------------------------------
(* The array, whatever reloads went before.                                *)

\* What pagers were told last is what zwm has.
Told == running => published = [number |-> n_of_desktops, current |-> desk]

\* What holds of the desktops also after a reload that failed.
Array ==
  /\ conf \in 0 .. MaxDesktops /\ n_of_desktops \in 0 .. MaxDesktops
  /\ desk \in 0 .. MaxDesktops
  /\ listed \in BOOLEAN /\ running \in BOOLEAN
  /\ desk_of \in [Windows -> (0 .. n_of_desktops - 1) \cup {Detached, NULL}]
  /\ mapped \subseteq Windows
  /\ published \in [number : 0 .. MaxDesktops, current : 0 .. MaxDesktops]
  /\ running => (listed => desk < n_of_desktops)
  /\ Told

\* The desktops of a step that changes conf too.
Arrayed == conf' \in 0 .. MaxDesktops => Array'

\* Where a window is, as a number.
LEMMA PlaceIs ==
  ASSUME Array, NEW w \in Windows
  PROVE  /\ desk_of[w] = NULL \/ desk_of[w] \in Int
         /\ desk_of[w] # NULL => desk_of[w] < n_of_desktops
         /\ desk_of[w] \notin {NULL, Detached} => desk_of[w] >= 0
BY Numbers DEF Array

\* Cutting the array leaves no window on a desktop that is cut.
LEMMA TreesTyped ==
  ASSUME Array, NEW n \in Nat, NEW current
  PROVE  trees(n, current) \in [Windows -> (0 .. n - 1) \cup {Detached, NULL}]
<1> SUFFICES ASSUME NEW w \in Windows
             PROVE  trees(n, current)[w] \in (0 .. n - 1) \cup {Detached, NULL}
  BY DEF trees
<1>1. CASE w \in gone(n) \cup on(Detached)
  BY <1>1 DEF trees
<1>2. CASE w \notin gone(n) \cup on(Detached)
  <2>1. trees(n, current)[w] = desk_of[w]
    BY <1>2 DEF trees
  <2>2. desk_of[w] # NULL => desk_of[w] \in Int /\ ~(desk_of[w] >= n) /\ desk_of[w] >= 0
    BY <1>2, PlaceIs DEF gone, on
  <2> QED BY <2>1, <2>2, Numbers
<1> QED BY <1>1, <1>2

LEMMA CrashArray == Array /\ crash => Arrayed
BY DEF Array, Arrayed, crash, desktop_vars, Told

LEMMA SameArray == Array /\ UNCHANGED <<desktop_vars, running>> => Arrayed
BY DEF Array, Arrayed, desktop_vars, Told

\* switch_desktop tells the pagers where it goes.
LEMMA SwitchArray ==
  ASSUME Array, NEW d, switch_desktop(d)
  PROVE  Arrayed
<1>1. CASE d > conf
  BY <1>1, SameArray DEF switch_desktop
<1>2. CASE ~(d > conf) /\ d \notin 0 .. n_of_desktops - 1
  BY <1>2, CrashArray DEF switch_desktop
<1>3. CASE ~(d > conf) /\ d \in 0 .. n_of_desktops - 1
  <2>1. /\ desk' = d /\ listed' = TRUE /\ mapped' = shown_at(d)
        /\ desk_of' = trees(n_of_desktops, d)
        /\ published' = [published EXCEPT !.current = d]
        /\ n_of_desktops' = n_of_desktops /\ running' = running
    BY <1>3 DEF switch_desktop
  <2>2. n_of_desktops \in Nat /\ d \in 0 .. MaxDesktops
    BY <1>3, Numbers DEF Array
  <2>3. desk_of' \in [Windows -> (0 .. n_of_desktops' - 1) \cup {Detached, NULL}]
    BY <2>1, <2>2, TreesTyped
  <2>4. mapped' \subseteq Windows
    BY <2>1 DEF shown_at, on, Array
  <2>5. /\ published' \in [number : 0 .. MaxDesktops, current : 0 .. MaxDesktops]
        /\ Told'
    BY <2>1, <2>2 DEF Array, Told
  <2> QED BY <1>3, <2>1, <2>2, <2>3, <2>4, <2>5 DEF Array, Arrayed
<1> QED BY <1>1, <1>2, <1>3

\* A cycle goes where switch_desktop goes, or renders a desktop it did not go to.
LEMMA CycleArray ==
  ASSUME Array, NEW dir, cycle_desktop_wrapper(dir)
  PROVE  Arrayed
<1>1. CASE UNCHANGED <<desktop_vars, running>>
  BY <1>1, SameArray
<1>2. ASSUME NEW d, switch_desktop(d)
      PROVE  Arrayed
  BY <1>2, SwitchArray
<1>3. ASSUME NEW d, mapped' = mapped \cup on(d),
             UNCHANGED <<n_of_desktops, desk, listed, desk_of, published, running>>
      PROVE  Arrayed
  BY <1>3 DEF Array, Arrayed, on, Told
<1> QED BY <1>1, <1>2, <1>3 DEF cycle_desktop_wrapper

LEMMA TransferArray ==
  ASSUME Array, NEW d, transfer_node_wrapper(d)
  PROVE  Arrayed
<1>1. CASE d = desk \/ on(here) = {}
  BY <1>1, SameArray DEF transfer_node_wrapper
<1>2. CASE ~(d = desk \/ on(here) = {}) /\ d \notin 0 .. n_of_desktops - 1
  BY <1>2, CrashArray DEF transfer_node_wrapper
<1>3. CASE ~(d = desk \/ on(here) = {}) /\ d \in 0 .. n_of_desktops - 1
  <2>1. PICK w \in on(here) :
          /\ desk_of' = [desk_of EXCEPT ![w] = d]
          /\ mapped' = mapped \ {w}
          /\ UNCHANGED <<n_of_desktops, desk, listed, published, running>>
    BY <1>3 DEF transfer_node_wrapper
  <2>2. desk_of' \in [Windows -> (0 .. n_of_desktops - 1) \cup {Detached, NULL}]
    BY <1>3, <2>1 DEF Array
  <2> QED BY <2>1, <2>2 DEF Array, Arrayed, Told
<1> QED BY <1>1, <1>2, <1>3

\* The pagers are told of the desktops a reload adds.
LEMMA MoreArray ==
  ASSUME Array, NEW n \in 0 .. MaxDesktops, n > conf, more_desktops(n)
  PROVE  Arrayed
<1>1. CASE conf > n_of_desktops
  BY <1>1, CrashArray DEF more_desktops
<1>2. CASE ~(conf > n_of_desktops)
  <2>1. /\ n_of_desktops' = n /\ listed' = (listed /\ desk < conf)
        /\ desk_of' = trees(conf, here)
        /\ published' = [number |-> n, current |-> desk]
        /\ desk' = desk /\ mapped' = mapped /\ running' = running
    BY <1>2 DEF more_desktops, told
  <2>2. conf \in Nat /\ conf < n
    BY Numbers DEF Array
  <2>3. trees(conf, here) \in [Windows -> (0 .. conf - 1) \cup {Detached, NULL}]
    BY <2>2, TreesTyped
  <2>4. 0 .. conf - 1 \subseteq 0 .. n - 1
    BY <2>2, Numbers
  <2>5. desk_of' \in [Windows -> (0 .. n - 1) \cup {Detached, NULL}]
    BY <2>1, <2>3, <2>4
  <2>6. running' => (listed' => desk' < n_of_desktops')
    <3>1. listed' = (listed /\ desk < conf)
      BY <2>1
    <3>2. listed' => desk < conf
      BY <3>1, Zenon
    <3> QED BY <2>1, <2>2, <3>2 DEF Array
  <2> QED BY <2>1, <2>5, <2>6 DEF Array, Arrayed, Told
<1> QED BY <1>1, <1>2

\* The pagers are told of the desktops a reload takes away, and of the one it goes to.
LEMMA FewerArray ==
  ASSUME Array, NEW n \in 0 .. MaxDesktops, fewer_desktops(n)
  PROVE  Arrayed
<1>1. CASE conf > n_of_desktops \/ n = 0
  BY <1>1, CrashArray DEF fewer_desktops
<1>2. CASE ~(conf > n_of_desktops \/ n = 0)
  <2> DEFINE d == home(n)
             current == IF d # desk THEN d ELSE here
  <2>1. /\ n_of_desktops' = n /\ desk' = d
        /\ listed' = (d # desk \/ (listed /\ desk < n))
        /\ mapped' = IF d # desk THEN shown_at(d) ELSE mapped
        /\ desk_of' = trees(n, current)
        /\ published' = [number |-> n, current |-> d] /\ running' = running
    BY <1>2 DEF fewer_desktops, told
  <2>2. d \in 0 .. MaxDesktops /\ (d # desk => d = 0)
    BY Numbers DEF home, Array
  <2> HIDE DEF d, current
  <2>3. n \in Nat
    BY Numbers
  <2>4. desk_of' \in [Windows -> (0 .. n - 1) \cup {Detached, NULL}]
    BY <2>1, <2>3, TreesTyped
  <2>5. mapped' \subseteq Windows
    BY <2>1 DEF shown_at, on, Array
  <2>6. listed' \in BOOLEAN
    BY <2>1
  <2>7. listed' => desk' < n_of_desktops'
    <3>1. listed' = (d # desk \/ (listed /\ desk < n))
      BY <2>1
    <3>2. listed' => d # desk \/ desk < n
      BY <3>1, Zenon
    <3> QED BY <1>2, <2>1, <2>2, <2>3, <3>2
  <2> QED BY <2>1, <2>2, <2>4, <2>5, <2>6, <2>7 DEF Array, Arrayed, Told
<1> QED BY <1>1, <1>2

LEMMA ReloadArray ==
  ASSUME Array, file \in Files, reload_config_wrapper
  PROVE  Array'
<1> DEFINE c == parse_config(file, 0)
<1>1. c.desktops \in 0 .. MaxDesktops
  BY Parsed
<1>2. conf' = IF c.ok THEN c.desktops ELSE DefaultDesktops
  BY DEF reload_config_wrapper
<1>3. IF c.ok /\ c.desktops > conf THEN more_desktops(c.desktops)
      ELSE IF c.ok /\ c.desktops < conf THEN fewer_desktops(c.desktops)
      ELSE UNCHANGED <<desktop_vars, running>>
  BY DEF reload_config_wrapper
<1> HIDE DEF c
<1>4. conf' \in 0 .. MaxDesktops
  BY <1>1, <1>2, Numbers
<1>5. Arrayed
  BY <1>1, <1>3, MoreArray, FewerArray, SameArray
<1> QED BY <1>4, <1>5 DEF Arrayed

LEMMA MapArray ==
  ASSUME Array, NEW w \in Windows, handle_map_request(w)
  PROVE  Array'
<1>1. PICK target : IF target = desk
         THEN /\ desk_of' = [desk_of EXCEPT ![w] = here]
              /\ mapped' = mapped \cup {w}
              /\ UNCHANGED <<n_of_desktops, desk, listed, published, running>>
         ELSE IF target \notin 0 .. n_of_desktops - 1 THEN crash
         ELSE /\ desk_of' = [desk_of EXCEPT ![w] = target]
              /\ UNCHANGED <<n_of_desktops, desk, listed, mapped, published, running>>
  BY DEF handle_map_request
<1>2. running /\ UNCHANGED conf
  BY DEF handle_map_request, conf_vars
<1>3. CASE target = desk
  <2>1. here \in (0 .. n_of_desktops - 1) \cup {Detached, NULL}
    BY <1>2, Numbers DEF here, Array
  <2> QED BY <1>1, <1>2, <1>3, <2>1 DEF Array, Told
<1>4. CASE target # desk
  <2>1. Arrayed
    BY <1>1, <1>4, CrashArray DEF Array, Arrayed, Told
  <2> QED BY <1>2, <2>1 DEF Array, Arrayed
<1> QED BY <1>3, <1>4

LEMMA UnmapArray ==
  ASSUME Array, NEW w \in Windows, handle_unmap_notify(w)
  PROVE  Array'
BY DEF Array, handle_unmap_notify, Told, conf_vars

-----------------------------------------------------------------------------
(* Types.                                                                  *)

\* What holds whatever conf says.
Typed ==
  /\ Array
  /\ file \in Files /\ keymap \in Keymaps
  /\ \A i \in DOMAIN key_head : key_head[i].execute \in Funcs
  /\ \A i \in DOMAIN rule_head : rule_head[i].win \in Windows
  /\ remapped \in BOOLEAN /\ is_kgrabbed \in BOOLEAN
  /\ asked \in (0 .. MaxDesktops) \cup {NULL}

\* A grab leaves a truth value.
LEMMA GrabTyped ==
  ASSUME NEW keys, NEW map, NEW before, grab_keys(keys, map, before, FALSE)
  PROVE  is_kgrabbed' \in BOOLEAN
BY DEF grab_keys

LEMMA InitTyped == Init => Typed
<1> SUFFICES ASSUME Init PROVE Typed
  OBVIOUS
<1> DEFINE c == parse_config(file, 0)
           n == IF c.ok THEN c.desktops ELSE DefaultDesktops
<1>1. /\ file \in Files /\ conf = n /\ n_of_desktops = n /\ running = (n > 0)
      /\ key_head = c.keys /\ rule_head = c.rules
      /\ published = [number |-> n, current |-> 0]
      /\ desk = 0 /\ listed = TRUE /\ desk_of = [w \in Windows |-> NULL] /\ mapped = {}
  BY DEF Init
<1>2. c.desktops \in 0 .. MaxDesktops
  BY <1>1, Parsed
<1>3. /\ \A i \in DOMAIN key_head : key_head[i].execute \in Funcs
      /\ \A i \in DOMAIN rule_head : rule_head[i].win \in Windows
  BY <1>1, Parsed
<1> HIDE DEF c
<1>4. n \in 0 .. MaxDesktops /\ 0 \in 0 .. MaxDesktops
  BY <1>2, Numbers
<1> HIDE DEF n
<1>5. desk_of \in [Windows -> (0 .. n_of_desktops - 1) \cup {Detached, NULL}]
  BY <1>1
<1>6. running \in BOOLEAN /\ (running => n > 0)
  <2>1. running => n > 0
    BY <1>1, Zenon
  <2>2. running \in BOOLEAN
    BY DEF Init
  <2> QED BY <2>1, <2>2
<1>7. Array
  BY <1>1, <1>4, <1>5, <1>6 DEF Array, Told
<1>8. keymap \in Keymaps /\ remapped = FALSE /\ asked = NULL /\ is_kgrabbed \in BOOLEAN
  BY DEF Init
<1> QED BY <1>1, <1>3, <1>7, <1>8 DEF Typed

\* A key does what it is bound to.
LEMMA KeyTyped ==
  ASSUME Typed, NEW sym, handle_key_press(sym)
  PROVE  Typed'
<1>1. UNCHANGED <<file, keymap, remapped, asked>>
  BY DEF handle_key_press, outside
<1>2. ASSUME Array', UNCHANGED key_vars
      PROVE  Typed'
  BY <1>1, <1>2 DEF key_vars, Typed
<1>3. ASSUME UNCHANGED <<conf_vars, key_vars>>, Arrayed
      PROVE  Typed'
  BY <1>2, <1>3 DEF Typed, Array, Arrayed, conf_vars
<1>4. CASE reload_config_wrapper
  <2>1. /\ key_head' = parse_config(file, 0).keys /\ rule_head' = parse_config(file, 0).rules
        /\ grab_keys(parse_config(file, 0).keys, keymap, {}, FALSE)
    BY <1>4 DEF reload_config_wrapper
  <2>2. /\ \A i \in DOMAIN key_head' : key_head'[i].execute \in Funcs
        /\ \A i \in DOMAIN rule_head' : rule_head'[i].win \in Windows
    BY <2>1, Parsed DEF Typed
  <2>3. is_kgrabbed' \in BOOLEAN
    BY <2>1, GrabTyped
  <2> QED BY <1>1, <1>4, <2>2, <2>3, ReloadArray DEF Typed
<1>5. CASE UNCHANGED <<conf_vars, key_vars, desktop_vars, running>>
  BY <1>3, <1>5, SameArray DEF Typed
<1>6. ASSUME NEW b, run_key(b)
      PROVE  Typed'
  <2>1. CASE UNCHANGED <<conf_vars, key_vars>> /\ switch_desktop(b.arg)
    BY <1>3, <2>1, SwitchArray DEF Typed
  <2>2. CASE UNCHANGED <<conf_vars, key_vars>> /\ transfer_node_wrapper(b.arg)
    BY <1>3, <2>2, TransferArray DEF Typed
  <2>3. CASE UNCHANGED <<conf_vars, key_vars>> /\ cycle_desktop_wrapper(b.arg)
    BY <1>3, <2>3, CycleArray DEF Typed
  <2> QED BY <1>4, <1>6, <2>1, <2>2, <2>3 DEF run_key
<1> QED BY <1>5, <1>6 DEF handle_key_press

\* Every step keeps the types.
LEMMA NextTyped ==
  ASSUME Typed, [Next]_vars
  PROVE  Typed'
<1>1. ASSUME Array', UNCHANGED <<key_head, rule_head>>, file' \in Files, keymap' \in Keymaps,
             remapped' \in BOOLEAN, is_kgrabbed' \in BOOLEAN,
             asked' \in (0 .. MaxDesktops) \cup {NULL}
      PROVE  Typed'
  BY <1>1 DEF Typed
<1>2. UNCHANGED <<conf_vars, desktop_vars, running>> => Array'
  BY SameArray DEF Typed, Array, Arrayed, conf_vars
<1>3. CASE handle_mapping_notify
  <2>1. PICK before : grab_keys(key_head, keymap, before, FALSE)
    BY <1>3 DEF handle_mapping_notify
  <2>2. is_kgrabbed' \in BOOLEAN
    BY <2>1, GrabTyped
  <2> QED BY <1>1, <1>2, <1>3, <2>2 DEF handle_mapping_notify, Typed
<1>4. ASSUME NEW w \in Windows, handle_map_request(w)
      PROVE  Typed'
  BY <1>1, <1>4, MapArray DEF handle_map_request, outside, key_vars, Typed
<1>5. ASSUME NEW w \in Windows, handle_unmap_notify(w)
      PROVE  Typed'
  BY <1>1, <1>5, UnmapArray DEF handle_unmap_notify, outside, key_vars, Typed
<1>6. CASE handle_net_desktop_change
  <2>1. /\ switch_desktop(asked) /\ asked' = NULL
        /\ UNCHANGED <<conf, key_head, rule_head, is_kgrabbed, keymap, file, remapped>>
    BY <1>6 DEF handle_net_desktop_change, key_vars, conf_vars
  <2>2. Array'
    BY <2>1, SwitchArray DEF Typed, Array, Arrayed
  <2> QED BY <1>1, <2>1, <2>2 DEF Typed
<1>7. ASSUME NEW f \in Files, edit_config(f)
      PROVE  Typed'
  BY <1>1, <1>2, <1>7 DEF edit_config, key_vars, Typed
<1>8. ASSUME NEW m \in Keymaps, change_keymap(m)
      PROVE  Typed'
  BY <1>1, <1>2, <1>8 DEF change_keymap, key_vars, Typed
<1>9. ASSUME NEW d \in 0 .. published.number - 1, pager_asks(d)
      PROVE  Typed'
  <2>1. d \in 0 .. MaxDesktops
    BY <1>9, Numbers DEF Typed, Array
  <2> QED BY <1>1, <1>2, <1>9, <2>1 DEF pager_asks, key_vars, Typed
<1>10. CASE UNCHANGED vars
  BY <1>1, <1>2, <1>10 DEF vars, key_vars, outside, Typed
<1> QED BY <1>3, <1>4, <1>5, <1>6, <1>7, <1>8, <1>9, <1>10, KeyTyped DEF Next

-----------------------------------------------------------------------------
(* While conf says at least as many desktops as the array has.             *)

\* What holds of the desktop that is shown.
Home ==
  running => /\ listed
             /\ mapped = on(desk)
             /\ on(Detached) = {}

\* A step that takes a window off its desktop takes the desktop too.
Lost == \A w \in Windows : desk_of[w] # NULL /\ desk_of'[w] = NULL => desk_of[w] >= n_of_desktops'

\* What a step must keep.
Preserved == Home' /\ Lost

LEMMA CrashHome == crash => Preserved
BY DEF Preserved, Home, Lost, crash, desktop_vars

LEMMA SameHome == Home /\ UNCHANGED <<desktop_vars, running>> => Preserved
BY DEF Preserved, Home, Lost, desktop_vars, on

\* When every tree is in the array and the one that is shown is not cut, cutting the
\* array takes the windows of the desktops that are cut and moves none.
LEMMA TreesKeep ==
  ASSUME Array, on(Detached) = {}, NEW n \in Nat, NEW d \in 0 .. n - 1
  PROVE  /\ {w \in Windows : trees(n, d)[w] = d} = on(d)
         /\ {w \in Windows : trees(n, d)[w] = Detached} = {}
         /\ \A w \in Windows : desk_of[w] # NULL /\ trees(n, d)[w] = NULL => desk_of[w] >= n
<1>1. \A w \in Windows : trees(n, d)[w] = IF w \notin gone(n) THEN desk_of[w]
                                          ELSE IF desk_of[w] = d THEN Detached ELSE NULL
  BY DEF trees
<1>2. \A w \in gone(n) : desk_of[w] # NULL /\ desk_of[w] >= n
  BY DEF gone
<1>3. \A w \in Windows : desk_of[w] = d => w \notin gone(n)
  BY <1>2, Numbers
<1>4. d # NULL /\ d # Detached /\ Detached # NULL
  BY Numbers
<1>5. \A w \in Windows : desk_of[w] # Detached
  BY DEF on
<1>6. \A w \in Windows : trees(n, d)[w] = d <=> desk_of[w] = d
  BY <1>1, <1>3, <1>4
<1>7. \A w \in Windows : trees(n, d)[w] # Detached
  BY <1>1, <1>3, <1>4, <1>5
<1>8. \A w \in Windows : desk_of[w] # NULL /\ trees(n, d)[w] = NULL => desk_of[w] >= n
  BY <1>1, <1>2
<1> QED BY <1>6, <1>7, <1>8 DEF on

\* The windows of the desktop switched to are those mapped then.
LEMMA Shown ==
  ASSUME NEW d, listed, mapped = on(desk)
  PROVE  shown_at(d) = on(d)
BY DEF shown_at, here

\* switch_desktop maps the windows of the desktop it goes to and no other.
LEMMA SwitchHome ==
  ASSUME Array, Home, running, NEW d, switch_desktop(d)
  PROVE  Preserved
<1>1. CASE d > conf
  BY <1>1, SameHome DEF switch_desktop
<1>2. CASE ~(d > conf) /\ d \notin 0 .. n_of_desktops - 1
  BY <1>2, CrashHome DEF switch_desktop
<1>3. CASE ~(d > conf) /\ d \in 0 .. n_of_desktops - 1
  <2>1. /\ desk' = d /\ listed' = TRUE /\ mapped' = on(d)
        /\ desk_of' = trees(n_of_desktops, d)
        /\ n_of_desktops' = n_of_desktops
    BY <1>3, Shown DEF switch_desktop, Home
  <2>2. n_of_desktops \in Nat
    BY Numbers DEF Array
  <2>3. /\ {w \in Windows : desk_of'[w] = d} = on(d)
        /\ {w \in Windows : desk_of'[w] = Detached} = {}
        /\ \A w \in Windows : desk_of[w] # NULL /\ desk_of'[w] = NULL => desk_of[w] >= n_of_desktops
    <3>1. on(Detached) = {}
      BY DEF Home
    <3>2. d \in 0 .. n_of_desktops - 1
      BY <1>3
    <3>3. /\ {w \in Windows : trees(n_of_desktops, d)[w] = d} = on(d)
          /\ {w \in Windows : trees(n_of_desktops, d)[w] = Detached} = {}
          /\ \A w \in Windows : desk_of[w] # NULL /\ trees(n_of_desktops, d)[w] = NULL
                                => desk_of[w] >= n_of_desktops
      BY <2>2, <3>1, <3>2, TreesKeep
    <3> QED BY <2>1, <3>3
  <2> QED BY <2>1, <2>3 DEF Preserved, Home, Lost, on
<1> QED BY <1>1, <1>2, <1>3

\* A desktop of the array is one that conf lets through, so a cycle is a switch.
LEMMA CycleHome ==
  ASSUME Array, Home, Counted, running, NEW dir, cycle_desktop_wrapper(dir)
  PROVE  Preserved
<1> DEFINE step == IF dir = "RIGHT" THEN 1 ELSE -1
           next == (desk + step + n_of_desktops) % n_of_desktops
<1>1. n_of_desktops \in Nat /\ n_of_desktops > 0 /\ desk + step + n_of_desktops \in Int
  BY Numbers DEF Array, Home
<1>2. next \in 0 .. n_of_desktops - 1
  <2> DEFINE x == desk + step + n_of_desktops
  <2> HIDE DEF x
  <2>1. x \in Int => x % n_of_desktops \in 0 .. n_of_desktops - 1
    BY <1>1
  <2> QED BY <1>1, <2>1 DEF x
<1>3. listed
  BY DEF Home
<1>4. IF next > conf THEN mapped' = mapped \cup on(next) ELSE switch_desktop(next)
  BY <1>3 DEF cycle_desktop_wrapper
<1> HIDE DEF next
<1>5. ~(next > conf)
  BY <1>1, <1>2, Numbers DEF Counted, Array
<1> QED BY <1>4, <1>5, SwitchHome

\* transfer_node_wrapper hides the window it sends away.
LEMMA TransferHome ==
  ASSUME Array, Home, running, NEW d, transfer_node_wrapper(d)
  PROVE  Preserved
<1>1. CASE d = desk \/ on(here) = {}
  BY <1>1, SameHome DEF transfer_node_wrapper
<1>2. CASE ~(d = desk \/ on(here) = {}) /\ d \notin 0 .. n_of_desktops - 1
  BY <1>2, CrashHome DEF transfer_node_wrapper
<1>3. CASE ~(d = desk \/ on(here) = {}) /\ d \in 0 .. n_of_desktops - 1
  <2>1. here = desk
    BY DEF here, Home
  <2>2. PICK w \in on(desk) :
          /\ desk_of' = [desk_of EXCEPT ![w] = d]
          /\ mapped' = mapped \ {w}
          /\ UNCHANGED <<n_of_desktops, desk, listed, published, running>>
    BY <1>3, <2>1 DEF transfer_node_wrapper
  <2>3. d # NULL /\ d # Detached /\ d # desk
    BY <1>3, Numbers
  <2>4. \A v \in Windows : desk_of'[v] = IF v = w THEN d ELSE desk_of[v]
    BY <2>2 DEF Array
  <2>5. on(desk)' = on(desk) \ {w} /\ on(Detached)' = {}
    BY <2>2, <2>3, <2>4 DEF on, Home
  <2>6. Lost
    BY <2>3, <2>4 DEF Lost
  <2> QED BY <2>2, <2>5, <2>6 DEF Preserved, Home
<1> QED BY <1>1, <1>2, <1>3

\* Desktops added by a reload are empty, and take the place of none.
LEMMA MoreHome ==
  ASSUME Array, Home, Counted, running, NEW n \in 0 .. MaxDesktops, n > conf, more_desktops(n)
  PROVE  Preserved
<1>1. CASE conf > n_of_desktops
  BY <1>1, CrashHome DEF more_desktops
<1>2. CASE ~(conf > n_of_desktops)
  <2>1. conf = n_of_desktops /\ n_of_desktops \in Nat /\ desk \in 0 .. n_of_desktops - 1
        /\ n > n_of_desktops
    BY <1>2, Numbers DEF Array, Counted, Home
  <2>2. /\ n_of_desktops' = n /\ listed' = (listed /\ desk < conf)
        /\ desk_of' = trees(n_of_desktops, desk)
        /\ desk' = desk /\ mapped' = mapped
    BY <1>2, <2>1 DEF more_desktops, here, Home
  <2>3. listed'
    <3>1. listed /\ desk < conf
      BY <2>1 DEF Home
    <3> QED BY <2>2, <3>1
  <2>4. /\ {w \in Windows : desk_of'[w] = desk} = on(desk)
        /\ {w \in Windows : desk_of'[w] = Detached} = {}
        /\ \A w \in Windows : desk_of[w] # NULL /\ desk_of'[w] = NULL => desk_of[w] >= n_of_desktops
    <3>1. on(Detached) = {}
      BY DEF Home
    <3>2. /\ {w \in Windows : trees(n_of_desktops, desk)[w] = desk} = on(desk)
          /\ {w \in Windows : trees(n_of_desktops, desk)[w] = Detached} = {}
          /\ \A w \in Windows : desk_of[w] # NULL /\ trees(n_of_desktops, desk)[w] = NULL
                                => desk_of[w] >= n_of_desktops
      BY <2>1, <3>1, TreesKeep
    <3> QED BY <2>2, <3>2
  <2>5. \A w \in Windows : ~(desk_of[w] # NULL /\ desk_of'[w] = NULL)
    BY <2>1, <2>4, PlaceIs, Numbers
  <2> QED BY <2>2, <2>3, <2>4, <2>5 DEF Preserved, Home, Lost, on
<1> QED BY <1>1, <1>2

\* A reload that takes desktops away takes the windows on them, shows the first desktop
\* if the current one goes, and maps what is on the desktop it shows.
LEMMA FewerHome ==
  ASSUME Array, Home, Counted, running, NEW n \in 0 .. MaxDesktops, n < conf, fewer_desktops(n)
  PROVE  Preserved
<1>1. CASE conf > n_of_desktops \/ n = 0
  BY <1>1, CrashHome DEF fewer_desktops
<1>2. CASE ~(conf > n_of_desktops \/ n = 0)
  <2> DEFINE d == home(n)
  <2>1. conf = n_of_desktops /\ n_of_desktops \in Nat /\ desk \in 0 .. n_of_desktops - 1
        /\ n \in Nat /\ n > 0 /\ n < n_of_desktops
    BY <1>2, Numbers DEF Array, Counted, Home
  <2>2. /\ n_of_desktops' = n /\ desk' = d
        /\ listed' = (d # desk \/ (listed /\ desk < n))
        /\ mapped' = (IF d # desk THEN shown_at(d) ELSE mapped)
        /\ desk_of' = trees(n, IF d # desk THEN d ELSE desk)
    BY <1>2 DEF fewer_desktops, here, Home
  <2>3. d = (IF desk >= n THEN 0 ELSE desk)
    BY <2>1 DEF home
  <2> HIDE DEF d
  <2>4. d \in 0 .. n - 1
    BY <2>1, <2>3
  <2>5. desk_of' = trees(n, d) /\ mapped' = on(d)
    BY <2>2, Shown DEF Home
  <2>6. listed'
    <3>1. d # desk \/ (listed /\ desk < n)
      BY <2>1, <2>3 DEF Home
    <3> QED BY <2>2, <3>1
  <2>7. /\ {w \in Windows : desk_of'[w] = d} = on(d)
        /\ {w \in Windows : desk_of'[w] = Detached} = {}
        /\ \A w \in Windows : desk_of[w] # NULL /\ desk_of'[w] = NULL => desk_of[w] >= n
    <3>1. on(Detached) = {}
      BY DEF Home
    <3>2. /\ {w \in Windows : trees(n, d)[w] = d} = on(d)
          /\ {w \in Windows : trees(n, d)[w] = Detached} = {}
          /\ \A w \in Windows : desk_of[w] # NULL /\ trees(n, d)[w] = NULL => desk_of[w] >= n
      BY <2>1, <2>4, <3>1, TreesKeep
    <3> QED BY <2>5, <3>2
  <2> QED BY <2>2, <2>5, <2>6, <2>7 DEF Preserved, Home, Lost, on
<1> QED BY <1>1, <1>2

\* A reload of a file, whole or not.
LEMMA ReloadHome ==
  ASSUME Array, Home, Counted, running, file \in Files, reload_config_wrapper
  PROVE  Preserved
<1> DEFINE c == parse_config(file, 0)
<1>1. c.desktops \in 0 .. MaxDesktops
  BY Parsed
<1>2. IF c.ok /\ c.desktops > conf THEN more_desktops(c.desktops)
      ELSE IF c.ok /\ c.desktops < conf THEN fewer_desktops(c.desktops)
      ELSE UNCHANGED <<desktop_vars, running>>
  BY DEF reload_config_wrapper
<1> HIDE DEF c
<1> QED BY <1>1, <1>2, MoreHome, FewerHome, SameHome

\* A rule may send a window to any number: it is a desktop or the end of the run.
LEMMA MapHome ==
  ASSUME Array, Home, running, NEW w \in Windows, handle_map_request(w)
  PROVE  Preserved
<1>1. PICK target : IF target = desk
         THEN /\ desk_of' = [desk_of EXCEPT ![w] = here]
              /\ mapped' = mapped \cup {w}
              /\ UNCHANGED <<n_of_desktops, desk, listed, published, running>>
         ELSE IF target \notin 0 .. n_of_desktops - 1 THEN crash
         ELSE /\ desk_of' = [desk_of EXCEPT ![w] = target]
              /\ UNCHANGED <<n_of_desktops, desk, listed, mapped, published, running>>
  BY DEF handle_map_request
<1>2. desk_of[w] = NULL /\ here = desk /\ desk \in 0 .. n_of_desktops - 1
  BY DEF handle_map_request, here, Home, Array
<1>3. CASE target # desk /\ target \notin 0 .. n_of_desktops - 1
  BY <1>1, <1>3, CrashHome
<1>4. CASE target \in 0 .. n_of_desktops - 1
  <2>1. /\ desk_of' = [desk_of EXCEPT ![w] = target]
        /\ mapped' = (IF target = desk THEN mapped \cup {w} ELSE mapped)
        /\ UNCHANGED <<n_of_desktops, desk, listed, published, running>>
    BY <1>1, <1>2, <1>4
  <2>2. \A v \in Windows : desk_of'[v] = IF v = w THEN target ELSE desk_of[v]
    BY <2>1 DEF Array
  <2>3. target # NULL /\ target # Detached
    BY <1>4, Numbers
  <2>4. on(desk)' = (IF target = desk THEN on(desk) \cup {w} ELSE on(desk)) /\ on(Detached)' = {}
    BY <1>2, <2>1, <2>2, <2>3, Numbers DEF on, Home
  <2>5. Lost
    BY <2>2, <2>3 DEF Lost
  <2> QED BY <2>1, <2>4, <2>5 DEF Preserved, Home
<1> QED BY <1>1, <1>2, <1>3, <1>4

\* A window that is withdrawn leaves its desktop and the screen.
LEMMA UnmapHome ==
  ASSUME Array, Home, NEW w \in Windows, handle_unmap_notify(w)
  PROVE  /\ Home'
         /\ \A v \in Windows : desk_of[v] # NULL /\ desk_of'[v] = NULL => v = w
<1>1. /\ running /\ desk_of' = [desk_of EXCEPT ![w] = NULL]
      /\ mapped' = mapped \ {w}
      /\ UNCHANGED <<n_of_desktops, desk, listed, running>>
  BY DEF handle_unmap_notify
<1>2. \A v \in Windows : desk_of'[v] = IF v = w THEN NULL ELSE desk_of[v]
  BY <1>1 DEF Array
<1>3. desk # NULL /\ Detached # NULL
  BY Numbers DEF Array
<1>4. on(desk)' = on(desk) \ {w} /\ on(Detached)' = {}
  BY <1>1, <1>2, <1>3 DEF on, Home
<1> QED BY <1>1, <1>2, <1>4 DEF Home

\* What zwm starts with.
LEMMA InitHome == Init => Home
BY Numbers DEF Init, Home, on

\* Every step keeps the current desktop in the array and what is on the screen, and
\* takes a window off its desktop only when the client withdraws it or the desktop goes.
LEMMA NextHome ==
  ASSUME Typed, Home, Counted, [Next]_vars
  PROVE  /\ Home'
         /\ \A w \in Windows : desk_of[w] # NULL /\ desk_of'[w] = NULL =>
              handle_unmap_notify(w) \/ desk_of[w] >= n_of_desktops'
<1> USE DEF Typed
<1>1. ASSUME NEW sym \in DOMAIN keymap, handle_key_press(sym)
      PROVE  Preserved
  <2>1. running
    BY <1>1 DEF handle_key_press
  <2>2. ASSUME NEW b, run_key(b)
        PROVE  Preserved
    BY <2>1, <2>2, ReloadHome, SwitchHome, TransferHome, CycleHome DEF run_key
  <2>3. CASE UNCHANGED <<conf_vars, key_vars, desktop_vars, running>>
    BY <2>3, SameHome
  <2> QED BY <1>1, <2>2, <2>3 DEF handle_key_press
<1>2. ASSUME handle_mapping_notify
      PROVE  Preserved
  BY <1>2, SameHome DEF handle_mapping_notify
<1>3. ASSUME NEW w \in Windows, handle_map_request(w)
      PROVE  Preserved
  BY <1>3, MapHome DEF handle_map_request
<1>4. ASSUME handle_net_desktop_change
      PROVE  Preserved
  BY <1>4, SwitchHome DEF handle_net_desktop_change
<1>5. ASSUME NEW f \in Files, edit_config(f)
      PROVE  Preserved
  BY <1>5, SameHome DEF edit_config
<1>6. ASSUME NEW m \in Keymaps, change_keymap(m)
      PROVE  Preserved
  BY <1>6, SameHome DEF change_keymap
<1>7. ASSUME NEW d, pager_asks(d)
      PROVE  Preserved
  BY <1>7, SameHome DEF pager_asks
<1>8. ASSUME UNCHANGED vars
      PROVE  Preserved
  BY <1>8, SameHome DEF vars
<1>9. ASSUME NEW w \in Windows, handle_unmap_notify(w)
      PROVE  /\ Home'
             /\ \A v \in Windows : desk_of[v] # NULL /\ desk_of'[v] = NULL =>
                  handle_unmap_notify(v) \/ desk_of[v] >= n_of_desktops'
  BY <1>9, UnmapHome
<1>10. Preserved => /\ Home'
                    /\ \A w \in Windows : desk_of[w] # NULL /\ desk_of'[w] = NULL =>
                         handle_unmap_notify(w) \/ desk_of[w] >= n_of_desktops'
  BY DEF Preserved, Lost
<1> QED BY <1>1, <1>2, <1>3, <1>4, <1>5, <1>6, <1>7, <1>8, <1>9, <1>10 DEF Next

-----------------------------------------------------------------------------
(* When conf says at least as many.                                        *)

\* The array is never longer than what conf says or what a failed reload sets it to.
Few == n_of_desktops <= DefaultDesktops /\ Counted

LEMMA FewReload ==
  ASSUME Array, file \in Files, FewDesktops, Few, running, reload_config_wrapper
  PROVE  Few'
<1> DEFINE c == parse_config(file, 0)
<1>1. c.desktops \in 0 .. MaxDesktops /\ c.desktops <= DefaultDesktops
  BY Parsed
<1>2. conf' = IF c.ok THEN c.desktops ELSE DefaultDesktops
  BY DEF reload_config_wrapper
<1>3. IF c.ok /\ c.desktops > conf THEN more_desktops(c.desktops)
      ELSE IF c.ok /\ c.desktops < conf THEN fewer_desktops(c.desktops)
      ELSE UNCHANGED <<desktop_vars, running>>
  BY DEF reload_config_wrapper
<1> HIDE DEF c
<1>4. ASSUME NEW n, more_desktops(n) \/ fewer_desktops(n)
      PROVE  n_of_desktops' = n \/ (n_of_desktops' = n_of_desktops /\ ~running')
  BY <1>4 DEF more_desktops, fewer_desktops, crash, desktop_vars
<1>5. CASE c.ok /\ c.desktops # conf
  <2>1. c.desktops > conf \/ c.desktops < conf
    BY <1>1, <1>5, Numbers DEF Array
  <2>2. n_of_desktops' = c.desktops \/ (n_of_desktops' = n_of_desktops /\ ~running')
    BY <1>3, <1>4, <1>5, <2>1
  <2> QED BY <1>1, <1>2, <1>5, <2>2, Numbers DEF Few, Counted, Array
<1>6. CASE ~(c.ok /\ c.desktops # conf)
  <2>1. n_of_desktops' = n_of_desktops
    <3>1. ~(c.ok /\ c.desktops > conf) /\ ~(c.ok /\ c.desktops < conf)
      BY <1>1, <1>6, Numbers DEF Array
    <3>2. UNCHANGED <<desktop_vars, running>>
      BY <1>3, <3>1
    <3> QED BY <3>2 DEF desktop_vars
  <2> QED BY <1>1, <1>2, <1>6, <2>1, Numbers DEF Few, Counted, Array
<1> QED BY <1>5, <1>6

LEMMA FewNext ==
  ASSUME Typed, FewDesktops, Few, [Next]_vars
  PROVE  Few'
<1>1. ASSUME UNCHANGED <<conf, n_of_desktops>>, running' => running
      PROVE  Few'
  BY <1>1 DEF Few, Counted
<1>2. ASSUME NEW d, switch_desktop(d) \/ cycle_desktop_wrapper(d) \/ transfer_node_wrapper(d)
      PROVE  n_of_desktops' = n_of_desktops /\ (running' => running)
  BY <1>2 DEF switch_desktop, cycle_desktop_wrapper, transfer_node_wrapper, crash, desktop_vars
<1>3. ASSUME NEW sym, handle_key_press(sym)
      PROVE  Few'
  <2>1. CASE reload_config_wrapper
    BY <1>3, <2>1, FewReload DEF handle_key_press, Typed
  <2>2. CASE UNCHANGED <<conf_vars, key_vars, desktop_vars, running>>
    BY <1>1, <2>2 DEF desktop_vars, conf_vars
  <2>3. ASSUME NEW b, run_key(b), ~reload_config_wrapper
        PROVE  Few'
    BY <1>1, <1>2, <2>3 DEF run_key, conf_vars
  <2> QED BY <1>3, <2>1, <2>2, <2>3 DEF handle_key_press
<1>4. CASE handle_net_desktop_change
  BY <1>1, <1>2, <1>4 DEF handle_net_desktop_change, conf_vars
<1>5. ASSUME NEW w \in Windows, handle_map_request(w) \/ handle_unmap_notify(w)
      PROVE  Few'
  BY <1>1, <1>5 DEF handle_map_request, handle_unmap_notify, crash, desktop_vars, conf_vars
<1>6. CASE handle_mapping_notify
  BY <1>1, <1>6 DEF handle_mapping_notify, desktop_vars, conf_vars
<1>7. ASSUME NEW x, edit_config(x) \/ change_keymap(x) \/ pager_asks(x)
      PROVE  Few'
  BY <1>1, <1>7 DEF edit_config, change_keymap, pager_asks, desktop_vars, conf_vars
<1>8. CASE UNCHANGED vars
  BY <1>1, <1>8 DEF vars, desktop_vars, conf_vars
<1> QED BY <1>3, <1>4, <1>5, <1>6, <1>7, <1>8 DEF Next

\* Only a reload changes what counted speaks of.
LEMMA CountedStep ==
  ASSUME [Next]_vars
  PROVE  \/ UNCHANGED <<conf, counted, n_of_desktops>> /\ (running' => running)
         \/ counted' = (counted /\ Counted')
<1> DEFINE Same == UNCHANGED <<conf, counted, n_of_desktops>> /\ (running' => running)
<1>1. ASSUME NEW d, switch_desktop(d) \/ cycle_desktop_wrapper(d) \/ transfer_node_wrapper(d)
      PROVE  n_of_desktops' = n_of_desktops /\ (running' => running)
  BY <1>1 DEF switch_desktop, cycle_desktop_wrapper, transfer_node_wrapper, crash, desktop_vars
<1>2. reload_config_wrapper => counted' = (counted /\ Counted')
  BY DEF reload_config_wrapper
<1>3. ASSUME NEW b, run_key(b)
      PROVE  Same \/ counted' = (counted /\ Counted')
  BY <1>1, <1>2, <1>3 DEF run_key, conf_vars
<1>4. ASSUME NEW sym, handle_key_press(sym)
      PROVE  Same \/ counted' = (counted /\ Counted')
  BY <1>3, <1>4 DEF handle_key_press, conf_vars, desktop_vars
<1>5. CASE handle_net_desktop_change
  BY <1>1, <1>5 DEF handle_net_desktop_change, conf_vars
<1>6. ASSUME NEW w \in Windows, handle_map_request(w) \/ handle_unmap_notify(w)
      PROVE  Same
  BY <1>6 DEF handle_map_request, handle_unmap_notify, crash, desktop_vars, conf_vars
<1>7. CASE handle_mapping_notify
  BY <1>7 DEF handle_mapping_notify, desktop_vars, conf_vars
<1>8. ASSUME NEW x, edit_config(x) \/ change_keymap(x) \/ pager_asks(x)
      PROVE  Same
  BY <1>8 DEF edit_config, change_keymap, pager_asks, desktop_vars, conf_vars
<1>9. CASE UNCHANGED vars
  BY <1>9 DEF vars, desktop_vars, conf_vars
<1> QED BY <1>4, <1>5, <1>6, <1>7, <1>8, <1>9 DEF Next

\* Once conf has said fewer desktops than the array has, that is not forgotten.
LEMMA NextCounted ==
  ASSUME counted => Counted, [Next]_vars
  PROVE  counted' => counted /\ Counted'
BY CountedStep DEF Counted

LEMMA FewInit == FewDesktops /\ Init => Few
<1> SUFFICES ASSUME FewDesktops, Init PROVE Few
  OBVIOUS
<1> DEFINE c == parse_config(file, 0)
<1>1. c.desktops \in 0 .. MaxDesktops /\ c.desktops <= DefaultDesktops
  BY Parsed DEF Init
<1>2. conf = (IF c.ok THEN c.desktops ELSE DefaultDesktops) /\ n_of_desktops = conf
  BY DEF Init
<1> HIDE DEF c
<1> QED BY <1>1, <1>2, Numbers DEF Few, Counted

-----------------------------------------------------------------------------
(* The keys.                                                               *)

\* A grab that reached the last binding has grabbed every one of them.
LEMMA GrabAll ==
  ASSUME NEW keys, NEW map, NEW before, grab_keys(keys, map, before, FALSE), is_kgrabbed'
  PROVE  \A i \in DOMAIN bound(keys) : map[bound(keys)[i].keysym] \in grabbed'
BY DEF grab_keys

\* No binding is dead at the start.
LEMMA InitKeys == Init => BoundKeysGrabbed
BY DEF Init, BoundKeysGrabbed

\* No step leaves a dead binding behind, unless the keyboard has just changed.
LEMMA NextKeys ==
  ASSUME BoundKeysGrabbed, [Next]_vars
  PROVE  BoundKeysGrabbed'
<1>1. ASSUME UNCHANGED <<key_vars, keymap, remapped>>
      PROVE  BoundKeysGrabbed'
  BY <1>1 DEF BoundKeysGrabbed, key_vars
<1>2. ASSUME NEW sym, handle_key_press(sym)
      PROVE  BoundKeysGrabbed'
  <2>1. UNCHANGED <<keymap, remapped>>
    BY <1>2 DEF handle_key_press, outside
  <2>2. CASE reload_config_wrapper
    <3>1. PICK keys : key_head' = keys /\ grab_keys(keys, keymap, {}, FALSE)
      BY <2>2 DEF reload_config_wrapper
    <3> QED BY <2>1, <3>1, GrabAll DEF BoundKeysGrabbed
  <2>3. CASE UNCHANGED key_vars
    BY <1>1, <2>1, <2>3
  <2> QED BY <1>2, <2>2, <2>3 DEF handle_key_press, run_key
<1>3. CASE handle_mapping_notify
  <2>1. PICK before : grab_keys(key_head, keymap, before, FALSE)
    BY <1>3 DEF handle_mapping_notify
  <2>2. UNCHANGED <<key_head, keymap>>
    BY <1>3 DEF handle_mapping_notify
  <2> QED BY <2>1, <2>2, GrabAll DEF BoundKeysGrabbed
<1>4. ASSUME NEW w, handle_map_request(w) \/ handle_unmap_notify(w)
      PROVE  BoundKeysGrabbed'
  BY <1>1, <1>4 DEF handle_map_request, handle_unmap_notify, outside
<1>5. CASE handle_net_desktop_change
  BY <1>1, <1>5 DEF handle_net_desktop_change
<1>6. ASSUME NEW f, edit_config(f)
      PROVE  BoundKeysGrabbed'
  BY <1>1, <1>6 DEF edit_config
<1>7. ASSUME NEW m, change_keymap(m)
      PROVE  BoundKeysGrabbed'
  BY <1>7 DEF change_keymap, BoundKeysGrabbed
<1>8. ASSUME NEW d, pager_asks(d)
      PROVE  BoundKeysGrabbed'
  BY <1>1, <1>8 DEF pager_asks
<1>9. CASE UNCHANGED vars
  BY <1>1, <1>9 DEF vars, outside
<1> QED BY <1>2, <1>3, <1>4, <1>5, <1>6, <1>7, <1>8, <1>9 DEF Next

-----------------------------------------------------------------------------
(* The theorems.                                                           *)

LEMMA AlwaysTyped == Spec => []Typed
BY InitTyped, NextTyped, PTL DEF Spec

\* Until conf says fewer desktops than the array has, what is on the screen is what is
\* on a desktop of the array.
LEMMA AlwaysHome == Spec => [](counted => Counted /\ Home)
<1> DEFINE J == counted => Counted /\ Home
<1>1. Init => J
  <2> SUFFICES ASSUME Init PROVE Counted /\ Home
    OBVIOUS
  <2> DEFINE n == LET c == parse_config(file, 0)
                  IN  IF c.ok THEN c.desktops ELSE DefaultDesktops
  <2>1. conf = n /\ n_of_desktops = n
    BY DEF Init
  <2>2. n \in 0 .. MaxDesktops
    BY Parsed, Numbers DEF Init
  <2> HIDE DEF n
  <2> QED BY <2>1, <2>2, InitHome, Numbers DEF Counted
<1>2. Typed /\ J /\ [Next]_vars => J'
  BY NextHome, NextCounted
<1> QED BY <1>1, <1>2, AlwaysTyped, PTL DEF Spec

\* Bindings and rules are those a file can hold, and no window is on a desktop that the
\* array no longer has, for any files and whatever a reload follows (zwm.c:1431).
THEOREM TypeCorrect == Spec => []TypeOK
<1> DEFINE B == counted \in BOOLEAN
<1>1. Init => B
  BY DEF Init
<1>2. B /\ [Next]_vars => B'
  BY CountedStep
<1>3. Typed /\ B => TypeOK
  BY DEF Typed, Array, TypeOK
<1> QED BY <1>1, <1>2, <1>3, AlwaysTyped, PTL DEF Spec

\* Pagers are told the number of desktops and the id of the current one, also after a
\* reload that failed (reload_config_wrapper, switch_desktop); until one has left conf
\* below the length of the array, that id is less than the number.
THEOREM PagersAreInformed == Spec => []PagerInformed
<1>1. Typed /\ (counted => Counted /\ Home) => PagerInformed
  BY DEF Typed, Array, Told, Home, PagerInformed
<1> QED BY <1>1, AlwaysTyped, AlwaysHome, PTL

\* The condition of OnlyShown and Kept holds of files that ask for no more desktops than
\* a reload that fails leaves in conf (zwm.c:1348), whatever follows what.
THEOREM FewDesktopsAreCounted == ASSUME FewDesktops PROVE Spec => []counted
<1>1. Init => Few /\ counted
  BY FewInit DEF Init
<1>2. Typed /\ Few /\ counted /\ [Next]_vars => Few' /\ counted'
  <2> SUFFICES ASSUME Typed, Few, counted, [Next]_vars PROVE Few' /\ counted'
    OBVIOUS
  <2>1. Few' /\ Counted'
    BY FewNext DEF Few
  <2> QED BY <2>1, CountedStep
<1> QED BY <1>1, <1>2, AlwaysTyped, PTL DEF Spec

\* Until a failed reload leaves conf below the length of the array, the current desktop is
\* one of the array and the windows on the screen are its own, after any sequence of
\* reloads, switches, moves and rules.
THEOREM OnlyTheCurrentDesktopIsShown == Spec => []OnlyShown
<1>1. (counted => Counted /\ Home) => OnlyShown
  BY DEF Home, OnlyShown
<1> QED BY <1>1, AlwaysHome, PTL

\* Under the same condition a window is lost to zwm only when its client withdraws it
\* or a reload removes the desktop it is on.
THEOREM WindowsAreKept == Spec => Kept
<1> DEFINE Step == \A w \in Windows : counted /\ desk_of[w] # NULL /\ desk_of[w]' = NULL =>
                     handle_unmap_notify(w) \/ desk_of[w] >= n_of_desktops'
<1>1. Typed /\ (counted => Counted /\ Home) /\ [Next]_vars => [Step]_vars
  BY NextHome
<1> HIDE DEF Step
<1>2. Spec => [][Step]_vars
  BY <1>1, AlwaysTyped, AlwaysHome, PTL DEF Spec
<1> QED BY <1>2 DEF Kept, Step

\* No binding is dead while zwm takes its keys for grabbed, whatever the files say and
\* however the keyboard changes.
THEOREM NoDeadBinding == Spec => []BoundKeysGrabbed
BY InitKeys, NextKeys, PTL DEF Spec

=============================================================================
