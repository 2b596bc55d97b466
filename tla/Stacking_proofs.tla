-------------------------- MODULE Stacking_proofs --------------------------
(***************************************************************************)
(* That what is on the screen is stacked as stack_key says, for any        *)
(* windows, transients, rules, keys and messages: fullscreen windows over  *)
(* the others, dialogs over their windows, and a published list that       *)
(* misses no window.                                                       *)
(*                                                                         *)
(* The argument: keys order the clients strictly (the window id breaks     *)
(* ties), so the rank of a client among them is a bijection and restack    *)
(* leaves each pair as its keys say.  What a handler does without a        *)
(* restack moves only windows that are loose, or hides some.               *)
(***************************************************************************)
EXTENDS Stacking, FiniteSetTheorems, TLAPS

-----------------------------------------------------------------------------
(* The windows.                                                            *)

\* NULL is nothing else, and a window has a place among the ids that is its own.
LEMMA Apart ==
  /\ NULL \notin Windows /\ NULL \notin DesktopIds /\ NULL \notin Clients
  /\ 0 \in DesktopIds
BY StackingAssumption DEF DesktopIds

LEMMA WindowIds ==
  /\ \A w \in Windows : xid(w) \in DOMAIN WindowOrder /\ WindowOrder[xid(w)] = w
  /\ DOMAIN WindowOrder = 1 .. Len(WindowOrder) /\ Len(WindowOrder) \in Nat
  /\ \A i \in DOMAIN WindowOrder : WindowOrder[i] \in Windows /\ xid(WindowOrder[i]) = i
<1>1. \A w \in Windows : xid(w) \in DOMAIN WindowOrder /\ WindowOrder[xid(w)] = w
  BY DEF Windows, xid
<1>2. WindowOrder \in Seq(Windows) /\ IsInjective(WindowOrder)
  BY StackingAssumption
<1>3. DOMAIN WindowOrder = 1 .. Len(WindowOrder) /\ Len(WindowOrder) \in Nat
  BY <1>2
<1>4. \A i \in DOMAIN WindowOrder : WindowOrder[i] \in Windows
  BY DEF Windows
<1> QED BY <1>1, <1>2, <1>3, <1>4 DEF IsInjective

LEMMA FinitelyMany == IsFiniteSet(Windows)
<1>1. WindowOrder \in Surjection(1 .. Len(WindowOrder), Windows)
  BY WindowIds, StackingAssumption DEF Surjection
<1>2. IsFiniteSet(1 .. Len(WindowOrder))
  BY WindowIds, FS_Interval
<1> QED BY <1>1, <1>2, FS_Surjection

-----------------------------------------------------------------------------
(* Transients.                                                             *)

\* What clients are: of their type, and transient for what their window says, if they
\* were asked.
Good(c) ==
  /\ c \in [Windows -> Clients \cup {NULL}]
  /\ \A w \in Windows : c[w] # NULL => c[w].transient_for \in {NULL, TransientFor[w]}

managed(c) == {w \in Windows : c[w] # NULL}

LEMMA ParentIs ==
  ASSUME NEW c, Good(c), NEW w \in managed(c)
  PROVE  \/ parent_of(c, w) = NULL
         \/ parent_of(c, w) \in managed(c) /\ parent_of(c, w) = TransientFor[w]
<1>1. c[w] \in Clients /\ c[w].transient_for \in Windows \cup {NULL}
  BY DEF Good, managed, Clients
<1> QED BY <1>1 DEF Good, managed, parent_of

\* S holds the parents of its members.
Upward(c, S) ==
  S \in SUBSET managed(c) /\ \A u \in S : parent_of(c, u) \in S \cup {NULL}

\* The least such set with the parent of w.
Ancestors(c, w) ==
  {v \in Windows : \A S : Upward(c, S) /\ parent_of(c, w) \in S \cup {NULL} => v \in S}

LEMMA AncestorsUpward ==
  ASSUME NEW c, Good(c), NEW w \in managed(c)
  PROVE  /\ Upward(c, Ancestors(c, w))
         /\ parent_of(c, w) \in Ancestors(c, w) \cup {NULL}
         /\ \A S : Upward(c, S) /\ parent_of(c, w) \in S \cup {NULL} => Ancestors(c, w) \subseteq S
<1> DEFINE A == Ancestors(c, w)
<1>1. Upward(c, managed(c)) /\ parent_of(c, w) \in managed(c) \cup {NULL}
  BY ParentIs DEF Upward
<1>2. \A S : Upward(c, S) /\ parent_of(c, w) \in S \cup {NULL} => A \subseteq S
  BY DEF Ancestors
<1>3. A \subseteq managed(c)
  BY <1>1, <1>2
<1>4. parent_of(c, w) \in A \cup {NULL}
  BY <1>1 DEF Ancestors, managed
<1>5. ASSUME NEW u \in A, parent_of(c, u) # NULL
      PROVE  parent_of(c, u) \in A
  <2>1. \A S : Upward(c, S) /\ parent_of(c, w) \in S \cup {NULL} => parent_of(c, u) \in S
    BY <1>5 DEF Ancestors, Upward
  <2>2. parent_of(c, u) \in Windows
    BY <1>3, <1>5, ParentIs DEF managed
  <2> QED BY <2>1, <2>2 DEF Ancestors
<1> QED BY <1>2, <1>3, <1>4, <1>5 DEF Upward

\* A window has one ancestor more than its parent.
LEMMA AncestorsStep ==
  ASSUME NEW c, Good(c), NEW w \in managed(c)
  PROVE  IF parent_of(c, w) = NULL THEN Ancestors(c, w) = {}
         ELSE Ancestors(c, w) = {parent_of(c, w)} \cup Ancestors(c, parent_of(c, w))
<1> DEFINE p == parent_of(c, w)
<1>1. CASE p = NULL
  <2>1. Upward(c, {})
    BY DEF Upward
  <2> QED BY <1>1, <2>1 DEF Ancestors
<1>2. CASE p # NULL
  <2> DEFINE B == {p} \cup Ancestors(c, p)
  <2>1. p \in managed(c)
    BY <1>2, ParentIs
  <2>2. /\ Upward(c, Ancestors(c, p))
        /\ parent_of(c, p) \in Ancestors(c, p) \cup {NULL}
        /\ \A S : Upward(c, S) /\ parent_of(c, p) \in S \cup {NULL} => Ancestors(c, p) \subseteq S
    BY <2>1, AncestorsUpward
  <2>3. Upward(c, B)
    BY <2>1, <2>2 DEF Upward
  <2>4. Ancestors(c, w) \subseteq B
    BY <2>3, AncestorsUpward
  <2>5. p \in Ancestors(c, w) /\ Upward(c, Ancestors(c, w))
    BY <1>2, AncestorsUpward
  <2>6. Ancestors(c, p) \subseteq Ancestors(c, w)
    BY <2>2, <2>5 DEF Upward
  <2> QED BY <1>2, <2>4, <2>5, <2>6
<1> QED BY <1>1, <1>2

\* No window is its own ancestor.
LEMMA NotOwnAncestor ==
  ASSUME NEW c, Good(c), NEW w \in managed(c)
  PROVE  w \notin Ancestors(c, w)
<1> SUFFICES ASSUME w \in Ancestors(c, w) PROVE FALSE
  OBVIOUS
<1> DEFINE C == {v \in managed(c) : w \in Ancestors(c, v)}
<1>1. C \in SUBSET Windows /\ C # {}
  BY DEF managed
<1>2. PICK v \in C : TransientFor[v] \notin C
  BY <1>1, StackingAssumption
<1>3. v \in managed(c) /\ w \in Ancestors(c, v)
  OBVIOUS
<1>4. parent_of(c, v) # NULL
  BY <1>3, AncestorsStep
<1>5. parent_of(c, v) = TransientFor[v] /\ parent_of(c, v) \in managed(c)
  BY <1>3, <1>4, ParentIs
<1>6. w = parent_of(c, v) \/ w \in Ancestors(c, parent_of(c, v))
  BY <1>3, <1>4, AncestorsStep
<1> QED BY <1>2, <1>5, <1>6

\* transient_depth unfolds, and is a number: that of the ancestors.
LEMMA DepthIs ==
  ASSUME NEW c, Good(c), NEW w \in managed(c)
  PROVE  /\ transient_depth(c)[w] \in Nat
         /\ parent_of(c, w) # NULL => transient_depth(c)[w] > transient_depth(c)[parent_of(c, w)]
         /\ transient_depth(c)[w] = IF parent_of(c, w) = NULL THEN 0
                                    ELSE 1 + transient_depth(c)[parent_of(c, w)]
<1> DEFINE g == [v \in managed(c) |-> Cardinality(Ancestors(c, v))]
           d == transient_depth(c)
<1>1. ASSUME NEW v \in managed(c)
      PROVE  g[v] = IF parent_of(c, v) = NULL THEN 0 ELSE 1 + g[parent_of(c, v)]
  <2>1. CASE parent_of(c, v) = NULL
    BY <2>1, AncestorsStep, FS_EmptySet
  <2>2. CASE parent_of(c, v) # NULL
    <3> DEFINE p == parent_of(c, v)
    <3>1. p \in managed(c)
      BY <2>2, ParentIs
    <3>2. p \notin Ancestors(c, p)
      BY <3>1, NotOwnAncestor
    <3>3. Ancestors(c, p) \subseteq Windows
      BY DEF Ancestors
    <3>4. IsFiniteSet(Ancestors(c, p))
      BY <3>3, FinitelyMany, FS_Subset
    <3>5. Cardinality(Ancestors(c, p) \cup {p}) = Cardinality(Ancestors(c, p)) + 1
      BY <3>2, <3>4, FS_AddElement
    <3>6. Cardinality(Ancestors(c, p)) \in Nat
      BY <3>4, FS_CardinalityType
    <3>7. Ancestors(c, v) = Ancestors(c, p) \cup {p}
      BY <2>2, AncestorsStep
    <3>8. Cardinality(Ancestors(c, v)) = 1 + Cardinality(Ancestors(c, p))
      BY <3>5, <3>6, <3>7
    <3>9. g[v] = Cardinality(Ancestors(c, v)) /\ g[p] = Cardinality(Ancestors(c, p))
      BY <3>1
    <3> QED BY <2>2, <3>8, <3>9, Zenon
  <2> QED BY <2>1, <2>2
<1>2. g = [v \in managed(c) |-> IF parent_of(c, v) = NULL THEN 0 ELSE 1 + g[parent_of(c, v)]]
  BY <1>1
<1> HIDE DEF g
<1>3. d = [v \in managed(c) |-> IF parent_of(c, v) = NULL THEN 0 ELSE 1 + d[parent_of(c, v)]]
  BY <1>2, Zenon DEF transient_depth, managed
<1> HIDE DEF d
<1>4. \A v \in managed(c) :
        d[v] = IF parent_of(c, v) = NULL THEN 0 ELSE 1 + d[parent_of(c, v)]
  BY <1>3
<1> DEFINE T == {v \in managed(c) : d[v] \notin Nat}
<1>5. T = {}
  <2> SUFFICES ASSUME T # {} PROVE FALSE
    OBVIOUS
  <2>1. T \in SUBSET Windows
    BY DEF managed
  <2>2. PICK v \in T : TransientFor[v] \notin T
    BY <2>1, StackingAssumption
  <2>3. parent_of(c, v) # NULL
    BY <1>4
  <2>4. parent_of(c, v) \in managed(c) /\ parent_of(c, v) \notin T
    BY <2>2, <2>3, ParentIs
  <2> QED BY <1>4, <2>3, <2>4
<1>6. \A v \in managed(c) : d[v] \in Nat
  BY <1>5
<1>7. parent_of(c, w) # NULL => parent_of(c, w) \in managed(c)
  BY ParentIs
<1> QED BY <1>4, <1>6, <1>7 DEF d

-----------------------------------------------------------------------------
(* Keys.                                                                   *)

Keys5 == Nat \X Nat \X Nat \X Nat \X Nat

Lex(a, b) ==
  \/ a[1] < b[1]
  \/ a[1] = b[1] /\ \/ a[2] < b[2]
                    \/ a[2] = b[2] /\ \/ a[3] < b[3]
                                      \/ a[3] = b[3] /\ \/ a[4] < b[4]
                                                        \/ a[4] = b[4] /\ a[5] < b[5]

\* key_less compares the first number that differs.
LEMMA LessIs ==
  ASSUME NEW a \in Keys5, NEW b \in Keys5
  PROVE  key_less(a, b) <=> Lex(a, b)
<1>1. DOMAIN a = 1 .. 5
  BY DEF Keys5
<1>2. \A i \in Int : i \in 1 .. 5 <=> i = 1 \/ i = 2 \/ i = 3 \/ i = 4 \/ i = 5
  OBVIOUS
<1> DEFINE first(i) == a[i] < b[i] /\ \A j \in 1 .. i - 1 : a[j] = b[j]
<1>3. key_less(a, b) <=> first(1) \/ first(2) \/ first(3) \/ first(4) \/ first(5)
  BY <1>1, <1>2 DEF key_less
<1>4. /\ first(1) <=> a[1] < b[1]
      /\ first(2) <=> a[2] < b[2] /\ a[1] = b[1]
      /\ first(3) <=> a[3] < b[3] /\ a[1] = b[1] /\ a[2] = b[2]
      /\ first(4) <=> a[4] < b[4] /\ a[1] = b[1] /\ a[2] = b[2] /\ a[3] = b[3]
      /\ first(5) <=> a[5] < b[5] /\ a[1] = b[1] /\ a[2] = b[2] /\ a[3] = b[3] /\ a[4] = b[4]
  OBVIOUS
<1> HIDE DEF first
<1> QED BY <1>3, <1>4 DEF Lex

LEMMA LexOrder ==
  ASSUME NEW a \in Keys5, NEW b \in Keys5
  PROVE  /\ Lex(a, b) => ~Lex(b, a)
         /\ a[5] # b[5] => Lex(a, b) \/ Lex(b, a)
         /\ \A k \in Keys5 : Lex(a, b) /\ Lex(b, k) => Lex(a, k)
BY DEF Lex, Keys5

\* The key of a client is of five numbers, the last of which is the place of its id.
LEMMA KeyIs ==
  ASSUME NEW c, Good(c), NEW w \in managed(c)
  PROVE  stack_key(c, w) \in Keys5 /\ stack_key(c, w)[5] = xid(w)
<1>1. c[w] \in Clients /\ c[w].mru_seq \in Nat
  BY DEF Good, managed, Clients
<1>2. transient_depth(c)[w] \in Nat
  BY DepthIs
<1>3. \A v : compute_layer(c, v) \in Nat
  BY DEF compute_layer, layer
<1>4. stack_layer(c, w) \in Nat
  BY <1>3 DEF stack_layer, larger
<1>5. xid(w) \in Nat
  BY WindowIds DEF managed
<1> QED BY <1>1, <1>2, <1>4, <1>5 DEF stack_key, Keys5

\* One window's key is less than the other's.
below(c, v, w) == key_less(stack_key(c, v), stack_key(c, w))

\* Keys order the clients strictly.
LEMMA KeysOrder ==
  ASSUME NEW c, Good(c), NEW v \in managed(c), NEW w \in managed(c)
  PROVE  /\ below(c, v, w) => ~below(c, w, v)
         /\ v # w => below(c, v, w) \/ below(c, w, v)
         /\ \A u \in managed(c) : below(c, v, w) /\ below(c, w, u) => below(c, v, u)
<1>1. \A u \in managed(c) : stack_key(c, u) \in Keys5 /\ stack_key(c, u)[5] = xid(u)
  BY KeyIs
<1>2. \A u, x \in managed(c) : below(c, u, x) <=> Lex(stack_key(c, u), stack_key(c, x))
  BY <1>1, LessIs DEF below
<1>3. v # w => xid(v) # xid(w)
  BY WindowIds DEF managed
<1> QED BY <1>1, <1>2, <1>3, LexOrder

-----------------------------------------------------------------------------
(* The rank of a client.                                                   *)

Strict(S, L) ==
  /\ \A v, w \in S : <<v, w>> \in L => <<w, v>> \notin L
  /\ \A v, w \in S : v # w => <<v, w>> \in L \/ <<w, v>> \in L
  /\ \A u, v, w \in S : <<u, v>> \in L /\ <<v, w>> \in L => <<u, w>> \in L

ranks(S, L) == [w \in S |-> Cardinality({v \in S : <<v, w>> \in L})]

\* In a finite set that L orders strictly, the number of those before is a bijection
\* onto the first numbers that keeps the order.
LEMMA RankIs ==
  ASSUME NEW S, IsFiniteSet(S), NEW L, Strict(S, L)
  PROVE  /\ Cardinality(S) \in Nat
         /\ \A w \in S : ranks(S, L)[w] \in 0 .. Cardinality(S) - 1
         /\ \A i \in 0 .. Cardinality(S) - 1 : \E w \in S : ranks(S, L)[w] = i
         /\ \A v, w \in S : <<v, w>> \in L <=> ranks(S, L)[v] < ranks(S, L)[w]
<1> DEFINE n == Cardinality(S)
           rank == ranks(S, L)
           lower(w) == {v \in S : <<v, w>> \in L}
<1>0. /\ \A v, w \in S : <<v, w>> \in L => <<w, v>> \notin L
      /\ \A v, w \in S : v # w => <<v, w>> \in L \/ <<w, v>> \in L
      /\ \A u, v, w \in S : <<u, v>> \in L /\ <<v, w>> \in L => <<u, w>> \in L
  BY DEF Strict
<1>1. rank \in [S -> {rank[w] : w \in S}] /\ \A w \in S : rank[w] = Cardinality(lower(w))
  BY DEF ranks
<1>2. \A w \in S : lower(w) \subseteq S /\ w \notin lower(w) /\ w \in S
  BY <1>0
<1>3. ASSUME NEW v \in S, NEW w \in S, <<v, w>> \in L
      PROVE  lower(v) \subseteq lower(w) /\ lower(v) # lower(w)
  BY <1>0, <1>3
<1> HIDE DEF lower, rank
<1>4. n \in Nat
  BY FS_CardinalityType
<1>5. ASSUME NEW w \in S
      PROVE  IsFiniteSet(lower(w)) /\ rank[w] \in Nat /\ rank[w] < n
  <2>1. IsFiniteSet(lower(w)) /\ Cardinality(lower(w)) \in Nat
    BY <1>2, FS_Subset, FS_CardinalityType
  <2>2. Cardinality(lower(w)) <= n /\ Cardinality(lower(w)) # n
    BY <1>2, FS_Subset
  <2> QED BY <1>1, <1>4, <2>1, <2>2
<1>6. ASSUME NEW v \in S, NEW w \in S, <<v, w>> \in L
      PROVE  rank[v] < rank[w]
  <2>1. IsFiniteSet(lower(w)) /\ lower(v) \subseteq lower(w) /\ lower(v) # lower(w)
    BY <1>3, <1>5, <1>6
  <2>2. Cardinality(lower(v)) <= Cardinality(lower(w)) /\ Cardinality(lower(v)) # Cardinality(lower(w))
    BY <2>1, FS_Subset
  <2>3. rank[v] \in Nat /\ rank[w] \in Nat
    BY <1>5
  <2> QED BY <1>1, <2>2, <2>3
<1>7. \A v, w \in S : <<v, w>> \in L <=> rank[v] < rank[w]
  <2> TAKE v \in S, w \in S
  <2>1. rank[v] \in Nat /\ rank[w] \in Nat
    BY <1>5
  <2>2. CASE v = w
    BY <1>0, <2>1, <2>2
  <2>3. <<v, w>> \in L => rank[v] < rank[w]
    BY <1>6
  <2>4. <<w, v>> \in L => rank[w] < rank[v]
    BY <1>6
  <2>5. v # w => <<v, w>> \in L \/ <<w, v>> \in L
    BY <1>0
  <2> QED BY <2>1, <2>2, <2>3, <2>4, <2>5
<1>8. \A w \in S : rank[w] \in 0 .. n - 1
  BY <1>4, <1>5
<1>9. rank \in Injection(S, 0 .. n - 1)
  <2>1. ASSUME NEW v \in S, NEW w \in S, v # w
        PROVE  rank[v] # rank[w]
    <3>1. rank[v] \in Nat /\ rank[w] \in Nat
      BY <1>5
    <3>2. <<v, w>> \in L \/ <<w, v>> \in L
      BY <1>0, <2>1
    <3>3. rank[v] < rank[w] \/ rank[w] < rank[v]
      BY <1>7, <3>2
    <3> QED BY <3>1, <3>3
  <2>2. rank \in [S -> 0 .. n - 1] /\ IsInjective(rank)
    BY <1>1, <1>8, <2>1 DEF IsInjective
  <2> QED BY <2>2 DEF Injection
<1>10. IsFiniteSet(0 .. n - 1) /\ Cardinality(0 .. n - 1) = n
  <2>1. IsFiniteSet(0 .. n - 1) /\ Cardinality(0 .. n - 1) = IF 0 > n - 1 THEN 0 ELSE (n - 1) - 0 + 1
    BY <1>4, FS_Interval
  <2> QED BY <1>4, <2>1
<1>11. rank \in Surjection(S, 0 .. n - 1)
  BY <1>9, <1>10, FS_Injection
<1>12. \A i \in 0 .. n - 1 : \E w \in S : rank[w] = i
  BY <1>11 DEF Surjection
<1> QED BY <1>4, <1>7, <1>8, <1>12 DEF rank


-----------------------------------------------------------------------------
(* restack.                                                                *)

\* sorted lists each client that takes part once, from the least key up.
LEMMA SortedIs ==
  ASSUME NEW c, Good(c)
  PROVE  /\ sorted(c) \in Seq(Windows)
         /\ ToSet(sorted(c)) = collect_clients(c)
         /\ \A i, j \in DOMAIN sorted(c) : sorted(c)[i] = sorted(c)[j] => i = j
         /\ \A i, j \in DOMAIN sorted(c) : i < j <=> below(c, sorted(c)[i], sorted(c)[j])
<1> DEFINE S    == collect_clients(c)
           key  == [w \in S |-> stack_key(c, w)]
           rank == [w \in S |-> Cardinality({v \in S : key_less(key[v], key[w])})]
           L    == {p \in S \X S : key_less(key[p[1]], key[p[2]])}
           n    == Cardinality(S)
           s    == sorted(c)
<1>1. S \subseteq managed(c) /\ S \subseteq Windows
  BY DEF collect_clients, managed
<1>2. s = [i \in 1 .. n |-> CHOOSE w \in S : rank[w] = i - 1]
  BY DEF sorted
<1>3. \A v, w \in S : <<v, w>> \in L <=> below(c, v, w)
  BY DEF below
<1>4. \A v, w \in S : <<v, w>> \in L <=> key_less(key[v], key[w])
  OBVIOUS
<1> HIDE DEF L, key, S, s
<1>5. IsFiniteSet(S)
  BY <1>1, FinitelyMany, FS_Subset
<1>6. Strict(S, L)
  <2>1. \A v \in S : v \in managed(c)
    BY <1>1
  <2> QED BY <1>3, <2>1, KeysOrder DEF Strict
<1>7. \A w \in S : {v \in S : key_less(key[v], key[w])} = {v \in S : <<v, w>> \in L}
  BY <1>4
<1>8. rank = ranks(S, L)
  BY <1>7 DEF ranks
<1> HIDE DEF rank
<1>9. /\ n \in Nat
      /\ \A w \in S : rank[w] \in 0 .. n - 1
      /\ \A i \in 0 .. n - 1 : \E w \in S : rank[w] = i
      /\ \A v, w \in S : <<v, w>> \in L <=> rank[v] < rank[w]
  BY <1>5, <1>6, <1>8, RankIs
<1>10. DOMAIN s = 1 .. n
  BY <1>2
<1> HIDE DEF n
<1>11. ASSUME NEW i \in 1 .. n
       PROVE  s[i] \in S /\ rank[s[i]] = i - 1
  <2>1. i - 1 \in 0 .. n - 1
    BY <1>9
  <2>2. \E w \in S : rank[w] = i - 1
    BY <1>9, <2>1
  <2>3. s[i] = CHOOSE w \in S : rank[w] = i - 1
    BY <1>2
  <2> QED BY <2>2, <2>3
<1>12. s \in Seq(Windows)
  <2>1. s \in [1 .. n -> Windows]
    BY <1>1, <1>2, <1>10, <1>11
  <2> QED BY <1>9, <2>1
<1>13. \A w \in S : \E i \in 1 .. n : s[i] = w
  <2> TAKE w \in S
  <2>1. rank[w] + 1 \in 1 .. n /\ rank[w] \in Int
    BY <1>9
  <2>2. s[rank[w] + 1] \in S /\ rank[s[rank[w] + 1]] = rank[w]
    BY <1>11, <2>1
  <2>3. ~(rank[w] < rank[w])
    BY <2>1
  <2>4. s[rank[w] + 1] = w
    BY <1>6, <1>9, <2>2, <2>3 DEF Strict
  <2> QED BY <2>1, <2>4
<1>14. ToSet(s) = S
  BY <1>10, <1>11, <1>13 DEF ToSet
<1>15. \A i, j \in 1 .. n : s[i] = s[j] => i = j
  BY <1>9, <1>11
<1>16. \A i, j \in 1 .. n : i < j <=> below(c, s[i], s[j])
  <2> TAKE i \in 1 .. n, j \in 1 .. n
  <2>1. s[i] \in S /\ s[j] \in S /\ rank[s[i]] = i - 1 /\ rank[s[j]] = j - 1
    BY <1>11
  <2>2. below(c, s[i], s[j]) <=> rank[s[i]] < rank[s[j]]
    BY <1>3, <1>9, <2>1
  <2> QED BY <1>9, <2>1, <2>2
<1> QED BY <1>10, <1>12, <1>14, <1>15, <1>16 DEF s, S

\* The pairs of the sorted sequence are those whose keys say so.
LEMMA SortedPairs ==
  ASSUME NEW c, Good(c), NEW v, NEW w
  PROVE  <<v, w>> \in in_order(sorted(c)) <=>
           v \in collect_clients(c) /\ w \in collect_clients(c) /\ below(c, v, w)
<1> DEFINE s == sorted(c)
           S == collect_clients(c)
<1>1. /\ s \in Seq(Windows) /\ ToSet(s) = S
      /\ \A i, j \in DOMAIN s : i < j <=> below(c, s[i], s[j])
  BY SortedIs
<1>2. S \subseteq Windows
  BY DEF collect_clients
<1>3. \A x : x \in S <=> \E i \in DOMAIN s : s[i] = x
  BY <1>1 DEF ToSet
<1> HIDE DEF s, S
<1>4. <<v, w>> \in in_order(s) <=>
        v \in Windows /\ w \in Windows /\ \E i, j \in DOMAIN s : i < j /\ v = s[i] /\ w = s[j]
  BY DEF in_order
<1> QED BY <1>1, <1>2, <1>3, <1>4 DEF s, S

\* A strict order of all windows.
Stacked(s) ==
  /\ s \subseteq Windows \X Windows
  /\ \A v, w \in Windows : <<v, w>> \in s <=> v # w /\ <<w, v>> \notin s
  /\ \A u, v, w \in Windows : <<u, v>> \in s /\ <<v, w>> \in s => <<u, w>> \in s

FullScreen(c, w) == c[w].state = "FULLSCREEN"

\* What restack leaves of two windows: those zwm does not order are as they were,
\* between those it orders that are fullscreen and those that are not.
LEMMA RestackedIs ==
  ASSUME NEW c, Good(c), NEW s, NEW v \in Windows, NEW w \in Windows
  PROVE  LET S == collect_clients(c)
         IN  <<v, w>> \in restacked(c, sorted(c), s) <=>
               \/ v \in S /\ w \in S /\ (FullScreen(c, v) <=> FullScreen(c, w)) /\ below(c, v, w)
               \/ v \notin S /\ w \notin S /\ <<v, w>> \in s
               \/ v \in S /\ ~FullScreen(c, v) /\ (w \notin S \/ FullScreen(c, w))
               \/ v \notin S /\ w \in S /\ FullScreen(c, w)
<1>1. ToSet(sorted(c)) = collect_clients(c)
  BY SortedIs
<1>2. <<v, w>> \in in_order(sorted(c)) <=>
        v \in collect_clients(c) /\ w \in collect_clients(c) /\ below(c, v, w)
  BY SortedPairs
<1> DEFINE S == collect_clients(c)
           Q == in_order(sorted(c))
           F == {x \in S : c[x].state = "FULLSCREEN"}
           U == S \ F
           O == Windows \ S
<1>3. <<v, w>> \in restacked(c, sorted(c), s) <=>
        \/ <<v, w>> \in Q /\ (v \in F <=> w \in F)
        \/ v \in U /\ w \notin U
        \/ v \in O /\ w \in F
        \/ v \in O /\ w \in O /\ <<v, w>> \in s
  BY <1>1 DEF restacked
<1>4. /\ \A x : x \in F <=> x \in S /\ FullScreen(c, x)
      /\ \A x : x \in U <=> x \in S /\ ~FullScreen(c, x)
      /\ \A x \in Windows : x \in O <=> x \notin S
  BY DEF FullScreen
<1> HIDE DEF Q, F, U, O
<1> QED BY <1>2, <1>3, <1>4 DEF Q

\* The server's order stays an order.
LEMMA RestackedStacked ==
  ASSUME NEW c, Good(c), NEW s, Stacked(s)
  PROVE  Stacked(restacked(c, sorted(c), s))
<1> DEFINE t == restacked(c, sorted(c), s)
           S == collect_clients(c)
           B(v, w) == below(c, v, w)
           F(v) == FullScreen(c, v)
<1>1. t \subseteq Windows \X Windows
  BY DEF restacked
<1>2. \A v, w \in Windows : <<v, w>> \in t <=>
        \/ v \in S /\ w \in S /\ (F(v) <=> F(w)) /\ B(v, w)
        \/ v \notin S /\ w \notin S /\ <<v, w>> \in s
        \/ v \in S /\ ~F(v) /\ (w \notin S \/ F(w))
        \/ v \notin S /\ w \in S /\ F(w)
  BY RestackedIs
<1>3. \A v \in S : v \in managed(c)
  BY DEF collect_clients, managed
<1>4. /\ \A v, w \in S : B(v, w) <=> v # w /\ ~B(w, v)
      /\ \A u, v, w \in S : B(u, v) /\ B(v, w) => B(u, w)
  BY <1>3, KeysOrder
<1> HIDE DEF t, S, B, F
<1>5. /\ \A v, w \in Windows : <<v, w>> \in s <=> v # w /\ <<w, v>> \notin s
      /\ \A u, v, w \in Windows : <<u, v>> \in s /\ <<v, w>> \in s => <<u, w>> \in s
  BY DEF Stacked
<1>6. \A v, w \in Windows : <<v, w>> \in t <=> v # w /\ <<w, v>> \notin t
  BY <1>2, <1>4, <1>5
<1>7. \A u, v, w \in Windows : <<u, v>> \in t /\ <<v, w>> \in t => <<u, w>> \in t
  BY <1>2, <1>4, <1>5
<1> QED BY <1>1, <1>6, <1>7 DEF Stacked, t

\* raise_window moves one window over all others.
LEMMA RaisedIs ==
  ASSUME NEW s, Stacked(s), NEW x \in Windows
  PROVE  /\ Stacked(raise_window(s, x))
         /\ \A v, w \in Windows : v # x /\ w # x => (<<v, w>> \in raise_window(s, x) <=> <<v, w>> \in s)
<1> DEFINE t == raise_window(s, x)
<1>1. \A v, w \in Windows : <<v, w>> \in t <=>
        \/ <<v, w>> \in s /\ v # x /\ w # x
        \/ w = x /\ v # x
  BY DEF raise_window
<1>2. t \subseteq Windows \X Windows
  BY DEF raise_window
<1> HIDE DEF t
<1>3. /\ \A v, w \in Windows : <<v, w>> \in s <=> v # w /\ <<w, v>> \notin s
      /\ \A u, v, w \in Windows : <<u, v>> \in s /\ <<v, w>> \in s => <<u, w>> \in s
  BY DEF Stacked
<1>4. \A v, w \in Windows : <<v, w>> \in t <=> v # w /\ <<w, v>> \notin t
  BY <1>1, <1>3
<1>5. \A u, v, w \in Windows : <<u, v>> \in t /\ <<v, w>> \in t => <<u, w>> \in t
  BY <1>1, <1>3
<1> QED BY <1>1, <1>2, <1>4, <1>5 DEF Stacked, t


-----------------------------------------------------------------------------
(* What handlers do to the clients.                                        *)

\* Two accounts of the clients that differ only in what restack is told besides: when
\* a window was used, whether it is hidden, and its desktop.
Alike(c, d) ==
  /\ managed(d) = managed(c)
  /\ \A w \in managed(c) :
       /\ d[w].state = c[w].state /\ d[w].transient_for = c[w].transient_for
       /\ d[w].override_redirect = c[w].override_redirect
       /\ d[w].ewmh_state \ {"HIDDEN"} = c[w].ewmh_state \ {"HIDDEN"}

LEMMA ClientFields ==
  ASSUME NEW c, Good(c), NEW w \in managed(c)
  PROVE  /\ w \in Windows /\ c[w] \in Clients /\ c[w] # NULL
         /\ c[w].desk \in DesktopIds /\ c[w].state \in WinStates
         /\ c[w].transient_for \in Windows \cup {NULL}
         /\ c[w].ewmh_state \subseteq Atoms /\ c[w].mru_seq \in Nat
         /\ c[w].override_redirect \in BOOLEAN
BY DEF Good, managed, Clients

\* A client is replaced by one that is transient for the same window.
LEMMA OneChanged ==
  ASSUME NEW c, Good(c), NEW w \in Windows, NEW r \in Clients,
         r.transient_for \in {NULL, TransientFor[w]}
  PROVE  /\ Good([c EXCEPT ![w] = r]) /\ managed([c EXCEPT ![w] = r]) = managed(c) \cup {w}
         /\ [c EXCEPT ![w] = r][w] = r
         /\ \A v \in Windows : v # w => [c EXCEPT ![w] = r][v] = c[v]
<1> DEFINE d == [c EXCEPT ![w] = r]
<1>1. d \in [Windows -> Clients \cup {NULL}] /\ d[w] = r /\ \A v \in Windows : v # w => d[v] = c[v]
  BY DEF Good
<1>2. r # NULL
  BY Apart
<1> HIDE DEF d
<1>3. managed(d) = managed(c) \cup {w}
  BY <1>1, <1>2 DEF managed
<1>4. \A v \in Windows : d[v] # NULL => d[v].transient_for \in {NULL, TransientFor[v]}
  BY <1>1 DEF Good
<1>5. Good(d)
  BY <1>1, <1>4 DEF Good
<1> QED BY <1>1, <1>3, <1>5 DEF d

\* A client is no longer managed.
LEMMA OneGone ==
  ASSUME NEW c, Good(c), NEW w \in Windows
  PROVE  /\ Good([c EXCEPT ![w] = NULL]) /\ managed([c EXCEPT ![w] = NULL]) = managed(c) \ {w}
         /\ \A v \in Windows : v # w => [c EXCEPT ![w] = NULL][v] = c[v]
BY DEF Good, managed

\* used makes a window the one used last.
LEMMA UsedIs ==
  ASSUME NEW c, Good(c), NEW w \in managed(c), mru_counter \in Nat
  PROVE  /\ Good(used(c, w)) /\ Alike(c, used(c, w)) /\ managed(used(c, w)) = managed(c)
         /\ \A v \in Windows : v # w => used(c, w)[v] = c[v]
         /\ used(c, w)[w] = [c[w] EXCEPT !.mru_seq = mru_counter + 1]
<1> DEFINE d == used(c, w)
<1>1. c[w] \in Clients /\ w \in Windows /\ c \in [Windows -> Clients \cup {NULL}]
  BY ClientFields DEF Good
<1>0. [c[w] EXCEPT !.mru_seq = mru_counter + 1] \in Clients
  BY <1>1 DEF Clients
<1>2. PICK r \in Clients : r = [c[w] EXCEPT !.mru_seq = mru_counter + 1]
  BY <1>0
<1>3. /\ r.transient_for = c[w].transient_for /\ r.state = c[w].state
      /\ r.ewmh_state = c[w].ewmh_state /\ r.override_redirect = c[w].override_redirect
  BY <1>1, <1>2 DEF Clients
<1>4. d = [c EXCEPT ![w] = r]
  BY <1>2 DEF used
<1>5. r.transient_for \in {NULL, TransientFor[w]}
  BY <1>3 DEF Good, managed
<1> HIDE DEF d
<1>6. /\ Good(d) /\ managed(d) = managed(c) \cup {w}
      /\ d[w] = r /\ \A v \in Windows : v # w => d[v] = c[v]
  <2>1. /\ Good([c EXCEPT ![w] = r]) /\ managed([c EXCEPT ![w] = r]) = managed(c) \cup {w}
        /\ [c EXCEPT ![w] = r][w] = r
        /\ \A v \in Windows : v # w => [c EXCEPT ![w] = r][v] = c[v]
    BY <1>1, <1>5, OneChanged
  <2> QED BY <1>4, <2>1
<1>7. managed(d) = managed(c)
  BY <1>6
<1>8. Alike(c, d)
  BY <1>3, <1>6, <1>7 DEF Alike, managed
<1> QED BY <1>2, <1>6, <1>7, <1>8 DEF d

\* set_fullscreen makes a window fullscreen, or tiled.
LEMMA FullscreenIs ==
  ASSUME NEW c, Good(c), NEW w \in managed(c), NEW flag \in BOOLEAN
  PROVE  /\ Good(set_fullscreen(c, w, flag)) /\ managed(set_fullscreen(c, w, flag)) = managed(c)
         /\ \A v \in Windows : v # w => set_fullscreen(c, w, flag)[v] = c[v]
         /\ set_fullscreen(c, w, flag)[w].state # "FLOATING"
<1> DEFINE d  == set_fullscreen(c, w, flag)
           st == IF flag THEN "FULLSCREEN" ELSE "TILED"
           e  == IF flag THEN c[w].ewmh_state \cup {"FULLSCREEN"} ELSE c[w].ewmh_state \ {"FULLSCREEN"}
           r  == [[c[w] EXCEPT !.state = st] EXCEPT !.ewmh_state = e]
<1>1. c[w] \in Clients /\ w \in Windows /\ c \in [Windows -> Clients \cup {NULL}]
  BY ClientFields DEF Good
<1>2. st \in WinStates /\ st # "FLOATING" /\ e \in SUBSET Atoms
  BY <1>1 DEF WinStates, Atoms, Clients
<1> HIDE DEF st, e
<1>3. r \in Clients /\ r.transient_for = c[w].transient_for /\ r.state = st
  BY <1>1, <1>2 DEF Clients
<1>4. d = [c EXCEPT ![w] = r]
  <2>1. d = [[c EXCEPT ![w].state = st] EXCEPT ![w].ewmh_state =
                IF flag THEN [c EXCEPT ![w].state = st][w].ewmh_state \cup {"FULLSCREEN"}
                ELSE [c EXCEPT ![w].state = st][w].ewmh_state \ {"FULLSCREEN"}]
    BY DEF set_fullscreen, st
  <2>2. [c EXCEPT ![w].state = st][w].ewmh_state = c[w].ewmh_state
    BY <1>1, <1>2 DEF Clients
  <2>3. d = [[c EXCEPT ![w].state = st] EXCEPT ![w].ewmh_state = e]
    BY <2>1, <2>2 DEF e
  <2> QED BY <1>1, <2>3
<1>5. r.transient_for \in {NULL, TransientFor[w]}
  BY <1>3 DEF Good, managed
<1> HIDE DEF r, d
<1>6. /\ Good(d) /\ managed(d) = managed(c) \cup {w}
      /\ d[w] = r /\ \A v \in Windows : v # w => d[v] = c[v]
  BY <1>1, <1>3, <1>4, <1>5, OneChanged
<1>7. managed(d) = managed(c)
  BY <1>6
<1> QED BY <1>2, <1>3, <1>6, <1>7 DEF d

\* Several clients are changed, each to one that is transient for the same window.
LEMMA ManyChanged ==
  ASSUME NEW c, Good(c), NEW S, S \subseteq managed(c), NEW d,
         d = [w \in Windows |-> d[w]],
         \A w \in Windows : w \notin S => d[w] = c[w],
         \A w \in S : d[w] \in Clients /\ d[w].transient_for = c[w].transient_for
  PROVE  Good(d) /\ managed(d) = managed(c)
<1>1. \A w \in managed(c) : c[w] # NULL /\ w \in Windows /\ c[w].transient_for \in {NULL, TransientFor[w]}
  BY DEF Good, managed
<1>2. \A w \in S : d[w] # NULL
  BY Apart
<1>3. managed(d) = managed(c)
  BY <1>1, <1>2 DEF managed
<1>4. \A w \in Windows : d[w] \in Clients \cup {NULL}
  BY DEF Good
<1>5. \A w \in Windows : d[w] # NULL => d[w].transient_for \in {NULL, TransientFor[w]}
  <2> TAKE w \in Windows
  <2>1. CASE w \in S
    BY <1>1, <2>1
  <2>2. CASE w \notin S
    BY <2>2 DEF Good
  <2> QED BY <2>1, <2>2
<1> QED BY <1>3, <1>4, <1>5 DEF Good

WithAtom(r, atom)    == [r EXCEPT !.ewmh_state = r.ewmh_state \cup {atom}]
WithoutAtom(r, atom) == [r EXCEPT !.ewmh_state = r.ewmh_state \ {atom}]

\* Only the flag differs.
LEMMA AtomAdded ==
  ASSUME NEW r \in Clients, NEW atom \in Atoms
  PROVE  /\ WithAtom(r, atom) \in Clients
         /\ WithAtom(r, atom).transient_for = r.transient_for /\ WithAtom(r, atom).state = r.state
         /\ WithAtom(r, atom).override_redirect = r.override_redirect
         /\ WithAtom(r, atom).mru_seq = r.mru_seq
         /\ WithAtom(r, atom).ewmh_state = r.ewmh_state \cup {atom}
<1>1. r.ewmh_state \cup {atom} \in SUBSET Atoms
  BY DEF Clients
<1> QED BY <1>1 DEF WithAtom, Clients

LEMMA AtomTaken ==
  ASSUME NEW r \in Clients, NEW atom \in Atoms
  PROVE  /\ WithoutAtom(r, atom) \in Clients
         /\ WithoutAtom(r, atom).transient_for = r.transient_for /\ WithoutAtom(r, atom).state = r.state
         /\ WithoutAtom(r, atom).override_redirect = r.override_redirect
         /\ WithoutAtom(r, atom).mru_seq = r.mru_seq
         /\ WithoutAtom(r, atom).ewmh_state = r.ewmh_state \ {atom}
<1>1. r.ewmh_state \ {atom} \in SUBSET Atoms
  BY DEF Clients
<1> QED BY <1>1 DEF WithoutAtom, Clients

\* A flag is set on several windows.
LEMMA FlaggedIs ==
  ASSUME NEW c, Good(c), NEW S, S \subseteq managed(c), NEW atom \in Atoms
  PROVE  /\ Good(flagged(c, S, atom)) /\ managed(flagged(c, S, atom)) = managed(c)
         /\ \A w \in Windows : w \notin S => flagged(c, S, atom)[w] = c[w]
         /\ \A w \in S : flagged(c, S, atom)[w] = WithAtom(c[w], atom)
<1> DEFINE d == flagged(c, S, atom)
<1>1. \A w \in S : w \in Windows /\ c[w] \in Clients
  BY ClientFields
<1>2. \A w \in S : d[w] = WithAtom(c[w], atom)
  BY <1>1 DEF flagged, WithAtom
<1>3. d = [w \in Windows |-> d[w]] /\ \A w \in Windows : w \notin S => d[w] = c[w]
  BY DEF flagged
<1> HIDE DEF d
<1>4. ASSUME NEW w \in S
      PROVE  d[w] \in Clients /\ d[w].transient_for = c[w].transient_for
  <2>1. c[w] \in Clients /\ d[w] = WithAtom(c[w], atom)
    BY <1>1, <1>2
  <2> QED BY <2>1, AtomAdded
<1>5. Good(d) /\ managed(d) = managed(c)
  BY <1>3, <1>4, ManyChanged
<1> QED BY <1>2, <1>3, <1>5 DEF d

\* A flag is taken from several windows.
LEMMA UnflaggedIs ==
  ASSUME NEW c, Good(c), NEW S, S \subseteq managed(c), NEW atom \in Atoms
  PROVE  /\ Good(unflagged(c, S, atom)) /\ managed(unflagged(c, S, atom)) = managed(c)
         /\ \A w \in Windows : w \notin S => unflagged(c, S, atom)[w] = c[w]
         /\ \A w \in S : unflagged(c, S, atom)[w] = WithoutAtom(c[w], atom)
<1> DEFINE d == unflagged(c, S, atom)
<1>1. \A w \in S : w \in Windows /\ c[w] \in Clients
  BY ClientFields
<1>2. \A w \in S : d[w] = WithoutAtom(c[w], atom)
  BY <1>1 DEF unflagged, WithoutAtom
<1>3. d = [w \in Windows |-> d[w]] /\ \A w \in Windows : w \notin S => d[w] = c[w]
  BY DEF unflagged
<1> HIDE DEF d
<1>4. ASSUME NEW w \in S
      PROVE  d[w] \in Clients /\ d[w].transient_for = c[w].transient_for
  <2>1. c[w] \in Clients /\ d[w] = WithoutAtom(c[w], atom)
    BY <1>1, <1>2
  <2> QED BY <2>1, AtomTaken
<1>5. Good(d) /\ managed(d) = managed(c)
  BY <1>3, <1>4, ManyChanged
<1> QED BY <1>2, <1>3, <1>5 DEF d

\* The depth of a window depends on what the clients are transient for alone.
LEMMA SameDepth ==
  ASSUME NEW c, NEW d, Good(c), Good(d), Alike(c, d), NEW w \in managed(c)
  PROVE  parent_of(d, w) = parent_of(c, w) /\ transient_depth(d)[w] = transient_depth(c)[w]
<1>1. \A v \in managed(c) : parent_of(d, v) = parent_of(c, v)
  BY ClientFields DEF Alike, parent_of, managed
<1> DEFINE T == {v \in managed(c) : transient_depth(d)[v] # transient_depth(c)[v]}
<1>2. T = {}
  <2> SUFFICES ASSUME T # {} PROVE FALSE
    OBVIOUS
  <2>1. T \in SUBSET Windows
    BY DEF managed
  <2>2. PICK v \in T : TransientFor[v] \notin T
    BY <2>1, StackingAssumption
  <2>3. v \in managed(d) /\ v \in managed(c)
    BY DEF Alike
  <2>4. /\ transient_depth(c)[v] = IF parent_of(c, v) = NULL THEN 0
                                   ELSE 1 + transient_depth(c)[parent_of(c, v)]
        /\ transient_depth(d)[v] = IF parent_of(d, v) = NULL THEN 0
                                   ELSE 1 + transient_depth(d)[parent_of(d, v)]
    BY <2>3, DepthIs
  <2>5. parent_of(c, v) # NULL => parent_of(c, v) \in managed(c) /\ parent_of(c, v) \notin T
    BY <2>2, <2>3, ParentIs
  <2> QED BY <1>1, <2>3, <2>4, <2>5
<1> QED BY <1>1, <1>2

\* So does its key, but for its own recency and hidden flag.
LEMMA SameKey ==
  ASSUME NEW c, NEW d, Good(c), Good(d), Alike(c, d), NEW w \in managed(c),
         d[w].mru_seq = c[w].mru_seq,
         "HIDDEN" \in d[w].ewmh_state <=> "HIDDEN" \in c[w].ewmh_state
  PROVE  stack_key(d, w) = stack_key(c, w)
<1>1. \A v \in managed(c) : compute_layer(d, v) = compute_layer(c, v)
  <2> TAKE v \in managed(c)
  <2>1. d[v].state = c[v].state
    BY DEF Alike
  <2>2. \A a : a # "HIDDEN" => (a \in d[v].ewmh_state <=> a \in c[v].ewmh_state)
    BY DEF Alike
  <2>3. {"MODAL", "ABOVE"} \cap d[v].ewmh_state # {} <=> {"MODAL", "ABOVE"} \cap c[v].ewmh_state # {}
    BY <2>2
  <2>4. /\ "FULLSCREEN" \in d[v].ewmh_state <=> "FULLSCREEN" \in c[v].ewmh_state
        /\ "BELOW" \in d[v].ewmh_state <=> "BELOW" \in c[v].ewmh_state
    BY <2>2
  <2> QED BY <2>1, <2>3, <2>4 DEF compute_layer
<1>2. parent_of(d, w) = parent_of(c, w) /\ transient_depth(d)[w] = transient_depth(c)[w]
  BY SameDepth
<1>3. parent_of(c, w) # NULL => parent_of(c, w) \in managed(c)
  BY ParentIs
<1>4. stack_layer(d, w) = stack_layer(c, w)
  BY <1>1, <1>2, <1>3 DEF stack_layer
<1> QED BY <1>2, <1>4 DEF stack_key



-----------------------------------------------------------------------------
(* What is on the screen.                                                  *)

\* The windows whose place the last restack decided, mapped or not.
seen(c, lo) == {w \in collect_clients(c) \ lo : "HIDDEN" \notin c[w].ewmh_state}

\* No window is transient for a transient.
Flat == \A w \in Windows : TransientFor[w] # NULL => TransientFor[TransientFor[w]] = NULL

\* A move to another desktop never loses the client: there are no such moves, or no
\* desktop ever has only floating windows and two of them.
NothingLost ==
  \/ "transfer_node" \notin Keys /\ "_NET_WM_DESKTOP" \notin Messages
  \/ "change_state" \notin Keys /\ \A v, w \in Dialogs : v = w

FullAbove(c, s, lo) ==
  \A v, w \in seen(c, lo) : FullScreen(c, w) /\ ~FullScreen(c, v) => <<v, w>> \in s

KeysAgree(c, s, lo) ==
  \A v, w \in seen(c, lo) :
    ~FullScreen(c, v) /\ ~FullScreen(c, w) /\ below(c, v, w) => <<v, w>> \in s

DialogsOver(c, s, lo) ==
  \A w \in seen(c, lo) :
    LET p == parent_of(c, w)
    IN  p \in seen(c, lo) /\ ~FullScreen(c, p) => <<p, w>> \in s

Lists(c, pub) ==
  /\ pub \in Seq(Windows)
  /\ collect_clients(c) \subseteq ToSet(pub)
  /\ IsInjective(pub)

\* What holds of the clients c, the order s, the loose windows lo and the list pub
\* between two events.
Right(c, s, lo, pub) ==
  /\ Good(c)
  /\ Stacked(s)
  /\ lo \subseteq Windows
  /\ Lists(c, pub)
  /\ FullAbove(c, s, lo)
  /\ Flat => DialogsOver(c, s, lo)
  /\ NothingLost => KeysAgree(c, s, lo)

LEMMA SeenIs ==
  ASSUME NEW c, NEW lo, NEW w \in seen(c, lo)
  PROVE  /\ w \in managed(c) /\ w \in Windows /\ w \in collect_clients(c)
         /\ w \notin lo /\ "HIDDEN" \notin c[w].ewmh_state
BY DEF seen, collect_clients, managed

\* A dialog's key is over that of the window it is transient for.
LEMMA DialogKey ==
  ASSUME NEW c, Good(c), Flat, NEW w \in managed(c), parent_of(c, w) # NULL,
         "HIDDEN" \notin c[w].ewmh_state, "HIDDEN" \notin c[parent_of(c, w)].ewmh_state
  PROVE  below(c, parent_of(c, w), w)
<1> DEFINE p == parent_of(c, w)
<1>1. p \in managed(c) /\ p = TransientFor[w] /\ p \in Windows /\ w \in Windows
  BY ParentIs DEF managed
<1>2. TransientFor[p] = NULL
  BY <1>1 DEF Flat
<1>3. parent_of(c, p) = NULL
  BY <1>1, <1>2, ParentIs, Apart
<1>4. \A v : compute_layer(c, v) \in Nat
  BY DEF compute_layer, layer
<1>5. stack_layer(c, p) = compute_layer(c, p)
  BY <1>3 DEF stack_layer
<1>6. stack_layer(c, w) = larger(compute_layer(c, w), compute_layer(c, p))
  BY DEF stack_layer
<1> HIDE DEF p
<1>7. stack_layer(c, p) <= stack_layer(c, w) /\ stack_layer(c, p) \in Nat /\ stack_layer(c, w) \in Nat
  BY <1>4, <1>5, <1>6 DEF larger
<1>8. transient_depth(c)[p] < transient_depth(c)[w]
      /\ transient_depth(c)[p] \in Nat /\ transient_depth(c)[w] \in Nat
  BY <1>1, DepthIs DEF p
<1>9. stack_key(c, p) \in Keys5 /\ stack_key(c, w) \in Keys5
  BY <1>1, KeyIs
<1>10. /\ stack_key(c, p)[1] = 1 /\ stack_key(c, w)[1] = 1
       /\ stack_key(c, p)[2] = stack_layer(c, p) /\ stack_key(c, w)[2] = stack_layer(c, w)
       /\ stack_key(c, p)[3] = transient_depth(c)[p] /\ stack_key(c, w)[3] = transient_depth(c)[w]
  BY DEF stack_key, p
<1>11. Lex(stack_key(c, p), stack_key(c, w))
  BY <1>7, <1>8, <1>10 DEF Lex
<1>12. below(c, p, w)
  BY <1>9, <1>11, LessIs DEF below
<1> QED BY <1>12 DEF p

\* restack puts everything right.
LEMMA AfterRestack ==
  ASSUME NEW c, Good(c), NEW s, Stacked(s), NEW lo, lo \subseteq Windows
  PROVE  Right(c, restacked(c, sorted(c), s), lo, sorted(c))
<1> DEFINE t == restacked(c, sorted(c), s)
           S == collect_clients(c)
<1>1. \A v, w \in S : v \in Windows /\ w \in Windows /\ v \in managed(c) /\ w \in managed(c)
  BY DEF collect_clients, managed
<1>2. \A v, w \in S :
        <<v, w>> \in t <=> \/ (FullScreen(c, v) <=> FullScreen(c, w)) /\ below(c, v, w)
                           \/ ~FullScreen(c, v) /\ FullScreen(c, w)
  BY <1>1, RestackedIs
<1>3. Stacked(t)
  BY RestackedStacked
<1>4. Lists(c, sorted(c))
  BY SortedIs DEF Lists, IsInjective
<1>5. FullAbove(c, t, lo)
  BY <1>2, SeenIs DEF FullAbove
<1>6. KeysAgree(c, t, lo)
  BY <1>2, SeenIs DEF KeysAgree
<1>7. ASSUME Flat PROVE DialogsOver(c, t, lo)
  <2> SUFFICES ASSUME NEW w \in seen(c, lo), parent_of(c, w) \in seen(c, lo),
                      ~FullScreen(c, parent_of(c, w))
               PROVE  <<parent_of(c, w), w>> \in t
    BY DEF DialogsOver
  <2> DEFINE p == parent_of(c, w)
  <2>1. w \in S /\ p \in S /\ "HIDDEN" \notin c[w].ewmh_state /\ "HIDDEN" \notin c[p].ewmh_state
    BY SeenIs
  <2>2. w \in managed(c) /\ p \in Windows
    BY <1>1, <2>1
  <2>3. p # NULL
    BY <2>2, Apart
  <2>4. below(c, p, w)
    BY <1>7, <2>1, <2>2, <2>3, DialogKey
  <2>5. CASE FullScreen(c, w)
    BY <1>2, <2>1, <2>5
  <2>6. CASE ~FullScreen(c, w)
    BY <1>2, <2>1, <2>4, <2>6
  <2> QED BY <2>5, <2>6
<1> QED BY <1>3, <1>4, <1>5, <1>6, <1>7 DEF Right

\* A loose window may be raised.
LEMMA AfterRaise ==
  ASSUME NEW c, NEW s, NEW lo, NEW pub, Right(c, s, lo, pub), NEW x \in Windows, x \in lo
  PROVE  Right(c, raise_window(s, x), lo, pub)
<1> DEFINE t == raise_window(s, x)
<1>1. Stacked(t) /\ \A v, w \in Windows : v # x /\ w # x => (<<v, w>> \in t <=> <<v, w>> \in s)
  BY RaisedIs DEF Right
<1> HIDE DEF t
<1>2. \A v, w \in seen(c, lo) : <<v, w>> \in t <=> <<v, w>> \in s
  BY <1>1, SeenIs
<1>3. FullAbove(c, t, lo)
  BY <1>2 DEF FullAbove, Right
<1>4. KeysAgree(c, s, lo) => KeysAgree(c, t, lo)
  BY <1>2 DEF KeysAgree
<1>5. DialogsOver(c, s, lo) => DialogsOver(c, t, lo)
  BY <1>2 DEF DialogsOver
<1> QED BY <1>1, <1>3, <1>4, <1>5 DEF Right, t

\* Fewer windows are seen, and nothing is told of those that are but that their parent
\* is no longer managed.
Fewer(c, lo, d, lo2) ==
  /\ collect_clients(d) \subseteq collect_clients(c)
  /\ seen(d, lo2) \subseteq seen(c, lo)
  /\ \A w \in seen(d, lo2) :
       /\ d[w].state = c[w].state
       /\ parent_of(d, w) \in {NULL, parent_of(c, w)}
  /\ NothingLost => \A w \in seen(d, lo2) : stack_key(d, w) = stack_key(c, w)

LEMMA AfterFewer ==
  ASSUME NEW c, NEW s, NEW lo, NEW pub, Right(c, s, lo, pub),
         NEW d, Good(d), NEW lo2, lo2 \subseteq Windows, Fewer(c, lo, d, lo2)
  PROVE  Right(d, s, lo2, pub)
<1>1. Lists(d, pub)
  BY DEF Right, Fewer, Lists
<1>2. \A w \in seen(d, lo2) : w \in seen(c, lo) /\ (FullScreen(d, w) <=> FullScreen(c, w))
  BY DEF Fewer, FullScreen
<1>3. FullAbove(d, s, lo2)
  BY <1>2 DEF FullAbove, Right
<1>4. ASSUME Flat PROVE DialogsOver(d, s, lo2)
  <2> SUFFICES ASSUME NEW w \in seen(d, lo2), parent_of(d, w) \in seen(d, lo2),
                      ~FullScreen(d, parent_of(d, w))
               PROVE  <<parent_of(d, w), w>> \in s
    BY DEF DialogsOver
  <2>1. parent_of(d, w) # NULL
    BY SeenIs, Apart
  <2>2. parent_of(d, w) = parent_of(c, w)
    BY <2>1 DEF Fewer
  <2> QED BY <1>2, <1>4, <2>2 DEF Right, DialogsOver
<1>5. ASSUME NothingLost PROVE KeysAgree(d, s, lo2)
  <2>1. \A v, w \in seen(d, lo2) : below(d, v, w) <=> below(c, v, w)
    BY <1>5 DEF Fewer, below
  <2> QED BY <1>2, <1>5, <2>1 DEF Right, KeysAgree
<1> QED BY <1>1, <1>3, <1>4, <1>5 DEF Right


-----------------------------------------------------------------------------
(* The inductive invariant.                                                *)

\* Without the keys that change a window's state only dialogs float.
Floats(c) ==
  "change_state" \notin Keys =>
    \A w \in managed(c) : c[w].state = "FLOATING" => w \in Dialogs

Typed ==
  /\ conf \in Configurations
  /\ layout \in [DesktopIds -> Layouts]
  /\ curr \in DesktopIds
  /\ focused_win \in Windows \cup {NULL}
  /\ mru_counter \in Nat
  /\ mapped \subseteq managed(client)
  /\ net_wm_state \in [Windows -> SUBSET Atoms]

IInv == Typed /\ Floats(client) /\ Right(client, stacking, loose, published)

\* What the rest of a handler may leave behind once it has restacked.
LEMMA Restacking ==
  ASSUME IInv, NEW c, Good(c), client' = c, restack(c)
  PROVE  Right(client, stacking, loose, published)'
<1>1. Stacked(stacking)
  BY DEF IInv, Right
<1>2. Right(c, restacked(c, sorted(c), stacking), {}, sorted(c))
  BY <1>1, AfterRestack
<1> QED BY <1>2 DEF restack

LEMMA ClientsAre == ASSUME IInv PROVE Good(client)
BY DEF IInv, Right

\* The windows on a desktop are managed, and so are those that are rendered.
LEMMA OnIs ==
  ASSUME NEW c, NEW d
  PROVE  on(c, d) \subseteq managed(c) /\ rendered(c, d) \subseteq managed(c)
         /\ tiled_on(c, d) \subseteq managed(c) /\ managed(c) \subseteq Windows
BY DEF on, rendered, tiled_on, managed

\* Handlers that change what a client is, but none that floats.
LEMMA StillFloats ==
  ASSUME NEW c, NEW d, Floats(c), managed(d) \subseteq managed(c),
         \A w \in managed(d) : d[w].state = "FLOATING" => c[w].state = "FLOATING"
  PROVE  Floats(d)
BY DEF Floats

-----------------------------------------------------------------------------
(* The handlers.                                                           *)

\* The window that makes room is dropped out of fullscreen.
LEMMA Unfullscreened ==
  ASSUME IInv, NEW n \in managed(client) \cup {NULL}
  PROVE  /\ Good(unfullscreened(client, n)) /\ Floats(unfullscreened(client, n))
         /\ managed(unfullscreened(client, n)) = managed(client)
         /\ room_atoms(n) \in [Windows -> SUBSET Atoms]
<1>1. CASE n # NULL /\ client[n].state = "FULLSCREEN"
  <2> DEFINE d == set_fullscreen(client, n, FALSE)
  <2>1. Good(client) /\ n \in managed(client) /\ n \in Windows
    BY <1>1, ClientsAre, OnIs
  <2>2. /\ Good(d) /\ managed(d) = managed(client)
        /\ \A v \in Windows : v # n => d[v] = client[v]
        /\ d[n].state # "FLOATING"
    BY <2>1, FullscreenIs
  <2>3. unfullscreened(client, n) = d
    BY <1>1 DEF unfullscreened
  <2> HIDE DEF d
  <2>4. Floats(d)
    BY <2>2, OnIs, StillFloats DEF IInv
  <2>5. room_atoms(n) \in [Windows -> SUBSET Atoms]
    BY <1>1, <2>1 DEF room_atoms, IInv, Typed
  <2> QED BY <2>2, <2>3, <2>4, <2>5
<1>2. CASE ~(n # NULL /\ client[n].state = "FULLSCREEN")
  BY <1>2, ClientsAre DEF unfullscreened, room_atoms, IInv, Typed
<1> QED BY <1>1, <1>2

\* A client is added, and floats only if it is a dialog.
LEMMA Added ==
  ASSUME NEW c, Good(c), Floats(c), NEW w \in Windows, NEW r \in Clients,
         r.transient_for \in {NULL, TransientFor[w]},
         r.state = "FLOATING" => w \in Dialogs
  PROVE  /\ Good([c EXCEPT ![w] = r]) /\ Floats([c EXCEPT ![w] = r])
         /\ managed([c EXCEPT ![w] = r]) = managed(c) \cup {w}
<1> DEFINE d == [c EXCEPT ![w] = r]
<1>0. c \in [Windows -> Clients \cup {NULL}]
  BY DEF Good
<1>1. /\ Good(d) /\ managed(d) = managed(c) \cup {w}
      /\ d[w] = r /\ \A v \in Windows : v # w => d[v] = c[v]
  BY <1>0, OneChanged
<1> HIDE DEF d
<1>2. Floats(d)
  BY <1>1, OnIs DEF Floats
<1> QED BY <1>1, <1>2 DEF d

LEMMA NewClient ==
  ASSUME IInv, NEW w \in Windows, NEW st \in WinStates
  PROVE  /\ new_client(w, st) \in Clients /\ new_client(w, st).transient_for = TransientFor[w]
         /\ new_client(w, st).state = st
<1>1. /\ TransientFor[w] \in Windows \cup {NULL} /\ net_wm_state[w] \in SUBSET Atoms
      /\ curr \in DesktopIds /\ mru_counter + 1 \in Nat
  BY StackingAssumption DEF IInv, Typed
<1> QED BY <1>1 DEF new_client, Clients

LEMMA MapOut ==
  ASSUME IInv, NEW w \in Windows, NEW c, Good(c), Floats(c),
         managed(c) = managed(client) \cup {w},
         map_out(w, c), net_wm_state' \in [Windows -> SUBSET Atoms],
         UNCHANGED <<conf, layout, curr>>
  PROVE  IInv'
<1> DEFINE spawn == conf.focus_follow_spawn /\ layout[curr] # "STACK"
           s == restacked(c, sorted(c), stacking)
<1>1. /\ client' = c /\ mru_counter' = mru_counter + 1
      /\ mapped' = mapped \cup rendered(c, curr) /\ published' = sorted(c)
      /\ stacking' = IF spawn THEN raise_window(s, w) ELSE s
      /\ loose' = IF spawn THEN {w} ELSE {}
      /\ focused_win' = IF spawn THEN w ELSE focused_win
  BY DEF map_out
<1> HIDE DEF spawn, s
<1>2. Typed'
  BY <1>1, OnIs DEF IInv, Typed
<1>3. \A lo : lo \subseteq Windows => Right(c, s, lo, sorted(c))
  BY AfterRestack DEF IInv, Right, s
<1>4. Right(c, s, {w}, sorted(c)) /\ Right(c, s, {}, sorted(c))
  BY <1>3
<1>5. Right(c, raise_window(s, w), {w}, sorted(c))
  BY <1>4, AfterRaise
<1>6. Right(client, stacking, loose, published)'
  BY <1>1, <1>4, <1>5
<1> QED BY <1>1, <1>2, <1>6 DEF IInv

LEMMA MapRequest ==
  ASSUME IInv, NEW w \in Windows, handle_map_request(w)
  PROVE  IInv'
<1>0. UNCHANGED <<conf, layout, curr>> /\ client[w] = NULL
  BY DEF handle_map_request
<1>1. CASE handle_tiled_window_request(w)
  <2>1. PICK n \in managed(client) \cup {NULL} :
          /\ map_out(w, [unfullscreened(client, n) EXCEPT ![w] = new_client(w, "TILED")])
          /\ net_wm_state' = room_atoms(n)
    BY <1>1, OnIs, Zenon DEF handle_tiled_window_request
  <2>2. PICK u : /\ u = unfullscreened(client, n) /\ u \in [Windows -> Clients \cup {NULL}]
                 /\ Good(u) /\ Floats(u) /\ managed(u) = managed(client)
                 /\ room_atoms(n) \in [Windows -> SUBSET Atoms]
    BY Unfullscreened DEF Good
  <2>3. PICK r \in Clients : r = new_client(w, "TILED") /\ r.transient_for = TransientFor[w] /\ r.state = "TILED"
    BY NewClient DEF WinStates
  <2>6. Good(u) /\ Floats(u) /\ r \in Clients /\ r.transient_for \in {NULL, TransientFor[w]}
        /\ (r.state = "FLOATING" => w \in Dialogs)
    BY <2>2, <2>3
  <2>7. Good([u EXCEPT ![w] = r]) /\ Floats([u EXCEPT ![w] = r])
        /\ managed([u EXCEPT ![w] = r]) = managed(u) \cup {w}
    BY <2>6, Added, Zenon
  <2>4. Good([u EXCEPT ![w] = r]) /\ Floats([u EXCEPT ![w] = r])
        /\ managed([u EXCEPT ![w] = r]) = managed(client) \cup {w}
    BY <2>2, <2>7
  <2>5. map_out(w, [u EXCEPT ![w] = r])
    BY <2>1, <2>2, <2>3
  <2> QED BY <1>0, <2>1, <2>2, <2>4, <2>5, MapOut
<1>2. CASE w \in Dialogs /\ handle_floating_window_request(w)
  <2> DEFINE c == [client EXCEPT ![w] = new_client(w, "FLOATING")]
  <2>1. map_out(w, c) /\ net_wm_state' = net_wm_state
    BY <1>2 DEF handle_floating_window_request
  <2>2. Good(client) /\ Floats(client)
    BY ClientsAre DEF IInv
  <2>3. PICK r \in Clients : r = new_client(w, "FLOATING") /\ r.transient_for = TransientFor[w]
    BY NewClient DEF WinStates
  <2>4. Good([client EXCEPT ![w] = r]) /\ Floats([client EXCEPT ![w] = r])
        /\ managed([client EXCEPT ![w] = r]) = managed(client) \cup {w}
    BY <1>2, <2>2, <2>3, Added
  <2>5. c = [client EXCEPT ![w] = r]
    BY <2>3
  <2>6. net_wm_state' \in [Windows -> SUBSET Atoms]
    BY <2>1 DEF IInv, Typed
  <2> HIDE DEF c
  <2> QED BY <1>0, <2>1, <2>4, <2>5, <2>6, MapOut
<1>3. CASE RuleDesktop[w] \in DesktopIds /\ insert_into_desktop(w, RuleDesktop[w])
  <2> DEFINE D == RuleDesktop[w]
             st == IF w \in Dialogs THEN "FLOATING" ELSE "TILED"
  <2>1. PICK n \in managed(client) \cup {NULL}, garbage \in SUBSET StateAtoms, override \in BOOLEAN :
          LET t  == IF w \in Dialogs THEN NULL ELSE n
              c  == [unfullscreened(client, t) EXCEPT ![w] =
                       [desk |-> D, state |-> st, transient_for |-> NULL,
                        ewmh_state |-> garbage \cup {"HIDDEN"}, mru_seq |-> 0,
                        override_redirect |-> override]]
          IN  /\ client' = c
              /\ net_wm_state' = [room_atoms(t) EXCEPT ![w] = @ \cup {"HIDDEN"}]
              /\ restack(c)
              /\ UNCHANGED <<focused_win, mru_counter, mapped>>
    BY <1>3, OnIs, Zenon DEF insert_into_desktop
  <2> DEFINE t == IF w \in Dialogs THEN NULL ELSE n
             u == unfullscreened(client, t)
             q == [desk |-> D, state |-> st, transient_for |-> NULL,
                   ewmh_state |-> garbage \cup {"HIDDEN"}, mru_seq |-> 0,
                   override_redirect |-> override]
             c == [u EXCEPT ![w] = q]
  <2>2. /\ client' = c /\ restack(c)
        /\ net_wm_state' = [room_atoms(t) EXCEPT ![w] = room_atoms(t)[w] \cup {"HIDDEN"}]
        /\ UNCHANGED <<focused_win, mru_counter, mapped>>
    BY <2>1
  <2>3. t \in managed(client) \cup {NULL}
    OBVIOUS
  <2>4. garbage \cup {"HIDDEN"} \in SUBSET Atoms
    BY StackingAssumption DEF Atoms
  <2>5. q \in Clients /\ q.transient_for = NULL /\ q.state = st
    BY <1>3, <2>4 DEF Clients, WinStates
  <2> HIDE DEF t
  <2>6. /\ Good(u) /\ Floats(u) /\ managed(u) = managed(client)
        /\ room_atoms(t) \in [Windows -> SUBSET Atoms]
    BY <2>3, Unfullscreened
  <2> HIDE DEF u, q
  <2>7. Good(c) /\ Floats(c) /\ managed(c) = managed(client) \cup {w}
    BY <2>5, <2>6, Added
  <2> HIDE DEF c
  <2>8. Right(client, stacking, loose, published)'
    BY <2>2, <2>7, Restacking
  <2>9. net_wm_state' \in [Windows -> SUBSET Atoms]
    BY <2>2, <2>6 DEF Atoms
  <2>10. Typed'
    BY <1>0, <2>2, <2>7, <2>9 DEF Typed, IInv
  <2> QED BY <2>2, <2>7, <2>8, <2>10 DEF IInv
<1>4. RuleDesktop[w] \in DesktopIds \cup {NULL}
  BY StackingAssumption
<1> QED BY <1>1, <1>2, <1>3, <1>4 DEF handle_map_request


LEMMA UnmapNotify ==
  ASSUME IInv, NEW w \in Windows, handle_unmap_notify(w)
  PROVE  IInv'
<1> DEFINE c == [client EXCEPT ![w] = NULL]
           d == client[w].desk
<1>1. /\ client' = c /\ restack(c)
      /\ mapped' = (mapped \ {w}) \cup (IF d = curr THEN rendered(c, d) ELSE {})
      /\ focused_win' = IF on(c, d) = {} THEN NULL ELSE focused_win
      /\ UNCHANGED <<conf, layout, curr, mru_counter, net_wm_state>>
  BY DEF handle_unmap_notify
<1>2. Good(client)
  BY ClientsAre
<1>3. /\ Good(c) /\ managed(c) = managed(client) \ {w}
      /\ \A v \in Windows : v # w => c[v] = client[v]
  BY <1>2, OneGone
<1> HIDE DEF c, d
<1>4. Floats(c)
  BY <1>3, OnIs, StillFloats DEF IInv
<1>5. Right(client, stacking, loose, published)'
  BY <1>1, <1>3, Restacking
<1>6. Typed'
  BY <1>1, <1>3, OnIs DEF IInv, Typed
<1> QED BY <1>1, <1>4, <1>5, <1>6 DEF IInv

\* A window becomes the one used last.
LEMMA Used ==
  ASSUME IInv, NEW w \in managed(client)
  PROVE  /\ Good(used(client, w)) /\ Floats(used(client, w)) /\ Alike(client, used(client, w))
         /\ managed(used(client, w)) = managed(client)
         /\ \A v \in Windows : v # w => used(client, w)[v] = client[v]
<1>1. Good(client) /\ mru_counter \in Nat
  BY ClientsAre DEF IInv, Typed
<1>2. /\ Good(used(client, w)) /\ Alike(client, used(client, w))
      /\ managed(used(client, w)) = managed(client)
      /\ \A v \in Windows : v # w => used(client, w)[v] = client[v]
  BY <1>1, UsedIs
<1>3. \A v \in managed(client) : used(client, w)[v].state = client[v].state
  BY <1>2 DEF Alike
<1>4. Floats(used(client, w))
  BY <1>2, <1>3, StillFloats DEF IInv
<1> QED BY <1>2, <1>4

LEMMA EnterNotify ==
  ASSUME IInv, NEW w \in Windows, handle_enter_notify(w)
  PROVE  IInv'
<1> DEFINE dlg == has_floating_window(client, curr)
           s   == IF dlg THEN restacked(client, sorted(client), stacking) ELSE stacking
           fs  == client[w].state = "FULLSCREEN"
           lo  == (IF dlg THEN {} ELSE loose) \cup (IF fs THEN {w} ELSE {})
           pub == IF dlg THEN sorted(client) ELSE published
<1>1. w \in managed(client) /\ UNCHANGED <<conf, layout, curr, mapped, net_wm_state>>
  BY OnIs DEF handle_enter_notify, IInv, Typed
<1>2. CASE /\ client' = used(client, w) /\ mru_counter' = mru_counter + 1
           /\ focused_win' = w /\ restack(used(client, w))
  <2>1. Good(used(client, w)) /\ Floats(used(client, w)) /\ managed(used(client, w)) = managed(client)
    BY <1>1, Used
  <2>2. Right(client, stacking, loose, published)'
    BY <1>2, <2>1, Restacking
  <2>3. Typed'
    BY <1>1, <1>2, <2>1 DEF IInv, Typed
  <2> QED BY <1>2, <2>1, <2>2, <2>3 DEF IInv
<1>3. CASE /\ stacking' = IF fs THEN raise_window(s, w) ELSE s
           /\ published' = pub /\ loose' = lo
           /\ UNCHANGED <<client, mru_counter, focused_win>>
  <2>1. Right(client, stacking, loose, published)
    BY DEF IInv
  <2>2. lo \subseteq Windows
    BY <2>1 DEF Right
  <2>3. Right(client, s, lo, pub)
    <3>1. CASE dlg
      <4>1. Right(client, restacked(client, sorted(client), stacking), lo, sorted(client))
        BY <2>1, <2>2, AfterRestack DEF Right
      <4> QED BY <3>1, <4>1
    <3>2. CASE ~dlg
      <4>1. loose \subseteq lo
        BY <3>2
      <4> HIDE DEF lo
      <4>2. seen(client, lo) \subseteq seen(client, loose)
        BY <4>1 DEF seen
      <4>3. Fewer(client, loose, client, lo)
        BY <4>2 DEF Fewer
      <4>4. Right(client, stacking, lo, published)
        BY <2>1, <2>2, <4>3, AfterFewer, ClientsAre
      <4> QED BY <3>2, <4>4
    <3> QED BY <3>1, <3>2
  <2>4. fs => w \in lo
    OBVIOUS
  <2> HIDE DEF s, lo, pub
  <2>5. fs => Right(client, raise_window(s, w), lo, pub)
    BY <2>3, <2>4, AfterRaise
  <2>6. Right(client, stacking, loose, published)'
    BY <1>3, <2>3, <2>5
  <2>7. Typed'
    BY <1>1, <1>3 DEF IInv, Typed
  <2> QED BY <1>3, <2>6, <2>7 DEF IInv
<1> QED BY <1>2, <1>3 DEF handle_enter_notify

LEMMA ButtonPress ==
  ASSUME IInv, NEW w \in Windows, handle_button_press(w)
  PROVE  IInv'
<1> DEFINE still == client[w].state = "FLOATING"
                      \/ (client[w].state = "TILED" /\ layout[curr] = "STACK")
           s     == IF still THEN stacking ELSE raise_window(stacking, w)
           dlg   == has_floating_window(client, curr)
<1>1. /\ focused_win' = w
      /\ stacking' = IF dlg THEN restacked(client, sorted(client), s) ELSE s
      /\ published' = IF dlg THEN sorted(client) ELSE published
      /\ loose' = IF dlg THEN {} ELSE IF still THEN loose ELSE loose \cup {w}
      /\ UNCHANGED <<conf, client, layout, curr, mru_counter, mapped, net_wm_state>>
  BY DEF handle_button_press
<1> HIDE DEF still, dlg
<1>2. Right(client, stacking, loose, published) /\ Good(client) /\ Stacked(stacking) /\ loose \subseteq Windows
  BY DEF IInv, Right
<1>3. Stacked(s)
  BY <1>2, RaisedIs
<1>4. Right(client, restacked(client, sorted(client), s), {}, sorted(client))
  BY <1>2, <1>3, AfterRestack
<1>5. Right(client, raise_window(stacking, w), loose \cup {w}, published)
  <2>1. seen(client, loose \cup {w}) \subseteq seen(client, loose)
    BY DEF seen
  <2>2. Fewer(client, loose, client, loose \cup {w})
    BY <2>1 DEF Fewer
  <2>3. Right(client, stacking, loose \cup {w}, published)
    BY <1>2, <2>2, AfterFewer
  <2> QED BY <2>3, AfterRaise
<1>6. Right(client, stacking, loose, published)'
  BY <1>1, <1>2, <1>4, <1>5
<1>7. Typed'
  BY <1>1 DEF IInv, Typed
<1> QED BY <1>1, <1>6, <1>7 DEF IInv


LEMMA CycleWin ==
  ASSUME IInv, NEW w \in Windows, cycle_win_wrapper(w)
  PROVE  IInv'
<1> DEFINE c  == used(client, w)
           lo == loose \cup {w}
<1>1. /\ w \in on(client, curr) /\ client' = c /\ mru_counter' = mru_counter + 1
      /\ stacking' = IF w \in mapped THEN raise_window(stacking, w) ELSE stacking
      /\ loose' = lo
      /\ UNCHANGED <<conf, layout, curr, focused_win, mapped, net_wm_state, published>>
  BY DEF cycle_win_wrapper
<1>2. w \in managed(client)
  BY <1>1, OnIs
<1>3. /\ Good(c) /\ Floats(c) /\ Alike(client, c) /\ managed(c) = managed(client)
      /\ \A v \in Windows : v # w => c[v] = client[v]
  BY <1>2, Used
<1>4. Right(client, stacking, loose, published) /\ Good(client) /\ lo \subseteq Windows
  BY DEF IInv, Right
<1> HIDE DEF c
<1>5. collect_clients(c) \subseteq collect_clients(client)
  BY <1>3 DEF collect_clients, managed, Alike
<1>6. \A v \in seen(c, lo) : v # w /\ c[v] = client[v] /\ v \in managed(client)
  BY <1>3, SeenIs
<1>7. seen(c, lo) \subseteq seen(client, loose)
  BY <1>5, <1>6 DEF seen
<1>8. \A v \in seen(c, lo) : stack_key(c, v) = stack_key(client, v) /\ parent_of(c, v) = parent_of(client, v)
  BY <1>3, <1>4, <1>6, SameKey, SameDepth
<1>9. Fewer(client, loose, c, lo)
  BY <1>5, <1>6, <1>7, <1>8 DEF Fewer
<1>10. Right(c, stacking, lo, published)
  BY <1>3, <1>4, <1>9, AfterFewer
<1>11. Right(c, raise_window(stacking, w), lo, published)
  BY <1>10, AfterRaise
<1>12. Right(client, stacking, loose, published)'
  BY <1>1, <1>10, <1>11
<1>13. Typed'
  BY <1>1, <1>3 DEF IInv, Typed
<1> QED BY <1>1, <1>3, <1>12, <1>13 DEF IInv

LEMMA TraverseStack ==
  ASSUME IInv, NEW w \in Windows, traverse_stack_wrapper(w)
  PROVE  IInv'
<1>1. /\ w \in on(client, curr) /\ client' = used(client, w) /\ mru_counter' = mru_counter + 1
      /\ restack(used(client, w))
      /\ UNCHANGED <<conf, layout, curr, focused_win, mapped, net_wm_state>>
  BY DEF traverse_stack_wrapper
<1>2. w \in managed(client)
  BY <1>1, OnIs
<1>3. Good(used(client, w)) /\ Floats(used(client, w)) /\ managed(used(client, w)) = managed(client)
  BY <1>2, Used
<1>4. Right(client, stacking, loose, published)'
  BY <1>1, <1>3, Restacking
<1>5. Typed'
  BY <1>1, <1>3 DEF IInv, Typed
<1> QED BY <1>1, <1>3, <1>4, <1>5 DEF IInv

LEMMA LayoutHandler ==
  ASSUME IInv, NEW t \in Layouts, layout_handler(t)
  PROVE  IInv'
<1>1. /\ layout' = [layout EXCEPT ![curr] = t]
      /\ mapped' = mapped \cup rendered(client, curr)
      /\ restack(client)
      /\ UNCHANGED <<conf, client, curr, focused_win, mru_counter, net_wm_state>>
  BY DEF layout_handler
<1>2. Right(client, stacking, loose, published)'
  BY <1>1, ClientsAre, Restacking
<1>3. Typed'
  BY <1>1, OnIs DEF IInv, Typed
<1> QED BY <1>1, <1>2, <1>3 DEF IInv

LEMMA ChangeState ==
  ASSUME IInv, NEW w \in Windows, NEW s \in {"TILED", "FLOATING"}, change_state(s, w)
  PROVE  IInv'
<1> DEFINE c == [client EXCEPT ![w].state = s]
<1>1. /\ "change_state" \in Keys /\ w \in mapped
      /\ client' = c /\ mapped' = mapped \cup rendered(c, curr) /\ restack(c)
      /\ UNCHANGED <<conf, layout, curr, focused_win, mru_counter, net_wm_state>>
  BY DEF change_state
<1>2. Good(client) /\ w \in managed(client) /\ client \in [Windows -> Clients \cup {NULL}]
  BY <1>1, ClientsAre DEF IInv, Typed, Good
<1>3. client[w] \in Clients /\ client[w].transient_for \in {NULL, TransientFor[w]}
  BY <1>2, ClientFields DEF Good, managed
<1>4. [client[w] EXCEPT !.state = s] \in Clients
  BY <1>3 DEF Clients, WinStates
<1>5. PICK r \in Clients : r = [client[w] EXCEPT !.state = s] /\ r.transient_for \in {NULL, TransientFor[w]}
  BY <1>3, <1>4 DEF Clients
<1>6. c = [client EXCEPT ![w] = r]
  BY <1>5
<1> HIDE DEF c
<1>7. Good(c) /\ managed(c) = managed(client)
  <2>1. Good([client EXCEPT ![w] = r]) /\ managed([client EXCEPT ![w] = r]) = managed(client) \cup {w}
    BY <1>2, <1>5, OneChanged, Zenon
  <2> QED BY <1>2, <1>6, <2>1
<1>8. Floats(c)
  BY <1>1 DEF Floats
<1>9. Right(client, stacking, loose, published)'
  BY <1>1, <1>7, Restacking
<1>10. Typed'
  BY <1>1, <1>7, OnIs DEF IInv, Typed
<1> QED BY <1>1, <1>8, <1>9, <1>10 DEF IInv

\* set_fullscreen makes no window float.
LEMMA FullscreenFloats ==
  ASSUME NEW c, Good(c), Floats(c), NEW w \in managed(c), NEW flag \in BOOLEAN
  PROVE  /\ Good(set_fullscreen(c, w, flag)) /\ Floats(set_fullscreen(c, w, flag))
         /\ managed(set_fullscreen(c, w, flag)) = managed(c)
<1> DEFINE d == set_fullscreen(c, w, flag)
<1>1. /\ Good(d) /\ managed(d) = managed(c)
      /\ \A v \in Windows : v # w => d[v] = c[v]
      /\ d[w].state # "FLOATING"
  BY FullscreenIs
<1> HIDE DEF d
<1>2. Floats(d)
  BY <1>1, OnIs, StillFloats
<1> QED BY <1>1, <1>2 DEF d

LEMMA SetFullscreen ==
  ASSUME IInv, NEW w \in Windows, set_fullscreen_wrapper(w)
  PROVE  IInv'
<1> DEFINE flag == client[w].state # "FULLSCREEN"
           c    == set_fullscreen(client, w, flag)
<1>1. /\ w \in mapped /\ client' = c /\ restack(c)
      /\ net_wm_state' = [net_wm_state EXCEPT ![w] = fullscreen_atoms(net_wm_state[w], flag)]
      /\ UNCHANGED <<conf, layout, curr, focused_win, mru_counter, mapped>>
  BY DEF set_fullscreen_wrapper
<1>2. Good(client) /\ Floats(client) /\ w \in managed(client) /\ flag \in BOOLEAN
  BY <1>1, ClientsAre DEF IInv, Typed
<1> HIDE DEF flag
<1>3. Good(c) /\ Floats(c) /\ managed(c) = managed(client)
  BY <1>2, FullscreenFloats
<1> HIDE DEF c
<1>4. Right(client, stacking, loose, published)'
  BY <1>1, <1>3, Restacking
<1>5. net_wm_state' \in [Windows -> SUBSET Atoms]
  BY <1>1 DEF IInv, Typed, fullscreen_atoms, Atoms
<1>6. Typed'
  BY <1>1, <1>3, <1>5 DEF IInv, Typed
<1> QED BY <1>1, <1>3, <1>4, <1>6 DEF IInv

LEMMA AtomSet ==
  ASSUME IInv, NEW S, NEW atom \in Atoms, NEW set
  PROVE  atom_set(S, atom, set) \in [Windows -> SUBSET Atoms]
BY DEF atom_set, IInv, Typed

\* A flag of one window.
LEMMA OneFlagged ==
  ASSUME NEW c, Good(c), NEW w \in managed(c), NEW atom \in Atoms
  PROVE  /\ Good(flagged(c, {w}, atom)) /\ managed(flagged(c, {w}, atom)) = managed(c)
         /\ \A v \in Windows : v # w => flagged(c, {w}, atom)[v] = c[v]
         /\ flagged(c, {w}, atom)[w] = WithAtom(c[w], atom)
         /\ Good(unflagged(c, {w}, atom)) /\ managed(unflagged(c, {w}, atom)) = managed(c)
         /\ \A v \in Windows : v # w => unflagged(c, {w}, atom)[v] = c[v]
         /\ unflagged(c, {w}, atom)[w] = WithoutAtom(c[w], atom)
<1>1. PICK S : S = {w} /\ S \subseteq managed(c)
  OBVIOUS
<1>2. c[w] \in Clients /\ w \in S /\ \A v : v # w => v \notin S
  BY <1>1, ClientFields
<1>3. /\ Good(flagged(c, S, atom)) /\ managed(flagged(c, S, atom)) = managed(c)
      /\ \A v \in Windows : v \notin S => flagged(c, S, atom)[v] = c[v]
      /\ \A v \in S : flagged(c, S, atom)[v] = WithAtom(c[v], atom)
  BY <1>1, FlaggedIs
<1>4. /\ Good(unflagged(c, S, atom)) /\ managed(unflagged(c, S, atom)) = managed(c)
      /\ \A v \in Windows : v \notin S => unflagged(c, S, atom)[v] = c[v]
      /\ \A v \in S : unflagged(c, S, atom)[v] = WithoutAtom(c[v], atom)
  BY <1>1, UnflaggedIs
<1> QED BY <1>1, <1>2, <1>3, <1>4

LEMMA NetWmState ==
  ASSUME IInv, NEW w \in Windows, NEW action, NEW atom \in StateAtoms,
         handle_net_wm_state(w, action, atom)
  PROVE  IInv'
<1> DEFINE set   == action = "ADD" \/ (action = "TOGGLE" /\ atom \notin client[w].ewmh_state)
           full  == action = "ADD" \/ (action = "TOGGLE" /\ client[w].state # "FULLSCREEN")
           c     == IF set THEN flagged(client, {w}, atom) ELSE unflagged(client, {w}, atom)
           fs    == atom = "FULLSCREEN"
           after == IF fs THEN set_fullscreen(c, w, full) ELSE c
           atoms == atom_set({w}, atom, set)
<1>1. /\ client[w] # NULL
      /\ client' = after
      /\ net_wm_state' = IF fs THEN [atoms EXCEPT ![w] = fullscreen_atoms(atoms[w], full)] ELSE atoms
      /\ restack(after)
      /\ UNCHANGED <<conf, layout, curr, focused_win, mru_counter, mapped>>
  BY DEF handle_net_wm_state
<1>2. Good(client) /\ Floats(client) /\ w \in managed(client) /\ atom \in Atoms /\ full \in BOOLEAN
  BY <1>1, ClientsAre, StackingAssumption DEF IInv, managed
<1>3. atoms \in [Windows -> SUBSET Atoms]
  BY <1>2, AtomSet
<1>4. /\ Good(c) /\ managed(c) = managed(client)
      /\ \A v \in Windows : v # w => c[v] = client[v]
      /\ c[w].state = client[w].state
  <2>1. WithAtom(client[w], atom).state = client[w].state
        /\ WithoutAtom(client[w], atom).state = client[w].state
    BY <1>2, ClientFields, AtomAdded, AtomTaken
  <2> HIDE DEF set
  <2> QED BY <1>2, <2>1, OneFlagged
<1> HIDE DEF set, full, c, atoms
<1>5. Floats(c)
  BY <1>2, <1>4, OnIs, StillFloats
<1>6. Good(after) /\ Floats(after) /\ managed(after) = managed(client)
  <2>1. /\ Good(set_fullscreen(c, w, full)) /\ Floats(set_fullscreen(c, w, full))
        /\ managed(set_fullscreen(c, w, full)) = managed(c)
    BY <1>2, <1>4, <1>5, FullscreenFloats
  <2> QED BY <1>4, <1>5, <2>1
<1> HIDE DEF after
<1>7. Right(client, stacking, loose, published)'
  BY <1>1, <1>6, Restacking
<1>8. net_wm_state' \in [Windows -> SUBSET Atoms]
  BY <1>1, <1>3 DEF fullscreen_atoms, Atoms
<1>9. Typed'
  BY <1>1, <1>6, <1>8 DEF IInv, Typed
<1> QED BY <1>1, <1>6, <1>7, <1>9 DEF IInv


-----------------------------------------------------------------------------
(* Between desktops.                                                       *)

LEMMA AlikeTrans ==
  ASSUME NEW c, NEW d, NEW e, Alike(c, d), Alike(d, e)
  PROVE  Alike(c, e)
BY DEF Alike

\* Flags alone make no difference to what else restack is told, if they hide.
LEMMA HiddenAlike ==
  ASSUME NEW c, Good(c), NEW S, S \subseteq managed(c)
  PROVE  Alike(c, flagged(c, S, "HIDDEN")) /\ Alike(c, unflagged(c, S, "HIDDEN"))
<1> DEFINE f == flagged(c, S, "HIDDEN")
           u == unflagged(c, S, "HIDDEN")
<1>0. "HIDDEN" \in Atoms
  BY DEF Atoms
<1>1. /\ managed(f) = managed(c)
      /\ \A w \in Windows : w \notin S => f[w] = c[w]
      /\ \A w \in S : f[w] = WithAtom(c[w], "HIDDEN")
  BY <1>0, FlaggedIs
<1>2. /\ managed(u) = managed(c)
      /\ \A w \in Windows : w \notin S => u[w] = c[w]
      /\ \A w \in S : u[w] = WithoutAtom(c[w], "HIDDEN")
  BY <1>0, UnflaggedIs
<1> HIDE DEF f, u
<1>3. \A w \in managed(c) :
        /\ f[w].state = c[w].state /\ f[w].transient_for = c[w].transient_for
        /\ f[w].override_redirect = c[w].override_redirect
        /\ f[w].ewmh_state \ {"HIDDEN"} = c[w].ewmh_state \ {"HIDDEN"}
  <2> TAKE w \in managed(c)
  <2>1. c[w] \in Clients /\ w \in Windows
    BY ClientFields
  <2>2. CASE w \in S
    BY <1>0, <1>1, <2>1, <2>2, AtomAdded
  <2>3. CASE w \notin S
    BY <1>1, <2>1, <2>3
  <2> QED BY <2>2, <2>3
<1>4. \A w \in managed(c) :
        /\ u[w].state = c[w].state /\ u[w].transient_for = c[w].transient_for
        /\ u[w].override_redirect = c[w].override_redirect
        /\ u[w].ewmh_state \ {"HIDDEN"} = c[w].ewmh_state \ {"HIDDEN"}
  <2> TAKE w \in managed(c)
  <2>1. c[w] \in Clients /\ w \in Windows
    BY ClientFields
  <2>2. CASE w \in S
    BY <1>0, <1>2, <2>1, <2>2, AtomTaken
  <2>3. CASE w \notin S
    BY <1>2, <2>1, <2>3
  <2> QED BY <2>2, <2>3
<1> QED BY <1>1, <1>2, <1>3, <1>4 DEF Alike, f, u

LEMMA Switched ==
  ASSUME IInv, NEW d \in DesktopIds, d # curr
  PROVE  /\ Good(switched(d)) /\ managed(switched(d)) = managed(client)
         /\ Alike(client, switched(d))
         /\ \A v \in Windows : v \notin on(client, curr) /\ v \notin on(client, d) =>
              switched(d)[v] = client[v]
         /\ \A v \in on(client, curr) : "HIDDEN" \in switched(d)[v].ewmh_state
<1>1. PICK f : f = flagged(client, on(client, curr), "HIDDEN")
  OBVIOUS
<1>2. PICK u : u = unflagged(f, on(client, d), "HIDDEN")
  OBVIOUS
<1>3. switched(d) = u
  BY <1>1, <1>2 DEF switched
<1>4. "HIDDEN" \in Atoms /\ Good(client)
      /\ on(client, curr) \subseteq managed(client) /\ on(client, d) \subseteq managed(client)
  BY ClientsAre, OnIs DEF Atoms
<1>5. /\ Good(f) /\ managed(f) = managed(client)
      /\ \A v \in Windows : v \notin on(client, curr) => f[v] = client[v]
      /\ \A v \in on(client, curr) : f[v] = WithAtom(client[v], "HIDDEN")
      /\ Alike(client, f)
  <2>1. PICK S : S = on(client, curr) /\ S \subseteq managed(client)
    BY <1>4
  <2>2. /\ Good(f) /\ managed(f) = managed(client)
        /\ \A v \in Windows : v \notin S => f[v] = client[v]
        /\ \A v \in S : f[v] = WithAtom(client[v], "HIDDEN")
    <3>1. f = flagged(client, S, "HIDDEN") /\ "HIDDEN" \in Atoms /\ Good(client)
      BY <1>1, <1>4, <2>1
    <3>2. Good(f) /\ managed(f) = managed(client)
      BY <2>1, <3>1, FlaggedIs
    <3>3. \A v \in Windows : v \notin S => f[v] = client[v]
      BY <2>1, <3>1, FlaggedIs
    <3>4. \A v \in S : f[v] = WithAtom(client[v], "HIDDEN")
      BY <2>1, <3>1, OnIs DEF flagged, WithAtom
    <3> QED BY <3>2, <3>3, <3>4
  <2>3. Alike(client, flagged(client, S, "HIDDEN"))
    BY <1>4, <2>1, HiddenAlike
  <2> QED BY <1>1, <2>1, <2>2, <2>3
<1>6. /\ Good(u) /\ managed(u) = managed(f)
      /\ \A v \in Windows : v \notin on(client, d) => u[v] = f[v]
      /\ Alike(f, u)
  BY <1>2, <1>4, <1>5, UnflaggedIs, HiddenAlike
<1>7. Alike(client, u)
  BY <1>5, <1>6, AlikeTrans
<1>8. ASSUME NEW v \in on(client, curr)
      PROVE  "HIDDEN" \in u[v].ewmh_state
  <2>1. v \in Windows /\ v \notin on(client, d) /\ client[v] \in Clients
    BY <1>4, ClientFields DEF on
  <2>2. u[v] = WithAtom(client[v], "HIDDEN")
    BY <1>5, <1>6, <2>1
  <2> QED BY <1>4, <2>1, <2>2, AtomAdded
<1> QED BY <1>3, <1>5, <1>6, <1>7, <1>8

LEMMA AfterSwitch ==
  ASSUME IInv, NEW d \in DesktopIds, d # curr, NEW w \in restorable(d)
  PROVE  /\ Good(after_switch(d, w)) /\ managed(after_switch(d, w)) = managed(client)
         /\ Alike(client, after_switch(d, w)) /\ Floats(after_switch(d, w))
         /\ \A v \in Windows : v \notin on(client, curr) /\ v \notin on(client, d) =>
              after_switch(d, w)[v] = client[v]
         /\ \A v \in on(client, curr) : "HIDDEN" \in after_switch(d, w)[v].ewmh_state
<1>1. PICK u : u = switched(d)
  OBVIOUS
<1>2. /\ Good(u) /\ managed(u) = managed(client)
      /\ Alike(client, u)
      /\ \A v \in Windows : v \notin on(client, curr) /\ v \notin on(client, d) => u[v] = client[v]
      /\ \A v \in on(client, curr) : "HIDDEN" \in u[v].ewmh_state
  BY <1>1, Switched
<1>3. PICK a : a = after_switch(d, w)
  OBVIOUS
<1>4. /\ Good(a) /\ managed(a) = managed(client) /\ Alike(client, a)
      /\ \A v \in Windows : v \notin on(client, d) => a[v] = u[v]
  <2>1. CASE w = NULL
    BY <1>1, <1>2, <1>3, <2>1 DEF after_switch
  <2>2. CASE w # NULL
    <3>1. w \in on(client, d) /\ w \in managed(u)
      BY <1>2, <2>2, OnIs DEF restorable
    <3>2. a = used(u, w)
      BY <1>1, <1>3, <2>2 DEF after_switch
    <3>3. /\ Good(a) /\ Alike(u, a) /\ managed(a) = managed(u)
          /\ \A v \in Windows : v # w => a[v] = u[v]
      BY <1>2, <3>1, <3>2, UsedIs DEF IInv, Typed
    <3> QED BY <1>2, <3>1, <3>3, AlikeTrans
  <2> QED BY <2>1, <2>2
<1>5. \A v \in on(client, curr) : v \in Windows /\ v \notin on(client, d)
  BY DEF on
<1>6. Floats(a)
  BY <1>4, StillFloats DEF IInv, Alike
<1> QED BY <1>2, <1>3, <1>4, <1>5, <1>6

LEMMA SwitchTyped ==
  ASSUME IInv, NEW d \in DesktopIds, NEW w, switch_desktop(d, w)
  PROVE  Typed' /\ client' = after_switch(d, w) /\ d # curr /\ w \in restorable(d)
<1>1. /\ d # curr /\ w \in restorable(d) /\ curr' = d
      /\ client' = after_switch(d, w) /\ net_wm_state' = switched_atoms(d)
      /\ mapped' = (mapped \ on(client, curr)) \cup on(client, d)
      /\ mru_counter' = IF w = NULL THEN mru_counter ELSE mru_counter + 1
      /\ focused_win' = w
      /\ UNCHANGED <<conf, layout>>
  BY DEF switch_desktop
<1>2. managed(client') = managed(client)
  BY <1>1, AfterSwitch
<1>3. mapped' \subseteq managed(client')
  BY <1>1, <1>2, OnIs DEF IInv, Typed
<1>4. w \in Windows \cup {NULL}
  BY <1>1, OnIs DEF restorable
<1>5. switched_atoms(d) \in [Windows -> SUBSET Atoms]
  <2>1. \A v \in Windows : net_wm_state[v] \in SUBSET Atoms
    BY DEF IInv, Typed
  <2>2. atom_set(on(client, curr), "HIDDEN", TRUE) \in [Windows -> SUBSET Atoms]
    BY AtomSet DEF Atoms
  <2> QED BY <2>1, <2>2 DEF switched_atoms
<1>6. mru_counter' \in Nat
  BY <1>1 DEF IInv, Typed
<1>7. conf' \in Configurations /\ layout' \in [DesktopIds -> Layouts] /\ curr' \in DesktopIds
  BY <1>1 DEF IInv, Typed
<1>8. focused_win' \in Windows \cup {NULL} /\ net_wm_state' \in [Windows -> SUBSET Atoms]
  BY <1>1, <1>4, <1>5
<1> QED BY <1>1, <1>3, <1>6, <1>7, <1>8 DEF Typed

LEMMA SwitchDesktop ==
  ASSUME IInv, NEW d \in DesktopIds, NEW w, switch_desktop_wrapper(d, w)
  PROVE  IInv'
<1>1. switch_desktop(d, w) /\ restack(after_switch(d, w))
  BY DEF switch_desktop_wrapper
<1>2. Typed' /\ client' = after_switch(d, w) /\ d # curr /\ w \in restorable(d)
  BY <1>1, SwitchTyped
<1>3. Good(after_switch(d, w)) /\ Floats(after_switch(d, w))
  BY <1>2, AfterSwitch
<1>4. Right(client, stacking, loose, published)'
  BY <1>1, <1>2, <1>3, Restacking
<1> QED BY <1>2, <1>3, <1>4 DEF IInv

LEMMA DesktopChange ==
  ASSUME IInv, NEW d \in DesktopIds, NEW w, handle_net_desktop_change(d, w)
  PROVE  IInv'
<1>1. /\ switch_desktop(d, w)
      /\ stacking' = IF w = NULL THEN stacking ELSE raise_window(stacking, w)
      /\ loose' = loose \cup on(client, d) /\ published' = published
  BY DEF handle_net_desktop_change
<1>2. Typed' /\ client' = after_switch(d, w) /\ d # curr /\ w \in restorable(d)
  BY <1>1, SwitchTyped
<1>3. PICK a : a = after_switch(d, w)
  OBVIOUS
<1>4. /\ Good(a) /\ managed(a) = managed(client)
      /\ Alike(client, a) /\ Floats(a)
      /\ \A v \in Windows : v \notin on(client, curr) /\ v \notin on(client, d) => a[v] = client[v]
      /\ \A v \in on(client, curr) : "HIDDEN" \in a[v].ewmh_state
  BY <1>2, <1>3, AfterSwitch
<1> DEFINE lo == loose \cup on(client, d)
<1>5. Right(client, stacking, loose, published) /\ Good(client) /\ lo \subseteq Windows
  BY OnIs DEF IInv, Right
<1>6. collect_clients(a) \subseteq collect_clients(client)
  BY <1>4 DEF collect_clients, managed, Alike
<1>7. \A v \in seen(a, lo) : a[v] = client[v] /\ v \in managed(client)
  BY <1>4, SeenIs
<1>8. seen(a, lo) \subseteq seen(client, loose)
  BY <1>6, <1>7 DEF seen
<1>9. \A v \in seen(a, lo) : stack_key(a, v) = stack_key(client, v) /\ parent_of(a, v) = parent_of(client, v)
  BY <1>4, <1>5, <1>7, SameKey, SameDepth
<1>10. Fewer(client, loose, a, lo)
  BY <1>6, <1>7, <1>8, <1>9 DEF Fewer
<1>11. Right(a, stacking, lo, published)
  BY <1>4, <1>5, <1>10, AfterFewer
<1>12. w # NULL => Right(a, raise_window(stacking, w), lo, published)
  <2>1. w # NULL => w \in Windows /\ w \in lo
    BY <1>2, OnIs DEF restorable
  <2> QED BY <1>11, <2>1, AfterRaise
<1>13. Right(client, stacking, loose, published)'
  BY <1>1, <1>2, <1>3, <1>11, <1>12
<1> QED BY <1>2, <1>3, <1>4, <1>13 DEF IInv

\* The client of a moved window is unlinked and lost, or hidden on the other desktop.
LEMMA MoveNode ==
  ASSUME IInv, NEW w \in managed(client), NEW d \in DesktopIds, move_node(w, d),
         "transfer_node" \in Keys \/ "_NET_WM_DESKTOP" \in Messages
  PROVE  IInv'
<1> DEFINE at   == client[w].desk
           T    == on(client, d) \ {w}
           lost == Cardinality(T) > 1 /\ T \cap tiled_on(client, d) = {}
           gone == [client EXCEPT ![w] = NULL]
           here == [flagged(client, {w}, "HIDDEN") EXCEPT ![w].desk = d]
           c    == IF lost THEN gone ELSE here
<1>1. /\ client' = c
      /\ net_wm_state' = atom_set({w}, "HIDDEN", TRUE)
      /\ mapped' = (mapped \ {w}) \cup
                     (IF at = curr /\ ~lost THEN rendered(c, curr) ELSE {})
      /\ UNCHANGED <<conf, layout, curr, focused_win, mru_counter, stacking, published, loose>>
  BY DEF move_node
<1>2. w \in Windows /\ "HIDDEN" \in Atoms /\ Good(client) /\ Floats(client)
      /\ Right(client, stacking, loose, published) /\ loose \subseteq Windows
      /\ client \in [Windows -> Clients \cup {NULL}]
  BY OnIs, ClientsAre DEF Atoms, IInv, Right, Good
<1>3. net_wm_state' \in [Windows -> SUBSET Atoms]
  BY <1>1, <1>2, AtomSet
<1>4. CASE lost
  <2>1. c = gone
    BY <1>4
  <2>2. /\ Good(gone) /\ managed(gone) = managed(client) \ {w}
        /\ \A v \in Windows : v # w => gone[v] = client[v]
    BY <1>2, OneGone
  <2>3. ~NothingLost
    <3> SUFFICES ASSUME "change_state" \notin Keys, \A u, v \in Dialogs : u = v
                 PROVE  FALSE
      BY DEF NothingLost
    <3>1. T \subseteq managed(client) /\ \A v \in T : client[v].state = "FLOATING"
      BY <1>4, OnIs DEF on, tiled_on
    <3>2. T \subseteq Dialogs
      BY <1>2, <3>1 DEF Floats
    <3>3. \A u, v \in T : u = v
      BY <3>2
    <3>4. Cardinality(T) <= 1
      <4>1. CASE T = {}
        BY <4>1, FS_EmptySet
      <4>2. CASE T # {}
        <5>1. PICK u : T = {u}
          BY <3>3, <4>2
        <5> QED BY <5>1, FS_Singleton
      <4> QED BY <4>1, <4>2
    <3>5. Cardinality(T) \in Nat
      BY <3>1, OnIs, FinitelyMany, FS_Subset, FS_CardinalityType
    <3> QED BY <1>4, <3>4, <3>5
  <2> HIDE DEF gone, lost
  <2>4. collect_clients(gone) \subseteq collect_clients(client) \ {w}
    BY <2>2 DEF collect_clients, managed
  <2>5. seen(gone, loose) \subseteq seen(client, loose) \ {w}
    BY <2>2, <2>4, SeenIs DEF seen
  <2>6. \A v \in seen(gone, loose) : v \in Windows /\ v # w /\ gone[v] = client[v]
    BY <2>2, <2>5, SeenIs
  <2>7. \A v \in seen(gone, loose) : parent_of(gone, v) \in {NULL, parent_of(client, v)}
    <3> TAKE v \in seen(gone, loose)
    <3>1. gone[v] = client[v]
      BY <2>6
    <3>2. \A x : gone[x] # NULL => TRUE
      OBVIOUS
    <3>3. v \in managed(client) /\ v \in managed(gone)
      BY <2>2, SeenIs
    <3>4. client[v].transient_for \in Windows \cup {NULL}
      BY <1>2, <3>3, ClientFields
    <3>5. client[v].transient_for \in managed(gone) => client[v].transient_for \in managed(client)
      BY <2>2
    <3> QED BY <3>1, <3>4, <3>5 DEF parent_of, managed
  <2>8. Fewer(client, loose, gone, loose)
    BY <2>3, <2>4, <2>5, <2>6, <2>7 DEF Fewer
  <2>9. Right(gone, stacking, loose, published)
    BY <1>2, <2>2, <2>8, AfterFewer
  <2>10. Floats(gone)
    BY <1>2, <2>2, OnIs, StillFloats
  <2>11. mapped' = mapped \ {w}
    BY <1>1, <1>4
  <2>12. Typed'
    BY <1>1, <1>3, <2>1, <2>2, <2>11 DEF IInv, Typed
  <2> QED BY <1>1, <2>1, <2>9, <2>10, <2>12 DEF IInv
<1>5. CASE ~lost
  <2>0. PICK f : f = flagged(client, {w}, "HIDDEN")
    OBVIOUS
  <2>1. /\ Good(f) /\ managed(f) = managed(client)
        /\ \A v \in Windows : v # w => f[v] = client[v]
        /\ f[w] = WithAtom(client[w], "HIDDEN")
    BY <1>2, <2>0, OneFlagged
  <2>2. Alike(client, f)
    <3>1. PICK S : S = {w} /\ S \subseteq managed(client)
      OBVIOUS
    <3> QED BY <1>2, <2>0, <3>1, HiddenAlike
  <2>3. client[w] \in Clients
    BY <1>2, ClientFields
  <2>4. f[w] \in Clients /\ f[w].ewmh_state = client[w].ewmh_state \cup {"HIDDEN"}
        /\ f[w].transient_for = client[w].transient_for
    BY <1>2, <2>1, <2>3, AtomAdded
  <2>5. [f[w] EXCEPT !.desk = d] \in Clients
    BY <2>4 DEF Clients
  <2>6. PICK r \in Clients : r = [f[w] EXCEPT !.desk = d]
    BY <2>5
  <2>7. /\ r.transient_for = f[w].transient_for /\ r.state = f[w].state
        /\ r.override_redirect = f[w].override_redirect /\ r.ewmh_state = f[w].ewmh_state
    BY <2>4, <2>6 DEF Clients
  <2>8. r.transient_for \in {NULL, TransientFor[w]} /\ f \in [Windows -> Clients \cup {NULL}]
    BY <1>2, <2>1, <2>4, <2>7 DEF Good, managed
  <2>9. c = [f EXCEPT ![w] = r]
    BY <1>5, <2>0, <2>6
  <2> HIDE DEF c, lost
  <2>10. /\ Good(c) /\ managed(c) = managed(client)
         /\ c[w] = r /\ \A v \in Windows : v # w => c[v] = f[v]
    <3>1. Good([f EXCEPT ![w] = r]) /\ managed([f EXCEPT ![w] = r]) = managed(f) \cup {w}
      <4>1. w \in Windows /\ r \in Clients /\ Good(f) /\ r.transient_for \in {NULL, TransientFor[w]}
        BY <1>2, <2>1, <2>6, <2>8
      <4> QED BY <4>1, OneChanged, Zenon
    <3>2. c[w] = r /\ \A v \in Windows : v # w => c[v] = f[v]
      BY <1>2, <2>8, <2>9
    <3> QED BY <2>1, <2>9, <3>1, <3>2
  <2>11. Alike(f, c)
    BY <2>1, <2>7, <2>10, OnIs DEF Alike
  <2>12. Alike(client, c)
    BY <2>2, <2>11, AlikeTrans
  <2>13. collect_clients(c) \subseteq collect_clients(client)
    BY <2>12 DEF collect_clients, managed, Alike
  <2>14. \A v \in seen(c, loose) : v # w /\ c[v] = client[v] /\ v \in managed(client)
    BY <2>1, <2>4, <2>7, <2>10, SeenIs
  <2>15. seen(c, loose) \subseteq seen(client, loose)
    BY <2>13, <2>14 DEF seen
  <2>16. \A v \in seen(c, loose) : stack_key(c, v) = stack_key(client, v) /\ parent_of(c, v) = parent_of(client, v)
    BY <1>2, <2>10, <2>12, <2>14, SameKey, SameDepth
  <2>17. Fewer(client, loose, c, loose)
    BY <2>13, <2>14, <2>15, <2>16 DEF Fewer
  <2>18. Right(c, stacking, loose, published)
    BY <1>2, <2>10, <2>17, AfterFewer
  <2>19. Floats(c)
    BY <1>2, <2>12, StillFloats DEF Alike
  <2>20. mapped' \subseteq managed(c)
    BY <1>1, <2>10, OnIs DEF IInv, Typed
  <2>21. Typed'
    BY <1>1, <1>3, <2>20 DEF IInv, Typed
  <2> QED BY <1>1, <2>18, <2>19, <2>21 DEF IInv
<1> QED BY <1>4, <1>5


-----------------------------------------------------------------------------
(* The theorems.                                                           *)

LEMMA Initially == Init => IInv
<1> SUFFICES ASSUME Init PROVE IInv
  OBVIOUS
<1> DEFINE c == [w \in Windows |-> NULL]
           s == in_order(WindowOrder)
<1>1. /\ conf \in Configurations /\ client = c /\ layout = [d \in DesktopIds |-> "DEFAULT"]
      /\ curr = 0 /\ focused_win = NULL /\ mru_counter = 1 /\ mapped = {}
      /\ net_wm_state = AskedState /\ stacking = s /\ published = <<>> /\ loose = {}
  BY DEF Init
<1>2. managed(c) = {} /\ collect_clients(c) = {} /\ Good(c)
  BY DEF managed, collect_clients, Good
<1>3. Typed
  BY <1>1, <1>2, StackingAssumption, Apart DEF Typed, Layouts
<1>4. Floats(c)
  BY <1>2 DEF Floats
<1>5. \A v, w \in Windows : <<v, w>> \in s <=> xid(v) < xid(w)
  <2> TAKE v \in Windows, w \in Windows
  <2>1. <<v, w>> \in s <=> \E i, j \in DOMAIN WindowOrder :
                              i < j /\ v = WindowOrder[i] /\ w = WindowOrder[j]
    BY DEF in_order
  <2> QED BY <2>1, WindowIds
<1>6. \A w \in Windows : xid(w) \in Nat /\ WindowOrder[xid(w)] = w
  BY WindowIds
<1>7. s \subseteq Windows \X Windows
  BY DEF in_order
<1> HIDE DEF s, c
<1>8. Stacked(s)
  <2>1. \A v, w \in Windows : <<v, w>> \in s <=> v # w /\ <<w, v>> \notin s
    <3> TAKE v \in Windows, w \in Windows
    <3>1. v # w => xid(v) # xid(w)
      BY <1>6
    <3>2. xid(v) < xid(w) <=> v # w /\ ~(xid(w) < xid(v))
      BY <1>6, <3>1
    <3> QED BY <1>5, <3>2
  <2>2. \A u, v, w \in Windows : <<u, v>> \in s /\ <<v, w>> \in s => <<u, w>> \in s
    BY <1>5, <1>6
  <2> QED BY <1>7, <2>1, <2>2 DEF Stacked
<1>9. Lists(c, <<>>)
  BY <1>2 DEF Lists, IsInjective, ToSet
<1>10. seen(c, {}) = {}
  BY <1>2 DEF seen
<1>11. Right(c, s, {}, <<>>)
  BY <1>2, <1>8, <1>9, <1>10 DEF Right, FullAbove, DialogsOver, KeysAgree
<1> QED BY <1>1, <1>3, <1>4, <1>11 DEF IInv

LEMMA Stepping == IInv /\ [Next]_vars => IInv'
<1> SUFFICES ASSUME IInv, [Next]_vars PROVE IInv'
  OBVIOUS
<1>1. ASSUME NEW w \in Windows, handle_enter_notify(w) PROVE IInv'
  BY <1>1, EnterNotify
<1>2. ASSUME NEW w \in Windows, handle_button_press(w) PROVE IInv'
  BY <1>2, ButtonPress
<1>3. ASSUME NEW w \in Windows, cycle_win_wrapper(w) PROVE IInv'
  BY <1>3, CycleWin
<1>4. ASSUME NEW w \in Windows, traverse_stack_wrapper(w) PROVE IInv'
  BY <1>4, TraverseStack
<1>5. ASSUME NEW w \in Windows, set_fullscreen_wrapper(w) PROVE IInv'
  BY <1>5, SetFullscreen
<1>6. ASSUME NEW w \in Windows, NEW s \in {"TILED", "FLOATING"}, change_state(s, w) PROVE IInv'
  BY <1>6, ChangeState
<1>7. ASSUME NEW w \in Windows, NEW d \in DesktopIds, transfer_node_wrapper(w, d) PROVE IInv'
  <2>1. "transfer_node" \in Keys /\ w \in managed(client) /\ move_node(w, d)
    BY <1>7, OnIs DEF transfer_node_wrapper
  <2> QED BY <2>1, MoveNode
<1>8. ASSUME NEW t \in Layouts, layout_handler(t) PROVE IInv'
  BY <1>8, LayoutHandler
<1>9. ASSUME NEW d \in DesktopIds, NEW w, switch_desktop_wrapper(d, w) PROVE IInv'
  BY <1>9, SwitchDesktop
<1>10. ASSUME NEW w \in Windows, handle_map_request(w) PROVE IInv'
  BY <1>10, MapRequest
<1>11. ASSUME NEW w \in Windows, handle_unmap_notify(w) PROVE IInv'
  BY <1>11, UnmapNotify
<1>12. ASSUME NEW w \in Windows, NEW action, NEW atom \in StateAtoms,
              handle_net_wm_state(w, action, atom)
       PROVE  IInv'
  BY <1>12, NetWmState
<1>13. ASSUME NEW w \in Windows, NEW d \in DesktopIds, handle_net_wm_desktop(w, d) PROVE IInv'
  <2>1. "_NET_WM_DESKTOP" \in Messages /\ w \in managed(client) /\ move_node(w, d)
    BY <1>13 DEF handle_net_wm_desktop, managed
  <2> QED BY <2>1, MoveNode
<1>14. ASSUME NEW d \in DesktopIds, NEW w, handle_net_desktop_change(d, w) PROVE IInv'
  BY <1>14, DesktopChange
<1>15. CASE pointer_event
  BY <1>1, <1>2, <1>15 DEF pointer_event
<1>16. CASE key_event
  BY <1>3, <1>4, <1>5, <1>6, <1>7, <1>8, <1>9, <1>16 DEF key_event
<1>17. CASE client_event
  BY <1>10, <1>11, <1>12, <1>13, <1>14, <1>17 DEF client_event
<1>18. CASE UNCHANGED vars
  BY <1>18 DEF vars, IInv, Typed, Right, Floats
<1> QED BY <1>15, <1>16, <1>17, <1>18 DEF Next

LEMMA Always == Spec => []IInv
BY Initially, Stepping, PTL DEF Spec

\* Every variable has its type, the mapped windows are managed, and the server's order
\* of the windows is a strict order of them all.
THEOREM TypeCorrect == Spec => []TypeOK
<1>1. IInv => TypeOK
  <2> SUFFICES ASSUME IInv PROVE TypeOK
    OBVIOUS
  <2>1. Typed /\ Right(client, stacking, loose, published)
    BY DEF IInv
  <2>2. /\ client \in [Windows -> Clients \cup {NULL}] /\ loose \subseteq Windows
        /\ published \in Seq(Windows)
    BY <2>1 DEF Right, Good, Lists
  <2>3. Stacked(stacking)
    BY <2>1 DEF Right
  <2>4. /\ stacking \subseteq Windows \X Windows
        /\ \A v, w \in Windows : over(v, w) <=> v # w /\ ~over(w, v)
        /\ \A u, v, w \in Windows : over(u, v) /\ over(v, w) => over(u, w)
    BY <2>3 DEF Stacked, over
  <2>5. managed(client) = Managed
    BY DEF managed, Managed
  <2> QED BY <2>1, <2>2, <2>4, <2>5 DEF TypeOK, Typed
<1> QED BY <1>1, Always, PTL

\* The published list names every window zwm manages, once: no handler that manages a
\* window forgets the list.
THEOREM ListedAlways == Spec => []Listed
<1>1. IInv => Listed
  BY DEF IInv, Right, Lists, Listed
<1> QED BY <1>1, Always, PTL

\* What is settled on the screen is among the windows the last restack decided on.
LEMMA SettledSeen == Settled \subseteq seen(client, loose)
BY DEF Settled, seen

\* A fullscreen window is over every window on the screen that is not, whatever was
\* focused, shown or moved since it became one.
THEOREM FullscreenAboveAlways == Spec => []FullscreenAbove
<1>1. IInv => FullscreenAbove
  BY SettledSeen DEF IInv, Right, FullAbove, FullScreen, FullscreenAbove, over
<1> QED BY <1>1, Always, PTL

\* A dialog is over the window it is transient for, if that is not itself a dialog's
\* dialog: stack_layer raises a transient to its parent's own layer, which need not be
\* the one the parent was raised to.
THEOREM DialogAboveAlways ==
  ASSUME Flat
  PROVE  Spec => []DialogAbove
<1>1. IInv => DialogAbove
  BY SettledSeen DEF IInv, Right, DialogsOver, FullScreen, DialogAbove, over
<1> QED BY <1>1, Always, PTL

\* What is on the screen is stacked as its keys say, if no move to another desktop
\* loses a client: the loss of a parent changes the keys of its dialogs, and nothing
\* restacks them.
THEOREM OrderedAlways ==
  ASSUME NothingLost
  PROVE  Spec => []Ordered
<1>1. IInv => Ordered
  <2> SUFFICES ASSUME IInv PROVE Ordered
    OBVIOUS
  <2> DEFINE Plain == {w \in Settled : client[w].state # "FULLSCREEN"}
             key   == [w \in Plain |-> stack_key(client, w)]
  <2>1. KeysAgree(client, stacking, loose)
    BY DEF IInv, Right
  <2>2. \A v, w \in Plain : below(client, v, w) => over(w, v)
    BY <2>1, SettledSeen DEF KeysAgree, FullScreen, over
  <2>3. \A v, w \in Plain : key_less(key[v], key[w]) => over(w, v)
    BY <2>2 DEF below
  <2> QED BY <2>3 DEF Ordered
<1> QED BY <1>1, Always, PTL

=============================================================================
